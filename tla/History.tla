------------------------------- MODULE History -------------------------------
(***************************************************************************)
(* The message history of one session: what getMessages returns from       *)
(* packages/cli/src/storage, how turns append to it, and how packages/cli/ *)
(* src/compact.js rewrites it, before a turn (maybeAutoCompact) or by the  *)
(* session/compact request, which does not wait for a running turn.        *)
(*                                                                         *)
(* A message is the number of the append that stored it and the time it    *)
(* was stored at; the marker message of a compaction has number 0 and the  *)
(* set of messages its summary was written from.                           *)
(***************************************************************************)
EXTENDS Integers, Sequences, FiniteSets

CONSTANTS
  Requests,     \* session/compact requests
  KeepChoices,  \* the keepRecent values they carry
  AutoKeep,     \* summarize's default keepRecent (6)
  AutoMinimum,  \* maybeAutoCompact's least number of messages (10)
  MaxMessages,  \* bound on appended messages
  AutoJob       \* names the compaction a turn starts with

ASSUME HistoryAssumption ==
  /\ AutoJob \notin Requests
  /\ KeepChoices \subseteq Nat \ {0} /\ AutoKeep \in Nat \ {0}
  /\ AutoMinimum \in Nat /\ MaxMessages \in Nat

VARIABLES
  backend,   \* which storage getStorage chose
  hist,      \* the session's messages as getMessages returns them
  now,       \* Date.now(), as far as storage sees it
  appended,  \* how many messages were appended
  turn,      \* idle, opening (maybeAutoCompact), or working
  job        \* per compaction: its phase and what summarize read

historyVars == <<backend, hist, now, appended, turn, job>>

Jobs == Requests \cup {AutoJob}
Message(n, covers, t) == [n |-> n, covers |-> covers, ts |-> t]
NoJob == [pc |-> "idle", snap |-> <<>>, keep |-> 0]

(* Everything a list of messages says, verbatim or in a summary. *)
Content(list) ==
  UNION {(IF list[i].n = 0 THEN {} ELSE {list[i].n}) \cup list[i].covers : i \in DOMAIN list}

-----------------------------------------------------------------------------
(* storage *)

(* SqliteStorage.getMessages: ORDER BY created_at, rowid.  A message comes *)
(* at the place that the number of messages before it gives it.            *)
BeforeTies(list, i, j) ==   \* faulty: ORDER BY created_at alone
  list[i].ts < list[j].ts \/ (list[i].ts = list[j].ts /\ i > j)
Before(list, i, j) ==
  list[i].ts < list[j].ts \/ (list[i].ts = list[j].ts /\ i < j)
Place(list, i) == 1 + Cardinality({j \in DOMAIN list : Before(list, j, i)})
ByTime(list) ==
  [k \in DOMAIN list |-> list[CHOOSE i \in DOMAIN list : Place(list, i) = k]]

(* What a list written by replaceMessages reads like. *)
AsRead(list) == IF backend = "sqlite" THEN ByTime(list) ELSE list

(* appendMessage: the clock may have moved since the last write. *)
AppendMessage ==
  /\ appended < MaxMessages
  /\ appended' = appended + 1
  /\ now' \in {now, now + 1}
  /\ hist' = Append(hist, Message(appended', {}, now'))
  /\ UNCHANGED <<backend, job>>

-----------------------------------------------------------------------------
(* summarize *)

(* How many messages stay. *)
Keep(keepRecent, len) ==
  LET most == IF len - 1 > 2 THEN len - 1 ELSE 2
  IN  IF keepRecent < most THEN keepRecent ELSE most

Old(snap, keep) == SubSeq(snap, 1, Len(snap) - keep)
RecentShort(snap, keep) ==   \* faulty: off by one
  IF Len(snap) <= keep THEN snap ELSE SubSeq(snap, Len(snap) - keep + 2, Len(snap))
Recent(snap, keep) ==
  IF Len(snap) <= keep THEN snap ELSE SubSeq(snap, Len(snap) - keep + 1, Len(snap))

(* The history is read and the model is asked for a summary. *)
Summarizing(keepRecent) ==
  [pc |-> "summarizing", snap |-> hist, keep |-> Keep(keepRecent, Len(hist))]

TooFew(keepRecent, force) == ~force /\ Len(hist) <= keepRecent + 2

(* session/compact *)
CompactRequest(r, keepRecent, force) ==
  /\ job[r].pc = "idle"
  /\ job' = [job EXCEPT ![r] = IF TooFew(keepRecent, force) THEN [NoJob EXCEPT !.pc = "done"]
                               ELSE Summarizing(keepRecent)]
  /\ UNCHANGED <<backend, hist, now, appended, turn>>

(* The list summarize writes: marker, acknowledgement, recent messages     *)
(* with the time they were first stored at.                                *)
Rewritten(snap, keep, t) ==
  <<Message(0, Content(Old(snap, keep)), t), Message(0, {}, t)>> \o Recent(snap, keep)

(* The summary has come: replaceMessages. *)
SummaryArrives(j) ==
  /\ job[j].pc = "summarizing"
  /\ now' \in {now, now + 1}
  /\ hist' = AsRead(Rewritten(job[j].snap, job[j].keep, now'))
  /\ job' = [job EXCEPT ![j] = IF j = AutoJob THEN NoJob ELSE [NoJob EXCEPT !.pc = "done"]]
  /\ UNCHANGED <<backend, appended, turn>>

(* The model call fails or returns no text: nothing is rewritten. *)
SummaryFails(j) ==
  /\ job[j].pc = "summarizing"
  /\ job' = [job EXCEPT ![j] = IF j = AutoJob THEN NoJob ELSE [NoJob EXCEPT !.pc = "done"]]
  /\ UNCHANGED <<backend, hist, now, appended, turn>>

-----------------------------------------------------------------------------
(* runAgentTurn *)

(* maybeAutoCompact: over the token budget with more than AutoMinimum      *)
(* messages.                                                               *)
BeginTurn ==
  /\ turn = "idle"
  /\ turn' = "opening"
  /\ \/ UNCHANGED job
     \/ /\ Len(hist) > AutoMinimum
        /\ ~TooFew(AutoKeep, FALSE)
        /\ job' = [job EXCEPT ![AutoJob] = Summarizing(AutoKeep)]
  /\ UNCHANGED <<backend, hist, now, appended>>

PersistUser ==
  /\ turn = "opening"
  /\ job[AutoJob].pc = "idle"
  /\ turn' = "working"
  /\ AppendMessage

(* A model response or a tool result. *)
PersistMore ==
  /\ turn = "working"
  /\ AppendMessage
  /\ UNCHANGED turn

EndTurn ==
  /\ turn = "working"
  /\ turn' = "idle"
  /\ UNCHANGED <<backend, hist, now, appended, job>>

(* The engine dies; the turn and the compactions are gone. *)
Crash ==
  /\ turn # "idle" \/ \E j \in Jobs : job[j].pc = "summarizing"
  /\ turn' = "idle"
  /\ job' = [j \in Jobs |-> IF job[j].pc # "summarizing" THEN job[j]
                            ELSE IF j = AutoJob THEN NoJob ELSE [NoJob EXCEPT !.pc = "done"]]
  /\ UNCHANGED <<backend, hist, now, appended>>

-----------------------------------------------------------------------------
HistoryInit ==
  /\ backend \in {"sqlite", "json"}
  /\ hist = <<>>
  /\ now = 1
  /\ appended = 0
  /\ turn = "idle"
  /\ job = [j \in Jobs |-> NoJob]

HistoryNext ==
  \/ BeginTurn \/ PersistUser \/ PersistMore \/ EndTurn
  \/ \E r \in Requests, keepRecent \in KeepChoices, force \in BOOLEAN :
       CompactRequest(r, keepRecent, force)
  \/ \E j \in Jobs : SummaryArrives(j) \/ SummaryFails(j)
  \/ Crash

(* The code as it is. *)
HistorySpec == HistoryInit /\ [][HistoryNext]_historyVars

(* No message is stored while a summary is being written: nobody sends     *)
(* session/compact to a session that is running a turn, or the reverse.    *)
Quiet == appended' # appended => \A j \in Jobs : job[j].pc # "summarizing"
QuietSpec == HistoryInit /\ [][HistoryNext /\ Quiet]_historyVars

-----------------------------------------------------------------------------
(* Properties *)

Messages == [n : 0..MaxMessages, covers : SUBSET (1..MaxMessages), ts : Nat]

HistoryTypeOK ==
  /\ backend \in {"sqlite", "json"}
  /\ hist \in Seq(Messages)
  /\ now \in Nat /\ appended \in 0..MaxMessages
  /\ turn \in {"idle", "opening", "working"}
  /\ job \in [Jobs -> [pc : {"idle", "summarizing", "done"}, snap : Seq(Messages), keep : Nat]]

\* Compactions, overlapping or on top of each other, forget nothing: every
\* message ever stored is in the history, verbatim or in a summary that is.
NothingForgotten == Content(hist) = 1..appended

\* The messages that are left verbatim keep their order, and none appears
\* twice, in both storages and at any resolution of their clock.
OrderKept ==
  \A i, j \in DOMAIN hist : i < j /\ hist[i].n # 0 /\ hist[j].n # 0 => hist[i].n < hist[j].n

=============================================================================
