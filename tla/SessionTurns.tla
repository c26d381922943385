---------------------------- MODULE SessionTurns ----------------------------
(***************************************************************************)
(* One session of the app-server: the turn launcher, stop, approve and     *)
(* delete handlers of packages/cli/src/appserver/server.js and the agent   *)
(* loop of packages/cli/src/agent/loop.js they start.                      *)
(*                                                                         *)
(* The engine is one JavaScript event loop, so a step of this module is    *)
(* what runs between two awaits.  Sessions share no turn state, so one     *)
(* session is modelled; each element of Turns is one session/send request. *)
(* Plan mode and user questions are in module Interactions, compaction is  *)
(* in module History.                                                      *)
(***************************************************************************)
EXTENDS Integers, Sequences, FiniteSets

CONSTANTS
  Turns,          \* session/send requests
  YoloTurns,      \* the ones sent with permission mode yolo
  Tools,          \* tool names the model may call
  Dangerous,      \* the tools marked danger: true
  Replies,        \* the tool-call lists a model response may carry
  MaxIterations,  \* config.maxIterations
  MaxCrashes,     \* bound on engine crashes
  NoTurn          \* t.abort = null

ASSUME ToolsAssumption == Dangerous \subseteq Tools /\ Replies \subseteq Seq(Tools)
ASSUME TurnsAssumption ==
  /\ YoloTurns \subseteq Turns /\ NoTurn \notin Turns
  /\ MaxIterations \in Nat \ {0} /\ MaxCrashes \in Nat

VARIABLES
  alive,     \* the session row exists in storage
  msgs,      \* its messages, in storage order
  running,   \* t.running
  abort,     \* whose AbortController t.abort is
  perms,     \* t.pendingPerms: the turns whose request is registered
  turn,      \* per request: program counter and locals of launchTurn/runAgentTurn
  granted,   \* history: tools the user approved with "always" in this session
  crashes

vars == <<alive, msgs, running, abort, perms, turn, granted, crashes>>
tState == <<running, abort, perms>>

(* A message: its role, the turn that wrote it, its number of tool_use parts. *)
Message(role, x, n) == [role |-> role, by |-> x, uses |-> n]
Messages == [role : {"user", "assistant", "tool"}, by : Turns, uses : Nat]

PCs == {"new", "rejected", "ready", "compact", "model", "tool", "perm", "exec", "done", "dead"}
InProgress == {"compact", "model", "tool", "perm", "exec"}

Active(x) == turn[x].pc \in InProgress

(* What launchTurn starts with. *)
Fresh == [pc |-> "new", aborted |-> FALSE, iter |-> 0, calls |-> <<>>, always |-> {}]

Append1(role, x, n) == msgs' = Append(msgs, Message(role, x, n))

-----------------------------------------------------------------------------
(* launchTurn *)

(* session/send answers {started: true} at once; launchTurn throws into    *)
(* the log when the session is gone or busy, and otherwise waits for the   *)
(* extensions.                                                             *)
SendUnguarded(x) ==   \* faulty: the busy flag is not looked at
  /\ turn[x].pc = "new"
  /\ turn' = [turn EXCEPT ![x].pc = IF alive THEN "ready" ELSE "rejected"]
  /\ UNCHANGED <<alive, msgs, tState, granted, crashes>>

Send(x) ==
  /\ turn[x].pc = "new"
  /\ turn' = [turn EXCEPT ![x].pc = IF alive /\ ~running THEN "ready" ELSE "rejected"]
  /\ UNCHANGED <<alive, msgs, tState, granted, crashes>>

(* extensionsReady has resolved: the session is marked busy and the turn   *)
(* starts.                                                                 *)
Start(x) ==
  /\ turn[x].pc = "ready"
  /\ running' = TRUE
  /\ abort' = x
  /\ turn' = [turn EXCEPT ![x].pc = "compact"]
  /\ UNCHANGED <<alive, msgs, perms, granted, crashes>>

(* The turn is over: turn_done, then launchTurn's finally block. *)
Ended(x) ==
  /\ running' = FALSE
  /\ abort' = NoTurn
  /\ perms' = {}
  /\ turn' = [turn EXCEPT ![x].pc = "done", ![x].calls = <<>>]

-----------------------------------------------------------------------------
(* runAgentTurn *)

(* After the compaction check the user's message is stored. *)
PersistUser(x) ==
  /\ turn[x].pc = "compact"
  /\ Append1("user", x, 0)
  /\ turn' = [turn EXCEPT ![x].pc = "model"]
  /\ UNCHANGED <<alive, tState, granted, crashes>>

(* The model's response is stored; without tool calls it is the answer. *)
ModelAnswers(x, calls) ==
  /\ turn[x].pc = "model"
  /\ ~turn[x].aborted
  /\ Append1("assistant", x, Len(calls))
  /\ IF calls = <<>>
       THEN Ended(x)
       ELSE /\ turn' = [turn EXCEPT ![x].pc = "tool", ![x].calls = calls, ![x].iter = @ + 1]
            /\ UNCHANGED tState
  /\ UNCHANGED <<alive, granted, crashes>>

(* The request fails, or stop aborts it; a stopped stream may leave the    *)
(* text it had delivered.                                                  *)
ModelFailsUnheard(x) ==   \* faulty: the request does not get the abort signal
  /\ turn[x].pc = "model"
  /\ ~turn[x].aborted
  /\ UNCHANGED msgs
  /\ Ended(x)
  /\ UNCHANGED <<alive, granted, crashes>>

ModelFails(x) ==
  /\ turn[x].pc = "model"
  /\ \/ UNCHANGED msgs
     \/ turn[x].aborted /\ Append1("assistant", x, 0)
  /\ Ended(x)
  /\ UNCHANGED <<alive, granted, crashes>>

Call(x) == Head(turn[x].calls)

WantsApprovalUnlessStopped(x) ==   \* faulty: a stopped turn does not ask
  /\ Call(x) \in Dangerous
  /\ x \notin YoloTurns
  /\ ~turn[x].aborted
  /\ Call(x) \notin turn[x].always

WantsApproval(x) ==
  /\ Call(x) \in Dangerous
  /\ x \notin YoloTurns
  /\ Call(x) \notin turn[x].always

(* A tool_result is stored; the loop takes the next call, the next         *)
(* iteration, or ends.  It does not look at the abort signal.              *)
StoreResult(x, pending, aborted) ==
  /\ Append1("tool", x, 0)
  /\ IF Len(turn[x].calls) = 1 /\ turn[x].iter >= MaxIterations
       THEN Ended(x)
       ELSE /\ turn' = [turn EXCEPT ![x].calls = Tail(@), ![x].aborted = aborted,
                                    ![x].pc = IF Len(turn[x].calls) = 1 THEN "model" ELSE "tool"]
            /\ perms' = pending
            /\ UNCHANGED <<running, abort>>

(* Plan mode, a PreToolUse hook or an unknown name refuses the call. *)
RefuseToolSilently(x) ==   \* faulty: the refused call gets no result
  /\ turn[x].pc = "tool"
  /\ turn' = [turn EXCEPT ![x].calls = Tail(@),
                          ![x].pc = IF Len(turn[x].calls) = 1 THEN "model" ELSE "tool"]
  /\ UNCHANGED <<alive, msgs, tState, granted, crashes>>

RefuseTool(x) ==
  /\ turn[x].pc = "tool"
  /\ StoreResult(x, perms, turn[x].aborted)
  /\ UNCHANGED <<alive, granted, crashes>>

(* A dangerous call in ask mode registers a permission request ... *)
AskPermissionUnregistered(x) ==   \* faulty: the request is shown but not registered
  /\ turn[x].pc = "tool"
  /\ WantsApproval(x)
  /\ turn' = [turn EXCEPT ![x].pc = "perm"]
  /\ UNCHANGED <<alive, msgs, tState, granted, crashes>>

AskPermission(x) ==
  /\ turn[x].pc = "tool"
  /\ WantsApproval(x)
  /\ perms' = perms \cup {x}
  /\ turn' = [turn EXCEPT ![x].pc = "perm"]
  /\ UNCHANGED <<alive, msgs, running, abort, granted, crashes>>

(* ... any other call runs. *)
RunTool(x) ==
  /\ turn[x].pc = "tool"
  /\ ~WantsApproval(x)
  /\ turn' = [turn EXCEPT ![x].pc = "exec"]
  /\ UNCHANGED <<alive, msgs, tState, granted, crashes>>

(* The tool returns or throws; either way there is a result. *)
ToolReturns(x) ==
  /\ turn[x].pc = "exec"
  /\ StoreResult(x, perms, turn[x].aborted)
  /\ UNCHANGED <<alive, granted, crashes>>

-----------------------------------------------------------------------------
(* session/approve: only a registered request is resolved. *)

ApproveAllow(x, always) ==
  /\ x \in perms
  /\ perms' = perms \ {x}
  /\ turn' = [turn EXCEPT ![x].pc = "exec",
                          ![x].always = IF always THEN @ \cup {Call(x)} ELSE @]
  /\ granted' = IF always THEN granted \cup {Call(x)} ELSE granted
  /\ UNCHANGED <<alive, msgs, running, abort, crashes>>

(* The user denies: the denial is the tool's result.  No client sends      *)
(* "always" with a denial.                                                 *)
ApproveDeny(x) ==
  /\ x \in perms
  /\ StoreResult(x, perms \ {x}, turn[x].aborted)
  /\ UNCHANGED <<alive, granted, crashes>>

(* session/stop: aborts the turn t.abort belongs to.  The first abort also *)
(* rejects the permission request that turn is waiting on.                 *)
Stop ==
  /\ abort # NoTurn
  /\ ~turn[abort].aborted
  /\ IF turn[abort].pc = "perm"
       THEN StoreResult(abort, perms \ {abort}, TRUE)
       ELSE /\ turn' = [turn EXCEPT ![abort].aborted = TRUE]
            /\ UNCHANGED <<msgs, tState>>
  /\ UNCHANGED <<alive, granted, crashes>>

(* session/delete: refused while running. *)
DeleteUnguarded ==   \* faulty: deletes under a running turn
  /\ alive
  /\ alive' = FALSE
  /\ msgs' = <<>>
  /\ UNCHANGED <<tState, turn, granted, crashes>>

Delete ==
  /\ alive
  /\ ~running
  /\ alive' = FALSE
  /\ msgs' = <<>>
  /\ UNCHANGED <<tState, turn, granted, crashes>>

(* The engine dies and is restarted by the host: all of t is lost. *)
Crash ==
  /\ crashes < MaxCrashes
  /\ crashes' = crashes + 1
  /\ \E x \in Turns : Active(x) \/ turn[x].pc = "ready"
  /\ turn' = [x \in Turns |-> IF Active(x) \/ turn[x].pc = "ready"
                                THEN [turn[x] EXCEPT !.pc = "dead"] ELSE turn[x]]
  /\ running' = FALSE /\ abort' = NoTurn /\ perms' = {}
  /\ UNCHANGED <<alive, msgs, granted>>

-----------------------------------------------------------------------------
Init ==
  /\ alive = TRUE
  /\ msgs = <<>>
  /\ running = FALSE /\ abort = NoTurn /\ perms = {}
  /\ turn = [x \in Turns |-> Fresh]
  /\ granted = {}
  /\ crashes = 0

(* What the engine does by itself, the model and the tools included. *)
Engine(x) ==
  \/ Start(x) \/ PersistUser(x)
  \/ (\E calls \in Replies : ModelAnswers(x, calls)) \/ ModelFails(x)
  \/ RefuseTool(x) \/ AskPermission(x) \/ RunTool(x) \/ ToolReturns(x)

User(x) ==
  \/ Send(x)
  \/ (\E always \in BOOLEAN : ApproveAllow(x, always)) \/ ApproveDeny(x)

Next == (\E x \in Turns : Engine(x) \/ User(x)) \/ Stop \/ Delete \/ Crash

Spec == Init /\ [][Next]_vars

(* No second request of the session is handled while a launch waits for    *)
(* the extensions: the window is the start-up of the MCP servers, and      *)
(* afterwards one microtask (two requests read in one chunk).              *)
Spaced ==
  \A x \in Turns : turn[x].pc = "ready" =>
    /\ alive' = alive
    /\ \A y \in Turns : turn[y].pc = "new" => turn'[y].pc = "new"
SpacedNext == Next /\ Spaced
SpacedSpec == Init /\ [][SpacedNext]_vars
FairSpacedSpec == SpacedSpec /\ \A x \in Turns : WF_vars(Engine(x))

-----------------------------------------------------------------------------
(* Properties *)

TypeOK ==
  /\ alive \in BOOLEAN /\ running \in BOOLEAN
  /\ msgs \in Seq(Messages)
  /\ abort \in Turns \cup {NoTurn}
  /\ perms \subseteq Turns
  /\ turn \in [Turns -> [pc : PCs, aborted : BOOLEAN, iter : Nat,
                         calls : Seq(Tools), always : SUBSET Tools]]
  /\ granted \subseteq Tools
  /\ crashes \in Nat

\* A session processes one message at a time, its busy flag says whether it
\* does, and stop reaches the turn that does.
OneTurnAtATime ==
  /\ \A x, y \in Turns : Active(x) /\ Active(y) => x = y
  /\ running <=> \E x \in Turns : Active(x)
  /\ \A x \in Turns : Active(x) <=> abort = x

\* Whoever waits for a permission can still be answered: its request is
\* registered, and nothing else is.
WaitsAreAnswerable == \A x \in Turns : turn[x].pc = "perm" <=> x \in perms

\* A stored response with tool calls is followed by exactly its results,
\* before any other message, as the provider APIs demand; calls are left
\* unanswered only by the turn at work and by a turn the engine died in.
ResultsFollowCalls ==
  \A i \in DOMAIN msgs : \A k \in 1..msgs[i].uses :
    IF i + k \in DOMAIN msgs
      THEN \/ msgs[i + k].role = "tool" /\ msgs[i + k].by = msgs[i].by
           \/ turn[msgs[i].by].pc = "dead"
      ELSE Active(msgs[i].by) \/ turn[msgs[i].by].pc = "dead"

\* A deleted session stays empty: no turn writes into it afterwards.
DeletedStaysEmpty == ~alive => msgs = <<>>

\* A dangerous tool starts in an ask-mode turn only as the user's answer to a
\* request of that turn, for that call or with "always" for that tool.
DangerNeedsApproval ==
  [][\A x \in Turns \ YoloTurns :
       turn[x].pc # "exec" /\ turn'[x].pc = "exec" /\ Call(x) \in Dangerous =>
         x \in perms \/ Call(x) \in turn[x].always \cap granted]_vars

\* Stop ends a turn that needs no permission: the request in flight is
\* aborted, and the calls that were already decided on run out.
StopEndsYoloTurn ==
  \A x \in YoloTurns : (Active(x) /\ turn[x].aborted) ~> ~Active(x)
=============================================================================
