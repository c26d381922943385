----------------------------- MODULE Automations -----------------------------
(***************************************************************************)
(* The scheduled-task engine of packages/cli/src/automations.js over the   *)
(* SQLite store of packages/cli/src/storage/sqlite.js.                     *)
(*                                                                         *)
(* Several processes (the desktop app's engine, `serve`, a TUI) share one  *)
(* database file.  Each SQL statement is one atomic step; everything a     *)
(* process remembers between two statements (the due list, the row it      *)
(* read, the next time it computed) is local and may be stale.  A tick     *)
(* that overlaps another tick of the same process behaves like a tick of   *)
(* one more process.                                                       *)
(*                                                                         *)
(* Times are natural numbers; 0 is SQL's NULL.                             *)
(***************************************************************************)
EXTENDS Integers, FiniteSets

CONSTANTS
  Procs,           \* processes that run a scheduler over the shared database
  Autos,           \* automation ids
  Schedules,       \* the schedules users choose from
  RunLimits,       \* the maxRuns values users choose from; 0 is "no limit"
  SearchWindow,    \* how far ahead cron.nextRun looks
  Lookahead,       \* runNow ticks with now + 50 ms
  MaxRunsPerTick,  \* tick's maxRunsPerTick
  MaxClock,        \* bound: the clock stops here
  MaxEdits,        \* bound on edits of existing rows (update, delete)
  MaxRunNow,       \* bound on runNow requests
  MaxCrashes       \* bound on process crashes

Null == 0
Throws == -1       \* nextRun found no time and threw

ASSUME SchedulesAssumption ==
  /\ Schedules # {}
  /\ \A s \in Schedules :
       /\ s.kind \in {"cron", "every", "once"}
       /\ s.period \in Nat \ {0}
       /\ s.times \subseteq Nat
ASSUME BoundsAssumption ==
  /\ RunLimits \subseteq Nat /\ 0 \in RunLimits
  /\ {SearchWindow, Lookahead, MaxRunsPerTick, MaxClock, MaxEdits, MaxRunNow, MaxCrashes} \subseteq Nat

VARIABLES
  clock,     \* Date.now()
  rows,      \* table automations
  proc,      \* per process: the running tick's program counter and locals
  runs,      \* table automation_runs: finished or not, per (automation, due time)
  fired,     \* history: the (automation, scheduled time) pairs a turn was launched for
  refired,   \* history: the pairs a turn was launched for more than once
  edited,    \* history: automations whose schedule or limit a user changed
  edits, runNows, crashes

vars == <<clock, rows, proc, runs, fired, refired, edited, edits, runNows, crashes>>
bounds == <<edits, runNows, crashes>>
history == <<fired, refired, edited>>

Row == [ sched : Schedules, enabled : BOOLEAN,
         status : {"absent", "active", "completed", "deleted"},
         runCount : Nat, maxRuns : RunLimits, nextRunAt : Nat ]

\* A row as dueAutomations returned it: a copy that ages from then on.
Snapshot == [ id : Autos, row : Row ]

NoRow == [ sched |-> CHOOSE s \in Schedules : TRUE, enabled |-> FALSE, status |-> "absent",
           runCount |-> 0, maxRuns |-> 0, nextRunAt |-> Null ]

Exists(a) == rows[a].status \in {"active", "completed"}

-----------------------------------------------------------------------------
(* Faulty: a window one too short. *)
NextRunShort(s, from) ==
  LET found == {t \in s.times : from < t /\ t < from + SearchWindow}
  IN  IF found = {} THEN Throws
      ELSE CHOOSE t \in found : \A u \in found : t <= u

(* cron.js nextRun: the first calendar match strictly after `from`, within *)
(* the search window; it throws when there is none.                        *)
NextRun(s, from) ==
  LET found == {t \in s.times : from < t /\ t <= from + SearchWindow}
  IN  IF found = {} THEN Throws
      ELSE CHOOSE t \in found : \A u \in found : t <= u

FirstRunAt(s, from) ==
  IF s.kind = "cron" THEN NextRun(s, from) ELSE from + s.period

NextAfterRun(s, from) ==
  IF s.kind = "once" THEN Null ELSE FirstRunAt(s, from)

(* dueAutomations: enabled, active rows whose time has come. *)
Due(now) ==
  { [id |-> a, row |-> rows[a]] : a \in {b \in Autos :
      /\ rows[b].status = "active"
      /\ rows[b].enabled
      /\ rows[b].nextRunAt # Null
      /\ rows[b].nextRunAt <= now} }

(* A process that is not inside a tick. *)
Idle == [pc |-> "idle", due |-> {}, fired |-> 0, cur |-> {}, next |-> Null]

(* The rows of the due list that ORDER BY next_run_at may put first. *)
Foremost(due) == {d \in due : \A e \in due : d.row.nextRunAt <= e.row.nextRunAt}

(* An UPDATE ... WHERE id = ? changes nothing once the row is gone. *)
AutomationUpdate(a, row) ==
  rows' = IF Exists(a) THEN [rows EXCEPT ![a] = row] ELSE rows

-----------------------------------------------------------------------------
(* tick *)

(* The interval timer (or `automation/tick`) starts a tick: it reads the   *)
(* clock and the due list.                                                 *)
BeginTick(p, now) ==
  proc' = [proc EXCEPT ![p] = [Idle EXCEPT !.pc = "loop", !.due = Due(now)]]

TickNow(p) ==
  /\ proc[p].pc = "idle"
  /\ BeginTick(p, clock)
  /\ UNCHANGED <<clock, rows, runs, history, bounds>>

(* for (const a of due): the next row is still worth a claim. *)
Loops(p, d) ==
  /\ proc[p].pc = "loop"
  /\ proc[p].fired < MaxRunsPerTick
  /\ d \in Foremost(proc[p].due)

(* nextAfterRun throws before the claim: the whole tick rejects. *)
TickThrows(p, d) ==
  /\ Loops(p, d)
  /\ NextAfterRun(d.row.sched, clock) = Throws
  /\ proc' = [proc EXCEPT ![p] = Idle]
  /\ UNCHANGED <<clock, rows, runs, history, bounds>>

(* automationClaim: UPDATE ... SET next_run_at = new WHERE next_run_at =   *)
(* expected, and tick goes on only if it changed a row.                    *)
ClaimMatchesId(d) == Exists(d.id)   \* faulty: no compare-and-set

ClaimMatches(d) ==
  Exists(d.id) /\ rows[d.id].nextRunAt = d.row.nextRunAt

Claim(p, d) ==
  LET next == NextAfterRun(d.row.sched, clock)
  IN  /\ Loops(p, d)
      /\ next # Throws
      /\ IF ClaimMatches(d)
           THEN /\ rows' = [rows EXCEPT ![d.id].nextRunAt = next]
                /\ proc' = [proc EXCEPT ![p].pc = "book", ![p].cur = {d},
                                        ![p].due = @ \ {d}, ![p].next = next]
           ELSE /\ proc' = [proc EXCEPT ![p].due = @ \ {d}]
                /\ UNCHANGED rows
      /\ UNCHANGED <<clock, runs, history, bounds>>

(* The completion bookkeeping, computed from the row tick read, not from   *)
(* the row as it is now.                                                   *)
RunCount(d) == d.row.runCount + 1

ExhaustedLate(d) == d.row.maxRuns # 0 /\ RunCount(d) > d.row.maxRuns   \* faulty: off by one
Exhausted(d) == d.row.maxRuns # 0 /\ RunCount(d) >= d.row.maxRuns

Booked(a, d, next) ==
  LET completed == next = Null \/ Exhausted(d)
  IN  [rows[a] EXCEPT !.runCount  = RunCount(d),
                      !.nextRunAt = IF completed THEN Null ELSE next,
                      !.status    = IF completed THEN "completed" ELSE "active"]

Book(p, d) ==
  /\ proc[p].pc = "book"
  /\ d \in proc[p].cur
  /\ AutomationUpdate(d.id, Booked(d.id, d, proc[p].next))
  /\ proc' = [proc EXCEPT ![p].pc = "fire", ![p].fired = @ + 1]
  /\ UNCHANGED <<clock, runs, history, bounds>>

(* fire: open a session, insert the run record and launch the turn. *)
FireStart(p, d) ==
  LET occurrence == <<d.id, d.row.nextRunAt>>
  IN  /\ proc[p].pc = "fire"
      /\ d \in proc[p].cur
      /\ runs' = runs \cup {<<occurrence, "open">>}
      /\ fired' = fired \cup {occurrence}
      /\ refired' = IF occurrence \in fired THEN refired \cup {occurrence} ELSE refired
      /\ proc' = [proc EXCEPT ![p].pc = "turn"]
      /\ UNCHANGED <<clock, rows, edited, bounds>>

(* fire: the turn ended, well or with an error; the run record is closed   *)
(* unless automationDelete has removed it.                                 *)
FireFinish(p, d) ==
  LET occurrence == <<d.id, d.row.nextRunAt>>
      record     == <<occurrence, "open">>
  IN  /\ proc[p].pc = "turn"
      /\ d \in proc[p].cur
      /\ runs' = IF record \in runs
                   THEN (runs \ {record}) \cup {<<occurrence, "finished">>}
                   ELSE runs
      /\ proc' = [proc EXCEPT ![p].pc = "loop", ![p].cur = {}, ![p].next = Null]
      /\ UNCHANGED <<clock, rows, history, bounds>>

(* The due list is used up, or maxRunsPerTick turns were launched. *)
EndTick(p) ==
  /\ proc[p].pc = "loop"
  /\ proc[p].due = {} \/ proc[p].fired >= MaxRunsPerTick
  /\ proc' = [proc EXCEPT ![p] = Idle]
  /\ UNCHANGED <<clock, rows, runs, history, bounds>>

-----------------------------------------------------------------------------
(* runNow *)

(* runNow pulls the row's time just behind the clock unless it is due      *)
(* already ...                                                             *)
RunNowUpdate(p, a) ==
  /\ proc[p].pc = "idle"
  /\ Exists(a)
  /\ runNows < MaxRunNow
  /\ runNows' = runNows + 1
  /\ rows' = IF rows[a].nextRunAt = Null \/ rows[a].nextRunAt > clock
               THEN [rows EXCEPT ![a].nextRunAt = clock - 1] ELSE rows
  /\ proc' = [proc EXCEPT ![p] = [Idle EXCEPT !.pc = "runNow"]]
  /\ UNCHANGED <<clock, runs, history, edits, crashes>>

(* ... and ticks with a clock that is Lookahead ahead. *)
RunNowTick(p) ==
  /\ proc[p].pc = "runNow"
  /\ BeginTick(p, clock + Lookahead)
  /\ UNCHANGED <<clock, rows, runs, history, bounds>>

-----------------------------------------------------------------------------
(* create / update / toggle / remove *)

Create(a, s, limit) ==
  LET next == FirstRunAt(s, clock)
  IN  /\ rows[a].status = "absent"
      /\ next # Throws
      /\ rows' = [rows EXCEPT ![a] =
                    [sched |-> s, enabled |-> TRUE, status |-> "active", runCount |-> 0,
                     maxRuns |-> limit, nextRunAt |-> next]]
      /\ UNCHANGED <<clock, proc, runs, history, bounds>>

Editing(a) ==
  /\ Exists(a)
  /\ edits < MaxEdits
  /\ edits' = edits + 1
  /\ UNCHANGED <<clock, proc, fired, refired, runNows, crashes>>

UpdateScheduleUnchecked(a, s) ==   \* faulty: stores whatever nextRun said
  /\ Editing(a)
  /\ rows' = [rows EXCEPT ![a].sched = s, ![a].nextRunAt = FirstRunAt(s, clock),
                          ![a].status = "active"]
  /\ edited' = edited \cup {a}
  /\ UNCHANGED runs

UpdateSchedule(a, s) ==
  LET next == FirstRunAt(s, clock)
  IN  /\ Editing(a)
      /\ next # Throws
      /\ rows' = [rows EXCEPT ![a].sched = s, ![a].nextRunAt = next, ![a].status = "active"]
      /\ edited' = edited \cup {a}
      /\ UNCHANGED runs

UpdateMaxRuns(a, limit) ==
  /\ Editing(a)
  /\ rows' = [rows EXCEPT ![a].maxRuns = limit]
  /\ edited' = edited \cup {a}
  /\ UNCHANGED runs

Toggle(a) ==
  /\ Editing(a)
  /\ rows' = [rows EXCEPT ![a].enabled = ~@]
  /\ UNCHANGED <<runs, edited>>

Remove(a) ==
  /\ Editing(a)
  /\ rows' = [rows EXCEPT ![a].status = "deleted", ![a].nextRunAt = Null]
  /\ runs' = {r \in runs : r[1][1] # a}
  /\ UNCHANGED edited

-----------------------------------------------------------------------------
(* The process dies and is started again; the database survives. *)
Crash(p) ==
  /\ proc[p].pc # "idle"
  /\ crashes < MaxCrashes
  /\ crashes' = crashes + 1
  /\ proc' = [proc EXCEPT ![p] = Idle]
  /\ UNCHANGED <<clock, rows, runs, history, edits, runNows>>

AdvanceClock ==
  /\ clock < MaxClock
  /\ clock' = clock + 1
  /\ UNCHANGED <<rows, proc, runs, history, bounds>>

Init ==
  /\ clock = 2
  /\ rows = [a \in Autos |-> NoRow]
  /\ proc = [p \in Procs |-> Idle]
  /\ runs = {}
  /\ fired = {} /\ refired = {} /\ edited = {}
  /\ edits = 0 /\ runNows = 0 /\ crashes = 0

TickStep(p) ==
  \/ TickNow(p)
  \/ \E d \in proc[p].due : TickThrows(p, d) \/ Claim(p, d)
  \/ \E d \in proc[p].cur : Book(p, d) \/ FireStart(p, d) \/ FireFinish(p, d)
  \/ EndTick(p)

UserEdit ==
  \E a \in Autos :
    \/ \E s \in Schedules : UpdateSchedule(a, s) \/ \E limit \in RunLimits : Create(a, s, limit)
    \/ \E limit \in RunLimits : UpdateMaxRuns(a, limit)
    \/ Toggle(a)
    \/ Remove(a)

(* Scheduled ticks, user edits and crashes, but no runNow. *)
SchedulerNext ==
  \/ \E p \in Procs : TickStep(p) \/ Crash(p)
  \/ UserEdit
  \/ AdvanceClock

RunNow ==
  \E p \in Procs : RunNowTick(p) \/ \E a \in Autos : RunNowUpdate(p, a)

Next == SchedulerNext \/ RunNow

Fairness == \A p \in Procs : WF_vars(TickStep(p)) /\ WF_vars(RunNowTick(p))

(* The code as it is. *)
Spec == Init /\ [][Next]_vars

(* The code under the timing assumption its claim rests on: a process      *)
(* issues the bookkeeping UPDATE in the same instant as its claim.  One    *)
(* process alone always does (the two statements share a synchronous       *)
(* block); two processes only if none is suspended in between.             *)
BooksPromptly == clock' # clock => \A p \in Procs : proc[p].pc # "book"
PromptSpec == Init /\ [][SchedulerNext /\ BooksPromptly]_vars
PromptRunNowSpec == Init /\ [][Next /\ BooksPromptly]_vars
FairSpec == PromptRunNowSpec /\ Fairness

-----------------------------------------------------------------------------
(* Properties *)

TypeOK ==
  /\ clock \in Nat /\ clock >= 2
  /\ rows \in [Autos -> Row]
  /\ proc \in [Procs -> [pc : {"idle", "loop", "book", "fire", "turn", "runNow"},
                         due : SUBSET Snapshot, fired : Nat, cur : SUBSET Snapshot,
                         next : Nat]]
  /\ runs \subseteq (Autos \X Nat) \X {"open", "finished"}
  /\ fired \subseteq Autos \X Nat
  /\ refired \subseteq fired
  /\ edited \subseteq Autos
  /\ edits \in Nat /\ runNows \in Nat /\ crashes \in Nat

\* "guarantees a single firer": no scheduled time of an automation launches
\* two turns, whichever processes tick, crash or edit meanwhile.
SingleFirer == refired = {}

Fires(a) == {o \in fired : o[1] = a}

\* "Finite runs via maxRuns": as long as nobody changes its schedule or its
\* limit, an automation launches at most maxRuns turns.
RunLimit ==
  \A a \in Autos \ edited : rows[a].maxRuns # 0 => Cardinality(Fires(a)) <= rows[a].maxRuns

\* A time that has come does not stay unclaimed forever: some process claims
\* it, unless a user disables or deletes the automation.
DueIsClaimed ==
  \A a \in Autos, t \in 1..MaxClock :
    (/\ rows[a].nextRunAt = t /\ t <= clock
     /\ rows[a].enabled /\ rows[a].status = "active")
    ~> ~(rows[a].nextRunAt = t /\ rows[a].enabled /\ rows[a].status = "active")
=============================================================================
