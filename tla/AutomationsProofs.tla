-------------------------- MODULE AutomationsProofs --------------------------
(***************************************************************************)
(* TLAPS proofs about Automations: type correctness, and the single-firer  *)
(* guarantee of the claim for any number of processes and automations.     *)
(***************************************************************************)
EXTENDS Automations, FiniteSetTheorems, WellFoundedInduction, TLAPS

(* The scheduled time a snapshot stands for. *)
Occurrence(d) == <<d.id, d.row.nextRunAt>>

(* No process is inside runNow: SchedulerNext never starts one. *)
NoRunNow == \A p \in Procs : proc[p].pc # "runNow"

(* What a tick read was due, and what was launched was due. *)
PastDue ==
  /\ \A p \in Procs : \A d \in proc[p].due \cup proc[p].cur :
       d.row.nextRunAt # Null /\ d.row.nextRunAt <= clock
  /\ \A o \in fired : o[2] <= clock

(* A process works on the one row it claimed, and on none in between. *)
OneAtATime ==
  \A p \in Procs :
    /\ proc[p].pc \in {"idle", "loop"} => proc[p].cur = {}
    /\ \A d, e \in proc[p].cur : d = e

(* The time a process is about to write lies ahead of the clock. *)
NextIsAhead ==
  \A p \in Procs : proc[p].pc = "book" => proc[p].next = Null \/ proc[p].next > clock

(* The time in a row was never launched, nor is it claimed by anyone. *)
RowIsFresh ==
  \A a \in Autos : rows[a].nextRunAt # Null =>
    /\ <<a, rows[a].nextRunAt>> \notin fired
    /\ \A p \in Procs : \A d \in proc[p].cur : Occurrence(d) # <<a, rows[a].nextRunAt>>

(* Claims are exclusive and not launched before their fire step. *)
ClaimsExclusive ==
  /\ \A p, q \in Procs : p # q =>
       \A d \in proc[p].cur : \A e \in proc[q].cur : Occurrence(d) # Occurrence(e)
  /\ \A p \in Procs : proc[p].pc \in {"book", "fire"} =>
       \A d \in proc[p].cur : Occurrence(d) \notin fired

IInv == /\ TypeOK /\ NoRunNow /\ PastDue /\ OneAtATime /\ NextIsAhead
        /\ RowIsFresh /\ ClaimsExclusive /\ SingleFirer

-----------------------------------------------------------------------------
(* A non-empty set of naturals has a least element, which is what nextRun's *)
(* upward search returns.                                                   *)
LEMMA LeastExists ==
  ASSUME NEW S, S \subseteq Nat, S # {}
  PROVE  \E t \in S : \A u \in S : t <= u
<1>1. PICK t \in S : \A u \in S : ~(<<u, t>> \in OpToRel(<, Nat))
  BY NatLessThanWellFounded, WFMin
<1>2. \A u \in S : ~(u < t)
  BY <1>1 DEF OpToRel
<1>3. QED
  BY <1>2

(* firstRunAt never answers with a time at or before the clock. *)
LEMMA FirstRunAhead ==
  ASSUME NEW s \in Schedules, NEW c \in Nat
  PROVE  FirstRunAt(s, c) = Throws \/ (FirstRunAt(s, c) \in Nat /\ FirstRunAt(s, c) > c)
<1> DEFINE found == {t \in s.times : c < t /\ t <= c + SearchWindow}
<1>1. s.kind \in {"cron", "every", "once"} /\ s.period \in Nat \ {0} /\ s.times \subseteq Nat
  BY SchedulesAssumption
<1>2. CASE s.kind # "cron"
  BY <1>1, <1>2 DEF FirstRunAt
<1>3. CASE s.kind = "cron" /\ found = {}
  BY <1>3 DEF FirstRunAt, NextRun
<1>4. CASE s.kind = "cron" /\ found # {}
  <2> DEFINE least == CHOOSE t \in found : \A u \in found : t <= u
  <2>1. FirstRunAt(s, c) = least
    BY <1>4 DEF FirstRunAt, NextRun
  <2>2. \E t \in found : \A u \in found : t <= u
    <3>1. found \subseteq Nat
      BY <1>1
    <3> HIDE DEF found
    <3>2. QED
      BY <1>4, <3>1, LeastExists
  <2>3. least \in found
    <3> HIDE DEF found
    <3>1. QED
      BY <2>2
  <2>4. QED
    BY <1>1, <2>1, <2>3
<1>5. QED
  BY <1>2, <1>3, <1>4

(* nextAfterRun answers null or a time ahead of the clock. *)
LEMMA NextAfterAhead ==
  ASSUME NEW s \in Schedules, NEW c \in Nat, NextAfterRun(s, c) # Throws
  PROVE  /\ NextAfterRun(s, c) \in Nat
         /\ NextAfterRun(s, c) = Null \/ NextAfterRun(s, c) > c
BY FirstRunAhead DEF NextAfterRun, Null, Throws

-----------------------------------------------------------------------------
(* What the bookkeeping UPDATE of a tick writes is again a row. *)
LEMMA RowUpdate ==
  ASSUME NEW r \in Row, NEW n \in Nat, NEW t \in Nat,
         NEW st \in {"absent", "active", "completed", "deleted"}
  PROVE  [r EXCEPT !.runCount = n, !.nextRunAt = t, !.status = st] \in Row
BY DEF Row

(* What an UPDATE with a new schedule writes is again a row. *)
LEMMA RowReschedule ==
  ASSUME NEW r \in Row, NEW s \in Schedules, NEW t \in Nat
  PROVE  [r EXCEPT !.sched = s, !.nextRunAt = t, !.status = "active"] \in Row
BY DEF Row

(* The empty database and the idle processes are well typed. *)
LEMMA TypeInit == Init => TypeOK
<1> SUFFICES ASSUME Init PROVE TypeOK
  OBVIOUS
<1>1. NoRow \in Row
  <2>1. (CHOOSE s \in Schedules : TRUE) \in Schedules
    BY SchedulesAssumption
  <2>2. QED
    BY <2>1, BoundsAssumption DEF NoRow, Row, Null
<1>2. QED
  BY <1>1 DEF Init, TypeOK, Idle, Null

(* Every statement, edit, crash and clock step keeps the types. *)
LEMMA TypeStep == TypeOK /\ [Next]_vars => TypeOK'
<1> SUFFICES ASSUME TypeOK, [Next]_vars PROVE TypeOK'
  OBVIOUS
<1> USE DEF TypeOK, Idle, Null
<1>due. \A n \in Nat : Due(n) \subseteq Snapshot
  BY DEF Due, Snapshot
<1>1. ASSUME NEW p \in Procs, TickNow(p) PROVE TypeOK'
  BY <1>1, <1>due DEF TickNow, BeginTick, history, bounds
<1>2. ASSUME NEW p \in Procs, NEW d \in proc[p].due, TickThrows(p, d) PROVE TypeOK'
  BY <1>2 DEF TickThrows, history, bounds
<1>3. ASSUME NEW p \in Procs, NEW d \in proc[p].due, Claim(p, d) PROVE TypeOK'
  <2> DEFINE next == NextAfterRun(d.row.sched, clock)
  <2>1. d \in Snapshot /\ d.id \in Autos /\ d.row.sched \in Schedules
    BY DEF Snapshot, Row
  <2>2. next \in Nat
    BY <1>3, <2>1, NextAfterAhead DEF Claim
  <2>3. proc' \in [Procs -> [pc : {"idle", "loop", "book", "fire", "turn", "runNow"},
                         due : SUBSET Snapshot, fired : Nat, cur : SUBSET Snapshot,
                         next : Nat]]
    <3> HIDE DEF next
    <3>1. QED
      BY <1>3, <2>1, <2>2 DEF Claim, next
  <2>4. rows' \in [Autos -> Row]
    <3>1. [rows[d.id] EXCEPT !.nextRunAt = next] \in Row
      <4> HIDE DEF next
      <4>1. QED
        BY <2>1, <2>2 DEF Row
    <3>2. QED
      BY <1>3, <2>1, <3>1 DEF Claim
  <2>5. QED
    BY <1>3, <2>3, <2>4 DEF Claim, history, bounds
<1>4. ASSUME NEW p \in Procs, NEW d \in proc[p].cur, Book(p, d) PROVE TypeOK'
  <2>1. Booked(d.id, d, proc[p].next) \in Row /\ d.id \in Autos
    <3>1. d \in Snapshot /\ proc[p].next \in Nat
      OBVIOUS
    <3>2. d.id \in Autos /\ d.row \in Row /\ rows[d.id] \in Row
      BY <3>1 DEF Snapshot
    <3>3. d.row.runCount + 1 \in Nat /\ d.row.maxRuns \in RunLimits
      BY <3>2 DEF Row
    <3>4. d.row.maxRuns \in Nat
      BY <3>3, BoundsAssumption
    <3>5. QED
      BY <3>1, <3>2, <3>3, <3>4, RowUpdate DEF Booked, RunCount, Exhausted
  <2>2. rows' \in [Autos -> Row]
    BY <1>4, <2>1 DEF Book, AutomationUpdate
  <2>3. QED
    BY <1>4, <2>2 DEF Book, history, bounds
<1>5. ASSUME NEW p \in Procs, NEW d \in proc[p].cur, FireStart(p, d) PROVE TypeOK'
  <2>1. <<d.id, d.row.nextRunAt>> \in Autos \X Nat
    BY DEF Snapshot, Row
  <2>2. QED
    BY <1>5, <2>1 DEF FireStart, bounds
<1>6. ASSUME NEW p \in Procs, NEW d \in proc[p].cur, FireFinish(p, d) PROVE TypeOK'
  <2>1. <<d.id, d.row.nextRunAt>> \in Autos \X Nat
    BY DEF Snapshot, Row
  <2>2. QED
    BY <1>6, <2>1 DEF FireFinish, history, bounds
<1>7. ASSUME NEW p \in Procs, EndTick(p) PROVE TypeOK'
  BY <1>7 DEF EndTick, history, bounds
<1>8. ASSUME NEW p \in Procs, Crash(p) PROVE TypeOK'
  BY <1>8 DEF Crash, history
<1>9. ASSUME NEW a \in Autos, NEW s \in Schedules, UpdateSchedule(a, s) PROVE TypeOK'
  <2>1. FirstRunAt(s, clock) \in Nat
    BY <1>9, FirstRunAhead DEF UpdateSchedule
  <2>2. rows' \in [Autos -> Row]
    <3>1. [rows[a] EXCEPT !.sched = s, !.nextRunAt = FirstRunAt(s, clock), !.status = "active"] \in Row
      <4>1. rows[a] \in Row
        OBVIOUS
      <4>2. QED
        BY <2>1, <4>1, RowReschedule
    <3>2. rows' = [rows EXCEPT ![a] =
             [rows[a] EXCEPT !.sched = s, !.nextRunAt = FirstRunAt(s, clock), !.status = "active"]]
      BY <1>9 DEF UpdateSchedule
    <3>3. QED
      BY <3>1, <3>2
  <2>3. QED
    BY <1>9, <2>2 DEF UpdateSchedule, Editing
<1>10. ASSUME NEW a \in Autos, NEW s \in Schedules, NEW limit \in RunLimits, Create(a, s, limit)
       PROVE TypeOK'
  <2>1. FirstRunAt(s, clock) \in Nat
    BY <1>10, FirstRunAhead DEF Create
  <2>2. rows' \in [Autos -> Row]
    BY <1>10, <2>1 DEF Create, Row
  <2>3. QED
    BY <1>10, <2>2 DEF Create, history, bounds
<1>11. ASSUME NEW a \in Autos, NEW limit \in RunLimits, UpdateMaxRuns(a, limit) PROVE TypeOK'
  BY <1>11 DEF UpdateMaxRuns, Editing, Row
<1>12. ASSUME NEW a \in Autos, Toggle(a) PROVE TypeOK'
  <2>1. (~rows[a].enabled) \in BOOLEAN
    BY Zenon
  <2>2. [rows[a] EXCEPT !.enabled = ~rows[a].enabled] \in Row
    BY <2>1 DEF Row
  <2>3. rows' = [rows EXCEPT ![a] = [rows[a] EXCEPT !.enabled = ~rows[a].enabled]]
    BY <1>12 DEF Toggle
  <2>4. QED
    BY <1>12, <2>2, <2>3 DEF Toggle, Editing
<1>13. ASSUME NEW a \in Autos, Remove(a) PROVE TypeOK'
  <2>1. rows' \in [Autos -> Row]
    <3>1. [rows[a] EXCEPT !.status = "deleted", !.nextRunAt = Null] \in Row
      BY DEF Row
    <3>2. rows' = [rows EXCEPT ![a] = [rows[a] EXCEPT !.status = "deleted", !.nextRunAt = Null]]
      BY <1>13 DEF Remove
    <3>3. QED
      BY <3>1, <3>2
  <2>2. QED
    BY <1>13, <2>1 DEF Remove, Editing
<1>14. CASE AdvanceClock
  BY <1>14 DEF AdvanceClock, history, bounds
<1>15. ASSUME NEW p \in Procs, NEW a \in Autos, RunNowUpdate(p, a) PROVE TypeOK'
  <2>1. clock - 1 \in Nat
    OBVIOUS
  <2>2. rows' \in [Autos -> Row]
    BY <1>15, <2>1 DEF RunNowUpdate, Row
  <2>3. QED
    BY <1>15, <2>2 DEF RunNowUpdate, history
<1>16. ASSUME NEW p \in Procs, RunNowTick(p) PROVE TypeOK'
  <2>1. clock + Lookahead \in Nat
    BY BoundsAssumption
  <2>2. QED
    BY <1>16, <2>1, <1>due DEF RunNowTick, BeginTick, history, bounds
<1>17. CASE UNCHANGED vars
  BY <1>17 DEF vars
<1>18. QED
  BY <1>1, <1>2, <1>3, <1>4, <1>5, <1>6, <1>7, <1>8, <1>9, <1>10, <1>11, <1>12, <1>13, <1>14,
     <1>15, <1>16, <1>17 DEF Next, SchedulerNext, RunNow, TickStep, UserEdit

(* Type correctness of the engine as it is, runNow and late bookkeeping    *)
(* included: in particular next_run_at never holds the outcome of a failed *)
(* calendar search.                                                        *)
THEOREM TypeCorrect == Spec => []TypeOK
<1>1. QED
  BY TypeInit, TypeStep, PTL DEF Spec

-----------------------------------------------------------------------------
(* Most steps neither claim nor launch: they only forget claims, move the  *)
(* clock, and write times that are ahead of the clock.                     *)
LEMMA FrameStep ==
  ASSUME IInv, TypeOK', clock' >= clock, fired' = fired, refired' = refired,
         \A a \in Autos : \/ rows'[a].nextRunAt = Null
                          \/ rows'[a].nextRunAt = rows[a].nextRunAt
                          \/ rows'[a].nextRunAt > clock,
         \A p \in Procs :
           /\ proc'[p].cur \subseteq proc[p].cur
           /\ \A d \in proc'[p].due : d.row.nextRunAt # Null /\ d.row.nextRunAt <= clock
           /\ proc'[p].pc # "runNow"
           /\ proc'[p].pc \in {"idle", "loop"} => proc'[p].cur = {}
           /\ proc'[p].pc = "book" => proc'[p].next = Null \/ proc'[p].next > clock'
           /\ proc'[p].pc \in {"book", "fire"} => proc[p].pc \in {"book", "fire"}
  PROVE  IInv'
<1>1. NoRunNow' /\ OneAtATime' /\ NextIsAhead' /\ SingleFirer'
  BY DEF IInv, NoRunNow, OneAtATime, NextIsAhead, SingleFirer
<1>2. clock \in Nat /\ clock' \in Nat
  BY DEF IInv, TypeOK
<1>3. \A p \in Procs : \A d \in proc[p].cur : d.row.nextRunAt \in Nat
  BY DEF IInv, TypeOK, Snapshot, Row
<1>4. \A p \in Procs : \A d \in proc'[p].due : d.row.nextRunAt \in Nat
  BY DEF TypeOK, Snapshot, Row
<1>5. \A o \in fired : o[2] \in Nat
  BY DEF IInv, TypeOK
<1>6. PastDue'
  BY <1>2, <1>3, <1>4, <1>5 DEF IInv, PastDue
<1>7. RowIsFresh'
  <2> SUFFICES ASSUME NEW a \in Autos, rows'[a].nextRunAt # Null
               PROVE  /\ <<a, rows'[a].nextRunAt>> \notin fired
                      /\ \A p \in Procs : \A d \in proc[p].cur :
                           Occurrence(d) # <<a, rows'[a].nextRunAt>>
    BY DEF RowIsFresh, Occurrence
  <2>1. CASE rows'[a].nextRunAt = rows[a].nextRunAt
    BY <2>1 DEF IInv, RowIsFresh
  <2>2. CASE rows'[a].nextRunAt > clock
    <3>1. rows'[a].nextRunAt \in Nat
      BY DEF TypeOK, Row
    <3>2. <<a, rows'[a].nextRunAt>> \notin fired
      BY <1>2, <2>2, <3>1 DEF IInv, PastDue
    <3>3. \A p \in Procs : \A d \in proc[p].cur : d.row.nextRunAt # rows'[a].nextRunAt
      BY <1>2, <1>3, <2>2, <3>1 DEF IInv, PastDue
    <3>4. QED
      BY <3>2, <3>3 DEF Occurrence
  <2>3. QED
    BY <2>1, <2>2
<1>8. ClaimsExclusive'
  BY DEF IInv, ClaimsExclusive, Occurrence
<1>9. QED
  BY <1>1, <1>6, <1>7, <1>8 DEF IInv

(* A successful claim takes a time nobody else has, and leaves one ahead   *)
(* of the clock; a failed one only drops the row from the due list.        *)
LEMMA ClaimStep ==
  ASSUME IInv, TypeOK', NEW p \in Procs, NEW d \in proc[p].due, Claim(p, d)
  PROVE  IInv'
<1> DEFINE next == NextAfterRun(d.row.sched, clock)
<1>0. /\ clock \in Nat /\ clock' = clock /\ fired' = fired /\ refired' = refired
      /\ proc[p].pc = "loop" /\ proc[p].cur = {} /\ next # Throws
  BY DEF IInv, TypeOK, Claim, Loops, OneAtATime, history
<1>1. /\ d.id \in Autos /\ d.row.sched \in Schedules /\ d.row.nextRunAt \in Nat
      /\ d.row.nextRunAt # Null /\ d.row.nextRunAt <= clock
  BY DEF IInv, TypeOK, Snapshot, Row, PastDue
<1>2. next \in Nat /\ (next = Null \/ next > clock)
  BY <1>0, <1>1, NextAfterAhead
<1>3. \A q \in Procs : proc[q] \in [pc : {"idle", "loop", "book", "fire", "turn", "runNow"},
                         due : SUBSET Snapshot, fired : Nat, cur : SUBSET Snapshot, next : Nat]
  BY DEF IInv, TypeOK
<1>4. CASE ~ClaimMatches(d)
  <2>1. /\ rows' = rows /\ proc' = [proc EXCEPT ![p].due = @ \ {d}]
    BY <1>4 DEF Claim
  <2>2. QED
    BY <1>0, <1>3, <2>1, FrameStep DEF IInv, TypeOK, PastDue, NoRunNow, OneAtATime, NextIsAhead
<1>5. CASE ClaimMatches(d)
  <2>1. /\ rows' = [rows EXCEPT ![d.id].nextRunAt = next]
        /\ proc' = [proc EXCEPT ![p].pc = "book", ![p].cur = {d},
                                ![p].due = @ \ {d}, ![p].next = next]
        /\ rows[d.id].nextRunAt = d.row.nextRunAt
    BY <1>5 DEF Claim, ClaimMatches
  <2> HIDE DEF next
  <2>2. /\ proc'[p].pc = "book" /\ proc'[p].cur = {d} /\ proc'[p].next = next
        /\ proc'[p].due \subseteq proc[p].due
        /\ \A q \in Procs : q # p => proc'[q] = proc[q]
    BY <1>3, <2>1 DEF IInv, TypeOK
  <2>3. /\ rows'[d.id].nextRunAt = next
        /\ \A a \in Autos : a # d.id => rows'[a].nextRunAt = rows[a].nextRunAt
    BY <1>1, <2>1 DEF IInv, TypeOK, Row
  <2>4. NoRunNow' /\ OneAtATime' /\ SingleFirer'
    BY <1>0, <2>2 DEF IInv, NoRunNow, OneAtATime, SingleFirer
  <2>5. NextIsAhead'
    BY <1>0, <1>2, <2>2 DEF IInv, NextIsAhead
  <2>6. PastDue'
    BY <1>0, <1>1, <2>2 DEF IInv, PastDue
  <2>7. /\ Occurrence(d) = <<d.id, rows[d.id].nextRunAt>> /\ Occurrence(d) \notin fired
        /\ \A q \in Procs : \A e \in proc[q].cur : Occurrence(e) # Occurrence(d)
    BY <1>1, <2>1 DEF IInv, RowIsFresh, Occurrence
  <2>8. ClaimsExclusive'
    BY <1>0, <2>2, <2>7 DEF IInv, ClaimsExclusive, Occurrence
  <2>9. RowIsFresh'
    <3> SUFFICES ASSUME NEW a \in Autos, rows'[a].nextRunAt # Null
                 PROVE  /\ <<a, rows'[a].nextRunAt>> \notin fired
                        /\ \A q \in Procs : \A e \in proc'[q].cur :
                             Occurrence(e) # <<a, rows'[a].nextRunAt>>
      BY <1>0 DEF RowIsFresh, Occurrence
    <3>1. CASE a # d.id
      BY <2>2, <2>3, <3>1 DEF IInv, RowIsFresh, Occurrence
    <3>2. CASE a = d.id
      <4>1. rows'[a].nextRunAt = next /\ next > clock
        BY <1>2, <2>3, <3>2
      <4>2. \A o \in fired : o[2] \in Nat /\ o[2] <= clock
        BY DEF IInv, TypeOK, PastDue
      <4>3. \A q \in Procs : \A e \in proc'[q].cur : e.row.nextRunAt \in Nat /\ e.row.nextRunAt <= clock
        BY <1>0, <2>6 DEF PastDue, TypeOK, Snapshot, Row
      <4>4. <<a, next>> \notin fired
        BY <1>0, <1>2, <4>1, <4>2
      <4>5. QED
        BY <1>0, <1>2, <4>1, <4>3, <4>4 DEF Occurrence
    <3>3. QED
      BY <3>1, <3>2
  <2>10. QED
    BY <2>4, <2>5, <2>6, <2>8, <2>9 DEF IInv
<1>6. QED
  BY <1>4, <1>5

(* Launching the turn spends the claim; nobody else holds the same one. *)
LEMMA FireStep ==
  ASSUME IInv, TypeOK', NEW p \in Procs, NEW d \in proc[p].cur, FireStart(p, d)
  PROVE  IInv'
<1>1. /\ clock \in Nat /\ clock' = clock /\ rows' = rows /\ proc[p].pc = "fire"
      /\ fired' = fired \cup {Occurrence(d)}
  BY DEF IInv, TypeOK, FireStart, Occurrence
<1>2. /\ proc'[p].pc = "turn" /\ proc'[p].cur = proc[p].cur /\ proc'[p].due = proc[p].due
      /\ \A q \in Procs : q # p => proc'[q] = proc[q]
  BY DEF IInv, TypeOK, FireStart
<1>3. Occurrence(d) \notin fired /\ d.row.nextRunAt \in Nat /\ d.row.nextRunAt <= clock
  BY <1>1 DEF IInv, ClaimsExclusive, PastDue, TypeOK, Snapshot, Row
<1>4. refired' = refired
  BY <1>3 DEF FireStart, Occurrence
<1>5. NoRunNow' /\ OneAtATime' /\ SingleFirer' /\ NextIsAhead'
  BY <1>1, <1>2, <1>4 DEF IInv, NoRunNow, OneAtATime, SingleFirer, NextIsAhead
<1>6. PastDue'
  BY <1>1, <1>2, <1>3 DEF IInv, PastDue, Occurrence
<1>7. RowIsFresh'
  BY <1>1, <1>2 DEF IInv, RowIsFresh, Occurrence
<1>8. ClaimsExclusive'
  <2>1. \A q \in Procs : q # p => \A e \in proc[q].cur : Occurrence(e) # Occurrence(d)
    BY DEF IInv, ClaimsExclusive
  <2>2. QED
    BY <1>1, <1>2, <2>1 DEF IInv, ClaimsExclusive, Occurrence
<1>9. QED
  BY <1>5, <1>6, <1>7, <1>8 DEF IInv

(* Nothing is due, claimed or fired at the start. *)
LEMMA InvInit == Init => IInv
<1> SUFFICES ASSUME Init PROVE IInv
  OBVIOUS
<1>1. TypeOK
  BY TypeInit
<1>2. \A p \in Procs : proc[p] = Idle
  BY DEF Init
<1>3. NoRunNow /\ PastDue /\ OneAtATime /\ NextIsAhead /\ ClaimsExclusive
  BY <1>2 DEF Init, Idle, NoRunNow, PastDue, OneAtATime, NextIsAhead, ClaimsExclusive
<1>4. RowIsFresh /\ SingleFirer
  BY <1>2 DEF Init, Idle, RowIsFresh, SingleFirer
<1>5. QED
  BY <1>1, <1>3, <1>4 DEF IInv

(* The inductive step: one case per action of the scheduler. *)
LEMMA InvStep == IInv /\ [SchedulerNext /\ BooksPromptly]_vars => IInv'
<1> SUFFICES ASSUME IInv, [SchedulerNext /\ BooksPromptly]_vars PROVE IInv'
  OBVIOUS
<1>t. TypeOK'
  BY TypeStep DEF IInv, Next
<1>p. \A q \in Procs : proc[q] \in [pc : {"idle", "loop", "book", "fire", "turn", "runNow"},
                         due : SUBSET Snapshot, fired : Nat, cur : SUBSET Snapshot, next : Nat]
  BY DEF IInv, TypeOK
<1>c. clock \in Nat /\ clock' \in Nat
  BY <1>t DEF IInv, TypeOK
<1>q. \A q \in Procs :
        /\ \A d \in proc[q].due : d.row.nextRunAt # Null /\ d.row.nextRunAt <= clock
        /\ proc[q].pc # "runNow"
        /\ proc[q].pc \in {"idle", "loop"} => proc[q].cur = {}
        /\ proc[q].pc = "book" => proc[q].next = Null \/ proc[q].next > clock
  BY DEF IInv, PastDue, NoRunNow, OneAtATime, NextIsAhead
<1>1. ASSUME NEW p \in Procs, TickNow(p) PROVE IInv'
  <2>1. \A d \in Due(clock) : d.row.nextRunAt # Null /\ d.row.nextRunAt <= clock
    BY DEF Due
  <2>2. QED
    BY <1>1, <1>t, <1>p, <1>c, <1>q, <2>1, FrameStep DEF TickNow, BeginTick, Idle, history, IInv, TypeOK
<1>2. ASSUME NEW p \in Procs, NEW d \in proc[p].due, TickThrows(p, d) PROVE IInv'
  BY <1>2, <1>t, <1>p, <1>c, <1>q, FrameStep DEF TickThrows, Idle, history, IInv, TypeOK
<1>3. ASSUME NEW p \in Procs, NEW d \in proc[p].due, Claim(p, d) PROVE IInv'
  BY <1>3, <1>t, ClaimStep
<1>4. ASSUME NEW p \in Procs, NEW d \in proc[p].cur, Book(p, d) PROVE IInv'
  <2>1. \A a \in Autos : \/ rows'[a].nextRunAt = Null
                         \/ rows'[a].nextRunAt = rows[a].nextRunAt
                         \/ rows'[a].nextRunAt > clock
    <3>1. proc[p].next = Null \/ proc[p].next > clock
      BY <1>4, <1>q DEF Book
    <3>2. d.id \in Autos
      BY DEF IInv, TypeOK, Snapshot
    <3>3. CASE ~Exists(d.id)
      BY <1>4, <3>3 DEF Book, AutomationUpdate
    <3>4. CASE Exists(d.id)
      <4>1. rows' = [rows EXCEPT ![d.id] = Booked(d.id, d, proc[p].next)]
        BY <1>4, <3>4 DEF Book, AutomationUpdate
      <4>2. Booked(d.id, d, proc[p].next).nextRunAt \in {Null, proc[p].next}
        BY <3>2 DEF Booked, IInv, TypeOK, Row
      <4>3. QED
        BY <3>1, <3>2, <4>1, <4>2 DEF IInv, TypeOK
    <3>5. QED
      BY <3>3, <3>4
  <2>2. QED
    BY <1>4, <1>t, <1>p, <1>c, <1>q, <2>1, FrameStep DEF Book, history, IInv, TypeOK
<1>5. ASSUME NEW p \in Procs, NEW d \in proc[p].cur, FireStart(p, d) PROVE IInv'
  BY <1>5, <1>t, FireStep
<1>6. ASSUME NEW p \in Procs, NEW d \in proc[p].cur, FireFinish(p, d) PROVE IInv'
  BY <1>6, <1>t, <1>p, <1>c, <1>q, FrameStep DEF FireFinish, history, IInv, TypeOK
<1>7. ASSUME NEW p \in Procs, EndTick(p) PROVE IInv'
  BY <1>7, <1>t, <1>p, <1>c, <1>q, FrameStep DEF EndTick, Idle, history, IInv, TypeOK
<1>8. ASSUME NEW p \in Procs, Crash(p) PROVE IInv'
  BY <1>8, <1>t, <1>p, <1>c, <1>q, FrameStep DEF Crash, Idle, history, IInv, TypeOK
<1>9. ASSUME NEW a \in Autos, NEW s \in Schedules, UpdateSchedule(a, s) PROVE IInv'
  <2>1. FirstRunAt(s, clock) > clock
    BY <1>9, <1>c, FirstRunAhead DEF UpdateSchedule
  <2>2. rows'[a].nextRunAt = FirstRunAt(s, clock) /\ \A b \in Autos : b # a => rows'[b] = rows[b]
    BY <1>9 DEF UpdateSchedule, IInv, TypeOK, Row
  <2>3. /\ clock' = clock /\ fired' = fired /\ refired' = refired /\ proc' = proc
    BY <1>9 DEF UpdateSchedule, Editing
  <2>4. QED
    BY <1>t, <1>p, <1>c, <1>q, <2>1, <2>2, <2>3, FrameStep
<1>10. ASSUME NEW a \in Autos, NEW s \in Schedules, NEW limit \in RunLimits, Create(a, s, limit)
       PROVE IInv'
  <2>1. FirstRunAt(s, clock) > clock
    BY <1>10, <1>c, FirstRunAhead DEF Create
  <2>2. rows'[a].nextRunAt = FirstRunAt(s, clock) /\ \A b \in Autos : b # a => rows'[b] = rows[b]
    BY <1>10 DEF Create, IInv, TypeOK
  <2>3. /\ clock' = clock /\ fired' = fired /\ refired' = refired /\ proc' = proc
    BY <1>10 DEF Create, history
  <2>4. QED
    BY <1>t, <1>p, <1>c, <1>q, <2>1, <2>2, <2>3, FrameStep
<1>11. ASSUME NEW a \in Autos, NEW limit \in RunLimits, UpdateMaxRuns(a, limit) PROVE IInv'
  <2>1. \A b \in Autos : rows'[b].nextRunAt = rows[b].nextRunAt
    BY <1>11 DEF UpdateMaxRuns, IInv, TypeOK, Row
  <2>2. QED
    BY <1>11, <1>t, <1>p, <1>c, <1>q, <2>1, FrameStep DEF UpdateMaxRuns, Editing
<1>12. ASSUME NEW a \in Autos, Toggle(a) PROVE IInv'
  <2>1. \A b \in Autos : rows'[b].nextRunAt = rows[b].nextRunAt
    BY <1>12 DEF Toggle, IInv, TypeOK, Row
  <2>2. QED
    BY <1>12, <1>t, <1>p, <1>c, <1>q, <2>1, FrameStep DEF Toggle, Editing
<1>13. ASSUME NEW a \in Autos, Remove(a) PROVE IInv'
  <2>1. rows'[a].nextRunAt = Null /\ \A b \in Autos : b # a => rows'[b] = rows[b]
    BY <1>13 DEF Remove, IInv, TypeOK, Row
  <2>2. /\ clock' = clock /\ fired' = fired /\ refired' = refired /\ proc' = proc
    BY <1>13 DEF Remove, Editing
  <2>3. QED
    BY <1>t, <1>p, <1>c, <1>q, <2>1, <2>2, FrameStep
<1>14. CASE AdvanceClock /\ BooksPromptly
  <2>1. \A q \in Procs : proc[q].pc # "book"
    BY <1>14, <1>c DEF AdvanceClock, BooksPromptly
  <2>2. QED
    BY <1>14, <1>t, <1>p, <1>c, <1>q, <2>1, FrameStep DEF AdvanceClock, history
<1>15. CASE UNCHANGED vars
  BY <1>15, <1>t, <1>p, <1>c, <1>q, FrameStep DEF vars
<1>16. QED
  BY <1>1, <1>2, <1>3, <1>4, <1>5, <1>6, <1>7, <1>8, <1>9, <1>10, <1>11, <1>12, <1>13, <1>14, <1>15
     DEF SchedulerNext, TickStep, UserEdit

(* "guarantees a single firer across processes sharing the SQLite db": for *)
(* any number of processes, automations, crashes and edits, no scheduled   *)
(* time launches two turns, provided every process books its claim before  *)
(* the clock moves on and nobody uses runNow.                              *)
THEOREM SingleFirerHolds == PromptSpec => []SingleFirer
<1>1. IInv => SingleFirer
  BY DEF IInv
<1>2. QED
  BY <1>1, InvInit, InvStep, PTL DEF PromptSpec
-----------------------------------------------------------------------------
(* The run limit of an automation nobody edits. *)

(* What its run_count has to account for: the launched times of a, and the *)
(* ones booked and about to be launched.                                   *)
Counted(a) ==
  {o \in Autos \X Nat :
     /\ o[1] = a
     /\ \/ o \in fired
        \/ \E p \in Procs : proc[p].pc = "fire" /\ \E d \in proc[p].cur : o = Occurrence(d)}

Booking(p, d) == proc[p].pc = "book" /\ d \in proc[p].cur

(* Counted grows by one time per step, so it is finite. *)
CountedFinite == \A a \in Autos : IsFiniteSet(Counted(a))

(* Only an active row has a time to claim. *)
IdleRows == \A a \in Autos : rows[a].nextRunAt # Null => rows[a].status = "active"

(* Nobody else can claim an automation between a claim and its booking. *)
BookAlone ==
  \A p \in Procs : \A d \in proc[p].cur : Booking(p, d) =>
    /\ rows[d.id].nextRunAt = Null \/ rows[d.id].nextRunAt > clock
    /\ rows[d.id].status # "absent"
    /\ \A q \in Procs : \A e \in proc[q].cur : Booking(q, e) /\ e.id = d.id => p = q

SameCount(d) == d.row.runCount = rows[d.id].runCount /\ d.row.maxRuns = rows[d.id].maxRuns

(* A snapshot whose claim would succeed has the row's count and limit. *)
SnapshotsCount ==
  \A p \in Procs : \A d \in proc[p].due :
    d.id \notin edited /\ rows[d.id].nextRunAt = d.row.nextRunAt => SameCount(d)

(* A claim still has them at its booking, with a run left to book. *)
BookingsCount ==
  \A p \in Procs : \A d \in proc[p].cur : Booking(p, d) /\ d.id \notin edited =>
    /\ SameCount(d)
    /\ rows[d.id].maxRuns # 0 => rows[d.id].runCount < rows[d.id].maxRuns
    /\ Cardinality(Counted(d.id)) <= rows[d.id].runCount

(* The count covers the launches of a row that exists, and the limit those *)
(* of any row, also of one deleted between its claim and its launch.       *)
Within(a) ==
  /\ rows[a].status # "deleted" => Cardinality(Counted(a)) <= rows[a].runCount
  /\ rows[a].maxRuns # 0 => Cardinality(Counted(a)) <= rows[a].maxRuns
  /\ rows[a].status = "active" /\ rows[a].maxRuns # 0 => rows[a].runCount < rows[a].maxRuns
  /\ rows[a].status = "absent" => rows[a].runCount = 0

LInv == /\ CountedFinite /\ IdleRows /\ BookAlone /\ SnapshotsCount /\ BookingsCount
        /\ \A a \in Autos \ edited : Within(a)

(* Cardinalities of a set that shrinks or gains one element. *)
LEMMA CountShrinks ==
  ASSUME NEW S, NEW T, IsFiniteSet(S), T \subseteq S
  PROVE  /\ IsFiniteSet(T) /\ Cardinality(T) \in Nat /\ Cardinality(S) \in Nat
         /\ Cardinality(T) <= Cardinality(S)
BY FS_Subset, FS_CardinalityType

LEMMA CountGrows ==
  ASSUME NEW S, NEW T, NEW x, IsFiniteSet(S), T \subseteq S \cup {x}
  PROVE  /\ IsFiniteSet(T) /\ Cardinality(T) \in Nat /\ Cardinality(S) \in Nat
         /\ Cardinality(T) <= Cardinality(S) + 1
<1>1. IsFiniteSet(S \cup {x}) /\ Cardinality(S) \in Nat /\ Cardinality(S \cup {x}) \in Nat
  BY FS_AddElement, FS_CardinalityType
<1>2. Cardinality(S \cup {x}) <= Cardinality(S) + 1
  BY <1>1, FS_AddElement
<1>3. IsFiniteSet(T) /\ Cardinality(T) \in Nat /\ Cardinality(T) <= Cardinality(S \cup {x})
  BY <1>1, CountShrinks
<1>4. QED
  BY <1>1, <1>2, <1>3

(* The numbers of rows and snapshots. *)
LEMMA RowNumbers ==
  ASSUME TypeOK
  PROVE  /\ clock \in Nat
         /\ \A a \in Autos : rows[a] \in Row /\ rows[a].runCount \in Nat
                             /\ rows[a].maxRuns \in Nat /\ rows[a].nextRunAt \in Nat
         /\ \A p \in Procs : \A d \in proc[p].due \cup proc[p].cur :
              /\ d.id \in Autos /\ d.row \in Row /\ d.row.runCount \in Nat
              /\ d.row.maxRuns \in Nat /\ d.row.nextRunAt \in Nat
<1>1. \A r \in Row : r.runCount \in Nat /\ r.maxRuns \in Nat /\ r.nextRunAt \in Nat
  BY BoundsAssumption DEF Row
<1>2. clock \in Nat /\ \A a \in Autos : rows[a] \in Row
  BY DEF TypeOK
<1>3. \A p \in Procs : \A d \in proc[p].due \cup proc[p].cur : d \in Snapshot
  BY DEF TypeOK
<1>4. \A d \in Snapshot : d.id \in Autos /\ d.row \in Row
  BY DEF Snapshot
<1>5. QED
  BY <1>1, <1>2, <1>3, <1>4

(* A step that leaves the rows alone: a process reads the due list, drops  *)
(* a row of it, launches or ends a turn, dies, or the clock moves.         *)
LEMMA ProcFrame ==
  ASSUME IInv, LInv, UNCHANGED <<rows, edited>>,
         \A a \in Autos : Counted(a)' \subseteq Counted(a),
         \A p \in Procs :
           /\ proc'[p].pc = "book" =>
                clock' = clock /\ proc[p].pc = "book" /\ proc'[p].cur = proc[p].cur
           /\ \A d \in proc'[p].due : d \in proc[p].due \/ d.row = rows[d.id]
  PROVE  LInv'
<1>1. CountedFinite'
  BY CountShrinks DEF LInv, CountedFinite
<1>2. \A a \in Autos : /\ Cardinality(Counted(a)') \in Nat /\ Cardinality(Counted(a)) \in Nat
                       /\ Cardinality(Counted(a)') <= Cardinality(Counted(a))
  BY CountShrinks DEF LInv, CountedFinite
<1>3. IdleRows'
  BY DEF LInv, IdleRows
<1>4. \A p \in Procs : \A d \in proc'[p].cur :
        Booking(p, d)' => Booking(p, d) /\ d \in proc[p].cur /\ clock' = clock
  BY DEF Booking
<1>5. BookAlone'
  BY <1>4 DEF LInv, BookAlone
<1>6. SnapshotsCount'
  BY DEF LInv, SnapshotsCount, SameCount
<1>7. TypeOK
  BY DEF IInv
<1>8. BookingsCount'
  <2> SUFFICES ASSUME NEW p \in Procs, NEW d \in proc'[p].cur, Booking(p, d)', d.id \notin edited
               PROVE  /\ SameCount(d)'
                      /\ rows[d.id].maxRuns # 0 => rows[d.id].runCount < rows[d.id].maxRuns
                      /\ Cardinality(Counted(d.id)') <= rows[d.id].runCount
    BY DEF BookingsCount
  <2>1. Booking(p, d) /\ d \in proc[p].cur
    BY <1>4
  <2>2. /\ SameCount(d)
        /\ rows[d.id].maxRuns # 0 => rows[d.id].runCount < rows[d.id].maxRuns
        /\ Cardinality(Counted(d.id)) <= rows[d.id].runCount
    BY <2>1 DEF LInv, BookingsCount
  <2>3. d.id \in Autos /\ rows[d.id].runCount \in Nat
    BY <1>7, <2>1, RowNumbers
  <2>4. QED
    BY <1>2, <2>2, <2>3 DEF SameCount
<1>9. \A a \in Autos \ edited : Within(a)'
  <2> SUFFICES ASSUME NEW a \in Autos \ edited PROVE Within(a)'
    OBVIOUS
  <2>1. Within(a) /\ rows[a].runCount \in Nat /\ rows[a].maxRuns \in Nat
    BY <1>7, RowNumbers DEF LInv
  <2>2. QED
    BY <1>2, <2>1 DEF Within
<1>10. QED
  BY <1>1, <1>3, <1>5, <1>6, <1>8, <1>9 DEF LInv

(* A user's change of one row. *)
LEMMA EditFrame ==
  ASSUME IInv, LInv, TypeOK', UNCHANGED <<clock, proc, fired>>, NEW a \in Autos,
         \A b \in Autos \ {a} : rows'[b] = rows[b],
         edited \subseteq edited', edited' \subseteq edited \cup {a},
         \/ rows'[a].nextRunAt = rows[a].nextRunAt
         \/ rows'[a].nextRunAt = Null
         \/ rows'[a].nextRunAt > clock,
         rows'[a].nextRunAt # Null => rows'[a].status = "active",
         rows'[a].status # "absent",
         a \notin edited' =>
           \/ /\ rows'[a].runCount = rows[a].runCount /\ rows'[a].maxRuns = rows[a].maxRuns
              /\ rows'[a].status \in {rows[a].status, "deleted"}
           \/ /\ rows[a].status = "absent" /\ rows'[a].status = "active"
              /\ rows'[a].runCount = 0 /\ rows'[a].nextRunAt > clock
  PROVE  LInv'
<1>0. TypeOK
  BY DEF IInv
<1>1. \A b \in Autos : Counted(b)' = Counted(b)
  BY DEF Counted
<1>2. CountedFinite'
  BY <1>1 DEF LInv, CountedFinite
<1>3. IdleRows'
  BY DEF LInv, IdleRows
<1>4. \A p \in Procs : \A d \in proc[p].cur : Booking(p, d)' <=> Booking(p, d)
  BY DEF Booking
<1>5. BookAlone'
  BY <1>0, <1>4, RowNumbers DEF LInv, BookAlone
<1>6. \A p \in Procs : \A d \in proc[p].due : d.row.nextRunAt # Null /\ d.row.nextRunAt <= clock
  BY DEF IInv, PastDue
<1>7. SnapshotsCount'
  <2> SUFFICES ASSUME NEW p \in Procs, NEW d \in proc[p].due, d.id \notin edited',
                      rows'[d.id].nextRunAt = d.row.nextRunAt
               PROVE  SameCount(d)'
    BY DEF SnapshotsCount
  <2>1. d.id \in Autos /\ d.row.nextRunAt \in Nat /\ clock \in Nat
    BY <1>0, RowNumbers
  <2>2. CASE d.id # a
    BY <2>1, <2>2 DEF LInv, SnapshotsCount, SameCount
  <2>3. CASE d.id = a
    <3>1. rows'[a].nextRunAt # Null /\ ~(rows'[a].nextRunAt > clock)
      BY <1>6, <2>1, <2>3
    <3>2. /\ rows'[a].nextRunAt = rows[a].nextRunAt
          /\ rows'[a].runCount = rows[a].runCount /\ rows'[a].maxRuns = rows[a].maxRuns
      BY <2>3, <3>1
    <3>3. SameCount(d)
      BY <2>3, <3>2 DEF LInv, SnapshotsCount
    <3>4. QED
      BY <2>3, <3>2, <3>3 DEF SameCount
  <2>4. QED
    BY <2>2, <2>3
<1>8. BookingsCount'
  <2> SUFFICES ASSUME NEW p \in Procs, NEW d \in proc[p].cur, Booking(p, d), d.id \notin edited'
               PROVE  /\ SameCount(d)'
                      /\ rows'[d.id].maxRuns # 0 => rows'[d.id].runCount < rows'[d.id].maxRuns
                      /\ Cardinality(Counted(d.id)') <= rows'[d.id].runCount
    BY <1>4 DEF BookingsCount
  <2>1. d.id \in Autos /\ rows[d.id].status # "absent"
    BY <1>0, RowNumbers DEF LInv, BookAlone
  <2>2. rows'[d.id].runCount = rows[d.id].runCount /\ rows'[d.id].maxRuns = rows[d.id].maxRuns
    BY <2>1
  <2>3. /\ SameCount(d)
        /\ rows[d.id].maxRuns # 0 => rows[d.id].runCount < rows[d.id].maxRuns
        /\ Cardinality(Counted(d.id)) <= rows[d.id].runCount
    BY DEF LInv, BookingsCount
  <2>4. QED
    BY <1>1, <2>1, <2>2, <2>3 DEF SameCount
<1>9. \A b \in Autos \ edited' : Within(b)'
  <2> SUFFICES ASSUME NEW b \in Autos \ edited' PROVE Within(b)'
    OBVIOUS
  <2>1. Within(b) /\ Counted(b)' = Counted(b)
    BY <1>1 DEF LInv
  <2>2. CASE b # a
    BY <2>1, <2>2 DEF Within
  <2>3. CASE /\ b = a /\ rows'[a].runCount = rows[a].runCount /\ rows'[a].maxRuns = rows[a].maxRuns
             /\ rows'[a].status \in {rows[a].status, "deleted"}
    BY <2>1, <2>3 DEF Within
  <2>4. CASE /\ b = a /\ rows[a].status = "absent" /\ rows'[a].status = "active"
             /\ rows'[a].runCount = 0
    <3>1. Cardinality(Counted(a)) <= 0 /\ Cardinality(Counted(a)) \in Nat
      BY <2>1, <2>4, FS_CardinalityType DEF Within, LInv, CountedFinite
    <3>2. rows'[a].maxRuns \in Nat
      BY BoundsAssumption DEF TypeOK, Row
    <3>3. QED
      BY <2>1, <2>4, <3>1, <3>2 DEF Within
  <2>5. QED
    BY <2>2, <2>3, <2>4
<1>10. QED
  BY <1>2, <1>3, <1>5, <1>7, <1>8, <1>9 DEF LInv
(* A successful claim took the count of the row as it is, and the row had  *)
(* a run left.                                                             *)
LEMMA ClaimCounts ==
  ASSUME IInv, LInv, NEW p \in Procs, NEW d \in proc[p].due, Claim(p, d)
  PROVE  LInv'
<1> DEFINE next == NextAfterRun(d.row.sched, clock)
<1>0. /\ TypeOK /\ clock' = clock /\ fired' = fired /\ edited' = edited
      /\ proc[p].pc = "loop" /\ proc[p].cur = {} /\ next # Throws
  BY DEF IInv, TypeOK, Claim, Loops, OneAtATime, history
<1>1. /\ clock \in Nat /\ d.id \in Autos /\ d.row.sched \in Schedules /\ d.row.nextRunAt \in Nat
      /\ d.row.nextRunAt # Null /\ d.row.nextRunAt <= clock
  BY <1>0, RowNumbers DEF IInv, Row, PastDue
<1>2. next \in Nat /\ (next = Null \/ next > clock)
  BY <1>0, <1>1, NextAfterAhead
<1>3. \A q \in Procs : proc[q] \in [pc : {"idle", "loop", "book", "fire", "turn", "runNow"},
                         due : SUBSET Snapshot, fired : Nat, cur : SUBSET Snapshot, next : Nat]
  BY <1>0 DEF TypeOK
<1>4. CASE ~ClaimMatches(d)
  <2>1. rows' = rows /\ proc' = [proc EXCEPT ![p].due = @ \ {d}]
    BY <1>4 DEF Claim
  <2>2. /\ \A q \in Procs : proc'[q].pc = proc[q].pc /\ proc'[q].cur = proc[q].cur
        /\ \A q \in Procs : proc'[q].due \subseteq proc[q].due
    BY <1>0, <1>3, <2>1 DEF TypeOK
  <2>3. \A a \in Autos : Counted(a)' \subseteq Counted(a)
    BY <1>0, <2>2 DEF Counted, Occurrence
  <2>4. QED
    BY <1>0, <2>1, <2>2, <2>3, ProcFrame
<1>5. CASE ClaimMatches(d)
  <2>1. /\ rows' = [rows EXCEPT ![d.id].nextRunAt = next]
        /\ proc' = [proc EXCEPT ![p].pc = "book", ![p].cur = {d},
                                ![p].due = @ \ {d}, ![p].next = next]
        /\ rows[d.id].nextRunAt = d.row.nextRunAt
    BY <1>5 DEF Claim, ClaimMatches
  <2> HIDE DEF next
  <2>2. /\ proc'[p].pc = "book" /\ proc'[p].cur = {d} /\ proc'[p].due \subseteq proc[p].due
        /\ \A q \in Procs : q # p => proc'[q] = proc[q]
    BY <1>0, <1>3, <2>1 DEF TypeOK
  <2>3. /\ rows'[d.id].nextRunAt = next
        /\ \A a \in Autos : a # d.id => rows'[a].nextRunAt = rows[a].nextRunAt
        /\ \A a \in Autos : /\ rows'[a].status = rows[a].status
                            /\ rows'[a].runCount = rows[a].runCount
                            /\ rows'[a].maxRuns = rows[a].maxRuns
    BY <1>0, <1>1, <2>1 DEF TypeOK, Row
  <2>4. rows[d.id].status = "active" /\ (d.id \notin edited => SameCount(d))
    BY <1>1, <2>1 DEF LInv, IdleRows, SnapshotsCount
  <2>5. \A q \in Procs : \A e \in proc[q].cur : ~(Booking(q, e) /\ e.id = d.id)
    BY <1>1, <2>1 DEF LInv, BookAlone
  <2>6. \A a \in Autos : Counted(a)' = Counted(a)
    BY <1>0, <2>2 DEF Counted, Occurrence
  <2>7. /\ Booking(p, d)' /\ \A e \in proc'[p].cur : e = d
        /\ \A q \in Procs \ {p} : proc'[q].cur = proc[q].cur
        /\ \A q \in Procs \ {p} : \A e \in proc[q].cur : Booking(q, e)' <=> Booking(q, e)
    BY <2>2 DEF Booking
  <2>8. \A q \in Procs : \A e \in proc[q].cur : e.id \in Autos
    BY <1>0, RowNumbers
  <2>9. CountedFinite' /\ IdleRows'
    BY <2>3, <2>4, <2>6 DEF LInv, CountedFinite, IdleRows
  <2>10. BookAlone'
    <3>1. ASSUME NEW q \in Procs, NEW e \in proc'[q].cur, Booking(q, e)'
          PROVE  /\ rows'[e.id].nextRunAt = Null \/ rows'[e.id].nextRunAt > clock
                 /\ rows'[e.id].status # "absent"
      <4>1. CASE q = p
        BY <1>1, <1>2, <2>3, <2>4, <2>7, <4>1
      <4>2. CASE q # p
        <5>1. e \in proc[q].cur /\ Booking(q, e) /\ e.id # d.id /\ e.id \in Autos
          BY <2>5, <2>7, <2>8, <3>1, <4>2
        <5>2. QED
          BY <2>3, <5>1 DEF LInv, BookAlone
      <4>3. QED
        BY <4>1, <4>2
    <3>2. ASSUME NEW q \in Procs, NEW e \in proc'[q].cur, Booking(q, e)',
                 NEW r \in Procs, NEW f \in proc'[r].cur, Booking(r, f)', f.id = e.id
          PROVE  q = r
      <4>1. CASE q = p
        BY <2>5, <2>7, <3>2, <4>1
      <4>2. CASE r = p
        BY <2>5, <2>7, <3>2, <4>2
      <4>3. CASE q # p /\ r # p
        BY <2>7, <3>2, <4>3 DEF LInv, BookAlone
      <4>4. QED
        BY <4>1, <4>2, <4>3
    <3>3. QED
      BY <1>0, <3>1, <3>2 DEF BookAlone
  <2>11. SnapshotsCount'
    <3> SUFFICES ASSUME NEW q \in Procs, NEW e \in proc'[q].due, e.id \notin edited,
                        rows'[e.id].nextRunAt = e.row.nextRunAt
                 PROVE  SameCount(e)'
      BY <1>0 DEF SnapshotsCount
    <3>1. e \in proc[q].due
      BY <2>2
    <3>2. /\ e.id \in Autos /\ e.row.nextRunAt \in Nat
          /\ e.row.nextRunAt # Null /\ e.row.nextRunAt <= clock
      BY <1>0, <3>1, RowNumbers DEF IInv, PastDue
    <3>3. e.id # d.id
      BY <1>1, <1>2, <2>3, <3>2
    <3>4. SameCount(e)
      BY <2>3, <3>1, <3>2, <3>3 DEF LInv, SnapshotsCount
    <3>5. QED
      BY <2>3, <3>2, <3>4 DEF SameCount
  <2>12. BookingsCount'
    <3> SUFFICES ASSUME NEW q \in Procs, NEW e \in proc'[q].cur, Booking(q, e)', e.id \notin edited
                 PROVE  /\ SameCount(e)'
                        /\ rows'[e.id].maxRuns # 0 => rows'[e.id].runCount < rows'[e.id].maxRuns
                        /\ Cardinality(Counted(e.id)') <= rows'[e.id].runCount
      BY <1>0 DEF BookingsCount
    <3>1. CASE q = p
      <4>1. e = d /\ Within(d.id) /\ SameCount(d)
        BY <1>1, <2>4, <2>7, <3>1 DEF LInv
      <4>2. QED
        BY <1>1, <2>3, <2>4, <2>6, <4>1 DEF Within, SameCount
    <3>2. CASE q # p
      <4>1. e \in proc[q].cur /\ Booking(q, e) /\ e.id \in Autos
        BY <2>7, <2>8, <3>2
      <4>2. /\ SameCount(e)
            /\ rows[e.id].maxRuns # 0 => rows[e.id].runCount < rows[e.id].maxRuns
            /\ Cardinality(Counted(e.id)) <= rows[e.id].runCount
        BY <4>1 DEF LInv, BookingsCount
      <4>3. QED
        BY <2>3, <2>6, <4>1, <4>2 DEF SameCount
    <3>3. QED
      BY <3>1, <3>2
  <2>13. \A a \in Autos \ edited' : Within(a)'
    BY <1>0, <2>3, <2>6 DEF LInv, Within
  <2>14. QED
    BY <2>9, <2>10, <2>11, <2>12, <2>13 DEF LInv
<1>6. QED
  BY <1>4, <1>5

(* The bookkeeping counts the run it is about to launch, and completes the *)
(* automation with its last one; on a deleted row it writes nothing, but   *)
(* then no further claim follows.                                          *)
LEMMA BookCounts ==
  ASSUME IInv, LInv, NEW p \in Procs, NEW d \in proc[p].cur, Book(p, d)
  PROVE  LInv'
<1>0. /\ TypeOK /\ UNCHANGED <<clock, fired, edited>> /\ Booking(p, d)
      /\ proc[p].next \in Nat /\ (proc[p].next = Null \/ proc[p].next > clock)
  BY DEF IInv, TypeOK, Book, Booking, NextIsAhead, history
<1>1. /\ clock \in Nat /\ d.id \in Autos /\ \A e \in proc[p].cur : e = d
      /\ d.row.runCount \in Nat /\ d.row.maxRuns \in Nat
  BY <1>0, RowNumbers DEF IInv, OneAtATime
<1>2. /\ proc'[p].pc = "fire" /\ \A q \in Procs \ {p} : proc'[q] = proc[q]
      /\ \A q \in Procs : proc'[q].cur = proc[q].cur /\ proc'[q].due = proc[q].due
  BY <1>0 DEF TypeOK, Book
<1>3. \A a \in Autos : rows[a].runCount \in Nat /\ rows[a].maxRuns \in Nat /\ rows[a].nextRunAt \in Nat
  BY <1>0, RowNumbers
<1>4. /\ \A a \in Autos \ {d.id} : rows'[a] = rows[a]
      /\ \A a \in Autos : Counted(a)' \subseteq Counted(a) \cup {Occurrence(d)}
      /\ \A a \in Autos \ {d.id} : Counted(a)' \subseteq Counted(a)
  <2>1. \A a \in Autos \ {d.id} : rows'[a] = rows[a]
    BY <1>0, <1>1 DEF TypeOK, Book, AutomationUpdate
  <2>2. \A a \in Autos : Counted(a)' \subseteq Counted(a) \cup {Occurrence(d)}
    BY <1>0, <1>1, <1>2 DEF Counted, Occurrence
  <2>3. \A a \in Autos \ {d.id} : Counted(a)' \subseteq Counted(a)
    <3>1. Occurrence(d)[1] = d.id
      BY DEF Occurrence
    <3>2. QED
      BY <2>2, <3>1 DEF Counted
  <2>4. QED
    BY <2>1, <2>2, <2>3
<1>5. \A a \in Autos : /\ IsFiniteSet(Counted(a)') /\ Cardinality(Counted(a)') \in Nat
                       /\ Cardinality(Counted(a)) \in Nat
                       /\ Cardinality(Counted(a)') <= Cardinality(Counted(a)) + 1
  BY <1>4, CountGrows DEF LInv, CountedFinite
<1>6. \A a \in Autos \ {d.id} : Cardinality(Counted(a)') <= Cardinality(Counted(a))
  BY <1>4, CountShrinks DEF LInv, CountedFinite
<1>7. \A q \in Procs : \A e \in proc[q].cur :
        Booking(q, e)' => Booking(q, e) /\ q # p /\ e.id # d.id /\ e.id \in Autos
  <2>1. \A q \in Procs : \A e \in proc[q].cur : e.id \in Autos
    BY <1>0, RowNumbers
  <2>2. \A q \in Procs : \A e \in proc[q].cur : Booking(q, e)' => Booking(q, e) /\ q # p
    BY <1>2 DEF Booking
  <2>3. QED
    BY <1>0, <2>1, <2>2 DEF LInv, BookAlone
<1>8. /\ rows[d.id].status # "absent"
      /\ rows[d.id].nextRunAt = Null \/ rows[d.id].nextRunAt > clock
  BY <1>0 DEF LInv, BookAlone
<1>9. /\ rows'[d.id].nextRunAt = Null \/ rows'[d.id].nextRunAt > clock
      /\ rows'[d.id].nextRunAt # Null => rows'[d.id].status = "active"
      /\ rows'[d.id].status # "absent"
      /\ \/ rows'[d.id] = rows[d.id] /\ rows[d.id].status = "deleted"
         \/ /\ rows'[d.id].runCount = d.row.runCount + 1
            /\ rows'[d.id].maxRuns = rows[d.id].maxRuns
            /\ rows'[d.id].status \in {"active", "completed"}
            /\ rows'[d.id].status = "active" => ~Exhausted(d)
  <2>1. CASE ~Exists(d.id)
    <3>1. rows' = rows /\ rows[d.id].status = "deleted"
      BY <1>0, <1>1, <1>8, <2>1 DEF Book, AutomationUpdate, Exists, TypeOK, Row
    <3>2. QED
      BY <1>1, <1>8, <3>1 DEF LInv, IdleRows
  <2>2. CASE Exists(d.id)
    <3>1. rows'[d.id] = Booked(d.id, d, proc[p].next)
      BY <1>0, <1>1, <2>2 DEF Book, AutomationUpdate, TypeOK
    <3>2. rows[d.id] \in Row
      BY <1>0, <1>1 DEF TypeOK
    <3>3. /\ rows'[d.id].runCount = RunCount(d) /\ rows'[d.id].maxRuns = rows[d.id].maxRuns
          /\ \/ rows'[d.id].nextRunAt = Null /\ rows'[d.id].status = "completed"
             \/ /\ rows'[d.id].nextRunAt = proc[p].next /\ rows'[d.id].status = "active"
                /\ ~Exhausted(d)
      BY <3>1, <3>2 DEF Booked, Row
    <3>4. QED
      BY <1>0, <3>3 DEF RunCount
  <2>3. QED
    BY <2>1, <2>2
<1>10. CountedFinite'
  BY <1>5 DEF CountedFinite
<1>11. IdleRows'
  BY <1>4, <1>9 DEF LInv, IdleRows
<1>12. BookAlone'
  BY <1>0, <1>2, <1>4, <1>7 DEF LInv, BookAlone
<1>13. SnapshotsCount'
  <2> SUFFICES ASSUME NEW q \in Procs, NEW e \in proc[q].due, e.id \notin edited,
                      rows'[e.id].nextRunAt = e.row.nextRunAt
               PROVE  SameCount(e)'
    BY <1>0, <1>2 DEF SnapshotsCount
  <2>1. /\ e.id \in Autos /\ e.row.nextRunAt \in Nat
        /\ e.row.nextRunAt # Null /\ e.row.nextRunAt <= clock
    BY <1>0, RowNumbers DEF IInv, PastDue
  <2>2. e.id # d.id
    BY <1>1, <1>9, <2>1
  <2>3. QED
    BY <1>4, <2>1, <2>2 DEF LInv, SnapshotsCount, SameCount
<1>14. BookingsCount'
  <2> SUFFICES ASSUME NEW q \in Procs, NEW e \in proc[q].cur, Booking(q, e)', e.id \notin edited
               PROVE  /\ SameCount(e)'
                      /\ rows'[e.id].maxRuns # 0 => rows'[e.id].runCount < rows'[e.id].maxRuns
                      /\ Cardinality(Counted(e.id)') <= rows'[e.id].runCount
    BY <1>0, <1>2 DEF BookingsCount
  <2>1. Booking(q, e) /\ e.id # d.id /\ e.id \in Autos
    BY <1>7
  <2>2. /\ SameCount(e)
        /\ rows[e.id].maxRuns # 0 => rows[e.id].runCount < rows[e.id].maxRuns
        /\ Cardinality(Counted(e.id)) <= rows[e.id].runCount
    BY <2>1 DEF LInv, BookingsCount
  <2>3. QED
    BY <1>3, <1>4, <1>5, <1>6, <2>1, <2>2 DEF SameCount
<1>15. \A a \in Autos \ edited : Within(a)'
  <2> SUFFICES ASSUME NEW a \in Autos \ edited PROVE Within(a)'
    OBVIOUS
  <2>1. Within(a)
    BY DEF LInv
  <2>2. CASE a # d.id
    BY <1>3, <1>4, <1>5, <1>6, <2>1, <2>2 DEF Within
  <2>3. CASE a = d.id
    <3>1. /\ SameCount(d)
          /\ rows[a].maxRuns # 0 => rows[a].runCount < rows[a].maxRuns
          /\ Cardinality(Counted(a)) <= rows[a].runCount
      BY <1>0, <2>3 DEF LInv, BookingsCount
    <3>2. Cardinality(Counted(a)') <= rows[a].runCount + 1
      BY <1>3, <1>5, <3>1
    <3>3. rows[a].maxRuns # 0 => Cardinality(Counted(a)') <= rows[a].maxRuns
      BY <1>3, <1>5, <3>1, <3>2
    <3>4. CASE rows'[a] = rows[a] /\ rows[a].status = "deleted"
      BY <3>3, <3>4 DEF Within
    <3>5. CASE /\ rows'[a].runCount = d.row.runCount + 1 /\ rows'[a].maxRuns = rows[a].maxRuns
               /\ rows'[a].status \in {"active", "completed"}
               /\ rows'[a].status = "active" => ~Exhausted(d)
      <4>1. rows'[a].runCount = rows[a].runCount + 1 /\ d.row.maxRuns = rows[a].maxRuns
        BY <2>3, <3>1, <3>5 DEF SameCount
      <4>2. rows'[a].status = "active" /\ rows'[a].maxRuns # 0 => rows'[a].runCount < rows'[a].maxRuns
        BY <1>1, <3>5, <4>1 DEF Exhausted, RunCount
      <4>3. QED
        BY <3>2, <3>3, <3>5, <4>1, <4>2 DEF Within
    <3>6. QED
      BY <1>9, <2>3, <3>4, <3>5
  <2>4. QED
    BY <2>2, <2>3
<1>16. QED
  BY <1>0, <1>10, <1>11, <1>12, <1>13, <1>14, <1>15 DEF LInv
(* Nothing is counted before the first tick. *)
LEMMA LimitInit == Init => LInv
<1> SUFFICES ASSUME Init PROVE LInv
  OBVIOUS
<1>1. \A p \in Procs : proc[p].pc = "idle" /\ proc[p].due = {} /\ proc[p].cur = {}
  BY DEF Init, Idle
<1>2. \A a \in Autos : /\ rows[a].status = "absent" /\ rows[a].nextRunAt = Null
                       /\ rows[a].runCount = 0 /\ rows[a].maxRuns = 0
  BY DEF Init, NoRow
<1>3. \A a \in Autos : Counted(a) = {}
  BY <1>1 DEF Init, Counted
<1>4. CountedFinite
  BY <1>3, FS_EmptySet DEF CountedFinite
<1>5. IdleRows /\ BookAlone /\ SnapshotsCount /\ BookingsCount
  BY <1>1, <1>2 DEF IdleRows, BookAlone, SnapshotsCount, BookingsCount
<1>6. \A a \in Autos : Within(a)
  <2>1. \A a \in Autos : Cardinality(Counted(a)) = 0
    BY <1>3, FS_EmptySet
  <2>2. QED
    BY <1>2, <2>1 DEF Within
<1>7. QED
  BY <1>4, <1>5, <1>6 DEF LInv

(* Every step of the scheduler keeps count. *)
LEMMA LimitStep == IInv /\ LInv /\ [SchedulerNext /\ BooksPromptly]_vars => LInv'
<1> SUFFICES ASSUME IInv, LInv, [SchedulerNext /\ BooksPromptly]_vars PROVE LInv'
  OBVIOUS
<1>t. TypeOK /\ TypeOK'
  BY TypeStep DEF IInv, Next
<1>p. \A q \in Procs : proc[q] \in [pc : {"idle", "loop", "book", "fire", "turn", "runNow"},
                         due : SUBSET Snapshot, fired : Nat, cur : SUBSET Snapshot, next : Nat]
  BY <1>t DEF TypeOK
<1>c. clock \in Nat
  BY <1>t DEF TypeOK
<1>1. ASSUME NEW p \in Procs, TickNow(p) PROVE LInv'
  <2>1. /\ UNCHANGED <<clock, rows, edited, fired>>
        /\ proc'[p].pc = "loop" /\ proc'[p].cur = {} /\ proc'[p].due = Due(clock)
        /\ \A q \in Procs \ {p} : proc'[q] = proc[q]
    BY <1>1, <1>t DEF TickNow, BeginTick, Idle, history, TypeOK
  <2>2. \A d \in Due(clock) : d.row = rows[d.id]
    BY DEF Due
  <2>3. \A a \in Autos : Counted(a)' \subseteq Counted(a)
    BY <2>1 DEF Counted, Occurrence
  <2>4. QED
    BY <2>1, <2>2, <2>3, ProcFrame
<1>2. ASSUME NEW p \in Procs, UNCHANGED <<clock, rows, edited, fired>>,
             proc' = [proc EXCEPT ![p] = Idle]
      PROVE  LInv'
  <2>1. /\ proc'[p].pc = "idle" /\ proc'[p].cur = {} /\ proc'[p].due = {}
        /\ \A q \in Procs \ {p} : proc'[q] = proc[q]
    BY <1>2, <1>t DEF Idle, TypeOK
  <2>2. \A a \in Autos : Counted(a)' \subseteq Counted(a)
    BY <1>2, <2>1 DEF Counted, Occurrence
  <2>3. QED
    BY <1>2, <2>1, <2>2, ProcFrame
<1>3. ASSUME NEW p \in Procs,
             (\E d \in proc[p].due : TickThrows(p, d)) \/ EndTick(p) \/ Crash(p)
      PROVE  LInv'
  BY <1>2, <1>3 DEF TickThrows, EndTick, Crash, history
<1>4. ASSUME NEW p \in Procs, NEW d \in proc[p].due, Claim(p, d) PROVE LInv'
  BY <1>4, ClaimCounts
<1>5. ASSUME NEW p \in Procs, NEW d \in proc[p].cur, Book(p, d) PROVE LInv'
  BY <1>5, BookCounts
<1>6. ASSUME NEW p \in Procs, NEW d \in proc[p].cur, FireStart(p, d) PROVE LInv'
  <2>1. /\ UNCHANGED <<clock, rows, edited>> /\ proc[p].pc = "fire"
        /\ fired' = fired \cup {Occurrence(d)}
    BY <1>6 DEF FireStart, Occurrence
  <2>2. /\ proc'[p].pc = "turn" /\ proc'[p].due = proc[p].due
        /\ \A q \in Procs \ {p} : proc'[q] = proc[q]
    BY <1>6, <1>p, <1>t DEF FireStart, TypeOK
  <2>3. \A a \in Autos : Counted(a)' \subseteq Counted(a)
    BY <2>1, <2>2 DEF Counted, Occurrence
  <2>4. QED
    BY <2>1, <2>2, <2>3, ProcFrame
<1>7. ASSUME NEW p \in Procs, NEW d \in proc[p].cur, FireFinish(p, d) PROVE LInv'
  <2>1. UNCHANGED <<clock, rows, edited, fired>>
    BY <1>7 DEF FireFinish, history
  <2>2. /\ proc'[p].pc = "loop" /\ proc'[p].due = proc[p].due
        /\ \A q \in Procs \ {p} : proc'[q] = proc[q]
    BY <1>7, <1>p, <1>t DEF FireFinish, TypeOK
  <2>3. \A a \in Autos : Counted(a)' \subseteq Counted(a)
    BY <2>1, <2>2 DEF Counted, Occurrence
  <2>4. QED
    BY <2>1, <2>2, <2>3, ProcFrame
<1>8. ASSUME NEW a \in Autos, NEW s \in Schedules, UpdateSchedule(a, s) PROVE LInv'
  <2>1. FirstRunAt(s, clock) > clock
    BY <1>8, <1>c, FirstRunAhead DEF UpdateSchedule
  <2>2. /\ rows'[a].nextRunAt = FirstRunAt(s, clock) /\ rows'[a].status = "active"
        /\ \A b \in Autos \ {a} : rows'[b] = rows[b]
    BY <1>8, <1>t DEF UpdateSchedule, TypeOK, Row
  <2>3. UNCHANGED <<clock, proc, fired>> /\ edited' = edited \cup {a}
    BY <1>8 DEF UpdateSchedule, Editing
  <2>4. QED
    BY <1>t, <2>1, <2>2, <2>3, EditFrame
<1>9. ASSUME NEW a \in Autos, NEW s \in Schedules, NEW limit \in RunLimits, Create(a, s, limit)
      PROVE  LInv'
  <2>1. FirstRunAt(s, clock) > clock
    BY <1>9, <1>c, FirstRunAhead DEF Create
  <2>2. /\ rows[a].status = "absent"
        /\ rows'[a].nextRunAt = FirstRunAt(s, clock) /\ rows'[a].status = "active"
        /\ rows'[a].runCount = 0 /\ \A b \in Autos \ {a} : rows'[b] = rows[b]
    BY <1>9, <1>t DEF Create, TypeOK
  <2>3. UNCHANGED <<clock, proc, fired, edited>>
    BY <1>9 DEF Create, history
  <2>4. QED
    BY <1>t, <2>1, <2>2, <2>3, EditFrame
<1>10. ASSUME NEW a \in Autos, NEW limit \in RunLimits, UpdateMaxRuns(a, limit) PROVE LInv'
  <2>1. /\ rows'[a].nextRunAt = rows[a].nextRunAt /\ rows'[a].status = rows[a].status
        /\ \A b \in Autos \ {a} : rows'[b] = rows[b]
    BY <1>10, <1>t DEF UpdateMaxRuns, TypeOK, Row
  <2>2. rows[a].status # "absent" /\ (rows[a].nextRunAt # Null => rows[a].status = "active")
    BY <1>10 DEF UpdateMaxRuns, Editing, Exists, LInv, IdleRows
  <2>3. UNCHANGED <<clock, proc, fired>> /\ edited' = edited \cup {a}
    BY <1>10 DEF UpdateMaxRuns, Editing
  <2>4. QED
    BY <1>t, <2>1, <2>2, <2>3, EditFrame
<1>11. ASSUME NEW a \in Autos, Toggle(a) PROVE LInv'
  <2>1. /\ rows'[a].nextRunAt = rows[a].nextRunAt /\ rows'[a].status = rows[a].status
        /\ rows'[a].runCount = rows[a].runCount /\ rows'[a].maxRuns = rows[a].maxRuns
        /\ \A b \in Autos \ {a} : rows'[b] = rows[b]
    BY <1>11, <1>t DEF Toggle, TypeOK, Row
  <2>2. rows[a].status # "absent" /\ (rows[a].nextRunAt # Null => rows[a].status = "active")
    BY <1>11 DEF Toggle, Editing, Exists, LInv, IdleRows
  <2>3. UNCHANGED <<clock, proc, fired, edited>>
    BY <1>11 DEF Toggle, Editing
  <2>4. QED
    BY <1>t, <2>1, <2>2, <2>3, EditFrame
<1>12. ASSUME NEW a \in Autos, Remove(a) PROVE LInv'
  <2>1. /\ rows'[a].nextRunAt = Null /\ rows'[a].status = "deleted"
        /\ rows'[a].runCount = rows[a].runCount /\ rows'[a].maxRuns = rows[a].maxRuns
        /\ \A b \in Autos \ {a} : rows'[b] = rows[b]
    BY <1>12, <1>t DEF Remove, TypeOK, Row
  <2>2. UNCHANGED <<clock, proc, fired, edited>>
    BY <1>12 DEF Remove, Editing
  <2>3. QED
    BY <1>t, <2>1, <2>2, EditFrame
<1>13. CASE AdvanceClock /\ BooksPromptly
  <2>1. UNCHANGED <<rows, proc, fired, edited>> /\ \A q \in Procs : proc[q].pc # "book"
    BY <1>13, <1>c DEF AdvanceClock, BooksPromptly, history
  <2>2. \A a \in Autos : Counted(a)' \subseteq Counted(a)
    BY <2>1 DEF Counted
  <2>3. QED
    BY <2>1, <2>2, ProcFrame
<1>14. CASE UNCHANGED vars
  <2>1. UNCHANGED <<clock, rows, proc, fired, edited>>
    BY <1>14 DEF vars
  <2>2. \A a \in Autos : Counted(a)' \subseteq Counted(a)
    BY <2>1 DEF Counted
  <2>3. QED
    BY <2>1, <2>2, ProcFrame
<1>15. QED
  BY <1>1, <1>3, <1>4, <1>5, <1>6, <1>7, <1>8, <1>9, <1>10, <1>11, <1>12, <1>13, <1>14
     DEF SchedulerNext, TickStep, UserEdit

(* "Finite runs via maxRuns": although the count is computed from the row  *)
(* the tick read, an automation whose schedule and limit nobody changes    *)
(* launches at most maxRuns turns, for any processes, crashes, toggles and *)
(* deletions, provided claims are booked promptly and nobody uses runNow.  *)
THEOREM RunLimitHolds == PromptSpec => []RunLimit
<1>1. IInv /\ LInv => RunLimit
  <2> SUFFICES ASSUME IInv, LInv, NEW a \in Autos \ edited, rows[a].maxRuns # 0
               PROVE  Cardinality(Fires(a)) <= rows[a].maxRuns
    BY DEF RunLimit
  <2>1. Fires(a) \subseteq Counted(a)
    BY DEF Fires, Counted, IInv, TypeOK
  <2>2. /\ Cardinality(Fires(a)) \in Nat /\ Cardinality(Counted(a)) \in Nat
        /\ Cardinality(Fires(a)) <= Cardinality(Counted(a))
    BY <2>1, CountShrinks DEF LInv, CountedFinite
  <2>3. Cardinality(Counted(a)) <= rows[a].maxRuns /\ rows[a].maxRuns \in Nat
    BY RowNumbers DEF IInv, LInv, Within
  <2>4. QED
    BY <2>2, <2>3
<1>2. QED
  BY <1>1, InvInit, InvStep, LimitInit, LimitStep, PTL DEF PromptSpec
==============================================================================
