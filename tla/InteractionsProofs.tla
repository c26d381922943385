------------------------- MODULE InteractionsProofs -------------------------
(* Theorems about module Interactions, for any bounds on plan states and    *)
(* requests: what keeps plan mode, and what leaves it.                      *)
EXTENDS Interactions, TLAPS

-----------------------------------------------------------------------------
(* The inductive invariant                                                  *)

(* The turn works with the plan state that the session's RPCs find, and it *)
(* awaits a request exactly when it waits.                                  *)
TurnOK ==
  /\ pc # "idle" => st = entry /\ entry # 0
  /\ waitingFor # 0 => pc \in {"plan", "ask"}

(* Until a plan is approved that plan state is active, across turns. *)
PlanOK == unapproved => entry # 0 /\ active[entry]

(* A pending plan is one that was submitted on this object, it is not a    *)
(* question, and its promise is open.                                       *)
PendingOK ==
  /\ \A o \in Objects : pending[o] # 0 =>
       /\ pending[o] <= asked /\ outcome[pending[o]] = "open" /\ pending[o] \notin questions
  /\ \A o1, o2 \in Objects : pending[o1] = pending[o2] /\ pending[o1] # 0 => o1 = o2

(* What was not submitted yet is open, and the timer of a plan is that of  *)
(* the object on which the plan is pending, if it still is.                 *)
RequestsOK ==
  /\ \A id \in Ids : id > asked => outcome[id] = "open" /\ id \notin questions
  /\ \A i \in DOMAIN timers :
       /\ timers[i].id <= asked
       /\ timers[i].kind = "plan" =>
            \A o \in Objects : pending[o] = timers[i].id => o = timers[i].st

(* The inductive invariant. *)
IInv == TypeOK /\ TurnOK /\ PlanOK /\ PendingOK /\ RequestsOK /\ NoWriteBeforeApproval

-----------------------------------------------------------------------------
(* The operators                                                            *)

(* forSession finds or makes an object; it never replaces one. *)
LEMMA SessionObject ==
  ASSUME TypeOK, ForSession
  PROVE  /\ made' \in 0..MaxObjects /\ entry' \in 0..made' /\ made <= made'
         /\ entry' \in Objects /\ (entry # 0 => entry' = entry)
BY BoundsAssumption DEF TypeOK, ForSession, Objects

(* A promise is resolved once, and nobody else's; the turn goes on at most. *)
LEMMA Resolved ==
  ASSUME IInv, NEW id \in Ids, NEW how \in Outcomes, Resolve(id, how)
  PROVE  /\ outcome' \in [Ids -> Outcomes] /\ \A x \in Ids : x # id => outcome'[x] = outcome[x]
         /\ outcome[id] = "open" => outcome'[id] = how
         /\ pc' \in {"idle", "working", "plan", "ask"} /\ waitingFor' \in 0..asked
         /\ pc' = "idle" <=> pc = "idle"
         /\ waitingFor' # 0 => pc' \in {"plan", "ask"}
<1>1. /\ outcome \in [Ids -> Outcomes] /\ pc \in {"idle", "working", "plan", "ask"}
      /\ waitingFor \in 0..asked /\ asked \in Nat /\ id # 0 /\ (waitingFor # 0 => pc \in {"plan", "ask"})
  BY BoundsAssumption DEF IInv, TypeOK, TurnOK, Ids
<1>2. outcome' = [outcome EXCEPT ![id] = IF @ = "open" THEN how ELSE @]
  BY DEF Resolve
<1>3. outcome' \in [Ids -> Outcomes] /\ \A x \in Ids : x # id => outcome'[x] = outcome[x]
  BY <1>1, <1>2
<1>4. outcome[id] = "open" => outcome'[id] = how
  BY <1>1, <1>2
<1>5. pc' \in {"idle", "working", "plan", "ask"} /\ (pc' = "idle" <=> pc = "idle")
  BY <1>1 DEF Resolve
<1>6. waitingFor' \in 0..asked
  BY <1>1 DEF Resolve
<1>7. waitingFor' # 0 => pc' \in {"plan", "ask"}
  BY <1>1 DEF Resolve
<1>8. QED
  BY <1>3, <1>4, <1>5, <1>6, <1>7

(* The oldest timer fires; the others stay as they are. *)
LEMMA Fired ==
  ASSUME TypeOK, timers # <<>>, timers' = Tail(timers)
  PROVE  /\ Head(timers) \in Timer /\ timers' \in Seq(Timer)
         /\ 1 \in DOMAIN timers /\ Head(timers) = timers[1]
         /\ \A i \in DOMAIN timers' : \E j \in DOMAIN timers : timers'[i] = timers[j]
<1>1. timers \in Seq(Timer)
  BY DEF TypeOK
<1>2. /\ Len(timers') = Len(timers) - 1 /\ timers' \in Seq(Timer)
      /\ \A i \in 1..Len(timers') : timers'[i] = timers[i + 1] /\ i + 1 \in 1..Len(timers)
  BY <1>1
<1>3. QED
  BY <1>1, <1>2

(* No turn, plan or question at the start. *)
LEMMA IInvInit == Init => IInv
<1> SUFFICES ASSUME Init PROVE IInv
  OBVIOUS
<1>1. TypeOK
  <2>1. timers \in Seq(Timer)
    BY DEF Init
  <2>2. outcome \in [Ids -> Outcomes]
    BY DEF Init, Outcomes
  <2>3. pending \in [Objects -> 0..MaxRequests] /\ active \in [Objects -> BOOLEAN]
    BY BoundsAssumption DEF Init
  <2>4. /\ entry \in 0..made /\ made \in 0..MaxObjects /\ st \in 0..made
        /\ waitingFor \in 0..asked /\ asked \in 0..MaxRequests
    BY BoundsAssumption DEF Init
  <2>5. unapproved \in BOOLEAN /\ breached \in BOOLEAN /\ pc \in {"idle", "working", "plan", "ask"}
        /\ questions \subseteq Ids
    BY DEF Init
  <2>6. QED
    BY <2>1, <2>2, <2>3, <2>4, <2>5 DEF TypeOK
<1>2. TurnOK /\ PlanOK /\ PendingOK /\ NoWriteBeforeApproval
  BY DEF Init, TurnOK, PlanOK, PendingOK, NoWriteBeforeApproval
<1>3. RequestsOK
  BY DEF Init, RequestsOK
<1>4. QED
  BY <1>1, <1>2, <1>3 DEF IInv

-----------------------------------------------------------------------------
(* The steps of the turn                                                    *)

(* A turn begins in the mode the session is in. *)
LEMMA BeginTurnStep ==
  ASSUME IInv, BeginTurn
  PROVE  IInv'
<1>1. /\ TypeOK /\ TurnOK /\ PlanOK /\ PendingOK /\ RequestsOK /\ NoWriteBeforeApproval
      /\ pc = "idle" /\ st' = entry' /\ pc' = "working"
      /\ UNCHANGED <<active, pending, questions, timers, waitingFor, outcome, asked, unapproved, breached>>
  BY DEF IInv, BeginTurn
<1>2. /\ made' \in 0..MaxObjects /\ entry' \in 0..made' /\ made <= made'
      /\ entry' \in Objects /\ (entry # 0 => entry' = entry)
  BY <1>1, SessionObject DEF BeginTurn
<1>3. TypeOK'
  BY <1>1, <1>2 DEF TypeOK
<1>4. TurnOK' /\ PlanOK'
  BY <1>1, <1>2 DEF TurnOK, PlanOK, Objects
<1>5. PendingOK' /\ RequestsOK' /\ NoWriteBeforeApproval'
  BY <1>1 DEF PendingOK, RequestsOK, NoWriteBeforeApproval
<1>6. QED
  BY <1>3, <1>4, <1>5 DEF IInv

(* EnterPlanMode, the first or a repeated one. *)
LEMMA EnterStep ==
  ASSUME IInv, Enter
  PROVE  IInv'
<1>1. /\ TypeOK /\ TurnOK /\ PlanOK /\ PendingOK /\ RequestsOK /\ NoWriteBeforeApproval
      /\ pc = "working" /\ active' = [active EXCEPT ![st] = TRUE] /\ unapproved' = TRUE
      /\ UNCHANGED <<entry, made, pending, questions, timers, pc, st, waitingFor, outcome, asked, breached>>
  BY DEF IInv, Enter
<1>2. st = entry /\ entry # 0 /\ st \in Objects
  BY <1>1, BoundsAssumption DEF TurnOK, TypeOK, Objects
<1>3. active' \in [Objects -> BOOLEAN] /\ active'[st] = TRUE
  BY <1>1, <1>2 DEF TypeOK
<1>4. TypeOK'
  BY <1>1, <1>3 DEF TypeOK
<1>5. TurnOK' /\ PlanOK'
  BY <1>1, <1>2, <1>3 DEF TurnOK, PlanOK
<1>6. PendingOK' /\ RequestsOK' /\ NoWriteBeforeApproval'
  BY <1>1 DEF PendingOK, RequestsOK, NoWriteBeforeApproval
<1>7. QED
  BY <1>4, <1>5, <1>6 DEF IInv

(* A new request: its id is above every id in use. *)
LEMMA SubmitStep ==
  ASSUME IInv, NEW kind \in {"plan", "ask"}, Submit(kind),
         \/ kind = "plan" /\ pending' = [pending EXCEPT ![st] = asked'] /\ UNCHANGED questions
         \/ kind = "ask" /\ questions' = questions \cup {asked'} /\ UNCHANGED pending
  PROVE  IInv'
<1>1. /\ TypeOK /\ TurnOK /\ PlanOK /\ PendingOK /\ RequestsOK /\ NoWriteBeforeApproval
      /\ pc = "working" /\ asked < MaxRequests /\ asked' = asked + 1 /\ waitingFor' = asked'
      /\ pc' = kind /\ timers' = Append(timers, [kind |-> kind, id |-> asked', st |-> st])
      /\ UNCHANGED <<entry, made, active, st, outcome, unapproved, breached>>
  BY DEF IInv, Submit
<1>2. /\ st = entry /\ entry # 0 /\ st \in Objects /\ asked \in Nat
      /\ asked' \in Ids /\ asked' \in Nat /\ asked' > asked /\ asked' # 0
      /\ asked' \in 0..MaxRequests /\ asked' \in 0..asked'
  BY <1>1, BoundsAssumption DEF TurnOK, TypeOK, Objects, Ids
<1>3. pending \in [Objects -> 0..MaxRequests] /\ questions \subseteq Ids
  BY <1>1 DEF TypeOK
<1>4. /\ pending' \in [Objects -> 0..MaxRequests] /\ questions' \subseteq Ids
      /\ \A o \in Objects : pending'[o] = pending[o] \/ (pending'[o] = asked' /\ o = st /\ kind = "plan")
      /\ questions' \subseteq questions \cup {asked'}
      /\ kind = "plan" => questions' = questions
  BY <1>2, <1>3
<1>5. /\ timers' \in Seq(Timer)
      /\ \A i \in DOMAIN timers' :
           \/ i \in DOMAIN timers /\ timers'[i] = timers[i]
           \/ timers'[i] = [kind |-> kind, id |-> asked', st |-> st]
  <2> DEFINE t == [kind |-> kind, id |-> asked', st |-> st]
  <2>1. t \in Timer
    BY <1>1, <1>2, BoundsAssumption DEF Timer, Objects
  <2>2. timers \in Seq(Timer) /\ timers' = Append(timers, t)
    BY <1>1 DEF TypeOK
  <2> HIDE DEF t
  <2>3. timers' \in Seq(Timer) /\ \A i \in DOMAIN timers' :
           \/ i \in DOMAIN timers /\ timers'[i] = timers[i]
           \/ timers'[i] = t
    BY <2>1, <2>2
  <2>4. QED
    BY <2>3 DEF t
<1>6. TypeOK'
  <2>1. pc' \in {"idle", "working", "plan", "ask"}
    BY <1>1
  <2>2. QED
    BY <1>1, <1>2, <1>4, <1>5, <2>1 DEF TypeOK
<1>7. TurnOK' /\ PlanOK' /\ NoWriteBeforeApproval'
  BY <1>1, <1>2 DEF TurnOK, PlanOK, NoWriteBeforeApproval
<1>8. \A o \in Objects : pending[o] # asked' /\ pending[o] \in Nat
  BY <1>1, <1>2, <1>3, BoundsAssumption DEF PendingOK
<1>9. outcome[asked'] = "open" /\ asked' \notin questions
  BY <1>1, <1>2 DEF RequestsOK
<1>10. PendingOK'
  <2>1. ASSUME NEW o \in Objects, pending'[o] # 0
        PROVE  pending'[o] <= asked' /\ outcome[pending'[o]] = "open" /\ pending'[o] \notin questions'
    <3>1. CASE pending'[o] = pending[o]
      BY <1>1, <1>2, <1>4, <1>8, <2>1, <3>1 DEF PendingOK
    <3>2. CASE pending'[o] = asked' /\ kind = "plan"
      BY <1>2, <1>4, <1>9, <3>2
    <3>3. QED
      BY <1>4, <3>1, <3>2
  <2>2. ASSUME NEW o1 \in Objects, NEW o2 \in Objects, pending'[o1] = pending'[o2], pending'[o1] # 0
        PROVE  o1 = o2
    BY <1>1, <1>4, <1>8, <2>2 DEF PendingOK
  <2>3. QED
    BY <1>1, <2>1, <2>2 DEF PendingOK
<1>11. RequestsOK'
  <2>1. ASSUME NEW id \in Ids, id > asked' PROVE outcome[id] = "open" /\ id \notin questions'
    BY <1>1, <1>2, <1>4, <2>1 DEF RequestsOK, Ids
  <2>2. ASSUME NEW i \in DOMAIN timers'
        PROVE  /\ timers'[i].id <= asked'
               /\ timers'[i].kind = "plan" =>
                    \A o \in Objects : pending'[o] = timers'[i].id => o = timers'[i].st
    <3>1. CASE i \in DOMAIN timers /\ timers'[i] = timers[i]
      <4>1. timers[i].id \in Nat /\ timers[i].id <= asked
        <5>1. timers[i] \in Timer
          BY <1>1, <3>1 DEF TypeOK
        <5>2. timers[i].id \in Nat
          BY <5>1, BoundsAssumption DEF Timer, Ids
        <5>3. QED
          BY <1>1, <3>1, <5>2 DEF RequestsOK
      <4>2. timers[i].id # asked' /\ timers[i].id <= asked'
        BY <1>1, <1>2, <4>1
      <4>3. QED
        BY <1>1, <1>4, <3>1, <4>2 DEF RequestsOK
    <3>2. CASE timers'[i] = [kind |-> kind, id |-> asked', st |-> st]
      BY <1>2, <1>4, <1>8, <3>2
    <3>3. QED
      BY <1>5, <3>1, <3>2
  <2>3. QED
    BY <1>1, <2>1, <2>2 DEF RequestsOK
<1>12. QED
  BY <1>6, <1>7, <1>10, <1>11 DEF IInv

(* A write-class tool is refused as long as no plan is approved. *)
LEMMA WriteToolStep ==
  ASSUME IInv, WriteTool
  PROVE  IInv'
<1>1. /\ TypeOK /\ TurnOK /\ PlanOK /\ PendingOK /\ RequestsOK /\ NoWriteBeforeApproval
      /\ pc = "working" /\ ~active[st] /\ breached' = (breached \/ unapproved)
      /\ UNCHANGED <<entry, made, active, pending, questions, timers, pc, st, waitingFor, outcome,
                     asked, unapproved>>
  BY DEF IInv, WriteTool, WriteAllowed
<1>2. ~unapproved
  BY <1>1 DEF TurnOK, PlanOK
<1>3. breached' = FALSE
  BY <1>1, <1>2 DEF NoWriteBeforeApproval
<1>4. TypeOK' /\ NoWriteBeforeApproval'
  BY <1>1, <1>3 DEF TypeOK, NoWriteBeforeApproval
<1>5. TurnOK' /\ PlanOK' /\ PendingOK' /\ RequestsOK'
  BY <1>1 DEF TurnOK, PlanOK, PendingOK, RequestsOK
<1>6. QED
  BY <1>4, <1>5 DEF IInv

(* The end of a turn, with requests open or not. *)
LEMMA EndTurnStep ==
  ASSUME IInv, NEW ok \in BOOLEAN, EndTurn(ok)
  PROVE  IInv'
<1>1. /\ TypeOK /\ TurnOK /\ PlanOK /\ PendingOK /\ RequestsOK /\ NoWriteBeforeApproval
      /\ pc = "working" /\ pc' = "idle" /\ st' = 0
      /\ entry' = (IF DropsEntry(ok) THEN 0 ELSE entry)
      /\ UNCHANGED <<made, active, pending, questions, timers, waitingFor, outcome, asked,
                     unapproved, breached>>
  BY DEF IInv, EndTurn
<1>2. waitingFor = 0 /\ (entry' = 0 \/ entry' = entry)
  BY <1>1 DEF TurnOK
<1>3. unapproved => entry' = entry
  BY <1>1 DEF PlanOK, DropsEntry
<1>4. TypeOK'
  BY <1>1, <1>2, BoundsAssumption DEF TypeOK
<1>5. TurnOK' /\ PlanOK'
  BY <1>1, <1>2, <1>3 DEF TurnOK, PlanOK
<1>6. PendingOK' /\ RequestsOK' /\ NoWriteBeforeApproval'
  BY <1>1 DEF PendingOK, RequestsOK, NoWriteBeforeApproval
<1>7. QED
  BY <1>4, <1>5, <1>6 DEF IInv

-----------------------------------------------------------------------------
(* Answers and timers                                                       *)

(* A request is resolved: no plan that stays pending loses its promise. *)
LEMMA ResolveStep ==
  ASSUME IInv, NEW id \in Ids, NEW how \in Outcomes, Resolve(id, how), id <= asked,
         pending' \in [Objects -> 0..MaxRequests], questions' \subseteq questions,
         \A o \in Objects : pending'[o] # 0 => pending'[o] = pending[o] /\ pending[o] # id,
         timers' \in Seq(Timer),
         \A i \in DOMAIN timers' : \E j \in DOMAIN timers : timers'[i] = timers[j],
         asked' = asked
  PROVE  PendingOK' /\ RequestsOK'
<1>1. TypeOK /\ PendingOK /\ RequestsOK /\ asked \in Nat /\ Ids \subseteq Nat
  BY BoundsAssumption DEF IInv, TypeOK, Ids
<1>2. /\ outcome' \in [Ids -> Outcomes] /\ \A x \in Ids : x # id => outcome'[x] = outcome[x]
  BY Resolved
<1>3. ASSUME NEW o \in Objects, pending'[o] # 0
      PROVE  pending'[o] <= asked /\ outcome'[pending'[o]] = "open" /\ pending'[o] \notin questions'
  <2>1. pending'[o] = pending[o] /\ pending[o] # id /\ pending[o] \in Ids
    BY <1>1, <1>3, BoundsAssumption DEF TypeOK, Ids
  <2>2. QED
    BY <1>1, <1>2, <1>3, <2>1 DEF PendingOK
<1>4. ASSUME NEW o1 \in Objects, NEW o2 \in Objects, pending'[o1] = pending'[o2], pending'[o1] # 0
      PROVE  o1 = o2
  BY <1>1, <1>4 DEF PendingOK
<1>5. ASSUME NEW x \in Ids, x > asked PROVE outcome'[x] = "open" /\ x \notin questions'
  BY <1>1, <1>2, <1>5 DEF RequestsOK
<1>6. ASSUME NEW i \in DOMAIN timers'
      PROVE  /\ timers'[i].id <= asked
             /\ timers'[i].kind = "plan" =>
                  \A o \in Objects : pending'[o] = timers'[i].id => o = timers'[i].st
  <2>1. PICK j \in DOMAIN timers : timers'[i] = timers[j]
    BY <1>6
  <2>2. timers[j].id # 0
    <3>1. timers[j] \in Timer
      BY <1>1 DEF TypeOK
    <3>2. QED
      BY <3>1 DEF Timer, Ids
  <2>3. QED
    BY <1>1, <2>1, <2>2 DEF RequestsOK
<1>7. QED
  BY <1>3, <1>4, <1>5, <1>6 DEF PendingOK, RequestsOK

(* The timer that found nothing to do changes nothing but the timers. *)
LEMMA IdleTimer ==
  ASSUME IInv, timers' \in Seq(Timer),
         \A i \in DOMAIN timers' : \E j \in DOMAIN timers : timers'[i] = timers[j],
         UNCHANGED <<entry, made, active, pending, questions, pc, st, waitingFor, outcome,
                     asked, unapproved, breached>>
  PROVE  IInv'
<1>1. TypeOK /\ TurnOK /\ PlanOK /\ PendingOK /\ RequestsOK /\ NoWriteBeforeApproval
  BY DEF IInv
<1>2. TypeOK' /\ TurnOK' /\ PlanOK' /\ PendingOK' /\ NoWriteBeforeApproval'
  BY <1>1 DEF TypeOK, TurnOK, PlanOK, PendingOK, NoWriteBeforeApproval
<1>3. RequestsOK'
  BY <1>1 DEF RequestsOK
<1>4. QED
  BY <1>2, <1>3 DEF IInv

(* Whatever resolves a request outside of plan mode keeps plan mode. *)
LEMMA OtherResolveStep ==
  ASSUME IInv, NEW id \in Ids, NEW how \in Outcomes, Resolve(id, how),
         PendingOK', RequestsOK', timers' \in Seq(Timer),
         pending' \in [Objects -> 0..MaxRequests], questions' \subseteq questions,
         UNCHANGED <<entry, made, active, st, asked, unapproved, breached>>
  PROVE  IInv'
<1>1. TypeOK /\ TurnOK /\ PlanOK /\ NoWriteBeforeApproval
  BY DEF IInv
<1>2. /\ outcome' \in [Ids -> Outcomes] /\ waitingFor' \in 0..asked
      /\ pc' \in {"idle", "working", "plan", "ask"} /\ (pc' = "idle" <=> pc = "idle")
      /\ waitingFor' # 0 => pc' \in {"plan", "ask"}
  BY Resolved
<1>3. TypeOK'
  BY <1>1, <1>2 DEF TypeOK
<1>4. TurnOK' /\ PlanOK' /\ NoWriteBeforeApproval'
  BY <1>1, <1>2 DEF TurnOK, PlanOK, NoWriteBeforeApproval
<1>5. QED
  BY <1>3, <1>4 DEF IInv

(* The user answers a question, in time or late. *)
LEMMA AnswerStep ==
  ASSUME IInv, NEW id \in Ids, Answer(id)
  PROVE  IInv'
<1>1. /\ TypeOK /\ PendingOK /\ RequestsOK /\ id \in questions /\ questions' = questions \ {id}
      /\ Resolve(id, "answered")
      /\ UNCHANGED <<entry, made, active, pending, timers, st, asked, unapproved, breached>>
  BY DEF IInv, Answer
<1>2. id <= asked /\ \A o \in Objects : pending[o] # 0 => pending[o] # id
  BY <1>1, BoundsAssumption DEF RequestsOK, PendingOK, TypeOK, Ids
<1>3. timers' \in Seq(Timer) /\ pending' \in [Objects -> 0..MaxRequests] /\ "answered" \in Outcomes
  BY <1>1 DEF TypeOK, Outcomes
<1>4. \A i \in DOMAIN timers' : \E j \in DOMAIN timers : timers'[i] = timers[j]
  BY <1>1
<1>5. PendingOK' /\ RequestsOK'
  BY <1>1, <1>2, <1>3, <1>4, ResolveStep
<1>6. QED
  BY <1>1, <1>3, <1>5, OtherResolveStep

(* A question times out. *)
LEMMA AskTimeoutStep ==
  ASSUME IInv, AskTimeout
  PROVE  IInv'
<1> DEFINE t == Head(timers)
<1>1. /\ TypeOK /\ PendingOK /\ RequestsOK /\ timers # <<>> /\ timers' = Tail(timers)
      /\ UNCHANGED <<entry, made, active, pending, st, asked, unapproved, breached>>
  BY DEF IInv, AskTimeout
<1>2. /\ t \in Timer /\ timers' \in Seq(Timer)
      /\ \A i \in DOMAIN timers' : \E j \in DOMAIN timers : timers'[i] = timers[j]
      /\ pending' \in [Objects -> 0..MaxRequests] /\ "timeout" \in Outcomes
  BY <1>1, Fired DEF TypeOK, Outcomes
<1>3. CASE AskTimerClears(t)
  <2>1. t.id \in Ids /\ t.id \in questions /\ questions' = questions \ {t.id}
        /\ Resolve(t.id, "timeout")
    BY <1>2, <1>3 DEF AskTimeout, AskTimerClears, Timer
  <2>2. t.id <= asked /\ \A o \in Objects : pending[o] # 0 => pending[o] # t.id
    BY <1>1, <2>1, BoundsAssumption DEF RequestsOK, PendingOK, TypeOK, Ids
  <2>3. PendingOK' /\ RequestsOK'
    BY <1>1, <1>2, <2>1, <2>2, ResolveStep
  <2>4. QED
    BY <1>1, <1>2, <2>1, <2>3, OtherResolveStep
<1>4. CASE ~AskTimerClears(t)
  BY <1>1, <1>2, <1>4, IdleTimer DEF AskTimeout
<1>5. QED
  BY <1>3, <1>4

(* The timer of an earlier plan clears a later one, and resolves its own: *)
(* the plan state stays active.                                             *)
LEMMA PlanTimeoutStep ==
  ASSUME IInv, PlanTimeout
  PROVE  IInv'
<1> DEFINE t == Head(timers)
<1>1. /\ TypeOK /\ PendingOK /\ RequestsOK /\ timers # <<>> /\ timers' = Tail(timers)
      /\ t.kind = "plan"
      /\ UNCHANGED <<entry, made, active, questions, st, asked, unapproved, breached>>
  BY DEF IInv, PlanTimeout
<1>2. /\ t \in Timer /\ timers' \in Seq(Timer) /\ 1 \in DOMAIN timers /\ t = timers[1]
      /\ \A i \in DOMAIN timers' : \E j \in DOMAIN timers : timers'[i] = timers[j]
      /\ "timeout" \in Outcomes /\ t.id \in Ids
  BY <1>1, Fired DEF Timer, Outcomes
<1>3. CASE PlanTimerClears(t)
  <2>1. pending' = [pending EXCEPT ![t.st] = 0] /\ Resolve(t.id, "timeout")
    BY <1>3 DEF PlanTimeout
  <2>2. t.id <= asked /\ \A o \in Objects : pending[o] = t.id => o = t.st
    BY <1>1, <1>2 DEF RequestsOK
  <2>3. /\ pending' \in [Objects -> 0..MaxRequests]
        /\ \A o \in Objects : pending'[o] # 0 => pending'[o] = pending[o] /\ o # t.st
    <3>1. pending \in [Objects -> 0..MaxRequests] /\ 0 \in 0..MaxRequests
      BY <1>1, BoundsAssumption DEF TypeOK
    <3> HIDE DEF t
    <3>2. QED
      BY <2>1, <3>1
  <2>4. PendingOK' /\ RequestsOK'
    BY <1>1, <1>2, <2>1, <2>2, <2>3, ResolveStep
  <2>5. QED
    BY <1>1, <1>2, <2>1, <2>3, <2>4, OtherResolveStep
<1>4. CASE ~PlanTimerClears(t)
  BY <1>1, <1>2, <1>4, IdleTimer DEF PlanTimeout
<1>5. QED
  BY <1>3, <1>4

(* Only an approval leaves plan mode. *)
LEMMA ApprovePlanStep ==
  ASSUME IInv, NEW id \in Ids, NEW allow \in BOOLEAN, ApprovePlan(id, allow)
  PROVE  IInv'
<1>1. /\ TypeOK /\ TurnOK /\ PlanOK /\ PendingOK /\ RequestsOK /\ NoWriteBeforeApproval
      /\ id <= asked /\ ForSession /\ UNCHANGED <<questions, timers, st, asked, breached>>
  BY DEF IInv, ApprovePlan
<1>2. /\ made' \in 0..MaxObjects /\ entry' \in 0..made' /\ made <= made'
      /\ entry' \in Objects /\ (entry # 0 => entry' = entry)
  BY <1>1, SessionObject
<1>3. st \in 0..made'
  BY <1>1, <1>2 DEF TypeOK
<1>4. CASE ~Approves(id)
  <2>1. UNCHANGED <<pending, active, unapproved, outcome, pc, waitingFor>>
    BY <1>4 DEF ApprovePlan
  <2>2. TypeOK'
    BY <1>1, <1>2, <1>3, <2>1 DEF TypeOK
  <2>3. TurnOK' /\ PlanOK' /\ PendingOK' /\ RequestsOK' /\ NoWriteBeforeApproval'
    BY <1>1, <1>2, <2>1 DEF TurnOK, PlanOK, PendingOK, RequestsOK, NoWriteBeforeApproval
  <2>4. QED
    BY <2>2, <2>3 DEF IInv
<1>5. CASE Approves(id)
  <2>1. PICK e \in Objects : e = entry'
    BY <1>2
  <2>2. PICK how \in Outcomes : Resolve(id, how)
    BY <1>5 DEF ApprovePlan, Outcomes
  <2>3. /\ pending' = [pending EXCEPT ![e] = 0] /\ active' = [active EXCEPT ![e] = ~allow]
        /\ unapproved' = (unapproved /\ ~allow) /\ pending[e] = id
    BY <1>5, <2>1 DEF ApprovePlan, Approves
  <2>4. /\ pending' \in [Objects -> 0..MaxRequests] /\ id # 0
        /\ \A o \in Objects : pending'[o] # 0 => pending'[o] = pending[o] /\ o # e
    BY <1>1, <2>3, BoundsAssumption DEF TypeOK, Ids
  <2>5. \A o \in Objects : pending[o] = id => o = e
    BY <1>1, <2>3, <2>4 DEF PendingOK
  <2>6. PendingOK' /\ RequestsOK'
    <3>1. timers' \in Seq(Timer) /\ \A i \in DOMAIN timers' : \E j \in DOMAIN timers : timers'[i] = timers[j]
      BY <1>1 DEF TypeOK
    <3>2. QED
      BY <1>1, <2>2, <2>4, <2>5, <3>1, ResolveStep
  <2>7. /\ outcome' \in [Ids -> Outcomes] /\ waitingFor' \in 0..asked
        /\ pc' \in {"idle", "working", "plan", "ask"} /\ (pc' = "idle" <=> pc = "idle")
        /\ waitingFor' # 0 => pc' \in {"plan", "ask"}
    BY <2>2, Resolved
  <2>8. active' \in [Objects -> BOOLEAN] /\ active'[e] = ~allow /\ unapproved' \in BOOLEAN
    BY <1>1, <2>3, Zenon DEF TypeOK
  <2>9. TypeOK'
    BY <1>1, <1>2, <1>3, <2>4, <2>7, <2>8 DEF TypeOK
  <2>10. TurnOK' /\ NoWriteBeforeApproval'
    BY <1>1, <1>2, <2>7 DEF TurnOK, NoWriteBeforeApproval
  <2>11. e # 0
    BY DEF Objects
  <2>12. PlanOK'
    BY <2>1, <2>3, <2>8, <2>11 DEF PlanOK
  <2>13. QED
    BY <2>6, <2>9, <2>10, <2>12 DEF IInv
<1>6. QED
  BY <1>4, <1>5

-----------------------------------------------------------------------------
(* The theorems                                                             *)

(* The invariant is inductive. *)
LEMMA IInvStep == IInv /\ [Next]_vars => IInv'
<1> SUFFICES ASSUME IInv, [Next]_vars PROVE IInv'
  OBVIOUS
<1>1. CASE UNCHANGED vars
  BY <1>1 DEF vars, IInv, TypeOK, TurnOK, PlanOK, PendingOK, RequestsOK, NoWriteBeforeApproval
<1>2. CASE Exit \/ AskUser
  BY <1>2, SubmitStep DEF Exit, AskUser
<1>3. CASE BeginTurn \/ Enter \/ WriteTool \/ PlanTimeout \/ AskTimeout
  BY <1>3, BeginTurnStep, EnterStep, WriteToolStep, PlanTimeoutStep, AskTimeoutStep
<1>4. QED
  BY <1>1, <1>2, <1>3, EndTurnStep, ApprovePlanStep, AnswerStep DEF Next

(* The invariant holds always. *)
LEMMA Inductive == Spec => []IInv
<1>1. QED
  BY IInvInit, IInvStep, PTL DEF Spec

(* Plan mode holds across turns, timeouts, rejections and late answers: no *)
(* write-class tool runs between EnterPlanMode and the approval of a plan.  *)
THEOREM NoWriteBeforeApprovalHolds == Spec => []NoWriteBeforeApproval
<1>1. IInv => NoWriteBeforeApproval
  BY DEF IInv
<1>2. QED
  BY <1>1, Inductive, PTL

(* Only the approval of a plan whose promise is still open leaves plan     *)
(* mode; an answer after the timeout or for an earlier plan does not.       *)
THEOREM OnlyOpenPlanIsApprovedHolds == Spec => OnlyOpenPlanIsApproved
<1> DEFINE Left(o) == active[o] /\ ~active'[o]
           Approved(id) == outcome[id] = "open" /\ outcome'[id] = "approved"
<1>1. ASSUME IInv, [Next]_vars, NEW o \in Objects, Left(o) PROVE \E id \in Ids : Approved(id)
  <2>1. active' # active
    BY <1>1
  <2>2. active \in [Objects -> BOOLEAN]
    BY <1>1 DEF IInv, TypeOK
  <2>3. ~Enter
    BY <1>1, <2>2, Zenon DEF Enter
  <2>4. PICK id \in Ids, allow \in BOOLEAN : ApprovePlan(id, allow)
    BY <1>1, <2>1, <2>3 DEF Next, vars, BeginTurn, Exit, AskUser, Submit, WriteTool, EndTurn,
       Answer, PlanTimeout, AskTimeout
  <2>5. Approves(id) /\ ForSession
    BY <2>1, <2>4 DEF ApprovePlan
  <2>6. entry' \in Objects
    BY <1>1, <2>5, SessionObject DEF IInv
  <2>7. active' = [active EXCEPT ![entry'] = ~allow] /\ pending[entry'] = id
    BY <2>4, <2>5 DEF ApprovePlan, Approves
  <2>8. allow
    BY <1>1, <2>2, <2>7, Zenon
  <2>9. Resolve(id, "approved") /\ "approved" \in Outcomes
    BY <2>4, <2>5, <2>8 DEF ApprovePlan, Outcomes
  <2>10. outcome[id] = "open"
    BY <1>1, <2>6, <2>7 DEF IInv, PendingOK, Ids
  <2>11. outcome'[id] = "approved"
    BY <1>1, <2>9, <2>10, Resolved
  <2>12. QED
    BY <2>10, <2>11
<1>2. IInv /\ [Next]_vars =>
        [\A o \in Objects : active[o] /\ ~active'[o] =>
           \E id \in Ids : outcome[id] = "open" /\ outcome'[id] = "approved"]_vars
  BY <1>1
<1>3. QED
  BY <1>2, Inductive, PTL DEF Spec, OnlyOpenPlanIsApproved
=============================================================================
