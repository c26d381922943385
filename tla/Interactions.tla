---------------------------- MODULE Interactions ----------------------------
(***************************************************************************)
(* What a running turn asks its user besides permissions: the approval of  *)
(* a plan (createPlanMode in packages/cli/src/agent/loop.js, session/      *)
(* approvePlan in appserver/server.js) and a question (askUser, session/   *)
(* answer).  Both wait on a promise that an RPC or a 600 s timer resolves. *)
(*                                                                         *)
(* One session, whose turns run one after the other.  The plan state is an *)
(* object that outlives its entry in sessionPlanState: a turn and a timer  *)
(* keep the object they captured.                                          *)
(***************************************************************************)
EXTENDS Integers, Sequences

CONSTANTS
  MaxObjects,   \* bound on plan-state objects ever made for the session
  MaxRequests   \* bound on plans and questions ever submitted

ASSUME BoundsAssumption == MaxObjects \in Nat /\ MaxRequests \in Nat

VARIABLES
  entry,      \* sessionPlanState.get(sessionId): an object, or 0
  made,       \* how many objects were made
  active,     \* st.active per object
  pending,    \* st.pendingApproval.id per object, 0 when null
  questions,  \* ids in pendingQuestions
  timers,     \* armed 600 s timers, oldest first: they fire in this order
  pc,         \* the turn: idle, working, or waiting for a plan or a question
  st,         \* the object the turn works with (planBlock and ctx.planMode)
  waitingFor, \* id of the request the turn awaits
  outcome,    \* how the promise of each request was resolved
  asked,      \* how many requests were submitted
  unapproved, \* history: plan mode was entered and no plan approved since
  breached    \* history: a write-class tool ran while unapproved

vars == <<entry, made, active, pending, questions, timers, pc, st, waitingFor, outcome,
          asked, unapproved, breached>>

Objects == 1..MaxObjects
Ids == 1..MaxRequests
Timer == [kind : {"plan", "ask"}, id : Ids, st : 0..MaxObjects]
Outcomes == {"open", "approved", "rejected", "answered", "timeout"}

-----------------------------------------------------------------------------
(* forSession: the entry, or a new inactive object. *)

ForSession ==
  IF entry # 0 THEN entry' = entry /\ made' = made
  ELSE made < MaxObjects /\ entry' = made + 1 /\ made' = made + 1

(* The promise of a request is resolved once; the turn goes on if it is    *)
(* the one it awaits.                                                      *)
Resolve(id, how) ==
  /\ outcome' = [outcome EXCEPT ![id] = IF @ = "open" THEN how ELSE @]
  /\ pc' = IF waitingFor = id THEN "working" ELSE pc
  /\ waitingFor' = IF waitingFor = id THEN 0 ELSE waitingFor

(* launchTurn: the turn binds to the session's plan state. *)
BeginTurn ==
  /\ pc = "idle"
  /\ ForSession
  /\ st' = entry'
  /\ pc' = "working"
  /\ UNCHANGED <<active, pending, questions, timers, waitingFor, outcome, asked, unapproved, breached>>

(* EnterPlanMode *)
Enter ==
  /\ pc = "working"
  /\ active' = [active EXCEPT ![st] = TRUE]
  /\ unapproved' = TRUE
  /\ UNCHANGED <<entry, made, pending, questions, timers, pc, st, waitingFor, outcome, asked, breached>>

(* A request is submitted: the turn awaits it and its timer is armed. *)
Submit(kind) ==
  /\ pc = "working"
  /\ asked < MaxRequests
  /\ asked' = asked + 1
  /\ waitingFor' = asked'
  /\ pc' = kind
  /\ timers' = Append(timers, [kind |-> kind, id |-> asked', st |-> st])
  /\ UNCHANGED <<entry, made, active, st, outcome, unapproved, breached>>

(* ExitPlanMode *)
Exit ==
  /\ Submit("plan")
  /\ pending' = [pending EXCEPT ![st] = asked']
  /\ UNCHANGED questions

(* AskUserQuestion *)
AskUser ==
  /\ Submit("ask")
  /\ questions' = questions \cup {asked'}
  /\ UNCHANGED pending

(* session/approvePlan: the entry's pending plan, and only under its id. *)
ApprovesAny(id) == pending[entry'] # 0   \* faulty: the id is not compared
Approves(id) == pending[entry'] = id

ApprovePlan(id, allow) ==
  /\ id <= asked
  /\ ForSession
  /\ IF Approves(id)
       THEN /\ pending' = [pending EXCEPT ![entry'] = 0]
            /\ active' = [active EXCEPT ![entry'] = ~allow]
            /\ unapproved' = (unapproved /\ ~allow)
            /\ Resolve(id, IF allow THEN "approved" ELSE "rejected")
       ELSE UNCHANGED <<pending, active, unapproved, outcome, pc, waitingFor>>
  /\ UNCHANGED <<questions, timers, st, asked, breached>>

(* The plan timer: it looks whether any approval is pending on its object. *)
PlanTimerIdle(t) == FALSE   \* faulty: no timeout
PlanTimerClears(t) == pending[t.st] # 0

PlanTimeout ==
  /\ timers # <<>> /\ Head(timers).kind = "plan"
  /\ LET t == Head(timers)
     IN  IF PlanTimerClears(t)
           THEN pending' = [pending EXCEPT ![t.st] = 0] /\ Resolve(t.id, "timeout")
           ELSE UNCHANGED <<pending, outcome, pc, waitingFor>>
  /\ timers' = Tail(timers)
  /\ UNCHANGED <<entry, made, active, questions, st, asked, unapproved, breached>>

(* session/answer *)
Answer(id) ==
  /\ id \in questions
  /\ questions' = questions \ {id}
  /\ Resolve(id, "answered")
  /\ UNCHANGED <<entry, made, active, pending, timers, st, asked, unapproved, breached>>

(* The question timer: it looks whether its own question is pending. *)
AskTimerClears(t) == t.id \in questions

AskTimeout ==
  /\ timers # <<>> /\ Head(timers).kind = "ask"
  /\ LET t == Head(timers)
     IN  IF AskTimerClears(t)
           THEN questions' = questions \ {t.id} /\ Resolve(t.id, "timeout")
           ELSE UNCHANGED <<questions, outcome, pc, waitingFor>>
  /\ timers' = Tail(timers)
  /\ UNCHANGED <<entry, made, active, pending, st, asked, unapproved, breached>>

(* A write-class tool call: refused while planBlock.active. *)
WriteAllowed == ~active[st]

WriteTool ==
  /\ pc = "working"
  /\ WriteAllowed
  /\ breached' = (breached \/ unapproved)
  /\ UNCHANGED <<entry, made, active, pending, questions, timers, pc, st, waitingFor, outcome,
                 asked, unapproved>>

(* The turn ends; a turn that ended well drops an inactive plan state. *)
DropsAnyEntry(ok) == ok /\ entry # 0   \* faulty: plan mode is forgotten
DropsEntry(ok) == ok /\ entry # 0 /\ ~active[entry]

EndTurn(ok) ==
  /\ pc = "working"
  /\ pc' = "idle"
  /\ entry' = IF DropsEntry(ok) THEN 0 ELSE entry
  /\ st' = 0
  /\ UNCHANGED <<made, active, pending, questions, timers, waitingFor, outcome, asked,
                 unapproved, breached>>

-----------------------------------------------------------------------------
Init ==
  /\ entry = 0 /\ made = 0
  /\ active = [o \in Objects |-> FALSE]
  /\ pending = [o \in Objects |-> 0]
  /\ questions = {} /\ timers = <<>>
  /\ pc = "idle" /\ st = 0 /\ waitingFor = 0
  /\ outcome = [id \in Ids |-> "open"]
  /\ asked = 0
  /\ unapproved = FALSE /\ breached = FALSE

Next ==
  \/ BeginTurn \/ Enter \/ Exit \/ AskUser \/ WriteTool
  \/ \E ok \in BOOLEAN : EndTurn(ok)
  \/ \E id \in Ids, allow \in BOOLEAN : ApprovePlan(id, allow)
  \/ \E id \in Ids : Answer(id)
  \/ PlanTimeout \/ AskTimeout

Timers == PlanTimeout \/ AskTimeout

Spec == Init /\ [][Next]_vars
FairSpec == Spec /\ WF_vars(Timers)

-----------------------------------------------------------------------------
(* Properties *)

TypeOK ==
  /\ entry \in 0..made /\ made \in 0..MaxObjects
  /\ active \in [Objects -> BOOLEAN]
  /\ pending \in [Objects -> 0..MaxRequests]
  /\ questions \subseteq Ids
  /\ timers \in Seq(Timer)
  /\ pc \in {"idle", "working", "plan", "ask"}
  /\ st \in 0..made /\ waitingFor \in 0..asked /\ asked \in 0..MaxRequests
  /\ outcome \in [Ids -> Outcomes]
  /\ unapproved \in BOOLEAN /\ breached \in BOOLEAN

\* Plan mode holds across turns, timeouts and rejections: from EnterPlanMode
\* on, no write-class tool runs before the user has approved a plan.
NoWriteBeforeApproval == ~breached

\* Plan mode is left only by approving, under its own id, the plan whose
\* promise is still open; an answer that comes after the timeout, or for an
\* earlier plan, leaves it alone.
OnlyOpenPlanIsApproved ==
  [][\A o \in Objects : active[o] /\ ~active'[o] =>
       \E id \in Ids : outcome[id] = "open" /\ outcome'[id] = "approved"]_vars

NoOlderTimer ==
  \A i \in DOMAIN timers :
    timers[i].kind = "plan" /\ timers[i].st = st => timers[i].id = waitingFor

\* The turn does not wait for the user for ever: a question ends with an
\* answer, or with its timer at the latest, and so does a submitted plan,
\* provided no timer of an earlier plan is still armed on the same plan state.
WaitsEnd ==
  /\ pc = "ask" ~> pc # "ask"
  /\ (pc = "plan" /\ pending[st] = waitingFor /\ NoOlderTimer) ~> pc # "plan"
=============================================================================
