---------------------------- MODULE KernelTurns ----------------------------
(***************************************************************************)
(* The turns of one kernel session.  The session has one slot for the turn *)
(* that is active (Session::active_turn, a mutex that is never held across *)
(* the work of a turn), one mailbox for messages of other agents, and one  *)
(* TurnState per active turn with the input that waits for the model.      *)
(*                                                                         *)
(* Several asynchronous processes use the slot: the submission loop, which *)
(* handles one operation at a time; the task of every turn, which after    *)
(* its last step may start the next turn itself; and the guardian, which   *)
(* aborts a turn from a task of its own.  Every await is a point where the *)
(* others may go on, so an operation is a sequence of steps, and what it   *)
(* has learnt from the slot may be out of date at its next step.           *)
(*                                                                         *)
(* A TurnState is named by the turn it is made for and by the place that   *)
(* makes it (0 a reservation, 1 and 2 the two get_or_insert_with of        *)
(* start_task), because the code compares TurnStates by pointer.           *)
(* Messages are tracked one by one; their text, hooks that reject one, and *)
(* the durable sleep of an extension are left out.                         *)
(***************************************************************************)
EXTENDS Integers, FiniteSets

CONSTANTS Turns,       \* ids of turns (and of their tasks)
          NoTurn,
          Loop,        \* the submission loop
          Guardian,    \* the guardian's abort task
          Users,       \* user messages
          Triggers,    \* mail of other agents that asks for a turn
          Queued,      \* mail of other agents that does not
          Injected,    \* items injected by tools, reviews and extensions
          Others       \* requests for a compaction, a review or a shell command

ASSUME KernelAssumption ==
  /\ {Loop, Guardian} \cap Turns = {} /\ Loop # Guardian
  /\ NoTurn \notin Turns \cup {Loop, Guardian}
  /\ Queued \cap (Users \cup Injected) = {}

VARIABLES
  active,     \* Session::active_turn
  state,      \* state[s]: pending input and mailbox delivery phase of a TurnState
  mailbox,    \* InputQueue::mailbox_pending_mails
  proc,       \* proc[p]: where process p is, and its local variables
  fresh,      \* what has not been submitted yet
  settled,    \* messages in the conversation history, or discarded by an abort
  ended       \* history: how many terminal events turn t has sent

vars == <<active, state, mailbox, proc, fresh, settled, ended>>

Mail == Triggers \cup Queued
Items == Users \cup Mail \cup Injected
Procs == Turns \cup {Loop, Guardian}
States == Turns \X (0..2)
NoState == <<NoTurn, 0>>
NoActive == [state |-> NoState, task |-> NoTurn]

RunPcs == {"begin", "drain_input", "sampling", "check", "outer", "flush"}
StartPcs == {"reserve", "drain", "extend", "start", "spawn"}
Pcs == RunPcs \cup StartPcs \cup
       {"none", "finish", "save", "release", "wake", "replace", "recheck", "abort",
        "aborted", "idle", "end"}

Empty == [pending |-> {}, phase |-> "current"]
Proc(pc) ==
  [pc |-> pc,
   turn |-> NoTurn,        \* the turn it starts
   target |-> NoTurn,      \* the turn it aborts
   state |-> NoState,      \* the TurnState it holds
   items |-> {},           \* the input it holds
   kind |-> "regular",     \* TaskKind
   cancelled |-> FALSE,    \* of a task: its token is cancelled
   canDrain |-> FALSE,     \* can_drain_pending_input
   followUp |-> FALSE,     \* model_needs_follow_up
   answered |-> FALSE]     \* the last sampling ended with an answer

Init ==
  /\ active = NoActive
  /\ state = [s \in States |-> Empty]
  /\ mailbox = {}
  /\ proc = [p \in Procs |-> Proc(IF p \in Turns THEN "none" ELSE "idle")]
  /\ fresh = Items \cup Others
  /\ settled = {}
  /\ ended = [t \in Turns |-> 0]

-----------------------------------------------------------------------------
Rest(p) == Proc(IF p \in Turns THEN "end" ELSE "idle")
Goto(p, pc) == proc' = [proc EXCEPT ![p].pc = pc]
Leave(p) == proc' = [proc EXCEPT ![p] = Rest(p)]

Reserved == active # NoActive /\ active.task = NoTurn
Unused == {t \in Turns : proc[t].pc = "none" /\ \A p \in Procs : proc[p].turn # t}
NewTurn == CHOOSE t \in Unused : TRUE

-----------------------------------------------------------------------------
(* The input queue                                                         *)

Accepts(s) == state[s].phase = "current"

\* get_pending_input looks at the turn that is active now, whoever asks.
Available ==
  IF active = NoActive THEN mailbox
  ELSE IF Accepts(active.state) THEN state[active.state].pending \cup mailbox
  ELSE {}

\* faulty: the input is read and stays where it was.
TakeAvailableCopies == UNCHANGED <<mailbox, state>>

TakeAvailable ==
  IF active = NoActive THEN mailbox' = {} /\ UNCHANGED state
  ELSE IF Accepts(active.state)
  THEN mailbox' = {} /\ state' = [state EXCEPT ![active.state].pending = {}]
  ELSE UNCHANGED <<mailbox, state>>

HasPendingInput == Available # {}

\* extend_pending_input_and_accept_mailbox_delivery_for_turn_state
PutAndAccept(s, i) ==
  state' = [state EXCEPT ![s].pending = @ \cup {i}, ![s].phase = "current"]

\* faulty: a turn that goes on after its answer stays closed to mail.
AcceptNever(t) == UNCHANGED state

\* accept_mailbox_delivery_for_current_turn, by the turn's id
Accept(t) ==
  state' = IF active.task = t THEN [state EXCEPT ![active.state].phase = "current"] ELSE state

\* faulty: mail may join the turn after its answer.
DeferNever(t) == UNCHANGED state

\* defer_mailbox_delivery_to_next_turn
Defer(t) ==
  state' = IF active.task = t /\ state[active.state].pending \subseteq Queued
           THEN [state EXCEPT ![active.state].phase = "next"] ELSE state

-----------------------------------------------------------------------------
(* Starting a turn                                                         *)

\* maybe_start_turn_for_pending_work
Wake(p) ==
  /\ proc[p].pc = "wake"
  /\ IF mailbox \cap Triggers # {} THEN Goto(p, "reserve") ELSE Leave(p)
  /\ UNCHANGED <<active, state, mailbox, fresh, settled, ended>>

Reserve(t) ==
  /\ active' = [state |-> <<t, 0>>, task |-> NoTurn]
  /\ state' = [state EXCEPT ![<<t, 0>>] = Empty]

\* The session is still idle: its slot is reserved.
ReserveForMail(p) ==
  /\ proc[p].pc = "reserve"
  /\ IF active # NoActive THEN Leave(p) /\ UNCHANGED <<active, state>>
     ELSE /\ Unused # {}
          /\ Reserve(NewTurn)
          /\ proc' = [proc EXCEPT ![p] =
               [Proc("drain") EXCEPT !.turn = NewTurn, !.state = <<NewTurn, 0>>]]
  /\ UNCHANGED <<mailbox, fresh, settled, ended>>

DrainForMail(p) ==
  /\ proc[p].pc = "drain"
  /\ TakeAvailable
  /\ proc' = [proc EXCEPT ![p].pc = "extend", ![p].items = Available]
  /\ UNCHANGED <<active, fresh, settled, ended>>

ExtendReserved(p) ==
  /\ proc[p].pc = "extend"
  /\ state' = [state EXCEPT ![proc[p].state].pending = @ \cup proc[p].items]
  /\ proc' = [proc EXCEPT ![p].pc = "start", ![p].items = {}]
  /\ UNCHANGED <<active, mailbox, fresh, settled, ended>>

\* start_task, up to the lifecycle call of the extensions: the mailbox goes to
\* the turn that is active, which is made when there is none.
StartTask(p) ==
  LET s == IF active = NoActive THEN <<proc[p].turn, 1>> ELSE active.state
      old == IF active = NoActive THEN Empty ELSE state[s]
  IN  /\ proc[p].pc = "start" /\ Goto(p, "spawn")
      /\ active' = [active EXCEPT !.state = s]
      /\ state' = [state EXCEPT ![s] = [old EXCEPT !.pending = old.pending \cup mailbox]]
      /\ mailbox' = {}
      /\ UNCHANGED <<fresh, settled, ended>>

\* A RunningTask that is replaced in the slot is dropped, and with its handle
\* the task is aborted.
Aborted(q) == IF proc[q].pc \in RunPcs \cup {"finish"} THEN Rest(q) ELSE proc[q]
Unread(q) == IF proc[q].pc = "begin" THEN proc[q].items ELSE {}

\* The rest of start_task: the task is spawned and put into the slot.
SpawnTask(p) ==
  LET t == proc[p].turn
      s == IF active = NoActive THEN <<t, 2>> ELSE active.state
      old == active.task
  IN  /\ proc[p].pc = "spawn"
      /\ active' = [state |-> s, task |-> t]
      /\ state' = [state EXCEPT ![s] = IF active = NoActive THEN Empty ELSE @]
      /\ proc' = [q \in Procs |->
           IF q = p THEN Rest(p)
           ELSE IF q = t
           THEN [Proc("begin") EXCEPT !.kind = proc[p].kind, !.items = proc[p].items]
           ELSE IF q = old THEN Aborted(q) ELSE proc[q]]
      /\ UNCHANGED <<mailbox, fresh, settled, ended>>

-----------------------------------------------------------------------------
(* Aborting a turn                                                         *)

\* The active turn is taken out of the slot and its task is cancelled; without
\* a task there is nothing to abort and process p goes on at pc.
TakeActive(p, pc) ==
  /\ active' = NoActive
  /\ IF active.task # NoTurn
     THEN proc' = [proc EXCEPT ![active.task].cancelled = TRUE, ![p].pc = "abort",
                               ![p].target = active.task, ![p].state = active.state]
     ELSE proc' = [proc EXCEPT ![p].pc = pc]

\* faulty: a task that does not stop in time is left alone.
AbortTaskPolitely(p) ==
  /\ proc[p].pc = "abort" /\ Goto(p, "aborted")
  /\ UNCHANGED <<active, state, mailbox, fresh, settled, ended>>

\* handle_task_abort waits for the task, 100 ms at most, and aborts it.
AbortTask(p) ==
  LET t == proc[p].target
  IN  /\ proc[p].pc = "abort"
      /\ settled' = settled \cup Unread(t)
      /\ proc' = [proc EXCEPT ![t] = Aborted(t), ![p].pc = "aborted"]
      /\ UNCHANGED <<active, state, mailbox, fresh, ended>>

\* TurnAborted is sent, then clear_pending; an interrupted session looks for
\* pending work, a replaced turn is followed by the new one.
FinishAbort(p) ==
  LET s == proc[p].state
  IN  /\ proc[p].pc = "aborted"
      /\ ended' = [ended EXCEPT ![proc[p].target] = @ + 1]
      /\ settled' = settled \cup state[s].pending
      /\ state' = [state EXCEPT ![s] = Empty]
      /\ proc' = [proc EXCEPT ![p].pc = IF proc[p].turn # NoTurn THEN "start" ELSE "wake",
                              ![p].target = NoTurn, ![p].state = NoState]
      /\ UNCHANGED <<active, mailbox, fresh>>

\* abort_turn_if_active, from the task the guardian has spawned for turn t.
GuardianAborts(t) ==
  /\ proc[Guardian].pc = "idle" /\ active.task = t
  /\ TakeActive(Guardian, "idle")
  /\ UNCHANGED <<state, mailbox, fresh, settled, ended>>

-----------------------------------------------------------------------------
(* The operations of the submission loop                                   *)

LoopIdle == proc[Loop].pc = "idle"

\* steer_input
Steer(i) ==
  /\ LoopIdle /\ i \in fresh
  /\ active.task # NoTurn /\ proc[active.task].kind = "regular"
  /\ PutAndAccept(active.state, i)
  /\ fresh' = fresh \ {i}
  /\ UNCHANGED <<active, mailbox, proc, settled, ended>>

\* start_or_steer without a task to steer, and the operations that run another
\* kind of task: spawn_task follows.
Start(i) ==
  /\ LoopIdle /\ i \in fresh /\ Unused # {}
  /\ i \in Users => active.task = NoTurn
  /\ fresh' = fresh \ {i}
  /\ proc' = [proc EXCEPT ![Loop] =
       [Proc("replace") EXCEPT !.turn = NewTurn, !.items = {i} \cap Items,
          !.kind = IF i \in Others THEN "other" ELSE "regular"]]
  /\ UNCHANGED <<active, state, mailbox, settled, ended>>

\* faulty: the new task does not wait for the end of the old one.
ReplaceAtOnce ==
  /\ proc[Loop].pc = "replace" /\ Goto(Loop, "start")
  /\ UNCHANGED <<active, state, mailbox, fresh, settled, ended>>

\* abort_all_tasks(Replaced)
Replace ==
  /\ proc[Loop].pc = "replace"
  /\ TakeActive(Loop, "start")
  /\ UNCHANGED <<state, mailbox, fresh, settled, ended>>

\* start_if_idle reserves the slot,
StartIfIdle(i) ==
  /\ LoopIdle /\ i \in fresh /\ Unused # {}
  /\ mailbox \cap Triggers = {} /\ active = NoActive
  /\ Reserve(NewTurn)
  /\ fresh' = fresh \ {i}
  /\ proc' = [proc EXCEPT ![Loop] = [Proc("recheck") EXCEPT !.turn = NewTurn,
                                       !.state = <<NewTurn, 0>>, !.items = {i}]]
  /\ UNCHANGED <<mailbox, settled, ended>>

\* faulty: the turn states are not compared.
ClearAny(s) == active' = NoActive

\* clear_reserved_idle_turn
ClearReserved(s) ==
  active' = IF Reserved /\ active.state = s THEN NoActive ELSE active

\* and gives it back when mail has come in or the settings are refused; the
\* caller is told that its message was not submitted.
Recheck ==
  /\ proc[Loop].pc = "recheck"
  /\ \/ /\ mailbox \cap Triggers = {}
        /\ Goto(Loop, "start") /\ UNCHANGED <<active, fresh>>
     \/ /\ ClearReserved(proc[Loop].state)
        /\ fresh' = fresh \cup proc[Loop].items
        /\ proc' = [proc EXCEPT ![Loop] =
             IF mailbox \cap Triggers # {} THEN Proc("wake") ELSE Proc("idle")]
  /\ UNCHANGED <<state, mailbox, settled, ended>>

\* inter_agent_communication
Deliver(i) ==
  /\ LoopIdle /\ i \in fresh
  /\ mailbox' = mailbox \cup {i} /\ fresh' = fresh \ {i}
  /\ IF i \in Triggers THEN Goto(Loop, "wake") ELSE UNCHANGED proc
  /\ UNCHANGED <<active, state, settled, ended>>

\* interrupt_task
Interrupt ==
  /\ LoopIdle /\ active # NoActive
  /\ TakeActive(Loop, "idle")
  /\ UNCHANGED <<state, mailbox, fresh, settled, ended>>

\* inject_no_new_turn, from any task of the process.
Inject(i) ==
  /\ i \in fresh /\ fresh' = fresh \ {i}
  /\ IF active # NoActive
     THEN PutAndAccept(active.state, i) /\ UNCHANGED settled
     ELSE settled' = settled \cup {i} /\ UNCHANGED state
  /\ UNCHANGED <<active, mailbox, proc, ended>>

-----------------------------------------------------------------------------
(* The task of a turn                                                      *)

\* The input the turn was started with is recorded and sampled first.
Begin(t) ==
  /\ proc[t].pc = "begin"
  /\ settled' = settled \cup proc[t].items
  /\ proc' = [proc EXCEPT ![t].canDrain = (proc[t].items = {}), ![t].items = {},
       ![t].pc = IF proc[t].kind = "regular" THEN "drain_input" ELSE "flush"]
  /\ UNCHANGED <<active, state, mailbox, fresh, ended>>

\* Pending input is put into the history before the next request.
DrainInput(t) ==
  /\ proc[t].pc = "drain_input" /\ Goto(t, "sampling")
  /\ IF proc[t].canDrain
     THEN settled' = settled \cup Available /\ TakeAvailable
     ELSE UNCHANGED <<settled, state, mailbox>>
  /\ UNCHANGED <<active, fresh, ended>>

\* The model answers the user,
Answer(t) ==
  /\ proc[t].pc = "sampling"
  /\ Defer(t)
  /\ proc' = [proc EXCEPT ![t].pc = "check", ![t].followUp = FALSE, ![t].answered = TRUE,
                          ![t].canDrain = TRUE]
  /\ UNCHANGED <<active, mailbox, fresh, settled, ended>>

\* or calls tools,
CallTools(t) ==
  /\ proc[t].pc = "sampling"
  /\ Accept(t)
  /\ proc' = [proc EXCEPT ![t].pc = "check", ![t].followUp = TRUE, ![t].answered = FALSE,
                          ![t].canDrain = TRUE]
  /\ UNCHANGED <<active, mailbox, fresh, settled, ended>>

\* or the request fails.
SamplingFails(t) ==
  /\ proc[t].pc = "sampling" /\ Goto(t, "flush")
  /\ UNCHANGED <<active, state, mailbox, fresh, settled, ended>>

\* Another request: after an automatic compaction the continuation of the model
\* comes before the pending input.
Continue(t) ==
  /\ proc[t].pc = "check"
  /\ proc[t].followUp \/ HasPendingInput
  /\ \E drain \in {TRUE, ~proc[t].followUp} :
       proc' = [proc EXCEPT ![t].pc = "drain_input", ![t].canDrain = drain]
  /\ UNCHANGED <<active, state, mailbox, fresh, settled, ended>>

\* A stop hook wants the model to go on.
StopHookBlocks(t) ==
  /\ proc[t].pc = "check"
  /\ ~proc[t].followUp /\ ~HasPendingInput
  /\ Accept(t)
  /\ proc' = [proc EXCEPT ![t].pc = "drain_input", ![t].answered = FALSE]
  /\ UNCHANGED <<active, mailbox, fresh, settled, ended>>

Stop(t) ==
  /\ proc[t].pc = "check" /\ Goto(t, "outer")
  /\ ~proc[t].followUp /\ ~HasPendingInput
  /\ UNCHANGED <<active, state, mailbox, fresh, settled, ended>>

\* The loop of RegularTask::run
Outer(t) ==
  /\ proc[t].pc = "outer"
  /\ Goto(t, IF HasPendingInput THEN "drain_input" ELSE "flush")
  /\ UNCHANGED <<active, state, mailbox, fresh, settled, ended>>

\* A cancelled task returns from wherever it is.
Cancelled(t) ==
  /\ proc[t].cancelled /\ proc[t].pc \in RunPcs \ {"flush"}
  /\ settled' = settled \cup proc[t].items
  /\ proc' = [proc EXCEPT ![t].pc = "flush", ![t].items = {}]
  /\ UNCHANGED <<active, state, mailbox, fresh, ended>>

\* flush_rollout, and the token is looked at a last time.
Flush(t) ==
  /\ proc[t].pc = "flush"
  /\ proc' = [proc EXCEPT ![t] = IF proc[t].cancelled THEN Rest(t) ELSE [@ EXCEPT !.pc = "finish"]]
  /\ UNCHANGED <<active, state, mailbox, fresh, settled, ended>>

\* on_task_finished takes the task that is in the slot and keeps the slot,
Finish(t) ==
  /\ proc[t].pc = "finish"
  /\ IF active.task = NoTurn
     THEN Leave(t) /\ UNCHANGED active
     ELSE /\ active' = [active EXCEPT !.task = NoTurn]
          /\ proc' = [proc EXCEPT ![t] = [Proc("save") EXCEPT !.state = active.state]]
  /\ UNCHANGED <<state, mailbox, fresh, settled, ended>>

\* faulty: the input that came in after the last request is forgotten.
SaveNothing(t) ==
  /\ proc[t].pc = "save" /\ Goto(t, "release")
  /\ ended' = [ended EXCEPT ![t] = @ + 1]
  /\ UNCHANGED <<active, state, mailbox, fresh, settled>>

\* records the input that is still pending, sends TurnComplete,
Save(t) ==
  LET s == proc[t].state
  IN  /\ proc[t].pc = "save" /\ Goto(t, "release")
      /\ settled' = settled \cup state[s].pending
      /\ state' = [state EXCEPT ![s].pending = {}]
      /\ ended' = [ended EXCEPT ![t] = @ + 1]
      /\ UNCHANGED <<active, mailbox, fresh>>

\* and gives the slot up, unless somebody else has taken it.
Release(t) ==
  /\ proc[t].pc = "release"
  /\ ClearReserved(proc[t].state)
  /\ state' = [state EXCEPT ![proc[t].state] = Empty]
  /\ proc' = [proc EXCEPT ![t] =
       IF Reserved /\ active.state = proc[t].state THEN Proc("wake") ELSE Rest(t)]
  /\ UNCHANGED <<mailbox, fresh, settled, ended>>

-----------------------------------------------------------------------------
Operation ==
  \/ \E i \in Users : Steer(i) \/ StartIfIdle(i)
  \/ \E i \in Users \cup Others : Start(i)
  \/ \E i \in Mail : Deliver(i)

Starting(p) ==
  Wake(p) \/ ReserveForMail(p) \/ DrainForMail(p) \/ ExtendReserved(p) \/ StartTask(p)
  \/ SpawnTask(p)

Aborting(p) == AbortTask(p) \/ FinishAbort(p)

Running(t) ==
  Begin(t) \/ DrainInput(t) \/ SamplingFails(t) \/ CallTools(t) \/ Answer(t) \/ Continue(t)
  \/ StopHookBlocks(t) \/ Stop(t) \/ Outer(t) \/ Cancelled(t) \/ Flush(t) \/ Finish(t)
  \/ Save(t) \/ Release(t)

Step(p) == Starting(p) \/ Aborting(p) \/ (p \in Turns /\ Running(p))
           \/ (p = Loop /\ (Replace \/ Recheck))

Next ==
  \/ Operation \/ Interrupt
  \/ \E i \in Injected : Inject(i)
  \/ \E t \in Turns : GuardianAborts(t)
  \/ \E p \in Procs : Step(p)

\* Every behaviour of the code.
Spec == Init /\ [][Next]_vars

\* The part of an operation from its decision about the slot to the end of
\* what it does with it.
Critical(p) ==
  proc[p].pc \in {"replace", "recheck", "drain", "extend", "start", "spawn", "abort", "aborted"}
Exclusive == \A p, q \in Procs : Critical(p) /\ Critical(q) => p = q

\* What the code relies on and does not enforce: two processes do not start or
\* abort turns at the same time, and neither an interrupt nor an injected item
\* meets a slot without a task, of a turn that is being started or completed.
CalmStep(p) == Step(p) /\ Exclusive'
CalmNext ==
  \/ Operation /\ Exclusive'
  \/ ~Reserved /\ Interrupt /\ Exclusive'
  \/ \E i \in Injected : ~Reserved /\ Inject(i)
  \/ \E t \in Turns : GuardianAborts(t) /\ Exclusive'
  \/ \E p \in Procs : CalmStep(p)
CalmSpec == Init /\ [][CalmNext]_vars

\* Every process that can go on does, and a model does not call tools for ever.
FairSpec ==
  /\ CalmSpec
  /\ \A p \in Procs : WF_vars(CalmStep(p))
  /\ \A t \in Turns : SF_vars(Answer(t))

-----------------------------------------------------------------------------
(* Properties                                                              *)

ProcRecord == [pc : Pcs, turn : Turns \cup {NoTurn}, target : Turns \cup {NoTurn},
               state : States \cup {NoState}, items : SUBSET Items,
               kind : {"regular", "other"}, cancelled : BOOLEAN, canDrain : BOOLEAN,
               followUp : BOOLEAN, answered : BOOLEAN]

TypeOK ==
  /\ active \in [state : States \cup {NoState}, task : Turns \cup {NoTurn}]
  /\ state \in [States -> [pending : SUBSET Items, phase : {"current", "next"}]]
  /\ mailbox \subseteq Mail
  /\ proc \in [Procs -> ProcRecord]
  /\ fresh \subseteq Items \cup Others
  /\ settled \subseteq Items
  /\ ended \in [Turns -> Nat]

\* start_task asserts it (tasks/mod.rs:319, 331): nobody's task is in the slot
\* that a new task is put into.
SlotIsFree ==
  \A p \in Procs : proc[p].pc \in {"start", "spawn"} => active.task = NoTurn

\* A task that works for the session and has not been cancelled is the one in
\* the slot, where an interrupt finds it; so two of them never run at once.
RunningIsTracked ==
  \A t \in Turns : proc[t].pc \in RunPcs /\ ~proc[t].cancelled => active.task = t

\* The client is told once that a turn has ended, by TurnComplete or by
\* TurnAborted, and from then on its task neither samples nor writes to the
\* history.
EndedIsStopped ==
  \A t \in Turns : ended[t] <= 1 /\ (ended[t] = 1 => proc[t].pc \notin RunPcs)

\* A message is in one place: not submitted yet, in the mailbox, pending in one
\* TurnState, carried by one process, or settled.  So no message is recorded
\* twice, and none that was recorded or refused comes up again.
OnePlace ==
  /\ fresh \cap (mailbox \cup settled) = {} /\ mailbox \cap settled = {}
  /\ \A s \in States :
       /\ state[s].pending \cap (fresh \cup mailbox \cup settled) = {}
       /\ \A r \in States : r # s => state[r].pending \cap state[s].pending = {}
  /\ \A p \in Procs :
       /\ proc[p].items \cap (fresh \cup mailbox \cup settled) = {}
       /\ \A q \in Procs : q # p => proc[q].items \cap proc[p].items = {}
       /\ \A s \in States : state[s].pending \cap proc[p].items = {}

\* Late mail that does not ask for a turn never extends an answer that the user
\* has seen: the model is asked again only for input of the turn itself.
AnswerStands ==
  [][\A t \in Turns :
       /\ proc[t].answered /\ ~proc[t].cancelled
       /\ proc[t].pc = "drain_input" /\ proc'[t].pc = "sampling"
       => (settled' \ settled) \ Queued # {}]_vars

AtRest == \A p \in Procs : proc[p].pc \in {"none", "idle", "end"}

\* When no process has anything left to do the slot is free, every turn that
\* was started has told its client so, and every message that was accepted is
\* in the history, was discarded by the abort of the turn it was waiting for,
\* or is mail that asks for no turn.
NothingStranded ==
  AtRest =>
    /\ active = NoActive
    /\ \A t \in Turns : proc[t].pc = "end" => ended[t] = 1
    /\ Items \ fresh \subseteq settled \cup (mailbox \ Triggers)

\* Mail that asks for a turn does not wait in the mailbox for ever, whatever
\* happens to the turns that are active when it comes in.
MailIsServed == mailbox \cap Triggers # {} ~> mailbox \cap Triggers = {}
=============================================================================
