-------------------------- MODULE KernelTurnsProofs --------------------------
(* Theorems about module KernelTurns, for any sets of turns and messages:   *)
(* what holds when two processes do not start or abort turns at the same    *)
(* time (KInv), what holds in every behaviour (PInv), and what both say     *)
(* about a turn after its answer (Answers).                                 *)
EXTENDS KernelTurns, TLAPS

-----------------------------------------------------------------------------
(* The inductive invariant                                                  *)

(* Where a task works, ends, aborts and is being prepared. *)
LivePcs == RunPcs \cup {"finish"}
BeforeEnd == LivePcs \cup {"none", "save"}
AbortPcs == {"abort", "aborted"}
Reserving == {"recheck", "drain", "extend"}

(* The slot holds a task that is not cancelled, or it is reserved by the    *)
(* process that starts a turn or by the task that completes one.  The       *)
(* TurnState in it belongs to that turn.                                    *)
Slot ==
  /\ active # NoActive => active.state \in States
  /\ active.task # NoTurn =>
       /\ proc[active.task].pc \in LivePcs /\ ~proc[active.task].cancelled
       /\ active.state[1] = active.task
  /\ Reserved => \E p \in Procs :
       \/ proc[p].pc \in Reserving \cup {"start", "spawn"}
       \/ proc[p].pc \in {"save", "release"} /\ proc[p].state = active.state

(* The task of a turn is in the slot until it is cancelled; then somebody   *)
(* waits to abort it.  Exactly one of the two sends the terminal event.     *)
TaskOK(t) ==
  /\ proc[t].pc \in LivePcs /\ ~proc[t].cancelled => active.task = t
  /\ proc[t].pc \in LivePcs /\ proc[t].cancelled =>
       \E p \in Procs : proc[p].pc = "abort" /\ proc[p].target = t
  /\ proc[t].pc \in BeforeEnd => ended[t] = 0
  /\ proc[t].pc \notin BeforeEnd =>
       ended[t] = 1 \/ \E p \in Procs : proc[p].pc \in AbortPcs /\ proc[p].target = t
  /\ ended[t] \in {0, 1}
  /\ proc[t].pc \in {"save", "release"} => proc[t].state \in States /\ proc[t].state[1] = t
Tasks == \A t \in Turns : TaskOK(t)

(* The slot is reserved with the j-th TurnState of the turn p starts. *)
Own(p, j) == active.state = <<proc[p].turn, j>> /\ active.task = NoTurn

(* What a process that starts or aborts a turn knows is still true. *)
LocalOK(p) ==
  /\ proc[p].turn # NoTurn => Critical(p) /\ proc[proc[p].turn].pc = "none"
  /\ Critical(p) /\ proc[p].pc \notin AbortPcs => proc[p].turn # NoTurn
  /\ proc[p].pc \in Reserving => Own(p, 0) /\ proc[p].state = <<proc[p].turn, 0>>
  /\ proc[p].pc = "start" => active = NoActive \/ Own(p, 0)
  /\ proc[p].pc = "spawn" => Own(p, 0) \/ Own(p, 1)
  /\ proc[p].pc \in AbortPcs =>
       /\ p \notin Turns /\ active = NoActive
       /\ proc[p].target \in Turns /\ ended[proc[p].target] = 0
       /\ proc[p].state \in States /\ proc[p].state[1] = proc[p].target
  /\ proc[p].pc = "abort" => proc[proc[p].target].pc \in LivePcs \cup {"end"}
  /\ proc[p].pc = "aborted" => proc[proc[p].target].pc = "end"
  /\ proc[p].pc \in LivePcs \cup {"none", "save", "release", "end"} => p \in Turns
Locals == \A p \in Procs : LocalOK(p)

(* Nothing is pending in a TurnState that is about to be thrown away. *)
Drained == \A p \in Procs :
  proc[p].pc \in {"recheck", "release"} => state[proc[p].state].pending = {}

(* Who carries input: a task that has not begun, or who starts one. *)
Carried == \A p \in Procs :
  proc[p].items # {} => proc[p].pc = "begin" \/ (proc[p].turn # NoTurn /\ proc[p].pc # "drain")

(* Somebody will look at mail that asks for a turn. *)
Woken == mailbox \cap Triggers # {} =>
  \/ active # NoActive
  \/ \E p \in Procs : proc[p].pc \in AbortPcs \cup {"wake", "reserve", "start"}

(* A message that was accepted is somewhere. *)
Somewhere(i) ==
  \/ i \in settled \cup mailbox
  \/ \E p \in Procs : i \in proc[p].items
  \/ active # NoActive /\ i \in state[active.state].pending
  \/ \E p \in Procs : proc[p].pc \in AbortPcs \cup {"save"} /\ i \in state[proc[p].state].pending
Kept == \A i \in Items \ fresh : Somewhere(i)

(* The inductive invariant: who holds the slot, and where the input is. *)
Control == Exclusive /\ Slot /\ Tasks /\ Locals
Data == Drained /\ Carried /\ Woken /\ Kept
KInv == TypeOK /\ Control /\ Data

-----------------------------------------------------------------------------
(* Records and the input queue                                              *)

(* Processes, turns and TurnStates are distinct. *)
LEMMA Constants ==
  /\ NoTurn \notin Turns /\ NoTurn \notin Procs /\ Loop \in Procs /\ Guardian \in Procs
  /\ Loop \notin Turns /\ Guardian \notin Turns /\ Loop # Guardian
  /\ NoState \notin States /\ Turns \subseteq Procs
  /\ \A t \in Turns : <<t, 0>> \in States /\ <<t, 1>> \in States /\ <<t, 2>> \in States
  /\ \A s \in States : s[1] \in Turns
BY KernelAssumption DEF Procs, NoState, States

(* A process that has just arrived somewhere. *)
LEMMA ProcTyped ==
  ASSUME NEW pc \in Pcs
  PROVE  /\ Proc(pc) \in ProcRecord
         /\ Proc(pc).pc = pc /\ Proc(pc).turn = NoTurn /\ Proc(pc).target = NoTurn
         /\ Proc(pc).state = NoState /\ Proc(pc).items = {} /\ ~Proc(pc).cancelled
         /\ Proc(pc).kind = "regular"
BY DEF Proc, ProcRecord

(* A process at rest. *)
LEMMA RestTyped ==
  ASSUME NEW p \in Procs
  PROVE  /\ Rest(p) \in ProcRecord /\ Rest(p).pc = (IF p \in Turns THEN "end" ELSE "idle")
         /\ Rest(p).turn = NoTurn /\ Rest(p).items = {} /\ ~Rest(p).cancelled
<1>1. "end" \in Pcs /\ "idle" \in Pcs
  BY DEF Pcs
<1>2. QED
  BY <1>1, ProcTyped DEF Rest

(* A step of one process. *)
LEMMA OneProc ==
  ASSUME TypeOK, NEW p \in Procs, NEW r \in ProcRecord, proc' = [proc EXCEPT ![p] = r]
  PROVE  /\ proc' \in [Procs -> ProcRecord] /\ proc'[p] = r
         /\ \A q \in Procs : q # p => proc'[q] = proc[q]
BY DEF TypeOK

(* The pcs that are told apart. *)
LEMMA PcFacts ==
  /\ \A pc \in LivePcs : pc \notin AbortPcs \cup Reserving \cup
       {"start", "spawn", "replace", "save", "release", "none", "end", "wake", "reserve", "idle"}
  /\ RunPcs \subseteq LivePcs /\ LivePcs \subseteq BeforeEnd /\ LivePcs \subseteq Pcs
BY DEF LivePcs, RunPcs, AbortPcs, Reserving, BeforeEnd, Pcs

(* Taking the available input loses nothing else. *)
LEMMA Taken ==
  ASSUME TypeOK, Slot, TakeAvailable
  PROVE  /\ state' \in [States -> [pending : SUBSET Items, phase : {"current", "next"}]]
         /\ mailbox' \subseteq mailbox /\ mailbox \ mailbox' \subseteq Available
         /\ Available \subseteq Items
         /\ \A s \in States : /\ state'[s].pending \subseteq state[s].pending
                              /\ state[s].pending \ state'[s].pending \subseteq Available
<1> DEFINE S == [pending : SUBSET Items, phase : {"current", "next"}]
<1>1. state \in [States -> S] /\ mailbox \subseteq Items
  BY DEF TypeOK, Items
<1>2. CASE active = NoActive
  BY <1>1, <1>2 DEF TakeAvailable, Available
<1>3. CASE active # NoActive /\ ~Accepts(active.state)
  BY <1>1, <1>3 DEF TakeAvailable, Available
<1>4. CASE active # NoActive /\ Accepts(active.state)
  <2> DEFINE s == active.state
  <2>1. s \in States /\ state[s] \in S
    BY <1>1, <1>4 DEF Slot
  <2>2. state' = [state EXCEPT ![s] = [state[s] EXCEPT !.pending = {}]] /\ mailbox' = {}
    BY <1>4 DEF TakeAvailable
  <2>3. [state[s] EXCEPT !.pending = {}] \in S /\ [state[s] EXCEPT !.pending = {}].pending = {}
    BY <2>1
  <2>4. Available = state[s].pending \cup mailbox
    BY <1>4 DEF Available
  <2>5. QED
    BY <1>1, <2>1, <2>2, <2>3, <2>4
<1>5. QED
  BY <1>2, <1>3, <1>4

(* Before the first message nothing runs and nothing is pending. *)
LEMMA KInvInit == Init => KInv
<1> SUFFICES ASSUME Init PROVE KInv
  OBVIOUS
<1> DEFINE pc0(p) == IF p \in Turns THEN "none" ELSE "idle"
<1>1. \A p \in Procs : /\ proc[p] \in ProcRecord /\ proc[p].pc = pc0(p)
                       /\ proc[p].turn = NoTurn /\ proc[p].items = {}
  <2>1. \A p \in Procs : pc0(p) \in Pcs /\ proc[p] = Proc(pc0(p))
    BY DEF Init, Pcs
  <2>2. QED
    BY <2>1, ProcTyped
<1>2. proc \in [Procs -> ProcRecord]
  BY <1>1 DEF Init
<1>3. active = NoActive /\ active.task = NoTurn /\ active.state = NoState
  BY DEF Init, NoActive
<1>4. TypeOK
  <2>1. state \in [States -> [pending : SUBSET Items, phase : {"current", "next"}]]
    BY DEF Init, Empty
  <2>2. active \in [state : States \cup {NoState}, task : Turns \cup {NoTurn}]
    BY DEF Init, NoActive
  <2>3. QED
    BY <1>2, <2>1, <2>2 DEF TypeOK, Init
<1>5. Exclusive
  BY <1>1 DEF Exclusive, Critical
<1>6. Slot
  BY <1>3 DEF Slot, Reserved
<1>7. Tasks
  BY <1>1, Constants DEF Tasks, TaskOK, LivePcs, BeforeEnd, RunPcs, Init
<1>8. Locals
  BY <1>1, Constants DEF Locals, LocalOK, Critical, LivePcs, RunPcs, AbortPcs, Reserving
<1>9. Drained /\ Carried
  BY <1>1 DEF Drained, Carried
<1>10. Woken /\ Kept
  BY DEF Woken, Kept, Init
<1>11. QED
  BY <1>4, <1>5, <1>6, <1>7, <1>8, <1>9, <1>10 DEF KInv, Control, Data

-----------------------------------------------------------------------------
(* The task of a turn                                                       *)

(* Whoever works with a TurnState has one. *)
LEMMA HeldState ==
  ASSUME KInv, NEW p \in Procs,
         proc[p].pc \in Reserving \cup AbortPcs \cup {"save", "release"}
  PROVE  proc[p].state \in States
<1>1. LocalOK(p) /\ proc[p].turn \in Turns \cup {NoTurn} /\ \A t \in Turns : TaskOK(t)
  BY DEF KInv, Control, Locals, Tasks, TypeOK, ProcRecord
<1>2. CASE proc[p].pc \in Reserving
  <2>1. proc[p].turn \in Turns /\ proc[p].state = <<proc[p].turn, 0>>
    BY <1>1, <1>2 DEF LocalOK, Critical, Reserving, AbortPcs
  <2>2. QED
    BY <2>1, Constants
<1>3. CASE proc[p].pc \in AbortPcs
  BY <1>1, <1>3 DEF LocalOK
<1>4. CASE proc[p].pc \in {"save", "release"}
  BY <1>1, <1>4 DEF LocalOK, TaskOK
<1>5. QED
  BY <1>2, <1>3, <1>4

(* A task is not one of the processes that start or abort a turn. *)
LEMMA LiveTask ==
  ASSUME KInv, NEW t \in Turns, proc[t].pc \in LivePcs
  PROVE  /\ proc[t] \in ProcRecord /\ t \in Procs
         /\ proc[t].turn = NoTurn /\ ~Critical(t)
         /\ proc[t].pc # "begin" => proc[t].items = {}
         /\ ended[t] = 0
<1>1. t \in Procs /\ LocalOK(t) /\ TaskOK(t) /\ proc[t] \in ProcRecord
  BY Constants DEF KInv, Control, Locals, Tasks, TypeOK
<1>2. ~Critical(t)
  BY DEF Critical, LivePcs, RunPcs
<1>3. proc[t].turn = NoTurn
  BY <1>1, <1>2 DEF LocalOK
<1>4. ended[t] = 0
  BY <1>1, PcFacts DEF TaskOK
<1>5. QED
  BY <1>1, <1>2, <1>3, <1>4 DEF KInv, Data, Carried

(* A step of a task that goes on: what it takes from the queue and what it *)
(* carries is put into the history.                                         *)
LEMMA RunStep ==
  ASSUME KInv, NEW t \in Turns, proc[t].pc \in RunPcs, NEW r \in ProcRecord,
         proc' = [proc EXCEPT ![t] = r], r.pc \in LivePcs, r.items = {},
         r.turn = proc[t].turn, r.cancelled = proc[t].cancelled,
         UNCHANGED <<active, fresh, ended>>,
         settled \subseteq settled', settled' \subseteq Items, proc[t].items \subseteq settled',
         mailbox' \subseteq mailbox, mailbox \ mailbox' \subseteq settled',
         state' \in [States -> [pending : SUBSET Items, phase : {"current", "next"}]],
         \A s \in States : /\ state'[s].pending \subseteq state[s].pending
                           /\ state[s].pending \ state'[s].pending \subseteq settled'
  PROVE  KInv'
<1>1. TypeOK /\ Exclusive /\ Slot /\ Tasks /\ Locals /\ Drained /\ Carried /\ Woken /\ Kept
  BY DEF KInv, Control, Data
<1>2. /\ t \in Procs /\ proc'[t] = r /\ \A q \in Procs : q # t => proc'[q] = proc[q]
      /\ proc' \in [Procs -> ProcRecord]
  BY <1>1, OneProc, Constants
<1>3. /\ proc[t].pc \in LivePcs /\ proc[t].turn = NoTurn /\ r.turn = NoTurn
      /\ r.pc \notin AbortPcs \cup Reserving \cup
            {"start", "spawn", "replace", "save", "release", "none", "end", "wake", "reserve"}
      /\ proc[t].pc \notin AbortPcs \cup Reserving \cup
            {"start", "spawn", "replace", "save", "release", "none", "end", "wake", "reserve"}
      /\ r.pc \in BeforeEnd /\ proc[t].pc \in BeforeEnd
  BY PcFacts, LiveTask
<1>4. TypeOK'
  BY <1>1, <1>2 DEF TypeOK
<1>5. \A p \in Procs : Critical(p)' <=> Critical(p)
  BY <1>2, <1>3 DEF Critical, AbortPcs, Reserving
<1>6. Exclusive'
  BY <1>1, <1>5 DEF Exclusive
<1>7. Slot'
  BY <1>1, <1>2, <1>3 DEF Slot, Reserved, TypeOK
<1>8. Tasks'
  <2>1. \A u \in Turns, p \in Procs :
           proc[p].pc \in AbortPcs /\ proc[p].target = u => proc'[p] = proc[p]
    BY <1>2, <1>3
  <2>2. ASSUME NEW u \in Turns, u # t PROVE TaskOK(u)'
    BY <1>1, <1>2, <2>1, <2>2, Constants DEF Tasks, TaskOK, AbortPcs
  <2>3. TaskOK(t)'
    BY <1>1, <1>2, <1>3, <2>1 DEF Tasks, TaskOK, AbortPcs
  <2>4. QED
    BY <2>2, <2>3 DEF Tasks
<1>9. Locals'
  <2>1. ASSUME NEW p \in Procs, p # t PROVE LocalOK(p)'
    <3>1. LocalOK(p) /\ proc'[p] = proc[p]
      BY <1>1, <1>2, <2>1 DEF Locals
    <3>2. \A u \in Turns : proc'[u].pc = proc[u].pc \/ (proc[u].pc \in LivePcs /\ proc'[u].pc \in LivePcs)
      BY <1>2, <1>3, Constants
    <3>3. proc[p].turn \in Turns \cup {NoTurn}
      BY <1>1 DEF TypeOK, ProcRecord
    <3>4. QED
      BY <1>5, <3>1, <3>2, <3>3, PcFacts DEF LocalOK, Own
  <2>2. LocalOK(t)'
    BY <1>2, <1>3, <1>5 DEF LocalOK, Critical, AbortPcs, Reserving
  <2>3. QED
    BY <2>1, <2>2 DEF Locals
<1>10. Drained'
  <2>1. ASSUME NEW p \in Procs, proc'[p].pc \in {"recheck", "release"}
        PROVE  state'[proc'[p].state].pending = {}
    <3>1. p # t /\ proc'[p] = proc[p] /\ LocalOK(p) /\ state[proc[p].state].pending = {}
      BY <1>1, <1>2, <1>3, <2>1 DEF Locals, Drained, Reserving
    <3>2. proc[p].state \in States
      BY <2>1, <3>1, HeldState DEF Reserving
    <3>3. QED
      BY <3>1, <3>2
  <2>2. QED
    BY <2>1 DEF Drained
<1>11. Carried'
  BY <1>1, <1>2 DEF Carried
<1>12. Woken'
  BY <1>1, <1>2, <1>3 DEF Woken
<1>13. Kept'
  <2> SUFFICES ASSUME NEW i \in Items \ fresh, i \notin settled' PROVE Somewhere(i)'
    BY DEF Kept, Somewhere
  <2>1. Somewhere(i) /\ i \notin settled /\ i \notin proc[t].items
    BY <1>1 DEF Kept
  <2>2. \A s \in States : i \in state[s].pending => i \in state'[s].pending
    OBVIOUS
  <2>3. CASE i \in mailbox
    BY <2>3 DEF Somewhere
  <2>4. ASSUME NEW p \in Procs, i \in proc[p].items PROVE Somewhere(i)'
    BY <1>2, <2>1, <2>4 DEF Somewhere
  <2>5. CASE active # NoActive /\ i \in state[active.state].pending
    BY <1>1, <2>2, <2>5 DEF Slot, Somewhere
  <2>6. ASSUME NEW p \in Procs, proc[p].pc \in AbortPcs \cup {"save"},
               i \in state[proc[p].state].pending
        PROVE  Somewhere(i)'
    <3>1. p # t /\ proc'[p] = proc[p] /\ proc[p].state \in States
      BY <1>1, <1>2, <1>3, <2>6 DEF Locals, LocalOK, Tasks, TaskOK
    <3>2. QED
      BY <2>2, <2>6, <3>1 DEF Somewhere
  <2>7. QED
    BY <2>1, <2>3, <2>4, <2>5, <2>6 DEF Somewhere
<1>14. QED
  BY <1>4, <1>6, <1>7, <1>8, <1>9, <1>10, <1>11, <1>12, <1>13 DEF KInv, Control, Data

(* Opening or closing a TurnState to mail touches no input. *)
LEMMA PhaseOnly ==
  ASSUME TypeOK, Slot, NEW t \in Turns, Accept(t) \/ Defer(t)
  PROVE  /\ state' \in [States -> [pending : SUBSET Items, phase : {"current", "next"}]]
         /\ \A s \in States : state'[s].pending = state[s].pending
<1> DEFINE S == [pending : SUBSET Items, phase : {"current", "next"}]
<1>1. state \in [States -> S]
  BY DEF TypeOK
<1>2. CASE state' = state
  BY <1>1, <1>2
<1>3. CASE state' # state
  <2>1. PICK ph \in {"current", "next"} : state' = [state EXCEPT ![active.state].phase = ph]
    BY <1>3 DEF Accept, Defer
  <2>2. QED
    BY <1>1, <2>1
<1>4. QED
  BY <1>2, <1>3

(* The steps of a running task between its start and its end. *)
LEMMA TaskSteps ==
  ASSUME KInv, NEW t \in Turns,
         \/ Begin(t) \/ DrainInput(t) \/ SamplingFails(t) \/ CallTools(t) \/ Answer(t)
         \/ Continue(t) \/ StopHookBlocks(t) \/ Stop(t) \/ Outer(t) \/ Cancelled(t)
  PROVE  KInv'
<1>1. /\ TypeOK /\ Slot /\ t \in Procs /\ settled \subseteq Items
      /\ proc \in [Procs -> ProcRecord] /\ proc[t] \in ProcRecord
      /\ state \in [States -> [pending : SUBSET Items, phase : {"current", "next"}]]
  BY Constants DEF KInv, Control, TypeOK
<1>2. proc[t].items \subseteq Items
  BY <1>1 DEF ProcRecord
<1>3. \A pc \in RunPcs : proc[t].pc = pc => pc = "begin" \/ proc[t].items = {}
  BY LiveTask, PcFacts
<1>4. CASE Begin(t)
  <2> DEFINE r == [proc[t] EXCEPT !.canDrain = (proc[t].items = {}), !.items = {},
                     !.pc = IF proc[t].kind = "regular" THEN "drain_input" ELSE "flush"]
  <2>1. proc' = [proc EXCEPT ![t] = r]
    BY <1>1, <1>4 DEF Begin, ProcRecord
  <2>2. /\ r \in ProcRecord /\ r.pc \in {"drain_input", "flush"} /\ r.items = {}
        /\ r.turn = proc[t].turn /\ r.cancelled = proc[t].cancelled
    BY <1>1 DEF ProcRecord, Pcs, RunPcs
  <2> HIDE DEF r
  <2>3. QED
    BY <1>1, <1>2, <1>4, <2>1, <2>2, RunStep DEF Begin, RunPcs, LivePcs
<1>5. CASE DrainInput(t)
  <2> DEFINE r == [proc[t] EXCEPT !.pc = "sampling"]
  <2>1. proc' = [proc EXCEPT ![t] = r] /\ proc[t].pc = "drain_input"
    BY <1>1, <1>5 DEF DrainInput, Goto
  <2>2. /\ r \in ProcRecord /\ r.pc = "sampling" /\ r.items = proc[t].items
        /\ r.turn = proc[t].turn /\ r.cancelled = proc[t].cancelled
    BY <1>1 DEF ProcRecord, Pcs, RunPcs
  <2> HIDE DEF r
  <2>3. CASE proc[t].canDrain
    BY <1>1, <1>3, <1>5, <2>1, <2>2, <2>3, RunStep, Taken DEF DrainInput, RunPcs, LivePcs
  <2>4. CASE ~proc[t].canDrain
    BY <1>1, <1>3, <1>5, <2>1, <2>2, <2>4, RunStep DEF DrainInput, RunPcs, LivePcs
  <2>5. QED
    BY <2>3, <2>4
<1>6. ASSUME NEW pc \in RunPcs, proc[t].pc \in RunPcs, proc[t].pc # "begin",
             proc' = [proc EXCEPT ![t].pc = pc],
             UNCHANGED <<active, state, mailbox, fresh, settled, ended>>
      PROVE  KInv'
  <2> DEFINE r == [proc[t] EXCEPT !.pc = pc]
  <2>1. proc' = [proc EXCEPT ![t] = r]
    BY <1>1, <1>6
  <2>2. /\ r \in ProcRecord /\ r.pc = pc /\ r.items = proc[t].items
        /\ r.turn = proc[t].turn /\ r.cancelled = proc[t].cancelled
    BY <1>1 DEF ProcRecord, Pcs
  <2> HIDE DEF r
  <2>3. QED
    BY <1>1, <1>3, <1>6, <2>1, <2>2, RunStep, PcFacts
<1>7. CASE SamplingFails(t) \/ Stop(t) \/ Outer(t)
  BY <1>6, <1>7 DEF SamplingFails, Stop, Outer, Goto, RunPcs
<1>8. CASE CallTools(t) \/ Answer(t)
  <2>1. PICK b \in BOOLEAN :
          proc' = [proc EXCEPT ![t].pc = "check", ![t].followUp = b, ![t].answered = ~b,
                               ![t].canDrain = TRUE]
    BY <1>8, Zenon DEF CallTools, Answer
  <2> DEFINE r == [proc[t] EXCEPT !.pc = "check", !.followUp = b, !.answered = ~b, !.canDrain = TRUE]
  <2>2. proc' = [proc EXCEPT ![t] = r] /\ proc[t].pc = "sampling"
    BY <1>1, <1>8, <2>1 DEF CallTools, Answer, ProcRecord
  <2>3. /\ r \in ProcRecord /\ r.pc = "check" /\ r.items = proc[t].items
        /\ r.turn = proc[t].turn /\ r.cancelled = proc[t].cancelled
    BY <1>1 DEF ProcRecord, Pcs, RunPcs
  <2> HIDE DEF r
  <2>4. /\ state' \in [States -> [pending : SUBSET Items, phase : {"current", "next"}]]
        /\ \A s \in States : state'[s].pending = state[s].pending
        /\ UNCHANGED <<active, mailbox, fresh, settled, ended>>
    BY <1>1, <1>8, PhaseOnly DEF CallTools, Answer
  <2>5. proc[t].pc \in RunPcs /\ r.pc \in LivePcs /\ r.items = {} /\ proc[t].items = {}
    BY <1>3, <2>2, <2>3 DEF RunPcs, LivePcs
  <2>6. QED
    BY <1>1, <2>2, <2>3, <2>4, <2>5, RunStep
<1>9. CASE Continue(t)
  <2>1. PICK drain \in {TRUE, ~proc[t].followUp} :
          proc' = [proc EXCEPT ![t].pc = "drain_input", ![t].canDrain = drain]
    BY <1>9 DEF Continue
  <2> DEFINE r == [proc[t] EXCEPT !.pc = "drain_input", !.canDrain = drain]
  <2>2. proc' = [proc EXCEPT ![t] = r] /\ proc[t].pc = "check" /\ drain \in BOOLEAN
    BY <1>1, <1>9, <2>1 DEF Continue, ProcRecord
  <2>3. /\ r \in ProcRecord /\ r.pc = "drain_input" /\ r.items = proc[t].items
        /\ r.turn = proc[t].turn /\ r.cancelled = proc[t].cancelled
    BY <1>1, <2>2 DEF ProcRecord, Pcs, RunPcs
  <2> HIDE DEF r
  <2>4. QED
    BY <1>1, <1>3, <1>9, <2>2, <2>3, RunStep DEF Continue, RunPcs, LivePcs
<1>10. CASE StopHookBlocks(t)
  <2> DEFINE r == [proc[t] EXCEPT !.pc = "drain_input", !.answered = FALSE]
  <2>1. proc' = [proc EXCEPT ![t] = r] /\ proc[t].pc = "check"
    BY <1>1, <1>10 DEF StopHookBlocks, ProcRecord
  <2>2. /\ r \in ProcRecord /\ r.pc = "drain_input" /\ r.items = proc[t].items
        /\ r.turn = proc[t].turn /\ r.cancelled = proc[t].cancelled
    BY <1>1 DEF ProcRecord, Pcs, RunPcs
  <2> HIDE DEF r
  <2>3. /\ state' \in [States -> [pending : SUBSET Items, phase : {"current", "next"}]]
        /\ \A s \in States : state'[s].pending = state[s].pending
        /\ UNCHANGED <<active, mailbox, fresh, settled, ended>>
    BY <1>1, <1>10, PhaseOnly DEF StopHookBlocks
  <2>4. proc[t].pc \in RunPcs /\ r.pc \in LivePcs /\ r.items = {} /\ proc[t].items = {}
    BY <1>3, <2>1, <2>2 DEF RunPcs, LivePcs
  <2>5. QED
    BY <1>1, <2>1, <2>2, <2>3, <2>4, RunStep
<1>11. CASE Cancelled(t)
  <2> DEFINE r == [proc[t] EXCEPT !.pc = "flush", !.items = {}]
  <2>1. proc' = [proc EXCEPT ![t] = r]
    BY <1>1, <1>11 DEF Cancelled, ProcRecord
  <2>2. /\ r \in ProcRecord /\ r.pc = "flush" /\ r.items = {}
        /\ r.turn = proc[t].turn /\ r.cancelled = proc[t].cancelled
    BY <1>1 DEF ProcRecord, Pcs, RunPcs
  <2> HIDE DEF r
  <2>3. QED
    BY <1>1, <1>2, <1>11, <2>1, <2>2, RunStep DEF Cancelled, RunPcs, LivePcs
<1>12. QED
  BY <1>4, <1>5, <1>7, <1>8, <1>9, <1>10, <1>11

-----------------------------------------------------------------------------
(* Steps of one process                                                     *)

(* What is known before a step of process p to the record r. *)
ProcStep(p, r) ==
  /\ KInv /\ Exclusive'
  /\ p \in Procs /\ r \in ProcRecord /\ proc' = [proc EXCEPT ![p] = r]

(* What a step of one process may rely on. *)
LEMMA Known ==
  ASSUME NEW p, NEW r, ProcStep(p, r)
  PROVE  /\ p \in Procs /\ r \in ProcRecord /\ proc[p] \in ProcRecord
         /\ TypeOK /\ Exclusive /\ Slot /\ Tasks /\ Locals /\ Drained /\ Carried /\ Woken /\ Kept
         /\ proc' \in [Procs -> ProcRecord] /\ proc'[p] = r
         /\ \A q \in Procs : q # p => proc'[q] = proc[q]
         /\ \A q \in Procs : proc[q].turn \in Turns \cup {NoTurn}
<1>1. p \in Procs /\ r \in ProcRecord /\ proc' = [proc EXCEPT ![p] = r]
  BY DEF ProcStep
<1>2. TypeOK /\ Exclusive /\ Slot /\ Tasks /\ Locals /\ Drained /\ Carried /\ Woken /\ Kept
  BY DEF ProcStep, KInv, Control, Data
<1>3. \A q \in Procs : proc[q].turn \in Turns \cup {NoTurn} /\ proc[q] \in ProcRecord
  BY <1>2 DEF TypeOK, ProcRecord
<1>4. QED
  BY <1>1, <1>2, <1>3, OneProc

(* A process that does not start or abort a turn relies on nothing. *)
LEMMA IdleLocal ==
  ASSUME NEW q \in Procs, ~Critical(q), LocalOK(q), proc'[q] = proc[q]
  PROVE  LocalOK(q)'
<1>1. proc[q].turn = NoTurn
  BY DEF LocalOK
<1>2. QED
  BY <1>1 DEF LocalOK, Critical, AbortPcs, Reserving

(* Next to a process that starts or aborts a turn, all others are such. *)
LEMMA OtherLocals ==
  ASSUME NEW p, NEW r, ProcStep(p, r), Critical(p) \/ Critical(p)'
  PROVE  \A q \in Procs : q # p => ~Critical(q) /\ LocalOK(q)'
<1> SUFFICES ASSUME NEW q \in Procs, q # p PROVE ~Critical(q) /\ LocalOK(q)'
  OBVIOUS
<1>1. p \in Procs /\ Exclusive /\ Exclusive' /\ proc'[q] = proc[q] /\ LocalOK(q)
  BY Known DEF ProcStep, Locals
<1>2. Critical(q)' <=> Critical(q)
  BY <1>1 DEF Critical
<1>3. ~Critical(q)
  BY <1>1, <1>2 DEF Exclusive
<1>4. QED
  BY <1>1, <1>3, IdleLocal

(* Nothing is lost by a process that keeps what it carries. *)
LEMMA KeptOne ==
  ASSUME NEW p, NEW r, ProcStep(p, r), proc[p].items \subseteq r.items,
         proc[p].pc \notin AbortPcs \cup {"save"},
         UNCHANGED <<active, state, mailbox>>, settled \subseteq settled',
         \A i \in Items \ fresh' : i \notin fresh \/ i \in r.items
  PROVE  Kept'
<1> SUFFICES ASSUME NEW i \in Items \ fresh' PROVE Somewhere(i)'
  BY DEF Kept
<1>1. p \in Procs /\ proc'[p] = r /\ \A q \in Procs : q # p => proc'[q] = proc[q]
  BY Known
<1>2. CASE i \in r.items
  BY <1>1, <1>2 DEF Somewhere
<1>3. CASE i \notin r.items
  <2>1. Somewhere(i)
    BY <1>3, Known DEF Kept
  <2>2. ASSUME NEW q \in Procs, i \in proc[q].items PROVE Somewhere(i)'
    BY <1>1, <1>3, <2>2 DEF Somewhere
  <2>3. ASSUME NEW q \in Procs, proc[q].pc \in AbortPcs \cup {"save"},
               i \in state[proc[q].state].pending
        PROVE  Somewhere(i)'
    BY <1>1, <2>3 DEF Somewhere
  <2>4. QED
    BY <2>1, <2>2, <2>3 DEF Somewhere
<1>4. QED
  BY <1>2, <1>3

(* A cancelled task stops: somebody waits to abort it. *)
LEMMA StopStep ==
  ASSUME NEW t \in Turns, ProcStep(t, Rest(t)), proc[t].pc \in LivePcs, proc[t].cancelled,
         proc[t].pc # "begin",
         UNCHANGED <<active, state, mailbox, fresh, settled, ended>>
  PROVE  KInv'
<1> DEFINE r == Rest(t)
<1>1. /\ TypeOK /\ Slot /\ Tasks /\ Locals /\ Drained /\ Carried /\ Woken /\ t \in Procs
      /\ proc' \in [Procs -> ProcRecord] /\ proc'[t] = r
      /\ \A q \in Procs : q # t => proc'[q] = proc[q]
  BY Known
<1>2. r.pc = "end" /\ r.turn = NoTurn /\ r.items = {} /\ proc[t].items = {}
  BY RestTyped, LiveTask, Constants DEF ProcStep
<1>3. PICK a \in Procs : proc[a].pc = "abort" /\ proc[a].target = t
  BY <1>1 DEF Tasks, TaskOK
<1>4. a # t /\ active = NoActive /\ active.task = NoTurn /\ ~Critical(t)
  BY <1>1, <1>3 DEF Locals, LocalOK, AbortPcs, NoActive, Critical, LivePcs, RunPcs
<1> HIDE DEF r
<1>5. TypeOK'
  BY <1>1 DEF TypeOK
<1>6. Slot'
  BY <1>4 DEF Slot, Reserved
<1>7. Tasks'
  <2>1. ASSUME NEW u \in Turns, u # t PROVE TaskOK(u)'
    <3>1. \A p \in Procs : proc[p].pc \in AbortPcs => proc'[p] = proc[p]
      BY <1>1, PcFacts
    <3>2. QED
      BY <1>1, <2>1, <3>1, Constants DEF Tasks, TaskOK, AbortPcs
  <2>2. TaskOK(t)'
    BY <1>1, <1>2, <1>3, <1>4 DEF Tasks, TaskOK, AbortPcs, LivePcs, RunPcs, BeforeEnd
  <2>3. QED
    BY <2>1, <2>2 DEF Tasks
<1>8. Locals'
  <2>1. LocalOK(t)'
    BY <1>1, <1>2 DEF LocalOK, Critical, AbortPcs, Reserving
  <2>2. ASSUME NEW q \in Procs, q # t PROVE LocalOK(q)'
    <3>1. proc'[q] = proc[q] /\ LocalOK(q) /\ (Critical(q)' <=> Critical(q))
      BY <1>1, <2>2 DEF Locals, Critical
    <3>2. proc[q].turn # t
      BY <3>1, PcFacts, Constants DEF LocalOK
    <3>3. \A u \in Turns : u # t => proc'[u] = proc[u]
      BY <1>1, Constants
    <3>4. proc[q].pc # "aborted" \/ proc[q].target # t
      BY <3>1, PcFacts DEF LocalOK
    <3>5. proc[q].turn \in Turns \cup {NoTurn}
      BY Known
    <3>6. QED
      BY <1>1, <1>2, <3>1, <3>2, <3>3, <3>4, <3>5 DEF LocalOK, Own, AbortPcs
  <2>3. QED
    BY <2>1, <2>2 DEF Locals
<1>9. Drained' /\ Carried'
  BY <1>1, <1>2 DEF Drained, Carried
<1>10. Woken'
  BY <1>1, <1>3, <1>4 DEF Woken, AbortPcs
<1>11. Kept'
  BY <1>2, KeptOne, PcFacts DEF r
<1>12. QED
  BY <1>5, <1>6, <1>7, <1>8, <1>9, <1>10, <1>11 DEF KInv, Control, Data, ProcStep

(* The task of the slot is completed: the slot is kept for it. *)
LEMMA FinishStep ==
  ASSUME KInv, Exclusive', NEW t \in Turns, Finish(t)
  PROVE  KInv'
<1>1. /\ proc[t].pc = "finish" /\ proc[t].pc \in LivePcs /\ t \in Procs /\ TaskOK(t)
      /\ proc[t].pc # "begin"
  BY Constants DEF Finish, LivePcs, KInv, Control, Tasks
<1>2. proc[t].items = {} /\ ended[t] = 0 /\ proc[t].turn = NoTurn
  BY <1>1, LiveTask
<1>3. CASE proc[t].cancelled
  <2>1. active.task = NoTurn
    BY <1>1, <1>3 DEF TaskOK, KInv, Control, Locals, LocalOK, AbortPcs, NoActive
  <2>2. ProcStep(t, Rest(t))
    BY <1>1, <2>1, RestTyped DEF Finish, Leave, ProcStep
  <2>3. QED
    BY <1>1, <1>3, <2>1, <2>2, StopStep DEF Finish
<1>4. CASE ~proc[t].cancelled
  <2> DEFINE r == [Proc("save") EXCEPT !.state = active.state]
  <2>1. active.task = t /\ t # NoTurn
    BY <1>1, <1>4, Constants DEF TaskOK
  <2>2. active.state \in States /\ active.state[1] = t
    BY <2>1 DEF KInv, Control, Slot, NoActive
  <2>3. /\ r \in ProcRecord /\ r.pc = "save" /\ r.state = active.state /\ r.items = {}
        /\ r.turn = NoTurn
    <3>1. Proc("save") \in ProcRecord /\ Proc("save").pc = "save" /\ Proc("save").items = {}
          /\ Proc("save").turn = NoTurn
      BY ProcTyped DEF Pcs
    <3>2. QED
      BY <2>2, <3>1 DEF ProcRecord
  <2>4. ProcStep(t, r)
    BY <1>1, <2>1, <2>3 DEF Finish, ProcStep
  <2>5. /\ TypeOK /\ Slot /\ Tasks /\ Locals /\ Drained /\ Carried /\ Woken /\ Kept
        /\ proc' \in [Procs -> ProcRecord] /\ proc'[t] = r
        /\ \A q \in Procs : q # t => proc'[q] = proc[q]
    BY <2>4, Known
  <2>6. /\ active' = [state |-> active.state, task |-> NoTurn]
        /\ UNCHANGED <<state, mailbox, fresh, settled, ended>>
    BY <2>1, <2>5 DEF Finish, TypeOK
  <2>7. active'.state = active.state /\ active'.task = NoTurn /\ active' # NoActive /\ active # NoActive
    BY <2>1, <2>2, <2>6, Constants DEF NoActive
  <2> HIDE DEF r
  <2>8. TypeOK'
    BY <2>2, <2>5, <2>6 DEF TypeOK
  <2>9. Slot'
    BY <1>1, <2>2, <2>3, <2>5, <2>7 DEF Slot
  <2>10. \A p \in Procs : proc[p].pc \notin AbortPcs /\ proc'[p].pc \notin AbortPcs
    BY <1>1, <2>1, <2>3, <2>5, <2>7 DEF Locals, LocalOK, AbortPcs
  <2>11. Tasks'
    <3>1. ASSUME NEW u \in Turns, u # t PROVE TaskOK(u)'
      BY <2>1, <2>5, <2>6, <2>10, <3>1, Constants DEF Tasks, TaskOK, AbortPcs
    <3>2. TaskOK(t)'
      BY <1>2, <2>2, <2>3, <2>5, <2>6 DEF TaskOK, LivePcs, RunPcs, BeforeEnd
    <3>3. QED
      BY <3>1, <3>2 DEF Tasks
  <2>12. Locals'
    <3>1. LocalOK(t)'
      BY <2>3, <2>5 DEF LocalOK, Critical, AbortPcs, Reserving
    <3>2. ASSUME NEW q \in Procs, q # t PROVE LocalOK(q)'
      <4>1. proc'[q] = proc[q] /\ LocalOK(q) /\ (Critical(q)' <=> Critical(q))
        BY <2>5, <3>2 DEF Locals, Critical
      <4>2. proc[q].turn # t /\ proc[q].turn \in Turns \cup {NoTurn}
        BY <1>1, <2>1, <2>4, <4>1, Known DEF LocalOK
      <4>3. proc[q].turn # NoTurn => proc'[proc[q].turn] = proc[proc[q].turn]
        BY <2>5, <4>2, Constants
      <4>4. proc[q].pc \notin AbortPcs \cup Reserving \cup {"start", "spawn"}
        BY <2>1, <2>7, <2>10, <4>1 DEF LocalOK, Own
      <4>5. QED
        BY <4>1, <4>3, <4>4 DEF LocalOK, AbortPcs
    <3>3. QED
      BY <3>1, <3>2 DEF Locals
  <2>13. Drained' /\ Carried'
    BY <2>3, <2>5, <2>6 DEF Drained, Carried
  <2>14. Woken'
    BY <2>7 DEF Woken
  <2>15. Kept'
    <3> SUFFICES ASSUME NEW i \in Items \ fresh PROVE Somewhere(i)'
      BY <2>6 DEF Kept
    <3>1. Somewhere(i)
      BY <2>5 DEF Kept
    <3>2. \A p \in Procs : i \in proc[p].items => i \in proc'[p].items
      BY <1>2, <2>5
    <3>3. \A p \in Procs : proc[p].pc \in AbortPcs \cup {"save"} => proc'[p] = proc[p]
      BY <1>1, <2>5 DEF AbortPcs
    <3>4. QED
      BY <2>6, <2>7, <3>1, <3>2, <3>3 DEF Somewhere
  <2>16. QED
    BY <2>8, <2>9, <2>11, <2>12, <2>13, <2>14, <2>15 DEF KInv, Control, Data
<1>5. QED
  BY <1>3, <1>4

(* A process that neither starts nor aborts a turn disturbs nobody. *)
LEMMA QuietLocals ==
  ASSUME NEW p, NEW r, ProcStep(p, r), ~Critical(p), ~Critical(p)', r.turn = NoTurn,
         proc[p].pc \notin LivePcs \cup {"none", "end"},
         r.pc \in LivePcs \cup {"none", "save", "release", "end"} => p \in Turns,
         \/ active' = active
         \/ \A q \in Procs : proc[q].pc \notin Reserving \cup AbortPcs \cup {"start", "spawn"},
         \A u \in Turns : u # p => ended'[u] = ended[u]
  PROVE  Locals'
<1>1. /\ Locals /\ p \in Procs /\ proc'[p] = r
      /\ \A q \in Procs : q # p => proc'[q] = proc[q]
      /\ \A q \in Procs : proc[q].turn \in Turns \cup {NoTurn}
  BY Known
<1>2. LocalOK(p)'
  BY <1>1 DEF LocalOK, Critical, AbortPcs, Reserving
<1>3. ASSUME NEW q \in Procs, q # p PROVE LocalOK(q)'
  <2>1. proc'[q] = proc[q] /\ LocalOK(q) /\ (Critical(q)' <=> Critical(q))
    BY <1>1, <1>3 DEF Locals, Critical
  <2>2. proc[q].turn # NoTurn => proc'[proc[q].turn] = proc[proc[q].turn]
    BY <1>1, <2>1, Constants DEF LocalOK
  <2>3. proc[q].pc \in AbortPcs => /\ proc[q].target # p /\ proc[q].target \in Turns
                                   /\ proc'[proc[q].target] = proc[proc[q].target]
                                   /\ ended'[proc[q].target] = ended[proc[q].target]
    BY <1>1, <2>1, Constants DEF LocalOK, AbortPcs
  <2>4. CASE active' = active
    BY <2>1, <2>2, <2>3, <2>4 DEF LocalOK, Own, AbortPcs
  <2>5. CASE proc[q].pc \notin Reserving \cup AbortPcs \cup {"start", "spawn"}
    BY <2>1, <2>2, <2>5 DEF LocalOK, AbortPcs
  <2>6. QED
    BY <2>4, <2>5
<1>4. QED
  BY <1>2, <1>3 DEF Locals

(* A process that ends no task leaves the other tasks in order. *)
LEMMA QuietTasks ==
  ASSUME NEW p, NEW r, ProcStep(p, r), proc[p].pc \notin AbortPcs,
         active'.task = active.task, \A u \in Turns : u # p => ended'[u] = ended[u]
  PROVE  \A u \in Turns : u # p => TaskOK(u)'
<1> SUFFICES ASSUME NEW u \in Turns, u # p PROVE TaskOK(u)'
  OBVIOUS
<1>1. Tasks /\ p \in Procs /\ \A q \in Procs : q # p => proc'[q] = proc[q]
  BY Known
<1>2. \A q \in Procs : proc[q].pc \in AbortPcs => proc'[q] = proc[q]
  BY <1>1
<1>3. QED
  BY <1>1, <1>2, Constants DEF Tasks, TaskOK, AbortPcs

(* Waking up, delivering mail, and finding that there is nothing to start. *)
LEMMA IdleStep ==
  ASSUME NEW p, NEW r, ProcStep(p, r), proc[p].pc \in {"wake", "reserve", "idle"},
         r.pc \in {"wake", "reserve", "idle", "end"}, r.pc = "end" => p \in Turns,
         r.turn = NoTurn, r.items = {},
         UNCHANGED <<active, state, settled, ended>>,
         mailbox \subseteq mailbox', mailbox' \subseteq Mail, fresh' \subseteq fresh,
         (Items \cap fresh) \ fresh' \subseteq mailbox', Woken'
  PROVE  KInv'
<1>1. /\ TypeOK /\ Slot /\ Tasks /\ Locals /\ Drained /\ Carried /\ Kept /\ p \in Procs
      /\ proc' \in [Procs -> ProcRecord] /\ proc'[p] = r
      /\ \A q \in Procs : q # p => proc'[q] = proc[q]
  BY Known
<1>2. ~Critical(p) /\ ~Critical(p)' /\ LocalOK(p)
  BY <1>1 DEF Critical, Locals
<1>3. proc[p].turn = NoTurn /\ proc[p].items = {}
  BY <1>1, <1>2 DEF LocalOK, Carried
<1>4. TypeOK'
  BY <1>1 DEF TypeOK
<1>5. Slot'
  <2>1. Reserved' => \E q \in Procs :
           \/ proc'[q].pc \in Reserving \cup {"start", "spawn"}
           \/ proc'[q].pc \in {"save", "release"} /\ proc'[q].state = active.state
    BY <1>1 DEF Slot, Reserved, Reserving
  <2>2. active.task # NoTurn => proc'[active.task] = proc[active.task]
    BY <1>1, Constants DEF Slot, TypeOK, LivePcs, RunPcs
  <2>3. QED
    BY <1>1, <2>1, <2>2 DEF Slot
<1>6. Locals'
  BY <1>2, QuietLocals DEF LivePcs, RunPcs
<1>7. Tasks'
  <2>1. proc[p].pc \notin AbortPcs \cup BeforeEnd /\ r.pc \notin BeforeEnd
    BY DEF AbortPcs, BeforeEnd, LivePcs, RunPcs
  <2>2. ASSUME p \in Turns PROVE TaskOK(p)'
    <3>1. TaskOK(p) /\ \A q \in Procs : proc[q].pc \in AbortPcs => proc'[q] = proc[q]
      BY <1>1, <2>1, <2>2 DEF Tasks
    <3>2. QED
      BY <1>1, <2>1, <3>1, PcFacts DEF TaskOK
  <2>3. QED
    BY <2>1, <2>2, QuietTasks DEF Tasks
<1>8. Drained' /\ Carried'
  BY <1>1 DEF Drained, Carried
<1>9. Kept'
  <2> SUFFICES ASSUME NEW i \in Items \ fresh', i \notin mailbox' PROVE Somewhere(i)'
    BY DEF Kept, Somewhere
  <2>1. Somewhere(i) /\ i \notin mailbox
    BY <1>1 DEF Kept
  <2>2. \A q \in Procs : /\ i \in proc[q].items => i \in proc'[q].items
                         /\ proc[q].pc \in AbortPcs \cup {"save"} => proc'[q] = proc[q]
    BY <1>1, <1>3 DEF AbortPcs
  <2>3. QED
    BY <2>1, <2>2 DEF Somewhere
<1>10. QED
  BY <1>4, <1>5, <1>6, <1>7, <1>8, <1>9 DEF KInv, Control, Data, ProcStep

(* What is still pending is recorded, and TurnComplete is sent. *)
LEMMA SaveStep ==
  ASSUME KInv, Exclusive', NEW t \in Turns, Save(t)
  PROVE  KInv'
<1> DEFINE r == [proc[t] EXCEPT !.pc = "release"]
           s == proc[t].state
<1>1. /\ t \in Procs /\ proc[t].pc = "save" /\ TaskOK(t) /\ proc[t] \in ProcRecord
      /\ s \in States /\ s[1] = t
  BY Constants DEF Save, KInv, Control, Tasks, TaskOK, TypeOK
<1>2. /\ r \in ProcRecord /\ r.pc = "release" /\ r.state = s /\ r.turn = proc[t].turn
      /\ r.items = proc[t].items
  BY <1>1 DEF ProcRecord, Pcs
<1>3. ProcStep(t, r)
  BY <1>1, <1>2 DEF Save, Goto, ProcStep
<1> HIDE DEF r
<1>4. /\ TypeOK /\ Slot /\ Tasks /\ Locals /\ Drained /\ Carried /\ Woken /\ Kept
      /\ proc' \in [Procs -> ProcRecord] /\ proc'[t] = r
      /\ \A q \in Procs : q # t => proc'[q] = proc[q]
  BY <1>3, Known
<1>5. ~Critical(t) /\ ~Critical(t)' /\ proc[t].turn = NoTurn /\ proc[t].items = {}
  BY <1>1, <1>2, <1>4 DEF Critical, Locals, LocalOK, Carried
<1>6. /\ state' = [state EXCEPT ![s].pending = {}] /\ settled' = settled \cup state[s].pending
      /\ ended' = [ended EXCEPT ![t] = @ + 1] /\ UNCHANGED <<active, mailbox, fresh>>
  BY DEF Save
<1>7. ended'[t] = 1 /\ ended' \in [Turns -> Nat] /\ \A u \in Turns : u # t => ended'[u] = ended[u]
  BY <1>1, <1>4, <1>6 DEF TaskOK, BeforeEnd, TypeOK
<1>8. /\ state' \in [States -> [pending : SUBSET Items, phase : {"current", "next"}]]
      /\ state'[s].pending = {} /\ \A x \in States : x # s => state'[x] = state[x]
      /\ settled' \subseteq Items
  BY <1>1, <1>4, <1>6 DEF TypeOK
<1>9. TypeOK'
  BY <1>4, <1>6, <1>7, <1>8 DEF TypeOK
<1>10. Slot'
  <2>1. Reserved' => \E q \in Procs :
           \/ proc'[q].pc \in Reserving \cup {"start", "spawn"}
           \/ proc'[q].pc \in {"save", "release"} /\ proc'[q].state = active.state
    BY <1>1, <1>2, <1>4, <1>6 DEF Slot, Reserved, Reserving
  <2>2. active.task # NoTurn => proc'[active.task] = proc[active.task]
    BY <1>1, <1>4, Constants DEF Slot, TypeOK, LivePcs, RunPcs
  <2>3. QED
    BY <1>4, <1>6, <2>1, <2>2 DEF Slot
<1>11. Locals'
  BY <1>1, <1>2, <1>3, <1>5, <1>6, <1>7, QuietLocals DEF LivePcs, RunPcs
<1>12. Tasks'
  <2>1. TaskOK(t)'
    BY <1>1, <1>2, <1>4, <1>7 DEF TaskOK, LivePcs, RunPcs, BeforeEnd
  <2>2. QED
    BY <1>1, <1>3, <1>6, <1>7, <2>1, QuietTasks DEF Tasks, AbortPcs
<1>13. Drained'
  <2>1. ASSUME NEW q \in Procs, proc'[q].pc \in {"recheck", "release"}
        PROVE  state'[proc'[q].state].pending = {}
    <3>1. CASE q = t
      BY <1>2, <1>4, <1>8, <3>1
    <3>2. CASE q # t
      BY <1>4, <1>8, <2>1, <3>2, HeldState DEF Drained, Reserving
    <3>3. QED
      BY <3>1, <3>2
  <2>2. QED
    BY <2>1 DEF Drained
<1>14. Carried' /\ Woken'
  BY <1>1, <1>2, <1>4, <1>5, <1>6 DEF Carried, Woken, AbortPcs
<1>15. Kept'
  <2> SUFFICES ASSUME NEW i \in Items \ fresh, i \notin settled' PROVE Somewhere(i)'
    BY <1>6 DEF Kept, Somewhere
  <2>1. Somewhere(i) /\ i \notin settled /\ i \notin state[s].pending
    BY <1>4, <1>6 DEF Kept
  <2>2. \A q \in Procs : i \in proc[q].items => i \in proc'[q].items
    BY <1>4, <1>5
  <2>3. ASSUME NEW q \in Procs, proc[q].pc \in AbortPcs \cup {"save"},
               i \in state[proc[q].state].pending
        PROVE  proc'[q] = proc[q] /\ i \in state'[proc[q].state].pending
    <3>1. proc[q].state \in States /\ proc[q].state # s
      BY <2>1, <2>3, HeldState
    <3>2. QED
      BY <1>4, <1>8, <2>3, <3>1
  <2>4. active # NoActive /\ i \in state[active.state].pending =>
          i \in state'[active.state].pending
    BY <1>4, <1>8, <2>1 DEF Slot
  <2>5. QED
    BY <1>6, <2>1, <2>2, <2>3, <2>4 DEF Somewhere
<1>16. QED
  BY <1>9, <1>10, <1>11, <1>12, <1>13, <1>14, <1>15 DEF KInv, Control, Data

(* The slot is given up, unless another turn is in it by now. *)
LEMMA ReleaseStep ==
  ASSUME KInv, Exclusive', NEW t \in Turns, Release(t)
  PROVE  KInv'
<1> DEFINE s == proc[t].state
           mine == Reserved /\ active.state = s
           r == IF mine THEN Proc("wake") ELSE Rest(t)
<1>1. /\ t \in Procs /\ proc[t].pc = "release" /\ TaskOK(t) /\ LocalOK(t) /\ proc[t] \in ProcRecord
      /\ s \in States /\ s[1] = t /\ state[s].pending = {}
  BY Constants DEF Release, KInv, Control, Data, Tasks, TaskOK, TypeOK, Drained, Locals
<1>2. /\ r \in ProcRecord /\ r.pc = (IF mine THEN "wake" ELSE "end") /\ r.turn = NoTurn /\ r.items = {}
  BY <1>1, ProcTyped, RestTyped DEF Pcs
<1>3. ProcStep(t, r)
  BY <1>1, <1>2 DEF Release, ProcStep
<1>4. active' = (IF mine THEN NoActive ELSE active) /\ UNCHANGED <<mailbox, fresh, settled, ended>>
  BY DEF Release, ClearReserved
<1> HIDE DEF r
<1>5. /\ TypeOK /\ Slot /\ Tasks /\ Locals /\ Drained /\ Carried /\ Woken /\ Kept
      /\ proc' \in [Procs -> ProcRecord] /\ proc'[t] = r
      /\ \A q \in Procs : q # t => proc'[q] = proc[q]
      /\ \A q \in Procs : proc[q].turn \in Turns \cup {NoTurn}
  BY <1>3, Known
<1>6. ~Critical(t) /\ ~Critical(t)' /\ proc[t].turn = NoTurn /\ proc[t].items = {}
  BY <1>1, <1>2, <1>5 DEF Critical, LocalOK, Carried
<1>7. /\ state' \in [States -> [pending : SUBSET Items, phase : {"current", "next"}]]
      /\ \A x \in States : state'[x].pending = state[x].pending
  <2>1. Empty \in [pending : SUBSET Items, phase : {"current", "next"}] /\ Empty.pending = {}
    BY DEF Empty
  <2>2. QED
    BY <1>1, <1>5, <2>1 DEF Release, TypeOK
<1>8. active' \in [state : States \cup {NoState}, task : Turns \cup {NoTurn}]
      /\ active'.task = active.task
  BY <1>4, <1>5 DEF TypeOK, NoActive, Reserved
<1>9. TypeOK'
  BY <1>4, <1>5, <1>7, <1>8 DEF TypeOK
<1>10. Slot'
  <2>1. CASE mine
    BY <1>4, <2>1 DEF Slot, Reserved, NoActive
  <2>2. CASE ~mine
    <3>1. Reserved' => \E q \in Procs :
             \/ proc'[q].pc \in Reserving \cup {"start", "spawn"}
             \/ proc'[q].pc \in {"save", "release"} /\ proc'[q].state = active.state
      BY <1>1, <1>4, <1>5, <2>2 DEF Slot, Reserved, Reserving
    <3>2. active.task # NoTurn => proc'[active.task] = proc[active.task]
      BY <1>1, <1>5, Constants DEF Slot, TypeOK, LivePcs, RunPcs
    <3>3. QED
      BY <1>4, <1>5, <2>2, <3>1, <3>2 DEF Slot
  <2>3. QED
    BY <2>1, <2>2
<1>11. Locals'
  <2>1. ASSUME mine, NEW q \in Procs
        PROVE  proc[q].pc \notin Reserving \cup AbortPcs \cup {"start", "spawn"}
    <3>1. active # NoActive /\ active.state[1] = t
      BY <1>1, <2>1 DEF Reserved
    <3>2. LocalOK(q) /\ proc[q].turn # t
      BY <1>1, <1>5, Constants DEF Locals, LocalOK
    <3>3. QED
      BY <3>1, <3>2 DEF LocalOK, Own
  <2>2. QED
    BY <1>1, <1>2, <1>3, <1>4, <1>6, <2>1, QuietLocals DEF LivePcs, RunPcs
<1>12. Tasks'
  <2>1. proc[t].pc \notin AbortPcs \cup BeforeEnd /\ r.pc \notin BeforeEnd \cup {"save", "release"}
    BY <1>1, <1>2 DEF AbortPcs, BeforeEnd, LivePcs, RunPcs
  <2>2. \A q \in Procs : proc[q].pc \in AbortPcs => proc'[q] = proc[q]
    BY <1>5, <2>1
  <2>3. TaskOK(t)'
    BY <1>1, <1>4, <1>5, <2>1, <2>2, PcFacts DEF TaskOK
  <2>4. QED
    BY <1>3, <1>4, <1>8, <2>1, <2>3, QuietTasks DEF Tasks
<1>13. Drained'
  <2>1. ASSUME NEW q \in Procs, proc'[q].pc \in {"recheck", "release"}
        PROVE  state'[proc'[q].state].pending = {}
    <3>1. q # t /\ proc'[q] = proc[q]
      BY <1>2, <1>5, <2>1
    <3>2. proc[q].state \in States
      BY <2>1, <3>1, HeldState DEF Reserving
    <3>3. QED
      BY <1>5, <1>7, <2>1, <3>1, <3>2 DEF Drained
  <2>2. QED
    BY <2>1 DEF Drained
<1>14. Carried' /\ Woken'
  BY <1>1, <1>2, <1>4, <1>5 DEF Carried, Woken, AbortPcs
<1>15. Kept'
  <2> SUFFICES ASSUME NEW i \in Items \ fresh PROVE Somewhere(i)'
    BY <1>4 DEF Kept
  <2>1. Somewhere(i)
    BY <1>5 DEF Kept
  <2>2. \A q \in Procs : i \in proc[q].items => i \in proc'[q].items
    BY <1>5, <1>6
  <2>3. ASSUME NEW q \in Procs, proc[q].pc \in AbortPcs \cup {"save"},
               i \in state[proc[q].state].pending
        PROVE  proc'[q] = proc[q] /\ i \in state'[proc[q].state].pending
    <3>1. proc[q].state \in States /\ q # t
      BY <1>1, <2>3, HeldState DEF AbortPcs
    <3>2. QED
      BY <1>5, <1>7, <2>3, <3>1
  <2>4. active # NoActive /\ i \in state[active.state].pending =>
          active' = active /\ i \in state'[active.state].pending
    BY <1>1, <1>4, <1>5, <1>7 DEF Slot
  <2>5. QED
    BY <1>4, <2>1, <2>2, <2>3, <2>4 DEF Somewhere
<1>16. QED
  BY <1>9, <1>10, <1>11, <1>12, <1>13, <1>14, <1>15 DEF KInv, Control, Data

(* A task past its last request finishes, or rests when it was cancelled. *)
LEMMA FlushStep ==
  ASSUME KInv, Exclusive', NEW t \in Turns, Flush(t)
  PROVE  KInv'
<1>1. /\ t \in Procs /\ proc[t].pc = "flush" /\ proc[t].pc \in RunPcs /\ proc[t].pc \in LivePcs
      /\ proc[t] \in ProcRecord /\ TypeOK /\ settled \subseteq Items
      /\ state \in [States -> [pending : SUBSET Items, phase : {"current", "next"}]]
  BY Constants DEF Flush, RunPcs, LivePcs, KInv, TypeOK
<1>2. proc[t].items = {}
  BY <1>1, LiveTask
<1>3. CASE proc[t].cancelled
  BY <1>1, <1>3, RestTyped, StopStep DEF Flush, ProcStep
<1>4. CASE ~proc[t].cancelled
  <2> DEFINE r == [proc[t] EXCEPT !.pc = "finish"]
  <2>1. proc' = [proc EXCEPT ![t] = r]
    BY <1>4 DEF Flush
  <2>2. /\ r \in ProcRecord /\ r.pc = "finish" /\ r.items = proc[t].items
        /\ r.turn = proc[t].turn /\ r.cancelled = proc[t].cancelled
    BY <1>1 DEF ProcRecord, Pcs
  <2> HIDE DEF r
  <2>3. r.pc \in LivePcs
    BY <2>2 DEF LivePcs
  <2>4. QED
    BY <1>1, <1>2, <2>1, <2>2, <2>3, RunStep DEF Flush
<1>5. QED
  BY <1>3, <1>4

-----------------------------------------------------------------------------
(* Starting a turn                                                          *)

(* A process looks whether mail asks for a turn. *)
LEMMA WakeStep ==
  ASSUME KInv, Exclusive', NEW p \in Procs, Wake(p)
  PROVE  KInv'
<1>1. proc[p] \in ProcRecord /\ proc[p].pc = "wake" /\ LocalOK(p) /\ Woken
  BY DEF Wake, KInv, TypeOK, Control, Data, Locals
<1>2. proc[p].turn = NoTurn /\ proc[p].items = {}
  BY <1>1 DEF LocalOK, Critical, KInv, Data, Carried
<1>3. CASE mailbox \cap Triggers # {}
  <2> DEFINE r == [proc[p] EXCEPT !.pc = "reserve"]
  <2>1. r \in ProcRecord /\ r.pc = "reserve" /\ r.turn = NoTurn /\ r.items = {}
    BY <1>1, <1>2 DEF ProcRecord, Pcs, StartPcs
  <2>2. ProcStep(p, r)
    BY <1>3, <2>1 DEF Wake, Goto, ProcStep
  <2> HIDE DEF r
  <2>3. proc'[p] = r
    BY <2>2, Known
  <2>4. Woken'
    BY <2>1, <2>3 DEF Woken
  <2>5. QED
    BY <1>1, <2>1, <2>2, <2>4, IdleStep DEF Wake, KInv, TypeOK
<1>4. CASE mailbox \cap Triggers = {}
  <2>1. ProcStep(p, Rest(p))
    BY <1>4, RestTyped DEF Wake, Leave, ProcStep
  <2>2. Woken'
    BY <1>4 DEF Wake, Woken
  <2>3. QED
    BY <1>1, <2>1, <2>2, RestTyped, IdleStep DEF Wake, KInv, TypeOK
<1>5. QED
  BY <1>3, <1>4

(* A new turn is one that nobody knows. *)
LEMMA NewTurnIsNew ==
  ASSUME Unused # {}
  PROVE  NewTurn \in Turns /\ proc[NewTurn].pc = "none" /\ \A p \in Procs : proc[p].turn # NewTurn
<1>1. NewTurn \in Unused
  BY DEF NewTurn
<1>2. QED
  BY <1>1 DEF Unused

(* A step of a process that starts a turn, for the tasks. *)
LEMMA StarterTasks ==
  ASSUME NEW p, NEW r, ProcStep(p, r), proc[p].pc \notin AbortPcs \cup BeforeEnd,
         r.pc \notin BeforeEnd \cup {"save", "release"},
         active'.task = active.task, ended' = ended
  PROVE  Tasks'
<1>1. Tasks /\ p \in Procs /\ proc'[p] = r /\ \A q \in Procs : q # p => proc'[q] = proc[q]
  BY Known
<1>2. ASSUME p \in Turns PROVE TaskOK(p)'
  <2>1. TaskOK(p) /\ \A q \in Procs : proc[q].pc \in AbortPcs => proc'[q] = proc[q]
    BY <1>1, <1>2 DEF Tasks
  <2>2. QED
    BY <1>1, <2>1, PcFacts DEF TaskOK
<1>3. QED
  BY <1>2, QuietTasks DEF Tasks

(* Whoever is completing a turn holds the TurnState of that turn, not the  *)
(* one of a turn that is being started.                                     *)
LEMMA HeldByOthers ==
  ASSUME NEW p, NEW r, ProcStep(p, r), Critical(p) \/ Critical(p)',
         NEW q \in Procs, q # p,
         proc[q].pc \in AbortPcs \cup Reserving \cup {"save", "release"}
  PROVE  /\ proc[q].pc \in {"save", "release"} /\ proc[q].state \in States
         /\ proc'[q] = proc[q]
         /\ proc[proc[q].state[1]].pc \in {"save", "release"}
<1>1. ~Critical(q) /\ Locals /\ Tasks /\ proc'[q] = proc[q]
  BY OtherLocals, Known
<1>2. proc[q].pc \in {"save", "release"}
  BY <1>1 DEF Critical, AbortPcs, Reserving
<1>3. q \in Turns
  BY <1>1, <1>2 DEF Locals, LocalOK
<1>4. proc[q].state \in States /\ proc[q].state[1] = q
  BY <1>1, <1>2, <1>3 DEF Tasks, TaskOK
<1>5. QED
  BY <1>1, <1>2, <1>4

(* The idle session's slot is reserved for a new turn. *)
LEMMA ReserveStep ==
  ASSUME NEW p, NEW r, ProcStep(p, r), active = NoActive, Unused # {}, Reserve(NewTurn),
         proc[p].pc \in {"reserve", "idle"}, r.pc \in {"drain", "recheck"},
         r.turn = NewTurn, r.state = <<NewTurn, 0>>, r.pc = "drain" => r.items = {},
         UNCHANGED <<mailbox, settled, ended>>, fresh' \subseteq fresh,
         (Items \cap fresh) \ fresh' \subseteq r.items
  PROVE  KInv'
<1> DEFINE s == r.state
<1>1. /\ TypeOK /\ Slot /\ Tasks /\ Locals /\ Drained /\ Carried /\ Kept /\ p \in Procs
      /\ proc' \in [Procs -> ProcRecord] /\ proc'[p] = r
      /\ \A q \in Procs : q # p => proc'[q] = proc[q]
  BY Known
<1>2. /\ r.turn \in Turns /\ proc[r.turn].pc = "none" /\ r.turn # NoTurn /\ r.turn # p
      /\ \A q \in Procs : proc[q].turn # r.turn
  BY NewTurnIsNew, Constants
<1>3. s \in States /\ s[1] = r.turn /\ s = <<r.turn, 0>> /\ s # NoState
  <2>1. s = <<r.turn, 0>>
    OBVIOUS
  <2>2. s \in States /\ s # NoState
    BY <1>2, <2>1, Constants
  <2>3. s[1] = r.turn
    BY <2>1
  <2>4. QED
    BY <2>1, <2>2, <2>3
<1>4. /\ active' = [state |-> s, task |-> NoTurn] /\ state' = [state EXCEPT ![s] = Empty]
  BY DEF Reserve
<1>5. active'.state = s /\ active'.task = NoTurn /\ active' # NoActive /\ active.task = NoTurn
  BY <1>3, <1>4 DEF NoActive
<1>6. /\ state' \in [States -> [pending : SUBSET Items, phase : {"current", "next"}]]
      /\ state'[s].pending = {} /\ \A x \in States : x # s => state'[x] = state[x]
  <2>1. Empty \in [pending : SUBSET Items, phase : {"current", "next"}] /\ Empty.pending = {}
    BY DEF Empty
  <2>2. QED
    BY <1>1, <1>3, <1>4, <2>1 DEF TypeOK
<1>7. Critical(p)' /\ ~Critical(p) /\ LocalOK(p) /\ proc[p].items = {}
  BY <1>1 DEF Critical, Locals, LocalOK, Carried
<1>8. TypeOK'
  <2>1. active' \in [state : States \cup {NoState}, task : Turns \cup {NoTurn}]
    BY <1>3, <1>4
  <2>2. QED
    BY <1>1, <1>6, <2>1 DEF TypeOK
<1>9. Slot'
  BY <1>1, <1>3, <1>5 DEF Slot, Reserving
<1>10. Tasks'
  BY <1>5, StarterTasks DEF AbortPcs, BeforeEnd, LivePcs, RunPcs
<1>11. Locals'
  <2>1. LocalOK(p)'
    BY <1>1, <1>2, <1>3, <1>5, <1>7, Constants DEF LocalOK, Own, Reserving, AbortPcs, LivePcs, RunPcs
  <2>2. QED
    BY <1>7, <2>1, OtherLocals DEF Locals
<1>12. ASSUME NEW q \in Procs, q # p, proc[q].pc \in AbortPcs \cup Reserving \cup {"save", "release"}
       PROVE  proc'[q] = proc[q] /\ proc[q].state \in States /\ proc[q].state # s
  BY <1>2, <1>3, <1>7, <1>12, HeldByOthers
<1>13. Drained'
  <2>1. ASSUME NEW q \in Procs, proc'[q].pc \in {"recheck", "release"}
        PROVE  state'[proc'[q].state].pending = {}
    <3>1. CASE q = p
      BY <1>1, <1>6, <3>1
    <3>2. CASE q # p
      <4>1. proc'[q] = proc[q] /\ proc[q].state \in States /\ proc[q].state # s
        BY <1>1, <1>12, <2>1, <3>2 DEF Reserving
      <4>2. QED
        BY <1>1, <1>6, <2>1, <4>1 DEF Drained
    <3>3. QED
      BY <3>1, <3>2
  <2>2. QED
    BY <2>1 DEF Drained
<1>14. Carried'
  BY <1>1, <1>2 DEF Carried
<1>15. Woken'
  BY <1>5 DEF Woken
<1>16. Kept'
  <2> SUFFICES ASSUME NEW i \in Items \ fresh', i \notin r.items PROVE Somewhere(i)'
    BY <1>1 DEF Kept, Somewhere
  <2>1. Somewhere(i)
    BY <1>1 DEF Kept
  <2>2. \A q \in Procs : i \in proc[q].items => i \in proc'[q].items
    BY <1>1, <1>7
  <2>3. ASSUME NEW q \in Procs, proc[q].pc \in AbortPcs \cup {"save"},
               i \in state[proc[q].state].pending
        PROVE  proc'[q] = proc[q] /\ i \in state'[proc[q].state].pending
    BY <1>6, <1>12, <2>3 DEF AbortPcs
  <2>4. QED
    BY <2>1, <2>2, <2>3 DEF Somewhere
<1>17. QED
  BY <1>8, <1>9, <1>10, <1>11, <1>13, <1>14, <1>15, <1>16 DEF KInv, Control, Data, ProcStep

(* The slot is reserved for the turn that mail asks for. *)
LEMMA ReserveForMailStep ==
  ASSUME KInv, Exclusive', NEW p \in Procs, ReserveForMail(p)
  PROVE  KInv'
<1>1. proc[p].pc = "reserve"
  BY DEF ReserveForMail
<1>2. CASE active # NoActive
  <2>1. ProcStep(p, Rest(p))
    BY <1>2, RestTyped DEF ReserveForMail, Leave, ProcStep
  <2>2. Woken'
    BY <1>2 DEF ReserveForMail, Woken
  <2>3. QED
    BY <1>1, <1>2, <2>1, <2>2, RestTyped, IdleStep DEF ReserveForMail, KInv, TypeOK
<1>3. CASE active = NoActive
  <2> DEFINE r == [Proc("drain") EXCEPT !.turn = NewTurn, !.state = <<NewTurn, 0>>]
  <2>1. /\ Unused # {} /\ Reserve(NewTurn) /\ proc' = [proc EXCEPT ![p] = r]
        /\ UNCHANGED <<mailbox, fresh, settled, ended>>
    BY <1>3 DEF ReserveForMail
  <2>2. NewTurn \in Turns /\ <<NewTurn, 0>> \in States
    BY <2>1, NewTurnIsNew, Constants
  <2>3. /\ r \in ProcRecord /\ r.pc = "drain" /\ r.turn = NewTurn /\ r.state = <<NewTurn, 0>>
        /\ r.items = {}
    <3>1. Proc("drain") \in ProcRecord /\ Proc("drain").pc = "drain" /\ Proc("drain").items = {}
      BY ProcTyped DEF Pcs, StartPcs
    <3>2. QED
      BY <2>2, <3>1 DEF ProcRecord
  <2> HIDE DEF r
  <2>4. ProcStep(p, r)
    BY <2>1, <2>3 DEF ProcStep
  <2>5. QED
    BY <1>1, <1>3, <2>1, <2>3, <2>4, ReserveStep
<1>4. QED
  BY <1>2, <1>3

(* The slot is reserved for a turn if the session is idle. *)
LEMMA StartIfIdleStep ==
  ASSUME KInv, Exclusive', NEW i \in Users, StartIfIdle(i)
  PROVE  KInv'
<1> DEFINE r == [Proc("recheck") EXCEPT !.turn = NewTurn, !.state = <<NewTurn, 0>>, !.items = {i}]
<1>1. /\ Unused # {} /\ Reserve(NewTurn) /\ proc' = [proc EXCEPT ![Loop] = r]
      /\ UNCHANGED <<mailbox, settled, ended>> /\ proc[Loop].pc = "idle" /\ active = NoActive
      /\ fresh' = fresh \ {i}
  BY DEF StartIfIdle, LoopIdle
<1>2. NewTurn \in Turns /\ <<NewTurn, 0>> \in States /\ i \in Items
  BY <1>1, NewTurnIsNew, Constants DEF Items
<1>3. /\ r \in ProcRecord /\ r.pc = "recheck" /\ r.turn = NewTurn /\ r.state = <<NewTurn, 0>>
      /\ r.items = {i}
  <2>1. Proc("recheck") \in ProcRecord /\ Proc("recheck").pc = "recheck"
    BY ProcTyped DEF Pcs
  <2>2. QED
    BY <1>2, <2>1 DEF ProcRecord
<1> HIDE DEF r
<1>4. ProcStep(Loop, r)
  BY <1>1, <1>3, Constants DEF ProcStep
<1>5. QED
  BY <1>1, <1>3, <1>4, ReserveStep

(* A step of a process that starts a turn: it keeps the invariant when what *)
(* it knows stays true and the input it moves stays somewhere.              *)
LEMMA StarterStep ==
  ASSUME NEW p, NEW r, ProcStep(p, r), Critical(p) \/ Critical(p)',
         proc[p].pc \notin AbortPcs \cup BeforeEnd, r.pc \notin BeforeEnd \cup {"save", "release"},
         active'.task = active.task, ended' = ended, settled \subseteq settled',
         TypeOK', Slot', LocalOK(p)', Woken',
         \A x \in States :
           proc[x[1]].pc \in {"save", "release"} => state'[x].pending = state[x].pending,
         r.pc = "recheck" => state'[r.state].pending = {},
         r.items # {} => r.turn # NoTurn /\ r.pc # "drain",
         \A i \in Items \ fresh' :
           \/ i \in fresh \cup mailbox \cup proc[p].items
           \/ active # NoActive /\ i \in state[active.state].pending
           => Somewhere(i)'
  PROVE  KInv'
<1>1. /\ TypeOK /\ Slot /\ Tasks /\ Locals /\ Drained /\ Carried /\ Kept /\ p \in Procs
      /\ proc'[p] = r /\ \A q \in Procs : q # p => proc'[q] = proc[q]
  BY Known
<1>2. Tasks'
  BY StarterTasks
<1>3. Locals'
  BY OtherLocals DEF Locals
<1>4. ASSUME NEW q \in Procs, q # p, proc[q].pc \in AbortPcs \cup Reserving \cup {"save", "release"}
      PROVE  /\ proc'[q] = proc[q] /\ proc[q].pc \in {"save", "release"}
             /\ state'[proc[q].state].pending = state[proc[q].state].pending
  BY <1>4, HeldByOthers
<1>5. Drained'
  <2>1. ASSUME NEW q \in Procs, proc'[q].pc \in {"recheck", "release"}
        PROVE  state'[proc'[q].state].pending = {}
    <3>1. CASE q = p
      BY <1>1, <2>1, <3>1
    <3>2. CASE q # p
      BY <1>1, <1>4, <2>1, <3>2 DEF Drained, Reserving
    <3>3. QED
      BY <3>1, <3>2
  <2>2. QED
    BY <2>1 DEF Drained
<1>6. Carried'
  BY <1>1 DEF Carried
<1>7. Kept'
  <2> SUFFICES ASSUME NEW i \in Items \ fresh' PROVE Somewhere(i)'
    BY DEF Kept
  <2>1. CASE \/ i \in fresh \cup mailbox \cup proc[p].items
             \/ active # NoActive /\ i \in state[active.state].pending
    BY <2>1
  <2>2. CASE ~(\/ i \in fresh \cup mailbox \cup proc[p].items
               \/ active # NoActive /\ i \in state[active.state].pending)
    <3>1. Somewhere(i)
      BY <1>1, <2>2 DEF Kept
    <3>2. CASE i \in settled
      BY <3>2 DEF Somewhere
    <3>3. ASSUME NEW q \in Procs, i \in proc[q].items PROVE Somewhere(i)'
      BY <1>1, <2>2, <3>3 DEF Somewhere
    <3>4. ASSUME NEW q \in Procs, proc[q].pc \in AbortPcs \cup {"save"},
                 i \in state[proc[q].state].pending
          PROVE  Somewhere(i)'
      <4>1. q # p
        BY <3>4 DEF BeforeEnd
      <4>2. QED
        BY <1>4, <3>4, <4>1 DEF Somewhere
    <3>5. QED
      BY <2>2, <3>1, <3>2, <3>3, <3>4 DEF Somewhere
  <2>3. QED
    BY <2>1, <2>2
<1>8. QED
  BY <1>2, <1>3, <1>5, <1>6, <1>7 DEF KInv, Control, Data, ProcStep

(* The process that starts turn t works with the slot of that turn. *)
LEMMA Starter ==
  ASSUME KInv, NEW p \in Procs,
         proc[p].pc \in Reserving \cup {"replace", "start", "spawn"}
  PROVE  /\ proc[p] \in ProcRecord /\ Critical(p) /\ LocalOK(p)
         /\ proc[p].turn \in Turns /\ proc[p].turn # NoTurn /\ proc[p].turn # p
         /\ proc[proc[p].turn].pc = "none"
         /\ \A j \in 0..2 : <<proc[p].turn, j>> \in States
         /\ proc[p].pc \notin AbortPcs \cup BeforeEnd
         /\ proc[p].pc \in Reserving => /\ active # NoActive /\ active.task = NoTurn
                                        /\ active.state = proc[p].state /\ active.state \in States
                                        /\ active.state[1] = proc[p].turn
<1>1. proc[p] \in ProcRecord /\ LocalOK(p) /\ Critical(p) /\ proc[p].turn \in Turns \cup {NoTurn}
  BY DEF KInv, TypeOK, Control, Locals, Critical, Reserving, ProcRecord
<1>2. proc[p].pc \notin AbortPcs \cup BeforeEnd
  BY DEF Reserving, AbortPcs, BeforeEnd, LivePcs, RunPcs
<1>3. proc[p].turn # NoTurn /\ proc[proc[p].turn].pc = "none" /\ proc[p].turn # p
  BY <1>1, <1>2 DEF LocalOK, BeforeEnd
<1>4. \A j \in 0..2 : <<proc[p].turn, j>> \in States
  BY <1>1, <1>3 DEF States
<1>5. ASSUME proc[p].pc \in Reserving
      PROVE  /\ active # NoActive /\ active.task = NoTurn
             /\ active.state = proc[p].state /\ active.state \in States
             /\ active.state[1] = proc[p].turn
  <2>1. active.state = <<proc[p].turn, 0>> /\ active.task = NoTurn /\ active.state = proc[p].state
    BY <1>1, <1>5 DEF LocalOK, Own
  <2>2. active.state \in States /\ active.state # NoState
    BY <1>1, <1>3, <2>1, Constants
  <2>3. active # NoActive
    BY <2>2 DEF NoActive
  <2>4. QED
    BY <2>1, <2>2, <2>3
<1>6. QED
  BY <1>1, <1>2, <1>3, <1>4, <1>5

(* The mailbox is drained into the turn about to start. *)
LEMMA DrainForMailStep ==
  ASSUME KInv, Exclusive', NEW p \in Procs, DrainForMail(p)
  PROVE  KInv'
<1> DEFINE r == [proc[p] EXCEPT !.pc = "extend", !.items = Available]
<1>1. proc[p].pc = "drain" /\ proc[p].pc \in Reserving /\ TypeOK /\ Slot /\ TakeAvailable
      /\ UNCHANGED <<active, fresh, settled, ended>> /\ proc \in [Procs -> ProcRecord]
  BY DEF DrainForMail, Reserving, KInv, Control, TypeOK
<1>2. /\ proc[p] \in ProcRecord /\ Critical(p) /\ LocalOK(p)
      /\ proc[p].turn \in Turns /\ proc[p].turn # NoTurn /\ proc[proc[p].turn].pc = "none"
      /\ proc[p].turn # p /\ proc[p].pc \notin AbortPcs \cup BeforeEnd
      /\ active # NoActive /\ active.task = NoTurn /\ active.state = proc[p].state
      /\ active.state \in States /\ active.state[1] = proc[p].turn
  BY <1>1, Starter
<1>3. proc[p].items = {}
  BY <1>1 DEF KInv, Data, Carried
<1>4. /\ state' \in [States -> [pending : SUBSET Items, phase : {"current", "next"}]]
      /\ mailbox' \subseteq mailbox /\ mailbox \ mailbox' \subseteq Available
      /\ Available \subseteq Items
      /\ \A s \in States : state[s].pending \ state'[s].pending \subseteq Available
  BY <1>1, Taken
<1>5. \A x \in States : x # active.state => state'[x] = state[x]
  BY <1>1 DEF TakeAvailable, TypeOK
<1>6. /\ r \in ProcRecord /\ r.pc = "extend" /\ r.items = Available /\ r.turn = proc[p].turn
      /\ r.state = proc[p].state
  BY <1>2, <1>4 DEF ProcRecord, Pcs, StartPcs
<1>7. ProcStep(p, r)
  BY <1>1, <1>2, <1>6 DEF DrainForMail, ProcStep, ProcRecord
<1> HIDE DEF r
<1>8. /\ proc' \in [Procs -> ProcRecord] /\ proc'[p] = r
      /\ \A q \in Procs : q # p => proc'[q] = proc[q]
  BY <1>7, Known
<1>9. TypeOK'
  BY <1>1, <1>4, <1>8 DEF TypeOK
<1>10. Slot'
  BY <1>1, <1>2, <1>6, <1>8 DEF Slot, Reserving
<1>11. LocalOK(p)'
  <2>1. Critical(p)' /\ proc'[proc[p].turn].pc = "none"
    BY <1>2, <1>6, <1>8, Constants DEF Critical
  <2>2. QED
    BY <1>1, <1>2, <1>6, <1>8, <2>1 DEF LocalOK, Own, Reserving, AbortPcs, LivePcs, RunPcs
<1>12. Woken'
  BY <1>1, <1>2 DEF Woken
<1>13. \A x \in States :
          proc[x[1]].pc \in {"save", "release"} => state'[x].pending = state[x].pending
  BY <1>2, <1>5
<1>14. ASSUME NEW i \in Items \ fresh', i \notin fresh, i \notin proc[p].items,
              i \in mailbox \/ (active # NoActive /\ i \in state[active.state].pending)
       PROVE  Somewhere(i)'
  <2>1. CASE i \in Available
    BY <1>6, <1>8, <2>1 DEF Somewhere
  <2>2. CASE i \notin Available
    BY <1>1, <1>2, <1>4, <1>14, <2>2 DEF Somewhere
  <2>3. QED
    BY <2>1, <2>2
<1>15. r.pc \notin BeforeEnd \cup {"save", "release"} /\ r.pc \notin {"recheck", "drain"}
  BY <1>6 DEF BeforeEnd, LivePcs, RunPcs
<1>16. QED
  BY <1>1, <1>2, <1>3, <1>6, <1>7, <1>9, <1>10, <1>11, <1>12, <1>13, <1>14, <1>15, StarterStep

(* What was drained from the mailbox goes into the reserved TurnState. *)
LEMMA ExtendReservedStep ==
  ASSUME KInv, Exclusive', NEW p \in Procs, ExtendReserved(p)
  PROVE  KInv'
<1> DEFINE r == [proc[p] EXCEPT !.pc = "start", !.items = {}]
           s == proc[p].state
<1>1. proc[p].pc = "extend" /\ proc[p].pc \in Reserving /\ TypeOK /\ Slot
      /\ UNCHANGED <<active, mailbox, fresh, settled, ended>> /\ proc \in [Procs -> ProcRecord]
      /\ state' = [state EXCEPT ![s].pending = @ \cup proc[p].items]
  BY DEF ExtendReserved, Reserving, KInv, Control, TypeOK
<1>2. /\ proc[p] \in ProcRecord /\ Critical(p) /\ LocalOK(p)
      /\ proc[p].turn \in Turns /\ proc[p].turn # NoTurn /\ proc[proc[p].turn].pc = "none"
      /\ proc[p].turn # p /\ proc[p].pc \notin AbortPcs \cup BeforeEnd
      /\ active # NoActive /\ active.task = NoTurn /\ active.state = s
      /\ s \in States /\ s[1] = proc[p].turn
  BY <1>1, Starter
<1>3. /\ state' \in [States -> [pending : SUBSET Items, phase : {"current", "next"}]]
      /\ state'[s].pending = state[s].pending \cup proc[p].items
      /\ \A x \in States : x # s => state'[x] = state[x]
  <2>1. state \in [States -> [pending : SUBSET Items, phase : {"current", "next"}]]
        /\ proc[p].items \subseteq Items
    BY <1>1, <1>2 DEF TypeOK, ProcRecord
  <2> DEFINE d == [state[s] EXCEPT !.pending = state[s].pending \cup proc[p].items]
  <2>2. state' = [state EXCEPT ![s] = d]
    BY <1>1, <1>2, <2>1
  <2>3. d \in [pending : SUBSET Items, phase : {"current", "next"}]
        /\ d.pending = state[s].pending \cup proc[p].items
    BY <1>2, <2>1
  <2> HIDE DEF d
  <2>4. QED
    BY <1>2, <2>1, <2>2, <2>3
<1>6. /\ r \in ProcRecord /\ r.pc = "start" /\ r.items = {} /\ r.turn = proc[p].turn
      /\ r.state = s
  BY <1>2 DEF ProcRecord, Pcs, StartPcs
<1>7. ProcStep(p, r)
  BY <1>1, <1>2, <1>6 DEF ExtendReserved, ProcStep, ProcRecord
<1>8. LocalOK(p) /\ Own(p, 0)
  BY <1>1, <1>2 DEF LocalOK
<1> HIDE DEF r, s
<1>9. /\ proc' \in [Procs -> ProcRecord] /\ proc'[p] = r
      /\ \A q \in Procs : q # p => proc'[q] = proc[q]
  BY <1>7, Known
<1>10. TypeOK'
  BY <1>1, <1>3, <1>9 DEF TypeOK
<1>11. Slot'
  BY <1>1, <1>2, <1>6, <1>9 DEF Slot
<1>12. LocalOK(p)'
  <2>1. Critical(p)' /\ proc'[proc[p].turn].pc = "none"
    BY <1>2, <1>6, <1>9, Constants DEF Critical
  <2>2. QED
    BY <1>1, <1>2, <1>6, <1>8, <1>9, <2>1 DEF LocalOK, Own, Reserving, AbortPcs, LivePcs, RunPcs
<1>13. Woken'
  BY <1>1, <1>2 DEF Woken
<1>14. \A x \in States :
          proc[x[1]].pc \in {"save", "release"} => state'[x].pending = state[x].pending
  BY <1>2, <1>3
<1>15. ASSUME NEW i \in Items \ fresh', i \notin fresh,
              i \in mailbox \cup proc[p].items \/ (active # NoActive /\ i \in state[active.state].pending)
       PROVE  Somewhere(i)'
  BY <1>1, <1>2, <1>3, <1>15 DEF Somewhere
<1>16. r.pc \notin BeforeEnd \cup {"save", "release"} /\ r.pc \notin {"recheck", "drain"}
  BY <1>6 DEF BeforeEnd, LivePcs, RunPcs
<1>17. QED
  BY <1>1, <1>2, <1>6, <1>7, <1>10, <1>11, <1>12, <1>13, <1>14, <1>15, <1>16, StarterStep

(* The mailbox goes to the TurnState of the turn that is started. *)
LEMMA StartTaskStep ==
  ASSUME KInv, Exclusive', NEW p \in Procs, StartTask(p)
  PROVE  KInv'
<1> DEFINE r == [proc[p] EXCEPT !.pc = "spawn"]
           s == IF active = NoActive THEN <<proc[p].turn, 1>> ELSE active.state
           old == IF active = NoActive THEN Empty ELSE state[s]
<1>1. proc[p].pc = "start" /\ TypeOK /\ Slot
      /\ UNCHANGED <<fresh, settled, ended>> /\ proc \in [Procs -> ProcRecord]
      /\ active' = [active EXCEPT !.state = s] /\ mailbox' = {}
  BY DEF StartTask, KInv, Control, TypeOK
<1>18. state' = [state EXCEPT ![s] = [old EXCEPT !.pending = old.pending \cup mailbox]]
  BY DEF StartTask
<1>2. /\ proc[p] \in ProcRecord /\ Critical(p) /\ LocalOK(p)
      /\ proc[p].turn \in Turns /\ proc[p].turn # NoTurn /\ proc[proc[p].turn].pc = "none"
      /\ proc[p].turn # p /\ proc[p].pc \notin AbortPcs \cup BeforeEnd
      /\ <<proc[p].turn, 0>> \in States /\ <<proc[p].turn, 1>> \in States
  BY <1>1, Starter, Constants
<1>3. /\ s \in States /\ s[1] = proc[p].turn /\ active.task = NoTurn
      /\ s = <<proc[p].turn, 0>> \/ s = <<proc[p].turn, 1>>
      /\ active # NoActive => s = active.state
  <2>1. CASE active = NoActive
    BY <1>2, <2>1 DEF NoActive
  <2>2. CASE active # NoActive
    BY <1>1, <1>2, <2>2 DEF LocalOK, Own
  <2>3. QED
    BY <2>1, <2>2
<1>4. active' = [state |-> s, task |-> NoTurn]
  BY <1>1, <1>3 DEF TypeOK
<1>5. /\ state' \in [States -> [pending : SUBSET Items, phase : {"current", "next"}]]
      /\ mailbox \subseteq state'[s].pending
      /\ active # NoActive => state[s].pending \subseteq state'[s].pending
      /\ \A x \in States : x # s => state'[x] = state[x]
  <2>1. state \in [States -> [pending : SUBSET Items, phase : {"current", "next"}]]
        /\ mailbox \subseteq Items
    BY <1>1 DEF TypeOK, Items
  <2> DEFINE S == [pending : SUBSET Items, phase : {"current", "next"}]
             e == [old EXCEPT !.pending = old.pending \cup mailbox]
  <2>2. active # NoActive => old = state[s]
    OBVIOUS
  <2>3. old \in S
    <3>1. Empty \in S
      BY DEF Empty
    <3>2. QED
      BY <1>3, <2>1, <3>1
  <2> HIDE DEF old, s
  <2>4. e \in S /\ e.pending = old.pending \cup mailbox
    BY <2>1, <2>3
  <2>5. state' = [state EXCEPT ![s] = e]
    BY <1>18
  <2> HIDE DEF e
  <2>6. QED
    BY <1>3, <2>1, <2>2, <2>3, <2>4, <2>5
<1>6. /\ r \in ProcRecord /\ r.pc = "spawn" /\ r.items = proc[p].items /\ r.turn = proc[p].turn
  BY <1>2 DEF ProcRecord, Pcs, StartPcs
<1>7. ProcStep(p, r)
  BY <1>1, <1>2, <1>6 DEF StartTask, Goto, ProcStep
<1> HIDE DEF r, s
<1>8. active'.state = s /\ active'.task = NoTurn /\ active' # NoActive
  BY <1>3, <1>4, Constants DEF NoActive
<1>9. /\ proc' \in [Procs -> ProcRecord] /\ proc'[p] = r
      /\ \A q \in Procs : q # p => proc'[q] = proc[q]
  BY <1>7, Known
<1>10. TypeOK'
  <2>1. active' \in [state : States \cup {NoState}, task : Turns \cup {NoTurn}]
    BY <1>3, <1>4
  <2>2. QED
    BY <1>1, <1>5, <1>9, <2>1 DEF TypeOK
<1>11. Slot'
  BY <1>3, <1>6, <1>8, <1>9 DEF Slot
<1>12. LocalOK(p)'
  <2>1. Critical(p)' /\ proc'[proc[p].turn].pc = "none"
    BY <1>2, <1>6, <1>9, Constants DEF Critical
  <2>2. QED
    BY <1>2, <1>3, <1>6, <1>8, <1>9, <2>1 DEF LocalOK, Own, Reserving, AbortPcs, LivePcs, RunPcs
<1>13. Woken'
  BY <1>8 DEF Woken
<1>14. \A x \in States :
          proc[x[1]].pc \in {"save", "release"} => state'[x].pending = state[x].pending
  BY <1>2, <1>3, <1>5
<1>15. ASSUME NEW i \in Items \ fresh', i \notin fresh,
              i \in mailbox \cup proc[p].items \/ (active # NoActive /\ i \in state[active.state].pending)
       PROVE  Somewhere(i)'
  BY <1>3, <1>5, <1>6, <1>8, <1>9, <1>15 DEF Somewhere
<1>16. r.pc \notin BeforeEnd \cup {"save", "release"} /\ r.pc \notin {"recheck", "drain"}
  BY <1>6 DEF BeforeEnd, LivePcs, RunPcs
<1>17. QED
  BY <1>1, <1>2, <1>3, <1>6, <1>7, <1>8, <1>10, <1>11, <1>12, <1>13, <1>14, <1>15, <1>16, StarterStep

(* The slot is what it was, and so are its owner and its task. *)
LEMMA SlotKept ==
  ASSUME NEW p, NEW r, ProcStep(p, r), active' = active,
         proc[p].pc \notin LivePcs \cup Reserving \cup {"start", "spawn", "save", "release"}
  PROVE  Slot'
<1>1. /\ TypeOK /\ Slot /\ p \in Procs /\ \A q \in Procs : q # p => proc'[q] = proc[q]
  BY Known
<1>2. Reserved' => \E q \in Procs :
         \/ proc'[q].pc \in Reserving \cup {"start", "spawn"}
         \/ proc'[q].pc \in {"save", "release"} /\ proc'[q].state = active.state
  BY <1>1 DEF Slot, Reserved
<1>3. active.task # NoTurn => proc'[active.task] = proc[active.task]
  BY <1>1, Constants DEF Slot, TypeOK
<1>4. QED
  BY <1>1, <1>2, <1>3 DEF Slot

(* start_task puts the task into the slot. *)
LEMMA StartStep ==
  ASSUME KInv, Exclusive', NEW i \in Users \cup Others, Start(i)
  PROVE  KInv'
<1> DEFINE k == IF i \in Others THEN "other" ELSE "regular"
           r == [Proc("replace") EXCEPT !.turn = NewTurn, !.items = {i} \cap Items, !.kind = k]
<1>1. /\ Unused # {} /\ proc' = [proc EXCEPT ![Loop] = r] /\ proc[Loop].pc = "idle"
      /\ UNCHANGED <<active, state, mailbox, settled, ended>> /\ fresh' = fresh \ {i}
  BY DEF Start, LoopIdle
<1>2. /\ NewTurn \in Turns /\ proc[NewTurn].pc = "none" /\ NewTurn # NoTurn /\ NewTurn # Loop
      /\ Loop \in Procs /\ Loop \notin Turns /\ Turns \subseteq Procs
  BY <1>1, NewTurnIsNew, Constants
<1>3. /\ r \in ProcRecord /\ r.pc = "replace" /\ r.turn = NewTurn /\ r.items = {i} \cap Items
  <2>1. Proc("replace") \in ProcRecord /\ Proc("replace").pc = "replace"
    BY ProcTyped DEF Pcs
  <2>2. k \in {"regular", "other"} /\ {i} \cap Items \in SUBSET Items
    OBVIOUS
  <2> HIDE DEF k
  <2>3. QED
    BY <1>2, <2>1, <2>2 DEF ProcRecord
<1> HIDE DEF r
<1>4. ProcStep(Loop, r)
  BY <1>1, <1>2, <1>3 DEF ProcStep
<1>5. /\ TypeOK /\ Locals /\ Woken /\ proc' \in [Procs -> ProcRecord] /\ proc'[Loop] = r
      /\ \A q \in Procs : q # Loop => proc'[q] = proc[q]
  BY <1>4, Known
<1>6. /\ proc[Loop].pc \notin AbortPcs \cup BeforeEnd \cup LivePcs \cup Reserving
      /\ r.pc \notin BeforeEnd \cup {"save", "release"}
  BY <1>1, <1>3 DEF AbortPcs, BeforeEnd, LivePcs, RunPcs, Reserving
<1>7. TypeOK'
  BY <1>1, <1>5 DEF TypeOK
<1>8. Slot'
  BY <1>1, <1>4, <1>6, SlotKept
<1>9. Critical(Loop)' /\ proc'[NewTurn].pc = "none"
  BY <1>2, <1>3, <1>5 DEF Critical
<1>10. LocalOK(Loop)'
  BY <1>2, <1>3, <1>5, <1>9 DEF LocalOK, Reserving, AbortPcs, LivePcs, RunPcs
<1>11. Woken'
  BY <1>1, <1>5 DEF Woken, AbortPcs
<1>12. ASSUME NEW j \in Items \ fresh',
              \/ j \in fresh \cup mailbox \cup proc[Loop].items
              \/ active # NoActive /\ j \in state[active.state].pending
       PROVE  Somewhere(j)'
  <2>1. proc[Loop].items = {}
    BY <1>1, <1>2, <1>5 DEF KInv, Data, Carried, Locals, LocalOK, Critical
  <2>2. QED
    BY <1>1, <1>2, <1>3, <1>5, <1>12, <2>1 DEF Somewhere
<1>13. QED
  BY <1>1, <1>2, <1>3, <1>4, <1>6, <1>7, <1>8, <1>9, <1>10, <1>11, <1>12, StarterStep

(* A reservation is used, or it is given back with nothing in it. *)
LEMMA RecheckStep ==
  ASSUME KInv, Exclusive', Recheck
  PROVE  KInv'
<1>1. /\ proc[Loop].pc = "recheck" /\ proc[Loop].pc \in Reserving /\ Loop \in Procs
      /\ UNCHANGED <<state, mailbox, settled, ended>> /\ TypeOK /\ Slot
      /\ proc[Loop].items \subseteq Items
  BY Constants DEF Recheck, Reserving, KInv, Control, TypeOK, ProcRecord
<1>2. /\ proc[Loop] \in ProcRecord /\ Critical(Loop) /\ LocalOK(Loop)
      /\ proc[Loop].turn \in Turns /\ proc[Loop].turn # NoTurn
      /\ proc[Loop].turn # Loop /\ proc[proc[Loop].turn].pc = "none"
      /\ proc[Loop].pc \notin AbortPcs \cup BeforeEnd
      /\ active # NoActive /\ active.task = NoTurn /\ active.state = proc[Loop].state
      /\ state[proc[Loop].state].pending = {}
  BY <1>1, Starter DEF KInv, Data, Drained
<1>3. CASE Goto(Loop, "start") /\ UNCHANGED <<active, fresh>>
  <2> DEFINE r == [proc[Loop] EXCEPT !.pc = "start"]
  <2>1. /\ r \in ProcRecord /\ r.pc = "start" /\ r.turn = proc[Loop].turn
        /\ r.items = proc[Loop].items /\ r.state = proc[Loop].state
    BY <1>2 DEF ProcRecord, Pcs, StartPcs
  <2>2. ProcStep(Loop, r)
    BY <1>1, <1>3, <2>1 DEF ProcStep, Goto
  <2> HIDE DEF r
  <2>3. /\ proc' \in [Procs -> ProcRecord] /\ proc'[Loop] = r
        /\ \A q \in Procs : q # Loop => proc'[q] = proc[q]
    BY <2>2, Known
  <2>4. TypeOK'
    BY <1>1, <1>3, <2>3 DEF TypeOK
  <2>5. Slot'
    BY <1>1, <1>2, <1>3, <2>1, <2>3 DEF Slot
  <2>6. Critical(Loop)' /\ proc'[proc[Loop].turn].pc = "none"
    BY <1>2, <2>1, <2>3, Constants DEF Critical
  <2>7. Own(Loop, 0)
    BY <1>1, <1>2 DEF LocalOK
  <2>8. LocalOK(Loop)'
    BY <1>2, <1>3, <2>1, <2>3, <2>6, <2>7 DEF LocalOK, Own, Reserving, AbortPcs, LivePcs, RunPcs
  <2>9. Woken' /\ r.pc \notin BeforeEnd \cup {"save", "release"}
    BY <1>2, <1>3, <2>1 DEF Woken, BeforeEnd, LivePcs, RunPcs
  <2>10. ASSUME NEW j \in Items \ fresh',
                \/ j \in fresh \cup mailbox \cup proc[Loop].items
                \/ active # NoActive /\ j \in state[active.state].pending
         PROVE  Somewhere(j)'
    BY <1>1, <1>3, <2>1, <2>3, <2>10 DEF Somewhere
  <2>11. QED
    BY <1>1, <1>2, <1>3, <2>1, <2>2, <2>4, <2>5, <2>6, <2>8, <2>9, <2>10, StarterStep
<1>4. CASE /\ ClearReserved(proc[Loop].state) /\ fresh' = fresh \cup proc[Loop].items
           /\ proc' = [proc EXCEPT ![Loop] =
                IF mailbox \cap Triggers # {} THEN Proc("wake") ELSE Proc("idle")]
  <2> DEFINE r == IF mailbox \cap Triggers # {} THEN Proc("wake") ELSE Proc("idle")
  <2>1. /\ r \in ProcRecord /\ r.pc = (IF mailbox \cap Triggers # {} THEN "wake" ELSE "idle")
        /\ r.turn = NoTurn /\ r.items = {}
    BY ProcTyped DEF Pcs
  <2>2. ProcStep(Loop, r)
    BY <1>1, <1>4, <2>1 DEF ProcStep
  <2> HIDE DEF r
  <2>3. /\ proc' \in [Procs -> ProcRecord] /\ proc'[Loop] = r
        /\ \A q \in Procs : q # Loop => proc'[q] = proc[q]
    BY <2>2, Known
  <2>4. active' = NoActive /\ active'.task = NoTurn
    BY <1>2, <1>4 DEF ClearReserved, Reserved, NoActive
  <2>5. TypeOK'
    <3>1. active' \in [state : States \cup {NoState}, task : Turns \cup {NoTurn}]
      BY <2>4 DEF NoActive
    <3>2. QED
      BY <1>1, <1>4, <2>3, <3>1 DEF TypeOK
  <2>6. Slot'
    BY <2>4 DEF Slot, Reserved
  <2>7. LocalOK(Loop)'
    BY <2>1, <2>3 DEF LocalOK, Critical, Reserving, AbortPcs, LivePcs, RunPcs
  <2>8. Woken' /\ r.pc \notin BeforeEnd \cup {"save", "release"} /\ r.pc # "recheck"
    BY <1>1, <2>1, <2>3 DEF Woken, BeforeEnd, LivePcs, RunPcs
  <2>9. ASSUME NEW j \in Items \ fresh',
               \/ j \in fresh \cup mailbox \cup proc[Loop].items
               \/ active # NoActive /\ j \in state[active.state].pending
        PROVE  Somewhere(j)'
    BY <1>1, <1>2, <1>4, <2>9 DEF Somewhere
  <2>10. QED
    BY <1>1, <1>2, <2>1, <2>2, <2>4, <2>5, <2>6, <2>7, <2>8, <2>9, StarterStep
<1>5. QED
  BY <1>3, <1>4 DEF Recheck

(* The slot of a turn that is being completed is taken: its input is with   *)
(* the task that completes it.                                              *)
LEMMA ReplaceReservedStep ==
  ASSUME KInv, Exclusive', Replace, active.task = NoTurn
  PROVE  KInv'
<1> DEFINE r == [proc[Loop] EXCEPT !.pc = "start"]
<1>1. /\ proc[Loop].pc = "replace" /\ Loop \in Procs /\ active' = NoActive
      /\ UNCHANGED <<state, mailbox, fresh, settled, ended>> /\ TypeOK /\ Slot /\ Exclusive
      /\ proc' = [proc EXCEPT ![Loop].pc = "start"]
  BY Constants DEF Replace, TakeActive, KInv, Control
<1>2. /\ proc[Loop] \in ProcRecord /\ Critical(Loop) /\ LocalOK(Loop)
      /\ proc[Loop].turn \in Turns /\ proc[Loop].turn # NoTurn
      /\ proc[Loop].turn # Loop /\ proc[proc[Loop].turn].pc = "none"
      /\ proc[Loop].pc \notin AbortPcs \cup BeforeEnd
  BY <1>1, Starter
<1>3. /\ r \in ProcRecord /\ r.pc = "start" /\ r.turn = proc[Loop].turn
      /\ r.items = proc[Loop].items
  BY <1>2 DEF ProcRecord, Pcs, StartPcs
<1>4. ProcStep(Loop, r)
  BY <1>1, <1>3 DEF ProcStep
<1> HIDE DEF r
<1>5. /\ proc' \in [Procs -> ProcRecord] /\ proc'[Loop] = r
      /\ \A q \in Procs : q # Loop => proc'[q] = proc[q]
  BY <1>4, Known
<1>6. active'.task = NoTurn
  BY <1>1 DEF NoActive
<1>7. TypeOK'
  <2>1. active' \in [state : States \cup {NoState}, task : Turns \cup {NoTurn}]
    BY <1>1 DEF NoActive
  <2>2. QED
    BY <1>1, <1>5, <2>1 DEF TypeOK
<1>8. Slot'
  BY <1>1, <1>6 DEF Slot, Reserved
<1>9. Critical(Loop)' /\ proc'[proc[Loop].turn].pc = "none"
  BY <1>2, <1>3, <1>5, Constants DEF Critical
<1>10. LocalOK(Loop)'
  BY <1>1, <1>2, <1>3, <1>5, <1>9 DEF LocalOK, Reserving, AbortPcs, LivePcs, RunPcs
<1>11. Woken' /\ r.pc \notin BeforeEnd \cup {"save", "release"}
  BY <1>1, <1>3, <1>5 DEF Woken, BeforeEnd, LivePcs, RunPcs
<1>12. ASSUME NEW j \in Items \ fresh',
              \/ j \in fresh \cup mailbox \cup proc[Loop].items
              \/ active # NoActive /\ j \in state[active.state].pending
       PROVE  Somewhere(j)'
  <2>1. CASE j \in mailbox \cup proc[Loop].items
    BY <1>1, <1>3, <1>5, <2>1 DEF Somewhere
  <2>2. CASE active # NoActive /\ j \in state[active.state].pending
    <3>1. PICK q \in Procs :
             \/ proc[q].pc \in Reserving \cup {"start", "spawn"}
             \/ proc[q].pc \in {"save", "release"} /\ proc[q].state = active.state
      BY <1>1, <2>2 DEF Slot, Reserved
    <3>2. q # Loop
      BY <1>1, <3>1 DEF Reserving
    <3>3. ~Critical(q)
      BY <1>1, <1>2, <3>2 DEF Exclusive
    <3>4. proc[q].pc \in {"save", "release"} /\ proc[q].state = active.state /\ proc'[q] = proc[q]
      BY <1>5, <3>1, <3>2, <3>3 DEF Critical, Reserving
    <3>5. proc[q].pc = "save"
      BY <2>2, <3>4 DEF KInv, Data, Drained
    <3>6. QED
      BY <1>1, <2>2, <3>4, <3>5 DEF Somewhere
  <2>3. QED
    BY <1>1, <1>12, <2>1, <2>2
<1>13. QED
  BY <1>1, <1>2, <1>3, <1>4, <1>6, <1>7, <1>8, <1>9, <1>10, <1>11, <1>12, StarterStep

-----------------------------------------------------------------------------
(* New input                                                                *)

(* Input comes in without a step of a process. *)
LEMMA QueueStep ==
  ASSUME KInv, UNCHANGED <<active, proc, ended>>, TypeOK', Woken', settled \subseteq settled',
         mailbox \subseteq mailbox',
         \A x \in States : state[x].pending \subseteq state'[x].pending,
         \A x \in States : x # active.state \/ active.task = NoTurn => state'[x] = state[x],
         \A i \in (Items \ fresh') \cap fresh : Somewhere(i)'
  PROVE  KInv'
<1>1. TypeOK /\ Exclusive /\ Slot /\ Tasks /\ Locals /\ Drained /\ Carried /\ Kept
  BY DEF KInv, Control, Data
<1>2. Exclusive' /\ Slot' /\ Carried'
  BY <1>1 DEF Exclusive, Critical, Slot, Reserved, Carried
<1>3. Tasks'
  BY <1>1 DEF Tasks, TaskOK
<1>4. Locals'
  BY <1>1 DEF Locals, LocalOK, Own, Critical
<1>5. Drained'
  <2>1. ASSUME NEW q \in Procs, proc[q].pc \in {"recheck", "release"}
        PROVE  state'[proc[q].state].pending = {}
    <3>1. proc[q].state \in States /\ state[proc[q].state].pending = {} /\ LocalOK(q)
      BY <1>1, <2>1, HeldState DEF Reserving, Drained, Locals
    <3>2. proc[q].state # active.state \/ active.task = NoTurn
      <4>1. CASE proc[q].pc = "recheck"
        BY <3>1, <4>1 DEF LocalOK, Own, Reserving
      <4>2. CASE proc[q].pc = "release"
        <5>1. q \in Turns /\ proc[q].state[1] = q
          BY <1>1, <3>1, <4>2 DEF LocalOK, Tasks, TaskOK
        <5>2. active.task # NoTurn => active.state[1] # q
          BY <1>1, <4>2, PcFacts DEF Slot
        <5>3. QED
          BY <5>1, <5>2
      <4>3. QED
        BY <2>1, <4>1, <4>2
    <3>3. QED
      BY <3>1, <3>2
  <2>2. QED
    BY <2>1 DEF Drained
<1>6. Kept'
  <2> SUFFICES ASSUME NEW i \in Items \ fresh' PROVE Somewhere(i)'
    BY DEF Kept
  <2>1. CASE i \in fresh
    BY <2>1
  <2>2. CASE i \notin fresh
    <3>1. Somewhere(i)
      BY <1>1, <2>2 DEF Kept
    <3>2. active # NoActive => active.state \in States
      BY <1>1 DEF Slot
    <3>3. ASSUME NEW q \in Procs, proc[q].pc \in AbortPcs \cup {"save"} PROVE proc[q].state \in States
      BY <3>3, HeldState
    <3>4. QED
      BY <3>1, <3>2, <3>3 DEF Somewhere
  <2>3. QED
    BY <2>1, <2>2
<1>7. QED
  BY <1>2, <1>3, <1>4, <1>5, <1>6 DEF KInv, Control, Data

(* A message for the task that is active *)
LEMMA PutStep ==
  ASSUME KInv, NEW i \in Items, PutAndAccept(active.state, i), active.task # NoTurn,
         fresh' = fresh \ {i}, UNCHANGED <<active, mailbox, proc, settled, ended>>
  PROVE  KInv'
<1> DEFINE s == active.state
           d == [state[s] EXCEPT !.pending = state[s].pending \cup {i}, !.phase = "current"]
           S == [pending : SUBSET Items, phase : {"current", "next"}]
<1>1. TypeOK /\ active # NoActive /\ s \in States /\ state \in [States -> S] /\ state[s] \in S
  BY DEF KInv, Control, Slot, TypeOK, NoActive
<1>2. state' = [state EXCEPT ![s] = d]
  BY <1>1 DEF PutAndAccept
<1>3. d \in S /\ d.pending = state[s].pending \cup {i}
  BY <1>1
<1> HIDE DEF d
<1>4. /\ state' \in [States -> S] /\ state'[s].pending = state[s].pending \cup {i}
      /\ \A x \in States : x # s => state'[x] = state[x]
  BY <1>1, <1>2, <1>3
<1>5. TypeOK' /\ Woken'
  BY <1>1, <1>4 DEF TypeOK, Woken
<1>6. \A j \in (Items \ fresh') \cap fresh : Somewhere(j)'
  BY <1>1, <1>4 DEF Somewhere
<1>7. QED
  BY <1>1, <1>4, <1>5, <1>6, QueueStep

(* steer_input appends to the running turn. *)
LEMMA SteerStep ==
  ASSUME KInv, NEW i \in Users, Steer(i)
  PROVE  KInv'
BY PutStep DEF Steer, Items

(* Injected items join the turn in the slot, or are recorded at once. *)
LEMMA InjectStep ==
  ASSUME KInv, NEW i \in Injected, ~Reserved, Inject(i)
  PROVE  KInv'
<1>1. i \in Items
  BY DEF Items
<1>2. CASE active # NoActive
  BY <1>1, <1>2, PutStep DEF Inject, Reserved
<1>3. CASE active = NoActive
  <2>1. /\ settled' = settled \cup {i} /\ fresh' = fresh \ {i}
        /\ UNCHANGED <<active, state, mailbox, proc, ended>>
    BY <1>3 DEF Inject
  <2>2. TypeOK /\ Woken
    BY DEF KInv, Data
  <2>3. TypeOK'
    BY <1>1, <2>1, <2>2 DEF TypeOK
  <2>4. Woken'
    BY <2>1, <2>2 DEF Woken
  <2>5. \A j \in (Items \ fresh') \cap fresh : Somewhere(j)'
    BY <2>1 DEF Somewhere
  <2>6. QED
    BY <2>1, <2>3, <2>4, <2>5, QueueStep
<1>4. QED
  BY <1>2, <1>3

(* Mail from another agent arrives. *)
LEMMA DeliverStep ==
  ASSUME KInv, Exclusive', NEW i \in Mail, Deliver(i)
  PROVE  KInv'
<1>1. /\ proc[Loop].pc = "idle" /\ mailbox' = mailbox \cup {i} /\ fresh' = fresh \ {i}
      /\ UNCHANGED <<active, state, settled, ended>> /\ Loop \in Procs /\ TypeOK /\ Woken
      /\ proc[Loop] \in ProcRecord /\ LocalOK(Loop)
  BY Constants DEF Deliver, LoopIdle, KInv, Data, TypeOK, Control, Locals
<1>2. CASE i \in Triggers
  <2> DEFINE r == [proc[Loop] EXCEPT !.pc = "wake"]
  <2>1. proc[Loop].turn = NoTurn /\ proc[Loop].items = {}
    BY <1>1 DEF LocalOK, Critical, KInv, Data, Carried
  <2>2. r \in ProcRecord /\ r.pc = "wake" /\ r.turn = NoTurn /\ r.items = {}
    BY <1>1, <2>1 DEF ProcRecord, Pcs
  <2>3. ProcStep(Loop, r)
    BY <1>1, <1>2, <2>2 DEF Deliver, Goto, ProcStep
  <2> HIDE DEF r
  <2>4. proc'[Loop] = r
    BY <2>3, Known
  <2>5. Woken' /\ mailbox' \subseteq Mail
    BY <1>1, <2>2, <2>4 DEF Woken, TypeOK
  <2>6. QED
    BY <1>1, <2>2, <2>3, <2>5, IdleStep
<1>3. CASE i \notin Triggers
  <2>1. UNCHANGED proc
    BY <1>3 DEF Deliver
  <2>2. TypeOK'
    BY <1>1, <2>1 DEF TypeOK
  <2>3. Woken'
    BY <1>1, <1>3, <2>1 DEF Woken
  <2>4. \A j \in (Items \ fresh') \cap fresh : Somewhere(j)'
    BY <1>1 DEF Somewhere
  <2>5. QED
    BY <1>1, <2>1, <2>2, <2>3, <2>4, QueueStep
<1>4. QED
  BY <1>2, <1>3

(* The task is put into the slot its starter has kept for it. *)
LEMMA SpawnTaskStep ==
  ASSUME KInv, Exclusive', NEW p \in Procs, SpawnTask(p)
  PROVE  KInv'
<1> DEFINE r == [Proc("begin") EXCEPT !.kind = proc[p].kind, !.items = proc[p].items]
<1>1. /\ TypeOK /\ Exclusive /\ Slot /\ Tasks /\ Locals /\ Drained /\ Carried /\ Woken /\ Kept
      /\ proc[p].pc = "spawn"
  BY DEF KInv, Control, Data, SpawnTask
<1>0. PICK t \in Turns : t = proc[p].turn
  BY <1>1, Starter
<1>2. /\ proc[p] \in ProcRecord /\ Critical(p) /\ LocalOK(p) /\ t \in Turns /\ t \in Procs
      /\ t # NoTurn /\ t # p /\ proc[t].pc = "none" /\ LocalOK(t)
      /\ <<t, 0>> \in States /\ <<t, 1>> \in States
  BY <1>0, <1>1, Starter, Constants DEF Locals
<1>3. /\ active.state \in States /\ active.state[1] = t /\ active.task = NoTurn
      /\ active # NoActive
  <2>1. active.task = NoTurn /\ (active.state = <<t, 0>> \/ active.state = <<t, 1>>)
    BY <1>0, <1>1, <1>2 DEF LocalOK, Own
  <2>2. active.state \in States /\ active.state[1] = t
    BY <1>2, <2>1
  <2>3. active.state # NoState
    BY <2>2, Constants
  <2>4. QED
    BY <2>1, <2>2, <2>3 DEF NoActive
<1>4. /\ r \in ProcRecord /\ r.pc = "begin" /\ r.items = proc[p].items /\ r.turn = NoTurn
      /\ r.cancelled = FALSE
  <2>1. Proc("begin") \in ProcRecord /\ Proc("begin").pc = "begin" /\ Proc("begin").turn = NoTurn
        /\ Proc("begin").cancelled = FALSE
    BY DEF Proc, ProcRecord, Pcs, RunPcs
  <2>2. proc[p].kind \in {"regular", "other"} /\ proc[p].items \in SUBSET Items
    BY <1>2 DEF ProcRecord
  <2>3. QED
    BY <2>1, <2>2 DEF ProcRecord
<1>5. /\ active' = [state |-> active.state, task |-> t] /\ state' = state
      /\ UNCHANGED <<mailbox, fresh, settled, ended>>
  BY <1>0, <1>1, <1>3 DEF SpawnTask, TypeOK
<1>6. \A q \in Procs : proc[q].pc \in LivePcs \cup {"save", "release"} => q \in Turns
  BY <1>1 DEF Locals, LocalOK
<1>7. proc' = [q \in Procs |-> IF q = p THEN Rest(p) ELSE IF q = t THEN r ELSE proc[q]]
  <2>1. proc' = [q \in Procs |->
           IF q = p THEN Rest(p) ELSE IF q = t THEN r
           ELSE IF q = active.task THEN Aborted(q) ELSE proc[q]]
    BY <1>0 DEF SpawnTask
  <2> HIDE DEF r
  <2>2. \A q \in Procs : q # active.task
    BY <1>3, Constants
  <2>3. \A q \in Procs :
          (IF q = p THEN Rest(p) ELSE IF q = t THEN r
           ELSE IF q = active.task THEN Aborted(q) ELSE proc[q])
          = (IF q = p THEN Rest(p) ELSE IF q = t THEN r ELSE proc[q])
    BY <1>2, <2>2
  <2>4. QED
    BY <2>1, <2>3
<1>8. /\ Rest(p) \in ProcRecord /\ Rest(p).pc = (IF p \in Turns THEN "end" ELSE "idle")
      /\ Rest(p).turn = NoTurn /\ Rest(p).items = {}
  BY RestTyped
<1> HIDE DEF r
<1>9. /\ proc' \in [Procs -> ProcRecord] /\ proc'[p] = Rest(p) /\ proc'[t] = r
      /\ \A q \in Procs : q # p /\ q # t => proc'[q] = proc[q]
  BY <1>1, <1>2, <1>4, <1>7, <1>8 DEF TypeOK
<1>10. active'.state = active.state /\ active'.task = t /\ active' # NoActive
  BY <1>2, <1>5 DEF NoActive
<1>11. \A q \in Procs : q # p => ~Critical(q)
  BY <1>1, <1>2 DEF Exclusive
<1>12. \A q \in Procs : proc[q].pc \notin AbortPcs
  BY <1>1, <1>11 DEF Critical, AbortPcs
<1>13. proc[t].items = {}
  BY <1>1, <1>2, <1>11 DEF Carried, LocalOK
<1>14. TypeOK'
  <2>1. active' \in [state : States \cup {NoState}, task : Turns \cup {NoTurn}]
    BY <1>2, <1>3, <1>5
  <2>2. QED
    BY <1>1, <1>5, <1>9, <2>1 DEF TypeOK
<1>15. Slot'
  BY <1>2, <1>3, <1>4, <1>9, <1>10 DEF Slot, Reserved, LivePcs, RunPcs
<1>16. Tasks'
  <2>1. TaskOK(t)'
    BY <1>1, <1>2, <1>4, <1>5, <1>9, <1>10 DEF Tasks, TaskOK, BeforeEnd, LivePcs, RunPcs
  <2>2. ASSUME p \in Turns PROVE TaskOK(p)'
    <3>1. ended[p] = 1
      BY <1>1, <1>12, <2>2 DEF Tasks, TaskOK, BeforeEnd, LivePcs, RunPcs
    <3>2. QED
      BY <1>5, <1>8, <1>9, <2>2, <3>1 DEF TaskOK, BeforeEnd, LivePcs, RunPcs
  <2>3. ASSUME NEW u \in Turns, u # t, u # p PROVE TaskOK(u)'
    <3>1. TaskOK(u) /\ proc'[u] = proc[u]
      BY <1>1, <1>9, <2>3, Constants DEF Tasks
    <3>2. proc[u].pc \notin LivePcs
      BY <1>3, <1>12, <3>1, <2>3, Constants DEF TaskOK, AbortPcs
    <3>3. proc[u].pc \notin BeforeEnd => ended[u] = 1
      BY <1>12, <3>1 DEF TaskOK
    <3>4. QED
      BY <1>5, <3>1, <3>2, <3>3 DEF TaskOK
  <2>4. QED
    BY <2>1, <2>2, <2>3 DEF Tasks
<1>17. Locals'
  <2>1. LocalOK(p)'
    BY <1>8, <1>9 DEF LocalOK, Critical, Reserving, AbortPcs, LivePcs, RunPcs
  <2>2. LocalOK(t)'
    BY <1>2, <1>4, <1>9 DEF LocalOK, Critical, Reserving, AbortPcs
  <2>3. ASSUME NEW q \in Procs, q # p, q # t PROVE LocalOK(q)'
    BY <1>1, <1>9, <1>11, <2>3, IdleLocal DEF Locals
  <2>4. QED
    BY <2>1, <2>2, <2>3 DEF Locals
<1>18. Drained'
  BY <1>1, <1>4, <1>5, <1>8, <1>9 DEF Drained
<1>19. Carried'
  BY <1>1, <1>4, <1>8, <1>9 DEF Carried
<1>20. Woken'
  BY <1>10 DEF Woken
<1>21. Kept'
  <2> SUFFICES ASSUME NEW i \in Items \ fresh PROVE Somewhere(i)'
    BY <1>5 DEF Kept
  <2>1. Somewhere(i)
    BY <1>1 DEF Kept
  <2>2. \A q \in Procs : i \in proc[q].items => \E u \in Procs : i \in proc'[u].items
    BY <1>2, <1>4, <1>9, <1>13
  <2>3. \A q \in Procs : proc[q].pc \in AbortPcs \cup {"save"} => proc'[q] = proc[q]
    BY <1>1, <1>2, <1>9, <1>12
  <2>4. QED
    BY <1>5, <1>10, <2>1, <2>2, <2>3 DEF Somewhere
<1>22. QED
  BY <1>14, <1>15, <1>16, <1>17, <1>18, <1>19, <1>20, <1>21 DEF KInv, Control, Data

-----------------------------------------------------------------------------
(* Aborting a turn                                                          *)

(* The process that aborts a turn is the only one, and the slot is empty. *)
LEMMA Aborter ==
  ASSUME KInv, NEW p \in Procs, proc[p].pc \in AbortPcs
  PROVE  /\ proc[p] \in ProcRecord /\ Critical(p) /\ LocalOK(p) /\ p \notin Turns
         /\ active = NoActive /\ active.task = NoTurn
         /\ proc[p].target \in Turns /\ ended[proc[p].target] = 0
         /\ proc[p].state \in States /\ proc[p].state[1] = proc[p].target
         /\ \A q \in Procs : q # p => ~Critical(q) /\ proc[q].pc \notin AbortPcs
         /\ proc[p].turn \in Turns \cup {NoTurn}
         /\ proc[p].turn # NoTurn => proc[proc[p].turn].pc = "none"
         /\ proc[p].items # {} => proc[p].turn # NoTurn
<1>1. proc[p] \in ProcRecord /\ LocalOK(p) /\ Critical(p) /\ proc[p].turn \in Turns \cup {NoTurn}
  BY DEF KInv, TypeOK, Control, Locals, Critical, AbortPcs, ProcRecord
<1>2. \A q \in Procs : q # p => ~Critical(q)
  BY <1>1 DEF KInv, Control, Exclusive
<1>3. \A q \in Procs : ~Critical(q) => proc[q].pc \notin AbortPcs
  BY DEF Critical, AbortPcs
<1>4. proc[p].items # {} => proc[p].turn # NoTurn
  BY DEF KInv, Data, Carried, AbortPcs
<1>5. active.task = NoTurn
  BY <1>1 DEF LocalOK, NoActive
<1>6. QED
  BY <1>1, <1>2, <1>3, <1>4, <1>5 DEF LocalOK

(* Every other turn has ended, or it has no task yet. *)
LEMMA OtherTurns ==
  ASSUME KInv, NEW p \in Procs, proc[p].pc \in AbortPcs, NEW u \in Turns, u # proc[p].target
  PROVE  /\ proc[u].pc \notin LivePcs /\ TaskOK(u)
         /\ proc[u].pc \notin BeforeEnd => ended[u] = 1
<1>1. TaskOK(u) /\ \A q \in Procs : proc[q].pc \in AbortPcs => q = p
  BY Aborter DEF KInv, Control, Tasks
<1>2. active.task # u
  BY Aborter, Constants
<1>3. QED
  BY <1>1, <1>2 DEF TaskOK, AbortPcs

(* The aborted task has stopped; its event is still to be sent. *)
LEMMA AbortTaskStep ==
  ASSUME KInv, Exclusive', NEW p \in Procs, AbortTask(p)
  PROVE  KInv'
<1> DEFINE r == [proc[p] EXCEPT !.pc = "aborted"]
<1>1. /\ TypeOK /\ Exclusive /\ Slot /\ Tasks /\ Locals /\ Drained /\ Carried /\ Woken /\ Kept
      /\ proc[p].pc = "abort" /\ proc[p].pc \in AbortPcs
      /\ UNCHANGED <<active, state, mailbox, fresh, ended>>
  BY DEF KInv, Control, Data, AbortTask, AbortPcs
<1>2. PICK t \in Turns : t = proc[p].target
  BY <1>1, Aborter
<1>3. /\ proc[p] \in ProcRecord /\ Critical(p) /\ LocalOK(p) /\ p \notin Turns /\ p # t
      /\ t \in Procs /\ active = NoActive /\ active.task = NoTurn
      /\ ended[t] = 0 /\ proc[p].state \in States /\ proc[p].state[1] = t
      /\ \A q \in Procs : q # p => ~Critical(q) /\ proc[q].pc \notin AbortPcs
      /\ proc[p].turn \in Turns \cup {NoTurn}
      /\ proc[p].turn # NoTurn => proc[proc[p].turn].pc = "none"
      /\ proc[p].items # {} => proc[p].turn # NoTurn
  BY <1>1, <1>2, Aborter, Constants
<1>4. proc[t].pc \in LivePcs \cup {"end"} /\ LocalOK(t) /\ proc[t] \in ProcRecord
  BY <1>1, <1>2, <1>3 DEF Locals, LocalOK, TypeOK
<1>5. /\ r \in ProcRecord /\ r.pc = "aborted" /\ r.turn = proc[p].turn /\ r.items = proc[p].items
      /\ r.target = t /\ r.state = proc[p].state
  BY <1>2, <1>3 DEF ProcRecord, Pcs
<1>6. /\ Aborted(t) \in ProcRecord /\ Aborted(t).pc = "end" /\ Aborted(t).turn = NoTurn
      /\ Aborted(t).items = {}
  <2>1. CASE proc[t].pc \in LivePcs
    BY <1>3, <2>1, RestTyped DEF Aborted, LivePcs
  <2>2. CASE proc[t].pc = "end"
    <3>1. proc[t].turn = NoTurn
      BY <1>3, <1>4 DEF LocalOK
    <3>2. proc[t].items = {}
      BY <1>1, <1>3, <2>2, <3>1 DEF Carried
    <3>3. QED
      BY <1>4, <2>2, <3>1, <3>2 DEF Aborted, RunPcs
  <2>3. QED
    BY <1>4, <2>1, <2>2
<1>7. proc' = [proc EXCEPT ![t] = Aborted(t), ![p] = r]
  BY <1>1, <1>2, <1>3, <1>6 DEF AbortTask, TypeOK
<1> HIDE DEF r
<1>8. /\ proc' \in [Procs -> ProcRecord] /\ proc'[p] = r /\ proc'[t] = Aborted(t)
      /\ \A q \in Procs : q # p /\ q # t => proc'[q] = proc[q]
  BY <1>1, <1>3, <1>5, <1>6, <1>7 DEF TypeOK
<1>9. /\ settled' \subseteq Items /\ settled \subseteq settled' /\ proc[t].items \subseteq settled'
  <2>1. settled' = settled \cup Unread(t)
    BY <1>2 DEF AbortTask
  <2>2. proc[t].pc # "begin" => proc[t].items = {}
    BY <1>1, <1>3, <1>4 DEF LocalOK, Carried
  <2>3. proc[t].items \subseteq Items /\ settled \subseteq Items
    BY <1>1, <1>4 DEF TypeOK, ProcRecord
  <2>4. QED
    BY <2>1, <2>2, <2>3 DEF Unread
<1>10. TypeOK'
  BY <1>1, <1>8, <1>9 DEF TypeOK
<1>11. Slot'
  BY <1>1, <1>3 DEF Slot, Reserved
<1>12. Tasks'
  <2>1. ASSUME NEW u \in Turns, u # t PROVE TaskOK(u)'
    <3>1. /\ proc[u].pc \notin LivePcs /\ TaskOK(u) /\ proc'[u] = proc[u]
          /\ proc[u].pc \notin BeforeEnd => ended[u] = 1
      BY <1>1, <1>2, <1>3, <1>8, <2>1, OtherTurns, Constants
    <3>2. QED
      BY <1>1, <3>1 DEF TaskOK
  <2>2. TaskOK(t)'
    BY <1>1, <1>3, <1>5, <1>6, <1>8 DEF TaskOK, AbortPcs, BeforeEnd, LivePcs, RunPcs
  <2>3. QED
    BY <2>1, <2>2 DEF Tasks
<1>13. Locals'
  <2>1. LocalOK(t)'
    BY <1>6, <1>8 DEF LocalOK, Critical, Reserving, AbortPcs
  <2>2. LocalOK(p)'
    <3>1. proc[p].turn # NoTurn => proc'[proc[p].turn].pc = "none"
      BY <1>3, <1>4, <1>8, PcFacts, Constants
    <3>2. Critical(p)'
      BY <1>5, <1>8 DEF Critical
    <3>3. QED
      BY <1>1, <1>3, <1>5, <1>6, <1>8, <3>1, <3>2
         DEF LocalOK, Reserving, AbortPcs, LivePcs, RunPcs
  <2>3. ASSUME NEW q \in Procs, q # p, q # t PROVE LocalOK(q)'
    BY <1>1, <1>3, <1>8, <2>3, IdleLocal DEF Locals
  <2>4. QED
    BY <2>1, <2>2, <2>3 DEF Locals
<1>14. Drained' /\ Carried'
  BY <1>1, <1>3, <1>5, <1>6, <1>8 DEF Drained, Carried
<1>15. Woken'
  BY <1>5, <1>8 DEF Woken, AbortPcs
<1>16. Kept'
  <2> SUFFICES ASSUME NEW i \in Items \ fresh, i \notin settled' PROVE Somewhere(i)'
    BY <1>1 DEF Kept, Somewhere
  <2>1. Somewhere(i)
    BY <1>1 DEF Kept
  <2>2. \A q \in Procs : i \in proc[q].items => i \in proc'[q].items
    BY <1>5, <1>8, <1>9
  <2>3. \A q \in Procs : proc[q].pc \in AbortPcs \cup {"save"} =>
          proc'[q].pc \in AbortPcs \cup {"save"} /\ proc'[q].state = proc[q].state
    BY <1>4, <1>5, <1>8, PcFacts DEF AbortPcs
  <2>4. QED
    BY <1>1, <1>9, <2>1, <2>2, <2>3 DEF Somewhere
<1>17. QED
  BY <1>10, <1>11, <1>12, <1>13, <1>14, <1>15, <1>16 DEF KInv, Control, Data

(* What waited for the aborted turn is discarded, and TurnAborted is sent. *)
LEMMA FinishAbortStep ==
  ASSUME KInv, Exclusive', NEW p \in Procs, FinishAbort(p)
  PROVE  KInv'
<1> DEFINE next == IF proc[p].turn # NoTurn THEN "start" ELSE "wake"
           r == [proc[p] EXCEPT !.pc = next, !.target = NoTurn, !.state = NoState]
<1>1. /\ TypeOK /\ Exclusive /\ Slot /\ Tasks /\ Locals /\ Drained /\ Carried /\ Woken /\ Kept
      /\ proc[p].pc = "aborted" /\ proc[p].pc \in AbortPcs
      /\ UNCHANGED <<active, mailbox, fresh>>
  BY DEF KInv, Control, Data, FinishAbort, AbortPcs
<1>2. PICK t \in Turns : t = proc[p].target
  BY <1>1, Aborter
<1>3. PICK s \in States : s = proc[p].state
  BY <1>1, Aborter
<1>4. /\ proc[p] \in ProcRecord /\ Critical(p) /\ LocalOK(p) /\ p \notin Turns /\ p # t
      /\ t \in Procs /\ active = NoActive /\ active.task = NoTurn
      /\ ended[t] = 0 /\ s[1] = t
      /\ proc[p].turn \in Turns \cup {NoTurn}
      /\ proc[p].turn # NoTurn => proc[proc[p].turn].pc = "none"
      /\ proc[p].items # {} => proc[p].turn # NoTurn
  BY <1>1, <1>2, <1>3, Aborter, Constants
<1>5. proc[t].pc = "end"
  BY <1>1, <1>2, <1>4 DEF LocalOK
<1>6. /\ r \in ProcRecord /\ r.pc = next /\ r.turn = proc[p].turn /\ r.items = proc[p].items
      /\ next \in {"start", "wake"}
  <2>1. next \in {"start", "wake"} /\ next \in Pcs
    BY DEF Pcs, StartPcs
  <2> HIDE DEF next
  <2>2. QED
    BY <1>4, <2>1 DEF ProcRecord
<1>7. ProcStep(p, r)
  <2>1. proc \in [Procs -> ProcRecord]
        /\ proc' = [proc EXCEPT ![p].pc = next, ![p].target = NoTurn, ![p].state = NoState]
    BY <1>1 DEF FinishAbort, TypeOK
  <2> HIDE DEF next
  <2>2. proc' = [proc EXCEPT ![p] = r]
    BY <1>4, <2>1 DEF ProcRecord
  <2>3. QED
    BY <1>6, <2>2 DEF ProcStep
<1> HIDE DEF r
<1>8. /\ proc' \in [Procs -> ProcRecord] /\ proc'[p] = r
      /\ \A q \in Procs : q # p => proc'[q] = proc[q]
  BY <1>7, Known
<1>9. /\ ended' = [ended EXCEPT ![t] = @ + 1] /\ settled' = settled \cup state[s].pending
      /\ state' = [state EXCEPT ![s] = Empty]
  BY <1>2, <1>3 DEF FinishAbort
<1>10. ended'[t] = 1 /\ ended' \in [Turns -> Nat] /\ \A u \in Turns : u # t => ended'[u] = ended[u]
  BY <1>1, <1>4, <1>9 DEF TypeOK
<1>11. /\ state' \in [States -> [pending : SUBSET Items, phase : {"current", "next"}]]
       /\ state'[s].pending = {} /\ \A x \in States : x # s => state'[x] = state[x]
       /\ settled' \subseteq Items
  <2>1. Empty \in [pending : SUBSET Items, phase : {"current", "next"}] /\ Empty.pending = {}
    BY DEF Empty
  <2>2. QED
    BY <1>1, <1>9, <2>1 DEF TypeOK
<1>12. TypeOK'
  BY <1>1, <1>8, <1>10, <1>11 DEF TypeOK
<1>13. Slot'
  BY <1>1, <1>4 DEF Slot, Reserved
<1>14. Tasks'
  <2>1. ASSUME NEW u \in Turns, u # t PROVE TaskOK(u)'
    <3>1. /\ proc[u].pc \notin LivePcs /\ TaskOK(u) /\ proc'[u] = proc[u]
          /\ proc[u].pc \notin BeforeEnd => ended[u] = 1
      BY <1>1, <1>2, <1>4, <1>8, <2>1, OtherTurns, Constants
    <3>2. QED
      BY <1>10, <2>1, <3>1 DEF TaskOK
  <2>2. TaskOK(t)'
    BY <1>4, <1>5, <1>8, <1>10 DEF TaskOK, AbortPcs, BeforeEnd, LivePcs, RunPcs
  <2>3. QED
    BY <2>1, <2>2 DEF Tasks
<1>15. Locals'
  <2>1. proc[p].turn # NoTurn => proc'[proc[p].turn].pc = "none"
    BY <1>4, <1>8, Constants
  <2>2. proc[p].turn # NoTurn <=> Critical(p)'
    BY <1>6, <1>8 DEF Critical
  <2>3. LocalOK(p)'
    BY <1>1, <1>4, <1>6, <1>8, <2>1, <2>2 DEF LocalOK, Reserving, AbortPcs, LivePcs, RunPcs
  <2>4. QED
    BY <1>4, <1>7, <2>3, OtherLocals DEF Locals
<1>16. ASSUME NEW q \in Procs, q # p, proc[q].pc \in AbortPcs \cup Reserving \cup {"save", "release"}
       PROVE  proc'[q] = proc[q] /\ proc[q].state \in States /\ proc[q].state # s
  <2>1. /\ proc[q].state \in States /\ proc'[q] = proc[q]
        /\ proc[proc[q].state[1]].pc \in {"save", "release"}
    BY <1>4, <1>7, <1>16, HeldByOthers
  <2>2. QED
    BY <1>4, <1>5, <2>1
<1>17. Drained'
  <2>1. ASSUME NEW q \in Procs, proc'[q].pc \in {"recheck", "release"}
        PROVE  state'[proc'[q].state].pending = {}
    <3>1. q # p
      BY <1>6, <1>8, <2>1
    <3>2. QED
      BY <1>1, <1>8, <1>11, <1>16, <2>1, <3>1 DEF Drained, Reserving
  <2>2. QED
    BY <2>1 DEF Drained
<1>18. Carried' /\ Woken'
  BY <1>1, <1>4, <1>6, <1>8 DEF Carried, Woken
<1>19. Kept'
  <2> SUFFICES ASSUME NEW i \in Items \ fresh, i \notin settled' PROVE Somewhere(i)'
    BY <1>1 DEF Kept, Somewhere
  <2>1. Somewhere(i) /\ i \notin settled /\ i \notin state[s].pending
    BY <1>1, <1>9 DEF Kept
  <2>2. \A q \in Procs : i \in proc[q].items => i \in proc'[q].items
    BY <1>6, <1>8
  <2>3. ASSUME NEW q \in Procs, proc[q].pc \in AbortPcs \cup {"save"},
               i \in state[proc[q].state].pending
        PROVE  proc'[q] = proc[q] /\ i \in state'[proc[q].state].pending
    <3>1. q # p
      BY <1>3, <2>1, <2>3
    <3>2. QED
      BY <1>11, <1>16, <2>3, <3>1
  <2>4. QED
    BY <1>1, <1>4, <2>1, <2>2, <2>3 DEF Somewhere
<1>20. QED
  BY <1>12, <1>13, <1>14, <1>15, <1>17, <1>18, <1>19 DEF KInv, Control, Data

(* The task of the slot is cancelled, and p is going to abort it. *)
LEMMA TakeTaskStep ==
  ASSUME KInv, Exclusive', NEW p \in Procs, NEW pc, TakeActive(p, pc), active.task # NoTurn,
         p \notin Turns, proc[p].pc \in {"idle", "replace"},
         UNCHANGED <<state, mailbox, fresh, settled, ended>>
  PROVE  KInv'
<1> DEFINE r == [proc[p] EXCEPT !.pc = "abort", !.target = active.task, !.state = active.state]
<1>1. /\ TypeOK /\ Exclusive /\ Slot /\ Tasks /\ Locals /\ Drained /\ Carried /\ Woken /\ Kept
      /\ active' = NoActive /\ active'.task = NoTurn
  BY DEF KInv, Control, Data, TakeActive, NoActive
<1>2. PICK t \in Turns : t = active.task
  BY <1>1 DEF TypeOK
<1>3. PICK s \in States : s = active.state
  BY <1>1 DEF Slot, NoActive
<1>4. /\ t \in Procs /\ p # t /\ proc[p] \in ProcRecord /\ proc[t] \in ProcRecord
      /\ proc[t].pc \in LivePcs /\ s[1] = t /\ active # NoActive
      /\ proc[p].turn \in Turns \cup {NoTurn} /\ LocalOK(p)
  BY <1>1, <1>2, <1>3, Constants DEF Slot, TypeOK, ProcRecord, NoActive, Locals
<1>5. ended[t] = 0 /\ proc[t].turn = NoTurn
  BY <1>4, LiveTask
<1> DEFINE c == [proc[t] EXCEPT !.cancelled = TRUE]
<1>6. /\ c \in ProcRecord /\ c.pc = proc[t].pc /\ c.turn = NoTurn /\ c.items = proc[t].items
      /\ c.cancelled = TRUE /\ c.state = proc[t].state
  BY <1>4, <1>5 DEF ProcRecord
<1>7. /\ r \in ProcRecord /\ r.pc = "abort" /\ r.turn = proc[p].turn /\ r.items = proc[p].items
      /\ r.target = t /\ r.state = s
  BY <1>2, <1>3, <1>4 DEF ProcRecord, Pcs
<1>8. proc' = [proc EXCEPT ![t] = c, ![p] = r]
  <2>1. proc' = [proc EXCEPT ![t].cancelled = TRUE, ![p].pc = "abort", ![p].target = t, ![p].state = s]
    BY <1>2, <1>3 DEF TakeActive
  <2>2. proc \in [Procs -> ProcRecord]
    BY <1>1 DEF TypeOK
  <2>3. QED
    BY <1>2, <1>3, <1>4, <2>1, <2>2 DEF ProcRecord
<1> HIDE DEF r, c
<1>9. /\ proc' \in [Procs -> ProcRecord] /\ proc'[p] = r /\ proc'[t] = c
      /\ \A q \in Procs : q # p /\ q # t => proc'[q] = proc[q]
  BY <1>1, <1>4, <1>6, <1>7, <1>8 DEF TypeOK
<1>10. \A q \in Procs : q # p => proc'[q].pc = proc[q].pc
  BY <1>6, <1>9
<1>11. Critical(p)' /\ \A q \in Procs : q # p => ~Critical(q)
  <2>1. Critical(p)'
    BY <1>7, <1>9 DEF Critical
  <2>2. \A q \in Procs : q # p => (Critical(q)' <=> Critical(q))
    BY <1>10 DEF Critical
  <2>3. QED
    BY <2>1, <2>2 DEF Exclusive
<1>12. \A q \in Procs : proc[q].pc \notin AbortPcs
  BY <1>1, <1>4 DEF Locals, LocalOK
<1>13. TypeOK'
  <2>1. active' \in [state : States \cup {NoState}, task : Turns \cup {NoTurn}]
    BY <1>1 DEF NoActive
  <2>2. QED
    BY <1>1, <1>9, <2>1 DEF TypeOK
<1>14. Slot'
  BY <1>1 DEF Slot, Reserved
<1>15. Tasks'
  <2>1. ASSUME NEW u \in Turns, u # t PROVE TaskOK(u)'
    <3>1. TaskOK(u) /\ proc'[u] = proc[u]
      BY <1>1, <1>9, <2>1, Constants DEF Tasks
    <3>2. proc[u].pc \notin LivePcs
      BY <1>2, <1>12, <2>1, <3>1 DEF TaskOK, AbortPcs
    <3>3. proc[u].pc \notin BeforeEnd => ended[u] = 1
      BY <1>12, <3>1 DEF TaskOK
    <3>4. QED
      BY <3>1, <3>2, <3>3 DEF TaskOK
  <2>2. TaskOK(t)'
    BY <1>4, <1>5, <1>6, <1>7, <1>9, PcFacts DEF TaskOK
  <2>3. QED
    BY <2>1, <2>2 DEF Tasks
<1>16. Locals'
  <2>1. LocalOK(t)'
    BY <1>4, <1>6, <1>9, PcFacts DEF LocalOK, Critical, Reserving, AbortPcs, LivePcs, RunPcs
  <2>2. LocalOK(p)'
    <3>1. proc[p].turn # NoTurn => proc'[proc[p].turn].pc = "none"
      BY <1>4, <1>10, Constants DEF LocalOK
    <3>2. QED
      BY <1>1, <1>4, <1>5, <1>6, <1>7, <1>9, <1>11, <3>1
         DEF LocalOK, Reserving, AbortPcs, LivePcs, RunPcs
  <2>3. ASSUME NEW q \in Procs, q # p, q # t PROVE LocalOK(q)'
    BY <1>1, <1>9, <1>11, <2>3, IdleLocal DEF Locals
  <2>4. QED
    BY <2>1, <2>2, <2>3 DEF Locals
<1>17. Drained' /\ Carried'
  BY <1>1, <1>5, <1>6, <1>7, <1>9 DEF Drained, Carried
<1>18. Woken'
  BY <1>7, <1>9 DEF Woken, AbortPcs
<1>19. Kept'
  <2> SUFFICES ASSUME NEW i \in Items \ fresh PROVE Somewhere(i)'
    BY DEF Kept
  <2>1. Somewhere(i)
    BY <1>1 DEF Kept
  <2>2. \A q \in Procs : i \in proc[q].items => i \in proc'[q].items
    BY <1>6, <1>7, <1>9
  <2>3. \A q \in Procs : proc[q].pc \in AbortPcs \cup {"save"} => proc'[q] = proc[q]
    BY <1>4, <1>9, <1>12, PcFacts
  <2>4. i \in state[s].pending => Somewhere(i)'
    BY <1>7, <1>9 DEF Somewhere, AbortPcs
  <2>5. QED
    BY <1>3, <2>1, <2>2, <2>3, <2>4 DEF Somewhere
<1>20. QED
  BY <1>13, <1>14, <1>15, <1>16, <1>17, <1>18, <1>19 DEF KInv, Control, Data

-----------------------------------------------------------------------------
(* The theorems                                                             *)

(* The invariant is inductive. *)
LEMMA KInvStep == KInv /\ [CalmNext]_vars => KInv'
<1> SUFFICES ASSUME KInv, [CalmNext]_vars PROVE KInv'
  OBVIOUS
<1>1. CASE UNCHANGED vars
  <2>1. UNCHANGED <<active, state, mailbox, proc, fresh, settled, ended>>
    BY <1>1 DEF vars
  <2>2. TypeOK /\ Woken
    BY DEF KInv, Data
  <2>3. TypeOK' /\ Woken'
    BY <2>1, <2>2 DEF TypeOK, Woken
  <2>4. QED
    BY <2>1, <2>3, QueueStep
<1>2. ASSUME Operation, Exclusive' PROVE KInv'
  BY <1>2, SteerStep, StartIfIdleStep, StartStep, DeliverStep DEF Operation
<1>3. ASSUME ~Reserved, Interrupt, Exclusive' PROVE KInv'
  BY <1>3, TakeTaskStep, Constants DEF Interrupt, LoopIdle, Reserved
<1>4. ASSUME NEW i \in Injected, ~Reserved, Inject(i) PROVE KInv'
  BY <1>4, InjectStep
<1>5. ASSUME NEW t \in Turns, GuardianAborts(t), Exclusive' PROVE KInv'
  BY <1>5, TakeTaskStep, Constants DEF GuardianAborts
<1>6. ASSUME NEW p \in Procs, Step(p), Exclusive' PROVE KInv'
  <2>1. CASE Starting(p)
    BY <1>6, <2>1, WakeStep, ReserveForMailStep, DrainForMailStep, ExtendReservedStep,
       StartTaskStep, SpawnTaskStep DEF Starting
  <2>2. CASE Aborting(p)
    BY <1>6, <2>2, AbortTaskStep, FinishAbortStep DEF Aborting
  <2>3. CASE p \in Turns /\ Running(p)
    BY <1>6, <2>3, TaskSteps, FlushStep, FinishStep, SaveStep, ReleaseStep DEF Running
  <2>4. CASE Recheck
    BY <1>6, <2>4, RecheckStep
  <2>5. CASE Replace
    <3>1. CASE active.task = NoTurn
      BY <1>6, <2>5, <3>1, ReplaceReservedStep
    <3>2. CASE active.task # NoTurn
      BY <1>6, <2>5, <3>2, TakeTaskStep, Constants DEF Replace
    <3>3. QED
      BY <3>1, <3>2
  <2>6. QED
    BY <1>6, <2>1, <2>2, <2>3, <2>4, <2>5 DEF Step
<1>7. QED
  BY <1>1, <1>2, <1>3, <1>4, <1>5, <1>6 DEF CalmNext, CalmStep

(* The invariant holds always. *)
LEMMA Inductive == CalmSpec => []KInv
<1>1. QED
  BY KInvInit, KInvStep, PTL DEF CalmSpec

(* start_task finds nobody's task in the slot it puts its own task into. *)
THEOREM SlotIsFreeHolds == CalmSpec => []SlotIsFree
<1>1. KInv => SlotIsFree
  BY DEF KInv, Control, Locals, LocalOK, Own, SlotIsFree, NoActive
<1>2. QED
  BY <1>1, Inductive, PTL

(* A task that works and has not been cancelled is the one in the slot; so *)
(* an interrupt finds it, and two of them never run at once.                *)
THEOREM RunningIsTrackedHolds == CalmSpec => []RunningIsTracked
<1>1. KInv => RunningIsTracked
  BY PcFacts DEF KInv, Control, Tasks, TaskOK, RunningIsTracked
<1>2. QED
  BY <1>1, Inductive, PTL

(* A turn sends one terminal event, and its task has stopped by then. *)
THEOREM EndedIsStoppedHolds == CalmSpec => []EndedIsStopped
<1>1. ASSUME KInv, NEW t \in Turns PROVE ended[t] <= 1 /\ (ended[t] = 1 => proc[t].pc \notin RunPcs)
  <2>1. TaskOK(t)
    BY <1>1 DEF KInv, Control, Tasks
  <2>2. ended[t] <= 1
    BY <2>1 DEF TaskOK
  <2>3. proc[t].pc \in RunPcs => ended[t] = 0
    BY <2>1, PcFacts DEF TaskOK
  <2>4. QED
    BY <2>2, <2>3
<1>2. KInv => EndedIsStopped
  BY <1>1 DEF EndedIsStopped
<1>3. QED
  BY <1>2, Inductive, PTL

(* When nothing is left to do the slot is free, every turn has told its    *)
(* client that it ended, and no accepted message is lost.                   *)
THEOREM NothingStrandedHolds == CalmSpec => []NothingStranded
<1>1. ASSUME KInv, AtRest
      PROVE  /\ active = NoActive /\ \A t \in Turns : proc[t].pc = "end" => ended[t] = 1
             /\ Items \ fresh \subseteq settled \cup (mailbox \ Triggers)
  <2>1. \A p \in Procs : proc[p].pc \in {"none", "idle", "end"}
    BY <1>1 DEF AtRest
  <2>2. \A p \in Procs : /\ proc[p].pc \notin LivePcs \cup Reserving \cup AbortPcs
                         /\ proc[p].pc \notin {"start", "spawn", "save", "release", "wake", "reserve"}
                         /\ proc[p].pc # "begin" /\ ~Critical(p)
    BY <2>1 DEF LivePcs, RunPcs, Reserving, AbortPcs, Critical
  <2>3. active = NoActive
    <3>1. active.task \in Turns \cup {NoTurn}
      BY <1>1 DEF KInv, TypeOK
    <3>2. active.task = NoTurn
      BY <1>1, <2>2, <3>1, Constants DEF KInv, Control, Slot
    <3>3. QED
      BY <1>1, <2>2, <3>2 DEF KInv, Control, Slot, Reserved
  <2>4. ASSUME NEW t \in Turns, proc[t].pc = "end" PROVE ended[t] = 1
    BY <1>1, <2>2, <2>4 DEF KInv, Control, Tasks, TaskOK, BeforeEnd, LivePcs, RunPcs
  <2>5. mailbox \cap Triggers = {}
    BY <1>1, <2>2, <2>3 DEF KInv, Data, Woken
  <2>6. \A p \in Procs : proc[p].items = {}
    BY <1>1, <2>2 DEF KInv, Data, Carried, Control, Locals, LocalOK
  <2>7. ASSUME NEW i \in Items \ fresh PROVE i \in settled \cup mailbox
    <3>1. Somewhere(i)
      BY <1>1 DEF KInv, Data, Kept
    <3>2. QED
      BY <2>2, <2>3, <2>6, <3>1 DEF Somewhere
  <2>8. QED
    BY <2>3, <2>4, <2>5, <2>7
<1>2. KInv => NothingStranded
  BY <1>1 DEF NothingStranded
<1>3. QED
  BY <1>2, Inductive, PTL

-----------------------------------------------------------------------------
(* A message is in one place, in every behaviour                            *)

(* What a process needs for its next step. *)
GoodProc(r) ==
  /\ r \in ProcRecord
  /\ r.pc \in Reserving \cup {"replace", "start", "spawn"} => r.turn \in Turns
  /\ r.pc \in Reserving \cup AbortPcs \cup {"save", "release"} => r.state \in States
  /\ r.pc \in AbortPcs => r.target \in Turns
GoodProcs == proc \in [Procs -> ProcRecord] /\ \A p \in Procs : GoodProc(proc[p])
GoodSlot == active = NoActive \/ active.state \in States
PInv == TypeOK /\ GoodProcs /\ GoodSlot /\ OnePlace

(* The set m is put into the history; it is nowhere else then. *)
LEMMA MoveToSettled ==
  ASSUME OnePlace, NEW m,
         settled' \subseteq settled \cup m, fresh' \subseteq fresh \ m, mailbox' \subseteq mailbox \ m,
         \A s \in States : state'[s].pending \subseteq state[s].pending \ m,
         \A p \in Procs : proc'[p].items \subseteq proc[p].items \ m
  PROVE  OnePlace'
BY DEF OnePlace

(* The other places a message may go to: it is refused, *)
LEMMA MoveToFresh ==
  ASSUME OnePlace, NEW m,
         settled' \subseteq settled \ m, fresh' \subseteq fresh \cup m, mailbox' \subseteq mailbox \ m,
         \A s \in States : state'[s].pending \subseteq state[s].pending \ m,
         \A p \in Procs : proc'[p].items \subseteq proc[p].items \ m
  PROVE  OnePlace'
BY DEF OnePlace

(* It comes in as mail, *)
LEMMA MoveToMailbox ==
  ASSUME OnePlace, NEW m,
         settled' \subseteq settled \ m, fresh' \subseteq fresh \ m, mailbox' \subseteq mailbox \cup m,
         \A s \in States : state'[s].pending \subseteq state[s].pending \ m,
         \A p \in Procs : proc'[p].items \subseteq proc[p].items \ m
  PROVE  OnePlace'
BY DEF OnePlace

(* waits for a turn, *)
LEMMA MoveToState ==
  ASSUME OnePlace, NEW m, NEW s \in States,
         settled' \subseteq settled \ m, fresh' \subseteq fresh \ m, mailbox' \subseteq mailbox \ m,
         state'[s].pending \subseteq state[s].pending \cup m,
         \A r \in States : r # s => state'[r].pending \subseteq state[r].pending \ m,
         \A p \in Procs : proc'[p].items \subseteq proc[p].items \ m
  PROVE  OnePlace'
BY DEF OnePlace

(* or is carried by a process. *)
LEMMA MoveToProc ==
  ASSUME OnePlace, NEW m, NEW p \in Procs,
         settled' \subseteq settled \ m, fresh' \subseteq fresh \ m, mailbox' \subseteq mailbox \ m,
         \A s \in States : state'[s].pending \subseteq state[s].pending \ m,
         proc'[p].items \subseteq proc[p].items \cup m,
         \A q \in Procs : q # p => proc'[q].items \subseteq proc[q].items \ m
  PROVE  OnePlace'
BY DEF OnePlace

(* Nothing has been submitted at first. *)
LEMMA PInvInit == Init => PInv
<1> SUFFICES ASSUME Init PROVE PInv
  OBVIOUS
<1>1. KInv
  BY KInvInit
<1>2. \A p \in Procs : proc[p] = Proc(IF p \in Turns THEN "none" ELSE "idle")
  BY DEF Init
<1>3. \A p \in Procs : proc[p].pc \in {"none", "idle"} /\ proc[p].items = {}
  BY <1>2, ProcTyped DEF Pcs
<1>4. GoodProcs
  BY <1>1, <1>3 DEF GoodProcs, GoodProc, KInv, TypeOK, Reserving, AbortPcs
<1>5. OnePlace
  BY <1>3 DEF OnePlace, Init, Empty
<1>6. QED
  BY <1>1, <1>4, <1>5 DEF PInv, GoodSlot, KInv, Init

(* A process that holds no turn, no TurnState and no target for its next step. *)
Plain == Pcs \ (Reserving \cup AbortPcs \cup {"replace", "start", "spawn", "save", "release"})

(* Such a process needs nothing. *)
LEMMA PlainGood ==
  /\ \A r \in ProcRecord : r.pc \in Plain => GoodProc(r)
  /\ RunPcs \cup {"finish", "none", "wake", "reserve", "idle", "end"} \subseteq Plain
  /\ \A p : GoodProc(Rest(p)) /\ Rest(p).items = {} /\ Rest(p).pc \in {"idle", "end"}
<1>1. \A r \in ProcRecord : r.pc \in Plain => GoodProc(r)
  BY DEF Plain, GoodProc
<1>2. RunPcs \cup {"finish", "none", "wake", "reserve", "idle", "end"} \subseteq Plain
  BY DEF Plain, Pcs, RunPcs, StartPcs, Reserving, AbortPcs
<1>3. "idle" \in Pcs /\ "end" \in Pcs
  BY DEF Pcs
<1>4. \A p : Rest(p) \in ProcRecord /\ Rest(p).items = {} /\ Rest(p).pc \in {"idle", "end"}
  BY <1>3, ProcTyped DEF Rest
<1>5. QED
  BY <1>1, <1>2, <1>4

(* A step of one process. *)
LEMMA OneGood ==
  ASSUME GoodProcs, NEW p \in Procs, NEW r, GoodProc(r), proc' = [proc EXCEPT ![p] = r]
  PROVE  /\ GoodProcs' /\ proc'[p] = r /\ proc' \in [Procs -> ProcRecord]
         /\ \A q \in Procs : q # p => proc'[q] = proc[q]
<1>1. r \in ProcRecord /\ proc \in [Procs -> ProcRecord]
  BY DEF GoodProc, GoodProcs
<1>2. /\ proc' \in [Procs -> ProcRecord] /\ proc'[p] = r
      /\ \A q \in Procs : q # p => proc'[q] = proc[q]
  BY <1>1
<1>3. QED
  BY <1>2 DEF GoodProcs

(* The same fields at another place. *)
LEMMA GotoGood ==
  ASSUME NEW x, GoodProc(x), NEW pc \in Pcs,
         pc \in Reserving \cup {"replace", "start", "spawn"} => x.turn \in Turns,
         pc \in Reserving \cup AbortPcs \cup {"save", "release"} => x.state \in States,
         pc \in AbortPcs => x.target \in Turns
  PROVE  /\ GoodProc([x EXCEPT !.pc = pc]) /\ [x EXCEPT !.pc = pc].items = x.items
         /\ [x EXCEPT !.pc = pc].pc = pc
<1>1. x \in ProcRecord
  BY DEF GoodProc
<1> DEFINE y == [x EXCEPT !.pc = pc]
<1>2. /\ y \in ProcRecord /\ y.pc = pc /\ y.items = x.items /\ y.turn = x.turn
      /\ y.state = x.state /\ y.target = x.target
  BY <1>1 DEF ProcRecord
<1> HIDE DEF y
<1>3. GoodProc(y)
  BY <1>2 DEF GoodProc
<1>4. QED
  BY <1>2, <1>3 DEF y

(* Going somewhere. *)
LEMMA GotoStep ==
  ASSUME GoodProcs, NEW p \in Procs, NEW pc \in Pcs, Goto(p, pc),
         pc \in Reserving \cup {"replace", "start", "spawn"} => proc[p].turn \in Turns,
         pc \in Reserving \cup AbortPcs \cup {"save", "release"} => proc[p].state \in States,
         pc \in AbortPcs => proc[p].target \in Turns
  PROVE  /\ GoodProcs' /\ proc' \in [Procs -> ProcRecord] /\ proc'[p].pc = pc
         /\ \A q \in Procs : proc'[q].items = proc[q].items /\ (q # p => proc'[q] = proc[q])
<1> DEFINE r == [proc[p] EXCEPT !.pc = pc]
<1>1. GoodProc(proc[p]) /\ proc' = [proc EXCEPT ![p] = r]
  BY DEF GoodProcs, Goto
<1>2. GoodProc(r) /\ r.items = proc[p].items /\ r.pc = pc
  BY <1>1, GotoGood
<1> HIDE DEF r
<1>3. QED
  BY <1>1, <1>2, OneGood

(* Leaving. *)
LEMMA LeaveStep ==
  ASSUME GoodProcs, NEW p \in Procs, Leave(p)
  PROVE  /\ GoodProcs' /\ proc' \in [Procs -> ProcRecord] /\ proc'[p].items = {}
         /\ \A q \in Procs : q # p => proc'[q] = proc[q]
BY OneGood, PlainGood DEF Leave

(* What the queue offers is taken from where it was. *)
LEMMA TakenPlaces ==
  ASSUME TypeOK, GoodSlot, OnePlace, TakeAvailable
  PROVE  /\ state' \in [States -> [pending : SUBSET Items, phase : {"current", "next"}]]
         /\ mailbox' \subseteq mailbox \ Available /\ Available \subseteq Items
         /\ \A s \in States : state'[s].pending \subseteq state[s].pending \ Available
         /\ Available \cap (fresh \cup settled) = {}
         /\ \A p \in Procs : Available \cap proc[p].items = {}
<1> DEFINE S == [pending : SUBSET Items, phase : {"current", "next"}]
<1>1. state \in [States -> S] /\ mailbox \subseteq Items
  BY DEF TypeOK, Items
<1>2. CASE active = NoActive
  BY <1>1, <1>2 DEF TakeAvailable, Available, OnePlace
<1>3. CASE active # NoActive /\ ~Accepts(active.state)
  BY <1>1, <1>3 DEF TakeAvailable, Available
<1>4. CASE active # NoActive /\ Accepts(active.state)
  <2> DEFINE s == active.state
  <2>1. s \in States /\ state[s] \in S
    BY <1>1, <1>4 DEF GoodSlot
  <2>2. state' = [state EXCEPT ![s] = [state[s] EXCEPT !.pending = {}]] /\ mailbox' = {}
    BY <1>4 DEF TakeAvailable
  <2>3. [state[s] EXCEPT !.pending = {}] \in S /\ [state[s] EXCEPT !.pending = {}].pending = {}
    BY <2>1
  <2>4. Available = state[s].pending \cup mailbox
    BY <1>4 DEF Available
  <2>5. state' \in [States -> S] /\ state'[s].pending = {}
        /\ \A r \in States : r # s => state'[r] = state[r]
    BY <1>1, <2>1, <2>2, <2>3
  <2>6. \A r \in States : r # s => state[r].pending \cap Available = {}
    BY <2>1, <2>4 DEF OnePlace
  <2>7. QED
    BY <1>1, <2>1, <2>2, <2>4, <2>5, <2>6 DEF OnePlace
<1>5. QED
  BY <1>2, <1>3, <1>4

(* Nothing moves. *)
LEMMA StayStep ==
  ASSUME PInv, GoodProcs', active' \in [state : States \cup {NoState}, task : Turns \cup {NoTurn}],
         GoodSlot', UNCHANGED <<mailbox, fresh, settled, ended>>,
         state' \in [States -> [pending : SUBSET Items, phase : {"current", "next"}]],
         \A s \in States : state'[s].pending \subseteq state[s].pending,
         \A q \in Procs : proc'[q].items \subseteq proc[q].items
  PROVE  PInv'
<1>1. TypeOK /\ OnePlace
  BY DEF PInv
<1>2. TypeOK'
  BY <1>1 DEF TypeOK, GoodProcs
<1>3. OnePlace'
  BY <1>1 DEF OnePlace
<1>4. QED
  BY <1>2, <1>3 DEF PInv

(* Something is put into the history. *)
LEMMA SettleStep ==
  ASSUME PInv, GoodProcs', UNCHANGED <<active, fresh>>, NEW m, m \subseteq Items,
         settled' = settled \cup m, mailbox' \subseteq mailbox \ m, ended' \in [Turns -> Nat],
         m \cap fresh = {},
         state' \in [States -> [pending : SUBSET Items, phase : {"current", "next"}]],
         \A s \in States : state'[s].pending \subseteq state[s].pending \ m,
         \A q \in Procs : proc'[q].items \subseteq proc[q].items \ m
  PROVE  PInv'
<1>1. TypeOK /\ OnePlace /\ GoodSlot
  BY DEF PInv
<1>2. TypeOK'
  BY <1>1 DEF TypeOK, GoodProcs
<1>3. OnePlace'
  BY <1>1, MoveToSettled
<1>4. GoodSlot'
  BY <1>1 DEF GoodSlot
<1>5. QED
  BY <1>2, <1>3, <1>4 DEF PInv

(* A task that goes on. *)
LEMMA RecordGood ==
  ASSUME PInv, NEW t \in Turns, NEW r \in ProcRecord, r.pc \in Plain, proc' = [proc EXCEPT ![t] = r]
  PROVE  /\ GoodProcs' /\ proc'[t] = r /\ t \in Procs
         /\ \A q \in Procs : q # t => proc'[q] = proc[q]
BY OneGood, PlainGood, Constants DEF PInv

(* The task of a turn records what it carries and what is pending. *)
LEMMA RunPlaces ==
  ASSUME PInv, NEW t \in Turns,
         \/ Begin(t) \/ DrainInput(t) \/ SamplingFails(t) \/ CallTools(t) \/ Answer(t) \/ Continue(t)
         \/ StopHookBlocks(t) \/ Stop(t) \/ Outer(t) \/ Cancelled(t) \/ Flush(t)
  PROVE  PInv'
<1>1. /\ TypeOK /\ GoodProcs /\ GoodSlot /\ OnePlace /\ t \in Procs
      /\ proc[t] \in ProcRecord /\ GoodProc(proc[t]) /\ ended \in [Turns -> Nat]
  BY Constants DEF PInv, GoodProcs, TypeOK
<1>2. RunPcs \cup {"finish", "none", "wake", "reserve", "idle", "end"} \subseteq Plain
  BY PlainGood
<1>3. /\ active \in [state : States \cup {NoState}, task : Turns \cup {NoTurn}]
      /\ state \in [States -> [pending : SUBSET Items, phase : {"current", "next"}]]
      /\ proc[t].items \subseteq Items
  BY <1>1 DEF TypeOK, ProcRecord
<1>4. CASE Begin(t) \/ Cancelled(t)
  <2>1. PICK r : /\ proc' = [proc EXCEPT ![t] = r] /\ r \in ProcRecord /\ r.pc \in Plain /\ r.items = {}
    <3>1. CASE Begin(t)
      <4> DEFINE r == [proc[t] EXCEPT !.canDrain = (proc[t].items = {}), !.items = {},
                         !.pc = IF proc[t].kind = "regular" THEN "drain_input" ELSE "flush"]
      <4>1. r \in ProcRecord /\ r.pc \in {"drain_input", "flush"} /\ r.items = {}
        BY <1>1 DEF ProcRecord, Pcs, RunPcs
      <4>2. proc' = [proc EXCEPT ![t] = r]
        BY <3>1 DEF Begin
      <4>3. QED
        BY <1>2, <4>1, <4>2 DEF RunPcs
    <3>2. CASE Cancelled(t)
      <4> DEFINE r == [proc[t] EXCEPT !.pc = "flush", !.items = {}]
      <4>1. r \in ProcRecord /\ r.pc = "flush" /\ r.items = {}
        BY <1>1 DEF ProcRecord, Pcs, RunPcs
      <4>2. proc' = [proc EXCEPT ![t] = r]
        BY <3>2 DEF Cancelled
      <4>3. QED
        BY <1>2, <4>1, <4>2 DEF RunPcs
    <3>3. QED
      BY <1>4, <3>1, <3>2
  <2>2. GoodProcs' /\ proc'[t] = r /\ \A q \in Procs : q # t => proc'[q] = proc[q]
    BY <2>1, RecordGood
  <2>3. settled' = settled \cup proc[t].items /\ UNCHANGED <<active, state, mailbox, fresh, ended>>
    BY <1>4 DEF Begin, Cancelled
  <2>4. /\ \A q \in Procs : proc'[q].items \subseteq proc[q].items \ proc[t].items
        /\ \A s \in States : state[s].pending \subseteq state[s].pending \ proc[t].items
        /\ mailbox \subseteq mailbox \ proc[t].items /\ proc[t].items \cap fresh = {}
    BY <1>1, <2>1, <2>2 DEF OnePlace
  <2>5. QED
    BY <1>1, <1>3, <2>2, <2>3, <2>4, SettleStep
<1>5. CASE DrainInput(t)
  <2>1. GoodProcs' /\ \A q \in Procs : proc'[q].items = proc[q].items
    BY <1>1, <1>5, GotoStep DEF DrainInput, Pcs, RunPcs, Reserving, AbortPcs
  <2>2. CASE proc[t].canDrain
    <3>1. settled' = settled \cup Available /\ TakeAvailable /\ UNCHANGED <<active, fresh, ended>>
      BY <1>5, <2>2 DEF DrainInput
    <3> DEFINE m == Available
    <3>2. /\ state' \in [States -> [pending : SUBSET Items, phase : {"current", "next"}]]
          /\ mailbox' \subseteq mailbox \ m /\ m \subseteq Items
          /\ \A s \in States : state'[s].pending \subseteq state[s].pending \ m
          /\ m \cap fresh = {}
          /\ \A p \in Procs : proc[p].items \subseteq proc[p].items \ m
      BY <1>1, <3>1, TakenPlaces
    <3>3. settled' = settled \cup m /\ ended' \in [Turns -> Nat] /\ UNCHANGED <<active, fresh>>
      BY <1>1, <3>1
    <3> HIDE DEF m
    <3>4. \A q \in Procs : proc'[q].items \subseteq proc[q].items \ m
      BY <2>1, <3>2
    <3>5. QED
      BY <2>1, <3>2, <3>3, <3>4, SettleStep
  <2>3. CASE ~proc[t].canDrain
    BY <1>1, <1>3, <1>5, <2>1, <2>3, StayStep DEF DrainInput, GoodSlot
  <2>4. QED
    BY <2>2, <2>3
<1>6. CASE Answer(t) \/ CallTools(t) \/ StopHookBlocks(t)
  <2>1. PICK r : /\ proc' = [proc EXCEPT ![t] = r] /\ r \in ProcRecord /\ r.pc \in Plain
                 /\ r.items = proc[t].items
    <3>1. CASE Answer(t)
      <4> DEFINE r == [proc[t] EXCEPT !.pc = "check", !.followUp = FALSE, !.answered = TRUE,
                                      !.canDrain = TRUE]
      <4>1. r \in ProcRecord /\ r.pc = "check" /\ r.items = proc[t].items
        BY <1>1 DEF ProcRecord, Pcs, RunPcs
      <4>2. proc' = [proc EXCEPT ![t] = r]
        BY <3>1 DEF Answer
      <4>3. QED
        BY <1>2, <4>1, <4>2 DEF RunPcs
    <3>2. CASE CallTools(t)
      <4> DEFINE r == [proc[t] EXCEPT !.pc = "check", !.followUp = TRUE, !.answered = FALSE,
                                      !.canDrain = TRUE]
      <4>1. r \in ProcRecord /\ r.pc = "check" /\ r.items = proc[t].items
        BY <1>1 DEF ProcRecord, Pcs, RunPcs
      <4>2. proc' = [proc EXCEPT ![t] = r]
        BY <3>2 DEF CallTools
      <4>3. QED
        BY <1>2, <4>1, <4>2 DEF RunPcs
    <3>3. CASE StopHookBlocks(t)
      <4> DEFINE r == [proc[t] EXCEPT !.pc = "drain_input", !.answered = FALSE]
      <4>1. r \in ProcRecord /\ r.pc = "drain_input" /\ r.items = proc[t].items
        BY <1>1 DEF ProcRecord, Pcs, RunPcs
      <4>2. proc' = [proc EXCEPT ![t] = r]
        BY <3>3 DEF StopHookBlocks
      <4>3. QED
        BY <1>2, <4>1, <4>2 DEF RunPcs
    <3>4. QED
      BY <1>6, <3>1, <3>2, <3>3
  <2>2. GoodProcs' /\ proc'[t] = r /\ \A q \in Procs : q # t => proc'[q] = proc[q]
    BY <2>1, RecordGood
  <2>3. UNCHANGED <<active, mailbox, fresh, settled, ended>> /\ (Accept(t) \/ Defer(t))
    BY <1>6 DEF Answer, CallTools, StopHookBlocks
  <2>4. /\ state' \in [States -> [pending : SUBSET Items, phase : {"current", "next"}]]
        /\ \A s \in States : state'[s].pending = state[s].pending
    <3>1. \/ state' = state
          \/ /\ active.state \in States
             /\ \/ state' = [state EXCEPT ![active.state].phase = "current"]
                \/ state' = [state EXCEPT ![active.state].phase = "next"]
      BY <1>1, <2>3, Constants DEF Accept, Defer, GoodSlot, NoActive
    <3>2. QED
      BY <1>3, <3>1
  <2>5. QED
    BY <1>1, <1>3, <2>1, <2>2, <2>3, <2>4, StayStep DEF GoodSlot
<1>7. CASE SamplingFails(t) \/ Stop(t) \/ Outer(t)
  <2>1. PICK pc \in RunPcs : Goto(t, pc)
    BY <1>7 DEF SamplingFails, Stop, Outer, RunPcs
  <2>2. GoodProcs' /\ \A q \in Procs : proc'[q].items = proc[q].items
    BY <1>1, <2>1, GotoStep DEF Pcs, RunPcs, Reserving, AbortPcs
  <2>3. UNCHANGED <<active, state, mailbox, fresh, settled, ended>>
    BY <1>7 DEF SamplingFails, Stop, Outer
  <2>4. QED
    BY <1>1, <1>3, <2>2, <2>3, StayStep DEF GoodSlot
<1>8. CASE Continue(t)
  <2>1. PICK drain \in {TRUE, ~proc[t].followUp} :
          proc' = [proc EXCEPT ![t].pc = "drain_input", ![t].canDrain = drain]
    BY <1>8 DEF Continue
  <2> DEFINE r == [proc[t] EXCEPT !.pc = "drain_input", !.canDrain = drain]
  <2>2. drain \in BOOLEAN
    BY Zenon
  <2>3. r \in ProcRecord /\ r.pc \in RunPcs /\ r.items = proc[t].items
    BY <1>1, <2>2 DEF ProcRecord, Pcs, RunPcs
  <2>4. proc' = [proc EXCEPT ![t] = r]
    BY <2>1
  <2> HIDE DEF r
  <2>5. GoodProcs' /\ proc'[t] = r /\ \A q \in Procs : q # t => proc'[q] = proc[q]
    BY <1>2, <2>3, <2>4, RecordGood
  <2>6. UNCHANGED <<active, state, mailbox, fresh, settled, ended>>
    BY <1>8 DEF Continue
  <2>7. QED
    BY <1>1, <1>3, <2>3, <2>5, <2>6, StayStep DEF GoodSlot
<1>9. CASE Flush(t)
  <2> DEFINE r == IF proc[t].cancelled THEN Rest(t) ELSE [proc[t] EXCEPT !.pc = "finish"]
  <2>1. r \in ProcRecord /\ r.pc \in {"end", "finish"} /\ r.items \subseteq proc[t].items
    <3>1. [proc[t] EXCEPT !.pc = "finish"] \in ProcRecord
          /\ [proc[t] EXCEPT !.pc = "finish"].pc = "finish"
          /\ [proc[t] EXCEPT !.pc = "finish"].items = proc[t].items
      BY <1>1 DEF ProcRecord, Pcs
    <3>2. QED
      BY <1>1, <3>1, RestTyped
  <2>2. proc' = [proc EXCEPT ![t] = r]
    BY <1>9 DEF Flush
  <2> HIDE DEF r
  <2>3. GoodProcs' /\ proc'[t] = r /\ \A q \in Procs : q # t => proc'[q] = proc[q]
    BY <1>2, <2>1, <2>2, RecordGood
  <2>4. UNCHANGED <<active, state, mailbox, fresh, settled, ended>>
    BY <1>9 DEF Flush
  <2>5. QED
    BY <1>1, <1>3, <2>1, <2>3, <2>4, StayStep DEF GoodSlot
<1>10. QED
  BY <1>4, <1>5, <1>6, <1>7, <1>8, <1>9

(* What PInv says, in the form the steps need it. *)
LEMMA PFacts ==
  ASSUME PInv
  PROVE  /\ TypeOK /\ GoodProcs /\ GoodSlot /\ OnePlace
         /\ active \in [state : States \cup {NoState}, task : Turns \cup {NoTurn}]
         /\ active.task # NoTurn => active.task \in Turns /\ active.state \in States
         /\ state \in [States -> [pending : SUBSET Items, phase : {"current", "next"}]]
         /\ proc \in [Procs -> ProcRecord]
         /\ \A p \in Procs : GoodProc(proc[p]) /\ proc[p].items \subseteq Items
         /\ ended \in [Turns -> Nat]
         /\ mailbox \subseteq Items /\ settled \subseteq Items
<1>1. TypeOK /\ GoodProcs /\ GoodSlot /\ OnePlace
  BY DEF PInv
<1>2. \A p \in Procs : GoodProc(proc[p]) /\ proc[p].items \subseteq Items
  BY <1>1 DEF GoodProcs, GoodProc, ProcRecord
<1>3. active.task # NoTurn => active.task \in Turns /\ active.state \in States
  BY <1>1 DEF TypeOK, GoodSlot, NoActive
<1>4. QED
  BY <1>1, <1>2, <1>3 DEF TypeOK, Items

(* Completing a turn. *)
LEMMA CompletePlaces ==
  ASSUME PInv, NEW t \in Turns, Finish(t) \/ Save(t) \/ Release(t)
  PROVE  PInv'
<1>1. t \in Procs /\ GoodProc(proc[t]) /\ proc[t] \in ProcRecord
  BY Constants, PFacts DEF GoodProc
<1>2. CASE Finish(t)
  <2>1. UNCHANGED <<state, mailbox, fresh, settled, ended>>
    BY <1>2 DEF Finish
  <2>2. CASE active.task = NoTurn
    <3>1. UNCHANGED active /\ Leave(t)
      BY <1>2, <2>2 DEF Finish
    <3>2. GoodProcs' /\ \A q \in Procs : proc'[q].items \subseteq proc[q].items
      BY <1>1, <3>1, LeaveStep, PFacts
    <3>3. QED
      BY <2>1, <3>1, <3>2, StayStep, PFacts DEF GoodSlot
  <2>3. CASE active.task # NoTurn
    <3> DEFINE r == [Proc("save") EXCEPT !.state = active.state]
    <3>1. active' = [active EXCEPT !.task = NoTurn] /\ proc' = [proc EXCEPT ![t] = r]
      BY <1>2, <2>3 DEF Finish
    <3>2. active.state \in States /\ "save" \in Pcs
      BY <2>3, PFacts DEF Pcs
    <3>3. GoodProc(r) /\ r.items = {}
      BY <3>2, ProcTyped DEF GoodProc, ProcRecord, Reserving, AbortPcs
    <3> HIDE DEF r
    <3>4. GoodProcs' /\ proc'[t] = r /\ \A q \in Procs : q # t => proc'[q] = proc[q]
      BY <1>1, <3>1, <3>3, OneGood, PFacts
    <3>5. /\ active' \in [state : States \cup {NoState}, task : Turns \cup {NoTurn}]
          /\ active'.state \in States
      BY <3>1, <3>2, PFacts
    <3>6. QED
      BY <2>1, <3>3, <3>4, <3>5, StayStep, PFacts DEF GoodSlot
  <2>4. QED
    BY <2>2, <2>3
<1>3. CASE Save(t)
  <2> DEFINE s == proc[t].state
             m == state[s].pending
  <2>1. s \in States /\ m \subseteq Items
    <3>1. s \in States
      BY <1>1, <1>3 DEF Save, GoodProc
    <3>2. QED
      BY <3>1, PFacts
  <2>2. /\ Goto(t, "release") /\ settled' = settled \cup m
        /\ state' = [state EXCEPT ![s].pending = {}]
        /\ ended' = [ended EXCEPT ![t] = @ + 1] /\ UNCHANGED <<active, mailbox, fresh>>
    BY <1>3 DEF Save
  <2>3. GoodProcs' /\ \A q \in Procs : proc'[q].items = proc[q].items
    BY <1>1, <2>1, <2>2, GotoStep, PFacts DEF Pcs, Reserving, AbortPcs
  <2>4. ended' \in [Turns -> Nat]
    BY <2>2, PFacts
  <2>5. /\ state' \in [States -> [pending : SUBSET Items, phase : {"current", "next"}]]
        /\ state'[s].pending = {} /\ \A r \in States : r # s => state'[r] = state[r]
    BY <2>1, <2>2, PFacts
  <2>6. /\ \A r \in States : state'[r].pending \subseteq state[r].pending \ m
        /\ \A q \in Procs : proc'[q].items \subseteq proc[q].items \ m
        /\ mailbox' \subseteq mailbox \ m /\ m \cap fresh = {}
    BY <2>1, <2>2, <2>3, <2>5, PFacts DEF OnePlace
  <2> HIDE DEF m
  <2>7. QED
    BY <2>1, <2>2, <2>3, <2>4, <2>5, <2>6, SettleStep
<1>4. CASE Release(t)
  <2> DEFINE s == proc[t].state
  <2>1. s \in States
    BY <1>1, <1>4 DEF Release, GoodProc
  <2>2. /\ active' \in {active, NoActive} /\ state' = [state EXCEPT ![s] = Empty]
        /\ UNCHANGED <<mailbox, fresh, settled, ended>>
    BY <1>4 DEF Release, ClearReserved
  <2>3. PICK r \in {Proc("wake"), Rest(t)} : proc' = [proc EXCEPT ![t] = r]
    BY <1>4 DEF Release
  <2>4. GoodProc(r) /\ r.items = {}
    BY <2>3, ProcTyped, PlainGood DEF Pcs
  <2>5. GoodProcs' /\ proc'[t] = r /\ \A q \in Procs : q # t => proc'[q] = proc[q]
    BY <1>1, <2>3, <2>4, OneGood, PFacts
  <2>6. /\ active' \in [state : States \cup {NoState}, task : Turns \cup {NoTurn}] /\ GoodSlot'
    BY <2>2, PFacts DEF GoodSlot, NoActive
  <2>7. /\ state' \in [States -> [pending : SUBSET Items, phase : {"current", "next"}]]
        /\ \A q \in States : state'[q].pending \subseteq state[q].pending
    BY <2>1, <2>2, PFacts DEF Empty
  <2>8. QED
    BY <2>2, <2>4, <2>5, <2>6, <2>7, StayStep
<1>5. QED
  BY <1>2, <1>3, <1>4

(* A process that has reserved the slot for turn t. *)
LEMMA ReserverGood ==
  ASSUME NEW t \in Turns, NEW pc \in {"drain", "recheck"}, NEW m \in SUBSET Items
  PROVE  /\ GoodProc([Proc(pc) EXCEPT !.turn = t, !.state = <<t, 0>>])
         /\ [Proc(pc) EXCEPT !.turn = t, !.state = <<t, 0>>].items = {}
         /\ GoodProc([Proc(pc) EXCEPT !.turn = t, !.state = <<t, 0>>, !.items = m])
         /\ [Proc(pc) EXCEPT !.turn = t, !.state = <<t, 0>>, !.items = m].items = m
<1> DEFINE r == [Proc(pc) EXCEPT !.turn = t, !.state = <<t, 0>>]
           z == [Proc(pc) EXCEPT !.turn = t, !.state = <<t, 0>>, !.items = m]
<1>1. pc \in Pcs /\ <<t, 0>> \in States
  BY Constants DEF Pcs, StartPcs
<1>2. Proc(pc) \in ProcRecord /\ Proc(pc).pc = pc /\ Proc(pc).items = {}
  BY <1>1, ProcTyped
<1>3. r \in ProcRecord /\ r.pc = pc /\ r.turn = t /\ r.state = <<t, 0>> /\ r.items = {}
  BY <1>1, <1>2 DEF ProcRecord
<1>4. z \in ProcRecord /\ z.pc = pc /\ z.turn = t /\ z.state = <<t, 0>> /\ z.items = m
  BY <1>1, <1>2 DEF ProcRecord
<1> HIDE DEF r, z
<1>5. GoodProc(r) /\ GoodProc(z)
  BY <1>1, <1>3, <1>4 DEF GoodProc, AbortPcs
<1>6. QED
  BY <1>3, <1>4, <1>5 DEF r, z

(* Starting a turn: up to the reservation, *)
LEMMA WakePlaces ==
  ASSUME PInv, NEW p \in Procs, Wake(p) \/ ReserveForMail(p)
  PROVE  PInv'
<1>1. CASE Wake(p)
  <2>1. GoodProcs' /\ \A q \in Procs : proc'[q].items \subseteq proc[q].items
    <3>1. CASE Goto(p, "reserve")
      BY <3>1, GotoStep, PFacts DEF Pcs, StartPcs, Reserving, AbortPcs
    <3>2. CASE Leave(p)
      BY <3>2, LeaveStep, PFacts
    <3>3. QED
      BY <1>1, <3>1, <3>2 DEF Wake
  <2>2. UNCHANGED <<active, state, mailbox, fresh, settled, ended>>
    BY <1>1 DEF Wake
  <2>3. QED
    BY <2>1, <2>2, StayStep, PFacts DEF GoodSlot
<1>2. CASE ReserveForMail(p) /\ active # NoActive
  <2>1. Leave(p) /\ UNCHANGED <<active, state, mailbox, fresh, settled, ended>>
    BY <1>2 DEF ReserveForMail
  <2>2. GoodProcs' /\ \A q \in Procs : proc'[q].items \subseteq proc[q].items
    BY <2>1, LeaveStep, PFacts
  <2>3. QED
    BY <2>1, <2>2, StayStep, PFacts DEF GoodSlot
<1>3. CASE ReserveForMail(p) /\ active = NoActive
  <2> DEFINE t == NewTurn
             r == [Proc("drain") EXCEPT !.turn = t, !.state = <<t, 0>>]
  <2>1. t \in Turns /\ <<t, 0>> \in States
    BY <1>3, Constants DEF ReserveForMail, NewTurn, Unused
  <2>2. /\ active' = [state |-> <<t, 0>>, task |-> NoTurn] /\ state' = [state EXCEPT ![<<t, 0>>] = Empty]
        /\ proc' = [proc EXCEPT ![p] = r] /\ UNCHANGED <<mailbox, fresh, settled, ended>>
    BY <1>3 DEF ReserveForMail, Reserve
  <2> HIDE DEF t
  <2>3. GoodProc(r) /\ r.items = {}
    BY <2>1, ReserverGood
  <2> HIDE DEF r
  <2>4. GoodProcs' /\ proc'[p] = r /\ \A q \in Procs : q # p => proc'[q] = proc[q]
    BY <2>2, <2>3, OneGood, PFacts
  <2>5. /\ active' \in [state : States \cup {NoState}, task : Turns \cup {NoTurn}] /\ GoodSlot'
    BY <2>1, <2>2 DEF GoodSlot
  <2>6. /\ state' \in [States -> [pending : SUBSET Items, phase : {"current", "next"}]]
        /\ \A q \in States : state'[q].pending \subseteq state[q].pending
    BY <2>1, <2>2, PFacts DEF Empty
  <2>7. QED
    BY <2>2, <2>3, <2>4, <2>5, <2>6, StayStep
<1>4. QED
  BY <1>1, <1>2, <1>3

(* the mail that waits is drained into the reserved TurnState, *)
LEMMA ReservedPlaces ==
  ASSUME PInv, NEW p \in Procs, DrainForMail(p) \/ ExtendReserved(p)
  PROVE  PInv'
<1>1. /\ GoodProc(proc[p]) /\ proc[p] \in ProcRecord /\ OnePlace /\ TypeOK /\ GoodSlot
      /\ proc[p].items \subseteq Items
  BY PFacts DEF GoodProc
<1>2. CASE DrainForMail(p)
  <2> DEFINE r == [proc[p] EXCEPT !.pc = "extend", !.items = Available]
  <2>1. TakeAvailable /\ proc' = [proc EXCEPT ![p] = r] /\ UNCHANGED <<active, fresh, settled, ended>>
    BY <1>2 DEF DrainForMail
  <2>2. /\ state' \in [States -> [pending : SUBSET Items, phase : {"current", "next"}]]
        /\ mailbox' \subseteq mailbox \ Available /\ Available \subseteq Items
        /\ \A s \in States : state'[s].pending \subseteq state[s].pending \ Available
        /\ Available \cap (fresh \cup settled) = {}
        /\ \A q \in Procs : Available \cap proc[q].items = {}
    BY <1>1, <2>1, TakenPlaces
  <2>3. r \in ProcRecord /\ r.pc = "extend" /\ r.items = Available /\ r.turn = proc[p].turn
        /\ r.state = proc[p].state
    BY <1>1, <2>2 DEF ProcRecord, Pcs, StartPcs
  <2> HIDE DEF r
  <2>4. proc[p].turn \in Turns /\ proc[p].state \in States
    BY <1>1, <1>2 DEF DrainForMail, GoodProc, Reserving
  <2>5. GoodProc(r)
    BY <2>3, <2>4 DEF GoodProc, AbortPcs
  <2>6. GoodProcs' /\ proc'[p] = r /\ \A q \in Procs : q # p => proc'[q] = proc[q]
    BY <2>1, <2>5, OneGood, PFacts
  <2>7. /\ settled' \subseteq settled \ Available /\ fresh' \subseteq fresh \ Available
        /\ proc'[p].items \subseteq proc[p].items \cup Available
        /\ \A q \in Procs : q # p => proc'[q].items \subseteq proc[q].items \ Available
    BY <2>1, <2>2, <2>3, <2>6
  <2>8. OnePlace'
    BY <1>1, <2>2, <2>7, MoveToProc
  <2>9. TypeOK' /\ GoodSlot'
    BY <1>1, <2>1, <2>2, <2>6 DEF TypeOK, GoodSlot, GoodProcs
  <2>10. QED
    BY <2>6, <2>8, <2>9 DEF PInv
<1>3. CASE ExtendReserved(p)
  <2> DEFINE s == proc[p].state
             m == proc[p].items
             r == [proc[p] EXCEPT !.pc = "start", !.items = {}]
  <2>1. /\ state' = [state EXCEPT ![s].pending = @ \cup m] /\ proc' = [proc EXCEPT ![p] = r]
        /\ UNCHANGED <<active, mailbox, fresh, settled, ended>>
    BY <1>3 DEF ExtendReserved
  <2>2. proc[p].turn \in Turns /\ s \in States
    BY <1>1, <1>3 DEF ExtendReserved, GoodProc, Reserving
  <2>3. r \in ProcRecord /\ r.pc = "start" /\ r.items = {} /\ r.turn = proc[p].turn
    BY <1>1 DEF ProcRecord, Pcs, StartPcs
  <2> HIDE DEF r
  <2>4. GoodProc(r)
    BY <2>2, <2>3 DEF GoodProc, AbortPcs, Reserving
  <2>5. GoodProcs' /\ proc'[p] = r /\ \A q \in Procs : q # p => proc'[q] = proc[q]
    BY <2>1, <2>4, OneGood, PFacts
  <2>6. /\ state' \in [States -> [pending : SUBSET Items, phase : {"current", "next"}]]
        /\ state'[s].pending = state[s].pending \cup m
        /\ \A q \in States : q # s => state'[q] = state[q]
    BY <1>1, <2>1, <2>2, PFacts
  <2>7. /\ settled' \subseteq settled \ m /\ fresh' \subseteq fresh \ m /\ mailbox' \subseteq mailbox \ m
        /\ \A q \in States : q # s => state'[q].pending \subseteq state[q].pending \ m
        /\ \A q \in Procs : proc'[q].items \subseteq proc[q].items \ m
    BY <1>1, <2>1, <2>3, <2>5, <2>6 DEF OnePlace
  <2> HIDE DEF s, m
  <2>8. OnePlace'
    <3>1. state'[s].pending \subseteq state[s].pending \cup m
      BY <2>6
    <3>2. QED
      BY <1>1, <2>2, <2>7, <3>1, MoveToState
  <2>9. TypeOK' /\ GoodSlot'
    BY <1>1, <2>1, <2>5, <2>6 DEF TypeOK, GoodSlot, GoodProcs
  <2>10. QED
    BY <2>5, <2>8, <2>9 DEF PInv
<1>4. QED
  BY <1>2, <1>3

(* start_task takes the mailbox, *)
LEMMA StartTaskPlaces ==
  ASSUME PInv, NEW p \in Procs, StartTask(p)
  PROVE  PInv'
<1> DEFINE s == IF active = NoActive THEN <<proc[p].turn, 1>> ELSE active.state
           old == IF active = NoActive THEN Empty ELSE state[s]
           x == [old EXCEPT !.pending = old.pending \cup mailbox]
<1>1. /\ GoodProc(proc[p]) /\ proc[p] \in ProcRecord /\ OnePlace /\ TypeOK /\ GoodSlot
      /\ proc[p].items \subseteq Items /\ mailbox \subseteq Items
  BY PFacts DEF GoodProc
<1>2. /\ proc[p].pc = "start" /\ Goto(p, "spawn") /\ active' = [active EXCEPT !.state = s]
      /\ state' = [state EXCEPT ![s] = x] /\ mailbox' = {} /\ UNCHANGED <<fresh, settled, ended>>
  BY DEF StartTask
<1>3. proc[p].turn \in Turns
  BY <1>1, <1>2 DEF GoodProc
<1>4. s \in States
  BY <1>1, <1>3, Constants DEF GoodSlot
<1>5. /\ x \in [pending : SUBSET Items, phase : {"current", "next"}]
      /\ x.pending \subseteq state[s].pending \cup mailbox
  <2>1. state[s] \in [pending : SUBSET Items, phase : {"current", "next"}]
    BY <1>4, PFacts
  <2>2. CASE active = NoActive
    BY <1>1, <2>2 DEF Empty
  <2>3. CASE active # NoActive
    BY <1>1, <2>1, <2>3
  <2>4. QED
    BY <2>2, <2>3
<1>6. GoodProcs' /\ \A q \in Procs : proc'[q].items = proc[q].items
  BY <1>2, <1>3, GotoStep, PFacts DEF Pcs, StartPcs, Reserving, AbortPcs
<1> HIDE DEF s, x
<1>7. /\ state' \in [States -> [pending : SUBSET Items, phase : {"current", "next"}]]
      /\ state'[s].pending \subseteq state[s].pending \cup mailbox
      /\ \A q \in States : q # s => state'[q] = state[q]
  BY <1>2, <1>4, <1>5, PFacts
<1>8. /\ settled' \subseteq settled \ mailbox /\ fresh' \subseteq fresh \ mailbox
      /\ mailbox' \subseteq mailbox \ mailbox
      /\ \A q \in States : q # s => state'[q].pending \subseteq state[q].pending \ mailbox
      /\ \A q \in Procs : proc'[q].items \subseteq proc[q].items \ mailbox
  BY <1>1, <1>2, <1>6, <1>7 DEF OnePlace
<1>9. OnePlace'
  BY <1>1, <1>4, <1>7, <1>8, MoveToState
<1>10. active' \in [state : States \cup {NoState}, task : Turns \cup {NoTurn}] /\ active'.state \in States
  BY <1>2, <1>4, PFacts
<1>11. TypeOK' /\ GoodSlot'
  BY <1>1, <1>2, <1>6, <1>7, <1>10 DEF TypeOK, GoodSlot, GoodProcs
<1>12. QED
  BY <1>6, <1>9, <1>11 DEF PInv

(* and the task takes the input of its turn. *)
LEMMA SpawnTaskPlaces ==
  ASSUME PInv, NEW p \in Procs, SpawnTask(p)
  PROVE  PInv'
<1> DEFINE t == proc[p].turn
           s == IF active = NoActive THEN <<t, 2>> ELSE active.state
           m == proc[p].items
           b == [Proc("begin") EXCEPT !.kind = proc[p].kind, !.items = m]
<1>1. /\ GoodProc(proc[p]) /\ proc[p] \in ProcRecord /\ OnePlace /\ TypeOK /\ GoodSlot
      /\ m \subseteq Items
  BY PFacts DEF GoodProc
<1>2. proc[p].pc = "spawn" /\ t \in Turns /\ t \in Procs /\ s \in States
  BY <1>1, Constants DEF SpawnTask, GoodProc, GoodSlot
<1>3. GoodProc(b) /\ b.items = m
  <2>1. "begin" \in Pcs /\ "begin" \in Plain
    BY PlainGood DEF Pcs, RunPcs
  <2>2. Proc("begin") \in ProcRecord /\ Proc("begin").pc = "begin"
    BY <2>1, ProcTyped
  <2>3. b \in ProcRecord /\ b.pc = "begin" /\ b.items = m
    BY <1>1, <2>2 DEF ProcRecord
  <2>4. QED
    BY <2>1, <2>3, PlainGood
<1>4. \A q \in Procs : GoodProc(Aborted(q)) /\ Aborted(q).items \subseteq proc[q].items
  BY PFacts, PlainGood DEF Aborted
<1>5. /\ active' = [state |-> s, task |-> t]
      /\ state' = [state EXCEPT ![s] = IF active = NoActive THEN Empty ELSE @]
      /\ proc' = [q \in Procs |->
           IF q = p THEN Rest(p) ELSE IF q = t THEN b
           ELSE IF q = active.task THEN Aborted(q) ELSE proc[q]]
      /\ UNCHANGED <<mailbox, fresh, settled, ended>>
  BY DEF SpawnTask
<1> HIDE DEF b, t, s, m
<1>6. ASSUME NEW q \in Procs
      PROVE  /\ GoodProc(proc'[q])
             /\ proc'[q].items \subseteq IF q = t THEN m ELSE proc[q].items
             /\ q = p => proc'[q].items = {}
  <2>1. CASE q = p
    <3>1. proc'[q] = Rest(p)
      BY <1>5, <2>1
    <3>2. QED
      BY <3>1, PlainGood
  <2>2. CASE q # p /\ q = t
    <3>1. proc'[q] = b
      BY <1>5, <2>2
    <3>2. QED
      BY <1>3, <2>2, <3>1
  <2>3. CASE q # p /\ q # t /\ q = active.task
    BY <1>4, <1>5, <2>3
  <2>4. CASE q # p /\ q # t /\ q # active.task
    BY <1>5, <2>4, PFacts
  <2>5. QED
    BY <2>1, <2>2, <2>3, <2>4
<1>7. GoodProcs'
  BY <1>5, <1>6 DEF GoodProcs, GoodProc
<1>8. /\ state' \in [States -> [pending : SUBSET Items, phase : {"current", "next"}]]
      /\ \A q \in States : state'[q].pending \subseteq state[q].pending
  BY <1>2, <1>5, PFacts DEF Empty
<1>9. /\ settled' \subseteq settled \ m /\ fresh' \subseteq fresh \ m /\ mailbox' \subseteq mailbox \ m
      /\ \A q \in States : state'[q].pending \subseteq state[q].pending \ m
      /\ proc'[t].items \subseteq proc[t].items \cup m
      /\ \A q \in Procs : q # t => proc'[q].items \subseteq proc[q].items \ m
  <2>1. \A q \in Procs : q # p => proc[q].items \cap m = {}
    BY <1>1 DEF OnePlace, m
  <2>2. /\ m \cap (fresh \cup mailbox \cup settled) = {}
        /\ \A q \in States : state[q].pending \cap m = {}
    BY <1>1 DEF OnePlace, m
  <2>3. QED
    BY <1>2, <1>5, <1>6, <1>8, <2>1, <2>2
<1>10. OnePlace'
  BY <1>1, <1>2, <1>9, MoveToProc
<1>11. TypeOK' /\ GoodSlot'
  BY <1>1, <1>2, <1>5, <1>7, <1>8 DEF TypeOK, GoodSlot, GoodProcs
<1>12. QED
  BY <1>7, <1>10, <1>11 DEF PInv

(* An abort: the task is stopped and its unread input discarded, *)
LEMMA AbortTaskPlaces ==
  ASSUME PInv, NEW p \in Procs, AbortTask(p)
  PROVE  PInv'
<1> DEFINE t == proc[p].target
           m == Unread(t)
           r == [proc[p] EXCEPT !.pc = "aborted"]
<1>1. /\ GoodProc(proc[p]) /\ proc[p] \in ProcRecord /\ OnePlace /\ proc \in [Procs -> ProcRecord]
      /\ \A q \in Procs : proc[q].items \subseteq Items /\ GoodProc(proc[q])
  BY PFacts DEF GoodProc
<1>2. proc[p].pc = "abort" /\ t \in Turns /\ t \in Procs /\ proc[p].state \in States
  BY <1>1, Constants DEF AbortTask, GoodProc, AbortPcs
<1>3. /\ settled' = settled \cup m /\ UNCHANGED <<active, state, mailbox, fresh, ended>>
      /\ proc' = [proc EXCEPT ![t] = Aborted(t), ![p].pc = "aborted"]
  BY DEF AbortTask
<1>4. GoodProc(r) /\ r.items = proc[p].items
  BY <1>1, <1>2, GotoGood DEF Pcs, AbortPcs, Reserving
<1>5. GoodProc(Aborted(t)) /\ Aborted(t).items \subseteq proc[t].items \ m /\ m \subseteq proc[t].items
  BY <1>1, <1>2, PlainGood DEF Aborted, Unread, RunPcs
<1>6. p = t => Aborted(t) = proc[p] /\ m = {}
  BY <1>2 DEF Aborted, Unread, RunPcs
<1>7. \A q \in Procs : proc'[q] = IF q = p THEN r ELSE IF q = t THEN Aborted(t) ELSE proc[q]
  BY <1>1, <1>2, <1>3, <1>6
<1> HIDE DEF r, m, t
<1>8. \A q \in Procs : GoodProc(proc'[q]) /\ proc'[q].items \subseteq proc[q].items \ m
  <2>1. \A q \in Procs : q # t => proc[q].items \cap m = {}
    BY <1>1, <1>2, <1>5 DEF OnePlace
  <2>2. proc[p].items \cap m = {}
    BY <1>6, <2>1
  <2>3. QED
    BY <1>1, <1>4, <1>5, <1>7, <2>1, <2>2
<1>9. GoodProcs'
  <2>1. proc' = [q \in Procs |-> proc'[q]]
    BY <1>1, <1>3
  <2>2. QED
    BY <1>8, <2>1 DEF GoodProcs, GoodProc
<1>10. /\ m \subseteq Items /\ m \cap fresh = {} /\ mailbox' \subseteq mailbox \ m
       /\ \A s \in States : state'[s].pending \subseteq state[s].pending \ m
  BY <1>1, <1>2, <1>3, <1>5 DEF OnePlace
<1>11. QED
  BY <1>3, <1>8, <1>9, <1>10, SettleStep, PFacts

(* and with it what was pending. *)
LEMMA FinishAbortPlaces ==
  ASSUME PInv, NEW p \in Procs, FinishAbort(p)
  PROVE  PInv'
<1> DEFINE s == proc[p].state
           m == state[s].pending
           pc == IF proc[p].turn # NoTurn THEN "start" ELSE "wake"
           r == [proc[p] EXCEPT !.pc = pc, !.target = NoTurn, !.state = NoState]
<1>1. GoodProc(proc[p]) /\ proc[p] \in ProcRecord /\ OnePlace
  BY PFacts DEF GoodProc
<1>2. proc[p].target \in Turns /\ s \in States
  BY <1>1 DEF FinishAbort, GoodProc, AbortPcs
<1>3. /\ settled' = settled \cup m /\ UNCHANGED <<active, mailbox, fresh>>
      /\ state' = [state EXCEPT ![s] = Empty] /\ proc' = [proc EXCEPT ![p] = r]
      /\ ended' = [ended EXCEPT ![proc[p].target] = @ + 1]
  BY DEF FinishAbort
<1>4. GoodProc(r) /\ r.items = proc[p].items
  <2>1. pc \in {"start", "wake"} /\ (pc = "start" => proc[p].turn \in Turns)
    BY <1>1 DEF ProcRecord
  <2> HIDE DEF pc
  <2>2. /\ r \in ProcRecord /\ r.pc = pc /\ r.turn = proc[p].turn /\ r.items = proc[p].items
    BY <1>1, <2>1 DEF ProcRecord, Pcs, StartPcs
  <2> HIDE DEF r
  <2>3. QED
    BY <2>1, <2>2 DEF GoodProc, Reserving, AbortPcs
<1> HIDE DEF r
<1>5. GoodProcs' /\ proc'[p] = r /\ \A q \in Procs : q # p => proc'[q] = proc[q]
  BY <1>3, <1>4, OneGood, PFacts
<1>6. ended' \in [Turns -> Nat]
  BY <1>2, <1>3, PFacts
<1>7. /\ state' \in [States -> [pending : SUBSET Items, phase : {"current", "next"}]]
      /\ state'[s].pending = {} /\ \A q \in States : q # s => state'[q] = state[q]
  BY <1>2, <1>3, PFacts DEF Empty
<1>8. m \subseteq Items
  BY <1>2, PFacts
<1>9. /\ \A q \in States : state'[q].pending \subseteq state[q].pending \ m
      /\ \A q \in Procs : proc'[q].items \subseteq proc[q].items \ m
      /\ mailbox' \subseteq mailbox \ m /\ m \cap fresh = {}
  BY <1>1, <1>2, <1>3, <1>4, <1>5, <1>7 DEF OnePlace
<1> HIDE DEF m
<1>10. QED
  BY <1>3, <1>5, <1>6, <1>7, <1>8, <1>9, SettleStep

(* Taking the turn out of the slot moves no message. *)
LEMMA TakePlaces ==
  ASSUME PInv, NEW p \in {Loop, Guardian}, NEW pc \in {"idle", "start"}, TakeActive(p, pc),
         pc = "start" => proc[p].turn \in Turns,
         UNCHANGED <<state, mailbox, fresh, settled, ended>>
  PROVE  PInv'
<1>1. p \in Procs /\ p \notin Turns /\ GoodProc(proc[p]) /\ proc[p] \in ProcRecord
  BY Constants, PFacts DEF GoodProc
<1>2. active' = NoActive /\ NoActive \in [state : States \cup {NoState}, task : Turns \cup {NoTurn}]
  BY DEF TakeActive, NoActive
<1>3. GoodProcs' /\ \A q \in Procs : proc'[q].items \subseteq proc[q].items
  <2>1. CASE active.task = NoTurn
    <3>1. Goto(p, pc)
      BY <2>1 DEF TakeActive, Goto
    <3>2. QED
      BY <1>1, <3>1, GotoStep, PFacts DEF Pcs, StartPcs, Reserving, AbortPcs
  <2>2. CASE active.task # NoTurn
    <3> DEFINE a == active.task
               x == [proc[a] EXCEPT !.cancelled = TRUE]
               r == [proc[p] EXCEPT !.pc = "abort", !.target = a, !.state = active.state]
    <3>1. a \in Turns /\ a \in Procs /\ active.state \in States /\ a # p /\ GoodProc(proc[a])
      BY <1>1, <2>2, Constants, PFacts
    <3>2. proc' = [proc EXCEPT ![a].cancelled = TRUE, ![p].pc = "abort",
                               ![p].target = a, ![p].state = active.state]
      BY <2>2 DEF TakeActive
    <3>3. \A q \in Procs : proc'[q] = IF q = p THEN r ELSE IF q = a THEN x ELSE proc[q]
      BY <1>1, <3>1, <3>2, PFacts
    <3>4. GoodProc(x) /\ x.items = proc[a].items
      <4>1. proc[a] \in ProcRecord
        BY <3>1 DEF GoodProc
      <4>2. /\ x \in ProcRecord /\ x.items = proc[a].items /\ x.pc = proc[a].pc
            /\ x.turn = proc[a].turn /\ x.state = proc[a].state /\ x.target = proc[a].target
        BY <4>1 DEF ProcRecord
      <4> HIDE DEF x
      <4>3. QED
        BY <3>1, <4>2 DEF GoodProc
    <3>5. GoodProc(r) /\ r.items = proc[p].items
      <4>1. /\ r \in ProcRecord /\ r.pc = "abort" /\ r.items = proc[p].items
            /\ r.target = a /\ r.state = active.state
        BY <1>1, <3>1 DEF ProcRecord, Pcs
      <4> HIDE DEF r
      <4>2. QED
        BY <3>1, <4>1 DEF GoodProc, Reserving, AbortPcs
    <3>6. proc' = [q \in Procs |-> proc'[q]]
      BY <3>2, PFacts
    <3> HIDE DEF r, x
    <3>7. QED
      BY <3>3, <3>4, <3>5, <3>6, PFacts DEF GoodProcs, GoodProc
  <2>3. QED
    BY <2>1, <2>2
<1>4. GoodSlot'
  BY <1>2 DEF GoodSlot
<1>5. QED
  BY <1>2, <1>3, <1>4, StayStep, PFacts

(* A message becomes pending in the TurnState of the slot. *)
LEMMA PutPlaces ==
  ASSUME PInv, NEW i \in Items, i \in fresh, active.state \in States, PutAndAccept(active.state, i),
         fresh' = fresh \ {i}, UNCHANGED <<active, mailbox, proc, settled, ended>>
  PROVE  PInv'
<1> DEFINE s == active.state
           x == [state[s] EXCEPT !.pending = @ \cup {i}, !.phase = "current"]
<1>1. state' = [state EXCEPT ![s] = x]
  BY DEF PutAndAccept
<1>2. state[s] \in [pending : SUBSET Items, phase : {"current", "next"}]
  BY PFacts
<1>3. /\ x \in [pending : SUBSET Items, phase : {"current", "next"}]
      /\ x.pending = state[s].pending \cup {i}
  BY <1>2
<1> HIDE DEF x
<1>4. /\ state' \in [States -> [pending : SUBSET Items, phase : {"current", "next"}]]
      /\ state'[s].pending = state[s].pending \cup {i}
      /\ \A q \in States : q # s => state'[q] = state[q]
  BY <1>1, <1>3, PFacts
<1>5. /\ settled' \subseteq settled \ {i} /\ fresh' \subseteq fresh \ {i}
      /\ mailbox' \subseteq mailbox \ {i}
      /\ \A q \in States : q # s => state'[q].pending \subseteq state[q].pending \ {i}
      /\ \A q \in Procs : proc'[q].items \subseteq proc[q].items \ {i}
  BY <1>4, PFacts DEF OnePlace
<1> HIDE DEF s
<1>6. OnePlace'
  <2>1. s \in States /\ state'[s].pending \subseteq state[s].pending \cup {i}
    BY <1>4 DEF s
  <2>2. QED
    BY <1>5, <2>1, PFacts, MoveToState
<1>7. TypeOK' /\ GoodProcs' /\ GoodSlot'
  BY <1>4, PFacts DEF TypeOK, GoodSlot, GoodProcs, GoodProc
<1>8. QED
  BY <1>6, <1>7 DEF PInv

(* The submission loop takes a message and goes on with it. *)
LEMMA SubmitPlaces ==
  ASSUME PInv, NEW i, i \in fresh, NEW r, GoodProc(r), r.items = {i} \cap Items,
         proc' = [proc EXCEPT ![Loop] = r], fresh' = fresh \ {i},
         active' \in [state : States \cup {NoState}, task : Turns \cup {NoTurn}], GoodSlot',
         state' \in [States -> [pending : SUBSET Items, phase : {"current", "next"}]],
         \A s \in States : state'[s].pending \subseteq state[s].pending,
         UNCHANGED <<mailbox, settled, ended>>
  PROVE  PInv'
<1>1. GoodProcs' /\ proc'[Loop] = r /\ \A q \in Procs : q # Loop => proc'[q] = proc[q]
  BY OneGood, PFacts, Constants
<1>2. /\ settled' \subseteq settled \ {i} /\ fresh' \subseteq fresh \ {i}
      /\ mailbox' \subseteq mailbox \ {i}
      /\ \A s \in States : state'[s].pending \subseteq state[s].pending \ {i}
      /\ proc'[Loop].items \subseteq proc[Loop].items \cup {i}
      /\ \A q \in Procs : q # Loop => proc'[q].items \subseteq proc[q].items \ {i}
  BY <1>1, PFacts DEF OnePlace
<1>3. OnePlace'
  BY <1>2, PFacts, Constants, MoveToProc
<1>4. TypeOK'
  BY <1>1, PFacts DEF TypeOK, GoodProcs
<1>5. QED
  BY <1>1, <1>3, <1>4 DEF PInv

(* start_or_steer and start_if_idle *)
LEMMA StartPlaces ==
  ASSUME PInv, NEW i \in Users \cup Others, Start(i) \/ (i \in Users /\ StartIfIdle(i))
  PROVE  PInv'
<1> DEFINE t == NewTurn
<1>1. t \in Turns /\ <<t, 0>> \in States
  BY Constants DEF Start, StartIfIdle, NewTurn, Unused
<1>2. CASE Start(i)
  <2> DEFINE kind == IF i \in Others THEN "other" ELSE "regular"
             m == {i} \cap Items
             r == [Proc("replace") EXCEPT !.turn = t, !.items = m, !.kind = kind]
  <2>1. /\ proc' = [proc EXCEPT ![Loop] = r] /\ i \in fresh /\ fresh' = fresh \ {i}
        /\ UNCHANGED <<active, state, mailbox, settled, ended>>
    BY <1>2 DEF Start
  <2> HIDE DEF t
  <2>2. "replace" \in Pcs /\ m \subseteq Items /\ kind \in {"regular", "other"}
    BY DEF Pcs
  <2>3. Proc("replace") \in ProcRecord /\ Proc("replace").pc = "replace"
    BY <2>2, ProcTyped
  <2> HIDE DEF kind, m
  <2>4. r \in ProcRecord /\ r.pc = "replace" /\ r.turn = t /\ r.items = m
    BY <1>1, <2>2, <2>3 DEF ProcRecord
  <2> HIDE DEF r
  <2>5. GoodProc(r) /\ r.items = {i} \cap Items
    BY <1>1, <2>4 DEF GoodProc, Reserving, AbortPcs, m
  <2>6. GoodSlot'
    BY <2>1, PFacts DEF GoodSlot
  <2>7. QED
    BY <2>1, <2>5, <2>6, PFacts, SubmitPlaces
<1>3. CASE i \in Users /\ StartIfIdle(i)
  <2> DEFINE r == [Proc("recheck") EXCEPT !.turn = t, !.state = <<t, 0>>, !.items = {i}]
  <2>1. /\ proc' = [proc EXCEPT ![Loop] = r] /\ i \in fresh /\ fresh' = fresh \ {i}
        /\ active' = [state |-> <<t, 0>>, task |-> NoTurn] /\ state' = [state EXCEPT ![<<t, 0>>] = Empty]
        /\ UNCHANGED <<mailbox, settled, ended>>
    BY <1>3 DEF StartIfIdle, Reserve
  <2> HIDE DEF t
  <2>2. {i} \in SUBSET Items /\ {i} \cap Items = {i}
    BY <1>3 DEF Items
  <2>3. GoodProc(r) /\ r.items = {i} \cap Items
    BY <1>1, <2>2, ReserverGood
  <2>4. /\ active' \in [state : States \cup {NoState}, task : Turns \cup {NoTurn}] /\ GoodSlot'
    BY <1>1, <2>1 DEF GoodSlot
  <2>5. /\ state' \in [States -> [pending : SUBSET Items, phase : {"current", "next"}]]
        /\ \A s \in States : state'[s].pending \subseteq state[s].pending
    BY <1>1, <2>1, PFacts DEF Empty
  <2> HIDE DEF r
  <2>6. QED
    BY <2>1, <2>3, <2>4, <2>5, SubmitPlaces
<1>4. QED
  BY <1>2, <1>3

(* A refused message is the caller's again. *)
LEMMA RecheckPlaces ==
  ASSUME PInv, Recheck
  PROVE  PInv'
<1>1. /\ Loop \in Procs /\ proc[Loop].pc = "recheck" /\ GoodProc(proc[Loop]) /\ proc[Loop].turn \in Turns
  BY Constants, PFacts DEF Recheck, GoodProc, Reserving
<1>2. UNCHANGED <<state, mailbox, settled, ended>>
  BY DEF Recheck
<1>3. CASE Goto(Loop, "start") /\ UNCHANGED <<active, fresh>>
  <2>1. GoodProcs' /\ \A q \in Procs : proc'[q].items = proc[q].items
    BY <1>1, <1>3, GotoStep, PFacts DEF Pcs, StartPcs, Reserving, AbortPcs
  <2>2. QED
    BY <1>2, <1>3, <2>1, StayStep, PFacts DEF GoodSlot
<1>4. CASE /\ ClearReserved(proc[Loop].state) /\ fresh' = fresh \cup proc[Loop].items
           /\ proc' = [proc EXCEPT ![Loop] =
                IF mailbox \cap Triggers # {} THEN Proc("wake") ELSE Proc("idle")]
  <2> DEFINE m == proc[Loop].items
  <2>1. PICK r \in {Proc("wake"), Proc("idle")} : proc' = [proc EXCEPT ![Loop] = r]
    BY <1>4
  <2>2. GoodProc(r) /\ r.items = {}
    BY <2>1, ProcTyped, PlainGood DEF Pcs
  <2>3. GoodProcs' /\ proc'[Loop] = r /\ \A q \in Procs : q # Loop => proc'[q] = proc[q]
    BY <1>1, <2>1, <2>2, OneGood, PFacts
  <2>4. active' \in {active, NoActive}
    BY <1>4 DEF ClearReserved
  <2>5. /\ settled' \subseteq settled \ m /\ fresh' \subseteq fresh \cup m /\ mailbox' \subseteq mailbox \ m
        /\ \A s \in States : state'[s].pending \subseteq state[s].pending \ m
        /\ \A q \in Procs : proc'[q].items \subseteq proc[q].items \ m
    BY <1>1, <1>2, <1>4, <2>2, <2>3, PFacts DEF OnePlace
  <2> HIDE DEF m
  <2>6. OnePlace'
    BY <2>5, PFacts, MoveToFresh
  <2>7. TypeOK' /\ GoodSlot'
    <3>1. m \subseteq Items
      BY <1>1, PFacts DEF m
    <3>2. QED
      BY <1>2, <2>3, <2>4, <2>5, <3>1, PFacts DEF TypeOK, GoodProcs, GoodSlot, NoActive
  <2>8. QED
    BY <2>3, <2>6, <2>7 DEF PInv
<1>5. QED
  BY <1>3, <1>4 DEF Recheck

(* Mail comes in. *)
LEMMA DeliverPlaces ==
  ASSUME PInv, NEW i \in Mail, Deliver(i)
  PROVE  PInv'
<1>1. /\ i \in fresh /\ mailbox' = mailbox \cup {i} /\ fresh' = fresh \ {i}
      /\ UNCHANGED <<active, state, settled, ended>>
  BY DEF Deliver
<1>2. GoodProcs' /\ \A q \in Procs : proc'[q].items = proc[q].items
  <2>1. CASE UNCHANGED proc
    BY <2>1, PFacts DEF GoodProcs, GoodProc
  <2>2. CASE Goto(Loop, "wake")
    BY <2>2, GotoStep, PFacts, Constants DEF Pcs, Reserving, AbortPcs
  <2>3. QED
    BY <2>1, <2>2 DEF Deliver
<1>3. /\ settled' \subseteq settled \ {i} /\ fresh' \subseteq fresh \ {i}
      /\ mailbox' \subseteq mailbox \cup {i}
      /\ \A s \in States : state'[s].pending \subseteq state[s].pending \ {i}
      /\ \A q \in Procs : proc'[q].items \subseteq proc[q].items \ {i}
  BY <1>1, <1>2, PFacts DEF OnePlace
<1>4. OnePlace'
  BY <1>3, PFacts, MoveToMailbox
<1>5. TypeOK' /\ GoodSlot'
  BY <1>1, <1>2, PFacts DEF TypeOK, GoodSlot, GoodProcs
<1>6. QED
  BY <1>2, <1>4, <1>5 DEF PInv

(* An item is injected. *)
LEMMA InjectPlaces ==
  ASSUME PInv, NEW i \in Injected, Inject(i)
  PROVE  PInv'
<1>1. i \in Items /\ i \in fresh /\ fresh' = fresh \ {i} /\ UNCHANGED <<active, mailbox, proc, ended>>
  BY DEF Inject, Items
<1>2. CASE active # NoActive
  BY <1>1, <1>2, PutPlaces, PFacts DEF Inject, GoodSlot
<1>3. CASE active = NoActive
  <2>1. settled' = settled \cup {i} /\ UNCHANGED state
    BY <1>3 DEF Inject
  <2>2. /\ settled' \subseteq settled \cup {i} /\ fresh' \subseteq fresh \ {i}
        /\ mailbox' \subseteq mailbox \ {i}
        /\ \A s \in States : state'[s].pending \subseteq state[s].pending \ {i}
        /\ \A q \in Procs : proc'[q].items \subseteq proc[q].items \ {i}
    BY <1>1, <2>1, PFacts DEF OnePlace
  <2>3. OnePlace'
    BY <2>2, PFacts, MoveToSettled
  <2>4. TypeOK' /\ GoodSlot' /\ GoodProcs'
    BY <1>1, <2>1, PFacts DEF TypeOK, GoodSlot, GoodProcs, GoodProc
  <2>5. QED
    BY <2>3, <2>4 DEF PInv
<1>4. QED
  BY <1>2, <1>3

(* No step of the code puts a message into two places. *)
LEMMA PInvStep == PInv /\ [Next]_vars => PInv'
<1> SUFFICES ASSUME PInv, [Next]_vars PROVE PInv'
  OBVIOUS
<1>1. CASE UNCHANGED vars
  <2>1. UNCHANGED <<active, state, mailbox, proc, fresh, settled, ended>>
    BY <1>1 DEF vars
  <2>2. TypeOK' /\ GoodSlot' /\ GoodProcs' /\ OnePlace'
    BY <2>1, PFacts DEF TypeOK, GoodSlot, GoodProcs, GoodProc, OnePlace
  <2>3. QED
    BY <2>2 DEF PInv
<1>2. CASE Operation
  <2>1. ASSUME NEW i \in Users, Steer(i) PROVE PInv'
    <3>1. /\ i \in Items /\ i \in fresh /\ active.state \in States /\ PutAndAccept(active.state, i)
          /\ fresh' = fresh \ {i} /\ UNCHANGED <<active, mailbox, proc, settled, ended>>
      BY <2>1, PFacts DEF Steer, Items
    <3>2. QED
      BY <3>1, PutPlaces
  <2>2. QED
    BY <1>2, <2>1, StartPlaces, DeliverPlaces DEF Operation
<1>3. CASE Interrupt
  BY <1>3, TakePlaces DEF Interrupt
<1>4. ASSUME NEW t \in Turns, GuardianAborts(t) PROVE PInv'
  BY <1>4, TakePlaces DEF GuardianAborts
<1>5. ASSUME NEW p \in Procs, Step(p) PROVE PInv'
  <2>1. CASE Starting(p)
    BY <1>5, <2>1, WakePlaces, ReservedPlaces, StartTaskPlaces, SpawnTaskPlaces DEF Starting
  <2>2. CASE Aborting(p)
    BY <1>5, <2>2, AbortTaskPlaces, FinishAbortPlaces DEF Aborting
  <2>3. CASE p \in Turns /\ Running(p)
    BY <2>3, RunPlaces, CompletePlaces DEF Running
  <2>4. CASE Recheck
    BY <2>4, RecheckPlaces
  <2>5. CASE Replace
    <3>1. proc[Loop].turn \in Turns
      BY <2>5, PFacts, Constants DEF Replace, GoodProc
    <3>2. QED
      BY <2>5, <3>1, TakePlaces DEF Replace
  <2>6. QED
    BY <1>5, <2>1, <2>2, <2>3, <2>4, <2>5 DEF Step
<1>6. QED
  BY <1>1, <1>2, <1>3, <1>4, <1>5, InjectPlaces DEF Next

(* Every variable of the session stays in its range, in every behaviour of *)
(* the code, calm or not.                                                   *)
THEOREM TypeCorrect == Spec => []TypeOK
<1>1. PInv => TypeOK
  BY DEF PInv
<1>2. QED
  BY <1>1, PInvInit, PInvStep, PTL DEF Spec

(* In every behaviour of the session, calm or not, a message is in one      *)
(* place: it is recorded in the history at most once, and one that was      *)
(* recorded, discarded or refused does not come up again by itself.         *)
THEOREM OnePlaceHolds == Spec => []OnePlace
<1>1. PInv => OnePlace
  BY DEF PInv
<1>2. QED
  BY <1>1, PInvInit, PInvStep, PTL DEF Spec

-----------------------------------------------------------------------------
(* An answer stands                                                         *)

(* After its answer the task goes on only for input of the turn itself: the *)
(* TurnState is closed to mail unless something else is pending in it.      *)
Asking == {"check", "outer", "drain_input"}
AnswerOK(t) == proc[t].answered /\ ~proc[t].cancelled =>
  /\ proc[t].pc # "begin"
  /\ proc[t].pc = "check" => ~proc[t].followUp
  /\ proc[t].pc \in Asking =>
       proc[t].canDrain /\ (Accepts(active.state) => ~(state[active.state].pending \subseteq Queued))
  /\ proc[t].pc = "drain_input" => Accepts(active.state)
Answers == \A t \in Turns : AnswerOK(t)

(* A step of somebody else leaves a task where it is. *)
Apart(t) == proc'[t].pc \in RunPcs =>
  \/ proc'[t] = proc[t]
  \/ proc'[t].pc = proc[t].pc /\ proc'[t].cancelled
  \/ proc'[t].pc = "begin" /\ ~proc'[t].answered

(* A step of one process, to a place where no task works. *)
LEMMA ApartOne ==
  ASSUME TypeOK, NEW t \in Turns, NEW p \in Procs, NEW r, proc' = [proc EXCEPT ![p] = r],
         p = t => r.pc \notin RunPcs
  PROVE  Apart(t)
BY Constants DEF TypeOK, Apart

(* A step that only moves on. *)
LEMMA ApartGoto ==
  ASSUME TypeOK, NEW t \in Turns, NEW p \in Procs, NEW pc, Goto(p, pc), pc \notin RunPcs
  PROVE  Apart(t)
<1> DEFINE r == [proc[p] EXCEPT !.pc = pc]
<1>1. proc[p] \in ProcRecord /\ proc' = [proc EXCEPT ![p] = r]
  BY DEF TypeOK, Goto
<1>2. r.pc = pc
  BY <1>1 DEF ProcRecord
<1> HIDE DEF r
<1>3. QED
  BY <1>1, <1>2, ApartOne

(* An abort cancels the task and leaves it where it is. *)
LEMMA ApartTake ==
  ASSUME TypeOK, NEW t \in Turns, NEW p \in {Loop, Guardian}, NEW pc, TakeActive(p, pc)
  PROVE  Apart(t)
<1>1. t \in Procs /\ p \in Procs /\ t # p /\ proc \in [Procs -> ProcRecord] /\ proc[t] \in ProcRecord
  BY Constants DEF TypeOK
<1>2. CASE active.task = t
  <2>1. proc' = [proc EXCEPT ![t].cancelled = TRUE, ![p].pc = "abort",
                             ![p].target = t, ![p].state = active.state]
    BY <1>2, Constants DEF TakeActive
  <2>2. proc'[t] = [proc[t] EXCEPT !.cancelled = TRUE]
    BY <1>1, <2>1
  <2>3. proc'[t].pc = proc[t].pc /\ proc'[t].cancelled
    BY <1>1, <2>2 DEF ProcRecord
  <2>4. QED
    BY <2>3 DEF Apart
<1>3. CASE active.task # t
  <2>1. proc'[t] = proc[t]
    BY <1>1, <1>3 DEF TakeActive
  <2>2. QED
    BY <2>1 DEF Apart
<1>4. QED
  BY <1>2, <1>3

(* Every step that is not one of its own leaves a task where it is. *)
LEMMA ApartSteps ==
  ASSUME KInv, NEW t \in Turns, CalmNext, ~Running(t)
  PROVE  Apart(t)
<1>1. TypeOK /\ Locals /\ t \in Procs /\ Loop \in Procs /\ Loop # t
  BY Constants DEF KInv, Control
<1>2. proc \in [Procs -> ProcRecord]
  BY <1>1 DEF TypeOK
<1>3. ASSUME UNCHANGED proc PROVE Apart(t)
  BY <1>3 DEF Apart
<1>4. ASSUME NEW r, proc' = [proc EXCEPT ![Loop] = r] PROVE Apart(t)
  BY <1>1, <1>4, ApartOne
<1>5. CASE Operation
  <2>1. ASSUME Goto(Loop, "wake") PROVE Apart(t)
    BY <1>1, <2>1, ApartGoto DEF RunPcs
  <2>2. QED
    BY <1>3, <1>4, <1>5, <2>1 DEF Operation, Steer, StartIfIdle, Start, Deliver
<1>6. CASE Interrupt \/ \E a \in Turns : GuardianAborts(a)
  BY <1>1, <1>6, ApartTake DEF Interrupt, GuardianAborts
<1>7. CASE \E i \in Injected : Inject(i)
  BY <1>3, <1>7 DEF Inject
<1>8. ASSUME NEW p \in Procs, Step(p) PROVE Apart(t)
  <2>1. ASSUME Leave(p) PROVE Apart(t)
    BY <1>1, <2>1, ApartOne, PlainGood DEF Leave, RunPcs
  <2>2. CASE Wake(p) \/ ReserveForMail(p) \/ StartTask(p)
    <3>1. ASSUME Goto(p, "reserve") \/ Goto(p, "spawn") PROVE Apart(t)
      BY <1>1, <3>1, ApartGoto DEF RunPcs
    <3>2. ASSUME NEW a, proc' = [proc EXCEPT ![p] = [Proc("drain") EXCEPT !.turn = a, !.state = <<a, 0>>]]
          PROVE  Apart(t)
      <4> DEFINE r == [Proc("drain") EXCEPT !.turn = a, !.state = <<a, 0>>]
      <4>1. r.pc \notin RunPcs
        BY DEF Proc, RunPcs
      <4> HIDE DEF r
      <4>2. QED
        BY <1>1, <3>2, <4>1, ApartOne DEF r
    <3>3. QED
      BY <2>1, <2>2, <3>1, <3>2 DEF Wake, ReserveForMail, StartTask
  <2>3. CASE DrainForMail(p) \/ ExtendReserved(p) \/ FinishAbort(p)
    <3>1. PICK r : proc' = [proc EXCEPT ![p] = r] /\ r.pc \notin RunPcs
      <4>0. proc[p] \in ProcRecord
        BY <1>2
      <4>1. CASE DrainForMail(p)
        <5> DEFINE r == [proc[p] EXCEPT !.pc = "extend", !.items = Available]
        <5>1. r.pc = "extend"
          BY <4>0 DEF ProcRecord
        <5>2. proc' = [proc EXCEPT ![p] = r]
          BY <4>1 DEF DrainForMail
        <5>3. QED
          BY <5>1, <5>2 DEF RunPcs
      <4>2. CASE ExtendReserved(p)
        <5> DEFINE r == [proc[p] EXCEPT !.pc = "start", !.items = {}]
        <5>1. r.pc = "start"
          BY <4>0 DEF ProcRecord
        <5>2. proc' = [proc EXCEPT ![p] = r]
          BY <4>2 DEF ExtendReserved
        <5>3. QED
          BY <5>1, <5>2 DEF RunPcs
      <4>3. CASE FinishAbort(p)
        <5> DEFINE pc == IF proc[p].turn # NoTurn THEN "start" ELSE "wake"
                   r == [proc[p] EXCEPT !.pc = pc, !.target = NoTurn, !.state = NoState]
        <5>1. r.pc = pc
          BY <4>0 DEF ProcRecord
        <5>2. proc' = [proc EXCEPT ![p] = r] /\ pc \notin RunPcs
          BY <4>3 DEF FinishAbort, RunPcs
        <5> HIDE DEF pc, r
        <5>3. QED
          BY <5>1, <5>2
      <4>4. QED
        BY <2>3, <4>1, <4>2, <4>3
    <3>2. QED
      BY <1>1, <3>1, ApartOne
  <2>4. CASE SpawnTask(p)
    <3> DEFINE a == proc[p].turn
               b == [Proc("begin") EXCEPT !.kind = proc[p].kind, !.items = proc[p].items]
    <3>1. b.pc = "begin" /\ ~b.answered
      BY DEF Proc
    <3>2. active.task = NoTurn /\ t # NoTurn
      BY <1>1, <2>4, Constants DEF SpawnTask, Locals, LocalOK, Own
    <3>3. proc' = [q \in Procs |-> IF q = p THEN Rest(p) ELSE IF q = a THEN b
                   ELSE IF q = active.task THEN Aborted(q) ELSE proc[q]]
      BY <2>4 DEF SpawnTask
    <3> HIDE DEF a, b
    <3>4. proc'[t] = Rest(p) \/ proc'[t] = b \/ proc'[t] = proc[t]
      BY <1>1, <3>2, <3>3
    <3>5. Rest(p).pc \notin RunPcs
      BY PlainGood DEF RunPcs
    <3>6. QED
      BY <3>1, <3>4, <3>5 DEF Apart
  <2>5. CASE AbortTask(p)
    <3> DEFINE a == proc[p].target
    <3>1. a \in Turns /\ a \in Procs /\ p \notin Turns
      BY <1>1, <2>5, Constants DEF AbortTask, Locals, LocalOK, AbortPcs
    <3>2. proc' = [proc EXCEPT ![a] = Aborted(a), ![p].pc = "aborted"]
      BY <2>5 DEF AbortTask
    <3> HIDE DEF a
    <3>3. proc'[t] = IF t = a THEN Aborted(t) ELSE proc[t]
      BY <1>1, <1>2, <3>1, <3>2
    <3>4. Aborted(t) \in {Rest(t), proc[t]} /\ Rest(t).pc \notin RunPcs
      BY PlainGood DEF Aborted, RunPcs
    <3>5. QED
      BY <3>3, <3>4 DEF Apart
  <2>6. CASE p \in Turns /\ Running(p)
    <3>1. p # t
      BY <2>6
    <3>2. proc'[t] = proc[t]
      BY <1>1, <1>2, <2>6, <3>1 DEF Running, Goto, Leave, Begin, DrainInput, SamplingFails, CallTools,
         Answer, Continue, StopHookBlocks, Stop, Outer, Cancelled, Flush, Finish, Save, Release
    <3>3. QED
      BY <3>2 DEF Apart
  <2>7. CASE Replace
    BY <1>1, <2>7, ApartTake DEF Replace
  <2>8. CASE Recheck
    <3>1. ASSUME Goto(Loop, "start") PROVE Apart(t)
      BY <1>1, <3>1, ApartGoto DEF RunPcs
    <3>2. QED
      BY <1>4, <2>8, <3>1 DEF Recheck
  <2>9. QED
    BY <1>8, <2>2, <2>3, <2>4, <2>5, <2>6, <2>7, <2>8 DEF Step, Starting, Aborting
<1>9. QED
  BY <1>5, <1>6, <1>7, <1>8 DEF CalmNext, CalmStep

(* While an uncancelled task is in the slot nobody else starts, aborts or   *)
(* runs a turn.                                                             *)
LEMMA Alone ==
  ASSUME KInv, NEW t \in Turns, active.task = t
  PROVE  /\ active # NoActive /\ active.state \in States /\ active.state[1] = t /\ ~Reserved
         /\ \A p \in Procs : proc[p].pc \notin AbortPcs \cup Reserving \cup {"start", "spawn"}
         /\ \A p \in Turns : p # t => /\ proc[p].pc \notin LivePcs
                                      /\ proc[p].pc \in {"save", "release"} =>
                                           proc[p].state \in States /\ proc[p].state # active.state
<1>1. TypeOK /\ Slot /\ Locals /\ Tasks /\ t # NoTurn
  BY Constants DEF KInv, Control
<1>2. active # NoActive /\ active.state \in States /\ active.state[1] = t /\ ~Reserved
  BY <1>1 DEF NoActive, Slot, Reserved
<1>3. \A p \in Procs : proc[p].pc \notin AbortPcs \cup Reserving \cup {"start", "spawn"}
  BY <1>1, <1>2 DEF Locals, LocalOK, Own
<1>4. ASSUME NEW p \in Turns, p # t
      PROVE  /\ proc[p].pc \notin LivePcs
             /\ proc[p].pc \in {"save", "release"} =>
                  proc[p].state \in States /\ proc[p].state # active.state
  <2>1. TaskOK(p)
    BY <1>1 DEF Tasks
  <2>2. proc[p].pc \notin LivePcs
    BY <1>3, <1>4, <2>1 DEF TaskOK, AbortPcs
  <2>3. QED
    BY <1>2, <1>4, <2>1, <2>2 DEF TaskOK
<1>5. QED
  BY <1>2, <1>3, <1>4

(* Somebody else only adds input of the turn to its TurnState. *)
Fed == \/ state'[active.state] = state[active.state]
       \/ /\ state'[active.state].phase = "current"
          /\ ~(state'[active.state].pending \subseteq Queued)

(* What is steered or injected is input of the turn. *)
LEMMA FedByPut ==
  ASSUME TypeOK, active.state \in States, NEW i \in Users \cup Injected, PutAndAccept(active.state, i)
  PROVE  Fed
<1> DEFINE s == active.state
<1>1. state[s] \in [pending : SUBSET Items, phase : {"current", "next"}] /\ i \notin Queued
  BY KernelAssumption DEF TypeOK
<1>2. state'[s] = [state[s] EXCEPT !.pending = @ \cup {i}, !.phase = "current"]
  BY DEF PutAndAccept, TypeOK
<1>3. state'[s].phase = "current" /\ i \in state'[s].pending
  BY <1>1, <1>2
<1>4. QED
  BY <1>1, <1>3 DEF Fed

(* Every step of somebody else does only that. *)
LEMMA FedSteps ==
  ASSUME KInv, NEW t \in Turns, active.task = t, CalmNext, ~Running(t), active'.task = t
  PROVE  active' = active /\ Fed
<1>1. /\ active # NoActive /\ active.state \in States /\ ~Reserved
      /\ \A p \in Procs : proc[p].pc \notin AbortPcs \cup Reserving \cup {"start", "spawn"}
      /\ TypeOK /\ active' # NoActive
  BY Alone, Constants DEF KInv, NoActive
<1>2. ASSUME UNCHANGED <<active, state>> PROVE active' = active /\ Fed
  BY <1>2 DEF Fed
<1>3. CASE Operation
  <2>1. ASSUME NEW i \in Users, Steer(i) PROVE active' = active /\ Fed
    BY <1>1, <2>1, FedByPut DEF Steer
  <2>2. QED
    BY <1>1, <1>2, <1>3, <2>1 DEF Operation, StartIfIdle, Start, Deliver
<1>4. CASE Interrupt \/ \E a \in Turns : GuardianAborts(a)
  BY <1>1, <1>4 DEF Interrupt, GuardianAborts, TakeActive
<1>5. ASSUME NEW i \in Injected, Inject(i) PROVE active' = active /\ Fed
  BY <1>1, <1>5, FedByPut DEF Inject
<1>6. ASSUME NEW p \in Procs, Step(p) PROVE active' = active /\ Fed
  <2>1. CASE Starting(p)
    BY <1>1, <1>2, <1>6, <2>1 DEF Starting, Wake, ReserveForMail, DrainForMail, ExtendReserved,
       StartTask, SpawnTask, Reserving
  <2>2. CASE Aborting(p)
    BY <1>1, <1>6, <2>2 DEF Aborting, AbortTask, FinishAbort, AbortPcs
  <2>3. CASE p \in Turns /\ Running(p)
    <3>1. p # t
      BY <2>3
    <3>2. /\ proc[p].pc \notin LivePcs
          /\ proc[p].pc \in {"save", "release"} =>
               proc[p].state \in States /\ proc[p].state # active.state
      BY <2>3, <3>1, Alone
    <3>3. Save(p) \/ Release(p)
      BY <2>3, <3>2 DEF Running, Begin, DrainInput, SamplingFails, CallTools, Answer, Continue,
         StopHookBlocks, Stop, Outer, Cancelled, Flush, Finish, LivePcs, RunPcs
    <3>4. active' = active
      BY <1>1, <3>3 DEF Save, Release, ClearReserved
    <3>5. state'[active.state] = state[active.state]
      BY <1>1, <3>2, <3>3 DEF Save, Release, TypeOK
    <3>6. QED
      BY <3>4, <3>5 DEF Fed
  <2>4. CASE Replace
    BY <1>1, <2>4 DEF Replace, TakeActive
  <2>5. CASE Recheck
    BY <1>1, <2>5, Constants DEF Recheck, Reserving
  <2>6. QED
    BY <1>6, <2>1, <2>2, <2>3, <2>4, <2>5 DEF Step
<1>7. QED
  BY <1>3, <1>4, <1>5, <1>6 DEF CalmNext, CalmStep

(* The task itself asks again only when it has input of the turn. *)
LEMMA OwnSteps ==
  ASSUME KInv, NEW t \in Turns, AnswerOK(t), Running(t)
  PROVE  AnswerOK(t)'
<1> DEFINE x == proc[t]
           s == active.state
<1>1. TypeOK /\ Tasks /\ t \in Procs /\ proc \in [Procs -> ProcRecord] /\ x \in ProcRecord
  BY Constants DEF KInv, Control, TypeOK
<1>2. x.pc \in RunPcs /\ ~x.cancelled => active.task = t /\ active # NoActive /\ s \in States
  BY <1>1, PcFacts, Alone DEF Tasks, TaskOK
<1>3. ASSUME NEW r, proc' = [proc EXCEPT ![t] = r],
             r.answered /\ ~r.cancelled => r.pc \notin Asking \cup {"begin"}
      PROVE  AnswerOK(t)'
  <2>1. proc'[t] = r
    BY <1>1, <1>3
  <2>2. QED
    BY <1>3, <2>1 DEF AnswerOK, Asking
<1>4. CASE Begin(t)
  <2> DEFINE r == [x EXCEPT !.canDrain = (x.items = {}), !.items = {},
                     !.pc = IF x.kind = "regular" THEN "drain_input" ELSE "flush"]
  <2>1. proc' = [proc EXCEPT ![t] = r] /\ x.pc = "begin"
    BY <1>4 DEF Begin
  <2>2. r.answered = x.answered /\ r.cancelled = x.cancelled
    BY <1>1 DEF ProcRecord
  <2> HIDE DEF r
  <2>3. ~(x.answered /\ ~x.cancelled)
    BY <2>1 DEF AnswerOK
  <2>4. QED
    BY <1>3, <2>1, <2>2, <2>3
<1>5. CASE DrainInput(t) \/ SamplingFails(t) \/ Save(t)
  <2>1. PICK pc \in {"sampling", "flush", "release"} : Goto(t, pc)
    BY <1>5 DEF DrainInput, SamplingFails, Save
  <2> DEFINE r == [x EXCEPT !.pc = pc]
  <2>2. proc' = [proc EXCEPT ![t] = r]
    BY <2>1 DEF Goto
  <2>3. r.pc \notin Asking \cup {"begin"}
    BY <1>1, <2>1 DEF ProcRecord, Asking
  <2> HIDE DEF r
  <2>4. QED
    BY <1>3, <2>2, <2>3
<1>6. CASE CallTools(t)
  <2> DEFINE r == [x EXCEPT !.pc = "check", !.followUp = TRUE, !.answered = FALSE, !.canDrain = TRUE]
  <2>1. proc' = [proc EXCEPT ![t] = r]
    BY <1>6 DEF CallTools
  <2>2. ~r.answered
    BY <1>1 DEF ProcRecord
  <2> HIDE DEF r
  <2>3. QED
    BY <1>3, <2>1, <2>2
<1>7. CASE StopHookBlocks(t)
  <2> DEFINE r == [x EXCEPT !.pc = "drain_input", !.answered = FALSE]
  <2>1. proc' = [proc EXCEPT ![t] = r]
    BY <1>7 DEF StopHookBlocks
  <2>2. ~r.answered
    BY <1>1 DEF ProcRecord
  <2> HIDE DEF r
  <2>3. QED
    BY <1>3, <2>1, <2>2
<1>8. CASE Cancelled(t)
  <2> DEFINE r == [x EXCEPT !.pc = "flush", !.items = {}]
  <2>1. proc' = [proc EXCEPT ![t] = r]
    BY <1>8 DEF Cancelled
  <2>2. r.pc \notin Asking \cup {"begin"}
    BY <1>1 DEF ProcRecord, Asking
  <2> HIDE DEF r
  <2>3. QED
    BY <1>3, <2>1, <2>2
<1>9. CASE Flush(t)
  <2> DEFINE r == IF x.cancelled THEN Rest(t) ELSE [x EXCEPT !.pc = "finish"]
  <2>1. proc' = [proc EXCEPT ![t] = r]
    BY <1>9 DEF Flush
  <2>2. r.pc \in {"idle", "end", "finish"}
    BY <1>1, PlainGood DEF ProcRecord
  <2> HIDE DEF r
  <2>3. QED
    BY <1>3, <2>1, <2>2 DEF Asking
<1>10. CASE Finish(t) \/ Release(t)
  <2>1. PICK r \in {Rest(t), Proc("wake"), [Proc("save") EXCEPT !.state = active.state]} :
          proc' = [proc EXCEPT ![t] = r]
    BY <1>10 DEF Finish, Release, Leave
  <2>2. r.pc \in {"idle", "end", "wake", "save"}
    BY <2>1, PlainGood DEF Proc
  <2>3. QED
    BY <1>3, <2>1, <2>2 DEF Asking
<1>11. CASE Answer(t)
  <2> DEFINE r == [x EXCEPT !.pc = "check", !.followUp = FALSE, !.answered = TRUE, !.canDrain = TRUE]
  <2>1. proc' = [proc EXCEPT ![t] = r] /\ Defer(t) /\ UNCHANGED active /\ x.pc = "sampling"
    BY <1>11 DEF Answer
  <2>2. r.pc = "check" /\ ~r.followUp /\ r.canDrain /\ r.cancelled = x.cancelled
    BY <1>1 DEF ProcRecord
  <2> HIDE DEF r
  <2>3. proc'[t] = r
    BY <1>1, <2>1
  <2>4. ~x.cancelled => (state'[s].phase = "current" => ~(state'[s].pending \subseteq Queued))
    <3> SUFFICES ASSUME ~x.cancelled PROVE state'[s].phase = "current" => ~(state'[s].pending \subseteq Queued)
      OBVIOUS
    <3>1. active.task = t /\ s \in States
      BY <1>2, <2>1 DEF RunPcs
    <3>2. state \in [States -> [pending : SUBSET Items, phase : {"current", "next"}]]
      BY <1>1 DEF TypeOK
    <3>3. CASE state[s].pending \subseteq Queued
      <4>1. state' = [state EXCEPT ![s].phase = "next"]
        BY <2>1, <3>1, <3>3 DEF Defer
      <4>2. state'[s].phase = "next"
        BY <3>1, <3>2, <4>1
      <4>3. QED
        BY <4>2
    <3>4. CASE ~(state[s].pending \subseteq Queued)
      BY <2>1, <3>1, <3>4 DEF Defer
    <3>5. QED
      BY <3>3, <3>4
  <2>5. QED
    BY <2>1, <2>2, <2>3, <2>4 DEF AnswerOK, Accepts
<1>12. CASE Continue(t) \/ Stop(t) \/ Outer(t)
  <2>1. UNCHANGED <<active, state, mailbox>> /\ x.pc \in {"check", "outer"}
    BY <1>12 DEF Continue, Stop, Outer
  <2>2. PICK r : /\ proc' = [proc EXCEPT ![t] = r] /\ r.answered = x.answered
                 /\ r.cancelled = x.cancelled /\ r.pc \in {"drain_input", "outer", "flush"}
                 /\ x.canDrain /\ (x.pc = "check" => ~x.followUp) => r.canDrain
                 /\ (x.pc = "check" => ~x.followUp) /\ r.pc = "drain_input" => HasPendingInput
    <3>1. CASE Continue(t)
      <4>1. PICK drain \in {TRUE, ~x.followUp} :
              proc' = [proc EXCEPT ![t].pc = "drain_input", ![t].canDrain = drain]
        BY <3>1 DEF Continue
      <4> DEFINE r == [x EXCEPT !.pc = "drain_input", !.canDrain = drain]
      <4>2. /\ r.answered = x.answered /\ r.cancelled = x.cancelled /\ r.pc = "drain_input"
            /\ r.canDrain = drain
        BY <1>1 DEF ProcRecord
      <4>3. x.pc = "check" /\ (x.followUp \/ HasPendingInput)
        BY <3>1 DEF Continue
      <4>4. proc' = [proc EXCEPT ![t] = r]
        BY <4>1
      <4>5. ~x.followUp => drain
        BY Zenon
      <4> HIDE DEF r
      <4>6. QED
        BY <4>2, <4>3, <4>4, <4>5
    <3>2. CASE Stop(t) \/ Outer(t)
      <4>1. PICK pc \in {"drain_input", "outer", "flush"} :
              Goto(t, pc) /\ (pc = "drain_input" => HasPendingInput)
        BY <3>2 DEF Stop, Outer
      <4> DEFINE r == [x EXCEPT !.pc = pc]
      <4>2. /\ r.answered = x.answered /\ r.cancelled = x.cancelled /\ r.pc = pc
            /\ r.canDrain = x.canDrain
        BY <1>1 DEF ProcRecord
      <4>3. proc' = [proc EXCEPT ![t] = r]
        BY <4>1 DEF Goto
      <4> HIDE DEF r
      <4>4. QED
        BY <4>1, <4>2, <4>3
    <3>3. QED
      BY <1>12, <3>1, <3>2
  <2>3. proc'[t] = r
    BY <1>1, <2>2
  <2> SUFFICES ASSUME x.answered, ~x.cancelled, r.pc \in Asking
               PROVE  /\ r.canDrain
                      /\ Accepts(s) => ~(state[s].pending \subseteq Queued)
                      /\ r.pc = "drain_input" => Accepts(s)
    BY <2>1, <2>2, <2>3 DEF AnswerOK, Accepts, Asking
  <2>4. /\ x.canDrain /\ (x.pc = "check" => ~x.followUp)
        /\ Accepts(s) => ~(state[s].pending \subseteq Queued)
    BY <2>1 DEF AnswerOK, Asking
  <2>5. HasPendingInput => Accepts(s)
    BY <1>2, <2>1 DEF HasPendingInput, Available, RunPcs
  <2>6. QED
    BY <2>2, <2>4, <2>5
<1>13. QED
  BY <1>4, <1>5, <1>6, <1>7, <1>8, <1>9, <1>10, <1>11, <1>12 DEF Running

(* After an answer every behaviour that is calm keeps to this. *)
LEMMA AnswersStep == KInv /\ KInv' /\ Answers /\ [CalmNext]_vars => Answers'
<1> SUFFICES ASSUME KInv, KInv', Answers, [CalmNext]_vars, NEW t \in Turns PROVE AnswerOK(t)'
  BY DEF Answers
<1>1. AnswerOK(t)
  BY DEF Answers
<1>2. CASE UNCHANGED vars
  BY <1>1, <1>2 DEF vars, AnswerOK, Accepts
<1>3. CASE CalmNext /\ Running(t)
  BY <1>1, <1>3, OwnSteps
<1>4. CASE CalmNext /\ ~Running(t)
  <2> SUFFICES ASSUME proc'[t].answered, ~proc'[t].cancelled, proc'[t].pc \in Asking \cup {"begin"}
               PROVE  AnswerOK(t)'
    BY DEF AnswerOK, Asking
  <2>1. Asking \cup {"begin"} \subseteq RunPcs /\ RunPcs \subseteq LivePcs
    BY DEF Asking, RunPcs, LivePcs
  <2>2. proc'[t] = proc[t]
    BY <1>4, <2>1, ApartSteps DEF Apart
  <2>3. active.task = t /\ active'.task = t
    BY <2>1, <2>2 DEF KInv, Control, Tasks, TaskOK
  <2>4. active' = active /\ Fed
    BY <1>4, <2>3, FedSteps
  <2>5. QED
    BY <1>1, <2>2, <2>4 DEF AnswerOK, Fed, Accepts
<1>5. QED
  BY <1>2, <1>3, <1>4

(* Every calm step is a step of the code. *)
LEMMA CalmIsCode == CalmNext => Next
BY DEF CalmNext, CalmStep, Next

(* The step that asks the model again takes input of the turn itself. *)
LEMMA AskedAgain ==
  ASSUME KInv, PInv, Answers, CalmNext, NEW t \in Turns, proc[t].answered, ~proc[t].cancelled,
         proc[t].pc = "drain_input", proc'[t].pc = "sampling"
  PROVE  (settled' \ settled) \ Queued # {}
<1>1. Running(t)
  BY ApartSteps DEF Apart, RunPcs
<1>2. proc \in [Procs -> ProcRecord] /\ t \in Procs /\ proc[t] \in ProcRecord /\ "drain_input" \in LivePcs
  BY Constants DEF PInv, TypeOK, LivePcs, RunPcs
<1>3. DrainInput(t)
  <2>1. DrainInput(t) \/ Cancelled(t)
    BY <1>1 DEF Running, Begin, SamplingFails, CallTools, Answer, Continue, StopHookBlocks, Stop,
       Outer, Flush, Finish, Save, Release
  <2>2. QED
    BY <2>1 DEF Cancelled
<1>4. active.task = t
  BY <1>2 DEF KInv, Control, Tasks, TaskOK
<1>5. active # NoActive /\ active.state \in States
  BY <1>4, Alone
<1>6. proc[t].canDrain /\ Accepts(active.state) /\ ~(state[active.state].pending \subseteq Queued)
  BY DEF Answers, AnswerOK, Asking
<1>7. PICK i \in state[active.state].pending : i \notin Queued
  BY <1>6
<1>8. settled' = settled \cup Available /\ i \in Available
  BY <1>3, <1>5, <1>6 DEF DrainInput, Available
<1>9. i \notin settled
  BY <1>5 DEF PInv, OnePlace
<1>10. QED
  BY <1>7, <1>8, <1>9

(* Late mail that asks for no turn never extends an answer. *)
THEOREM AnswerStandsHolds == CalmSpec => AnswerStands
<1>1. Init => Answers
  BY Constants, ProcTyped DEF Init, Answers, AnswerOK, Proc
<1>2. CalmSpec => []PInv
  BY PInvInit, PInvStep, CalmIsCode, PTL DEF CalmSpec
<1>3. CalmSpec => []Answers
  BY <1>1, Inductive, AnswersStep, PTL DEF CalmSpec
<1>4. KInv /\ PInv /\ Answers /\ [CalmNext]_vars =>
        [\A t \in Turns :
           /\ proc[t].answered /\ ~proc[t].cancelled
           /\ proc[t].pc = "drain_input" /\ proc'[t].pc = "sampling"
           => (settled' \ settled) \ Queued # {}]_vars
  BY AskedAgain
<1>5. QED
  BY <1>2, <1>3, <1>4, Inductive, PTL DEF CalmSpec, AnswerStands
=============================================================================
