--------------------- MODULE MemoryConsolidationProofs ---------------------
(* Theorems about module MemoryConsolidation, for any threads, workers and  *)
(* tokens, and any lengths of lease, retry delay and cooldown.              *)
EXTENDS MemoryConsolidation, TLAPS

-----------------------------------------------------------------------------
(* What the statements on the row and on a worker do                        *)

(* The rows that the statements write. *)
LEMMA RowsTyped ==
  /\ NoRow \in Row /\ NoRow.status = "none"
  /\ FailedRow \in Row /\ FailedRow.status = "error"
  /\ DoneRow \in Row /\ DoneRow.status = "done"
<1>1. /\ 0 \in 0..LeaseSeconds /\ 0 \in 0..RetryDelay /\ 0 \in 0..Cooldown
      /\ RetryDelay \in 0..RetryDelay /\ Cooldown \in 0..Cooldown
  BY ConsolidationAssumption
<1>2. NoRow \in Row
  BY <1>1, Zenon DEF NoRow, Row
<1>3. QED
  BY <1>1, <1>2 DEF NoRow, FailedRow, DoneRow, Row

(* The row of a claim is a full lease. *)
LEMMA ClaimedRowTyped ==
  ASSUME NEW k \in Tokens
  PROVE  /\ ClaimedRow(k) \in Row
         /\ ClaimedRow(k).status = "running" /\ ClaimedRow(k).token = k
         /\ ClaimedRow(k).lease = LeaseSeconds
<1>1. LeaseSeconds \in 0..LeaseSeconds
  BY ConsolidationAssumption
<1>2. QED
  BY <1>1, RowsTyped DEF ClaimedRow, Row

(* Enqueueing leaves a running row alone and never makes one. *)
LEMMA EnqueuedTyped ==
  ASSUME NEW r \in Row
  PROVE  /\ Enqueued(r) \in Row
         /\ r.status = "running" => Enqueued(r) = r
         /\ r.status # "running" => Enqueued(r).status # "running"
<1>1. 0 \in 0..RetryDelay
  BY ConsolidationAssumption
<1>2. QED
  BY <1>1 DEF Enqueued, Row

(* The heartbeat and the confirmation change nothing but the lease. *)
LEMMA RenewedTyped ==
  ASSUME row \in Row, row' = [row EXCEPT !.lease = LeaseSeconds]
  PROVE  /\ row' \in Row
         /\ row'.status = row.status /\ row'.token = row.token
         /\ row'.lease = LeaseSeconds
<1>1. LeaseSeconds \in 0..LeaseSeconds
  BY ConsolidationAssumption
<1>2. QED
  BY <1>1 DEF Row

(* Time takes at most one unit from the lease. *)
LEMMA TickTyped ==
  ASSUME row \in Row, Tick
  PROVE  /\ row' \in Row
         /\ row'.status = row.status /\ row'.token = row.token
         /\ row'.lease = Less(row.lease)
<1>1. /\ \A n \in 0..LeaseSeconds : Less(n) \in 0..LeaseSeconds
      /\ \A n \in 0..RetryDelay : Less(n) \in 0..RetryDelay
      /\ \A n \in 0..Cooldown : Less(n) \in 0..Cooldown
  BY ConsolidationAssumption DEF Less
<1>2. QED
  BY <1>1 DEF Tick, Row

(* A claim takes a token that exists. *)
LEMMA NewTokenExists ==
  ASSUME FreshTokens # {}
  PROVE  NewToken \in Tokens
<1>1. NewToken \in FreshTokens
  BY DEF NewToken
<1>2. QED
  BY <1>1 DEF FreshTokens

(* mark_global_phase2_job_failed *)
LEMMA MarkFailedTyped ==
  ASSUME TypeOK, NEW w \in Workers, MarkFailed(w)
  PROVE  row' \in Row /\ (row' = row \/ row'.status # "running")
BY RowsTyped DEF MarkFailed, TypeOK

(* mark_global_phase2_job_succeeded *)
LEMMA MarkSucceededTyped ==
  ASSUME TypeOK, NEW w \in Workers, MarkSucceeded(w)
  PROVE  /\ row' \in Row /\ (row' = row \/ row'.status # "running")
         /\ selected' \in Snapshot
<1>1. CASE Owned(w)
  BY <1>1, RowsTyped DEF MarkSucceeded, TypeOK, Snapshot
<1>2. CASE ~Owned(w)
  BY <1>2 DEF MarkSucceeded, TypeOK
<1>3. QED
  BY <1>1, <1>2

(* A session that is not in the pipeline. *)
LEMMA IdleTyped ==
  Idle \in Worker /\ Idle.pc = "idle" /\ Idle.agent = FALSE /\ Idle.token = NoToken
<1>1. [t \in Threads |-> Null] \in Snapshot
  BY DEF Snapshot
<1>2. Idle \in Worker
  BY <1>1, Zenon DEF Idle, Worker
<1>3. QED
  BY <1>2 DEF Idle

(* The worker goes on to its next step. *)
LEMMA GotoTyped ==
  ASSUME TypeOK, NEW w \in Workers, NEW pc \in Steps, Goto(w, pc)
  PROVE  /\ worker' \in [Workers -> Worker]
         /\ worker'[w].pc = pc /\ worker'[w].token = worker[w].token
         /\ worker'[w].input = worker[w].input /\ worker'[w].agent = worker[w].agent
         /\ \A v \in Workers : v # w => worker'[v] = worker[v]
BY DEF TypeOK, Worker, Goto

(* The worker leaves. *)
LEMMA StopTyped ==
  ASSUME TypeOK, NEW w \in Workers, Stop(w)
  PROVE  /\ worker' \in [Workers -> Worker]
         /\ worker'[w] = Idle
         /\ \A v \in Workers : v # w => worker'[v] = worker[v]
BY IdleTyped DEF TypeOK, Stop

(* It goes on, and its agent starts or stops. *)
LEMMA AgentTyped ==
  ASSUME TypeOK, NEW w \in Workers, NEW pc \in Steps, NEW on \in BOOLEAN,
         worker' = [worker EXCEPT ![w].pc = pc, ![w].agent = on]
  PROVE  /\ worker' \in [Workers -> Worker]
         /\ worker'[w].pc = pc /\ worker'[w].token = worker[w].token
         /\ worker'[w].input = worker[w].input /\ worker'[w].agent = on
         /\ \A v \in Workers : v # w => worker'[v] = worker[v]
BY DEF TypeOK, Worker

(* It leaves an agent behind, under its own token. *)
LEMMA ShutdownFailsTyped ==
  ASSUME TypeOK, NEW w \in Workers, ShutdownFails(w)
  PROVE  /\ worker' \in [Workers -> Worker]
         /\ worker'[w].pc = "idle" /\ (worker'[w].agent = TRUE => worker[w].agent = TRUE)
         /\ worker'[w].agent = TRUE => worker'[w].token = worker[w].token
         /\ \A v \in Workers : v # w => worker'[v] = worker[v]
<1> DEFINE left == [Idle EXCEPT !.token = worker[w].token, !.agent = TRUE]
<1>1. left \in Worker /\ left.pc = "idle" /\ left.agent = TRUE /\ left.token = worker[w].token
  BY IdleTyped DEF TypeOK, Worker
<1>2. worker' = [worker EXCEPT ![w] = IF worker[w].agent THEN left ELSE Idle]
  BY DEF ShutdownFails
<1> HIDE DEF left
<1>3. CASE worker[w].agent
  BY <1>1, <1>2, <1>3 DEF TypeOK, Worker
<1>4. CASE ~worker[w].agent
  BY <1>2, <1>4, IdleTyped DEF TypeOK
<1>5. QED
  BY <1>3, <1>4

(* The parts of the workspace and the pair of them. *)
LEMMA WorkspaceTyped ==
  ASSUME TypeOK
  PROVE  workspace \in Contents \X Contents /\ workspace # Broken
BY ConsolidationAssumption DEF TypeOK, workspace, Contents

-----------------------------------------------------------------------------
(* Types                                                                    *)

(* Nothing is stored, claimed or written at first. *)
LEMMA TypeInit == Init => TypeOK
<1> SUFFICES ASSUME Init PROVE TypeOK
  OBVIOUS
<1>1. worker \in [Workers -> Worker] /\ row \in Row
  BY IdleTyped, RowsTyped DEF Init
<1>2. /\ output \in Snapshot /\ selected \in Snapshot /\ enabled \subseteq Threads
      /\ files \in Contents /\ memory \in Contents
      /\ baseline \in (Contents \X Contents) \cup {Broken}
      /\ faults \in Nat /\ resets \in Nat
  BY DEF Init, Snapshot, Contents
<1>3. resetting \in BOOLEAN
  BY DEF Init
<1>4. QED
  BY <1>1, <1>2, <1>3 DEF TypeOK

(* The steps of a worker keep the types. *)
LEMMA WorkTyped ==
  ASSUME TypeOK, NEW w \in Workers, Work(w)
  PROVE  TypeOK'
<1> USE DEF store, bounds
<1>1. CASE Prepare(w)
  <2>1. baseline' \in (Contents \X Contents) \cup {Broken}
    BY <1>1, WorkspaceTyped DEF Prepare, TypeOK
  <2>2. worker' \in [Workers -> Worker]
    BY <1>1, GotoTyped DEF Prepare, Steps
  <2>3. QED
    BY <1>1, <2>1, <2>2 DEF Prepare, TypeOK, workspace
<1>2. CASE Load(w)
  <2>1. PICK S \in Selections :
          worker' = [worker EXCEPT ![w].pc = "loaded",
                       ![w].input = [t \in Threads |-> IF t \in S THEN output[t] ELSE Null]]
    BY <1>2 DEF Load
  <2>2. [t \in Threads |-> IF t \in S THEN output[t] ELSE Null] \in Snapshot
    BY DEF TypeOK, Snapshot
  <2>3. worker' \in [Workers -> Worker]
    BY <2>1, <2>2 DEF TypeOK, Worker, Steps
  <2>4. QED
    BY <1>2, <2>3 DEF Load, TypeOK, workspace
<1>3. CASE SyncFirst(w)
  <2>1. worker' \in [Workers -> Worker]
    BY <1>3, GotoTyped DEF SyncFirst, Steps
  <2>2. QED
    BY <1>3, <2>1 DEF SyncFirst, TypeOK, Contents
<1>4. CASE SyncLast(w)
  <2>1. worker' \in [Workers -> Worker]
    BY <1>4, GotoTyped DEF SyncLast, Steps
  <2>2. files' \in Contents
    BY <1>4 DEF SyncLast, TypeOK, Worker, Contents
  <2>3. QED
    BY <1>4, <2>1, <2>2 DEF SyncLast, TypeOK
<1>5. CASE NoChanges(w)
  BY <1>5, StopTyped, MarkSucceededTyped DEF NoChanges, TypeOK, workspace
<1>6. CASE Spawn(w)
  <2>1. worker' \in [Workers -> Worker]
    BY <1>6, AgentTyped DEF Spawn, Steps
  <2>2. QED
    BY <1>6, <2>1 DEF Spawn, TypeOK, workspace
<1>7. CASE AgentCompletes(w)
  <2>1. worker' \in [Workers -> Worker]
    BY <1>7, AgentTyped DEF AgentCompletes, Steps
  <2>2. QED
    BY <1>7, <2>1 DEF AgentCompletes, TypeOK
<1>8. CASE Shutdown(w)
  <2> DEFINE pc == IF worker[w].pc = "completed" THEN "validate" ELSE "cleanup"
  <2>1. pc \in Steps
    BY DEF Steps
  <2>2. worker' = [worker EXCEPT ![w].pc = pc, ![w].agent = FALSE]
    BY <1>8 DEF Shutdown, TypeOK, Worker
  <2>3. worker' \in [Workers -> Worker]
    BY <2>1, <2>2, AgentTyped
  <2>4. QED
    BY <1>8, <2>3 DEF Shutdown, TypeOK, workspace
<1>9. CASE Cleanup(w)
  BY <1>9, StopTyped, MarkFailedTyped DEF Cleanup, TypeOK, workspace
<1>10. CASE Validate(w)
  <2>1. worker' \in [Workers -> Worker] /\ row' \in Row
    BY <1>10, GotoTyped, StopTyped, MarkFailedTyped DEF Validate, Steps, TypeOK
  <2>2. QED
    BY <1>10, <2>1 DEF Validate, TypeOK, workspace
<1>11. CASE Confirm(w)
  <2>1. worker' \in [Workers -> Worker] /\ row' \in Row
    BY <1>11, GotoTyped, StopTyped, RenewedTyped DEF Confirm, Steps, TypeOK
  <2>2. QED
    BY <1>11, <2>1 DEF Confirm, TypeOK, workspace
<1>12. CASE RemoveGit(w)
  <2>1. worker' \in [Workers -> Worker]
    BY <1>12, GotoTyped DEF RemoveGit, Steps
  <2>2. QED
    BY <1>12, <2>1 DEF RemoveGit, TypeOK, workspace
<1>13. CASE CommitBaseline(w)
  <2>1. worker' \in [Workers -> Worker]
    BY <1>13, GotoTyped DEF CommitBaseline, Steps
  <2>2. baseline' \in Contents \X Contents
    BY <1>13, WorkspaceTyped DEF CommitBaseline
  <2>3. QED
    BY <1>13, <2>1, <2>2 DEF CommitBaseline, TypeOK, workspace
<1>14. CASE Mark(w)
  BY <1>14, StopTyped, MarkSucceededTyped DEF Mark, TypeOK, workspace
<1>15. CASE OrphanEnds(w)
  BY <1>15, StopTyped DEF OrphanEnds, TypeOK, workspace
<1>16. QED
  BY <1>1, <1>2, <1>3, <1>4, <1>5, <1>6, <1>7, <1>8, <1>9, <1>10, <1>11, <1>12, <1>13,
     <1>14, <1>15 DEF Work

(* So do its faults, *)
LEMMA FaultTyped ==
  ASSUME TypeOK, NEW w \in Workers,
         StepFails(w) \/ AgentFails(w) \/ ShutdownFails(w) \/ Unrecorded(w) \/ Crash(w)
  PROVE  TypeOK'
<1> USE DEF store, bounds, Fault
<1>1. CASE StepFails(w)
  BY <1>1, StopTyped, MarkFailedTyped DEF StepFails, TypeOK, workspace
<1>2. CASE AgentFails(w)
  <2>1. worker' \in [Workers -> Worker]
    BY <1>2, AgentTyped DEF AgentFails, Steps
  <2>2. UNCHANGED <<row, store, workspace, baseline, resetting, resets>> /\ faults' = faults + 1
    BY <1>2, Zenon DEF AgentFails
  <2>3. faults' \in Nat
    BY <2>2 DEF TypeOK
  <2>4. QED
    BY <2>1, <2>2, <2>3 DEF TypeOK, workspace
<1>3. CASE ShutdownFails(w)
  <2>1. worker' \in [Workers -> Worker]
    BY <1>3, ShutdownFailsTyped
  <2>2. QED
    BY <1>3, <2>1 DEF ShutdownFails, TypeOK, workspace
<1>4. CASE Unrecorded(w)
  BY <1>4, StopTyped DEF Unrecorded, TypeOK, workspace
<1>5. CASE Crash(w)
  BY <1>5, StopTyped DEF Crash, TypeOK, workspace
<1>6. QED
  BY <1>1, <1>2, <1>3, <1>4, <1>5

(* and the other users of the tables. *)
LEMMA TableTyped ==
  ASSUME TypeOK, NEW t \in Threads, Extract(t) \/ Delete(t) \/ Prune(t) \/ Pollute(t)
  PROVE  TypeOK'
<1> USE DEF bounds
<1>1. row' \in Row
  BY EnqueuedTyped DEF Extract, Delete, Prune, Pollute, TypeOK
<1>2. output' \in Snapshot /\ selected' \in Snapshot /\ enabled' \subseteq Threads
  BY DEF Extract, Delete, Prune, Pollute, TypeOK, Snapshot, Null
<1>3. QED
  BY <1>1, <1>2 DEF Extract, Delete, Prune, Pollute, TypeOK, workspace

(* Every step keeps the types: the lease, the retry delay and the cooldown *)
(* stay between 0 and their lengths, and nobody is at a step that does not *)
(* exist.                                                                  *)
LEMMA TypeStep == TypeOK /\ [Next]_vars => TypeOK'
<1> SUFFICES ASSUME TypeOK, [Next]_vars PROVE TypeOK'
  OBVIOUS
<1>1. CASE Run
  <2>1. ASSUME NEW w \in Workers, AgentWrites(w) PROVE TypeOK'
    BY <2>1 DEF AgentWrites, store, bounds, TypeOK, Contents
  <2>2. ASSUME NEW w \in Workers, Heartbeat(w) PROVE TypeOK'
    <3>1. worker' \in [Workers -> Worker] /\ row' \in Row
      BY <2>2, GotoTyped, RenewedTyped DEF Heartbeat, Steps, TypeOK
    <3>2. QED
      BY <2>2, <3>1 DEF Heartbeat, store, workspace, bounds, TypeOK
  <2>3. CASE ResetFiles
    BY <2>3 DEF ResetFiles, store, TypeOK, Contents
  <2>4. QED
    BY <1>1, <2>1, <2>2, <2>3, WorkTyped, FaultTyped, TableTyped DEF Run
<1>2. ASSUME NEW w \in Workers, Claim(w) PROVE TypeOK'
  <2>1. row' \in Row
    BY <1>2, NewTokenExists, ClaimedRowTyped DEF Claim
  <2>2. worker' \in [Workers -> Worker]
    BY <1>2, NewTokenExists DEF Claim, TypeOK, Worker, Steps
  <2>3. QED
    BY <1>2, <2>1, <2>2 DEF Claim, store, workspace, bounds, TypeOK
<1>3. CASE ResetRows
  BY <1>3, RowsTyped DEF ResetRows, workspace, TypeOK, Snapshot
<1>4. CASE Tick
  BY <1>4, TickTyped DEF Tick, store, workspace, bounds, TypeOK
<1>5. CASE UNCHANGED vars
  BY <1>5 DEF vars, bounds, TypeOK
<1>6. QED
  BY <1>1, <1>2, <1>3, <1>4, <1>5 DEF Next

(* The state of the memory pipeline's second phase is well typed, whatever *)
(* fails and whoever outlives its lease.                                   *)
THEOREM ConsolidationTypeCorrect == Spec => []TypeOK
BY TypeInit, TypeStep, PTL DEF Spec

-----------------------------------------------------------------------------
(* The lock                                                                 *)

SameLock ==
  /\ row'.status = "running" <=> row.status = "running"
  /\ row.status = "running" => row'.token = row.token /\ row'.lease = row.lease
Renewed == row.status = "running" /\ row' = [row EXCEPT !.lease = LeaseSeconds]
Freed == row'.status # "running"

(* Nobody starts to touch the workspace, and who goes on keeps its token. *)
NobodyNew ==
  \A v \in Workers : Touching(v)' => Touching(v) /\ worker'[v].token = worker[v].token
LeftBy(w) == Touching(w) /\ ~Touching(w)'

(* A step of one worker w. *)
LEMMA OneMoves ==
  ASSUME NEW w \in Workers,
         \A v \in Workers : v # w => worker'[v] = worker[v],
         Touching(w)' => Touching(w) /\ worker'[w].token = worker[w].token
  PROVE  NobodyNew
BY DEF NobodyNew, Touching

(* A worker that goes on was touching the workspace before. *)
LEMMA GoOn ==
  ASSUME TypeOK, NEW w \in Workers, NEW pc \in Steps, Goto(w, pc), worker[w].pc # "idle"
  PROVE  NobodyNew
BY GotoTyped, OneMoves DEF Touching

(* A worker that stops does not touch it any more. *)
LEMMA Leave ==
  ASSUME TypeOK, NEW w \in Workers, Stop(w)
  PROVE  NobodyNew /\ ~Touching(w)'
<1>1. ~Touching(w)'
  BY StopTyped, IdleTyped DEF Touching
<1>2. QED
  BY <1>1, StopTyped, OneMoves

(* A step of a worker at work, of its agent or of a fault keeps the lock,  *)
(* renews it, or gives it up and leaves.                                   *)
LEMMA WorkerSteps ==
  ASSUME TypeOK, NEW w \in Workers,
         \/ Work(w) \/ AgentWrites(w) \/ Heartbeat(w)
         \/ StepFails(w) \/ AgentFails(w) \/ ShutdownFails(w) \/ Unrecorded(w) \/ Crash(w)
  PROVE  NobodyNew /\ (row' = row \/ Renewed \/ (Freed /\ LeftBy(w)))
<1>1. CASE Prepare(w)
  BY <1>1, GoOn DEF Prepare, Steps
<1>2. CASE Load(w)
  <2>1. PICK S \in Selections :
          worker' = [worker EXCEPT ![w].pc = "loaded",
                       ![w].input = [t \in Threads |-> IF t \in S THEN output[t] ELSE Null]]
    BY <1>2 DEF Load
  <2>2. worker'[w].token = worker[w].token /\ \A v \in Workers : v # w => worker'[v] = worker[v]
    BY <2>1 DEF TypeOK, Worker
  <2>3. QED
    BY <1>2, <2>2, OneMoves DEF Load, Touching
<1>3. CASE SyncFirst(w)
  BY <1>3, GoOn DEF SyncFirst, Steps
<1>4. CASE SyncLast(w)
  BY <1>4, GoOn DEF SyncLast, Steps
<1>5. CASE NoChanges(w)
  BY <1>5, Leave, MarkSucceededTyped DEF NoChanges, LeftBy, Touching, Freed
<1>6. CASE Spawn(w)
  BY <1>6, AgentTyped, OneMoves DEF Spawn, Steps, Touching
<1>7. CASE AgentCompletes(w)
  BY <1>7, AgentTyped, OneMoves DEF AgentCompletes, Steps, Touching
<1>8. CASE Shutdown(w)
  <2>1. worker'[w].token = worker[w].token /\ \A v \in Workers : v # w => worker'[v] = worker[v]
    BY <1>8 DEF Shutdown, TypeOK, Worker
  <2>2. QED
    BY <1>8, <2>1, OneMoves DEF Shutdown, Touching
<1>9. CASE Cleanup(w)
  BY <1>9, Leave, MarkFailedTyped DEF Cleanup, LeftBy, Touching, Freed
<1>10. CASE Validate(w)
  BY <1>10, GoOn, Leave, MarkFailedTyped DEF Validate, Steps, LeftBy, Touching, Freed
<1>11. CASE Confirm(w)
  BY <1>11, GoOn, Leave DEF Confirm, Steps, Renewed, Owned
<1>12. CASE RemoveGit(w)
  BY <1>12, GoOn DEF RemoveGit, Steps
<1>13. CASE CommitBaseline(w)
  BY <1>13, GoOn DEF CommitBaseline, Steps
<1>14. CASE Mark(w)
  BY <1>14, Leave, MarkSucceededTyped DEF Mark, LeftBy, Touching, Freed
<1>15. CASE OrphanEnds(w)
  BY <1>15, Leave DEF OrphanEnds
<1>16. CASE AgentWrites(w)
  BY <1>16 DEF AgentWrites, NobodyNew, Touching
<1>17. CASE Heartbeat(w)
  <2>1. CASE Owned(w)
    BY <1>17, <2>1 DEF Heartbeat, Renewed, Owned, NobodyNew, Touching
  <2>2. CASE ~Owned(w)
    BY <1>17, <2>2, GoOn DEF Heartbeat, Steps
  <2>3. QED
    BY <2>1, <2>2
<1>18. CASE StepFails(w)
  BY <1>18, Leave, MarkFailedTyped DEF StepFails, LeftBy, Touching, Freed
<1>19. CASE AgentFails(w)
  BY <1>19, AgentTyped, OneMoves DEF AgentFails, Steps, Touching
<1>20. CASE ShutdownFails(w)
  <2>1. Touching(w)
    BY <1>20 DEF ShutdownFails, Touching
  <2>2. Touching(w)' => worker'[w].token = worker[w].token
    BY <1>20, ShutdownFailsTyped DEF Touching, Worker
  <2>3. QED
    BY <1>20, <2>1, <2>2, ShutdownFailsTyped, OneMoves DEF ShutdownFails
<1>21. CASE Unrecorded(w)
  BY <1>21, Leave DEF Unrecorded
<1>22. CASE Crash(w)
  BY <1>22, Leave DEF Crash
<1>23. QED
  BY <1>1, <1>2, <1>3, <1>4, <1>5, <1>6, <1>7, <1>8, <1>9, <1>10, <1>11, <1>12, <1>13,
     <1>14, <1>15, <1>16, <1>17, <1>18, <1>19, <1>20, <1>21, <1>22 DEF Work

(* The other users of the tables and of the directory neither take the     *)
(* lock nor become its holder.                                             *)
LEMMA TableSteps ==
  ASSUME TypeOK,
         \/ \E t \in Threads : Extract(t) \/ Delete(t) \/ Prune(t) \/ Pollute(t)
         \/ ResetFiles
  PROVE  NobodyNew /\ SameLock
<1>1. UNCHANGED worker
  BY DEF Extract, Delete, Prune, Pollute, ResetFiles
<1>2. row' = row \/ row' = Enqueued(row)
  BY DEF Extract, Delete, Prune, Pollute, ResetFiles
<1>3. SameLock
  BY <1>2, EnqueuedTyped DEF SameLock, TypeOK
<1>4. QED
  BY <1>1, <1>3 DEF NobodyNew, Touching

(* What Run does to the lock, for both specifications. *)
LEMMA RunSteps ==
  ASSUME TypeOK, Run
  PROVE  NobodyNew /\ (SameLock \/ Renewed \/ (Freed /\ \E w \in Workers : LeftBy(w)))
<1>1. row' = row => SameLock
  BY DEF SameLock
<1>2. QED
  BY <1>1, WorkerSteps, TableSteps DEF Run

(* A lock that is held is held under a token. *)
LInv == TypeOK /\ (row.status = "running" => row.token \in Tokens)

(* Only a claim makes a row run, and it writes a token into it. *)
LEMMA LInvStep == LInv /\ [Next]_vars => LInv'
<1> SUFFICES ASSUME LInv, [Next]_vars PROVE LInv'
  OBVIOUS
<1>1. TypeOK'
  BY TypeStep DEF LInv
<1>2. CASE Run
  <2>1. CASE Renewed
    BY <1>1, <2>1, RenewedTyped DEF LInv, TypeOK, Renewed
  <2>2. QED
    BY <1>1, <1>2, <2>1, RunSteps DEF LInv, SameLock, Freed, Renewed
<1>3. ASSUME NEW w \in Workers, Claim(w) PROVE LInv'
  BY <1>1, <1>3, NewTokenExists, ClaimedRowTyped DEF Claim, LInv
<1>4. CASE ResetRows
  BY <1>1, <1>4, RowsTyped DEF ResetRows, LInv
<1>5. CASE Tick
  BY <1>1, <1>5, TickTyped DEF LInv, TypeOK
<1>6. CASE UNCHANGED vars
  BY <1>1, <1>6 DEF LInv, vars
<1>7. QED
  BY <1>1, <1>2, <1>3, <1>4, <1>5, <1>6 DEF LInv, Next

(* The lease of the one key in the abstract table. *)
Key == [k \in {"global"} |->
    IF row.status = "running" THEN [owner |-> row.token, left |-> row.lease]
                              ELSE [owner |-> NoToken, left |-> 0]]

(* A key that is not live leaves room for itself under a cap of one. *)
LEMMA KeyHasRoom == Lock!Room("global")
<1>1. CASE Lock!Live("global")
  BY <1>1 DEF Lock!Room
<1>2. CASE ~Lock!Live("global")
  <2>1. Lock!LiveKeys = {}
    BY <1>2 DEF Lock!LiveKeys
  <2>2. Lock!Cardinality({}) = 0
    BY DEF Lock!Cardinality
  <2>3. QED
    BY <2>1, <2>2 DEF Lock!Room
<1>3. QED
  BY <1>1, <1>2

(* Every step of the code is a step of the table, or leaves the key alone. *)
LEMMA LockStep == LInv /\ [Next]_vars => [Lock!Next]_Key
<1> SUFFICES ASSUME LInv, [Next]_vars PROVE Lock!Next \/ UNCHANGED Key
  OBVIOUS
<1>0. row \in Row
  BY DEF LInv, TypeOK
<1>1. ASSUME SameLock PROVE UNCHANGED Key
  BY <1>1 DEF SameLock, Key
<1>2. ASSUME Freed PROVE Lock!Next
  <2>1. Key' = [k \in {"global"} |-> [owner |-> NoToken, left |-> 0]]
    BY <1>2 DEF Freed, Key
  <2>2. Lock!Release({"global"})
    BY <2>1 DEF Lock!Release, Lock!Free, Key
  <2>3. QED
    BY <2>2 DEF Lock!Next
<1>3. ASSUME Renewed PROVE Lock!Next
  <2>1. Key["global"] = [owner |-> row.token, left |-> row.lease]
    BY <1>3 DEF Renewed, Key
  <2>2. Key' = [Key EXCEPT !["global"].left = LeaseSeconds]
    BY <1>0, <1>3, <2>1, RenewedTyped DEF Renewed, Key
  <2>3. Key["global"].owner # NoToken
    BY <1>3, <2>1, ConsolidationAssumption DEF Renewed, LInv
  <2>4. Lock!Renew("global")
    BY <2>2, <2>3, KeyHasRoom DEF Lock!Renew, Key
  <2>5. QED
    BY <2>4 DEF Lock!Next
<1>4. ASSUME NEW w \in Workers, Claim(w) PROVE Lock!Next
  <2>1. NewToken \in Tokens
    BY <1>4, NewTokenExists DEF Claim
  <2>2. Key' = [k \in {"global"} |-> [owner |-> NewToken, left |-> LeaseSeconds]]
    BY <1>4, <2>1, ClaimedRowTyped DEF Claim, Key
  <2>3. ~Lock!Live("global")
    BY <1>4 DEF Claim, Claimable, Leased, Lock!Live
  <2>4. Lock!Acquire("global", NewToken)
    BY <2>2, <2>3, KeyHasRoom DEF Lock!Acquire, Key
  <2>5. QED
    BY <2>1, <2>4 DEF Lock!Next
<1>5. CASE Tick
  <2>1. /\ row'.status = row.status /\ row'.token = row.token
        /\ row'.lease = IF row.lease > 0 THEN row.lease - 1 ELSE 0
    BY <1>0, <1>5, TickTyped DEF Less
  <2>2. Lock!Tick
    BY <2>1 DEF Lock!Tick, Key
  <2>3. QED
    BY <2>2 DEF Lock!Next
<1>6. CASE ResetRows
  BY <1>2, <1>6, RowsTyped DEF ResetRows, Freed
<1>7. CASE UNCHANGED vars
  BY <1>7 DEF vars, Key
<1>8. CASE Run
  BY <1>1, <1>2, <1>3, <1>8, RunSteps DEF LInv
<1>9. QED
  BY <1>4, <1>5, <1>6, <1>7, <1>8 DEF Next

(* The global row implements the abstract lease table: a lease that runs   *)
(* is never handed to another session, whatever the workers do.            *)
THEOREM LockImplemented == Spec => ImplementsLock
<1>1. Init => LInv
  BY TypeInit, RowsTyped DEF LInv, Init
<1>2. Init => Lock!Init
  BY RowsTyped DEF Init, Lock!Init, Lock!Free
<1>3. [Lock!Next]_Key => [Lock!Next]_[k \in {"global"} |->
    IF row.status = "running" THEN [owner |-> row.token, left |-> row.lease]
                              ELSE [owner |-> NoToken, left |-> 0]]
  BY DEF Key
<1>4. QED
  BY <1>1, <1>2, <1>3, LInvStep, LockStep, PTL DEF Spec, ImplementsLock, Lock!Spec

-----------------------------------------------------------------------------
(* Mutual exclusion                                                         *)

(* Who touches the workspace owns the row, with time left on it. *)
Holding == \A w \in Workers : Touching(w) => Owned(w) /\ row.lease >= 1
HInv == TypeOK /\ OneConsolidator /\ Holding

(* A claim needs a lease that has run out, so nobody touches the workspace *)
(* then; who gives the row up leaves; and time stops short of the lease    *)
(* while somebody is at work.                                              *)
LEMMA HInvStep == HInv /\ [QuietNext]_vars => HInv'
<1> SUFFICES ASSUME HInv, [QuietNext]_vars PROVE HInv'
  OBVIOUS
<1>1. TypeOK'
  BY TypeStep DEF HInv, QuietNext, Next, QuietClaim, QuietReset, PromptTick
<1>2. ASSUME NobodyNew PROVE OneConsolidator'
  BY <1>2 DEF HInv, OneConsolidator, NobodyNew
<1>3. row \in Row /\ LeaseSeconds \in Nat \ {0}
  BY ConsolidationAssumption DEF HInv, TypeOK
<1>4. CASE Run
  <2>1. NobodyNew
    BY <1>4, RunSteps DEF HInv
  <2>2. ASSUME SameLock PROVE Holding'
    BY <2>1, <2>2 DEF HInv, Holding, NobodyNew, SameLock, Owned
  <2>3. ASSUME Renewed PROVE Holding'
    BY <1>3, <2>1, <2>3, RenewedTyped DEF HInv, Holding, NobodyNew, Renewed, Owned
  <2>4. ASSUME Freed, \E w \in Workers : LeftBy(w) PROVE Holding'
    <3>1. PICK w \in Workers : Touching(w) /\ ~Touching(w)'
      BY <2>4 DEF LeftBy
    <3>2. \A v \in Workers : ~Touching(v)'
      BY <2>1, <3>1 DEF HInv, OneConsolidator, NobodyNew
    <3>3. QED
      BY <3>2 DEF Holding
  <2>5. Holding'
    BY <1>4, <2>2, <2>3, <2>4, RunSteps DEF HInv
  <2>6. QED
    BY <1>1, <1>2, <2>1, <2>5 DEF HInv
<1>5. ASSUME NEW w \in Workers, QuietClaim(w) PROVE HInv'
  <2>1. \A v \in Workers : ~Touching(v)
    BY <1>3, <1>5 DEF HInv, Holding, Owned, QuietClaim, Claim, Claimable, Leased, Row
  <2>2. /\ worker'[w].token = NewToken
        /\ \A v \in Workers : v # w => worker'[v] = worker[v]
    BY <1>5 DEF QuietClaim, Claim, HInv, TypeOK, Worker
  <2>3. row'.status = "running" /\ row'.token = NewToken /\ row'.lease = LeaseSeconds
    BY <1>5, NewTokenExists, ClaimedRowTyped DEF QuietClaim, Claim
  <2>4. \A v \in Workers : Touching(v)' => v = w
    BY <2>1, <2>2 DEF Touching
  <2>5. QED
    BY <1>1, <1>3, <2>2, <2>3, <2>4 DEF HInv, OneConsolidator, Holding, Owned
<1>6. CASE QuietReset
  <2>1. \A v \in Workers : ~Touching(v)'
    BY <1>6 DEF QuietReset, Busy, ResetRows, Touching
  <2>2. QED
    BY <1>1, <2>1 DEF HInv, OneConsolidator, Holding
<1>7. CASE PromptTick
  <2>1. UNCHANGED worker /\ (Busy => row.lease > 1)
    BY <1>7 DEF PromptTick, Tick
  <2>2. NobodyNew /\ \A v \in Workers : Touching(v)' <=> Touching(v)
    BY <2>1 DEF NobodyNew, Touching
  <2>3. /\ row'.status = row.status /\ row'.token = row.token
        /\ row'.lease = Less(row.lease)
    BY <1>3, <1>7, TickTyped DEF PromptTick
  <2>4. row.lease > 1 => row'.lease >= 1
    BY <1>3, <2>3 DEF Less, Row
  <2>5. Holding'
    BY <2>1, <2>2, <2>3, <2>4 DEF HInv, Holding, Owned, Busy
  <2>6. QED
    BY <1>1, <1>2, <2>2, <2>5 DEF HInv
<1>8. CASE UNCHANGED vars
  BY <1>1, <1>8 DEF HInv, OneConsolidator, Holding, Touching, Owned, vars
<1>9. QED
  BY <1>4, <1>5, <1>6, <1>7, <1>8 DEF QuietNext

(* Nobody touches the workspace at first. *)
LEMMA HInvInit == Init => HInv
<1> SUFFICES ASSUME Init PROVE HInv
  OBVIOUS
<1>1. \A w \in Workers : ~Touching(w)
  BY IdleTyped DEF Init, Touching
<1>2. QED
  BY <1>1, TypeInit DEF HInv, OneConsolidator, Holding

(* Only one consolidation inspects or changes the workspace at a time, as  *)
(* long as nobody outlives its lease and nobody resets the memories in the *)
(* middle.                                                                 *)
THEOREM OneConsolidatorHolds == QuietSpec => []OneConsolidator
<1>1. HInv => OneConsolidator
  BY DEF HInv
<1>2. QED
  BY <1>1, HInvInit, HInvStep, PTL DEF QuietSpec

-----------------------------------------------------------------------------
(* What a success means                                                     *)

(* The steps after the agent's turn was completed, and those at which the  *)
(* worker has a baseline.                                                  *)
After == {"completed", "validate", "confirm", "reset", "commit", "mark"}
WithBaseline == {"prepared", "loaded", "syncing", "synced", "agent", "aborted",
                 "completed", "validate", "confirm", "reset"}

(* How far the workspace is when a worker is at a step. *)
Progress(w) ==
  /\ worker[w].pc \in {"synced", "agent"} \cup After => files = worker[w].input
  /\ worker[w].pc \in After => memory = files
  /\ worker[w].agent = TRUE => worker[w].pc \in {"idle", "agent", "aborted"}
  /\ worker[w].agent = TRUE \/ worker[w].pc \in WithBaseline => baseline # Broken
  /\ worker[w].pc = "mark" => baseline = workspace

(* Whatever is left behind by those who failed: without a baseline the      *)
(* directory agrees with itself, and a baseline does, so that it is equal   *)
(* to the directory only when that does too.                                *)
LeftBehind ==
  /\ baseline = Broken => files = memory
  /\ baseline # Broken => baseline[1] = baseline[2]

CInv ==
  /\ HInv
  /\ resetting => ~Busy
  /\ LeftBehind
  /\ \A w \in Workers : Progress(w)

(* Somebody leaves, or somebody outside changes a table. *)
LEMMA NothingWritten ==
  ASSUME CInv, HInv', NobodyNew, UNCHANGED <<files, memory, baseline, resetting>>,
         \A v \in Workers : worker'[v] = worker[v] \/ worker'[v] = Idle
  PROVE  CInv'
<1>1. LeftBehind'
  BY DEF CInv, LeftBehind
<1>2. (resetting => ~Busy)'
  BY DEF CInv, Busy, NobodyNew
<1>3. ASSUME NEW v \in Workers PROVE Progress(v)'
  <2>1. CASE worker'[v] = worker[v]
    BY <2>1 DEF CInv, Progress, workspace
  <2>2. CASE worker'[v] = Idle
    BY <2>2, IdleTyped DEF Progress, After, WithBaseline
  <2>3. QED
    BY <2>1, <2>2
<1>4. QED
  BY <1>1, <1>2, <1>3 DEF CInv

(* The one worker that touches the workspace makes a step. *)
LEMMA HolderWrites ==
  ASSUME CInv, HInv', NobodyNew, NEW w \in Workers, Touching(w),
         \A v \in Workers : v # w => worker'[v] = worker[v],
         resetting' = resetting, LeftBehind', Progress(w)'
  PROVE  CInv'
<1>1. (resetting => ~Busy)'
  BY DEF CInv, Busy, NobodyNew
<1>2. ASSUME NEW v \in Workers, v # w PROVE Progress(v)'
  <2>1. worker'[v] = worker[v] /\ ~Touching(v)
    BY <1>2 DEF CInv, HInv, OneConsolidator
  <2>2. worker'[v].pc = "idle" /\ worker'[v].agent # TRUE
    BY <2>1 DEF Touching
  <2>3. QED
    BY <2>2 DEF Progress, After, WithBaseline
<1>3. QED
  BY <1>1, <1>2 DEF CInv

(* Each step of the holder takes the workspace to where the next one needs *)
(* it.                                                                     *)
LEMMA CInvWorks ==
  ASSUME CInv, HInv', NobodyNew, NEW w \in Workers,
         Work(w) \/ AgentWrites(w) \/ Heartbeat(w)
  PROVE  CInv'
<1> USE DEF store, bounds, After, WithBaseline
<1>0. TypeOK /\ Progress(w) /\ LeftBehind
  BY DEF CInv, HInv
<1>1. CASE Prepare(w)
  <2>1. baseline' # Broken /\ baseline'[1] = baseline'[2]
    BY <1>0, <1>1, WorkspaceTyped DEF Prepare, LeftBehind, workspace
  <2>2. Progress(w)' /\ LeftBehind'
    BY <1>0, <1>1, <2>1, GotoTyped DEF Prepare, Steps, Progress, LeftBehind
  <2>3. QED
    BY <1>0, <1>1, <2>2, GotoTyped, HolderWrites DEF Prepare, Steps, Touching
<1>2. CASE Load(w)
  <2>1. PICK S \in Selections :
          worker' = [worker EXCEPT ![w].pc = "loaded",
                       ![w].input = [t \in Threads |-> IF t \in S THEN output[t] ELSE Null]]
    BY <1>2 DEF Load
  <2>2. /\ worker'[w].pc = "loaded" /\ worker'[w].agent = worker[w].agent
        /\ \A v \in Workers : v # w => worker'[v] = worker[v]
    BY <1>0, <2>1 DEF TypeOK, Worker
  <2>3. Progress(w)' /\ LeftBehind'
    BY <1>0, <1>2, <2>2 DEF Load, Progress, LeftBehind, workspace
  <2>4. QED
    BY <1>2, <2>2, <2>3, HolderWrites DEF Load, Touching
<1>3. CASE SyncFirst(w)
  <2>1. Progress(w)' /\ LeftBehind'
    BY <1>0, <1>3, GotoTyped DEF SyncFirst, Steps, Progress, LeftBehind
  <2>2. QED
    BY <1>0, <1>3, <2>1, GotoTyped, HolderWrites DEF SyncFirst, Steps, Touching
<1>4. CASE SyncLast(w)
  <2>1. Progress(w)' /\ LeftBehind'
    BY <1>0, <1>4, GotoTyped DEF SyncLast, Steps, Progress, LeftBehind
  <2>2. QED
    BY <1>0, <1>4, <2>1, GotoTyped, HolderWrites DEF SyncLast, Steps, Touching
<1>5. CASE NoChanges(w)
  BY <1>0, <1>5, StopTyped, NothingWritten DEF NoChanges, workspace
<1>6. CASE Spawn(w)
  <2>1. /\ worker'[w].pc = "agent" /\ worker'[w].input = worker[w].input
        /\ \A v \in Workers : v # w => worker'[v] = worker[v]
    BY <1>0, <1>6, AgentTyped DEF Spawn, Steps
  <2>2. Progress(w)' /\ LeftBehind'
    BY <1>0, <1>6, <2>1 DEF Spawn, Progress, LeftBehind, workspace
  <2>3. QED
    BY <1>6, <2>1, <2>2, HolderWrites DEF Spawn, Touching
<1>7. CASE AgentCompletes(w)
  <2>1. /\ worker'[w].pc = "completed" /\ worker'[w].input = worker[w].input
        /\ worker'[w].agent = FALSE
        /\ \A v \in Workers : v # w => worker'[v] = worker[v]
    BY <1>0, <1>7, AgentTyped DEF AgentCompletes, Steps
  <2>2. Progress(w)' /\ LeftBehind'
    BY <1>0, <1>7, <2>1 DEF AgentCompletes, Progress, LeftBehind
  <2>3. QED
    BY <1>7, <2>1, <2>2, HolderWrites DEF AgentCompletes, Touching
<1>8. CASE Shutdown(w)
  <2> DEFINE pc == IF worker[w].pc = "completed" THEN "validate" ELSE "cleanup"
  <2>1. pc \in Steps /\ worker' = [worker EXCEPT ![w].pc = pc, ![w].agent = FALSE]
    BY <1>0, <1>8 DEF Shutdown, TypeOK, Worker, Steps
  <2>2. /\ worker'[w].pc = pc /\ worker'[w].input = worker[w].input
        /\ worker'[w].agent = FALSE
        /\ \A v \in Workers : v # w => worker'[v] = worker[v]
    BY <1>0, <2>1, AgentTyped
  <2>3. Progress(w)' /\ LeftBehind'
    BY <1>0, <1>8, <2>2 DEF Shutdown, Progress, LeftBehind, workspace
  <2>4. QED
    BY <1>8, <2>2, <2>3, HolderWrites DEF Shutdown, Touching
<1>9. CASE Cleanup(w)
  BY <1>0, <1>9, StopTyped, NothingWritten DEF Cleanup, workspace
<1>10. CASE Validate(w)
  <2>1. CASE Goto(w, "confirm")
    <3>1. Progress(w)' /\ LeftBehind'
      BY <1>0, <1>10, <2>1, GotoTyped DEF Validate, Steps, Progress, LeftBehind, workspace
    <3>2. QED
      BY <1>0, <1>10, <2>1, <3>1, GotoTyped, HolderWrites DEF Validate, Steps, Touching
  <2>2. CASE Stop(w)
    BY <1>0, <1>10, <2>2, StopTyped, NothingWritten DEF Validate, workspace
  <2>3. QED
    BY <1>10, <2>1, <2>2 DEF Validate
<1>11. CASE Confirm(w)
  <2>1. CASE Goto(w, "reset")
    <3>1. Progress(w)' /\ LeftBehind'
      BY <1>0, <1>11, <2>1, GotoTyped DEF Confirm, Steps, Progress, LeftBehind, workspace
    <3>2. QED
      BY <1>0, <1>11, <2>1, <3>1, GotoTyped, HolderWrites DEF Confirm, Steps, Touching
  <2>2. CASE Stop(w)
    BY <1>0, <1>11, <2>2, StopTyped, NothingWritten DEF Confirm, workspace
  <2>3. QED
    BY <1>11, <2>1, <2>2 DEF Confirm
<1>12. CASE RemoveGit(w)
  <2>1. Progress(w)' /\ LeftBehind'
    BY <1>0, <1>12, GotoTyped DEF RemoveGit, Steps, Progress, LeftBehind, workspace
  <2>2. QED
    BY <1>0, <1>12, <2>1, GotoTyped, HolderWrites DEF RemoveGit, Steps, Touching
<1>13. CASE CommitBaseline(w)
  <2>1. Progress(w)' /\ LeftBehind'
    BY <1>0, <1>13, GotoTyped DEF CommitBaseline, Steps, Progress, LeftBehind, workspace
  <2>2. QED
    BY <1>0, <1>13, <2>1, GotoTyped, HolderWrites DEF CommitBaseline, Steps, Touching
<1>14. CASE Mark(w)
  BY <1>0, <1>14, StopTyped, NothingWritten DEF Mark, workspace
<1>15. CASE OrphanEnds(w)
  BY <1>0, <1>15, StopTyped, NothingWritten DEF OrphanEnds, workspace
<1>16. CASE AgentWrites(w)
  <2>1. worker[w].agent = TRUE
    BY <1>0, <1>16 DEF AgentWrites, TypeOK, Worker
  <2>2. Progress(w)' /\ LeftBehind'
    BY <1>0, <1>16, <2>1 DEF AgentWrites, Progress, LeftBehind
  <2>3. QED
    BY <1>16, <2>2, HolderWrites DEF AgentWrites, Touching
<1>17. CASE Heartbeat(w)
  <2>1. CASE Goto(w, "aborted")
    <3>1. Progress(w)' /\ LeftBehind'
      BY <1>0, <1>17, <2>1, GotoTyped DEF Heartbeat, Steps, Progress, LeftBehind, workspace
    <3>2. QED
      BY <1>0, <1>17, <2>1, <3>1, GotoTyped, HolderWrites DEF Heartbeat, Steps, Touching
  <2>2. CASE UNCHANGED worker
    BY <1>17, <2>2, NothingWritten DEF Heartbeat, workspace
  <2>3. QED
    BY <1>17, <2>1, <2>2 DEF Heartbeat
<1>18. QED
  BY <1>1, <1>2, <1>3, <1>4, <1>5, <1>6, <1>7, <1>8, <1>9, <1>10, <1>11, <1>12, <1>13,
     <1>14, <1>15, <1>16, <1>17 DEF Work

(* A fault leaves a directory behind that does not look consolidated.      *)
LEMMA CInvFaults ==
  ASSUME CInv, HInv', NobodyNew, NEW w \in Workers,
         StepFails(w) \/ AgentFails(w) \/ ShutdownFails(w) \/ Unrecorded(w) \/ Crash(w)
  PROVE  CInv'
<1>0. TypeOK /\ Progress(w) /\ LeftBehind
  BY DEF CInv, HInv
<1>1. CASE AgentFails(w)
  <2>1. /\ worker'[w].pc = "aborted"
        /\ \A v \in Workers : v # w => worker'[v] = worker[v]
    BY <1>0, <1>1, AgentTyped DEF AgentFails, Steps
  <2>2. UNCHANGED <<files, memory, baseline, resetting>> /\ worker[w].pc = "agent"
    BY <1>1, Zenon DEF AgentFails, workspace
  <2>3. Progress(w)' /\ LeftBehind'
    BY <1>0, <2>1, <2>2 DEF Progress, LeftBehind, After, WithBaseline
  <2>4. QED
    BY <2>1, <2>2, <2>3, HolderWrites DEF Touching
<1>2. CASE ShutdownFails(w)
  <2>1. Progress(w)' /\ LeftBehind'
    BY <1>0, <1>2, ShutdownFailsTyped
    DEF ShutdownFails, Progress, LeftBehind, After, WithBaseline, workspace
  <2>2. QED
    BY <1>0, <1>2, <2>1, ShutdownFailsTyped, HolderWrites DEF ShutdownFails, Touching
<1>3. CASE StepFails(w) \/ Unrecorded(w) \/ Crash(w)
  BY <1>0, <1>3, StopTyped, NothingWritten DEF StepFails, Unrecorded, Crash, workspace
<1>4. QED
  BY <1>1, <1>2, <1>3

(* Resets and claims happen while nobody is at work. *)
LEMMA CInvStep == CInv /\ [QuietNext]_vars => CInv'
<1> SUFFICES ASSUME CInv, [QuietNext]_vars PROVE CInv'
  OBVIOUS
<1>1. HInv'
  BY HInvStep DEF CInv
<1>2. TypeOK
  BY DEF CInv, HInv
<1>3. CASE Run
  <2>1. NobodyNew
    BY <1>2, <1>3, RunSteps
  <2>2. ASSUME NEW t \in Threads, Extract(t) \/ Delete(t) \/ Prune(t) \/ Pollute(t)
        PROVE  CInv'
    BY <1>1, <2>1, <2>2, NothingWritten DEF Extract, Delete, Prune, Pollute, workspace, bounds
  <2>3. CASE ResetFiles
    <3>1. \A v \in Workers : ~Touching(v)'
      BY <2>3 DEF ResetFiles, CInv, Busy, Touching
    <3>2. ASSUME NEW v \in Workers PROVE Progress(v)'
      BY <3>1 DEF Progress, Touching, After, WithBaseline
    <3>3. QED
      BY <1>1, <2>3, <3>2 DEF ResetFiles, CInv, LeftBehind
  <2>4. QED
    BY <1>1, <1>3, <2>1, <2>2, <2>3, CInvWorks, CInvFaults DEF Run
<1>4. ASSUME NEW w \in Workers, QuietClaim(w) PROVE CInv'
  <2>1. /\ worker'[w].pc = "claimed" /\ worker'[w].agent = FALSE
        /\ \A v \in Workers : v # w => worker'[v] = worker[v]
    BY <1>2, <1>4, IdleTyped DEF QuietClaim, Claim, TypeOK, Worker
  <2>2. UNCHANGED <<files, memory, baseline, resetting>> /\ ~resetting
    BY <1>4 DEF QuietClaim, Claim, workspace, bounds
  <2>3. ASSUME NEW v \in Workers PROVE Progress(v)'
    BY <2>1, <2>2 DEF CInv, Progress, After, WithBaseline, workspace
  <2>4. QED
    BY <1>1, <2>2, <2>3 DEF CInv, LeftBehind
<1>5. CASE QuietReset
  <2>1. UNCHANGED <<files, memory, baseline, worker>> /\ ~Busy'
    BY <1>5 DEF QuietReset, ResetRows, workspace, Busy, Touching
  <2>2. QED
    BY <1>1, <2>1 DEF CInv, LeftBehind, Progress, workspace
<1>6. CASE PromptTick \/ UNCHANGED vars
  <2>1. UNCHANGED <<files, memory, baseline, worker, resetting>>
    BY <1>6 DEF PromptTick, Tick, vars, workspace, bounds
  <2>2. NobodyNew
    BY <2>1 DEF NobodyNew, Touching
  <2>3. QED
    BY <1>1, <2>1, <2>2, NothingWritten
<1>7. QED
  BY <1>3, <1>4, <1>5, <1>6 DEF QuietNext

(* There is neither a directory nor a baseline at first. *)
LEMMA CInvInit == Init => CInv
<1> SUFFICES ASSUME Init PROVE CInv
  OBVIOUS
<1>1. \A w \in Workers : Progress(w)
  BY IdleTyped DEF Init, Progress, After, WithBaseline
<1>2. QED
  BY <1>1, HInvInit DEF Init, CInv, LeftBehind

(* A running row becomes a done one in two places only. *)
LEMMA DoneBy ==
  ASSUME TypeOK, [Next]_vars, row.status = "running", row'.status = "done"
  PROVE  \E w \in Workers : Owned(w) /\ MarkSucceeded(w) /\ (NoChanges(w) \/ Mark(w))
<1>0. row \in Row
  BY DEF TypeOK
<1>1. ASSUME NEW w \in Workers, MarkFailed(w) PROVE FALSE
  BY <1>1, RowsTyped DEF MarkFailed
<1>2. row' # row /\ ~SameLock /\ ~Renewed
  BY <1>0, RenewedTyped DEF SameLock, Renewed
<1>3. ~ResetRows /\ ~Tick
  BY <1>0, RowsTyped, TickTyped DEF ResetRows
<1>4. ASSUME NEW w \in Workers PROVE ~Claim(w)
  BY NewTokenExists, ClaimedRowTyped DEF Claim
<1>5. Run
  BY <1>2, <1>3, <1>4 DEF Next, vars
<1>6. ASSUME NEW w \in Workers, Work(w) PROVE NoChanges(w) \/ Mark(w)
  BY <1>1, <1>2, <1>6 DEF Work, Prepare, Load, SyncFirst, SyncLast, Spawn, AgentCompletes,
     Shutdown, Cleanup, Validate, Confirm, RemoveGit, CommitBaseline, OrphanEnds, Renewed, Owned
<1>7. ASSUME NEW w \in Workers
      PROVE  /\ ~AgentWrites(w) /\ ~Heartbeat(w) /\ ~StepFails(w) /\ ~AgentFails(w)
             /\ ~ShutdownFails(w) /\ ~Unrecorded(w) /\ ~Crash(w)
  BY <1>1, <1>2 DEF AgentWrites, Heartbeat, StepFails, AgentFails, ShutdownFails,
     Unrecorded, Crash, Renewed, Owned
<1>8. ~\E t \in Threads : Extract(t) \/ Delete(t) \/ Prune(t) \/ Pollute(t)
  BY <1>2, TableSteps
<1>9. ~ResetFiles
  BY <1>2, TableSteps
<1>10. PICK w \in Workers : NoChanges(w) \/ Mark(w)
  BY <1>5, <1>6, <1>7, <1>8, <1>9 DEF Run
<1>11. MarkSucceeded(w)
  BY <1>10 DEF NoChanges, Mark
<1>12. Owned(w)
  BY <1>2, <1>11 DEF MarkSucceeded
<1>13. QED
  BY <1>10, <1>11, <1>12

(* When a consolidation is recorded as successful, MEMORY.md was made from *)
(* the recorded inputs and the baseline is the workspace, whatever earlier *)
(* workers left behind.                                                    *)
THEOREM SuccessMeansConsolidatedHolds == QuietSpec => SuccessMeansConsolidated
<1> DEFINE Good == row.status = "running" /\ row'.status = "done" =>
       /\ files \in Snapshot /\ memory = files
       /\ baseline = workspace
       /\ \A t \in Threads : selected'[t] # Null => selected'[t] = files[t]
<1>1. ASSUME CInv, [QuietNext]_vars PROVE Good
  <2> SUFFICES ASSUME row.status = "running", row'.status = "done"
               PROVE  /\ files \in Snapshot /\ memory = files
                      /\ baseline = workspace
                      /\ \A t \in Threads : selected'[t] # Null => selected'[t] = files[t]
    OBVIOUS
  <2>0. TypeOK /\ LeftBehind /\ \A w \in Workers : Progress(w)
    BY <1>1 DEF CInv, HInv
  <2>1. PICK w \in Workers : Owned(w) /\ MarkSucceeded(w) /\ (NoChanges(w) \/ Mark(w))
    BY <1>1, <2>0, DoneBy DEF QuietNext, Next, QuietClaim, QuietReset, PromptTick
  <2>2. files = worker[w].input /\ files \in Snapshot
    BY <2>0, <2>1 DEF NoChanges, Mark, Progress, After, TypeOK, Worker
  <2>3. baseline = workspace /\ memory = files
    <3>1. CASE NoChanges(w)
      BY <2>0, <3>1, WorkspaceTyped DEF NoChanges, HasChanges, LeftBehind, workspace
    <3>2. CASE Mark(w)
      BY <2>0, <3>2 DEF Mark, Progress, After
    <3>3. QED
      BY <2>1, <3>1, <3>2
  <2>4. selected' = [t \in Threads |->
            IF worker[w].input[t] = output[t] THEN output[t] ELSE Null]
    BY <2>1 DEF MarkSucceeded
  <2>5. \A t \in Threads : selected'[t] # Null => selected'[t] = files[t]
    BY <2>2, <2>4
  <2>6. QED
    BY <2>2, <2>3, <2>5
<1>2. ASSUME CInv, [QuietNext]_vars PROVE [Good]_vars
  BY <1>1, <1>2
<1>3. QED
  BY <1>2, CInvInit, CInvStep, PTL DEF QuietSpec, SuccessMeansConsolidated

=============================================================================
