------------------------ MODULE MemoryConsolidation ------------------------
(***************************************************************************)
(* Phase 2 of the kernel's memory pipeline: the sessions that start take   *)
(* turns at merging the extracted memories into one directory, the memory  *)
(* workspace, under a lock that is the global row of table jobs.           *)
(*                                                                         *)
(* The holder of the lock loads the selected outputs, writes them into the *)
(* workspace, compares the workspace with the git baseline of the last     *)
(* consolidation, lets an agent rewrite MEMORY.md when they differ, and    *)
(* commits the result as the new baseline.  It may die or fail at every    *)
(* step, leaving half-written files, a half-finished agent or a removed    *)
(* .git directory to the next holder; meanwhile phase 1 stores new         *)
(* outputs, threads are deleted or polluted, and the user may reset all    *)
(* memories.                                                               *)
(*                                                                         *)
(* The timestamps of the row (lease_until, retry_at, finished_at) are kept *)
(* as the time that is left before they are reached, so that time need not *)
(* be bounded.  The watermarks of the row, which decide nothing            *)
(* (memories.rs:1061-1062), are left out.                                  *)
(***************************************************************************)
EXTENDS Integers, FiniteSets

CONSTANTS Threads,        \* threads with extracted memories
          Workers,        \* sessions that run the pipeline at startup
          Tokens,         \* ownership tokens (UUIDs)
          NoToken,
          NoFiles,        \* of a part of the workspace: nothing written yet
          Torn,           \* of a part of the workspace: partly written
          Broken,         \* of the baseline: no usable .git
          LeaseSeconds,   \* stage_two::JOB_LEASE_SECONDS
          RetryDelay,     \* stage_two::JOB_RETRY_DELAY_SECONDS
          Cooldown,       \* PHASE2_SUCCESS_COOLDOWN_SECONDS
          MaxInputs,      \* memories.max_raw_memories_for_consolidation
          MaxVersion,     \* bound on extractions of one thread
          MaxFaults,      \* bound on crashes and failing steps
          MaxResets       \* bound on resets of all memories

Null == -1
Snapshot == [Threads -> Nat \cup {Null}]   \* which output of each thread

ASSUME ConsolidationAssumption ==
  /\ NoToken \notin Tokens
  /\ NoFiles # Torn /\ NoFiles \notin Snapshot /\ Torn \notin Snapshot
  /\ Broken \notin (Snapshot \cup {NoFiles, Torn}) \X (Snapshot \cup {NoFiles, Torn})
  /\ LeaseSeconds \in Nat \ {0}
  /\ {RetryDelay, Cooldown, MaxInputs, MaxVersion, MaxFaults, MaxResets} \subseteq Nat

VARIABLES
  row,        \* the global row of table jobs
  output,     \* output[t]: source_updated_at of the stage-1 output; Null is no row
  selected,   \* selected_for_phase2_source_updated_at; Null is not selected
  enabled,    \* the threads whose memory_mode is enabled
  worker,     \* worker[w]: where w is, its token, its inputs and its agent
  files,      \* rollout_summaries/ and raw_memories.md of the workspace
  memory,     \* MEMORY.md and what goes with it: the inputs it was made from
  baseline,   \* the committed baseline, or Broken
  resetting,  \* a reset has cleared the rows and not yet the directory
  faults, resets

store == <<output, selected, enabled>>
workspace == <<files, memory>>
bounds == <<resetting, faults, resets>>
vars == <<row, output, selected, enabled, worker, files, memory, baseline, bounds>>

Contents == Snapshot \cup {NoFiles, Torn}

Row == [status : {"none", "pending", "running", "done", "error"},
        token : Tokens \cup {NoToken},
        lease : 0..LeaseSeconds,           \* lease_until - now
        retry : 0..RetryDelay,             \* retry_at - now
        cooldown : 0..Cooldown,            \* finished_at + cooldown - now
        failed : BOOLEAN]                  \* last_error IS NOT NULL
NoRow == [status |-> "none", token |-> NoToken, lease |-> 0, retry |-> 0,
          cooldown |-> 0, failed |-> FALSE]

Idle == [pc |-> "idle", token |-> NoToken, input |-> [t \in Threads |-> Null], agent |-> FALSE]
Steps == {"claimed", "prepared", "loaded", "syncing", "synced", "agent", "completed",
          "aborted", "validate", "cleanup", "confirm", "reset", "commit", "mark"}
Worker == [pc : Steps \cup {"idle"}, token : Tokens \cup {NoToken},
           input : Snapshot, agent : BOOLEAN]

Init ==
  /\ row = NoRow
  /\ output = [t \in Threads |-> Null]
  /\ selected = [t \in Threads |-> Null]
  /\ enabled = Threads
  /\ worker = [w \in Workers |-> Idle]
  /\ files = NoFiles /\ memory = NoFiles /\ baseline = Broken
  /\ resetting = FALSE /\ faults = 0 /\ resets = 0

-----------------------------------------------------------------------------
(* The global row of table jobs                                            *)

Leased == row.status = "running" /\ row.lease > 0
Owned(w) == row.status = "running" /\ row.token = worker[w].token

\* enqueue_global_consolidation_with_executor
Enqueued(r) ==
  IF r.status = "running" THEN r ELSE [r EXCEPT !.status = "pending", !.retry = 0]

Claimable == row.retry = 0 /\ ~Leased /\ (row.failed \/ row.cooldown = 0)
ClaimedRowUnleased(k) == [NoRow EXCEPT !.status = "running", !.token = k]   \* faulty

ClaimedRow(k) == [NoRow EXCEPT !.status = "running", !.token = k, !.lease = LeaseSeconds]
FailedRow == [NoRow EXCEPT !.status = "error", !.retry = RetryDelay, !.failed = TRUE]

DoneRow == [NoRow EXCEPT !.status = "done", !.cooldown = Cooldown]
\* A claim makes a new UUID.
FreshTokens == {k \in Tokens : k # row.token /\ \A w \in Workers : worker[w].token # k}
NewToken == CHOOSE k \in FreshTokens : TRUE

Goto(w, pc) == worker' = [worker EXCEPT ![w].pc = pc]
Stop(w) == worker' = [worker EXCEPT ![w] = Idle]

\* mark_global_phase2_job_failed, then mark_global_phase2_job_failed_if_unowned.
MarkFailed(w) ==
  row' = IF Owned(w) \/ (row.status = "running" /\ row.token = NoToken) THEN FailedRow ELSE row

\* mark_global_phase2_job_succeeded, in one transaction.
MarkSucceeded(w) ==
  IF Owned(w)
  THEN /\ row' = DoneRow
       /\ selected' = [t \in Threads |->
            IF worker[w].input[t] = output[t] THEN output[t] ELSE Null]
  ELSE UNCHANGED <<row, selected>>

-----------------------------------------------------------------------------
(* run: up to the agent                                                    *)

\* try_claim_global_phase2_job
Claim(w) ==
  /\ worker[w] = Idle /\ Claimable /\ FreshTokens # {}
  /\ row' = ClaimedRow(NewToken)
  /\ worker' = [worker EXCEPT ![w].pc = "claimed", ![w].token = NewToken]
  /\ UNCHANGED <<store, workspace, baseline, bounds>>

\* prepare_memory_workspace: a baseline that cannot be read is made anew from
\* what the directory holds.
Prepare(w) ==
  /\ worker[w].pc = "claimed" /\ Goto(w, "prepared")
  /\ baseline' = IF baseline = Broken THEN workspace ELSE baseline
  /\ UNCHANGED <<row, store, workspace, bounds>>

SelectionsOfAll ==   \* faulty: polluted threads are selected too
  {S \in SUBSET {t \in Threads : output[t] # Null} : Cardinality(S) <= MaxInputs}

\* get_phase2_input_selection: up to MaxInputs outputs of enabled threads; which
\* ones depends on how much and how recently they were used.
Selections ==
  {S \in SUBSET {t \in enabled : output[t] # Null} : Cardinality(S) <= MaxInputs}

Load(w) ==
  /\ worker[w].pc = "prepared"
  /\ \E S \in Selections :
       worker' = [worker EXCEPT ![w].pc = "loaded",
                    ![w].input = [t \in Threads |-> IF t \in S THEN output[t] ELSE Null]]
  /\ UNCHANGED <<row, store, workspace, baseline, bounds>>

\* sync_phase2_workspace_inputs removes and writes one file after the other.
SyncFirst(w) ==
  /\ worker[w].pc = "loaded" /\ Goto(w, "syncing")
  /\ files' = Torn
  /\ UNCHANGED <<row, store, memory, baseline, bounds>>

SyncLast(w) ==
  /\ worker[w].pc = "syncing" /\ Goto(w, "synced")
  /\ files' = worker[w].input
  /\ UNCHANGED <<row, store, memory, baseline, bounds>>

HasChangesInFiles == baseline = Broken \/ files # baseline[1]   \* faulty

HasChanges == workspace # baseline

\* validate_consolidation_artifacts looks for the files and their first line: a
\* half-finished MEMORY.md may pass it.
Validations == IF memory = NoFiles THEN {FALSE} ELSE IF memory = Torn THEN BOOLEAN ELSE {TRUE}

NoChanges(w) ==
  /\ worker[w].pc = "synced" /\ ~HasChanges /\ TRUE \in Validations
  /\ MarkSucceeded(w) /\ Stop(w)
  /\ UNCHANGED <<output, enabled, workspace, baseline, bounds>>

\* write_workspace_diff and spawn_consolidation_agent
Spawn(w) ==
  /\ worker[w].pc = "synced" /\ (HasChanges \/ FALSE \in Validations)
  /\ worker' = [worker EXCEPT ![w].pc = "agent", ![w].agent = TRUE]
  /\ UNCHANGED <<row, store, workspace, baseline, bounds>>

-----------------------------------------------------------------------------
(* handle: the agent at work and what follows it                           *)

\* The agent rewrites MEMORY.md a piece at a time.
AgentWrites(w) ==
  /\ worker[w].agent /\ memory # Torn
  /\ memory' = Torn
  /\ UNCHANGED <<row, store, worker, files, baseline, bounds>>

\* The agent's turn is completed: MEMORY.md says what the inputs say.
AgentCompletes(w) ==
  /\ worker[w].pc = "agent"
  /\ memory' = files
  /\ worker' = [worker EXCEPT ![w].pc = "completed", ![w].agent = FALSE]
  /\ UNCHANGED <<row, store, files, baseline, bounds>>

\* The heartbeat of loop_agent; without the lock the agent is given up.
Heartbeat(w) ==
  /\ worker[w].pc = "agent"
  /\ IF Owned(w)
     THEN row' = [row EXCEPT !.lease = LeaseSeconds] /\ UNCHANGED worker
     ELSE Goto(w, "aborted") /\ UNCHANGED row
  /\ UNCHANGED <<store, workspace, baseline, bounds>>

\* shutdown_consolidation_agent
Shutdown(w) ==
  /\ worker[w].pc \in {"completed", "aborted"}
  /\ worker' = [worker EXCEPT ![w].agent = FALSE,
       ![w].pc = IF worker[w].pc = "completed" THEN "validate" ELSE "cleanup"]
  /\ UNCHANGED <<row, store, workspace, baseline, bounds>>

\* remove_memory_symlinks, then the job is marked as failed.
Cleanup(w) ==
  /\ worker[w].pc = "cleanup"
  /\ MarkFailed(w) /\ Stop(w)
  /\ UNCHANGED <<store, workspace, baseline, bounds>>

Validate(w) ==
  /\ worker[w].pc = "validate"
  /\ \/ TRUE \in Validations /\ Goto(w, "confirm") /\ UNCHANGED row
     \/ FALSE \in Validations /\ MarkFailed(w) /\ Stop(w)
  /\ UNCHANGED <<store, workspace, baseline, bounds>>

\* The ownership is confirmed, and the lease renewed, before the baseline is touched.
Confirm(w) ==
  /\ worker[w].pc = "confirm"
  /\ IF Owned(w)
     THEN row' = [row EXCEPT !.lease = LeaseSeconds] /\ Goto(w, "reset")
     ELSE Stop(w) /\ UNCHANGED row
  /\ UNCHANGED <<store, workspace, baseline, bounds>>

\* reset_memory_workspace_baseline removes .git and commits the directory anew.
RemoveGit(w) ==
  /\ worker[w].pc = "reset" /\ Goto(w, "commit")
  /\ baseline' = Broken
  /\ UNCHANGED <<row, store, workspace, bounds>>

CommitBaseline(w) ==
  /\ worker[w].pc = "commit" /\ Goto(w, "mark")
  /\ baseline' = workspace
  /\ UNCHANGED <<row, store, workspace, bounds>>

Mark(w) ==
  /\ worker[w].pc = "mark"
  /\ MarkSucceeded(w) /\ Stop(w)
  /\ UNCHANGED <<output, enabled, workspace, baseline, bounds>>

-----------------------------------------------------------------------------
(* Faults                                                                  *)

Fault == faults < MaxFaults /\ faults' = faults + 1

\* A step fails and says so: the job is marked as failed, to be retried later.
StepFails(w) ==
  /\ Fault
  /\ worker[w].pc \in {"claimed", "prepared", "loaded", "syncing", "synced", "confirm",
                       "reset", "commit"}
  /\ MarkFailed(w) /\ Stop(w)
  /\ UNCHANGED <<store, workspace, baseline, resetting, resets>>

\* The agent's turn ends without success, or the heartbeat cannot be written
\* while the agent goes on.
AgentFails(w) ==
  /\ Fault /\ worker[w].pc = "agent"
  /\ \E on \in BOOLEAN :
       worker' = [worker EXCEPT ![w].pc = "aborted", ![w].agent = on]
  /\ UNCHANGED <<row, store, workspace, baseline, resetting, resets>>

ShutdownFailsReleasing(w) ==   \* faulty: gives the lock back with the agent still at work
  /\ Fault /\ worker[w].pc \in {"completed", "aborted"}
  /\ worker' = [worker EXCEPT ![w] =
       IF @.agent THEN [Idle EXCEPT !.token = worker[w].token, !.agent = TRUE] ELSE Idle]
  /\ MarkFailed(w)
  /\ UNCHANGED <<store, workspace, baseline, resetting, resets>>

\* shutdown_consolidation_agent times out: the worker leaves, the lease is kept
\* and the agent, when it was in the middle of its turn, goes on.
ShutdownFails(w) ==
  /\ Fault /\ worker[w].pc \in {"completed", "aborted"}
  /\ worker' = [worker EXCEPT ![w] =
       IF @.agent THEN [Idle EXCEPT !.token = worker[w].token, !.agent = TRUE] ELSE Idle]
  /\ UNCHANGED <<row, store, workspace, baseline, resetting, resets>>

\* An agent nobody waits for any more ends.
OrphanEnds(w) ==
  /\ worker[w].pc = "idle" /\ worker[w] # Idle
  /\ Stop(w)
  /\ UNCHANGED <<row, store, workspace, baseline, bounds>>

\* The success cannot be written: the row stays leased.
Unrecorded(w) ==
  /\ Fault /\ worker[w].pc \in {"mark", "synced"}
  /\ worker[w].pc = "synced" => ~HasChanges /\ TRUE \in Validations
  /\ Stop(w)
  /\ UNCHANGED <<row, store, workspace, baseline, resetting, resets>>

\* The process dies, with its agent.
Crash(w) ==
  /\ Fault /\ worker[w] # Idle
  /\ Stop(w)
  /\ UNCHANGED <<row, store, workspace, baseline, resetting, resets>>

-----------------------------------------------------------------------------
(* The other users of the tables and of the directory                      *)

Less(n) == IF n > 0 THEN n - 1 ELSE 0

Tick ==
  /\ row' = [row EXCEPT !.lease = Less(@), !.retry = Less(@), !.cooldown = Less(@)]
  /\ row' # row
  /\ UNCHANGED <<store, worker, workspace, baseline, bounds>>

\* Phase 1 stores an output: the selection stays, the job is enqueued.
Extract(t) ==
  /\ output[t] < MaxVersion
  /\ output' = [output EXCEPT ![t] = @ + 1]
  /\ row' = Enqueued(row)
  /\ UNCHANGED <<selected, enabled, worker, workspace, baseline, bounds>>

\* delete_thread_memory
Delete(t) ==
  /\ output[t] # Null
  /\ output' = [output EXCEPT ![t] = Null]
  /\ selected' = [selected EXCEPT ![t] = Null]
  /\ row' = IF selected[t] # Null THEN Enqueued(row) ELSE row
  /\ UNCHANGED <<enabled, worker, workspace, baseline, bounds>>

\* prune_stage1_outputs_for_retention spares the outputs of the last baseline.
Prune(t) ==
  /\ output[t] # Null /\ selected[t] = Null
  /\ output' = [output EXCEPT ![t] = Null]
  /\ UNCHANGED <<row, selected, enabled, worker, workspace, baseline, bounds>>

\* mark_thread_memory_mode_polluted
Pollute(t) ==
  /\ t \in enabled
  /\ enabled' = enabled \ {t}
  /\ row' = IF selected[t] # Null THEN Enqueued(row) ELSE row
  /\ UNCHANGED <<output, selected, worker, workspace, baseline, bounds>>

\* memory/reset clears the rows first
ResetRows ==
  /\ resets < MaxResets /\ ~resetting
  /\ resets' = resets + 1 /\ resetting' = TRUE
  /\ row' = NoRow
  /\ output' = [t \in Threads |-> Null]
  /\ selected' = [t \in Threads |-> Null]
  /\ UNCHANGED <<enabled, worker, workspace, baseline, faults>>

\* and then the directory, .git included.
ResetFiles ==
  /\ resetting /\ resetting' = FALSE
  /\ files' = NoFiles /\ memory' = NoFiles /\ baseline' = Broken
  /\ UNCHANGED <<row, store, worker, faults, resets>>

-----------------------------------------------------------------------------
\* The steps a worker takes when nothing fails.
Work(w) ==
  \/ Prepare(w) \/ Load(w) \/ SyncFirst(w) \/ SyncLast(w)
  \/ NoChanges(w) \/ Spawn(w) \/ AgentCompletes(w) \/ Shutdown(w) \/ Cleanup(w)
  \/ Validate(w) \/ Confirm(w) \/ RemoveGit(w) \/ CommitBaseline(w) \/ Mark(w)
  \/ OrphanEnds(w)

Run ==
  \/ \E w \in Workers : Work(w) \/ AgentWrites(w) \/ Heartbeat(w)
  \/ \E w \in Workers :
       StepFails(w) \/ AgentFails(w) \/ ShutdownFails(w) \/ Unrecorded(w) \/ Crash(w)
  \/ \E t \in Threads : Extract(t) \/ Delete(t) \/ Prune(t) \/ Pollute(t)
  \/ ResetFiles

Next == Run \/ (\E w \in Workers : Claim(w)) \/ ResetRows \/ Tick

\* Every behaviour of the code.
Spec == Init /\ [][Next]_vars

\* The worker, or an agent it has left behind, may write to the workspace.
Touching(w) == worker[w].pc # "idle" \/ worker[w].agent
Busy == \E w \in Workers : Touching(w)

\* No session is held up for longer than its lease while it works, as the
\* heartbeats every 90 s of a lease of 3600 s are meant to ensure,
PromptTick == (Busy => row.lease > 1) /\ Tick
\* and nobody resets the memories while a consolidation is under way.
QuietReset == ~Busy /\ ResetRows
QuietClaim(w) == ~resetting /\ Claim(w)

QuietNext == Run \/ (\E w \in Workers : QuietClaim(w)) \/ QuietReset \/ PromptTick
QuietSpec == Init /\ [][QuietNext]_vars

\* Sessions keep starting, steps and agents come to an end, time passes.
FairSpec ==
  /\ QuietSpec
  /\ WF_vars(PromptTick)
  /\ WF_vars(ResetFiles)
  /\ \A w \in Workers : WF_vars(Work(w)) /\ WF_vars(QuietClaim(w))

-----------------------------------------------------------------------------
(* Properties                                                              *)

TypeOK ==
  /\ row \in Row
  /\ output \in Snapshot
  /\ selected \in Snapshot
  /\ enabled \subseteq Threads
  /\ worker \in [Workers -> Worker]
  /\ files \in Contents /\ memory \in Contents
  /\ baseline \in (Contents \X Contents) \cup {Broken}
  /\ resetting \in BOOLEAN /\ faults \in Nat /\ resets \in Nat

\* Only one consolidation inspects or changes the workspace at a time, the
\* agent of a worker that could not shut it down included
\* (memories/README.md:85-86).
OneConsolidator ==
  \A v, w \in Workers : Touching(v) /\ Touching(w) => v = w

\* When a consolidation is recorded as successful, MEMORY.md has really been
\* made from the recorded inputs and the baseline is the workspace, whatever
\* half-finished state earlier workers left behind; the outputs that are
\* marked as selected are among those inputs.
SuccessMeansConsolidated ==
  [][row.status = "running" /\ row'.status = "done" =>
       /\ files \in Snapshot /\ memory = files
       /\ baseline = workspace
       /\ \A t \in Threads : selected'[t] # Null => selected'[t] = files[t]]_vars

Remembers(t) == memory \in Snapshot /\ memory[t] # Null

\* The memory of a polluted thread is removed from MEMORY.md in the end and
\* stays out of it, even when a consolidation that includes it is under way,
\* fails or crashes.
PollutedIsForgotten ==
  \A t \in Threads : t \notin enabled ~> []~Remembers(t)

\* The global row is a lease of one key that one worker can hold.
Lock == INSTANCE LeaseTable WITH
  Keys <- {"global"}, Owners <- Tokens, NoOwner <- NoToken,
  Length <- LeaseSeconds, Cap <- 1,
  lease <- [k \in {"global"} |->
    IF row.status = "running" THEN [owner |-> row.token, left |-> row.lease]
                              ELSE [owner |-> NoToken, left |-> 0]]

ImplementsLock == Lock!Spec
=============================================================================
