-------------------------- MODULE MemoryExtraction --------------------------
(***************************************************************************)
(* Phase 1 of the kernel's memory pipeline: several sessions, in one or    *)
(* more processes, extract a memory from every thread that has been idle   *)
(* for a while.  They share two SQLite databases, the threads and the      *)
(* memories with their jobs table, and nothing else.                       *)
(*                                                                         *)
(* A session that starts reads the list of idle threads (Scan), visits     *)
(* them newest first and leases a job row for each one it may process      *)
(* (Claim, Pass, Break), reads the rollout files (Sample), asks the model, *)
(* and marks each job (Succeed, NoOutput, Fail).  Each of these is a step  *)
(* of its own: any other session, a user working in the thread, a thread   *)
(* being deleted, a retention sweep or a reset of all memories may come in *)
(* between.                                                                *)
(*                                                                         *)
(* Times are the timestamps of the code.  Null is SQL's NULL; every time   *)
(* is larger, as COALESCE(..., -1) makes it in the code's comparisons.     *)
(***************************************************************************)
EXTENDS Integers, FiniteSets

CONSTANTS Threads,        \* threads whose rollouts may be extracted
          Workers,        \* sessions that run the pipeline at startup
          Tokens,         \* ownership tokens (UUIDs)
          NoToken,
          LeaseSeconds,   \* stage_one::JOB_LEASE_SECONDS
          RetryDelay,     \* stage_one::JOB_RETRY_DELAY_SECONDS
          Retries,        \* DEFAULT_RETRY_REMAINING
          MaxClaimed,     \* memories.max_rollouts_per_startup
          MinIdle,        \* memories.min_rollout_idle_hours
          MaxAge,         \* memories.max_rollout_age_days
          MaxUnused,      \* memories.max_unused_days
          MaxNow,         \* bound on the clock
          MaxEvents       \* bound on what comes from outside the pipeline

ASSUME ExtractionAssumption ==
  /\ IsFiniteSet(Threads)
  /\ NoToken \notin Tokens
  /\ {LeaseSeconds, RetryDelay, MinIdle, MaxAge, MaxUnused, MaxNow,
       MaxEvents} \subseteq Nat
  /\ Retries \in Nat \ {0}
  /\ MaxClaimed \in Nat \ {0}

VARIABLES
  now,        \* Utc::now().timestamp()
  thread,     \* table threads: updated_at and memory_mode, and how far a delete has come
  job,        \* rows of table jobs of kind memory_stage1; status "none" is no row
  output,     \* stage1_outputs.source_updated_at; Null is no row
  enqueued,   \* the global phase-2 job has been enqueued
  scan,       \* scan[w]: threads still to be visited, as read from the threads table
  held,       \* held[w]: the claims w works on
  events,     \* bounded: uses of the threads, deletes, resets and faults so far
  seen        \* history: how recent the rollout of the last recorded extraction was

vars == <<now, thread, job, output, enqueued, scan, held, events, seen>>

Null == -1

\* Bound on the environment and on faults.
Event == events < MaxEvents /\ events' = events + 1

Time == Nat \cup {Null}

Thread == [updated : Nat,
           mode : {"enabled", "polluted"},
           stage : {"present", "unfiled", "forgotten", "gone"}]
Job == [status : {"none", "running", "done", "error"},
        token : Tokens \cup {NoToken},
        lease : Time,            \* lease_until
        retryAt : Time,          \* retry_at
        retries : 0..Retries,    \* retry_remaining
        watermark : Time,        \* input_watermark
        success : Time]          \* last_success_watermark
Item == [thread : Threads, source : Nat]
Claim == [thread : Threads, source : Nat, token : Tokens, content : Time]

NoJob == [status |-> "none", token |-> NoToken, lease |-> Null, retryAt |-> Null,
          retries |-> 0, watermark |-> Null, success |-> Null]

Init ==
  /\ now = 0
  /\ thread = [t \in Threads |-> [updated |-> 0, mode |-> "enabled", stage |-> "present"]]
  /\ job = [t \in Threads |-> NoJob]
  /\ output = [t \in Threads |-> Null]
  /\ enqueued = FALSE
  /\ scan = [w \in Workers |-> {}]
  /\ held = [w \in Workers |-> {}]
  /\ events = 0
  /\ seen = [t \in Threads |-> Null]

-----------------------------------------------------------------------------
(* Claiming                                                                *)

\* The threads claim_stage1_jobs_for_startup selects.  The thread of the
\* session itself is never among them and is left out of Threads.
Eligible(t) ==
  /\ thread[t].stage # "gone"
  /\ thread[t].mode = "enabled"
  /\ thread[t].updated >= now - MaxAge
  /\ thread[t].updated <= now - MinIdle

\* A session starts: it reads the idle threads from the state database.
Scan(w) ==
  /\ scan[w] = {} /\ held[w] = {}
  /\ \E t \in Threads : Eligible(t)
  /\ scan' = [scan EXCEPT ![w] =
       {[thread |-> t, source |-> thread[t].updated] : t \in {u \in Threads : Eligible(u)}}]
  /\ UNCHANGED <<now, thread, job, output, enqueued, held, seen, events>>

\* Neither an output nor a successful job is as recent as the thread was.
NeedsUpdate(t, source) == output[t] < source /\ job[t].success < source

Live(t) == job[t].status = "running" /\ job[t].lease > now
Running == {t \in Threads : Live(t)}

\* Faulty: the retries are not looked at; a running lease is not respected.
ClaimableForever(i) ==
  LET j == job[i.thread]
      advanced == i.source > j.watermark
  IN  /\ NeedsUpdate(i.thread, i.source)
      /\ Cardinality(Running) < MaxClaimed
      /\ j.status = "none" \/ (~Live(i.thread) /\ (j.retryAt <= now \/ advanced))
ClaimableWhileLeased(i) ==
  LET j == job[i.thread]
      advanced == i.source > j.watermark
  IN  /\ NeedsUpdate(i.thread, i.source)
      /\ Cardinality(Running \ {i.thread}) < MaxClaimed
      /\ \/ j.status = "none"
         \/ (j.retryAt <= now \/ advanced) /\ (j.retries > 0 \/ advanced)

\* The upsert of try_claim_stage1_job inserts or updates the row.
Claimable(i) ==
  LET j == job[i.thread]
      advanced == i.source > j.watermark
  IN  /\ NeedsUpdate(i.thread, i.source)
      /\ Cardinality(Running) < MaxClaimed
      /\ \/ j.status = "none"
         \/ /\ ~Live(i.thread)
            /\ j.retryAt <= now \/ advanced
            /\ j.retries > 0 \/ advanced

ClaimedRow(i, k) ==
  [status |-> "running", token |-> k, lease |-> now + LeaseSeconds, retryAt |-> Null,
   retries |-> IF i.source > job[i.thread].watermark THEN Retries ELSE job[i.thread].retries,
   watermark |-> i.source, success |-> job[i.thread].success]

\* A new UUID is one that no row and no worker knows.
FreshTokens == {k \in Tokens : /\ \A t \in Threads : job[t].token # k
                               /\ \A w \in Workers : \A c \in held[w] : c.token # k}
NewToken == CHOOSE k \in FreshTokens : TRUE

\* The list is visited in the order of updated_at, newest first.
IsNext(w, i) == \A j \in scan[w] : j.source <= i.source

TryClaim(w, i) ==
  /\ IsNext(w, i) /\ Cardinality(held[w]) < MaxClaimed
  /\ Claimable(i) /\ FreshTokens # {}
  /\ job' = [job EXCEPT ![i.thread] = ClaimedRow(i, NewToken)]
  /\ held' = [held EXCEPT ![w] = @ \cup {[thread |-> i.thread, source |-> i.source,
                                          token |-> NewToken, content |-> Null]}]
  /\ scan' = [scan EXCEPT ![w] = @ \ {i}]
  /\ UNCHANGED <<now, thread, output, enqueued, seen, events>>

\* Up to date, leased to another worker, in backoff, exhausted, or over the cap.
Pass(w, i) ==
  /\ IsNext(w, i) /\ Cardinality(held[w]) < MaxClaimed
  /\ ~Claimable(i)
  /\ scan' = [scan EXCEPT ![w] = @ \ {i}]
  /\ UNCHANGED <<now, thread, job, output, enqueued, held, seen, events>>

\* max_claimed jobs have been claimed: the rest of the list is dropped.
Break(w) ==
  /\ scan[w] # {} /\ Cardinality(held[w]) >= MaxClaimed
  /\ scan' = [scan EXCEPT ![w] = {}]
  /\ UNCHANGED <<now, thread, job, output, enqueued, held, seen, events>>

-----------------------------------------------------------------------------
(* Extracting                                                              *)

\* The rollout file is read, some time after the thread was listed.
Sample(w, c) ==
  /\ scan[w] = {} /\ c.content = Null
  /\ thread[c.thread].stage = "present"
  /\ held' = [held EXCEPT ![w] =
       (@ \ {c}) \cup {[c EXCEPT !.content = thread[c.thread].updated]}]
  /\ UNCHANGED <<now, thread, job, output, enqueued, scan, seen, events>>

\* Faulty: the ownership token is not compared.
OwnedByAny(c) == job[c.thread].status = "running"

\* The row is still the one this worker claimed.
Owned(c) == job[c.thread].status = "running" /\ job[c.thread].token = c.token

\* Faulty: the watermark is not written; the thread's present time is written.
DoneRowUnmarked(t) == [job[t] EXCEPT !.status = "done", !.token = NoToken, !.lease = Null]
DoneRowCurrent(t) == [job[t] EXCEPT !.status = "done", !.token = NoToken, !.lease = Null,
                                    !.success = thread[t].updated]

DoneRow(t) == [job[t] EXCEPT !.status = "done", !.token = NoToken, !.lease = Null, !.success = job[t].watermark]

Forget(w, c) == held' = [held EXCEPT ![w] = @ \ {c}]

\* mark_stage1_job_succeeded, in one transaction.
Succeed(w, c) ==
  /\ c.content # Null
  /\ IF Owned(c)
     THEN /\ job' = [job EXCEPT ![c.thread] = DoneRow(c.thread)]
          /\ output' = [output EXCEPT ![c.thread] = IF c.source >= @ THEN c.source ELSE @]
          /\ enqueued' = TRUE
          /\ seen' = [seen EXCEPT ![c.thread] = c.content]
     ELSE UNCHANGED <<job, output, enqueued, seen>>
  /\ Forget(w, c)
  /\ UNCHANGED <<now, thread, scan, events>>

\* mark_stage1_job_succeeded_no_output, in one transaction.
NoOutput(w, c) ==
  /\ c.content # Null
  /\ IF Owned(c)
     THEN /\ job' = [job EXCEPT ![c.thread] = DoneRow(c.thread)]
          /\ output' = [output EXCEPT ![c.thread] = Null]
          /\ enqueued' = (enqueued \/ output[c.thread] # Null)
          /\ seen' = [seen EXCEPT ![c.thread] = c.content]
     ELSE UNCHANGED <<job, output, enqueued, seen>>
  /\ Forget(w, c)
  /\ UNCHANGED <<now, thread, scan, events>>

FailedRow(t) == [job[t] EXCEPT !.status = "error", !.token = NoToken, !.lease = Null,
                               !.retryAt = now + RetryDelay, !.retries = @ - 1]

\* mark_stage1_job_failed: the rollout cannot be read or the model call failed.
Fail(w, c) ==
  /\ scan[w] = {}
  /\ job' = IF Owned(c) THEN [job EXCEPT ![c.thread] = FailedRow(c.thread)] ELSE job
  /\ Forget(w, c)
  /\ UNCHANGED <<now, thread, output, enqueued, scan, seen, events>>

\* A result that the database would not take is dropped; the row stays leased.
Unrecorded(w, c) ==
  /\ Event
  /\ scan[w] = {}
  /\ Forget(w, c)
  /\ UNCHANGED <<now, thread, job, output, enqueued, scan, seen>>

\* The process dies, or a query of the claim loop fails and its claims are lost.
Abandon(w) ==
  /\ Event
  /\ scan[w] # {} \/ held[w] # {}
  /\ scan' = [scan EXCEPT ![w] = {}]
  /\ held' = [held EXCEPT ![w] = {}]
  /\ UNCHANGED <<now, thread, job, output, enqueued, seen>>

-----------------------------------------------------------------------------
(* The other users of the tables                                           *)

Tick ==
  /\ now < MaxNow
  /\ now' = now + 1
  /\ UNCHANGED <<thread, job, output, enqueued, scan, held, seen, events>>

\* The user works in the thread: its rollout grows and updated_at moves on.
Touch(t) ==
  /\ Event
  /\ thread[t].stage = "present" /\ thread[t].updated < now
  /\ thread' = [thread EXCEPT ![t].updated = now]
  /\ UNCHANGED <<now, job, output, enqueued, scan, held, seen>>

\* mark_thread_memory_mode_polluted; phase 2 may have selected the output.
Pollute(t) ==
  /\ Event
  /\ thread[t].stage = "present" /\ thread[t].mode = "enabled"
  /\ thread' = [thread EXCEPT ![t].mode = "polluted"]
  /\ enqueued' \in {enqueued, enqueued \/ output[t] # Null}
  /\ UNCHANGED <<now, job, output, scan, held, seen>>

\* prune_stage1_outputs_for_retention: old outputs that phase 2 has not selected
\* and nobody has used go, the job rows stay.
Prune(S) ==
  /\ Event
  /\ S # {} /\ \A t \in S : output[t] # Null /\ output[t] < now - MaxUnused
  /\ output' = [t \in Threads |-> IF t \in S THEN Null ELSE output[t]]
  /\ UNCHANGED <<now, thread, job, enqueued, scan, held, seen>>

\* thread/delete removes the rollout files first,
DeleteRollout(t) ==
  /\ Event
  /\ thread[t].stage = "present"
  /\ thread' = [thread EXCEPT ![t].stage = "unfiled"]
  /\ UNCHANGED <<now, job, output, enqueued, scan, held, seen>>

\* then the memory and its job (a failed delete may be tried again),
DeleteMemory(t) ==
  /\ thread[t].stage \in {"unfiled", "forgotten"}
  /\ thread' = [thread EXCEPT ![t].stage = "forgotten"]
  /\ job' = [job EXCEPT ![t] = NoJob]
  /\ output' = [output EXCEPT ![t] = Null]
  /\ enqueued' \in {enqueued, enqueued \/ output[t] # Null}
  /\ seen' = [seen EXCEPT ![t] = Null]
  /\ UNCHANGED <<now, scan, held, events>>

\* and the row of the thread last.
DeleteRow(t) ==
  /\ thread[t].stage = "forgotten"
  /\ thread' = [thread EXCEPT ![t].stage = "gone"]
  /\ UNCHANGED <<now, job, output, enqueued, scan, held, seen, events>>

\* clear_memory_data: every output and every job row, the global one too.
Clear ==
  /\ Event
  /\ job' = [t \in Threads |-> NoJob]
  /\ output' = [t \in Threads |-> Null]
  /\ enqueued' = FALSE
  /\ seen' = [t \in Threads |-> Null]
  /\ UNCHANGED <<now, thread, scan, held>>

-----------------------------------------------------------------------------
Next ==
  \/ \E w \in Workers : Scan(w) \/ Break(w) \/ Abandon(w)
  \/ \E w \in Workers : \E i \in scan[w] : TryClaim(w, i) \/ Pass(w, i)
  \/ \E w \in Workers : \E c \in held[w] :
       Sample(w, c) \/ Succeed(w, c) \/ NoOutput(w, c) \/ Fail(w, c) \/ Unrecorded(w, c)
  \/ \E t \in Threads :
       Touch(t) \/ Pollute(t) \/ DeleteRollout(t) \/ DeleteMemory(t) \/ DeleteRow(t)
  \/ \E S \in SUBSET Threads : Prune(S)
  \/ Tick
  \/ Clear

Spec == Init /\ [][Next]_vars
-----------------------------------------------------------------------------
(* Properties                                                              *)

\* Types.  In particular retry_remaining, which mark_stage1_job_failed
\* decrements without a floor, never becomes negative.
TypeOK ==
  /\ now \in Nat
  /\ thread \in [Threads -> Thread]
  /\ job \in [Threads -> Job]
  /\ output \in [Threads -> Time]
  /\ enqueued \in BOOLEAN
  /\ scan \in [Workers -> SUBSET Item]
  /\ held \in [Workers -> SUBSET Claim]
  /\ events \in Nat
  /\ seen \in [Threads -> Time]

\* The two tables agree: an output is the one of the last success its job row
\* records, and its consolidation has been enqueued.
OutputIsLastSuccess ==
  \A t \in Threads : output[t] # Null =>
    /\ job[t].status # "none"
    /\ job[t].success = output[t]
    /\ enqueued

\* A thread that the pipeline will not visit again until somebody works in it
\* (stage1_source_needs_update says no) has been read to its end: nothing
\* written between the scan, the claim and the reading of the rollout is lost.
NothingMissed ==
  \A t \in Threads :
    ~NeedsUpdate(t, thread[t].updated) => seen[t] >= thread[t].updated

\* Once delete_thread_memory has run no extraction that was under way, and no
\* claim made from an earlier scan, stores a memory of the thread again.
ForgottenStaysForgotten ==
  \A t \in Threads : thread[t].stage \in {"forgotten", "gone"} => output[t] = Null

\* A worker whose lease ran out and whose job was taken over cannot replace a
\* more recent extraction by the older one it still holds.
NewestWins ==
  [][\A t \in Threads : seen'[t] # Null => seen'[t] >= seen[t]]_vars

\* The stage-1 rows of table jobs implement a lease per thread.
LeaseOf(t) ==
  IF job[t].status = "running"
  THEN [owner |-> job[t].token, left |-> IF job[t].lease > now THEN job[t].lease - now ELSE 0]
  ELSE [owner |-> NoToken, left |-> 0]

Leases == INSTANCE LeaseTable WITH
  Keys <- Threads, Owners <- Tokens, NoOwner <- NoToken,
  Length <- LeaseSeconds, Cap <- MaxClaimed,
  lease <- [t \in Threads |-> LeaseOf(t)]

\* A running lease is never given to another worker, and however many sessions
\* start at once no more than max_running_jobs of them run: every step of the
\* pipeline is a step of LeaseTable, or changes no lease.
ImplementsLeases == Leases!Spec
=============================================================================
