----------------------- MODULE MemoryExtractionProofs -----------------------
(* Theorems about module MemoryExtraction, for any finite set of threads,   *)
(* any workers and tokens, and any lengths of lease, backoff and retention. *)
EXTENDS MemoryExtraction, TLAPS

-----------------------------------------------------------------------------
(* The inductive invariant                                                  *)

(* The stages of a thread whose memory was deleted. *)
Deleted == {"forgotten", "gone"}

(* A job row and the output, the history and the thread that go with it.   *)
(* A row that runs was claimed for something newer than what is stored, so *)
(* that its success replaces an older output; what has been recorded was   *)
(* read no earlier than the watermark says and no later than the thread    *)
(* was used.                                                               *)
JobOK(t) ==
  /\ job[t].status = "none" => job[t] = NoJob
  /\ job[t].status = "running" =>
       /\ job[t].token \in Tokens /\ job[t].retries >= 1
       /\ job[t].success < job[t].watermark /\ output[t] < job[t].watermark
  /\ output[t] # Null =>
       /\ job[t].status # "none" /\ job[t].success = output[t]
       /\ enqueued = TRUE
  /\ job[t].success <= seen[t] /\ seen[t] <= thread[t].updated
  /\ thread[t].stage \in Deleted => output[t] = Null

(* An entry of a worker's list is not newer than the thread. *)
ItemOK(i) == i.source <= thread[i.thread].updated

(* A claim.  While its row is still this worker's, nobody else has recorded *)
(* an extraction of the thread or deleted its memory, since both take the   *)
(* row away; a rollout that has been read is at least as recent as all that *)
(* is recorded.                                                             *)
ClaimOK(c) ==
  /\ c.source <= thread[c.thread].updated
  /\ c.content # Null => c.source <= c.content /\ c.content <= thread[c.thread].updated
  /\ Owned(c) =>
       /\ job[c.thread].watermark = c.source
       /\ c.content # Null =>
            seen[c.thread] <= c.content /\ thread[c.thread].stage \notin Deleted

(* The invariant, over all threads, lists and claims. *)
Jobs == \A t \in Threads : JobOK(t)
Items == \A w \in Workers : \A i \in scan[w] : ItemOK(i)
Claims == \A w \in Workers : \A c \in held[w] : ClaimOK(c)

EInv == TypeOK /\ Jobs /\ Items /\ Claims

-----------------------------------------------------------------------------
(* The rows that the statements write                                       *)

(* The constants are numbers, and no token is the absent one. *)
LEMMA Numbers ==
  /\ LeaseSeconds \in Nat /\ RetryDelay \in Nat /\ MinIdle \in Nat /\ MaxAge \in Nat
  /\ MaxUnused \in Nat /\ MaxNow \in Nat /\ MaxEvents \in Nat
  /\ Retries \in Nat \ {0} /\ MaxClaimed \in Nat \ {0}
  /\ NoToken \notin Tokens
BY ExtractionAssumption

(* The absent row has the type of a row. *)
LEMMA NoJobTyped == NoJob \in Job
BY Numbers DEF NoJob, Job, Time

(* A claim takes a token that no row and no worker knows. *)
LEMMA NewTokenIsFresh ==
  ASSUME FreshTokens # {}
  PROVE  /\ NewToken \in Tokens
         /\ \A w \in Workers : \A c \in held[w] : c.token # NewToken
<1>1. NewToken \in FreshTokens
  BY DEF NewToken
<1>2. QED
  BY <1>1 DEF FreshTokens

(* The row of a claim has a retry left, also when it is the first one. *)
LEMMA ClaimedRowTyped ==
  ASSUME TypeOK, Jobs, NEW i \in Item, Claimable(i), NEW k \in Tokens
  PROVE  /\ ClaimedRow(i, k) \in Job
         /\ ClaimedRow(i, k).retries >= 1
<1> DEFINE j == job[i.thread]
           n == IF i.source > j.watermark THEN Retries ELSE j.retries
<1>1. i.thread \in Threads /\ i.source \in Nat
  BY DEF Item
<1>2. j \in Job /\ JobOK(i.thread) /\ now \in Nat
  BY <1>1 DEF TypeOK, Jobs
<1>3. j.retries \in 0..Retries /\ j.watermark \in Time /\ j.success \in Time
  BY <1>2 DEF Job
<1>4. n \in 0..Retries /\ n >= 1
  <2>1. CASE i.source > j.watermark
    BY <2>1, Numbers
  <2>2. CASE ~(i.source > j.watermark)
    <3>1. j.status # "none"
      BY <1>1, <1>2, <2>2 DEF JobOK, NoJob, Null
    <3>2. j.retries > 0
      BY <2>2, <3>1 DEF Claimable
    <3>3. QED
      BY <1>3, <2>2, <3>2, Numbers
  <2>3. QED
    BY <2>1, <2>2
<1>5. /\ ClaimedRow(i, k) =
           [status |-> "running", token |-> k, lease |-> now + LeaseSeconds, retryAt |-> Null,
            retries |-> n, watermark |-> i.source, success |-> j.success]
      /\ now + LeaseSeconds \in Time /\ Null \in Time /\ i.source \in Time
  BY <1>1, <1>2, Numbers DEF ClaimedRow, Time
<1> HIDE DEF n
<1>6. QED
  BY <1>3, <1>4, <1>5 DEF Job

(* The row of a success takes the watermark of its claim over. *)
LEMMA DoneRowTyped ==
  ASSUME TypeOK, NEW t \in Threads
  PROVE  /\ DoneRow(t) \in Job
         /\ DoneRow(t).status = "done" /\ DoneRow(t).token = NoToken
         /\ DoneRow(t).success = job[t].watermark
BY DEF TypeOK, Job, DoneRow, Time

(* A failure uses a retry up. *)
LEMMA FailedRowTyped ==
  ASSUME TypeOK, NEW t \in Threads, job[t].retries >= 1
  PROVE  /\ FailedRow(t) \in Job
         /\ FailedRow(t).status = "error" /\ FailedRow(t).token = NoToken
         /\ FailedRow(t).success = job[t].success
<1>1. job[t] \in Job /\ now + RetryDelay \in Time /\ Null \in Time /\ job[t].retries - 1 \in 0..Retries
  BY Numbers DEF TypeOK, Job, Time
<1>2. QED
  BY <1>1 DEF Job, FailedRow

-----------------------------------------------------------------------------
(* Types                                                                    *)

(* Nothing is extracted, claimed or listed at first. *)
LEMMA EInvInit == Init => EInv
<1> SUFFICES ASSUME Init PROVE EInv
  OBVIOUS
<1>1. job \in [Threads -> Job] /\ thread \in [Threads -> Thread]
  BY NoJobTyped DEF Init, Thread
<1>2. enqueued \in BOOLEAN
  BY DEF Init
<1>3. /\ now \in Nat /\ output \in [Threads -> Time] /\ events \in Nat
      /\ scan \in [Workers -> SUBSET Item] /\ held \in [Workers -> SUBSET Claim]
      /\ seen \in [Threads -> Time]
  BY DEF Init, Time
<1>4. Jobs
  BY DEF Init, Jobs, JobOK, NoJob, Null, Deleted
<1>5. Items /\ Claims
  BY DEF Init, Items, Claims
<1>6. QED
  BY <1>1, <1>2, <1>3, <1>4, <1>5 DEF EInv, TypeOK

(* Scanning and claiming. *)
LEMMA ClaimTyped ==
  ASSUME EInv, NEW w \in Workers, NEW i \in scan[w], TryClaim(w, i)
  PROVE  TypeOK'
<1> DEFINE c == [thread |-> i.thread, source |-> i.source, token |-> NewToken, content |-> Null]
<1>1. TypeOK /\ Jobs
  BY DEF EInv
<1>2. i \in Item /\ NewToken \in Tokens
  BY <1>1, NewTokenIsFresh DEF TypeOK, TryClaim
<1>3. job' \in [Threads -> Job]
  BY <1>1, <1>2, ClaimedRowTyped DEF TryClaim, TypeOK, Item
<1>4. c \in Claim
  BY <1>2 DEF Item, Claim, Time
<1>5. held' = [held EXCEPT ![w] = @ \cup {c}] /\ scan' = [scan EXCEPT ![w] = @ \ {i}]
  BY DEF TryClaim
<1> HIDE DEF c
<1>6. held' \in [Workers -> SUBSET Claim] /\ scan' \in [Workers -> SUBSET Item]
  BY <1>1, <1>4, <1>5 DEF TypeOK
<1>7. QED
  BY <1>1, <1>3, <1>6 DEF TryClaim, TypeOK

(* A scan, the end of a batch and a lost worker keep the types. *)
LEMMA ScanTyped ==
  ASSUME EInv, NEW w \in Workers, Scan(w) \/ Break(w) \/ Abandon(w)
  PROVE  TypeOK'
<1>1. TypeOK
  BY DEF EInv
<1>2. CASE Scan(w)
  <2>1. {[thread |-> t, source |-> thread[t].updated] : t \in {u \in Threads : Eligible(u)}}
          \subseteq Item
    BY <1>1 DEF TypeOK, Thread, Item
  <2>2. QED
    BY <1>1, <1>2, <2>1 DEF Scan, TypeOK
<1>3. CASE Break(w)
  BY <1>1, <1>3 DEF Break, TypeOK
<1>4. CASE Abandon(w)
  BY <1>1, <1>4 DEF Abandon, Event, TypeOK
<1>5. QED
  BY <1>2, <1>3, <1>4

(* What a worker does with a claim. *)
LEMMA WorkTyped ==
  ASSUME EInv, NEW w \in Workers, NEW c \in held[w],
         Sample(w, c) \/ Succeed(w, c) \/ NoOutput(w, c) \/ Fail(w, c) \/ Unrecorded(w, c)
  PROVE  TypeOK'
<1>1. TypeOK /\ c \in Claim /\ JobOK(c.thread)
  BY DEF EInv, TypeOK, Jobs, Claim
<1>2. /\ c.thread \in Threads /\ c.source \in Nat /\ c.token \in Tokens /\ c.content \in Time
      /\ c.source \in Time
  BY <1>1 DEF Claim, Time
<1>3. ASSUME Forget(w, c) PROVE held' \in [Workers -> SUBSET Claim]
  BY <1>1, <1>3 DEF Forget, TypeOK
<1>4. CASE Sample(w, c)
  <2> DEFINE d == [c EXCEPT !.content = thread[c.thread].updated]
  <2>1. d \in Claim
    BY <1>1, <1>2 DEF TypeOK, Thread, Claim, Time
  <2>2. held' = [held EXCEPT ![w] = (@ \ {c}) \cup {d}]
    BY <1>4 DEF Sample
  <2> HIDE DEF d
  <2>3. held' \in [Workers -> SUBSET Claim]
    BY <1>1, <2>1, <2>2 DEF TypeOK
  <2>4. QED
    BY <1>1, <1>4, <2>3 DEF Sample, TypeOK
<1>5. CASE Succeed(w, c)
  <2>1. job' \in [Threads -> Job]
    BY <1>1, <1>2, <1>5, DoneRowTyped DEF Succeed, TypeOK
  <2>2. output' \in [Threads -> Time] /\ seen' \in [Threads -> Time]
    BY <1>1, <1>2, <1>5 DEF Succeed, TypeOK
  <2>3. enqueued' \in BOOLEAN
    BY <1>1, <1>5 DEF Succeed, TypeOK
  <2>4. QED
    BY <1>1, <1>3, <1>5, <2>1, <2>2, <2>3 DEF Succeed, TypeOK
<1>6. CASE NoOutput(w, c)
  <2>1. job' \in [Threads -> Job]
    BY <1>1, <1>2, <1>6, DoneRowTyped DEF NoOutput, TypeOK
  <2>2. output' \in [Threads -> Time] /\ seen' \in [Threads -> Time]
    BY <1>1, <1>2, <1>6 DEF NoOutput, TypeOK, Time
  <2>3. enqueued' \in BOOLEAN
    BY <1>1, <1>6 DEF NoOutput, TypeOK
  <2>4. QED
    BY <1>1, <1>3, <1>6, <2>1, <2>2, <2>3 DEF NoOutput, TypeOK
<1>7. CASE Fail(w, c)
  <2>1. job' \in [Threads -> Job]
    BY <1>1, <1>2, <1>7, FailedRowTyped DEF Fail, TypeOK, Owned, JobOK
  <2>2. QED
    BY <1>1, <1>3, <1>7, <2>1 DEF Fail, TypeOK
<1>8. CASE Unrecorded(w, c)
  BY <1>1, <1>3, <1>8 DEF Unrecorded, Event, TypeOK
<1>9. QED
  BY <1>4, <1>5, <1>6, <1>7, <1>8

(* The other users of the tables. *)
LEMMA ThreadTyped ==
  ASSUME EInv, NEW t \in Threads,
         Touch(t) \/ Pollute(t) \/ DeleteRollout(t) \/ DeleteMemory(t) \/ DeleteRow(t)
  PROVE  TypeOK'
<1>1. TypeOK
  BY DEF EInv
<1>2. thread' \in [Threads -> Thread]
  BY <1>1 DEF Touch, Pollute, DeleteRollout, DeleteMemory, DeleteRow, TypeOK, Thread
<1>3. job' \in [Threads -> Job] /\ output' \in [Threads -> Time] /\ seen' \in [Threads -> Time]
  BY <1>1, NoJobTyped
  DEF Touch, Pollute, DeleteRollout, DeleteMemory, DeleteRow, TypeOK, Time
<1>4. enqueued' \in BOOLEAN
  BY <1>1, Zenon DEF Touch, Pollute, DeleteRollout, DeleteMemory, DeleteRow, TypeOK
<1>5. events' \in Nat /\ UNCHANGED <<now, scan, held>>
  BY <1>1 DEF Touch, Pollute, DeleteRollout, DeleteMemory, DeleteRow, Event, TypeOK
<1>6. QED
  BY <1>1, <1>2, <1>3, <1>4, <1>5 DEF TypeOK

(* Every step keeps the types. *)
LEMMA TypeStep == EInv /\ [Next]_vars => TypeOK'
<1> SUFFICES ASSUME EInv, [Next]_vars PROVE TypeOK'
  OBVIOUS
<1>1. TypeOK
  BY DEF EInv
<1>2. ASSUME NEW w \in Workers, NEW i \in scan[w], Pass(w, i) PROVE TypeOK'
  BY <1>1, <1>2 DEF Pass, TypeOK
<1>3. ASSUME NEW S \in SUBSET Threads, Prune(S) PROVE TypeOK'
  BY <1>1, <1>3 DEF Prune, Event, TypeOK, Time
<1>4. CASE Tick
  BY <1>1, <1>4 DEF Tick, TypeOK
<1>5. CASE Clear
  <2>1. enqueued' \in BOOLEAN
    BY <1>5 DEF Clear
  <2>2. /\ job' \in [Threads -> Job] /\ output' \in [Threads -> Time]
        /\ seen' \in [Threads -> Time]
        /\ events' \in Nat /\ UNCHANGED <<now, thread, scan, held>>
    BY <1>1, <1>5, NoJobTyped DEF Clear, Event, TypeOK, Time
  <2>3. QED
    BY <1>1, <2>1, <2>2 DEF TypeOK
<1>6. CASE UNCHANGED vars
  BY <1>1, <1>6 DEF vars, TypeOK
<1>7. QED
  BY <1>2, <1>3, <1>4, <1>5, <1>6, ScanTyped, ClaimTyped, WorkTyped, ThreadTyped DEF Next

-----------------------------------------------------------------------------
(* The other parts of the invariant                                         *)

(* Threads are only ever used and deleted, never the other way round. *)
GoesOn(t) ==
  /\ thread'[t].updated >= thread[t].updated
  /\ thread'[t].stage \in Deleted => thread[t].stage \in Deleted

(* What a step that is not about thread t leaves as it is. *)
SameTables(t) ==
  /\ job'[t] = job[t] /\ output'[t] = output[t] /\ seen'[t] = seen[t]
  /\ enqueued = TRUE => enqueued' = TRUE

(* A row stays in order when its tables do not change. *)
LEMMA JobKept ==
  ASSUME TypeOK, TypeOK', NEW t \in Threads, JobOK(t), SameTables(t), GoesOn(t)
  PROVE  JobOK(t)'
<1>1. seen[t] \in Int /\ thread[t].updated \in Int /\ thread'[t].updated \in Int
  BY DEF TypeOK, Thread, Time, Null
<1>2. QED
  BY <1>1 DEF JobOK, SameTables, GoesOn

(* A list stays in order when threads only go on. *)
LEMMA ItemsKept ==
  ASSUME EInv, TypeOK', \A t \in Threads : GoesOn(t),
         \A w \in Workers : \A i \in scan'[w] : i \in scan[w] \/ ItemOK(i)'
  PROVE  Items'
<1> SUFFICES ASSUME NEW w \in Workers, NEW i \in scan'[w], i \in scan[w] PROVE ItemOK(i)'
  BY DEF Items
<1>1. ItemOK(i) /\ i.source \in Nat /\ i.thread \in Threads
  BY DEF EInv, Items, TypeOK, Item
<1>2. thread[i.thread].updated \in Nat /\ thread'[i.thread].updated \in Nat
  BY <1>1 DEF EInv, TypeOK, Thread
<1>3. QED
  BY <1>1, <1>2 DEF ItemOK, GoesOn

(* A claim stays as it is supposed to be when its row is taken away from   *)
(* it, or when nothing that is recorded of its thread changes.             *)
LEMMA ClaimKept ==
  ASSUME TypeOK, TypeOK', NEW c \in Claim, ClaimOK(c), GoesOn(c.thread),
         Owned(c)' => /\ Owned(c) /\ job'[c.thread].watermark = job[c.thread].watermark
                      /\ seen'[c.thread] = seen[c.thread]
  PROVE  ClaimOK(c)'
<1>1. c.thread \in Threads /\ c.source \in Int /\ c.content \in Int
  BY DEF Claim, Time, Null
<1>2. thread[c.thread].updated \in Int /\ thread'[c.thread].updated \in Int
  BY <1>1 DEF TypeOK, Thread
<1>3. QED
  BY <1>1, <1>2 DEF ClaimOK, GoesOn

(* A claim stays in order when its row is not touched or is taken away. *)
LEMMA ClaimsKept ==
  ASSUME EInv, TypeOK', \A t \in Threads : GoesOn(t),
         \A w \in Workers : \A c \in held'[w] : c \in held[w] \/ ClaimOK(c)',
         \A w \in Workers : \A c \in held[w] :
           Owned(c)' => /\ Owned(c) /\ job'[c.thread].watermark = job[c.thread].watermark
                        /\ seen'[c.thread] = seen[c.thread]
  PROVE  Claims'
<1> SUFFICES ASSUME NEW w \in Workers, NEW c \in held'[w], c \in held[w] PROVE ClaimOK(c)'
  BY DEF Claims
<1>1. c \in Claim /\ c.thread \in Threads /\ ClaimOK(c)
  BY DEF EInv, TypeOK, Claims, Claim
<1>2. QED
  BY <1>1, ClaimKept DEF EInv

(* A step that changes no table but the list and the claims of a worker. *)
LEMMA TablesKept ==
  ASSUME EInv, TypeOK', UNCHANGED <<thread, job, output, enqueued, seen>>,
         \A w \in Workers : \A i \in scan'[w] : i \in scan[w] \/ ItemOK(i)',
         \A w \in Workers : \A c \in held'[w] : c \in held[w] \/ ClaimOK(c)'
  PROVE  EInv'
<1>1. \A t \in Threads : GoesOn(t) /\ SameTables(t)
  BY DEF GoesOn, SameTables, EInv, TypeOK, Thread
<1>2. Jobs'
  BY <1>1, JobKept DEF EInv, Jobs
<1>3. Items'
  BY <1>1, ItemsKept
<1>4. Claims'
  BY <1>1, ClaimsKept DEF Owned
<1>5. QED
  BY <1>2, <1>3, <1>4 DEF EInv

(* Listing the threads, ending a batch and losing a worker. *)
LEMMA ScanStep ==
  ASSUME EInv, TypeOK', NEW w \in Workers, Scan(w) \/ Break(w) \/ Abandon(w)
  PROVE  EInv'
<1>1. TypeOK
  BY DEF EInv
<1>2. CASE Scan(w)
  <2>1. ASSUME NEW v \in Workers, NEW i \in scan'[v], i \notin scan[v] PROVE ItemOK(i)'
    <3>1. v = w
      BY <1>1, <1>2, <2>1 DEF Scan, TypeOK
    <3>2. PICK t \in Threads : i = [thread |-> t, source |-> thread[t].updated]
      BY <1>1, <1>2, <2>1, <3>1 DEF Scan, TypeOK
    <3>3. QED
      BY <1>1, <1>2, <3>2 DEF Scan, ItemOK, TypeOK, Thread
  <2>2. QED
    BY <1>2, <2>1, TablesKept DEF Scan
<1>3. CASE Break(w)
  BY <1>1, <1>3, TablesKept DEF Break, TypeOK
<1>4. CASE Abandon(w)
  BY <1>1, <1>4, TablesKept DEF Abandon, TypeOK
<1>5. QED
  BY <1>2, <1>3, <1>4

(* A claim: the row is taken from whoever held it before, since nobody     *)
(* knows the new token.                                                    *)
LEMMA ClaimStep ==
  ASSUME EInv, TypeOK', NEW w \in Workers, NEW i \in scan[w], TryClaim(w, i)
  PROVE  EInv'
<1> DEFINE t == i.thread
           d == [thread |-> i.thread, source |-> i.source, token |-> NewToken, content |-> Null]
<1>1. TypeOK /\ Jobs /\ i \in Item /\ t \in Threads /\ i.source \in Nat /\ ItemOK(i)
  BY DEF EInv, TypeOK, Items, Item
<1>2. NewToken \in Tokens /\ \A v \in Workers : \A c \in held[v] : c.token # NewToken
  BY NewTokenIsFresh DEF TryClaim
<1>3. /\ job'[t].status = "running" /\ job'[t].token = NewToken
      /\ job'[t].watermark = i.source /\ job'[t].success = job[t].success
      /\ job'[t].retries >= 1
      /\ \A u \in Threads : u # t => job'[u] = job[u]
  BY <1>1, <1>2, ClaimedRowTyped DEF TryClaim, TypeOK, ClaimedRow
<1>4. UNCHANGED <<thread, output, enqueued, seen>>
  BY DEF TryClaim
<1>5. \A u \in Threads : GoesOn(u)
  BY <1>1, <1>4 DEF GoesOn, TypeOK, Thread
<1>6. ASSUME NEW u \in Threads PROVE JobOK(u)'
  <2>1. CASE u = t
    <3>1. output[t] < i.source /\ job[t].success < i.source
      BY DEF TryClaim, Claimable, NeedsUpdate
    <3>2. QED
      BY <1>1, <1>2, <1>3, <1>4, <2>1, <3>1 DEF Jobs, JobOK
  <2>2. CASE u # t
    BY <1>1, <1>3, <1>4, <1>5, <2>2, JobKept DEF Jobs, SameTables
  <2>3. QED
    BY <2>1, <2>2
<1>7. Items'
  BY <1>1, <1>5, ItemsKept DEF TryClaim, TypeOK
<1>8. d.thread = t /\ d.source = i.source /\ d.token = NewToken /\ d.content = Null
  OBVIOUS
<1>9. held' = [held EXCEPT ![w] = @ \cup {d}]
  BY DEF TryClaim
<1> HIDE DEF d
<1>10. ASSUME NEW c, c = d PROVE ClaimOK(c)'
  BY <1>1, <1>3, <1>4, <1>8, <1>10 DEF ClaimOK, ItemOK, Owned
<1>11. \A v \in Workers : \A c \in held'[v] : c \in held[v] \/ c = d
  BY <1>1, <1>9 DEF TypeOK
<1>12. ASSUME NEW v \in Workers, NEW c \in held[v], Owned(c)'
       PROVE  Owned(c) /\ job'[c.thread] = job[c.thread] /\ seen'[c.thread] = seen[c.thread]
  <2>1. c.thread \in Threads /\ c.thread # t
    BY <1>1, <1>2, <1>3, <1>12 DEF Owned, TypeOK, Claim
  <2>2. QED
    BY <1>3, <1>4, <1>12, <2>1 DEF Owned
<1>13. Claims'
  BY <1>5, <1>10, <1>11, <1>12, ClaimsKept
<1>14. QED
  BY <1>6, <1>7, <1>13 DEF EInv, Jobs


(* The rollout is read: never before it was listed. *)
LEMMA SampleStep ==
  ASSUME EInv, TypeOK', NEW w \in Workers, NEW c \in held[w], Sample(w, c)
  PROVE  EInv'
<1> DEFINE d == [c EXCEPT !.content = thread[c.thread].updated]
<1>1. TypeOK /\ c \in Claim /\ ClaimOK(c) /\ c.thread \in Threads /\ c.source \in Nat
  BY DEF EInv, TypeOK, Claims, Claim
<1>2. JobOK(c.thread) /\ thread[c.thread].updated \in Nat
  BY <1>1 DEF EInv, Jobs, TypeOK, Thread
<1>3. /\ d.thread = c.thread /\ d.source = c.source /\ d.token = c.token
      /\ d.content = thread[c.thread].updated
  BY <1>1 DEF Claim
<1>4. held' = [held EXCEPT ![w] = (@ \ {c}) \cup {d}]
  BY DEF Sample
<1> HIDE DEF d
<1>5. ASSUME NEW e, e = d PROVE ClaimOK(e)'
  <2>1. UNCHANGED <<thread, job, seen>> /\ thread[c.thread].stage = "present"
    BY DEF Sample
  <2>2. Owned(e)' => Owned(c)
    BY <1>3, <1>5, <2>1 DEF Owned
  <2>3. QED
    BY <1>1, <1>2, <1>3, <1>5, <2>1, <2>2 DEF ClaimOK, JobOK, Deleted
<1>6. \A v \in Workers : \A e \in held'[v] : e \in held[v] \/ e = d
  BY <1>1, <1>4 DEF TypeOK
<1>7. QED
  BY <1>5, <1>6, TablesKept DEF Sample

(* The end of a job: its row is nobody's any more, and what is recorded of *)
(* the other threads stays.                                                *)
LEMMA ReleaseStep ==
  ASSUME EInv, TypeOK', NEW w \in Workers, NEW c \in held[w], Owned(c), Forget(w, c),
         JobOK(c.thread)', job'[c.thread].status # "running",
         \A u \in Threads : u # c.thread => SameTables(u),
         UNCHANGED <<thread, scan>>
  PROVE  EInv'
<1>1. TypeOK /\ c.thread \in Threads
  BY DEF EInv, TypeOK, Claim
<1>2. \A u \in Threads : GoesOn(u)
  BY <1>1 DEF GoesOn, TypeOK, Thread
<1>3. Jobs'
  BY <1>1, <1>2, JobKept DEF EInv, Jobs
<1>4. Items'
  BY <1>2, ItemsKept
<1>5. \A v \in Workers : \A e \in held'[v] : e \in held[v]
  BY <1>1 DEF Forget, TypeOK
<1>6. ASSUME NEW v \in Workers, NEW e \in held[v], Owned(e)'
      PROVE  Owned(e) /\ job'[e.thread] = job[e.thread] /\ seen'[e.thread] = seen[e.thread]
  <2>1. e.thread \in Threads /\ e.thread # c.thread
    BY <1>1, <1>6 DEF Owned, TypeOK, Claim
  <2>2. QED
    BY <1>6, <2>1 DEF Owned, SameTables
<1>7. Claims'
  BY <1>2, <1>5, <1>6, ClaimsKept
<1>8. QED
  BY <1>3, <1>4, <1>7 DEF EInv

(* A worker that no longer owns its row drops the claim and writes nothing. *)
LEMMA DropStep ==
  ASSUME EInv, TypeOK', NEW w \in Workers, NEW c \in held[w], Forget(w, c),
         UNCHANGED <<thread, job, output, enqueued, seen, scan>>
  PROVE  EInv'
<1>1. \A v \in Workers : \A e \in held'[v] : e \in held[v]
  BY DEF Forget, EInv, TypeOK
<1>2. QED
  BY <1>1, TablesKept

(* A claim that is still owned is for something newer than what is stored. *)
LEMMA OwnedClaim ==
  ASSUME EInv, NEW w \in Workers, NEW c \in held[w], Owned(c)
  PROVE  /\ TypeOK /\ c \in Claim /\ c.thread \in Threads /\ c.source \in Nat /\ c.content \in Int
         /\ job[c.thread] \in Job /\ job[c.thread].retries >= 1
         /\ job[c.thread].watermark = c.source
         /\ job[c.thread].success < c.source /\ output[c.thread] < c.source
         /\ output[c.thread] \in Int
         /\ c.content # Null =>
              /\ c.source <= c.content /\ c.content <= thread[c.thread].updated
              /\ seen[c.thread] <= c.content /\ thread[c.thread].stage \notin Deleted
<1>1. TypeOK /\ c \in Claim /\ ClaimOK(c) /\ c.thread \in Threads
  BY DEF EInv, TypeOK, Claims, Claim
<1>2. JobOK(c.thread) /\ job[c.thread] \in Job /\ output[c.thread] \in Time
  BY <1>1 DEF EInv, Jobs, TypeOK
<1>3. c.source \in Nat /\ c.content \in Int /\ output[c.thread] \in Int
  BY <1>1, <1>2 DEF Claim, Time, Null
<1>4. QED
  BY <1>1, <1>2, <1>3 DEF ClaimOK, JobOK, Owned

(* A success stores the rollout that was read and ends the claim. *)
LEMMA SucceedStep ==
  ASSUME EInv, TypeOK', NEW w \in Workers, NEW c \in held[w], Succeed(w, c)
  PROVE  EInv'
<1>1. CASE ~Owned(c)
  BY <1>1, DropStep DEF Succeed
<1>2. CASE Owned(c)
  <2> DEFINE t == c.thread
  <2>1. /\ TypeOK /\ t \in Threads /\ c.source \in Nat /\ c.content \in Int
        /\ job[t].watermark = c.source /\ output[t] < c.source /\ output[t] \in Int
        /\ c.source <= c.content /\ c.content <= thread[t].updated
        /\ thread[t].stage \notin Deleted
    BY <1>2, OwnedClaim DEF Succeed
  <2>2. /\ job'[t] = DoneRow(t) /\ output'[t] = c.source /\ seen'[t] = c.content
        /\ enqueued' = TRUE /\ thread' = thread
    BY <1>2, <2>1 DEF Succeed, TypeOK
  <2>3. JobOK(t)'
    BY <2>1, <2>2, DoneRowTyped DEF JobOK
  <2>4. \A u \in Threads : u # t => SameTables(u)
    BY <1>2, <2>1, <2>2 DEF Succeed, SameTables, TypeOK
  <2>5. QED
    BY <1>2, <2>1, <2>2, <2>3, <2>4, DoneRowTyped, ReleaseStep DEF Succeed
<1>3. QED
  BY <1>1, <1>2

(* A success without output removes what was stored. *)
LEMMA NoOutputStep ==
  ASSUME EInv, TypeOK', NEW w \in Workers, NEW c \in held[w], NoOutput(w, c)
  PROVE  EInv'
<1>1. CASE ~Owned(c)
  BY <1>1, DropStep DEF NoOutput
<1>2. CASE Owned(c)
  <2> DEFINE t == c.thread
  <2>1. /\ TypeOK /\ t \in Threads /\ c.source \in Nat /\ c.content \in Int
        /\ job[t].watermark = c.source
        /\ c.source <= c.content /\ c.content <= thread[t].updated
    BY <1>2, OwnedClaim DEF NoOutput
  <2>2. /\ job'[t] = DoneRow(t) /\ output'[t] = Null /\ seen'[t] = c.content
        /\ thread' = thread
    BY <1>2, <2>1 DEF NoOutput, TypeOK
  <2>3. JobOK(t)'
    BY <2>1, <2>2, DoneRowTyped DEF JobOK
  <2>4. enqueued = TRUE => enqueued' = TRUE
    BY <1>2 DEF NoOutput
  <2>5. \A u \in Threads : u # t => SameTables(u)
    BY <1>2, <2>1, <2>4 DEF NoOutput, SameTables, TypeOK
  <2>6. QED
    BY <1>2, <2>1, <2>2, <2>3, <2>5, DoneRowTyped, ReleaseStep DEF NoOutput
<1>3. QED
  BY <1>1, <1>2

(* A failure costs a retry and leaves the output. *)
LEMMA FailStep ==
  ASSUME EInv, TypeOK', NEW w \in Workers, NEW c \in held[w], Fail(w, c)
  PROVE  EInv'
<1>1. CASE ~Owned(c)
  BY <1>1, DropStep DEF Fail
<1>2. CASE Owned(c)
  <2> DEFINE t == c.thread
  <2>1. TypeOK /\ t \in Threads /\ job[t].retries >= 1 /\ JobOK(t)
    BY <1>2, OwnedClaim DEF EInv, Jobs
  <2>2. job'[t] = FailedRow(t) /\ UNCHANGED <<thread, output, seen, enqueued>>
    BY <1>2, <2>1 DEF Fail, TypeOK
  <2>3. JobOK(t)'
    BY <2>1, <2>2, FailedRowTyped DEF JobOK
  <2>4. \A u \in Threads : u # t => SameTables(u)
    BY <1>2, <2>1, <2>2 DEF Fail, SameTables, TypeOK
  <2>5. QED
    BY <1>2, <2>1, <2>2, <2>3, <2>4, FailedRowTyped, ReleaseStep DEF Fail
<1>3. QED
  BY <1>1, <1>2

(* The thread is used, polluted or deleted.  Deleting the memory takes the *)
(* row away from whoever is extracting it.                                 *)
LEMMA ThreadStep ==
  ASSUME EInv, TypeOK', NEW t \in Threads,
         Touch(t) \/ Pollute(t) \/ DeleteRollout(t) \/ DeleteMemory(t) \/ DeleteRow(t)
  PROVE  EInv'
<1>1. TypeOK /\ JobOK(t)
  BY DEF EInv, Jobs
<1>2. scan' = scan /\ held' = held
  BY DEF Touch, Pollute, DeleteRollout, DeleteMemory, DeleteRow
<1>3. enqueued = TRUE => enqueued' = TRUE
  BY Zenon DEF Touch, Pollute, DeleteRollout, DeleteMemory, DeleteRow
<1>4. ASSUME \A u \in Threads : u # t => SameTables(u) /\ GoesOn(u), JobOK(t)',
             thread'[t].updated >= thread[t].updated,
             \/ GoesOn(t) /\ SameTables(t)
             \/ job'[t].status # "running"
      PROVE  EInv'
  <2>1. Jobs'
    BY <1>4, JobKept DEF EInv, Jobs
  <2>2. ASSUME NEW v \in Workers, NEW i \in scan[v] PROVE ItemOK(i)'
    <3>1. ItemOK(i) /\ i.source \in Nat /\ i.thread \in Threads
      BY DEF EInv, Items, TypeOK, Item
    <3>2. thread[i.thread].updated \in Nat /\ thread'[i.thread].updated \in Nat
      BY <3>1 DEF EInv, TypeOK, Thread
    <3>3. QED
      BY <1>4, <3>1, <3>2 DEF ItemOK, GoesOn
  <2>3. ASSUME NEW v \in Workers, NEW c \in held[v] PROVE ClaimOK(c)'
    <3>1. c \in Claim /\ c.thread \in Threads /\ ClaimOK(c)
      BY DEF EInv, TypeOK, Claims, Claim
    <3>2. CASE GoesOn(c.thread) /\ SameTables(c.thread)
      BY <1>1, <3>1, <3>2, ClaimKept DEF SameTables, Owned
    <3>3. CASE c.thread = t /\ job'[t].status # "running"
      <4>1. c.source \in Int /\ c.content \in Int
        BY <3>1 DEF Claim, Time, Null
      <4>2. thread[t].updated \in Int /\ thread'[t].updated \in Int
        BY <1>1 DEF TypeOK, Thread
      <4>3. QED
        BY <1>4, <3>1, <3>3, <4>1, <4>2 DEF ClaimOK, Owned
    <3>4. QED
      BY <1>4, <3>1, <3>2, <3>3
  <2>4. QED
    BY <1>2, <2>1, <2>2, <2>3 DEF EInv, Items, Claims
<1>5. CASE Touch(t) \/ Pollute(t) \/ DeleteRollout(t) \/ DeleteRow(t)
  <2>1. UNCHANGED <<job, output, seen>>
    BY <1>5 DEF Touch, Pollute, DeleteRollout, DeleteRow
  <2>2. \A u \in Threads : SameTables(u)
    BY <1>3, <2>1 DEF SameTables
  <2>3. \A u \in Threads : GoesOn(u)
    BY <1>1, <1>5 DEF Touch, Pollute, DeleteRollout, DeleteRow, GoesOn, TypeOK, Thread, Deleted
  <2>4. JobOK(t)'
    BY <1>1, <2>2, <2>3, JobKept
  <2>5. QED
    BY <1>4, <2>2, <2>3, <2>4 DEF GoesOn
<1>6. CASE DeleteMemory(t)
  <2>1. /\ job'[t] = NoJob /\ output'[t] = Null /\ seen'[t] = Null
        /\ thread'[t].updated = thread[t].updated
    BY <1>1, <1>6 DEF DeleteMemory, TypeOK, Thread
  <2>2. \A u \in Threads : u # t => SameTables(u) /\ GoesOn(u)
    BY <1>1, <1>3, <1>6 DEF DeleteMemory, SameTables, GoesOn, TypeOK, Thread
  <2>3. thread[t].updated \in Nat
    BY <1>1 DEF TypeOK, Thread
  <2>4. JobOK(t)'
    BY <2>1, <2>3 DEF JobOK, NoJob, Null
  <2>5. QED
    BY <1>4, <2>1, <2>2, <2>3, <2>4 DEF NoJob
<1>7. QED
  BY <1>5, <1>6

(* Outputs are pruned, never their job rows. *)
LEMMA PruneStep ==
  ASSUME EInv, TypeOK', NEW S \in SUBSET Threads, Prune(S)
  PROVE  EInv'
<1>1. TypeOK /\ UNCHANGED <<thread, job, enqueued, scan, held, seen>>
  BY DEF EInv, Prune
<1>2. \A t \in Threads : GoesOn(t)
  BY <1>1 DEF GoesOn, TypeOK, Thread
<1>3. ASSUME NEW t \in Threads PROVE JobOK(t)'
  <2>1. /\ JobOK(t) /\ job[t].watermark \in Int /\ output[t] \in Int /\ -1 <= output[t]
        /\ output'[t] = output[t] \/ output'[t] = Null
    BY <1>1 DEF EInv, Jobs, TypeOK, Job, Time, Null, Prune
  <2>2. QED
    BY <1>1, <2>1 DEF JobOK, Null
<1>4. Items' /\ Claims'
  BY <1>1, <1>2, ItemsKept, ClaimsKept DEF Owned
<1>5. QED
  BY <1>3, <1>4 DEF EInv, Jobs

(* Clearing the memories empties both tables. *)
LEMMA ClearStep ==
  ASSUME EInv, TypeOK', Clear
  PROVE  EInv'
<1>1. TypeOK /\ UNCHANGED <<thread, scan, held>>
  BY DEF EInv, Clear
<1>2. \A t \in Threads : GoesOn(t)
  BY <1>1 DEF GoesOn, TypeOK, Thread
<1>3. \A t \in Threads : job'[t] = NoJob /\ output'[t] = Null /\ seen'[t] = Null
  BY DEF Clear
<1>4. ASSUME NEW t \in Threads PROVE JobOK(t)'
  <2>1. thread[t].updated \in Nat
    BY <1>1 DEF TypeOK, Thread
  <2>2. QED
    BY <1>1, <1>3, <2>1 DEF JobOK, NoJob, Null
<1>5. ASSUME NEW v \in Workers, NEW c \in held[v] PROVE ~Owned(c)'
  BY <1>1, <1>3 DEF TypeOK, Claim, Owned, NoJob
<1>6. Items' /\ Claims'
  BY <1>1, <1>2, <1>5, ItemsKept, ClaimsKept
<1>7. QED
  BY <1>4, <1>6 DEF EInv, Jobs

(* The inductive step. *)
LEMMA EInvStep == EInv /\ [Next]_vars => EInv'
<1> SUFFICES ASSUME EInv, [Next]_vars PROVE EInv'
  OBVIOUS
<1>1. TypeOK'
  BY TypeStep
<1>2. ASSUME NEW w \in Workers, NEW i \in scan[w], Pass(w, i) PROVE EInv'
  BY <1>1, <1>2, TablesKept DEF Pass, EInv, TypeOK
<1>3. ASSUME NEW w \in Workers, NEW c \in held[w], Unrecorded(w, c) PROVE EInv'
  BY <1>1, <1>3, DropStep DEF Unrecorded
<1>4. CASE Tick
  BY <1>1, <1>4, TablesKept DEF Tick
<1>5. CASE UNCHANGED vars
  BY <1>1, <1>5, TablesKept DEF vars
<1>6. QED
  BY <1>1, <1>2, <1>3, <1>4, <1>5, ScanStep, ClaimStep, SampleStep, SucceedStep, NoOutputStep,
     FailStep, ThreadStep, PruneStep, ClearStep DEF Next

(* The invariant holds always. *)
LEMMA Inductive == Spec => []EInv
BY EInvInit, EInvStep, PTL DEF Spec

-----------------------------------------------------------------------------
(* Invariants                                                               *)

(* Every table, list and claim has its type; in particular retry_remaining, *)
(* which mark_stage1_job_failed decrements without a floor, is never        *)
(* negative, since a row is only claimed with a retry left.                 *)
THEOREM TypeCorrect == Spec => []TypeOK
<1>1. EInv => TypeOK
  BY DEF EInv
<1>2. QED
  BY <1>1, Inductive, PTL

(* stage1_outputs and jobs agree: an output is the one of the last success  *)
(* of its job row, and its consolidation has been enqueued, however workers *)
(* lose and take over the row.                                              *)
THEOREM OutputIsLastSuccessHolds == Spec => []OutputIsLastSuccess
<1>1. EInv => OutputIsLastSuccess
  BY DEF EInv, Jobs, JobOK, OutputIsLastSuccess
<1>2. QED
  BY <1>1, Inductive, PTL

(* A thread that stage1_source_needs_update will not visit again has been   *)
(* read to its end, although listing, claiming and reading are three steps. *)
THEOREM NothingMissedHolds == Spec => []NothingMissed
<1>1. ASSUME EInv, NEW t \in Threads, ~NeedsUpdate(t, thread[t].updated)
      PROVE  seen[t] >= thread[t].updated
  <2>1. /\ JobOK(t) /\ job[t] \in Job /\ thread[t] \in Thread
        /\ output[t] \in Int /\ seen[t] \in Int
    BY <1>1 DEF EInv, Jobs, TypeOK, Time, Null
  <2>2. job[t].success \in Int /\ thread[t].updated \in Nat
    BY <2>1 DEF Job, Thread, Time, Null
  <2>3. thread[t].updated <= job[t].success
    <3>1. CASE ~(output[t] < thread[t].updated)
      BY <2>1, <2>2, <3>1 DEF JobOK, Null
    <3>2. CASE ~(job[t].success < thread[t].updated)
      BY <2>1, <2>2, <3>2
    <3>3. QED
      BY <1>1, <3>1, <3>2 DEF NeedsUpdate
  <2>4. QED
    BY <2>1, <2>2, <2>3 DEF JobOK
<1>2. EInv => NothingMissed
  BY <1>1 DEF NothingMissed
<1>3. QED
  BY <1>2, Inductive, PTL

(* After delete_thread_memory no extraction that was under way, and no      *)
(* claim made from an earlier scan, stores a memory of the thread again.    *)
THEOREM ForgottenStaysForgottenHolds == Spec => []ForgottenStaysForgotten
<1>1. EInv => ForgottenStaysForgotten
  BY DEF EInv, Jobs, JobOK, ForgottenStaysForgotten, Deleted
<1>2. QED
  BY <1>1, Inductive, PTL

-----------------------------------------------------------------------------
(* Who may replace an extraction                                            *)

(* A worker whose lease ran out cannot replace a more recent extraction by  *)
(* the older one it still holds: what it read is at least as recent as what *)
(* is recorded as long as the row carries its token.                        *)
THEOREM NewestWinsHolds == Spec => NewestWins
<1> DEFINE Newer == \A t \in Threads : seen'[t] # Null => seen'[t] >= seen[t]
<1>1. ASSUME EInv, [Next]_vars PROVE Newer
  <2>1. TypeOK /\ \A t \in Threads : seen[t] \in Int
    BY <1>1 DEF EInv, TypeOK, Time, Null
  <2>2. CASE UNCHANGED seen
    BY <2>1, <2>2
  <2>3. ASSUME NEW w \in Workers, NEW c \in held[w], Succeed(w, c) \/ NoOutput(w, c), Owned(c)
        PROVE  Newer
    <3>1. c.thread \in Threads /\ c.content \in Int /\ seen[c.thread] <= c.content
      BY <1>1, <2>3, OwnedClaim DEF Succeed, NoOutput
    <3>2. seen' = [seen EXCEPT ![c.thread] = c.content]
      BY <2>3 DEF Succeed, NoOutput
    <3>3. QED
      BY <2>1, <3>1, <3>2 DEF TypeOK
  <2>4. ASSUME NEW t \in Threads, DeleteMemory(t) PROVE Newer
    BY <2>1, <2>4 DEF DeleteMemory, TypeOK
  <2>5. CASE Clear
    BY <2>5 DEF Clear
  <2>6. seen' = seen \/ (\E w \in Workers : \E c \in held[w] :
                            (Succeed(w, c) \/ NoOutput(w, c)) /\ Owned(c))
                     \/ (\E t \in Threads : DeleteMemory(t)) \/ Clear
    BY <1>1 DEF Next, vars, Scan, Break, Abandon, TryClaim, Pass, Sample, Succeed, NoOutput,
       Fail, Unrecorded, Touch, Pollute, DeleteRollout, DeleteRow, Prune, Tick
  <2>7. QED
    BY <2>2, <2>3, <2>4, <2>5, <2>6
<1>2. ASSUME EInv, [Next]_vars PROVE [Newer]_vars
  BY <1>1, <1>2
<1>3. QED
  BY <1>2, EInvInit, EInvStep, PTL DEF Spec, NewestWins

-----------------------------------------------------------------------------
(* The stage-1 rows implement a lease per thread                            *)

(* The lease table that the rows of table jobs show. *)
Table == [t \in Threads |-> LeaseOf(t)]

(* The lease of a row, field by field. *)
LEMMA LeaseFields ==
  ASSUME EInv, NEW t \in Threads
  PROVE  /\ LeaseOf(t).owner = IF job[t].status = "running" THEN job[t].token ELSE NoToken
         /\ LeaseOf(t).left = IF job[t].status = "running" /\ job[t].lease > now
                              THEN job[t].lease - now ELSE 0
         /\ LeaseOf(t) = [owner |-> LeaseOf(t).owner, left |-> LeaseOf(t).left]
         /\ LeaseOf(t).left \in Nat
         /\ job[t].status # "running" => LeaseOf(t) = Leases!Free
<1>1. now \in Nat /\ job[t].lease \in Int
  BY DEF EInv, TypeOK, Job, Time, Null
<1>2. QED
  BY <1>1 DEF LeaseOf, Leases!Free

(* The leases that run are the rows that are leased. *)
LEMMA LiveLeases ==
  ASSUME EInv
  PROVE  /\ \A t \in Threads : Leases!Live(t) <=> Live(t)
         /\ Leases!LiveKeys = Running
<1>1. ASSUME NEW t \in Threads PROVE Leases!Live(t) <=> Live(t)
  <2>1. now \in Nat /\ job[t].lease \in Int /\ JobOK(t)
    BY DEF EInv, TypeOK, Job, Time, Null, Jobs
  <2>2. QED
    BY <2>1, LeaseFields, Numbers DEF Leases!Live, Live, JobOK
<1>2. QED
  BY <1>1 DEF Leases!LiveKeys, Running

(* A row that keeps its status, token and lease keeps its lease. *)
LEMMA SameLease ==
  ASSUME NEW t \in Threads, now' = now, job'[t] = job[t]
  PROVE  LeaseOf(t)' = LeaseOf(t)
BY DEF LeaseOf

(* A claim acquires the lease of its thread. *)
LEMMA AcquireStep ==
  ASSUME EInv, EInv', NEW w \in Workers, NEW i \in scan[w], TryClaim(w, i)
  PROVE  \E k \in Threads, o \in Tokens : Leases!Acquire(k, o)
<1>1. TypeOK /\ i \in Item /\ i.thread \in Threads
  BY DEF EInv, TypeOK, Item
<1>2. PICK k \in Tokens : k = NewToken
  BY NewTokenIsFresh DEF TryClaim
<1>3. /\ job'[i.thread].status = "running" /\ job'[i.thread].token = k
      /\ job'[i.thread].lease = now + LeaseSeconds
      /\ \A u \in Threads : u # i.thread => job'[u] = job[u]
      /\ now' = now
  BY <1>1, <1>2 DEF TryClaim, TypeOK, ClaimedRow
<1>4. ~Live(i.thread) /\ Cardinality(Running) < MaxClaimed
  BY DEF TryClaim, Claimable, Live
<1>5. LeaseOf(i.thread)' = [owner |-> k, left |-> LeaseSeconds]
  <2>1. now \in Nat /\ LeaseSeconds \in Nat
    BY Numbers DEF EInv, TypeOK
  <2>2. QED
    BY <1>3, <2>1 DEF LeaseOf
<1>6. \A u \in Threads : u # i.thread => LeaseOf(u)' = LeaseOf(u)
  BY <1>3, SameLease
<1>7. Table' = [Table EXCEPT ![i.thread] = [owner |-> k, left |-> LeaseSeconds]]
  BY <1>1, <1>5, <1>6 DEF Table
<1>8. Leases!Cardinality(Leases!LiveKeys) < MaxClaimed /\ ~Leases!Live(i.thread)
  BY <1>1, <1>4, LiveLeases DEF Leases!Cardinality, Cardinality
<1>9. Leases!Acquire(i.thread, k)
  BY <1>7, <1>8 DEF Leases!Acquire, Leases!Room, Table
<1>10. QED
  BY <1>1, <1>9

(* Rows that stop to run, and all others as they were. *)
LEMMA ReleaseLeases ==
  ASSUME EInv, EInv', now' = now,
         \A u \in Threads : job'[u] = job[u] \/ job'[u].status # "running"
  PROVE  \E K \in SUBSET Threads : Leases!Release(K)
<1> DEFINE K == {u \in Threads : job'[u] # job[u]}
<1>1. Table' = [u \in Threads |-> IF u \in K THEN Leases!Free ELSE Table[u]]
  <2>1. ASSUME NEW u \in K PROVE LeaseOf(u)' = Leases!Free
    BY DEF LeaseOf, Leases!Free
  <2>2. ASSUME NEW u \in Threads \ K PROVE LeaseOf(u)' = LeaseOf(u)
    BY SameLease
  <2>3. QED
    BY <2>1, <2>2 DEF Table
<1>2. Leases!Release(K)
  BY <1>1 DEF Leases!Release, Table
<1>3. QED
  BY <1>2

(* Every running lease ages with the clock. *)
LEMMA TickLeases ==
  ASSUME EInv, EInv', Tick
  PROVE  Leases!Tick
<1>1. ASSUME NEW t \in Threads
      PROVE  LeaseOf(t)' = [LeaseOf(t) EXCEPT !.left = IF @ > 0 THEN @ - 1 ELSE 0]
  <2>1. now \in Nat /\ now' = now + 1 /\ job' = job /\ job[t].lease \in Int
    BY DEF EInv, TypeOK, Job, Time, Null, Tick
  <2>2. QED
    BY <2>1 DEF LeaseOf
<1>2. QED
  BY <1>1 DEF Leases!Tick

(* The stage-1 rows of table jobs implement LeaseTable: a running lease is  *)
(* never given to another worker, and never more than max_running_jobs      *)
(* leases run, for any number of sessions that start at once.               *)
THEOREM LeasesImplemented == Spec => ImplementsLeases
<1>1. Init => Leases!Init
  BY DEF Init, Leases!Init, Leases!Free, LeaseOf, NoJob
<1>2. ASSUME EInv, EInv', [Next]_vars PROVE [Leases!Next]_Table
  <2>1. ASSUME now' = now, job' = job PROVE Table' = Table
    BY <2>1, SameLease DEF Table
  <2>2. ASSUME NEW w \in Workers, NEW i \in scan[w], TryClaim(w, i) PROVE Leases!Next
    BY <1>2, <2>2, AcquireStep DEF Leases!Next
  <2>3. ASSUME now' = now, \A u \in Threads : job'[u] = job[u] \/ job'[u].status # "running"
        PROVE  Leases!Next
    BY <1>2, <2>3, ReleaseLeases DEF Leases!Next
  <2>4. CASE Tick
    BY <1>2, <2>4, TickLeases DEF Leases!Next
  <2>5. ASSUME NEW w \in Workers, NEW c \in held[w], Owned(c),
               Succeed(w, c) \/ NoOutput(w, c) \/ Fail(w, c)
        PROVE  Leases!Next
    <3>1. TypeOK /\ c.thread \in Threads /\ job[c.thread].retries >= 1
      BY <1>2, <2>5, OwnedClaim
    <3>2. /\ now' = now
          /\ \/ job' = [job EXCEPT ![c.thread] = DoneRow(c.thread)]
             \/ job' = [job EXCEPT ![c.thread] = FailedRow(c.thread)]
      BY <2>5 DEF Succeed, NoOutput, Fail
    <3>3. \A u \in Threads : job'[u] = job[u] \/ job'[u].status # "running"
      BY <3>1, <3>2, DoneRowTyped, FailedRowTyped DEF TypeOK
    <3>4. QED
      BY <2>3, <3>2, <3>3
  <2>6. ASSUME NEW t \in Threads, DeleteMemory(t) PROVE Leases!Next
    BY <1>2, <2>3, <2>6 DEF DeleteMemory, EInv, TypeOK, NoJob
  <2>7. CASE Clear
    BY <2>3, <2>7 DEF Clear, NoJob
  <2>8. \/ now' = now /\ job' = job
        \/ \E w \in Workers : \E i \in scan[w] : TryClaim(w, i)
        \/ \E w \in Workers : \E c \in held[w] :
             Owned(c) /\ (Succeed(w, c) \/ NoOutput(w, c) \/ Fail(w, c))
        \/ \E t \in Threads : DeleteMemory(t)
        \/ Clear \/ Tick
    BY <1>2 DEF Next, vars, Scan, Break, Abandon, Pass, Sample, Succeed, NoOutput,
       Fail, Unrecorded, Touch, Pollute, DeleteRollout, DeleteRow, Prune
  <2>9. QED
    BY <2>1, <2>2, <2>4, <2>5, <2>6, <2>7, <2>8
<1>3. QED
  BY <1>1, <1>2, EInvInit, EInvStep, PTL DEF Spec, ImplementsLeases, Leases!Spec, Table
=============================================================================
