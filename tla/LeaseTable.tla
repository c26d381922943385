----------------------------- MODULE LeaseTable -----------------------------
(***************************************************************************)
(* What the kernel's job table promises to the workers that share it: a    *)
(* key is leased to one owner for a fixed time, a lease that still runs is *)
(* never handed to another owner, and no more than Cap leases run at once. *)
(* The table is the abstract specification of the two kinds of rows of     *)
(* table jobs (state/src/runtime/memories.rs): MemoryExtraction implements *)
(* it with one key per thread, MemoryConsolidation with the one global     *)
(* key.  A lease is kept as the time it has left, so the table needs no    *)
(* clock of its own.                                                       *)
(***************************************************************************)
EXTENDS Integers, FiniteSets

CONSTANTS Keys,      \* what can be leased
          Owners,    \* ownership tokens
          NoOwner,   \* the owner of a key that is not leased
          Length,    \* how long a lease runs
          Cap        \* how many leases may run at the same time

VARIABLE lease       \* lease[k] = [owner, left]

Lease == [owner : Owners \cup {NoOwner}, left : Nat]
Free == [owner |-> NoOwner, left |-> 0]

Live(k) == lease[k].owner # NoOwner /\ lease[k].left > 0
LiveKeys == {k \in Keys : Live(k)}

TypeOK == lease \in [Keys -> Lease]

Init == lease = [k \in Keys |-> Free]

Room(k) == Live(k) \/ Cardinality(LiveKeys) < Cap

\* An expired or free key is leased to a new owner.
Acquire(k, o) ==
  /\ ~Live(k)
  /\ Room(k)
  /\ lease' = [lease EXCEPT ![k] = [owner |-> o, left |-> Length]]

\* The owner of a key, expired or not, starts its lease again.
Renew(k) ==
  /\ lease[k].owner # NoOwner
  /\ Room(k)
  /\ lease' = [lease EXCEPT ![k].left = Length]

\* Keys are given back by their owners, or taken away with their rows.
Release(K) == lease' = [k \in Keys |-> IF k \in K THEN Free ELSE lease[k]]

\* Time passes for every lease.
Tick == lease' = [k \in Keys |->
          [lease[k] EXCEPT !.left = IF @ > 0 THEN @ - 1 ELSE 0]]

Next ==
  \/ \E k \in Keys, o \in Owners : Acquire(k, o)
  \/ \E k \in Keys : Renew(k)
  \/ \E K \in SUBSET Keys : Release(K)
  \/ Tick

Spec == Init /\ [][Next]_lease
=============================================================================
