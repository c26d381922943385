---------------------------- MODULE MCAutomations ----------------------------
(* Small instances of Automations for TLC. *)
EXTENDS Automations, TLC

Every1 == [kind |-> "every", period |-> 1, times |-> {}]
Every2 == [kind |-> "every", period |-> 2, times |-> {}]
Once1  == [kind |-> "once",  period |-> 1, times |-> {}]
Cron   == [kind |-> "cron",  period |-> 1, times |-> {3, 4, 7}]
Sparse == [kind |-> "cron",  period |-> 1, times |-> {3, 4, 9}]

AllKinds == {Every1, Once1, Sparse}   \* Sparse's third time is out of a window of 3
NoGap    == {Every2, Once1, Cron}     \* every search succeeds

Symmetry == Permutations(Procs) \cup Permutations(Autos)
=============================================================================
