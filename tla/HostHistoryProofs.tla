------------------------- MODULE HostHistoryProofs -------------------------
(***************************************************************************)
(* Theorems about two parts of the application that meet in the engine     *)
(* process: module EngineHost, which starts and stops it, for any number   *)
(* of engines and calls, and module History, the messages it stores, for   *)
(* any number of messages and compactions.  Their variables are disjoint.  *)
(***************************************************************************)
EXTENDS EngineHost, History, FiniteSetTheorems, TLAPS

-----------------------------------------------------------------------------
(* The engine host *)

(* Nothing runs and nothing is armed before the application boots. *)
LEMMA HostTypeInit == Init => TypeOK
<1>1. MaxAttempts \in Nat /\ MaxCrashes \in Nat /\ MaxSwitches \in Nat /\ MaxTimers \in Nat
  BY HostAssumption
<1>2. ASSUME Init PROVE calls \in [Calls -> [st : {"new", "pending", "ok", "error"}, via : Slots]]
  BY <1>2 DEF Init, Slots
<1>3. ASSUME Init
      PROVE  /\ attempts \in 0..MaxAttempts
             /\ killTimers \in 0..MaxTimers /\ restartTimers \in 0..MaxTimers
             /\ crashes \in 0..MaxCrashes /\ switches \in 0..MaxSwitches
  BY <1>1, <1>3 DEF Init
<1>4. ASSUME Init
      PROVE  /\ cur \in Slots /\ rpc \in Slots
             /\ ready \in BOOLEAN /\ stopping \in BOOLEAN
  BY <1>4, Zenon DEF Init, Slots
<1>5. ASSUME Init
      PROVE  /\ proc \in [Engines -> {"gone", "up", "term", "dead", "exited"}]
             /\ listening \subseteq Engines
             /\ init \in [Engines -> {"none", "sent", "done", "failed"}]
  BY <1>5 DEF Init
<1>6. QED
  BY <1>2, <1>3, <1>4, <1>5 DEF TypeOK

(* Starting an engine keeps the types, whichever engine it replaces. *)
LEMMA SpawnType ==
  ASSUME TypeOK, NEW n \in Engines, SpawnEngine(n)
  PROVE  /\ cur' \in Slots /\ rpc' \in Slots /\ ready' \in BOOLEAN
         /\ proc' \in [Engines -> {"gone", "up", "term", "dead", "exited"}]
         /\ listening' \subseteq Engines
         /\ init' \in [Engines -> {"none", "sent", "done", "failed"}]
         /\ killTimers' \in 0..MaxTimers
<1>1. Terminated \in [Engines -> {"gone", "up", "term", "dead", "exited"}]
  BY DEF TypeOK, Terminated
<1>2. ArmsKill \in 0..MaxTimers
  BY HostAssumption DEF SpawnEngine, SpawnOver, ArmsKill, TypeOK
<1>3. QED
  BY <1>1, <1>2 DEF SpawnEngine, SpawnOver, Unlistened, TypeOK, Slots

(* Every callback keeps the types; in particular restartAttempts never     *)
(* passes its limit.                                                       *)
LEMMA HostTypeStep == TypeOK /\ [Next]_vars => TypeOK'
<1> SUFFICES ASSUME TypeOK, [Next]_vars PROVE TypeOK'
  OBVIOUS
<1> USE HostAssumption
<1>1. CASE \E n \in Engines : EngineStep(n)
  <2>0. PICK n \in Engines : EngineStep(n)
    BY <1>1
  <2>1. CASE Boot(n)
    BY <2>1, SpawnType DEF Boot, bounds, TypeOK
  <2>2. CASE InitAnswered(n)
    BY <2>2 DEF InitAnswered, timers, bounds, TypeOK
  <2>3. CASE InitTimeout(n)
    BY <2>3 DEF InitTimeout, manager, timers, bounds, TypeOK
  <2>4. CASE Dies(n)
    BY <2>4 DEF Dies, manager, timers, TypeOK
  <2>5. CASE ExitEvent(n)
    BY <2>5 DEF ExitEvent, Restarts, bounds, TypeOK
  <2>6. CASE StdoutCloses(n)
    BY <2>6 DEF StdoutCloses, manager, timers, bounds, TypeOK
  <2>7. CASE RestartTimer(n)
    BY <2>7, SpawnType DEF RestartTimer, bounds, TypeOK
  <2>8. CASE SetWorkspace(n)
    BY <2>8, SpawnType DEF SetWorkspace, TypeOK
  <2>9. CASE SpawnFails(n)
    <3>1. crashes' \in 0..MaxCrashes
      BY <2>9 DEF SpawnFails, TypeOK
    <3>2. /\ proc' \in [Engines -> {"gone", "up", "term", "dead", "exited"}]
          /\ init' \in [Engines -> {"none", "sent", "done", "failed"}]
      BY <2>9 DEF SpawnFails, TypeOK
    <3>3. ready' \in BOOLEAN
      BY <2>9, Zenon DEF SpawnFails
    <3>4. UNCHANGED <<cur, rpc, stopping, attempts, listening, killTimers, restartTimers, calls, switches>>
      BY <2>9 DEF SpawnFails, timers
    <3>5. QED
      BY <3>1, <3>2, <3>3, <3>4 DEF TypeOK
  <2>10. QED
    BY <2>0, <2>1, <2>2, <2>3, <2>4, <2>5, <2>6, <2>7, <2>8, <2>9 DEF EngineStep
<1>2. CASE \E c \in Calls : CallStep(c)
  <2>0. PICK c \in Calls : CallStep(c)
    BY <1>2
  <2>1. calls' \in [Calls -> [st : {"new", "pending", "ok", "error"}, via : Slots]]
    BY <2>0 DEF CallStep, RpcCall, CallAnswered, CallTimeout, TypeOK, Slots
  <2>2. UNCHANGED <<manager, proc, listening, init, timers, bounds>>
    BY <2>0 DEF CallStep, RpcCall, CallAnswered, CallTimeout
  <2>3. QED
    BY <2>1, <2>2 DEF manager, timers, bounds, TypeOK
<1>3. CASE KillTimer
  <2>1. killTimers' \in 0..MaxTimers
    <3>1. MaxTimers \in Nat /\ killTimers \in 0..MaxTimers
      BY HostAssumption DEF TypeOK
    <3>2. QED
      BY <1>3, <3>1 DEF KillTimer
  <2>2. proc' \in [Engines -> {"gone", "up", "term", "dead", "exited"}]
    BY <1>3 DEF KillTimer, TypeOK
  <2>3. UNCHANGED <<manager, listening, init, restartTimers, calls, bounds>>
    BY <1>3 DEF KillTimer
  <2>4. QED
    BY <2>1, <2>2, <2>3 DEF manager, bounds, TypeOK
<1>4. CASE Shutdown
  BY <1>4 DEF Shutdown, Terminated, Unlistened, ArmsKill, bounds, TypeOK, Slots
<1>5. CASE UNCHANGED vars
  BY <1>5 DEF vars, TypeOK
<1>6. QED
  BY <1>1, <1>2, <1>3, <1>4, <1>5 DEF Next

(* Type correctness of the host. *)
THEOREM HostTypeCorrect == Spec => []TypeOK
<1>1. QED
  BY HostTypeInit, HostTypeStep, PTL DEF Spec

(* Starting an engine leaves only that engine un-terminated. *)
LEMMA SpawnLeavesOne ==
  ASSUME TypeOK, NoStrayEngine, NEW n \in Engines, SpawnEngine(n)
  PROVE  NoStrayEngine'
<1>1. \A m \in Engines : Terminated[m] # "up"
  BY HostAssumption DEF Terminated, NoStrayEngine, TypeOK
<1>2. Terminated \in [Engines -> {"gone", "up", "term", "dead", "exited"}]
  BY DEF TypeOK, Terminated
<1>3. QED
  BY <1>1, <1>2 DEF SpawnEngine, SpawnOver, NoStrayEngine

(* The inductive step of NoStrayEngine: processes come up only in          *)
(* spawnEngine, which terminates the current one first.                    *)
LEMMA StrayStep == TypeOK /\ NoStrayEngine /\ [Next]_vars => NoStrayEngine'
<1> SUFFICES ASSUME TypeOK, NoStrayEngine, [Next]_vars PROVE NoStrayEngine'
  OBVIOUS
<1>1. CASE \E n \in Engines : EngineStep(n)
  <2>0. PICK n \in Engines : EngineStep(n)
    BY <1>1
  <2>1. CASE Boot(n) \/ SetWorkspace(n)
    BY <2>1, SpawnLeavesOne DEF Boot, SetWorkspace
  <2>2. CASE RestartTimer(n)
    BY <2>2, SpawnLeavesOne DEF RestartTimer, NoStrayEngine
  <2>3. CASE InitAnswered(n) \/ InitTimeout(n)
    BY <2>3 DEF InitAnswered, InitTimeout, manager, NoStrayEngine
  <2>4. CASE SpawnFails(n) \/ Dies(n) \/ ExitEvent(n) \/ StdoutCloses(n)
    BY <2>4 DEF SpawnFails, Dies, ExitEvent, StdoutCloses, manager, NoStrayEngine, TypeOK
  <2>5. QED
    BY <2>0, <2>1, <2>2, <2>3, <2>4 DEF EngineStep
<1>2. CASE \E c \in Calls : CallStep(c)
  BY <1>2 DEF CallStep, RpcCall, CallAnswered, CallTimeout, manager, NoStrayEngine
<1>3. CASE KillTimer
  BY <1>3 DEF KillTimer, manager, NoStrayEngine, TypeOK
<1>4. CASE Shutdown
  BY <1>4, HostAssumption DEF Shutdown, Terminated, NoStrayEngine, TypeOK
<1>5. CASE UNCHANGED vars
  BY <1>5 DEF vars, NoStrayEngine
<1>6. QED
  BY <1>1, <1>2, <1>3, <1>4, <1>5 DEF Next

(* "one process per workspace", for any number of crashes, restarts and    *)
(* workspace changes: an engine that is not the current one has been told  *)
(* to stop.                                                                *)
THEOREM NoStrayEngineHolds == Spec => []NoStrayEngine
<1>1. Init => NoStrayEngine
  BY DEF Init, NoStrayEngine
<1>2. QED
  BY <1>1, HostTypeInit, HostTypeStep, StrayStep, PTL DEF Spec

-----------------------------------------------------------------------------
(* The history: its inductive invariants *)

(* Messages that are left verbatim are in the order they were stored in, and *)
(* so are their times.                                                       *)
Ordered(list) ==
  \A i, j \in DOMAIN list :
    i < j /\ list[i].n # 0 /\ list[j].n # 0 => list[i].n < list[j].n /\ list[i].ts <= list[j].ts

(* A list that was read from the storage. *)
Stored(list, last, t) ==
  /\ list \in Seq(Messages) /\ Ordered(list)
  /\ \A i \in DOMAIN list : list[i].n <= last /\ list[i].ts <= t

(* The inductive invariant of the order: it holds of the history and of     *)
(* every list that a summarize which is under way has read.                 *)
OInv ==
  /\ HistoryTypeOK /\ Stored(hist, appended, now)
  /\ \A j \in Jobs : Stored(job[j].snap, appended, now)

(* The inductive invariant of the content: what summarize has read still    *)
(* says everything when its summary comes, since nothing is stored meanwhile. *)
Complete(list) == Content(list) = 1..appended
FInv == OInv /\ Complete(hist)
        /\ \A j \in Jobs : job[j].pc = "summarizing" => Complete(job[j].snap)

(* ORDER BY is a total order of the positions. *)
LEMMA BeforeOrder ==
  ASSUME NEW list \in Seq(Messages)
  PROVE  /\ \A i \in DOMAIN list : ~Before(list, i, i)
         /\ \A i, j \in DOMAIN list : i # j => Before(list, i, j) \/ Before(list, j, i)
         /\ \A i, j, k \in DOMAIN list :
              Before(list, i, j) /\ Before(list, j, k) => Before(list, i, k)
<1>1. DOMAIN list = 1..Len(list) /\ \A i \in DOMAIN list : list[i] \in Messages
  OBVIOUS
<1>2. \A i \in DOMAIN list : i \in Int /\ list[i].ts \in Int
  BY <1>1 DEF Messages
<1>3. QED
  BY <1>2 DEF Before

(* Every position gets a place of its own, and every place is taken. *)
LEMMA Placed ==
  ASSUME NEW list \in Seq(Messages)
  PROVE  /\ \A i, j \in DOMAIN list : Before(list, i, j) => Place(list, i) < Place(list, j)
         /\ \A i \in DOMAIN list : Place(list, i) \in DOMAIN list
         /\ \A i, j \in DOMAIN list : Place(list, i) = Place(list, j) => i = j
         /\ \A k \in DOMAIN list : \E i \in DOMAIN list : Place(list, i) = k
<1> DEFINE D == DOMAIN list
           B(i) == {j \in D : Before(list, j, i)}
<1>1. D = 1..Len(list) /\ Len(list) \in Nat
  OBVIOUS
<1>2. IsFiniteSet(D) /\ Cardinality(D) = Len(list)
  BY <1>1, FS_Interval
<1>3. \A i \in D : IsFiniteSet(B(i)) /\ Cardinality(B(i)) \in Nat
  BY <1>2, FS_Subset, FS_CardinalityType
<1>4. ASSUME NEW i \in D, NEW j \in D, Before(list, i, j)
      PROVE  Cardinality(B(i)) < Cardinality(B(j))
  <2>1. B(i) \subseteq B(j)
    BY <1>4, BeforeOrder
  <2>2. i \in B(j) /\ i \notin B(i)
    BY <1>4, BeforeOrder
  <2>3. Cardinality(B(i)) <= Cardinality(B(j)) /\ Cardinality(B(i)) # Cardinality(B(j))
    <3>1. B(i) \in SUBSET B(j) /\ IsFiniteSet(B(j))
      BY <2>1, <1>3
    <3>2. /\ Cardinality(B(i)) <= Cardinality(B(j))
          /\ Cardinality(B(j)) = Cardinality(B(i)) => B(j) = B(i)
      BY <3>1, FS_Subset
    <3>3. QED
      BY <3>2, <2>2
  <2>4. Cardinality(B(i)) \in Nat /\ Cardinality(B(j)) \in Nat
    BY <1>3
  <2> HIDE DEF B
  <2>5. QED
    BY <2>3, <2>4
<1>5. ASSUME NEW i \in D PROVE Cardinality(B(i)) < Len(list)
  <2>1. B(i) \in SUBSET D /\ i \notin B(i)
    BY BeforeOrder
  <2>2. /\ Cardinality(B(i)) <= Cardinality(D)
        /\ Cardinality(D) = Cardinality(B(i)) => D = B(i)
    BY <2>1, <1>2, FS_Subset
  <2>3. Cardinality(B(i)) <= Len(list) /\ Cardinality(B(i)) # Len(list)
    BY <2>1, <2>2, <1>2
  <2>4. Cardinality(B(i)) \in Nat
    BY <1>3
  <2> HIDE DEF B
  <2>5. QED
    BY <2>3, <2>4, <1>1
<1>6. \A i \in D : Place(list, i) = 1 + Cardinality(B(i))
  BY DEF Place
<1> DEFINE c == [i \in D |-> Cardinality(B(i))]
<1>7. /\ c \in [D -> Nat] /\ \A i \in D : c[i] < Len(list) /\ Place(list, i) = 1 + c[i]
      /\ \A i, j \in D : Before(list, i, j) => c[i] < c[j]
  BY <1>3, <1>4, <1>5, <1>6
<1> HIDE DEF B, c
<1>8. \A i, j \in D : Before(list, i, j) => Place(list, i) < Place(list, j)
  BY <1>7
<1>9. \A i \in D : Place(list, i) \in D
  BY <1>1, <1>7
<1>10. \A i, j \in D : Place(list, i) = Place(list, j) => i = j
  <2> SUFFICES ASSUME NEW i \in D, NEW j \in D, Place(list, i) = Place(list, j), i # j PROVE FALSE
    OBVIOUS
  <2>1. Place(list, i) \in Int /\ Place(list, j) \in Int
    BY <1>1, <1>9
  <2>2. Before(list, i, j) \/ Before(list, j, i)
    BY BeforeOrder
  <2>3. QED
    BY <1>8, <2>1, <2>2
<1>11. \A k \in D : \E i \in D : Place(list, i) = k
  <2> DEFINE f == [i \in D |-> Place(list, i)]
  <2>1. f \in [D -> D] /\ \A i, j \in D : f[i] = f[j] => i = j
    BY <1>9, <1>10
  <2>2. f \in Injection(D, D)
    BY <2>1, Zenon DEF Injection, IsInjective
  <2>3. f \in Surjection(D, D)
    BY <2>2, <1>2, FS_Injection
  <2>4. QED
    BY <2>3 DEF Surjection
<1>12. QED
  BY <1>8, <1>9, <1>10, <1>11

(* Reading sorts: the list has the same messages, ordered. *)
LEMMA ByTimeSorts ==
  ASSUME NEW list \in Seq(Messages)
  PROVE  /\ ByTime(list) \in Seq(Messages) /\ DOMAIN ByTime(list) = DOMAIN list
         /\ \A k \in DOMAIN list : \E i \in DOMAIN list :
              Place(list, i) = k /\ ByTime(list)[k] = list[i]
         /\ \A i \in DOMAIN list : ByTime(list)[Place(list, i)] = list[i]
<1> DEFINE o(k) == CHOOSE i \in DOMAIN list : Place(list, i) = k
<1>1. \A k \in DOMAIN list : o(k) \in DOMAIN list /\ Place(list, o(k)) = k
  BY Placed
<1>2. \A i \in DOMAIN list : Place(list, i) \in DOMAIN list /\ o(Place(list, i)) = i
  BY <1>1, Placed
<1>3. ByTime(list) = [k \in DOMAIN list |-> list[o(k)]]
  BY DEF ByTime
<1>4. DOMAIN list = 1..Len(list) /\ Len(list) \in Nat /\ \A k \in DOMAIN list : list[k] \in Messages
  OBVIOUS
<1>5. ByTime(list) \in [1..Len(list) -> Messages]
  BY <1>1, <1>3, <1>4
<1>6. ByTime(list) \in Seq(Messages)
  BY <1>4, <1>5
<1> HIDE DEF o
<1>7. QED
  BY <1>1, <1>2, <1>3, <1>6


(* What one message says. *)
Says(m) == (IF m.n = 0 THEN {} ELSE {m.n}) \cup m.covers

(* The content of a list, message by message. *)
LEMMA ContentSays ==
  ASSUME NEW list
  PROVE  \A x : x \in Content(list) <=> \E i \in DOMAIN list : x \in Says(list[i])
BY DEF Content, Says

(* Reading in the order of time neither loses nor adds anything, *)
LEMMA ByTimeContent ==
  ASSUME NEW list \in Seq(Messages)
  PROVE  Content(ByTime(list)) = Content(list)
<1>1. \A x : x \in Content(ByTime(list)) => x \in Content(list)
  BY ByTimeSorts, ContentSays
<1>2. \A x : x \in Content(list) => x \in Content(ByTime(list))
  BY ByTimeSorts, Placed, ContentSays
<1>3. QED
  BY <1>1, <1>2

(* and leaves the verbatim messages in their order. *)
LEMMA ByTimeStored ==
  ASSUME NEW list, NEW last, NEW t, Stored(list, last, t)
  PROVE  Stored(ByTime(list), last, t)
<1>1. list \in Seq(Messages) /\ Ordered(list)
  BY DEF Stored
<1>2. DOMAIN list = 1..Len(list) /\ \A i \in DOMAIN list : list[i] \in Messages
  BY <1>1
<1>3. \A i \in DOMAIN list : i \in Int /\ list[i].ts \in Int
  BY <1>2 DEF Messages
<1>4. ASSUME NEW k \in DOMAIN list, NEW l \in DOMAIN list, k < l,
             ByTime(list)[k].n # 0, ByTime(list)[l].n # 0
      PROVE  /\ ByTime(list)[k].n < ByTime(list)[l].n
             /\ ByTime(list)[k].ts <= ByTime(list)[l].ts
  <2>1. PICK i \in DOMAIN list : Place(list, i) = k /\ ByTime(list)[k] = list[i]
    BY <1>1, ByTimeSorts
  <2>2. PICK j \in DOMAIN list : Place(list, j) = l /\ ByTime(list)[l] = list[j]
    BY <1>1, ByTimeSorts
  <2>3. i # j /\ ~Before(list, j, i)
    <3>1. k \in Int /\ l \in Int
      BY <1>3
    <3>2. ~Before(list, j, i)
      BY <1>1, <1>4, <2>1, <2>2, <3>1, Placed
    <3>3. QED
      BY <1>4, <2>1, <2>2, <3>1, <3>2
  <2>4. Before(list, i, j)
    BY <1>1, <2>3, BeforeOrder
  <2>5. i < j
    <3>1. SUFFICES ASSUME ~(i < j) PROVE FALSE
      OBVIOUS
    <3>2. j < i /\ list[i].ts < list[j].ts
      BY <1>3, <2>3, <2>4, <3>1 DEF Before
    <3>3. list[j].ts <= list[i].ts
      BY <1>1, <1>4, <2>1, <2>2, <3>2 DEF Ordered
    <3>4. QED
      BY <1>3, <3>2, <3>3
  <2>6. QED
    BY <1>1, <1>4, <2>1, <2>2, <2>5 DEF Ordered
<1>5. Ordered(ByTime(list))
  BY <1>1, <1>4, ByTimeSorts DEF Ordered
<1>6. \A k \in DOMAIN ByTime(list) : ByTime(list)[k].n <= last /\ ByTime(list)[k].ts <= t
  BY <1>1, ByTimeSorts DEF Stored
<1>7. QED
  BY <1>1, <1>5, <1>6, ByTimeSorts DEF Stored

(* What summarize summarises and what it keeps are the two ends of what it  *)
(* has read, also when there is less than it may keep.                      *)
LEMMA RecentIsSuffix ==
  ASSUME NEW snap \in Seq(Messages), NEW keep \in Nat
  PROVE  \E d \in 0..Len(snap) :
           /\ Len(Recent(snap, keep)) = Len(snap) - d
           /\ Recent(snap, keep) \in Seq(Messages)
           /\ \A i \in 1..(Len(snap) - d) : Recent(snap, keep)[i] = snap[i + d]
           /\ Old(snap, keep) \in Seq(Messages) /\ Len(Old(snap, keep)) = d
           /\ \A i \in 1..d : Old(snap, keep)[i] = snap[i]
<1>1. Len(snap) \in Nat
  OBVIOUS
<1>2. CASE Len(snap) <= keep
  <2>1. Recent(snap, keep) = snap
    BY <1>2 DEF Recent
  <2>2. Old(snap, keep) = << >>
    BY <1>1, <1>2 DEF Old
  <2>3. QED
    BY <1>1, <2>1, <2>2
<1>3. CASE Len(snap) > keep
  <2> DEFINE d == Len(snap) - keep
  <2>1. d \in 0..Len(snap) /\ d + 1 \in 1..(Len(snap) + 1)
    BY <1>1, <1>3
  <2>2. Recent(snap, keep) = SubSeq(snap, d + 1, Len(snap))
    BY <1>1, <1>3 DEF Recent
  <2>3. Old(snap, keep) = SubSeq(snap, 1, d)
    BY <1>1, <1>3 DEF Old
  <2> HIDE DEF d
  <2>4. /\ SubSeq(snap, d + 1, Len(snap)) \in Seq(Messages)
        /\ Len(SubSeq(snap, d + 1, Len(snap))) = Len(snap) - d
        /\ \A i \in 1..(Len(snap) - d) : SubSeq(snap, d + 1, Len(snap))[i] = snap[i + d]
    BY <1>1, <2>1
  <2>5. /\ SubSeq(snap, 1, d) \in Seq(Messages) /\ Len(SubSeq(snap, 1, d)) = d
        /\ \A i \in 1..d : SubSeq(snap, 1, d)[i] = snap[i]
    BY <1>1, <2>1
  <2>6. QED
    BY <2>1, <2>2, <2>3, <2>4, <2>5
<1>4. QED
  BY <1>1, <1>2, <1>3


(* A list of messages says only numbers of messages. *)
LEMMA ContentTyped ==
  ASSUME NEW list \in Seq(Messages)
  PROVE  Content(list) \subseteq 1..MaxMessages
<1>1. \A i \in DOMAIN list : list[i] \in Messages
  OBVIOUS
<1>2. \A m \in Messages : Says(m) \subseteq 1..MaxMessages
  BY HistoryAssumption DEF Says, Messages
<1>3. QED
  BY <1>1, <1>2, ContentSays

(* Two messages in front of a list. *)
LEMMA TwoFirst ==
  ASSUME NEW a \in Messages, NEW b \in Messages, NEW list \in Seq(Messages),
         NEW w, w = <<a, b>> \o list
  PROVE  /\ w \in Seq(Messages) /\ DOMAIN w = 1..(Len(list) + 2) /\ w[1] = a /\ w[2] = b
         /\ Len(list) \in Nat /\ \A i \in 1..Len(list) : w[i + 2] = list[i]
<1>1. <<a, b>> \in Seq(Messages) /\ Len(list) \in Nat
  OBVIOUS
<1>2. w \in Seq(Messages)
  BY <1>1
<1>3. QED
  BY <1>1, <1>2

(* The two messages that summarize adds. *)
LEMMA OwnMessages ==
  ASSUME NEW snap \in Seq(Messages), NEW keep \in Nat, NEW t \in Nat
  PROVE  Message(0, Content(Old(snap, keep)), t) \in Messages /\ Message(0, {}, t) \in Messages
<1>1. Old(snap, keep) \in Seq(Messages)
  BY RecentIsSuffix
<1>2. /\ Content(Old(snap, keep)) \in SUBSET (1..MaxMessages)
      /\ {} \in SUBSET (1..MaxMessages) /\ 0 \in 0..MaxMessages
  BY <1>1, ContentTyped, HistoryAssumption
<1>3. QED
  BY <1>2 DEF Message, Messages

(* What summarize writes says what it has read, *)
LEMMA RewrittenContent ==
  ASSUME NEW snap \in Seq(Messages), NEW keep \in Nat, NEW t \in Nat
  PROVE  /\ Rewritten(snap, keep, t) \in Seq(Messages)
         /\ Content(Rewritten(snap, keep, t)) = Content(snap)
<1> DEFINE R == Recent(snap, keep)
           O == Old(snap, keep)
           W == Rewritten(snap, keep, t)
           mark == Message(0, Content(O), t)
           ack == Message(0, {}, t)
<1>1. PICK d \in 0..Len(snap) :
           /\ Len(R) = Len(snap) - d /\ R \in Seq(Messages)
           /\ \A i \in 1..(Len(snap) - d) : R[i] = snap[i + d]
           /\ O \in Seq(Messages) /\ Len(O) = d
           /\ \A i \in 1..d : O[i] = snap[i]
  BY RecentIsSuffix
<1>2. mark \in Messages /\ ack \in Messages
  BY OwnMessages
<1>3. W = <<mark, ack>> \o R
  BY DEF Rewritten
<1>4. Says(mark) = Content(O) /\ Says(ack) = {}
  BY DEF Says, Message
<1> HIDE DEF mark, ack, W, R, O
<1>5. /\ W \in Seq(Messages) /\ DOMAIN W = 1..(Len(R) + 2) /\ W[1] = mark /\ W[2] = ack
      /\ Len(R) \in Nat /\ \A i \in 1..Len(R) : W[i + 2] = R[i]
  <2>1. R \in Seq(Messages)
    BY <1>1
  <2>2. QED
    BY <1>2, <1>3, <2>1, TwoFirst
<1>6. Len(snap) \in Nat /\ DOMAIN snap = 1..Len(snap) /\ DOMAIN W = 1..(Len(R) + 2)
      /\ DOMAIN O = 1..d /\ Len(R) \in Nat
  BY <1>1, <1>5
<1>7. ASSUME NEW x \in Content(W) PROVE x \in Content(snap)
  <2>1. PICK i \in 1..(Len(R) + 2) : x \in Says(W[i])
    BY <1>6, <1>7, ContentSays
  <2>2. CASE i = 1
    <3>1. x \in Content(O)
      BY <1>4, <1>5, <2>1, <2>2
    <3>2. PICK j \in 1..d : x \in Says(O[j])
      BY <1>6, <3>1, ContentSays
    <3>3. j \in DOMAIN snap /\ O[j] = snap[j]
      BY <1>1, <1>6
    <3>4. QED
      BY <3>2, <3>3, ContentSays
  <2>3. CASE i = 2
    BY <1>4, <1>5, <2>1, <2>3
  <2>4. CASE i > 2
    <3>1. (i - 2) \in 1..Len(R) /\ i = (i - 2) + 2
      BY <1>6, <2>1, <2>4
    <3>2. W[i] = R[i - 2]
      BY <1>5, <3>1
    <3>3. R[i - 2] = snap[(i - 2) + d] /\ (i - 2) + d \in DOMAIN snap
      BY <1>1, <1>6, <3>1
    <3>4. QED
      BY <2>1, <3>2, <3>3, ContentSays
  <2>5. QED
    BY <1>6, <2>1, <2>2, <2>3, <2>4
<1>8. ASSUME NEW x \in Content(snap) PROVE x \in Content(W)
  <2>1. PICK j \in 1..Len(snap) : x \in Says(snap[j])
    BY <1>6, <1>8, ContentSays
  <2>2. CASE j <= d
    <3>1. j \in DOMAIN O /\ O[j] = snap[j]
      BY <1>1, <1>6, <2>1, <2>2
    <3>2. x \in Content(O)
      BY <2>1, <3>1, ContentSays
    <3>3. 1 \in DOMAIN W
      BY <1>6
    <3>4. QED
      BY <1>4, <1>5, <3>2, <3>3, ContentSays
  <2>3. CASE j > d
    <3>1. (j - d) \in 1..Len(R) /\ (j - d) + d = j /\ (j - d) + 2 \in DOMAIN W
      BY <1>1, <1>6, <2>1, <2>3
    <3>2. W[(j - d) + 2] = R[j - d] /\ R[j - d] = snap[j]
      BY <1>1, <1>5, <3>1
    <3>3. QED
      BY <2>1, <3>1, <3>2, ContentSays
  <2>4. QED
    BY <1>1, <1>6, <2>1, <2>2, <2>3
<1>9. QED
  BY <1>5, <1>7, <1>8 DEF W

(* in the order it has read it. *)
LEMMA RewrittenStored ==
  ASSUME NEW snap, NEW keep \in Nat, NEW last \in Nat, NEW t \in Nat, Stored(snap, last, t)
  PROVE  Stored(Rewritten(snap, keep, t), last, t)
<1> DEFINE R == Recent(snap, keep)
           W == Rewritten(snap, keep, t)
           mark == Message(0, Content(Old(snap, keep)), t)
           ack == Message(0, {}, t)
<1>0. snap \in Seq(Messages) /\ Ordered(snap) /\ Len(snap) \in Nat /\ DOMAIN snap = 1..Len(snap)
  BY DEF Stored
<1>1. PICK d \in 0..Len(snap) :
           /\ Len(R) = Len(snap) - d /\ R \in Seq(Messages)
           /\ \A i \in 1..(Len(snap) - d) : R[i] = snap[i + d]
  BY <1>0, RecentIsSuffix
<1>2. mark \in Messages /\ ack \in Messages
  BY <1>0, OwnMessages
<1>3. W = <<mark, ack>> \o R
  BY DEF Rewritten
<1>4. mark.n = 0 /\ ack.n = 0 /\ mark.ts = t /\ ack.ts = t
  BY DEF Message
<1> HIDE DEF mark, ack, W, R
<1>5. /\ W \in Seq(Messages) /\ DOMAIN W = 1..(Len(R) + 2) /\ W[1] = mark /\ W[2] = ack
      /\ Len(R) \in Nat /\ \A i \in 1..Len(R) : W[i + 2] = R[i]
  <2>1. R \in Seq(Messages)
    BY <1>1
  <2>2. QED
    BY <1>2, <1>3, <2>1, TwoFirst
<1>6. ASSUME NEW i \in DOMAIN W
      PROVE  \/ W[i].n = 0 /\ W[i].ts = t
             \/ i > 2 /\ (i - 2) + d \in DOMAIN snap /\ W[i] = snap[(i - 2) + d]
  <2>1. CASE i \in {1, 2}
    BY <1>4, <1>5, <2>1
  <2>2. CASE i > 2
    <3>1. (i - 2) \in 1..Len(R) /\ (i - 2) + 2 = i
      BY <1>5, <2>2
    <3>2. W[i] = R[i - 2]
      BY <1>5, <3>1
    <3>3. (i - 2) + d \in DOMAIN snap /\ R[i - 2] = snap[(i - 2) + d]
      BY <1>0, <1>1, <3>1
    <3>4. QED
      BY <2>2, <3>2, <3>3
  <2>3. QED
    BY <1>5, <2>1, <2>2
<1>7. Ordered(W)
  <2> SUFFICES ASSUME NEW i \in DOMAIN W, NEW j \in DOMAIN W, i < j, W[i].n # 0, W[j].n # 0
               PROVE  W[i].n < W[j].n /\ W[i].ts <= W[j].ts
    BY DEF Ordered
  <2>1. (i - 2) + d \in DOMAIN snap /\ W[i] = snap[(i - 2) + d]
    BY <1>6
  <2>2. (j - 2) + d \in DOMAIN snap /\ W[j] = snap[(j - 2) + d]
    BY <1>6
  <2>3. (i - 2) + d < (j - 2) + d
    BY <1>5
  <2>4. QED
    BY <1>0, <2>1, <2>2, <2>3 DEF Ordered
<1>8. \A i \in DOMAIN W : W[i].n <= last /\ W[i].ts <= t
  BY <1>6 DEF Stored
<1>9. QED
  BY <1>5, <1>7, <1>8 DEF Stored, W


-----------------------------------------------------------------------------
(* The steps *)

(* A stored list stays one when time passes and messages are appended. *)
LEMMA StoredLater ==
  ASSUME NEW list, NEW last \in Nat, NEW t \in Nat, Stored(list, last, t),
         NEW last2 \in Nat, NEW t2 \in Nat, last <= last2, t <= t2
  PROVE  Stored(list, last2, t2)
<1>1. list \in Seq(Messages) /\ Ordered(list) /\ \A i \in DOMAIN list : list[i] \in Messages
  BY DEF Stored
<1>2. \A m \in Messages : m.n \in Int /\ m.ts \in Int
  BY DEF Messages
<1>3. \A i \in DOMAIN list : list[i].n <= last2 /\ list[i].ts <= t2
  BY <1>1, <1>2 DEF Stored
<1>4. QED
  BY <1>1, <1>3 DEF Stored

(* A message that is appended is the last one, and the clock has not gone back. *)
LEMMA AppendStored ==
  ASSUME NEW list, NEW last \in Nat, NEW t \in Nat, Stored(list, last, t),
         NEW t2 \in Nat, t <= t2, last < MaxMessages
  PROVE  /\ Stored(Append(list, Message(last + 1, {}, t2)), last + 1, t2)
         /\ Content(Append(list, Message(last + 1, {}, t2))) = Content(list) \cup {last + 1}
<1> DEFINE m == Message(last + 1, {}, t2)
           A == Append(list, m)
<1>1. /\ list \in Seq(Messages) /\ Ordered(list)
      /\ Len(list) \in Nat /\ DOMAIN list = 1..Len(list)
      /\ \A i \in DOMAIN list : list[i] \in Messages
  BY DEF Stored
<1>2. m \in Messages /\ m.n = last + 1 /\ m.ts = t2 /\ Says(m) = {last + 1}
  BY HistoryAssumption DEF Message, Messages, Says
<1> HIDE DEF m
<1>3. /\ A \in Seq(Messages) /\ Len(A) = Len(list) + 1 /\ DOMAIN A = 1..(Len(list) + 1)
      /\ A[Len(list) + 1] = m
      /\ \A i \in 1..Len(list) : A[i] = list[i]
  BY <1>1, <1>2
<1> HIDE DEF A
<1>4. \A i \in DOMAIN list :
        /\ list[i].n \in Int /\ list[i].ts \in Int
        /\ list[i].n < last + 1 /\ list[i].n <= last + 1 /\ list[i].ts <= t2
  <2>1. \A x \in Messages : x.n \in Int /\ x.ts \in Int
    BY DEF Messages
  <2>2. QED
    BY <1>1, <2>1 DEF Stored
<1>5. \A i \in DOMAIN A : (i \in DOMAIN list /\ A[i] = list[i]) \/ A[i] = m
  BY <1>1, <1>3
<1>6. Ordered(A)
  <2> SUFFICES ASSUME NEW i \in DOMAIN A, NEW j \in DOMAIN A, i < j, A[i].n # 0, A[j].n # 0
               PROVE  A[i].n < A[j].n /\ A[i].ts <= A[j].ts
    BY DEF Ordered
  <2>1. i \in DOMAIN list /\ A[i] = list[i]
    BY <1>1, <1>3
  <2>2. CASE j \in DOMAIN list /\ A[j] = list[j]
    BY <1>1, <2>1, <2>2 DEF Ordered
  <2>3. CASE A[j] = m
    BY <1>2, <1>4, <2>1, <2>3
  <2>4. QED
    BY <1>5, <2>2, <2>3
<1>7. \A i \in DOMAIN A : A[i].n <= last + 1 /\ A[i].ts <= t2
  BY <1>2, <1>4, <1>5
<1>8. Stored(A, last + 1, t2)
  BY <1>3, <1>6, <1>7 DEF Stored
<1>9. \A x : x \in Content(A) <=> x \in Content(list) \/ x = last + 1
  <2>1. \A x : x \in Content(A) => x \in Content(list) \/ x = last + 1
    BY <1>2, <1>5, ContentSays
  <2>2. \A x : x \in Content(list) => x \in Content(A)
    <3>1. \A i \in DOMAIN list : i \in DOMAIN A /\ A[i] = list[i]
      BY <1>1, <1>3
    <3>2. QED
      BY <3>1, ContentSays
  <2>3. last + 1 \in Content(A)
    <3>1. Len(list) + 1 \in DOMAIN A /\ last + 1 \in Says(A[Len(list) + 1])
      BY <1>1, <1>2, <1>3
    <3>2. QED
      BY <3>1, ContentSays
  <2>4. QED
    BY <2>1, <2>2, <2>3
<1>10. QED
  BY <1>8, <1>9 DEF A, m


(* How many messages stay is a number. *)
LEMMA KeepTyped ==
  ASSUME NEW k \in Nat, NEW len \in Nat
  PROVE  Keep(k, len) \in Nat
BY DEF Keep

(* summarize starts with what it reads. *)
LEMMA SummarizingTyped ==
  ASSUME OInv, NEW k \in Nat
  PROVE  /\ Summarizing(k) \in [pc : {"idle", "summarizing", "done"}, snap : Seq(Messages), keep : Nat]
         /\ Summarizing(k).snap = hist /\ Summarizing(k).pc = "summarizing"
<1>1. hist \in Seq(Messages) /\ Len(hist) \in Nat
  BY DEF OInv, Stored
<1>2. Keep(k, Len(hist)) \in Nat
  BY <1>1, KeepTyped
<1>3. QED
  BY <1>1, <1>2 DEF Summarizing

(* A job that is over. *)
LEMMA NoJobTyped ==
  /\ NoJob \in [pc : {"idle", "summarizing", "done"}, snap : Seq(Messages), keep : Nat]
  /\ NoJob.snap = << >> /\ NoJob.pc = "idle"
  /\ [NoJob EXCEPT !.pc = "done"] \in
       [pc : {"idle", "summarizing", "done"}, snap : Seq(Messages), keep : Nat]
  /\ [NoJob EXCEPT !.pc = "done"].snap = << >> /\ [NoJob EXCEPT !.pc = "done"].pc = "done"
<1>1. << >> \in Seq(Messages)
  OBVIOUS
<1>2. QED
  BY <1>1 DEF NoJob

(* The empty list is stored. *)
LEMMA EmptyStored == ASSUME NEW last, NEW t PROVE Stored(<< >>, last, t)
BY DEF Stored, Ordered

(* The jobs after a step: each is what it was, over, or has read the history. *)
JobsFrom == \A j \in Jobs :
  \/ job'[j] = job[j]
  \/ job'[j] \in {NoJob, [NoJob EXCEPT !.pc = "done"]}
  \/ \E k \in Nat : job'[j] = Summarizing(k)

(* Such jobs hold lists that are stored still. *)
LEMMA JobsStep ==
  ASSUME OInv, JobsFrom, job' = [j \in Jobs |-> job'[j]],
         now' \in Nat, appended' \in Nat, now <= now', appended <= appended'
  PROVE  /\ job' \in [Jobs -> [pc : {"idle", "summarizing", "done"}, snap : Seq(Messages), keep : Nat]]
         /\ \A j \in Jobs : Stored(job'[j].snap, appended', now')
<1> DEFINE J == [pc : {"idle", "summarizing", "done"}, snap : Seq(Messages), keep : Nat]
<1>1. job \in [Jobs -> J] /\ now \in Nat /\ appended \in Nat
  BY HistoryAssumption DEF OInv, HistoryTypeOK
<1>2. ASSUME NEW j \in Jobs
      PROVE  job'[j] \in J /\ Stored(job'[j].snap, appended', now')
  <2>1. CASE job'[j] = job[j]
    BY <1>1, <2>1, StoredLater DEF OInv
  <2>2. CASE job'[j] \in {NoJob, [NoJob EXCEPT !.pc = "done"]}
    BY <2>2, NoJobTyped, EmptyStored
  <2>3. CASE \E k \in Nat : job'[j] = Summarizing(k)
    BY <1>1, <2>3, SummarizingTyped, StoredLater DEF OInv
  <2>4. QED
    BY <2>1, <2>2, <2>3 DEF JobsFrom
<1> HIDE DEF J
<1>3. job' \in [Jobs -> J]
  BY <1>2
<1>4. QED
  BY <1>2, <1>3 DEF J


(* A step that only starts or ends jobs and turns. *)
JobStep ==
  \/ BeginTurn \/ EndTurn \/ Crash
  \/ \E r \in Requests, keepRecent \in KeepChoices, force \in BOOLEAN :
       CompactRequest(r, keepRecent, force)
  \/ \E j \in Jobs : SummaryFails(j)

(* It leaves the storage alone. *)
LEMMA JobStepFrom ==
  ASSUME OInv, JobStep
  PROVE  /\ UNCHANGED <<backend, hist, now, appended>> /\ turn' \in {"idle", "opening", "working"}
         /\ JobsFrom /\ job' = [j \in Jobs |-> job'[j]]
<1>1. /\ job = [j \in Jobs |-> job[j]] /\ DOMAIN job = Jobs
      /\ turn \in {"idle", "opening", "working"} /\ AutoJob \in Jobs /\ Requests \subseteq Jobs
      /\ AutoKeep \in Nat /\ KeepChoices \subseteq Nat
  BY HistoryAssumption DEF OInv, HistoryTypeOK, Jobs
<1> DEFINE ended == {NoJob, [NoJob EXCEPT !.pc = "done"]}
<1>2. CASE BeginTurn
  <2>1. UNCHANGED <<backend, hist, now, appended>> /\ turn' = "opening"
    BY <1>2 DEF BeginTurn
  <2>2. job' = job \/ job' = [job EXCEPT ![AutoJob] = Summarizing(AutoKeep)]
    BY <1>2 DEF BeginTurn
  <2>3. JobsFrom /\ job' = [j \in Jobs |-> job'[j]]
    BY <1>1, <2>2 DEF JobsFrom
  <2>4. QED
    BY <2>1, <2>3
<1>3. CASE EndTurn
  BY <1>1, <1>3 DEF EndTurn, JobsFrom
<1>4. CASE Crash
  <2>1. UNCHANGED <<backend, hist, now, appended>> /\ turn' = "idle"
    BY <1>4 DEF Crash
  <2>2. job' = [j \in Jobs |-> IF job[j].pc # "summarizing" THEN job[j]
                ELSE IF j = AutoJob THEN NoJob ELSE [NoJob EXCEPT !.pc = "done"]]
    BY <1>4 DEF Crash
  <2>3. JobsFrom /\ job' = [j \in Jobs |-> job'[j]]
    BY <2>2 DEF JobsFrom
  <2>4. QED
    BY <2>1, <2>3
<1>5. CASE \E r \in Requests, keepRecent \in KeepChoices, force \in BOOLEAN :
             CompactRequest(r, keepRecent, force)
  <2>1. PICK r \in Requests, keepRecent \in KeepChoices, force \in BOOLEAN :
             CompactRequest(r, keepRecent, force)
    BY <1>5
  <2>2. UNCHANGED <<backend, hist, now, appended, turn>>
    BY <2>1 DEF CompactRequest
  <2>3. PICK x \in ended \cup {Summarizing(keepRecent)} : job' = [job EXCEPT ![r] = x]
    BY <2>1 DEF CompactRequest
  <2>4. JobsFrom /\ job' = [j \in Jobs |-> job'[j]]
    BY <1>1, <2>3 DEF JobsFrom
  <2>5. QED
    BY <1>1, <2>2, <2>4
<1>6. CASE \E j \in Jobs : SummaryFails(j)
  <2>1. PICK j \in Jobs : SummaryFails(j)
    BY <1>6
  <2>2. UNCHANGED <<backend, hist, now, appended, turn>>
    BY <2>1 DEF SummaryFails
  <2>3. PICK x \in ended : job' = [job EXCEPT ![j] = x]
    BY <2>1 DEF SummaryFails
  <2>4. JobsFrom /\ job' = [k \in Jobs |-> job'[k]]
    BY <1>1, <2>3 DEF JobsFrom
  <2>5. QED
    BY <1>1, <2>2, <2>4
<1>7. QED
  BY <1>2, <1>3, <1>4, <1>5, <1>6 DEF JobStep

(* The order is kept when jobs and turns start and end, *)
LEMMA JobStepOrder ==
  ASSUME OInv, JobStep
  PROVE  OInv'
<1>1. /\ UNCHANGED <<backend, hist, now, appended>> /\ turn' \in {"idle", "opening", "working"}
      /\ JobsFrom /\ job' = [j \in Jobs |-> job'[j]]
  BY JobStepFrom
<1>2. now \in Nat /\ appended \in Nat
  BY HistoryAssumption DEF OInv, HistoryTypeOK
<1>3. /\ job' \in [Jobs -> [pc : {"idle", "summarizing", "done"}, snap : Seq(Messages), keep : Nat]]
      /\ \A j \in Jobs : Stored(job'[j].snap, appended', now')
  BY <1>1, <1>2, JobsStep
<1>4. QED
  BY <1>1, <1>3 DEF OInv, HistoryTypeOK

(* when a message is appended, *)
LEMMA AppendOrder ==
  ASSUME OInv, AppendMessage, turn' \in {"idle", "opening", "working"}
  PROVE  /\ OInv' /\ job' = job /\ appended' = appended + 1
         /\ Content(hist)' = Content(hist) \cup {appended'}
<1>1. /\ now \in Nat /\ appended \in Nat /\ MaxMessages \in Nat /\ appended < MaxMessages
      /\ appended' = appended + 1 /\ now' \in Nat /\ now <= now' /\ appended' \in 0..MaxMessages
      /\ appended' \in Nat /\ appended <= appended'
  BY HistoryAssumption DEF OInv, HistoryTypeOK, AppendMessage
<1>2. UNCHANGED <<backend, job>> /\ hist' = Append(hist, Message(appended + 1, {}, now'))
  BY DEF AppendMessage
<1>3. Stored(hist, appended, now)
  BY DEF OInv
<1>4. Stored(hist', appended', now') /\ Content(hist') = Content(hist) \cup {appended'}
  BY <1>1, <1>2, <1>3, AppendStored
<1>5. \A j \in Jobs : Stored(job'[j].snap, appended', now')
  BY <1>1, <1>2, StoredLater DEF OInv
<1>6. hist' \in Seq(Messages)
  BY <1>4 DEF Stored
<1>7. HistoryTypeOK'
  BY <1>1, <1>2, <1>6 DEF OInv, HistoryTypeOK
<1>8. QED
  BY <1>1, <1>2, <1>4, <1>5, <1>7 DEF OInv

(* and when a summary replaces what it was written from. *)
LEMMA ArriveOrder ==
  ASSUME OInv, NEW j \in Jobs, SummaryArrives(j)
  PROVE  /\ OInv' /\ appended' = appended /\ job[j].pc = "summarizing"
         /\ Content(hist)' = Content(job[j].snap)
         /\ \A k \in Jobs : job'[k] = job[k] \/ job'[k].pc # "summarizing"
<1> DEFINE W == Rewritten(job[j].snap, job[j].keep, now')
<1>1. /\ now \in Nat /\ appended \in Nat /\ now' \in Nat /\ now <= now' /\ appended' = appended
      /\ UNCHANGED <<backend, turn>> /\ job[j].pc = "summarizing"
      /\ hist' = AsRead(W)
  BY HistoryAssumption DEF OInv, HistoryTypeOK, SummaryArrives
<1>2. job[j].snap \in Seq(Messages) /\ job[j].keep \in Nat
  BY DEF OInv, HistoryTypeOK
<1>3. Stored(job[j].snap, appended, now')
  BY <1>1, StoredLater DEF OInv
<1>4. Stored(W, appended, now') /\ Content(W) = Content(job[j].snap) /\ W \in Seq(Messages)
  BY <1>1, <1>2, <1>3, RewrittenStored, RewrittenContent
<1> HIDE DEF W
<1>5. hist' \in {W, ByTime(W)}
  BY <1>1 DEF AsRead
<1>6. Stored(hist', appended, now') /\ Content(hist') = Content(job[j].snap)
  BY <1>4, <1>5, ByTimeStored, ByTimeContent
<1>7. PICK x \in {NoJob, [NoJob EXCEPT !.pc = "done"]} : job' = [job EXCEPT ![j] = x]
  BY DEF SummaryArrives
<1>8. JobsFrom /\ job' = [k \in Jobs |-> job'[k]]
      /\ \A k \in Jobs : job'[k] = job[k] \/ job'[k] = x
  BY <1>7 DEF OInv, HistoryTypeOK, JobsFrom
<1>9. /\ job' \in [Jobs -> [pc : {"idle", "summarizing", "done"}, snap : Seq(Messages), keep : Nat]]
      /\ \A k \in Jobs : Stored(job'[k].snap, appended', now')
  BY <1>1, <1>8, JobsStep
<1>10. hist' \in Seq(Messages)
  BY <1>6 DEF Stored
<1>11. OInv'
  BY <1>1, <1>6, <1>9, <1>10 DEF OInv, HistoryTypeOK
<1>12. QED
  BY <1>1, <1>6, <1>7, <1>8, <1>11, NoJobTyped


(* Before the first message nothing is stored and no job runs. *)
LEMMA HistoryStart == HistoryInit => FInv
<1> SUFFICES ASSUME HistoryInit PROVE FInv
  OBVIOUS
<1>1. hist = << >> /\ now = 1 /\ appended = 0 /\ turn = "idle" /\ backend \in {"sqlite", "json"}
  BY DEF HistoryInit
<1>2. \A j \in Jobs : job[j] = NoJob
  BY DEF HistoryInit
<1>3. job \in [Jobs -> [pc : {"idle", "summarizing", "done"}, snap : Seq(Messages), keep : Nat]]
  BY <1>2, NoJobTyped DEF HistoryInit
<1>4. HistoryTypeOK
  <2>1. << >> \in Seq(Messages) /\ 0 \in 0..MaxMessages
    BY HistoryAssumption
  <2>2. QED
    BY <1>1, <1>3, <2>1 DEF HistoryTypeOK
<1>5. OInv
  BY <1>1, <1>2, <1>4, NoJobTyped, EmptyStored DEF OInv
<1>6. Content(hist) = {} /\ 1..appended = {}
  BY <1>1, ContentSays
<1>7. QED
  BY <1>2, <1>5, <1>6, NoJobTyped DEF FInv, Complete

(* Every step is a step of jobs, an append or a rewrite. *)
LEMMA HistorySteps ==
  ASSUME OInv, HistoryNext
  PROVE  \/ JobStep
         \/ AppendMessage /\ turn' \in {"idle", "opening", "working"}
         \/ \E j \in Jobs : SummaryArrives(j)
<1>1. PersistUser \/ PersistMore => AppendMessage /\ turn' \in {"idle", "opening", "working"}
  BY DEF PersistUser, PersistMore, OInv, HistoryTypeOK
<1>2. QED
  BY <1>1 DEF HistoryNext, JobStep

(* The order, in every behaviour. *)
LEMMA OrderStep == OInv /\ [HistoryNext]_historyVars => OInv'
<1> SUFFICES ASSUME OInv, [HistoryNext]_historyVars PROVE OInv'
  OBVIOUS
<1>1. CASE UNCHANGED historyVars
  BY <1>1 DEF historyVars, OInv, HistoryTypeOK
<1>2. CASE HistoryNext
  BY <1>2, HistorySteps, JobStepOrder, AppendOrder, ArriveOrder
<1>3. QED
  BY <1>1, <1>2

(* The content, when nothing is stored while a summary is written. *)
LEMMA ContentStep == FInv /\ [HistoryNext /\ Quiet]_historyVars => FInv'
<1> SUFFICES ASSUME FInv, [HistoryNext /\ Quiet]_historyVars PROVE FInv'
  OBVIOUS
<1>1. OInv /\ Content(hist) = 1..appended
      /\ \A j \in Jobs : job[j].pc = "summarizing" => Content(job[j].snap) = 1..appended
  BY DEF FInv, Complete
<1>2. OInv'
  BY <1>1, OrderStep
<1>3. appended \in Nat
  BY <1>1, HistoryAssumption DEF OInv, HistoryTypeOK
<1>4. CASE UNCHANGED historyVars
  BY <1>1, <1>2, <1>4 DEF historyVars, FInv, Complete
<1>5. CASE JobStep
  <2>1. UNCHANGED <<hist, appended>> /\ JobsFrom
    BY <1>1, <1>5, JobStepFrom
  <2>2. ASSUME NEW j \in Jobs, job'[j].pc = "summarizing" PROVE Content(job'[j].snap) = 1..appended
    <3>1. CASE job'[j] = job[j]
      BY <1>1, <2>2, <3>1
    <3>2. CASE job'[j] \in {NoJob, [NoJob EXCEPT !.pc = "done"]}
      BY <2>2, <3>2, NoJobTyped
    <3>3. CASE \E k \in Nat : job'[j] = Summarizing(k)
      BY <1>1, <3>3, SummarizingTyped
    <3>4. QED
      BY <2>1, <3>1, <3>2, <3>3 DEF JobsFrom
  <2>3. QED
    BY <1>1, <1>2, <2>1, <2>2 DEF FInv, Complete
<1>6. CASE AppendMessage /\ turn' \in {"idle", "opening", "working"} /\ Quiet
  <2>1. job' = job /\ appended' = appended + 1 /\ Content(hist') = Content(hist) \cup {appended'}
    BY <1>1, <1>6, AppendOrder
  <2>2. Content(hist') = 1..appended'
    BY <1>1, <1>3, <2>1
  <2>3. \A j \in Jobs : job[j].pc # "summarizing"
    BY <1>3, <1>6, <2>1 DEF Quiet
  <2>4. QED
    BY <1>2, <2>1, <2>2, <2>3 DEF FInv, Complete
<1>7. ASSUME NEW j \in Jobs, SummaryArrives(j) PROVE FInv'
  <2>1. /\ appended' = appended /\ job[j].pc = "summarizing"
        /\ Content(hist') = Content(job[j].snap)
        /\ \A k \in Jobs : job'[k] = job[k] \/ job'[k].pc # "summarizing"
    BY <1>1, <1>7, ArriveOrder
  <2>2. QED
    BY <1>1, <1>2, <2>1 DEF FInv, Complete
<1>8. QED
  BY <1>1, <1>4, <1>5, <1>6, <1>7, HistorySteps

(* The messages that are left verbatim keep the order they were stored in   *)
(* and none appears twice, in both storages, for any number of messages,    *)
(* compactions and values of keepRecent, even when turns store messages     *)
(* while a summary is being written: replaceMessages stores kept messages   *)
(* with their old time, and ORDER BY created_at, rowid puts them back in    *)
(* order.                                                                   *)
THEOREM OrderKeptHolds == HistorySpec => [](HistoryTypeOK /\ OrderKept)
<1>1. HistoryInit => OInv
  BY HistoryStart DEF FInv
<1>2. OInv => HistoryTypeOK /\ OrderKept
  BY DEF OInv, Stored, Ordered, OrderKept
<1>3. QED
  BY <1>1, <1>2, OrderStep, PTL DEF HistorySpec

(* When nothing is stored while a summary is being written, every message   *)
(* ever stored is in the history or in a summary that is: the messages that *)
(* summarize summarises and those that it keeps are together the ones it    *)
(* has read, and sorting loses none.                                        *)
THEOREM NothingForgottenHolds == QuietSpec => []NothingForgotten
<1>1. FInv => NothingForgotten
  BY DEF FInv, Complete, NothingForgotten
<1>2. QED
  BY <1>1, HistoryStart, ContentStep, PTL DEF QuietSpec
=============================================================================
