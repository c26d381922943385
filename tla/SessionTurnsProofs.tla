------------------------- MODULE SessionTurnsProofs -------------------------
(***************************************************************************)
(* Theorems about SessionTurns, for any number of requests, tools and      *)
(* iterations.                                                             *)
(***************************************************************************)
EXTENDS SessionTurns, SequenceTheorems, TLAPS

(* A turn that is at a tool call has one left. *)
CallsLeft == \A x \in Turns : turn[x].pc \in {"tool", "perm", "exec"} => turn[x].calls # <<>>

(* What a turn remembers as always allowed, the user granted. *)
AlwaysGranted == \A x \in Turns : turn[x].always \subseteq granted

(* A registered permission request belongs to a turn that waits for it. *)
PermsWait == \A x \in perms : turn[x].pc = "perm"

TInv == TypeOK /\ CallsLeft /\ AlwaysGranted /\ PermsWait

TurnRecord == [pc : PCs, aborted : BOOLEAN, iter : Nat, calls : Seq(Tools), always : SUBSET Tools]

-----------------------------------------------------------------------------
(* Appending one message keeps the stored messages well typed. *)
LEMMA AppendType ==
  ASSUME msgs \in Seq(Messages), NEW x \in Turns, NEW n \in Nat,
         NEW role \in {"user", "assistant", "tool"}, Append1(role, x, n)
  PROVE  msgs' \in Seq(Messages)
<1>1. Message(role, x, n) \in Messages
  BY DEF Message, Messages
<1>2. QED
  BY <1>1 DEF Append1

(* Behind the first of several calls there is another one. *)
LEMMA TailLeft ==
  ASSUME NEW s \in Seq(Tools), s # <<>>, Len(s) # 1
  PROVE  Tail(s) # <<>>
<1>1. Len(s) \in Nat \ {0} /\ Len(<<>>) = 0
  BY EmptySeq
<1>2. Len(Tail(s)) = Len(s) - 1
  BY HeadTailProperties
<1>3. Len(Tail(s)) # 0
  BY <1>1, <1>2
<1>4. QED
  BY <1>1, <1>3

(* The end of a turn leaves well-typed locals. *)
LEMMA EndedRecord ==
  ASSUME TypeOK, NEW x \in Turns, Ended(x)
  PROVE  turn' \in [Turns -> TurnRecord]
<1>1. turn \in [Turns -> TurnRecord]
  BY DEF TypeOK, TurnRecord
<1>2. <<>> \in Seq(Tools) /\ "done" \in PCs
  BY DEF PCs
<1>3. [turn[x] EXCEPT !.pc = "done", !.calls = <<>>] \in TurnRecord
  BY <1>1, <1>2 DEF TurnRecord
<1>4. turn' = [turn EXCEPT ![x] = [turn[x] EXCEPT !.pc = "done", !.calls = <<>>]]
  BY <1>1 DEF Ended, TurnRecord
<1>5. QED
  BY <1>1, <1>3, <1>4

(* Storing a result keeps the invariant, whichever request it answers. *)
LEMMA ResultType ==
  ASSUME TInv, NEW x \in Turns, turn[x].pc \in {"tool", "perm", "exec"},
         NEW pending \in SUBSET Turns, NEW aborted \in BOOLEAN,
         \A y \in pending : y # x /\ turn[y].pc = "perm",
         StoreResult(x, pending, aborted),
         UNCHANGED <<alive, granted, crashes>>
  PROVE  TInv'
<1>1. msgs' \in Seq(Messages)
  BY AppendType DEF StoreResult, TInv, TypeOK
<1>2. turn[x] \in TurnRecord /\ turn[x].calls # <<>>
  BY DEF TInv, TypeOK, CallsLeft, TurnRecord
<1>3. CASE Len(turn[x].calls) = 1 /\ turn[x].iter >= MaxIterations
  <2>1. Ended(x)
    BY <1>3 DEF StoreResult
  <2>2. turn' \in [Turns -> TurnRecord]
    BY <2>1, EndedRecord DEF TInv
  <2>3. running' \in BOOLEAN
    BY <2>1, Zenon DEF Ended
  <2>4. abort' = NoTurn /\ perms' = {}
    BY <2>1 DEF Ended
  <2>5. CallsLeft' /\ AlwaysGranted'
    BY <2>1 DEF Ended, TInv, TypeOK, CallsLeft, AlwaysGranted
  <2>6. QED
    BY <1>1, <2>2, <2>3, <2>4, <2>5 DEF TInv, TypeOK, TurnRecord, PermsWait
<1>4. CASE ~(Len(turn[x].calls) = 1 /\ turn[x].iter >= MaxIterations)
  <2>1. /\ turn' = [turn EXCEPT ![x].calls = Tail(@), ![x].aborted = aborted,
                                ![x].pc = IF Len(turn[x].calls) = 1 THEN "model" ELSE "tool"]
        /\ perms' = pending
        /\ UNCHANGED <<running, abort>>
    BY <1>4 DEF StoreResult
  <2>0. turn[x].calls \in Seq(Tools) /\ turn[x].calls # <<>>
    BY <1>2 DEF TurnRecord
  <2>2. Tail(turn[x].calls) \in Seq(Tools)
    BY <2>0
  <2>3. Len(turn[x].calls) # 1 => Tail(turn[x].calls) # <<>>
    BY <2>0, TailLeft
  <2>4. PICK to \in {"model", "tool"} :
          /\ to = IF Len(turn[x].calls) = 1 THEN "model" ELSE "tool"
          /\ turn' = [turn EXCEPT ![x] = [turn[x] EXCEPT !.calls = Tail(@), !.aborted = aborted,
                                                         !.pc = to]]
    BY <1>2, <2>1 DEF TInv, TypeOK, TurnRecord
  <2>8. turn' \in [Turns -> TurnRecord]
    <3>1. [turn[x] EXCEPT !.calls = Tail(@), !.aborted = aborted, !.pc = to] \in TurnRecord
      BY <1>2, <2>2 DEF TurnRecord, PCs
    <3>2. QED
      BY <2>4, <3>1 DEF TInv, TypeOK, TurnRecord
  <2>5. CallsLeft'
    <3>1. turn'[x].pc = to /\ turn'[x].calls = Tail(turn[x].calls)
      BY <1>2, <2>4 DEF TInv, TypeOK, TurnRecord
    <3>2. \A y \in Turns \ {x} : turn'[y] = turn[y]
      BY <2>4 DEF TInv, TypeOK
    <3>3. QED
      BY <2>3, <2>4, <3>1, <3>2 DEF TInv, CallsLeft
  <2>6. AlwaysGranted'
    BY <2>1 DEF TInv, TypeOK, AlwaysGranted
  <2>7. PermsWait'
    <3>1. \A y \in Turns \ {x} : turn'[y] = turn[y]
      BY <2>4 DEF TInv, TypeOK
    <3>2. QED
      BY <2>1, <3>1 DEF PermsWait
  <2>9. QED
    BY <1>1, <2>1, <2>8, <2>5, <2>6, <2>7 DEF TInv, TypeOK, TurnRecord
<1>5. QED
  BY <1>3, <1>4

(* The end of a turn keeps the invariant. *)
LEMMA EndedType ==
  ASSUME TInv, NEW x \in Turns, Ended(x), msgs' \in Seq(Messages),
         UNCHANGED <<alive, granted, crashes>>
  PROVE  TInv'
<1>1. turn' \in [Turns -> TurnRecord]
  BY EndedRecord DEF TInv
<1>2. running' \in BOOLEAN
  BY Zenon DEF Ended
<1>3. CallsLeft' /\ AlwaysGranted'
  BY DEF Ended, TInv, TypeOK, CallsLeft, AlwaysGranted
<1>4. QED
  BY <1>1, <1>2, <1>3 DEF Ended, TInv, TypeOK, TurnRecord, PermsWait

(* No request is known before the first one. *)
LEMMA TurnsTypeInit == Init => TInv
<1> SUFFICES ASSUME Init PROVE TInv
  OBVIOUS
<1>1. turn \in [Turns -> TurnRecord]
  BY DEF Init, Fresh, TurnRecord, PCs
<1>2. alive \in BOOLEAN /\ running \in BOOLEAN
  BY Zenon DEF Init
<1>3. CallsLeft /\ AlwaysGranted
  BY DEF Init, Fresh, CallsLeft, AlwaysGranted
<1>4. QED
  BY <1>1, <1>2, <1>3 DEF Init, TInv, TypeOK, TurnRecord, PermsWait

(* A change of one turn's program counter alone keeps the invariant, when  *)
(* the new place needs no call or the turn still has one.                  *)
LEMMA MoveType ==
  ASSUME TInv, NEW x \in Turns, NEW to \in PCs,
         turn' = [turn EXCEPT ![x].pc = to],
         to \in {"tool", "perm", "exec"} => turn[x].calls # <<>>,
         perms' = IF to = "perm" THEN perms \cup {x} ELSE perms,
         turn[x].pc # "perm",
         UNCHANGED granted
  PROVE  turn' \in [Turns -> TurnRecord] /\ CallsLeft' /\ AlwaysGranted' /\ PermsWait'
<1>1. turn' \in [Turns -> TurnRecord]
  BY DEF TInv, TypeOK, TurnRecord
<1>2. CallsLeft'
  BY DEF TInv, TypeOK, CallsLeft
<1>3. AlwaysGranted'
  BY DEF TInv, TypeOK, AlwaysGranted
<1>4. PermsWait'
  BY DEF TInv, TypeOK, PermsWait
<1>5. QED
  BY <1>1, <1>2, <1>3, <1>4

(* Every step keeps the invariant, whoever takes it. *)
LEMMA TurnsTypeStep == TInv /\ [Next]_vars => TInv'
<1> SUFFICES ASSUME TInv, [Next]_vars PROVE TInv'
  OBVIOUS
<1> USE TurnsAssumption
<1>0. turn \in [Turns -> TurnRecord]
  BY DEF TInv, TypeOK, TurnRecord
<1>1. CASE \E x \in Turns : Engine(x)
  <2>0. PICK x \in Turns : Engine(x)
    BY <1>1
  <2>1. CASE Start(x)
    <3>1. turn' \in [Turns -> TurnRecord] /\ CallsLeft' /\ AlwaysGranted' /\ PermsWait'
      BY <2>1, MoveType DEF Start, PCs
    <3>2. running' \in BOOLEAN
      BY <2>1, Zenon DEF Start
    <3>3. abort' \in Turns /\ UNCHANGED <<alive, msgs, perms, granted, crashes>>
      BY <2>1 DEF Start
    <3>4. QED
      BY <3>1, <3>2, <3>3 DEF TInv, TypeOK, TurnRecord
  <2>2. CASE PersistUser(x)
    <3>1. turn' \in [Turns -> TurnRecord] /\ CallsLeft' /\ AlwaysGranted' /\ PermsWait'
      BY <2>2, MoveType DEF PersistUser, tState, PCs
    <3>2. msgs' \in Seq(Messages)
      BY <2>2, AppendType DEF PersistUser, TInv, TypeOK
    <3>3. QED
      BY <2>2, <3>1, <3>2 DEF PersistUser, tState, TInv, TypeOK, TurnRecord
  <2>3. CASE \E calls \in Replies : ModelAnswers(x, calls)
    <3>0. PICK calls \in Replies : ModelAnswers(x, calls)
      BY <2>3
    <3>1. calls \in Seq(Tools) /\ Len(calls) \in Nat
      BY ToolsAssumption, LenProperties
    <3>2. msgs' \in Seq(Messages)
      BY <3>0, <3>1, AppendType DEF ModelAnswers, TInv, TypeOK
    <3>3. CASE calls = <<>>
      BY <3>0, <3>2, <3>3, EndedType DEF ModelAnswers
    <3>4. CASE calls # <<>>
      <4> DEFINE rec == [turn[x] EXCEPT !.pc = "tool", !.calls = calls, !.iter = @ + 1]
      <4>0. /\ turn' = [turn EXCEPT ![x].pc = "tool", ![x].calls = calls, ![x].iter = @ + 1]
            /\ UNCHANGED tState
        BY <3>0, <3>4 DEF ModelAnswers
      <4>1. turn' = [turn EXCEPT ![x] = rec]
        BY <1>0, <4>0 DEF TurnRecord
      <4>2. rec \in TurnRecord /\ rec.pc = "tool" /\ rec.calls = calls /\ rec.always = turn[x].always
        <5>1. turn[x] \in TurnRecord /\ "tool" \in PCs
          BY <1>0 DEF PCs
        <5>2. turn[x].iter + 1 \in Nat
          BY <5>1 DEF TurnRecord
        <5>3. rec \in TurnRecord
          BY <3>1, <5>1, <5>2 DEF TurnRecord
        <5>4. QED
          BY <5>1, <5>3 DEF TurnRecord
      <4> HIDE DEF rec
      <4>3. turn' \in [Turns -> TurnRecord]
        BY <1>0, <4>1, <4>2
      <4>4. CallsLeft' /\ AlwaysGranted'
        BY <1>0, <3>0, <3>4, <4>1, <4>2 DEF ModelAnswers, TInv, CallsLeft, AlwaysGranted
      <4>5. PermsWait'
        BY <1>0, <3>0, <4>0, <4>1 DEF ModelAnswers, tState, TInv, TypeOK, PermsWait
      <4>6. QED
        BY <3>0, <3>2, <4>0, <4>3, <4>4, <4>5 DEF ModelAnswers, tState, TInv, TypeOK, TurnRecord
    <3>5. QED
      BY <3>3, <3>4
  <2>4. CASE ModelFails(x)
    <3>1. msgs' \in Seq(Messages)
      BY <2>4, AppendType DEF ModelFails, TInv, TypeOK
    <3>2. QED
      BY <2>4, <3>1, EndedType DEF ModelFails
  <2>5. CASE RefuseTool(x) \/ ToolReturns(x)
    <3>1. perms \in SUBSET Turns /\ turn[x].aborted \in BOOLEAN
      BY <1>0 DEF TInv, TypeOK, TurnRecord
    <3>2. /\ turn[x].pc \in {"tool", "perm", "exec"}
          /\ StoreResult(x, perms, turn[x].aborted)
          /\ UNCHANGED <<alive, granted, crashes>>
      BY <2>5 DEF RefuseTool, ToolReturns
    <3>3. \A y \in perms : y # x /\ turn[y].pc = "perm"
      BY <2>5 DEF RefuseTool, ToolReturns, TInv, PermsWait
    <3>4. QED
      BY <3>1, <3>2, <3>3, ResultType
  <2>6. CASE AskPermission(x)
    <3>1. turn' \in [Turns -> TurnRecord] /\ CallsLeft' /\ AlwaysGranted' /\ PermsWait'
      BY <2>6, MoveType DEF AskPermission, TInv, CallsLeft, PCs
    <3>2. QED
      BY <2>6, <3>1 DEF AskPermission, TInv, TypeOK, TurnRecord
  <2>7. CASE RunTool(x)
    <3>1. turn' \in [Turns -> TurnRecord] /\ CallsLeft' /\ AlwaysGranted' /\ PermsWait'
      BY <2>7, MoveType DEF RunTool, tState, TInv, CallsLeft, PCs
    <3>2. QED
      BY <2>7, <3>1 DEF RunTool, tState, TInv, TypeOK, TurnRecord
  <2>8. QED
    BY <2>0, <2>1, <2>2, <2>3, <2>4, <2>5, <2>6, <2>7 DEF Engine
<1>2. CASE \E x \in Turns : User(x)
  <2>0. PICK x \in Turns : User(x)
    BY <1>2
  <2>1. CASE Send(x)
    <3>1. PICK to \in {"ready", "rejected"} : turn' = [turn EXCEPT ![x].pc = to]
      BY <2>1 DEF Send
    <3>2. UNCHANGED <<alive, msgs, running, abort, perms, granted, crashes>>
      BY <2>1 DEF Send, tState
    <3>3. turn' \in [Turns -> TurnRecord] /\ CallsLeft' /\ AlwaysGranted' /\ PermsWait'
      BY <2>1, <3>1, <3>2, MoveType DEF Send, PCs
    <3>4. QED
      BY <3>2, <3>3 DEF TInv, TypeOK, TurnRecord
  <2>2. CASE \E always \in BOOLEAN : ApproveAllow(x, always)
    <3>0. PICK always \in BOOLEAN : ApproveAllow(x, always)
      BY <2>2
    <3> DEFINE allowed == IF always THEN turn[x].always \cup {Call(x)} ELSE turn[x].always
    <3> DEFINE rec == [turn[x] EXCEPT !.pc = "exec", !.always = allowed]
    <3>1. turn[x].pc = "perm" /\ turn[x].calls # <<>> /\ Call(x) \in Tools
      BY <1>0, <3>0, HeadTailProperties DEF ApproveAllow, TInv, PermsWait, CallsLeft, Call, TurnRecord
    <3>2. turn' = [turn EXCEPT ![x] = rec]
      BY <1>0, <3>0 DEF ApproveAllow, TurnRecord
    <3>3. allowed \subseteq Tools /\ allowed \subseteq granted' /\ granted \subseteq granted' /\ granted' \subseteq Tools
      BY <1>0, <3>0, <3>1 DEF ApproveAllow, TInv, TypeOK, AlwaysGranted, TurnRecord
    <3> HIDE DEF allowed
    <3>4. rec \in TurnRecord /\ rec.pc = "exec" /\ rec.calls = turn[x].calls /\ rec.always = allowed
      BY <1>0, <3>3 DEF TurnRecord, PCs
    <3> HIDE DEF rec
    <3>5. turn' \in [Turns -> TurnRecord]
      BY <1>0, <3>2, <3>4
    <3>6. CallsLeft'
      BY <1>0, <3>1, <3>2, <3>4 DEF TInv, CallsLeft
    <3>7. AlwaysGranted'
      BY <1>0, <3>2, <3>3, <3>4 DEF TInv, AlwaysGranted
    <3>8. PermsWait'
      BY <1>0, <3>0, <3>2 DEF ApproveAllow, TInv, TypeOK, PermsWait
    <3>9. QED
      BY <3>0, <3>3, <3>5, <3>6, <3>7, <3>8 DEF ApproveAllow, TInv, TypeOK, TurnRecord
  <2>3. CASE ApproveDeny(x)
    <3>1. perms \ {x} \in SUBSET Turns /\ turn[x].aborted \in BOOLEAN
      BY <1>0 DEF TInv, TypeOK, TurnRecord
    <3>2. /\ turn[x].pc = "perm"
          /\ \A y \in perms \ {x} : y # x /\ turn[y].pc = "perm"
      BY <2>3 DEF ApproveDeny, TInv, PermsWait
    <3>3. StoreResult(x, perms \ {x}, turn[x].aborted) /\ UNCHANGED <<alive, granted, crashes>>
      BY <2>3 DEF ApproveDeny
    <3>4. QED
      BY <3>1, <3>2, <3>3, ResultType
  <2>4. QED
    BY <2>0, <2>1, <2>2, <2>3 DEF User
<1>3. CASE Stop
  <2>1. abort \in Turns
    BY <1>3 DEF Stop, TInv, TypeOK
  <2>2. CASE turn[abort].pc = "perm"
    <3>1. StoreResult(abort, perms \ {abort}, TRUE) /\ UNCHANGED <<alive, granted, crashes>>
      BY <1>3, <2>2 DEF Stop
    <3>2. perms \ {abort} \in SUBSET Turns /\ TRUE \in BOOLEAN
      BY DEF TInv, TypeOK
    <3>3. \A y \in perms \ {abort} : y # abort /\ turn[y].pc = "perm"
      BY DEF TInv, PermsWait
    <3>4. QED
      BY <2>1, <2>2, <3>1, <3>2, <3>3, ResultType
  <2>3. CASE turn[abort].pc # "perm"
    <3> DEFINE rec == [turn[abort] EXCEPT !.aborted = TRUE]
    <3>1. /\ turn' = [turn EXCEPT ![abort].aborted = TRUE]
          /\ UNCHANGED <<msgs, running, abort, perms, alive, granted, crashes>>
      BY <1>3, <2>3 DEF Stop, tState
    <3>2. turn' = [turn EXCEPT ![abort] = rec]
      BY <1>0, <2>1, <3>1 DEF TurnRecord
    <3>3. /\ rec \in TurnRecord /\ rec.pc = turn[abort].pc
          /\ rec.calls = turn[abort].calls /\ rec.always = turn[abort].always
      BY <1>0, <2>1 DEF TurnRecord
    <3> HIDE DEF rec
    <3>4. turn' \in [Turns -> TurnRecord]
      BY <1>0, <2>1, <3>2, <3>3
    <3>5. CallsLeft' /\ AlwaysGranted' /\ PermsWait'
      BY <1>0, <2>1, <3>1, <3>2, <3>3 DEF TInv, TypeOK, CallsLeft, AlwaysGranted, PermsWait
    <3>6. QED
      BY <3>1, <3>4, <3>5 DEF TInv, TypeOK, TurnRecord
  <2>4. QED
    BY <2>2, <2>3
<1>4. CASE Delete
  <2>1. alive' \in BOOLEAN
    BY <1>4, Zenon DEF Delete
  <2>2. msgs' = <<>> /\ UNCHANGED <<running, abort, perms, turn, granted, crashes>>
    BY <1>4 DEF Delete, tState
  <2>3. QED
    BY <2>1, <2>2 DEF TInv, TypeOK, CallsLeft, AlwaysGranted, PermsWait
<1>5. CASE Crash
  <2>1. running' \in BOOLEAN
    BY <1>5, Zenon DEF Crash
  <2>2. perms' = {} /\ abort' = NoTurn /\ crashes' = crashes + 1 /\ UNCHANGED <<alive, msgs, granted>>
    BY <1>5 DEF Crash
  <2>3. \A x \in Turns : [turn[x] EXCEPT !.pc = "dead"] \in TurnRecord
    BY <1>0 DEF TurnRecord, PCs
  <2>4. turn' \in [Turns -> TurnRecord]
    BY <1>0, <1>5, <2>3 DEF Crash
  <2>5. \A x \in Turns : /\ turn'[x].pc \in {turn[x].pc, "dead"}
                          /\ turn'[x].calls = turn[x].calls /\ turn'[x].always = turn[x].always
    BY <1>0, <1>5 DEF Crash, TurnRecord
  <2>6. CallsLeft' /\ AlwaysGranted' /\ PermsWait'
    BY <2>2, <2>5 DEF TInv, CallsLeft, AlwaysGranted, PermsWait
  <2>7. QED
    BY <2>1, <2>2, <2>4, <2>6 DEF TInv, TypeOK, TurnRecord
<1>6. CASE UNCHANGED vars
  BY <1>6 DEF vars, TInv, TypeOK, CallsLeft, AlwaysGranted, PermsWait
<1>7. QED
  BY <1>1, <1>2, <1>3, <1>4, <1>5, <1>6 DEF Next

(* Type correctness of a session, also with two turns at once. *)
THEOREM TurnsTypeCorrect == Spec => []TypeOK
<1>1. TInv => TypeOK
  BY DEF TInv
<1>2. QED
  BY <1>1, TurnsTypeInit, TurnsTypeStep, PTL DEF Spec

-----------------------------------------------------------------------------
(* A turn changes to running a tool in RunTool, whose call needs no        *)
(* approval, or in ApproveAllow.                                           *)
LEMMA ExecStarts ==
  ASSUME TInv, [Next]_vars, NEW x \in Turns, turn[x].pc # "exec", turn'[x].pc = "exec"
  PROVE  RunTool(x) \/ x \in perms
<1>0. turn \in [Turns -> TurnRecord]
  BY DEF TInv, TypeOK, TurnRecord
<1>1. ASSUME NEW y \in Turns, NEW pending, NEW aborted, StoreResult(y, pending, aborted)
      PROVE  turn'[x].pc # "exec"
  BY <1>0, <1>1 DEF StoreResult, Ended, TurnRecord
<1>2. ASSUME NEW y \in Turns, Engine(y) PROVE RunTool(x)
  <2>1. CASE RefuseTool(y) \/ ToolReturns(y)
    BY <1>1, <2>1 DEF RefuseTool, ToolReturns
  <2>2. CASE Start(y) \/ PersistUser(y) \/ ModelFails(y) \/ AskPermission(y)
    BY <1>0, <2>2 DEF Start, PersistUser, ModelFails, AskPermission, Ended, TurnRecord
  <2>3. CASE \E calls \in Replies : ModelAnswers(y, calls)
    BY <1>0, <2>3 DEF ModelAnswers, Ended, TurnRecord
  <2>4. CASE RunTool(y)
    BY <1>0, <2>4 DEF RunTool, TurnRecord
  <2>5. QED
    BY <1>2, <2>1, <2>2, <2>3, <2>4 DEF Engine
<1>3. ASSUME NEW y \in Turns, User(y) PROVE x \in perms
  <2>1. CASE Send(y)
    BY <1>0, <2>1 DEF Send, TurnRecord
  <2>2. CASE \E always \in BOOLEAN : ApproveAllow(y, always)
    BY <1>0, <2>2 DEF ApproveAllow, TurnRecord
  <2>3. CASE ApproveDeny(y)
    BY <1>1, <2>3 DEF ApproveDeny
  <2>4. QED
    BY <1>3, <2>1, <2>2, <2>3 DEF User
<1>4. ~Stop
  <2> SUFFICES ASSUME Stop PROVE FALSE
    OBVIOUS
  <2>1. abort \in Turns
    BY DEF Stop, TInv, TypeOK
  <2>2. CASE turn[abort].pc = "perm"
    <3>1. StoreResult(abort, perms \ {abort}, TRUE)
      BY <2>2 DEF Stop
    <3>2. QED
      BY <1>1, <2>1, <3>1
  <2>3. CASE turn[abort].pc # "perm"
    <3>1. turn' = [turn EXCEPT ![abort].aborted = TRUE]
      BY <2>3 DEF Stop
    <3>2. QED
      BY <1>0, <2>1, <3>1 DEF TurnRecord
  <2>4. QED
    BY <2>2, <2>3
<1>5. ~Delete /\ ~Crash /\ ~UNCHANGED vars
  BY <1>0 DEF Delete, Crash, vars, TurnRecord
<1>6. QED
  BY <1>2, <1>3, <1>4, <1>5 DEF Next

(* A dangerous tool starts in an ask-mode turn only on the user's word,    *)
(* whatever stops, denials and answers to other requests come in between,  *)
(* and even when two turns run at once.                                    *)
THEOREM DangerNeedsApprovalHolds == Spec => DangerNeedsApproval
<1>1. TInv /\ [Next]_vars =>
        [\A x \in Turns \ YoloTurns :
           turn[x].pc # "exec" /\ turn'[x].pc = "exec" /\ Call(x) \in Dangerous =>
             x \in perms \/ Call(x) \in turn[x].always \cap granted]_vars
  <2> SUFFICES ASSUME TInv, [Next]_vars, NEW x \in Turns \ YoloTurns,
                      turn[x].pc # "exec", turn'[x].pc = "exec", Call(x) \in Dangerous,
                      x \notin perms
               PROVE  Call(x) \in turn[x].always \cap granted
    OBVIOUS
  <2>1. RunTool(x)
    BY ExecStarts
  <2>2. Call(x) \in turn[x].always
    BY <2>1 DEF RunTool, WantsApproval
  <2>3. QED
    BY <2>2 DEF TInv, AlwaysGranted
<1>2. QED
  BY <1>1, TurnsTypeInit, TurnsTypeStep, PTL DEF Spec, DangerNeedsApproval

-----------------------------------------------------------------------------
(* Mutual exclusion of turns, when requests are spaced. *)

(* A request that has passed the busy test and is not over. *)
Launched(x) == Active(x) \/ turn[x].pc = "ready"

(* The busy test lets one request through at a time. *)
OneLaunched == \A x, y \in Turns : Launched(x) /\ Launched(y) => x = y

(* Its session is not deleted under it. *)
LaunchedAlive == \A x \in Turns : Launched(x) => alive

SInv == /\ OneLaunched /\ OneTurnAtATime /\ WaitsAreAnswerable
        /\ LaunchedAlive /\ DeletedStaysEmpty

(* A step of a running turn that does not end it. *)
LEMMA WorkStep ==
  ASSUME SInv, NEW x \in Turns, Active(x), turn'[x].pc \in InProgress,
         \A y \in Turns \ {x} : turn'[y].pc = turn[y].pc,
         UNCHANGED <<alive, running, abort>>,
         \A y \in Turns : y \in perms' <=> y = x /\ turn'[x].pc = "perm"
  PROVE  SInv'
<1>1. alive /\ alive'
  BY DEF SInv, LaunchedAlive, Launched
<1>2. \A y \in Turns : Active(y)' <=> Active(y)
  BY DEF Active
<1>3. \A y \in Turns : Launched(y)' <=> Launched(y)
  BY <1>2 DEF Launched, Active, InProgress
<1>4. \A y \in Turns : Launched(y) <=> y = x
  BY DEF SInv, OneLaunched, Launched
<1>5. OneLaunched' /\ LaunchedAlive' /\ DeletedStaysEmpty'
  BY <1>1, <1>3, <1>4 DEF OneLaunched, LaunchedAlive, DeletedStaysEmpty
<1>6. OneTurnAtATime'
  BY <1>2 DEF SInv, OneTurnAtATime
<1>7. WaitsAreAnswerable'
  <2>1. \A y \in Turns \ {x} : turn[y].pc # "perm"
    BY <1>4 DEF Launched, Active, InProgress
  <2>2. QED
    BY <2>1 DEF WaitsAreAnswerable
<1>8. QED
  BY <1>5, <1>6, <1>7 DEF SInv

(* The end of a turn. *)
LEMMA EndStep ==
  ASSUME SInv, TypeOK, NEW x \in Turns, Active(x), Ended(x), UNCHANGED alive
  PROVE  SInv'
<1>1. alive /\ alive'
  BY DEF SInv, LaunchedAlive, Launched
<1>2. \A y \in Turns : Launched(y) <=> y = x
  BY DEF SInv, OneLaunched, Launched
<1>3. turn'[x].pc = "done" /\ \A y \in Turns \ {x} : turn'[y].pc = turn[y].pc
  BY DEF Ended, TypeOK
<1>4. \A y \in Turns : ~Launched(y)' /\ ~Active(y)'
  BY <1>2, <1>3 DEF Launched, Active, InProgress
<1>5. OneLaunched' /\ LaunchedAlive' /\ DeletedStaysEmpty'
  BY <1>1, <1>4 DEF OneLaunched, LaunchedAlive, DeletedStaysEmpty
<1>6. ~running' /\ abort' = NoTurn /\ perms' = {}
  BY DEF Ended
<1>7. OneTurnAtATime'
  BY <1>4, <1>6, TurnsAssumption DEF OneTurnAtATime
<1>8. WaitsAreAnswerable'
  BY <1>4, <1>6 DEF WaitsAreAnswerable, Active, InProgress
<1>9. QED
  BY <1>5, <1>7, <1>8 DEF SInv

(* Storing a result goes on with the turn or ends it. *)
LEMMA ResultStep ==
  ASSUME SInv, TypeOK, NEW x \in Turns, Active(x),
         NEW pending, NEW aborted, pending \subseteq perms \ {x},
         StoreResult(x, pending, aborted), UNCHANGED alive
  PROVE  SInv'
<1>1. CASE Len(turn[x].calls) = 1 /\ turn[x].iter >= MaxIterations
  BY <1>1, EndStep DEF StoreResult
<1>2. CASE ~(Len(turn[x].calls) = 1 /\ turn[x].iter >= MaxIterations)
  <2>1. /\ turn' = [turn EXCEPT ![x].calls = Tail(@), ![x].aborted = aborted,
                                ![x].pc = IF Len(turn[x].calls) = 1 THEN "model" ELSE "tool"]
        /\ perms' = pending /\ UNCHANGED <<running, abort>>
    BY <1>2 DEF StoreResult
  <2>2. turn'[x].pc \in {"model", "tool"} /\ \A y \in Turns \ {x} : turn'[y] = turn[y]
    BY <2>1 DEF TypeOK
  <2>3. perms' = {}
    BY <2>1 DEF SInv, OneLaunched, Launched, Active, InProgress, WaitsAreAnswerable, TypeOK
  <2>4. QED
    BY <2>1, <2>2, <2>3, WorkStep DEF InProgress
<1>3. QED
  BY <1>1, <1>2

(* A turn that waits for a permission is the only one registered; a turn   *)
(* at work elsewhere leaves no request behind.                             *)
LEMMA PermsOfActive ==
  ASSUME SInv, TypeOK, NEW x \in Turns, Active(x)
  PROVE  \A y \in Turns : y \in perms <=> y = x /\ turn[x].pc = "perm"
BY DEF SInv, OneLaunched, Launched, Active, InProgress, WaitsAreAnswerable

(* Every spaced step keeps the turns apart. *)
LEMMA SpacedStep == TInv /\ SInv /\ [SpacedNext]_vars => SInv'
<1> SUFFICES ASSUME TInv, SInv, [SpacedNext]_vars PROVE SInv'
  OBVIOUS
<1>0. TypeOK /\ turn \in [Turns -> TurnRecord]
  BY DEF TInv, TypeOK, TurnRecord
<1>1. ASSUME NEW x \in Turns, Engine(x), Next, Spaced PROVE SInv'
  <2>1. CASE Start(x)
    <3>1. \A y \in Turns : Launched(y) <=> y = x
      BY <2>1 DEF Start, SInv, OneLaunched, Launched
    <3>2. /\ turn'[x].pc = "compact" /\ \A y \in Turns \ {x} : turn'[y].pc = turn[y].pc
          /\ running' = TRUE /\ abort' = x /\ perms' = perms /\ alive' = alive
      BY <1>0, <2>1 DEF Start
    <3>3. alive
      BY <3>1 DEF SInv, LaunchedAlive
    <3>4. \A y \in Turns : (Launched(y)' <=> y = x) /\ (Active(y)' <=> y = x)
      BY <3>1, <3>2 DEF Launched, Active, InProgress
    <3>5. OneLaunched' /\ LaunchedAlive' /\ DeletedStaysEmpty'
      BY <3>2, <3>3, <3>4 DEF OneLaunched, LaunchedAlive, DeletedStaysEmpty
    <3>6. OneTurnAtATime'
      BY <3>2, <3>4 DEF OneTurnAtATime
    <3>7. WaitsAreAnswerable'
      BY <2>1, <3>2 DEF Start, SInv, WaitsAreAnswerable
    <3>8. QED
      BY <3>5, <3>6, <3>7 DEF SInv
  <2>2. CASE PersistUser(x)
    <3>1. Active(x) /\ turn'[x].pc = "model" /\ \A y \in Turns \ {x} : turn'[y].pc = turn[y].pc
      BY <1>0, <2>2 DEF PersistUser, Active, InProgress
    <3>2. UNCHANGED <<alive, running, abort, perms>> /\ turn[x].pc # "perm"
      BY <2>2 DEF PersistUser, tState
    <3>3. QED
      BY <1>0, <3>1, <3>2, PermsOfActive, WorkStep DEF InProgress
  <2>3. CASE \E calls \in Replies : ModelAnswers(x, calls)
    <3>0. PICK calls \in Replies : ModelAnswers(x, calls)
      BY <2>3
    <3>1. Active(x) /\ turn[x].pc = "model"
      BY <3>0 DEF ModelAnswers, Active, InProgress
    <3>2. CASE calls = <<>>
      BY <1>0, <3>0, <3>1, <3>2, EndStep DEF ModelAnswers
    <3>3. CASE calls # <<>>
      <4>1. /\ turn' = [turn EXCEPT ![x].pc = "tool", ![x].calls = calls, ![x].iter = @ + 1]
            /\ UNCHANGED <<alive, running, abort, perms>>
        BY <3>0, <3>3 DEF ModelAnswers, tState
      <4>2. turn'[x].pc = "tool" /\ \A y \in Turns \ {x} : turn'[y].pc = turn[y].pc
        BY <1>0, <4>1 DEF TurnRecord
      <4>3. QED
        BY <1>0, <3>1, <4>1, <4>2, PermsOfActive, WorkStep DEF InProgress
    <3>4. QED
      BY <3>2, <3>3
  <2>4. CASE ModelFails(x)
    <3>1. Active(x) /\ Ended(x) /\ UNCHANGED alive
      BY <2>4 DEF ModelFails, Active, InProgress
    <3>2. QED
      BY <1>0, <3>1, EndStep
  <2>5. CASE RefuseTool(x) \/ ToolReturns(x)
    <3>1. Active(x) /\ turn[x].pc # "perm" /\ StoreResult(x, perms, turn[x].aborted) /\ UNCHANGED alive
      BY <2>5 DEF RefuseTool, ToolReturns, Active, InProgress
    <3>2. perms \subseteq perms \ {x}
      BY <3>1 DEF SInv, WaitsAreAnswerable
    <3>3. QED
      BY <1>0, <3>1, <3>2, ResultStep
  <2>6. CASE AskPermission(x) \/ RunTool(x)
    <3>1. /\ Active(x) /\ turn[x].pc = "tool" /\ turn'[x].pc \in {"perm", "exec"}
          /\ \A y \in Turns \ {x} : turn'[y].pc = turn[y].pc
          /\ UNCHANGED <<alive, running, abort>>
          /\ perms' = IF turn'[x].pc = "perm" THEN perms \cup {x} ELSE perms
      BY <1>0, <2>6 DEF AskPermission, RunTool, tState, Active, InProgress, TurnRecord
    <3>2. QED
      BY <1>0, <3>1, PermsOfActive, WorkStep DEF InProgress
  <2>7. QED
    BY <1>1, <2>1, <2>2, <2>3, <2>4, <2>5, <2>6 DEF Engine
<1>2. ASSUME NEW x \in Turns, User(x), Next, Spaced PROVE SInv'
  <2>1. CASE Send(x)
    <3>1. /\ turn[x].pc = "new" /\ turn'[x].pc = IF alive /\ ~running THEN "ready" ELSE "rejected"
          /\ \A y \in Turns \ {x} : turn'[y].pc = turn[y].pc
          /\ UNCHANGED <<alive, msgs, running, abort, perms>>
      BY <1>0, <2>1 DEF Send, tState, TurnRecord
    <3>2. \A y \in Turns : turn[y].pc # "ready"
      BY <1>2, <3>1 DEF Spaced
    <3>3. \A y \in Turns : (Active(y)' <=> Active(y)) /\ (Launched(y) <=> Active(y))
      BY <3>1, <3>2 DEF Active, InProgress, Launched
    <3>4. \A y \in Turns : Launched(y)' <=> (Active(y) \/ (y = x /\ alive /\ ~running))
      BY <3>1, <3>2, <3>3 DEF Launched
    <3>5. ~running => \A y \in Turns : ~Active(y)
      BY DEF SInv, OneTurnAtATime
    <3>6. OneLaunched'
      BY <3>3, <3>4, <3>5 DEF SInv, OneLaunched
    <3>7. LaunchedAlive' /\ DeletedStaysEmpty'
      BY <3>1, <3>3, <3>4 DEF SInv, LaunchedAlive, DeletedStaysEmpty
    <3>8. OneTurnAtATime' /\ WaitsAreAnswerable'
      BY <3>1, <3>3 DEF SInv, OneTurnAtATime, WaitsAreAnswerable
    <3>9. QED
      BY <3>6, <3>7, <3>8 DEF SInv
  <2>2. CASE \E always \in BOOLEAN : ApproveAllow(x, always)
    <3>1. /\ Active(x) /\ turn[x].pc = "perm" /\ turn'[x].pc = "exec" /\ perms' = perms \ {x}
          /\ \A y \in Turns \ {x} : turn'[y].pc = turn[y].pc
          /\ UNCHANGED <<alive, running, abort>>
      BY <1>0, <2>2 DEF ApproveAllow, SInv, WaitsAreAnswerable, Active, InProgress, TurnRecord
    <3>2. QED
      BY <1>0, <3>1, PermsOfActive, WorkStep DEF InProgress
  <2>3. CASE ApproveDeny(x)
    <3>1. Active(x) /\ StoreResult(x, perms \ {x}, turn[x].aborted) /\ UNCHANGED alive
      BY <2>3 DEF ApproveDeny, SInv, WaitsAreAnswerable, Active, InProgress
    <3>2. QED
      BY <1>0, <3>1, ResultStep
  <2>4. QED
    BY <1>2, <2>1, <2>2, <2>3 DEF User
<1>3. ASSUME Stop PROVE SInv'
  <2>1. abort \in Turns /\ Active(abort)
    BY <1>0, <1>3 DEF Stop, TypeOK, SInv, OneTurnAtATime
  <2>2. CASE turn[abort].pc = "perm"
    <3>1. StoreResult(abort, perms \ {abort}, TRUE) /\ UNCHANGED alive
      BY <1>3, <2>2 DEF Stop
    <3>2. QED
      BY <1>0, <2>1, <3>1, ResultStep
  <2>3. CASE turn[abort].pc # "perm"
    <3>1. /\ turn' = [turn EXCEPT ![abort].aborted = TRUE]
          /\ UNCHANGED <<alive, running, abort, perms>>
      BY <1>3, <2>3 DEF Stop, tState
    <3>2. \A y \in Turns : turn'[y].pc = turn[y].pc
      BY <1>0, <2>1, <3>1 DEF TurnRecord
    <3>3. QED
      BY <1>0, <2>1, <2>3, <3>1, <3>2, PermsOfActive, WorkStep DEF Active
  <2>4. QED
    BY <2>2, <2>3
<1>4. ASSUME Delete, Spaced PROVE SInv'
  <2>1. alive /\ ~running /\ ~alive' /\ msgs' = <<>> /\ UNCHANGED <<running, abort, perms, turn>>
    BY <1>4 DEF Delete, tState
  <2>2. \A x \in Turns : turn[x].pc # "ready"
    BY <1>4, <2>1 DEF Spaced
  <2>3. \A x \in Turns : ~Active(x)
    BY <2>1 DEF SInv, OneTurnAtATime
  <2>4. \A x \in Turns : ~Launched(x)' /\ ~Active(x)'
    BY <2>1, <2>2, <2>3 DEF Launched, Active
  <2>5. OneLaunched' /\ LaunchedAlive' /\ DeletedStaysEmpty'
    BY <2>1, <2>4 DEF OneLaunched, LaunchedAlive, DeletedStaysEmpty
  <2>6. OneTurnAtATime' /\ WaitsAreAnswerable'
    BY <2>1 DEF SInv, OneTurnAtATime, WaitsAreAnswerable, Active
  <2>7. QED
    BY <2>5, <2>6 DEF SInv
<1>5. ASSUME Crash PROVE SInv'
  <2>1. ~running' /\ abort' = NoTurn /\ perms' = {} /\ UNCHANGED <<alive, msgs>>
    BY <1>5 DEF Crash
  <2>2. \A x \in Turns : turn'[x].pc \notin InProgress \cup {"ready", "perm"}
    BY <1>0, <1>5 DEF Crash, Active, InProgress, TurnRecord
  <2>3. \A x \in Turns : ~Launched(x)' /\ ~Active(x)'
    BY <2>2 DEF Launched, Active
  <2>4. OneLaunched' /\ LaunchedAlive' /\ DeletedStaysEmpty'
    BY <2>1, <2>3 DEF SInv, OneLaunched, LaunchedAlive, DeletedStaysEmpty
  <2>5. OneTurnAtATime' /\ WaitsAreAnswerable'
    BY <2>1, <2>2, <2>3, TurnsAssumption DEF OneTurnAtATime, WaitsAreAnswerable
  <2>6. QED
    BY <2>4, <2>5 DEF SInv
<1>6. CASE UNCHANGED vars
  BY <1>6 DEF vars, SInv, OneLaunched, Launched, Active, LaunchedAlive, OneTurnAtATime,
              WaitsAreAnswerable, DeletedStaysEmpty
<1>7. QED
  BY <1>1, <1>2, <1>3, <1>4, <1>5, <1>6 DEF SpacedNext, Next

(* The exclusion holds before the first request. *)
LEMMA SpacedInit == Init => SInv
<1> SUFFICES ASSUME Init PROVE SInv
  OBVIOUS
<1>1. \A x \in Turns : turn[x].pc = "new"
  BY DEF Init, Fresh
<1>2. \A x \in Turns : ~Launched(x) /\ ~Active(x)
  BY <1>1 DEF Launched, Active, InProgress
<1>3. QED
  BY <1>1, <1>2, TurnsAssumption DEF Init, SInv, OneLaunched, LaunchedAlive, OneTurnAtATime,
     WaitsAreAnswerable, DeletedStaysEmpty

(* A spaced step is a step. *)
LEMMA SpacedIsNext == [SpacedNext]_vars => [Next]_vars
BY DEF SpacedNext

(* "wait or press stop": when requests are spaced, a session processes one *)
(* message at a time, its busy flag says so and stop reaches that turn,    *)
(* through crashes, denials, deletions and stops in any order.             *)
THEOREM OneTurnAtATimeHolds == SpacedSpec => []OneTurnAtATime
<1>1. SInv => OneTurnAtATime
  BY DEF SInv
<1>2. QED
  BY <1>1, TurnsTypeInit, TurnsTypeStep, SpacedInit, SpacedStep, SpacedIsNext, PTL DEF SpacedSpec

(* A turn that waits for a permission can be answered: crash, stop and the *)
(* end of a turn clear t.pendingPerms only together with the wait.         *)
THEOREM WaitsAreAnswerableHolds == SpacedSpec => []WaitsAreAnswerable
<1>1. SInv => WaitsAreAnswerable
  BY DEF SInv
<1>2. QED
  BY <1>1, TurnsTypeInit, TurnsTypeStep, SpacedInit, SpacedStep, SpacedIsNext, PTL DEF SpacedSpec

(* No turn writes into a deleted session: session/delete is refused while  *)
(* a turn is launched, and none is launched afterwards.                    *)
THEOREM DeletedStaysEmptyHolds == SpacedSpec => []DeletedStaysEmpty
<1>1. SInv => DeletedStaysEmpty
  BY DEF SInv
<1>2. QED
  BY <1>1, TurnsTypeInit, TurnsTypeStep, SpacedInit, SpacedStep, SpacedIsNext, PTL DEF SpacedSpec

-----------------------------------------------------------------------------
(* Calls and results in storage order, when requests are spaced. *)

(* A turn at a tool call. *)
ToolPcs == {"tool", "perm", "exec"}

(* What follows a response with calls is its results, as far as they are stored. *)
Paired(i) ==
  \A k \in 1..msgs[i].uses : i + k \in DOMAIN msgs =>
    msgs[i + k].role = "tool" /\ msgs[i + k].by = msgs[i].by

(* The results that are missing are those of the calls its turn has left. *)
Owed(i) ==
  i + msgs[i].uses > Len(msgs) =>
    /\ turn[msgs[i].by].pc \in ToolPcs
    /\ i + msgs[i].uses = Len(msgs) + Len(turn[msgs[i].by].calls)

RInv == \A i \in DOMAIN msgs : turn[msgs[i].by].pc # "dead" => Paired(i) /\ Owed(i)

(* A stored message names the request that wrote it. *)
LEMMA StoredBy ==
  ASSUME TypeOK, NEW i \in DOMAIN msgs
  PROVE  msgs[i].by \in Turns /\ msgs[i].uses \in Nat
<1>1. msgs \in Seq(Messages)
  BY DEF TypeOK
<1>2. msgs[i] \in Messages
  BY <1>1, LenProperties, ElementOfSeq
<1>3. QED
  BY <1>2 DEF Messages

(* A step that stores nothing keeps the pairing, when the turns at a call  *)
(* stay at it with the same calls left, or die.                            *)
LEMMA QuietStep ==
  ASSUME TypeOK, RInv, UNCHANGED msgs,
         \A y \in Turns : \/ turn'[y].pc = "dead"
                          \/ /\ turn[y].pc # "dead"
                             /\ turn[y].pc \in ToolPcs =>
                                  turn'[y].pc \in ToolPcs /\ turn'[y].calls = turn[y].calls
  PROVE  RInv'
<1> SUFFICES ASSUME NEW i \in DOMAIN msgs, turn'[msgs[i].by].pc # "dead"
             PROVE  Paired(i)' /\ Owed(i)'
  BY DEF RInv
<1>1. msgs[i].by \in Turns
  BY StoredBy
<1>2. Paired(i) /\ Owed(i)
  BY <1>1 DEF RInv
<1>3. Paired(i)'
  BY <1>2 DEF Paired
<1>4. Owed(i)'
  BY <1>1, <1>2 DEF Owed
<1>5. QED
  BY <1>3, <1>4

(* The turn at work stores one message: a result while it owes any, or     *)
(* anything else when it owes none, with the calls it then owes.           *)
LEMMA StoreStep ==
  ASSUME TypeOK, OneTurnAtATime, RInv, NEW x \in Turns, Active(x),
         NEW role, NEW n \in Nat, Append1(role, x, n),
         \A y \in Turns \ {x} : turn'[y] = turn[y],
         turn[x].pc \in ToolPcs =>
           /\ role = "tool" /\ n = 0
           /\ \/ Len(turn[x].calls) = 1
              \/ turn'[x].pc \in ToolPcs /\ Len(turn'[x].calls) = Len(turn[x].calls) - 1,
         n # 0 => turn'[x].pc \in ToolPcs /\ Len(turn'[x].calls) = n
  PROVE  RInv'
<1>1. PICK last \in Nat : last = Len(msgs)
  BY LenProperties DEF TypeOK
<1>2. /\ Len(msgs') = last + 1
      /\ DOMAIN msgs = 1..last /\ DOMAIN msgs' = 1..(last + 1)
      /\ \A i \in 1..last : msgs'[i] = msgs[i]
      /\ msgs'[last + 1] = Message(role, x, n)
  BY <1>1, AppendProperties DEF Append1, TypeOK
<1>3. \A i \in 1..last : msgs[i].by \in Turns /\ msgs[i].uses \in Nat
  BY <1>2, StoredBy
<1>4. msgs'[last + 1].by = x /\ msgs'[last + 1].uses = n /\ msgs'[last + 1].role = role
  BY <1>2 DEF Message
<1> SUFFICES ASSUME NEW i \in 1..(last + 1), turn'[msgs'[i].by].pc # "dead"
             PROVE  Paired(i)' /\ Owed(i)'
  BY <1>2 DEF RInv
<1>5. CASE i = last + 1
  <2>1. Paired(i)'
    BY <1>2, <1>4, <1>5 DEF Paired
  <2>2. Owed(i)'
    <3>1. CASE n = 0
      BY <1>2, <1>4, <1>5, <3>1 DEF Owed
    <3>2. CASE n # 0
      BY <1>2, <1>4, <1>5, <3>2 DEF Owed
    <3>3. QED
      BY <3>1, <3>2
  <2>3. QED
    BY <2>1, <2>2
<1>6. CASE i \in 1..last
  <2>0. msgs'[i] = msgs[i] /\ msgs[i].by \in Turns /\ msgs[i].uses \in Nat
    BY <1>2, <1>3, <1>6
  <2>1. turn[msgs[i].by].pc # "dead"
    BY <2>0 DEF Active, InProgress
  <2>2. Paired(i) /\ Owed(i)
    BY <1>2, <1>6, <2>1 DEF RInv
  <2>3. CASE i + msgs[i].uses <= last
    <3>1. Paired(i)'
      BY <1>2, <1>6, <2>0, <2>2, <2>3 DEF Paired
    <3>2. Owed(i)'
      BY <1>2, <2>0, <2>3 DEF Owed
    <3>3. QED
      BY <3>1, <3>2
  <2>4. CASE i + msgs[i].uses > last
    <3>1. /\ turn[msgs[i].by].pc \in ToolPcs
          /\ i + msgs[i].uses = last + Len(turn[msgs[i].by].calls)
      BY <1>1, <2>2, <2>4 DEF Owed
    <3>2. msgs[i].by = x
      BY <2>0, <3>1 DEF OneTurnAtATime, Active, InProgress, ToolPcs
    <3>3. role = "tool" /\ n = 0
      BY <3>1, <3>2
    <3>4. Paired(i)'
      <4>1. SUFFICES ASSUME NEW k \in 1..msgs[i].uses, i + k \in 1..(last + 1)
                     PROVE  msgs'[i + k].role = "tool" /\ msgs'[i + k].by = x
        BY <1>2, <2>0, <3>2 DEF Paired
      <4>2. CASE i + k \in 1..last
        BY <1>2, <2>2, <3>2, <4>1, <4>2 DEF Paired
      <4>3. CASE i + k = last + 1
        BY <1>4, <3>3, <4>3
      <4>4. QED
        BY <1>6, <2>0, <4>1, <4>2, <4>3
    <3>5. Owed(i)'
      <4>1. CASE Len(turn[x].calls) = 1
        BY <1>2, <2>0, <3>1, <3>2, <4>1 DEF Owed
      <4>2. CASE turn'[x].pc \in ToolPcs /\ Len(turn'[x].calls) = Len(turn[x].calls) - 1
        <5>1. Len(turn[x].calls) \in Nat
          BY LenProperties DEF TypeOK
        <5>2. i + msgs[i].uses = (last + 1) + Len(turn'[x].calls)
          <6>1. PICK left \in Nat : left = Len(turn[x].calls)
            BY <5>1
          <6>2. i + msgs[i].uses = last + left /\ Len(turn'[x].calls) = left - 1
            BY <3>1, <3>2, <4>2, <6>1
          <6>3. last + left = (last + 1) + (left - 1)
            OBVIOUS
          <6>4. QED
            BY <6>2, <6>3
        <5>3. QED
          BY <1>2, <2>0, <3>2, <4>2, <5>2 DEF Owed
      <4>3. QED
        BY <3>1, <3>2, <4>1, <4>2
    <3>6. QED
      BY <3>4, <3>5
  <2>5. QED
    BY <1>6, <2>0, <2>3, <2>4
<1>7. QED
  BY <1>5, <1>6

(* A result leaves the turn one call less. *)
LEMMA ResultPairs ==
  ASSUME TInv, SInv, RInv, NEW x \in Turns, turn[x].pc \in ToolPcs,
         NEW pending, NEW aborted, StoreResult(x, pending, aborted)
  PROVE  RInv'
<1>0. /\ turn \in [Turns -> TurnRecord] /\ TypeOK /\ OneTurnAtATime /\ Active(x)
      /\ turn[x].calls \in Seq(Tools) /\ turn[x].calls # <<>>
  BY DEF TInv, TypeOK, TurnRecord, SInv, CallsLeft, Active, InProgress, ToolPcs
<1>1. Append1("tool", x, 0)
  BY DEF StoreResult
<1>2. \A y \in Turns \ {x} : turn'[y] = turn[y]
  BY <1>0 DEF StoreResult, Ended
<1>3. \/ Len(turn[x].calls) = 1
      \/ turn'[x].pc \in ToolPcs /\ Len(turn'[x].calls) = Len(turn[x].calls) - 1
  <2>1. SUFFICES ASSUME Len(turn[x].calls) # 1
                 PROVE  turn'[x].pc \in ToolPcs /\ Len(turn'[x].calls) = Len(turn[x].calls) - 1
    OBVIOUS
  <2>2. turn' = [turn EXCEPT ![x].calls = Tail(@), ![x].aborted = aborted, ![x].pc = "tool"]
    BY <2>1 DEF StoreResult
  <2>3. turn'[x].pc = "tool" /\ turn'[x].calls = Tail(turn[x].calls)
    BY <1>0, <2>2 DEF TurnRecord
  <2>4. Len(Tail(turn[x].calls)) = Len(turn[x].calls) - 1
    BY <1>0, HeadTailProperties
  <2>5. QED
    BY <2>3, <2>4 DEF ToolPcs
<1>4. QED
  BY <1>0, <1>1, <1>2, <1>3, StoreStep

(* Every spaced step keeps the pairing. *)
LEMMA PairedStep == TInv /\ SInv /\ RInv /\ [SpacedNext]_vars => RInv'
<1> SUFFICES ASSUME TInv, SInv, RInv, [SpacedNext]_vars PROVE RInv'
  OBVIOUS
<1>0. TypeOK /\ OneTurnAtATime /\ turn \in [Turns -> TurnRecord]
  BY DEF TInv, TypeOK, TurnRecord, SInv
<1>1. ASSUME NEW x \in Turns, Engine(x) PROVE RInv'
  <2>1. CASE Start(x)
    <3>1. /\ UNCHANGED msgs /\ turn[x].pc = "ready" /\ turn'[x].pc = "compact"
          /\ \A y \in Turns \ {x} : turn'[y] = turn[y]
      BY <1>0, <2>1 DEF Start, TurnRecord
    <3>2. QED
      BY <1>0, <3>1, QuietStep DEF ToolPcs
  <2>2. CASE PersistUser(x)
    <3>1. Active(x) /\ turn[x].pc \notin ToolPcs /\ Append1("user", x, 0)
      BY <2>2 DEF PersistUser, Active, InProgress, ToolPcs
    <3>2. \A y \in Turns \ {x} : turn'[y] = turn[y]
      BY <1>0, <2>2 DEF PersistUser
    <3>3. QED
      BY <1>0, <3>1, <3>2, StoreStep
  <2>3. CASE \E calls \in Replies : ModelAnswers(x, calls)
    <3>0. PICK calls \in Replies : ModelAnswers(x, calls)
      BY <2>3
    <3>1. Active(x) /\ turn[x].pc \notin ToolPcs /\ Append1("assistant", x, Len(calls))
      BY <3>0 DEF ModelAnswers, Active, InProgress, ToolPcs
    <3>2. Len(calls) \in Nat /\ (Len(calls) # 0 => calls # <<>>)
      BY ToolsAssumption, LenProperties, EmptySeq
    <3>3. \A y \in Turns \ {x} : turn'[y] = turn[y]
      BY <1>0, <3>0 DEF ModelAnswers, Ended
    <3>4. Len(calls) # 0 => turn'[x].pc \in ToolPcs /\ Len(turn'[x].calls) = Len(calls)
      <4>1. SUFFICES ASSUME Len(calls) # 0
                     PROVE  turn'[x].pc \in ToolPcs /\ Len(turn'[x].calls) = Len(calls)
        OBVIOUS
      <4>2. turn' = [turn EXCEPT ![x].pc = "tool", ![x].calls = calls, ![x].iter = @ + 1]
        BY <3>0, <3>2, <4>1 DEF ModelAnswers
      <4>3. turn'[x].pc = "tool" /\ turn'[x].calls = calls
        BY <1>0, <4>2 DEF TurnRecord
      <4>4. QED
        BY <4>3 DEF ToolPcs
    <3>5. QED
      BY <1>0, <3>1, <3>2, <3>3, <3>4, StoreStep
  <2>4. CASE ModelFails(x)
    <3>1. /\ Active(x) /\ turn[x].pc \notin ToolPcs /\ turn[x].pc # "dead"
          /\ UNCHANGED msgs \/ Append1("assistant", x, 0)
      BY <2>4 DEF ModelFails, Active, InProgress, ToolPcs
    <3>2. \A y \in Turns \ {x} : turn'[y] = turn[y]
      BY <1>0, <2>4 DEF ModelFails, Ended
    <3>3. CASE UNCHANGED msgs
      BY <1>0, <3>1, <3>2, <3>3, QuietStep
    <3>4. CASE Append1("assistant", x, 0)
      BY <1>0, <3>1, <3>2, <3>4, StoreStep
    <3>5. QED
      BY <3>1, <3>3, <3>4
  <2>5. CASE RefuseTool(x) \/ ToolReturns(x)
    <3>1. turn[x].pc \in ToolPcs /\ StoreResult(x, perms, turn[x].aborted)
      BY <2>5 DEF RefuseTool, ToolReturns, ToolPcs
    <3>2. QED
      BY <3>1, ResultPairs
  <2>6. CASE AskPermission(x) \/ RunTool(x)
    <3>1. /\ UNCHANGED msgs
          /\ turn[x].pc # "dead" /\ turn'[x].pc \in ToolPcs /\ turn'[x].calls = turn[x].calls
          /\ \A y \in Turns \ {x} : turn'[y] = turn[y]
      BY <1>0, <2>6 DEF AskPermission, RunTool, TurnRecord, ToolPcs
    <3>2. QED
      BY <1>0, <3>1, QuietStep
  <2>7. QED
    BY <1>1, <2>1, <2>2, <2>3, <2>4, <2>5, <2>6 DEF Engine
<1>2. ASSUME NEW x \in Turns, User(x) PROVE RInv'
  <2>1. CASE Send(x)
    <3>1. UNCHANGED msgs /\ turn[x].pc = "new" /\ \A y \in Turns \ {x} : turn'[y] = turn[y]
      BY <1>0, <2>1 DEF Send
    <3>2. QED
      BY <1>0, <3>1, QuietStep DEF ToolPcs
  <2>2. CASE \E always \in BOOLEAN : ApproveAllow(x, always)
    <3>1. /\ UNCHANGED msgs /\ turn[x].pc = "perm"
          /\ turn'[x].pc = "exec" /\ turn'[x].calls = turn[x].calls
          /\ \A y \in Turns \ {x} : turn'[y] = turn[y]
      BY <1>0, <2>2 DEF ApproveAllow, TInv, PermsWait, TurnRecord
    <3>2. QED
      BY <1>0, <3>1, QuietStep DEF ToolPcs
  <2>3. CASE ApproveDeny(x)
    <3>1. turn[x].pc \in ToolPcs /\ StoreResult(x, perms \ {x}, turn[x].aborted)
      BY <2>3 DEF ApproveDeny, TInv, PermsWait, ToolPcs
    <3>2. QED
      BY <3>1, ResultPairs
  <2>4. QED
    BY <1>2, <2>1, <2>2, <2>3 DEF User
<1>3. ASSUME Stop PROVE RInv'
  <2>1. abort \in Turns /\ Active(abort)
    BY <1>0, <1>3 DEF Stop, TypeOK, OneTurnAtATime
  <2>2. CASE turn[abort].pc = "perm"
    <3>1. turn[abort].pc \in ToolPcs /\ StoreResult(abort, perms \ {abort}, TRUE)
      BY <1>3, <2>2 DEF Stop, ToolPcs
    <3>2. QED
      BY <2>1, <3>1, ResultPairs
  <2>3. CASE turn[abort].pc # "perm"
    <3>1. UNCHANGED msgs /\ turn' = [turn EXCEPT ![abort].aborted = TRUE]
      BY <1>3, <2>3 DEF Stop
    <3>2. \A y \in Turns : turn'[y].pc = turn[y].pc /\ turn'[y].calls = turn[y].calls
      BY <1>0, <2>1, <3>1 DEF TurnRecord
    <3>3. QED
      BY <1>0, <3>1, <3>2, QuietStep
  <2>4. QED
    BY <2>2, <2>3
<1>4. ASSUME Delete PROVE RInv'
  BY <1>4, EmptySeq DEF Delete, RInv
<1>5. ASSUME Crash PROVE RInv'
  <2>1. /\ UNCHANGED msgs
        /\ \A y \in Turns : IF Active(y) \/ turn[y].pc = "ready"
                              THEN turn'[y].pc = "dead" ELSE turn'[y] = turn[y]
    BY <1>0, <1>5 DEF Crash, TurnRecord
  <2>2. QED
    BY <1>0, <2>1, QuietStep DEF Active, InProgress, ToolPcs
<1>6. CASE UNCHANGED vars
  <2>1. UNCHANGED <<msgs, turn>>
    BY <1>6 DEF vars
  <2>2. QED
    BY <1>0, <2>1, QuietStep
<1>7. QED
  BY <1>1, <1>2, <1>3, <1>4, <1>5, <1>6 DEF SpacedNext, Next

(* The pairing says what the providers demand of the stored history. *)
LEMMA PairedFollow == TypeOK /\ RInv => ResultsFollowCalls
<1> SUFFICES ASSUME TypeOK, RInv, NEW i \in DOMAIN msgs, NEW k \in 1..msgs[i].uses,
                    turn[msgs[i].by].pc # "dead"
             PROVE  IF i + k \in DOMAIN msgs
                      THEN msgs[i + k].role = "tool" /\ msgs[i + k].by = msgs[i].by
                      ELSE Active(msgs[i].by)
  BY DEF ResultsFollowCalls
<1>1. Paired(i) /\ Owed(i)
  BY DEF RInv
<1>2. CASE i + k \in DOMAIN msgs
  BY <1>1, <1>2 DEF Paired
<1>3. CASE i + k \notin DOMAIN msgs
  <2>1. PICK last \in Nat : last = Len(msgs) /\ DOMAIN msgs = 1..last
    BY LenProperties DEF TypeOK
  <2>2. msgs[i].uses \in Nat
    BY StoredBy
  <2>3. i + msgs[i].uses > last
    BY <1>3, <2>1, <2>2
  <2>4. turn[msgs[i].by].pc \in ToolPcs
    BY <1>1, <2>1, <2>3 DEF Owed
  <2>5. QED
    BY <1>3, <2>4 DEF Active, InProgress, ToolPcs
<1>4. QED
  BY <1>2, <1>3

(* When requests are spaced, a stored response with tool calls is followed *)
(* by exactly its results before any other message, whatever mixture of    *)
(* refusals, denials, stops and failures ends its calls; only the turn at  *)
(* work and a turn the engine died in leave calls unanswered.              *)
THEOREM ResultsFollowCallsHolds == SpacedSpec => []ResultsFollowCalls
<1>1. Init => RInv
  BY EmptySeq DEF Init, RInv
<1>2. TInv /\ RInv => ResultsFollowCalls
  BY PairedFollow DEF TInv
<1>3. QED
  BY <1>1, <1>2, PairedStep, TurnsTypeInit, TurnsTypeStep, SpacedInit, SpacedStep, SpacedIsNext, PTL
     DEF SpacedSpec
=============================================================================
