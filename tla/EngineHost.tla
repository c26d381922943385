----------------------------- MODULE EngineHost -----------------------------
(***************************************************************************)
(* The desktop app's host layer: AgentProcessManager of packages/app/host/ *)
(* agent-process-manager.js, which spawns the engine, restarts it when it  *)
(* exits and forwards calls over the JSON-RPC client of packages/cli/src/  *)
(* rpc/jsonrpc.js.                                                         *)
(*                                                                         *)
(* A step is one event-loop callback.  Engines are process slots: a slot   *)
(* is used again once its process is gone and nobody waits on it.  Node    *)
(* may emit `exit` before the child's stdout has drained, so the end of a  *)
(* process is three events: it dies, `exit` is emitted, stdout closes.     *)
(***************************************************************************)
EXTENDS Integers, FiniteSets

CONSTANTS
  Engines,      \* process slots
  Calls,        \* requests of the renderer
  MaxAttempts,  \* restartAttempts limit (5)
  MaxCrashes,   \* bound on crashes of the engine's own making and failed starts
  MaxSwitches,  \* bound on workspace changes
  MaxTimers,    \* bound on armed SIGKILL timers and on armed restart timers
  None          \* null

ASSUME HostAssumption ==
  /\ None \notin Engines
  /\ {MaxAttempts, MaxCrashes, MaxSwitches, MaxTimers} \subseteq Nat

VARIABLES
  cur,       \* this.proc
  rpc,       \* the engine this.rpc is connected to
  ready, stopping, attempts,
  proc,      \* per slot: process state
  listening, \* the slots whose `exit` listener is attached
  init,      \* per slot: its `initialize` request
  killTimers, restartTimers,   \* how many are armed
  calls,     \* per request: state, and the engine it was sent to
  crashes, switches

vars == <<cur, rpc, ready, stopping, attempts, proc, listening, init, killTimers,
          restartTimers, calls, crashes, switches>>
manager == <<cur, rpc, ready, stopping, attempts>>
timers == <<killTimers, restartTimers>>
bounds == <<crashes, switches>>

Running == {"up", "term"}   \* term: SIGTERM was sent, the process has not died yet

-----------------------------------------------------------------------------
(* killChild: the listener goes, SIGTERM is sent, this.proc is nulled and  *)
(* the SIGKILL timer is armed, also when the process had already died.     *)
Unlistened == listening \ {cur}
Terminated ==
  IF cur # None /\ proc[cur] = "up" THEN [proc EXCEPT ![cur] = "term"] ELSE proc
ArmsKill == IF cur = None THEN killTimers ELSE killTimers + 1

(* The slot a new process gets. *)
Free == {n \in Engines : proc[n] = "gone" /\ \A c \in Calls : calls[c].via = n => calls[c].st # "pending"}
Slot(n) == Free # {} /\ n = CHOOSE m \in Free : TRUE

(* spawnEngine up to the await of `initialize`. *)
SpawnOver(n, killed) ==
  /\ Slot(n)
  /\ ArmsKill <= MaxTimers
  /\ proc' = [killed EXCEPT ![n] = "up"]
  /\ listening' = Unlistened \cup {n}
  /\ init' = [init EXCEPT ![n] = "sent"]
  /\ cur' = n /\ rpc' = n /\ ready' = FALSE
  /\ killTimers' = ArmsKill

SpawnBeside(n) == SpawnOver(n, proc)   \* faulty: the old engine is not told to stop
SpawnEngine(n) == SpawnOver(n, Terminated)

(* start: main.js boots the engine once. *)
Boot(n) ==
  /\ cur = None /\ rpc = None /\ ~stopping
  /\ SpawnEngine(n)
  /\ UNCHANGED <<stopping, attempts, restartTimers, calls, bounds>>

(* The answer to `initialize`; spawnEngine goes on, even if a later        *)
(* spawnEngine has replaced this engine meanwhile.                         *)
InitAnswered(n) ==
  /\ init[n] = "sent"
  /\ proc[n] # "gone"
  /\ init' = [init EXCEPT ![n] = "done"]
  /\ ready' = TRUE
  /\ attempts' = 0
  /\ UNCHANGED <<cur, rpc, stopping, proc, listening, timers, calls, bounds>>

(* 15 s without an answer: spawnEngine rejects, the engine is left alone. *)
InitTimeout(n) ==
  /\ init[n] = "sent"
  /\ init' = [init EXCEPT ![n] = "failed"]
  /\ UNCHANGED <<manager, proc, listening, timers, calls, bounds>>

(* The process could not be started at all: `error` is emitted instead of  *)
(* `exit`, so nothing restarts it, and `initialize` is never answered.     *)
(* Counted as a crash.                                                     *)
SpawnFails(n) ==
  /\ proc[n] = "up" /\ init[n] = "sent"
  /\ crashes < MaxCrashes
  /\ crashes' = crashes + 1
  /\ proc' = [proc EXCEPT ![n] = "exited"]
  /\ init' = [init EXCEPT ![n] = "failed"]
  /\ ready' = FALSE
  /\ UNCHANGED <<cur, rpc, stopping, attempts, listening, timers, calls, switches>>

-----------------------------------------------------------------------------
(* The end of a process. *)

(* A terminated engine dies; another one may crash. *)
Dies(n) ==
  /\ \/ proc[n] = "term" /\ UNCHANGED crashes
     \/ proc[n] = "up" /\ crashes < MaxCrashes /\ crashes' = crashes + 1
  /\ proc' = [proc EXCEPT ![n] = "dead"]
  /\ UNCHANGED <<manager, listening, init, timers, calls, switches>>

(* The exit event, and the manager's listener if it is still attached. *)
RestartsForever(n) == n \in listening /\ ~stopping   \* faulty: no limit
RestartsShort(n) ==   \* faulty: off by one
  n \in listening /\ ~stopping /\ attempts + 1 < MaxAttempts
Restarts(n) == n \in listening /\ ~stopping /\ attempts < MaxAttempts

ExitEvent(n) ==
  /\ proc[n] = "dead"
  /\ proc' = [proc EXCEPT ![n] = "exited"]
  /\ listening' = listening \ {n}
  /\ ready' = (ready /\ n \notin listening)
  /\ IF Restarts(n)
       THEN /\ restartTimers < MaxTimers
            /\ restartTimers' = restartTimers + 1
            /\ attempts' = attempts + 1
       ELSE UNCHANGED <<restartTimers, attempts>>
  /\ UNCHANGED <<cur, rpc, stopping, init, killTimers, calls, bounds>>

(* stdout closes: the RPC client rejects everything still pending on it. *)
StdoutCloses(n) ==
  /\ proc[n] = "exited"
  /\ proc' = [proc EXCEPT ![n] = "gone"]
  /\ init' = [init EXCEPT ![n] = IF @ = "sent" THEN "failed" ELSE @]
  /\ calls' = [c \in Calls |-> IF calls[c].st = "pending" /\ calls[c].via = n
                                 THEN [calls[c] EXCEPT !.st = "error"] ELSE calls[c]]
  /\ UNCHANGED <<manager, listening, timers, bounds>>

-----------------------------------------------------------------------------
(* Timers *)

RestartTimer(n) ==
  /\ restartTimers > 0
  /\ restartTimers' = restartTimers - 1
  /\ IF stopping THEN UNCHANGED <<cur, rpc, ready, proc, listening, init, killTimers>>
     ELSE SpawnEngine(n)
  /\ UNCHANGED <<stopping, attempts, calls, bounds>>

(* 1.5 s after killChild: SIGKILL for whatever this.proc is by then. *)
KillTimer ==
  /\ killTimers > 0
  /\ killTimers' = killTimers - 1
  /\ proc' = IF cur # None /\ proc[cur] \in Running THEN [proc EXCEPT ![cur] = "dead"] ELSE proc
  /\ UNCHANGED <<manager, listening, init, restartTimers, calls, bounds>>

-----------------------------------------------------------------------------
(* The renderer and the application *)

(* workspace/pick with a different directory. *)
SetWorkspace(n) ==
  /\ rpc # None /\ ~stopping
  /\ switches < MaxSwitches
  /\ switches' = switches + 1
  /\ SpawnEngine(n)
  /\ UNCHANGED <<stopping, attempts, restartTimers, calls, crashes>>

(* before-quit *)
Shutdown ==
  /\ ~stopping
  /\ ArmsKill <= MaxTimers
  /\ stopping' = TRUE
  /\ proc' = Terminated
  /\ listening' = Unlistened
  /\ killTimers' = ArmsKill
  /\ cur' = None
  /\ UNCHANGED <<rpc, ready, attempts, init, restartTimers, calls, bounds>>

RpcCall(c) ==
  /\ calls[c].st = "new"
  /\ calls' = [calls EXCEPT ![c] =
                 IF rpc # None /\ ready THEN [st |-> "pending", via |-> rpc]
                 ELSE [st |-> "error", via |-> None]]
  /\ UNCHANGED <<manager, proc, listening, init, timers, bounds>>

(* The response, from an engine whose stdout is open. *)
CallAnswered(c) ==
  /\ calls[c].st = "pending"
  /\ proc[calls[c].via] # "gone"
  /\ calls' = [calls EXCEPT ![c].st = "ok"]
  /\ UNCHANGED <<manager, proc, listening, init, timers, bounds>>

CallTimeoutOnlyOpen(c) ==   \* faulty: no timer once the connection is closed
  /\ calls[c].st = "pending"
  /\ proc[calls[c].via] # "gone"
  /\ calls' = [calls EXCEPT ![c].st = "error"]
  /\ UNCHANGED <<manager, proc, listening, init, timers, bounds>>

CallTimeout(c) ==
  /\ calls[c].st = "pending"
  /\ calls' = [calls EXCEPT ![c].st = "error"]
  /\ UNCHANGED <<manager, proc, listening, init, timers, bounds>>

-----------------------------------------------------------------------------
Init ==
  /\ cur = None /\ rpc = None
  /\ ready = FALSE /\ stopping = FALSE /\ attempts = 0
  /\ proc = [n \in Engines |-> "gone"]
  /\ listening = {}
  /\ init = [n \in Engines |-> "none"]
  /\ killTimers = 0 /\ restartTimers = 0
  /\ calls = [c \in Calls |-> [st |-> "new", via |-> None]]
  /\ crashes = 0 /\ switches = 0

EngineStep(n) ==
  \/ Boot(n) \/ InitAnswered(n) \/ InitTimeout(n) \/ SpawnFails(n)
  \/ Dies(n) \/ ExitEvent(n) \/ StdoutCloses(n)
  \/ RestartTimer(n) \/ SetWorkspace(n)

CallStep(c) == RpcCall(c) \/ CallAnswered(c) \/ CallTimeout(c)

Next ==
  \/ \E n \in Engines : EngineStep(n)
  \/ \E c \in Calls : CallStep(c)
  \/ KillTimer \/ Shutdown

(* Timers fire, the events of a dead process are delivered, a process that *)
(* got SIGTERM dies, and an engine answers `initialize` or is given up.    *)
Fairness ==
  /\ \A n \in Engines :
       /\ WF_vars(InitAnswered(n) \/ InitTimeout(n))
       /\ WF_vars(proc[n] = "term" /\ Dies(n))
       /\ WF_vars(ExitEvent(n)) /\ WF_vars(StdoutCloses(n))
  /\ WF_vars(\E n \in Engines : RestartTimer(n))
  /\ WF_vars(KillTimer)
  /\ \A c \in Calls : WF_vars(CallTimeout(c))

Spec == Init /\ [][Next]_vars
FairSpec == Spec /\ Fairness

-----------------------------------------------------------------------------
(* Properties *)

Slots == Engines \cup {None}

TypeOK ==
  /\ cur \in Slots /\ rpc \in Slots
  /\ ready \in BOOLEAN /\ stopping \in BOOLEAN /\ attempts \in 0..MaxAttempts
  /\ proc \in [Engines -> {"gone", "up", "term", "dead", "exited"}]
  /\ listening \subseteq Engines
  /\ init \in [Engines -> {"none", "sent", "done", "failed"}]
  /\ killTimers \in 0..MaxTimers /\ restartTimers \in 0..MaxTimers
  /\ calls \in [Calls -> [st : {"new", "pending", "ok", "error"}, via : Slots]]
  /\ crashes \in 0..MaxCrashes /\ switches \in 0..MaxSwitches

\* "one process per workspace": whatever crashes, timers and workspace
\* changes overlap, every engine but the current one has been told to stop.
NoStrayEngine == \A n \in Engines : proc[n] = "up" => cur = n

\* An engine that exits is replaced, as long as attempts are left and the
\* application is not shutting down.
CrashIsRepaired ==
  \A n \in Engines :
    (/\ proc[n] = "dead" /\ cur = n /\ n \in listening
     /\ ~stopping /\ attempts < MaxAttempts)
    ~> (stopping \/ \E m \in Engines : m = cur /\ proc[m] = "up")

\* Every call of the renderer is settled: by an answer, by the connection
\* closing, or by its timer when it was sent to an engine already gone.
CallsSettle == \A c \in Calls : calls[c].st = "pending" ~> calls[c].st # "pending"
=============================================================================
