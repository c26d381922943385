----------------------------- MODULE McpServers -----------------------------
(***************************************************************************)
(* The MCP manager and its client, for one configured server of the stdio  *)
(* kind: packages/cli/src/mcp/manager.js keeps the entry of the server,    *)
(* packages/cli/src/mcp/client.js the connection object, its process and   *)
(* its JSON-RPC channel (rpc/jsonrpc.js).                                  *)
(*                                                                         *)
(* Tool calls of several turns share the connection.  Each of them restarts*)
(* it once when its request fails, processes die, requests time out, and   *)
(* the user switches the server off and on or changes its configuration.   *)
(*                                                                         *)
(* One event of the event loop is one action.  What a settled promise      *)
(* makes run (Continuation) runs before the next event (Event); the order  *)
(* of several continuations is left open.                                  *)
(***************************************************************************)
EXTENDS Integers, FiniteSets

CONSTANTS Conns,        \* McpConnection objects
          Procs,        \* server processes; one that is gone may be used again
          Calls,        \* tool calls
          None,
          MaxCrashes,   \* bound on processes that die by themselves
          MaxChanges    \* bound on changes of the configuration

ASSUME McpAssumption ==
  /\ None \notin Conns \cup Procs
  /\ MaxCrashes \in Nat /\ MaxChanges \in Nat

VARIABLES
  entry,    \* the connection of the manager's entry; None when disabled
  conn,     \* conn[k]: the fields of the connection
  proc,     \* proc[p]: the process, its exit listener and its channel
  call,     \* call[x]: how far the call is
  timers,   \* timers[k]: SIGKILL timers that close() has armed
  crashes, changes

vars == <<entry, conn, proc, call, timers, crashes, changes>>

Conn == [status : {"stopped", "starting", "running", "error", "crashed"},
         proc : Procs \cup {None},
         rpc : Procs \cup {None},      \* the channel of that process
         start : {"no", "spawned", "init", "list", "failed"},   \* startPromise
         asked : Procs \cup {None}]    \* the channel its request went to
NewConn == [status |-> "stopped", proc |-> None, rpc |-> None, start |-> "no", asked |-> None]

Proc == [state : {"dead", "alive", "termed"},   \* termed: told to terminate
         owner : Conns \cup {None},
         listens : BOOLEAN,            \* its exit event will be heard
         open : BOOLEAN]               \* its channel is open
NoProc == [state |-> "dead", owner |-> None, listens |-> FALSE, open |-> FALSE]
\* Nothing depends on a process whose exit is not heard and whose channel is closed.
Tidy(ps) == [p \in DOMAIN ps |->
  IF ps[p].state # "alive" /\ ~ps[p].listens /\ ~ps[p].open THEN NoProc ELSE ps[p]]

NewProc(k) == [NoProc EXCEPT !.state = "alive", !.owner = k, !.listens = TRUE, !.open = TRUE]

Call == [pc : {"no", "starting", "asked", "rejected", "ok", "failed"},
         conn : Conns \cup {None}, rpc : Procs \cup {None}, attempt : 0..2,
         direct : BOOLEAN]             \* by callDirect, which does not retry
NewCall == [pc |-> "no", conn |-> None, rpc |-> None, attempt |-> 0, direct |-> FALSE]

Settled(x) == call[x].pc \in {"ok", "failed"}

-----------------------------------------------------------------------------
(* The methods of the connection                                           *)

\* The channel r is closed: what is pending on it is rejected.
Hangs(r) == r # None /\ proc[r].open

StartHungUp(c, r) ==
  IF Hangs(r) /\ c.start \in {"init", "list"} /\ c.asked = r THEN [c EXCEPT !.start = "failed"]
                                                            ELSE c

CallsHungUp(r) ==
  [x \in Calls |->
     IF Hangs(r) /\ call[x].pc = "asked" /\ call[x].rpc = r
     THEN [call[x] EXCEPT !.pc = "rejected", !.rpc = None] ELSE call[x]]

\* close(): the connection and the processes it leaves.
Closed(k) ==
  [conn EXCEPT ![k] =
     [StartHungUp(@, @.rpc) EXCEPT !.status = "stopped", !.proc = None, !.rpc = None]]

ProcsOfClosedAlive(k) ==   \* faulty: the process is not told to terminate
  Tidy([p \in Procs |->
    [proc[p] EXCEPT !.listens = @ /\ p # conn[k].proc, !.open = @ /\ p # conn[k].rpc]])

ProcsOfClosed(k) ==
  Tidy([p \in Procs |->
    [proc[p] EXCEPT !.state = IF @ = "alive" /\ p = conn[k].proc THEN "termed" ELSE @,
                    !.listens = @ /\ p # conn[k].proc,
                    !.open = @ /\ p # conn[k].rpc]])

TimersOfClosed(k) == IF conn[k].proc = None THEN timers ELSE [timers EXCEPT ![k] = @ + 1]

\* start() of connection k, up to the await of _startStdio, when the connections
\* are cs and the processes ps: nothing if it runs or is being started already.
Free(k, cs, ps) == {p \in Procs :
  /\ ps[p] = NoProc
  /\ \A j \in Conns : p # cs[j].asked /\ (j # k => p \notin {cs[j].proc, cs[j].rpc})
  /\ \A x \in Calls : call[x].rpc # p}

Start(k, cs, ps) ==
  IF cs[k].status = "running" \/ cs[k].start # "no"
  THEN conn' = cs /\ proc' = ps
  ELSE LET p == CHOOSE p \in Free(k, cs, ps) : TRUE
       IN  /\ Free(k, cs, ps) # {}      \* bound: enough of Procs are left
           /\ conn' = [cs EXCEPT ![k] = [status |-> "starting", proc |-> p, rpc |-> p,
                                         start |-> "spawned", asked |-> None]]
           /\ proc' = [ps EXCEPT ![p] = NewProc(k)]

-----------------------------------------------------------------------------
(* Continuations                                                           *)

\* _start goes on behind _startStdio
SendInitialize(k) ==
  /\ conn[k].start = "spawned"
  /\ conn' = [conn EXCEPT ![k].start = IF conn[k].rpc = None THEN "failed" ELSE "init",
                          ![k].asked = conn[k].rpc]
  /\ UNCHANGED <<entry, proc, call, timers, crashes, changes>>

StartFailsUnheard(k) ==   \* faulty: those who wait for the start are not told
  /\ conn[k].start = "failed"
  /\ conn' = [conn EXCEPT ![k].start = "no", ![k].asked = None, ![k].status = "error"]
  /\ UNCHANGED <<entry, proc, call, timers, crashes, changes>>

\* The catch of start(): everybody who waits for it is rejected.
StartFails(k) ==
  /\ conn[k].start = "failed"
  /\ conn' = [conn EXCEPT ![k].start = "no", ![k].asked = None, ![k].status = "error"]
  /\ call' = [x \in Calls |->
       IF call[x].pc = "starting" /\ call[x].conn = k THEN [call[x] EXCEPT !.pc = "rejected"]
                                                      ELSE call[x]]
  /\ UNCHANGED <<entry, proc, timers, crashes, changes>>

\* The catch of call(): one retry after a restart.
Retry(x) ==
  LET k == call[x].conn
  IN  /\ call[x].pc = "rejected" /\ call[x].attempt = 1 /\ ~call[x].direct
      /\ Start(k, Closed(k), ProcsOfClosed(k))
      /\ call' = [CallsHungUp(conn[k].rpc) EXCEPT ![x].pc = "starting", ![x].attempt = 2]
      /\ timers' = TimersOfClosed(k)
      /\ UNCHANGED <<entry, crashes, changes>>

GiveUp(x) ==
  /\ call[x].pc = "rejected" /\ (call[x].attempt = 2 \/ call[x].direct)
  /\ call' = [call EXCEPT ![x].pc = "failed"]
  /\ UNCHANGED <<entry, conn, proc, timers, crashes, changes>>

Continuation ==
  \/ \E k \in Conns : SendInitialize(k) \/ StartFails(k)
  \/ \E x \in Calls : Retry(x) \/ GiveUp(x)

NothingQueued ==
  /\ \A k \in Conns : conn[k].start \notin {"spawned", "failed"}
  /\ \A x \in Calls : call[x].pc # "rejected"

-----------------------------------------------------------------------------
(* Events: callers of the manager                                          *)

\* call() and callDirect(): without a channel the request throws, on a closed
\* one it waits in vain.
Invoke(x, direct) ==
  /\ NothingQueued /\ call[x].pc = "no" /\ entry # None
  /\ Start(entry, conn, proc)
  /\ call' = [call EXCEPT ![x] =
       [pc |-> IF conn[entry].status # "running" THEN "starting"
               ELSE IF conn[entry].rpc = None THEN "rejected" ELSE "asked",
        conn |-> entry, attempt |-> 1, direct |-> direct,
        rpc |-> IF conn[entry].status = "running" THEN conn[entry].rpc ELSE None]]
  /\ UNCHANGED <<entry, timers, crashes, changes>>

\* They fail when the server is disabled.
Refuse(x) ==
  /\ NothingQueued /\ call[x].pc = "no" /\ entry = None
  /\ call' = [call EXCEPT ![x].pc = "failed"]
  /\ UNCHANGED <<entry, conn, proc, timers, crashes, changes>>

\* toolDefinitions() at the beginning of a turn starts what is not running.
ListTools ==
  /\ NothingQueued /\ entry # None /\ conn[entry].status # "running"
  /\ Start(entry, conn, proc)
  /\ UNCHANGED <<entry, call, timers, crashes, changes>>

NewObjects == {k \in Conns :
  k # entry /\ conn[k] = NewConn /\ timers[k] = 0 /\ \A x \in Calls : call[x].conn # k}
NewObject == CHOOSE k \in NewObjects : TRUE

\* load() after the configuration of the server has changed: its connection is
\* disposed of, and a new one is made and started if the server is enabled.
Load(enabled) ==
  LET cs == IF entry = None THEN conn ELSE Closed(entry)
      ps == IF entry = None THEN proc ELSE ProcsOfClosed(entry)
  IN  /\ NothingQueued /\ (entry # None \/ enabled)
      /\ changes < MaxChanges /\ changes' = changes + 1
      /\ call' = IF entry = None THEN call ELSE CallsHungUp(conn[entry].rpc)
      /\ timers' = IF entry = None THEN timers ELSE TimersOfClosed(entry)
      /\ IF enabled THEN NewObjects # {} /\ entry' = NewObject /\ Start(NewObject, cs, ps)
                    ELSE entry' = None /\ conn' = cs /\ proc' = ps
      /\ UNCHANGED crashes

-----------------------------------------------------------------------------
(* Events: answers and timeouts                                            *)

Answers(p) == p # None /\ proc[p].state = "alive" /\ proc[p].open

\* initialize is answered: tools/list is asked on the present channel.
InitAnswer(k) ==
  /\ NothingQueued /\ conn[k].start = "init" /\ Answers(conn[k].asked)
  /\ conn' = [conn EXCEPT ![k].start = IF conn[k].rpc = None THEN "failed" ELSE "list",
                          ![k].asked = conn[k].rpc]
  /\ UNCHANGED <<entry, proc, call, timers, crashes, changes>>

\* tools/list is answered: the connection is running, and whoever waited for
\* it sends its request.
ListAnswer(k) ==
  LET r == conn[k].rpc
      waiting == {x \in Calls : call[x].pc = "starting" /\ call[x].conn = k}
  IN  /\ NothingQueued /\ conn[k].start = "list" /\ Answers(conn[k].asked)
      /\ conn' = [conn EXCEPT ![k].start = "no", ![k].asked = None, ![k].status = "running"]
      /\ call' = [x \in Calls |->
           IF x \notin waiting THEN call[x]
           ELSE [call[x] EXCEPT !.pc = IF r = None THEN "rejected" ELSE "asked", !.rpc = r]]
      /\ UNCHANGED <<entry, proc, timers, crashes, changes>>

CallAnswer(x) ==
  /\ NothingQueued /\ call[x].pc = "asked"
  /\ proc[call[x].rpc].open
  /\ call' = [call EXCEPT ![x].pc = "ok", ![x].rpc = None]
  /\ UNCHANGED <<entry, conn, proc, timers, crashes, changes>>

StartTimeout(k) ==
  /\ NothingQueued /\ conn[k].start \in {"init", "list"}
  /\ conn' = [conn EXCEPT ![k].start = "failed"]
  /\ UNCHANGED <<entry, proc, call, timers, crashes, changes>>

CallTimeout(x) ==
  /\ NothingQueued /\ call[x].pc = "asked"
  /\ call' = [call EXCEPT ![x].pc = "rejected", ![x].rpc = None]
  /\ UNCHANGED <<entry, conn, proc, timers, crashes, changes>>

-----------------------------------------------------------------------------
(* Events: processes and timers                                            *)

Dead(p) == Tidy([proc EXCEPT ![p].state = "dead"])

Dies(p) ==
  /\ proc[p].state = "alive"
  /\ crashes < MaxCrashes /\ crashes' = crashes + 1
  /\ proc' = Dead(p)
  /\ UNCHANGED <<entry, conn, call, timers, changes>>

\* The process could not be spawned: an error event, and no exit event.
SpawnError(p) ==
  LET k == proc[p].owner
  IN  /\ NothingQueued /\ proc[p].state = "alive"
      /\ conn[k].start = "init" /\ conn[k].asked = p
      /\ crashes < MaxCrashes /\ crashes' = crashes + 1
      /\ proc' = Tidy([Dead(p) EXCEPT ![p].listens = FALSE])
      /\ conn' = [conn EXCEPT ![k].status = "error"]
      /\ UNCHANGED <<entry, call, timers, changes>>

ExitEventUnheard(p) ==   \* faulty: the status is left as it is
  /\ NothingQueued /\ proc[p].state = "dead" /\ proc[p].listens
  /\ proc' = Tidy([proc EXCEPT ![p].listens = FALSE])
  /\ UNCHANGED <<entry, conn, call, timers, crashes, changes>>

ExitEventHalf(p) ==   \* faulty: drops the channel and not the status
  /\ NothingQueued /\ proc[p].state = "dead" /\ proc[p].listens
  /\ proc' = Tidy([proc EXCEPT ![p].listens = FALSE])
  /\ conn' = [conn EXCEPT ![proc[p].owner].rpc = None]
  /\ UNCHANGED <<entry, call, timers, crashes, changes>>

ExitEvent(p) ==
  /\ NothingQueued /\ proc[p].state = "dead" /\ proc[p].listens
  /\ proc' = Tidy([proc EXCEPT ![p].listens = FALSE])
  /\ conn' = [conn EXCEPT ![proc[p].owner].rpc = None,
       ![proc[p].owner].status = IF @ \in {"running", "starting"} THEN "crashed" ELSE "stopped"]
  /\ UNCHANGED <<entry, call, timers, crashes, changes>>

\* The end of the process' output closes the channel.
OutputEnds(p) ==
  /\ NothingQueued /\ proc[p].state # "alive" /\ proc[p].open
  /\ conn' = [k \in Conns |-> StartHungUp(conn[k], p)]
  /\ call' = CallsHungUp(p)
  /\ proc' = Tidy([proc EXCEPT ![p].open = FALSE])
  /\ UNCHANGED <<entry, timers, crashes, changes>>

\* The timer of close() kills the process the connection has by then.
KillTimer(k) ==
  /\ NothingQueued /\ timers[k] > 0
  /\ timers' = [timers EXCEPT ![k] = @ - 1]
  /\ proc' = IF conn[k].proc = None THEN proc ELSE Dead(conn[k].proc)
  /\ UNCHANGED <<entry, conn, call, crashes, changes>>

Event ==
  \/ \E x \in Calls : Refuse(x) \/ CallAnswer(x) \/ CallTimeout(x)
  \/ \E x \in Calls, direct \in BOOLEAN : Invoke(x, direct)
  \/ \E k \in Conns : InitAnswer(k) \/ ListAnswer(k) \/ KillTimer(k)
  \/ \E p \in Procs : Dies(p) \/ SpawnError(p) \/ ExitEvent(p)
  \/ ListTools

-----------------------------------------------------------------------------
Init ==
  /\ entry = None
  /\ conn = [k \in Conns |-> NewConn]
  /\ proc = [p \in Procs |-> NoProc]
  /\ call = [x \in Calls |-> NewCall]
  /\ timers = [k \in Conns |-> 0]
  /\ crashes = 0 /\ changes = 0

Next ==
  \/ Continuation \/ Event \/ \E enabled \in BOOLEAN : Load(enabled)
  \/ \E k \in Conns : StartTimeout(k)
  \/ \E p \in Procs : OutputEnds(p)

\* Every behaviour of the code.
Spec == Init /\ [][Next]_vars

\* A server that is alive answers initialize and tools/list within 15 s; the
\* exit of a process is heard before the end of its output; and a
CalmTimeout(k) ==
  LET p == conn[k].asked IN StartTimeout(k) /\ proc[p].state # "alive" /\ ~proc[p].listens
CalmEnd(p) == OutputEnds(p) /\ ~proc[p].listens
\* configuration is not changed under a call that is under way.
CalmLoad(enabled) == Load(enabled) /\ \A x \in Calls : call[x].pc = "no" \/ Settled(x)
CalmNext ==
  \/ Continuation \/ Event \/ \E enabled \in BOOLEAN : CalmLoad(enabled)
  \/ \E k \in Conns : CalmTimeout(k)
  \/ \E p \in Procs : CalmEnd(p)

\* What is due happens: continuations run, exits and ends of output are heard,
\* a live server answers the handshake, a request that is not answered times
\* out.  Whether a tool ever answers is not assumed.
Due ==
  \/ Continuation
  \/ \E k \in Conns : InitAnswer(k) \/ ListAnswer(k) \/ CalmTimeout(k)
  \/ \E p \in Procs : ExitEvent(p) \/ CalmEnd(p)
  \/ \E x \in Calls : CallTimeout(x)

FairSpec == Init /\ [][CalmNext]_vars /\ WF_vars(Due)

-----------------------------------------------------------------------------
(* Properties                                                              *)

TypeOK ==
  /\ entry \in Conns \cup {None}
  /\ conn \in [Conns -> Conn]
  /\ proc \in [Procs -> Proc]
  /\ call \in [Calls -> Call]
  /\ timers \in [Conns -> Nat]
  /\ crashes \in Nat /\ changes \in Nat

\* A connection that says it is running has the channel of its own process,
\* so that its next request is not refused (client.js:120).
RunningIsConnected ==
  \A k \in Conns : conn[k].status = "running" => conn[k].rpc # None /\ conn[k].rpc = conn[k].proc

\* Whatever restarts, kills and configuration changes overlap, the only server
\* process that has not been told to terminate is the one of the entry.
NoStrayServer ==
  \A p \in Procs :
    proc[p].state = "alive" => entry # None /\ conn[entry].proc = p

\* Every call is answered or fails, whatever dies and whoever restarts the
\* connection meanwhile.
CallsSettle == \A x \in Calls : call[x].pc # "no" ~> Settled(x)

\* A connection does not go on saying it is running after its process has died.
DeathIsNoticed ==
  \A k \in Conns :
    (conn[k].status = "running" /\ conn[k].proc # None /\ proc[conn[k].proc].state = "dead")
      ~> conn[k].status # "running"
=============================================================================
