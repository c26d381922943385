-------------------------- MODULE McpServersProofs --------------------------
(* Theorems about module McpServers, for any sets of connections, processes *)
(* and calls.                                                               *)
EXTENDS McpServers, TLAPS

-----------------------------------------------------------------------------
(* The inductive invariant                                                  *)

(* The connection c has process p: it was spawned for it and its handshake, *)
(* if it is not over, talks to it.                                          *)
Serves(p, c) ==
  /\ c.proc = p /\ c.rpc = p
  /\ c.start \in {"init", "list"} => c.asked = p
  /\ c.start # "failed"
  /\ c.start = "no" => c.status = "running"

(* A process whose exit will be heard, which every process is that has not  *)
(* been told to terminate, belongs to the connection of the entry e and is  *)
(* known to no other one.                                                   *)
Servers(e, cs, ps) ==
  \A p \in Procs :
    /\ ps[p].state = "alive" => ps[p].listens
    /\ ps[p].listens =>
         /\ e \in Conns /\ ps[p].owner = e /\ Serves(p, cs[e])
         /\ \A k \in Conns : p \in {cs[k].proc, cs[k].asked} => k = e

(* A channel is the one of the present process. *)
Channels(cs) ==
  \A k \in Conns :
    /\ cs[k].rpc \in {None, cs[k].proc}
    /\ cs[k].status = "running" => cs[k].rpc # None

(* A call that is under way uses the connection of the entry, since the     *)
(* configuration is not changed meanwhile.                                  *)
UnderWay == {"starting", "asked", "rejected"}
Callers == \A x \in Calls : call[x].pc \in UnderWay => entry \in Conns /\ call[x].conn = entry

(* The inductive invariant. *)
MInv == TypeOK /\ Servers(entry, conn, proc) /\ Channels(conn) /\ Callers

-----------------------------------------------------------------------------
(* The helpers of the connection                                            *)

(* Forgetting a process that nobody hears changes nothing of those that    *)
(* are heard.                                                               *)
LEMMA TidyProcs ==
  ASSUME NEW ps \in [Procs -> Proc]
  PROVE  /\ Tidy(ps) \in [Procs -> Proc]
         /\ \A p \in Procs :
              /\ Tidy(ps)[p].listens => Tidy(ps)[p] = ps[p] /\ ps[p].listens
              /\ Tidy(ps)[p].state = "alive" => Tidy(ps)[p] = ps[p]
<1>1. NoProc \in Proc /\ ~NoProc.listens /\ NoProc.state = "dead"
  BY DEF NoProc, Proc
<1>2. \A p \in Procs : Tidy(ps)[p] = ps[p] \/ Tidy(ps)[p] = NoProc
  BY DEF Tidy
<1>3. Tidy(ps) \in [Procs -> Proc]
  BY <1>1 DEF Tidy
<1>4. QED
  BY <1>1, <1>2, <1>3

(* close() leaves a connection without a process and a channel, *)
LEMMA ClosedConn ==
  ASSUME TypeOK, NEW k \in Conns
  PROVE  /\ Closed(k) \in [Conns -> Conn]
         /\ Closed(k)[k].status = "stopped" /\ Closed(k)[k].proc = None /\ Closed(k)[k].rpc = None
         /\ Closed(k)[k].asked = conn[k].asked
         /\ \A j \in Conns : j # k => Closed(k)[j] = conn[j]
<1> DEFINE c == StartHungUp(conn[k], conn[k].rpc)
           d == [c EXCEPT !.status = "stopped", !.proc = None, !.rpc = None]
<1>1. conn[k] \in Conn /\ conn \in [Conns -> Conn]
  BY DEF TypeOK
<1>2. c \in Conn /\ c.asked = conn[k].asked
  BY <1>1 DEF StartHungUp, Conn
<1>3. Closed(k) = [conn EXCEPT ![k] = d]
  BY DEF Closed
<1> HIDE DEF c
<1>4. /\ d \in Conn /\ d.status = "stopped" /\ d.proc = None /\ d.rpc = None
      /\ d.asked = c.asked
  BY <1>2 DEF Conn
<1> HIDE DEF d
<1>5. QED
  BY <1>1, <1>2, <1>3, <1>4

(* and its process, told to terminate, is not heard any more. *)
LEMMA ClosedProcs ==
  ASSUME TypeOK, NEW k \in Conns
  PROVE  /\ ProcsOfClosed(k) \in [Procs -> Proc]
         /\ \A p \in Procs :
              /\ ProcsOfClosed(k)[p].listens => proc[p].listens /\ p # conn[k].proc
              /\ ProcsOfClosed(k)[p].state = "alive" =>
                   /\ proc[p].state = "alive" /\ p # conn[k].proc
                   /\ proc[p].listens => ProcsOfClosed(k)[p].listens
<1> DEFINE q(p) == [proc[p] EXCEPT !.state = IF @ = "alive" /\ p = conn[k].proc THEN "termed" ELSE @,
                    !.listens = @ /\ p # conn[k].proc,
                    !.open = @ /\ p # conn[k].rpc]
           qs == [p \in Procs |-> q(p)]
<1>1. ASSUME NEW p \in Procs
      PROVE  /\ q(p) \in Proc
             /\ q(p).listens <=> proc[p].listens /\ p # conn[k].proc
             /\ q(p).state = "alive" => proc[p].state = "alive" /\ p # conn[k].proc
  <2>1. proc[p] \in Proc
    BY DEF TypeOK
  <2>2. QED
    BY <2>1 DEF Proc
<1>2. ProcsOfClosed(k) = Tidy(qs)
  BY DEF ProcsOfClosed
<1> HIDE DEF q
<1>3. qs \in [Procs -> Proc] /\ \A p \in Procs : qs[p] = q(p)
  BY <1>1
<1> HIDE DEF qs
<1>4. QED
  BY <1>1, <1>2, <1>3, TidyProcs

(* What start() may begin with, be it the tables as they are or as close() *)
(* leaves them.                                                             *)
Ready(k, cs, ps) ==
  /\ cs \in [Conns -> Conn] /\ ps \in [Procs -> Proc]
  /\ Servers(k, cs, ps) /\ Channels(cs)

(* start() spawns a process only when its connection has none that is      *)
(* heard, and takes one that no other connection knows.                     *)
LEMMA StartKeeps ==
  ASSUME NEW k \in Conns, NEW cs, NEW ps, Ready(k, cs, ps), Start(k, cs, ps)
  PROVE  Ready(k, conn', proc')
<1>1. CASE cs[k].status = "running" \/ cs[k].start # "no"
  BY <1>1 DEF Start, Ready
<1>2. CASE ~(cs[k].status = "running" \/ cs[k].start # "no")
  <2>1. \A p \in Procs : ~ps[p].listens /\ ps[p].state # "alive"
    BY <1>2 DEF Ready, Servers, Serves
  <2>2. PICK p \in Free(k, cs, ps) :
          /\ conn' = [cs EXCEPT ![k] = [status |-> "starting", proc |-> p, rpc |-> p,
                                        start |-> "spawned", asked |-> None]]
          /\ proc' = [ps EXCEPT ![p] = NewProc(k)]
    BY <1>2 DEF Start
  <2> DEFINE c == [status |-> "starting", proc |-> p, rpc |-> p, start |-> "spawned", asked |-> None]
  <2>3. /\ p \in Procs /\ p # None
        /\ \A j \in Conns : p # cs[j].asked /\ (j # k => p \notin {cs[j].proc, cs[j].rpc})
    BY <2>2, McpAssumption DEF Free
  <2>4. NewProc(k) \in Proc /\ NewProc(k).owner = k /\ NewProc(k).listens
    BY DEF NewProc, NoProc, Proc
  <2>5. c \in Conn /\ Serves(p, c) /\ c.status # "running" /\ c.rpc = c.proc /\ c.proc = p /\ c.asked = None
    BY <2>3 DEF Conn, Serves
  <2> HIDE DEF c
  <2>6. conn' \in [Conns -> Conn] /\ proc' \in [Procs -> Proc]
    BY <2>2, <2>3, <2>4, <2>5 DEF Ready, c
  <2>7. conn'[k] = c /\ \A j \in Conns : j # k => conn'[j] = cs[j]
    BY <2>2 DEF Ready, c
  <2>8. proc'[p] = NewProc(k) /\ \A q \in Procs : q # p => proc'[q] = ps[q]
    BY <2>2, <2>3 DEF Ready
  <2>9. Channels(conn')
    BY <2>5, <2>7 DEF Ready, Channels
  <2>10. Servers(k, conn', proc')
    <3>1. \A q \in Procs : proc'[q].listens \/ proc'[q].state = "alive" => q = p
      BY <2>1, <2>8
    <3>2. \A j \in Conns : p \in {conn'[j].proc, conn'[j].asked} => j = k
      BY <2>3, <2>7
    <3>3. QED
      BY <2>4, <2>5, <2>7, <2>8, <3>1, <3>2 DEF Servers
  <2>11. QED
    BY <2>6, <2>9, <2>10 DEF Ready
<1>3. QED
  BY <1>1, <1>2

(* After the connection of the entry is closed nobody is heard, so that any *)
(* connection may be started.                                               *)
LEMMA ClosedIsReady ==
  ASSUME MInv, entry \in Conns, NEW k \in Conns
  PROVE  Ready(k, Closed(entry), ProcsOfClosed(entry))
<1>1. TypeOK /\ Servers(entry, conn, proc) /\ Channels(conn)
  BY DEF MInv
<1>2. \A p \in Procs : ~ProcsOfClosed(entry)[p].listens
  BY <1>1, ClosedProcs DEF Servers, Serves
<1>3. \A p \in Procs : ProcsOfClosed(entry)[p].state # "alive"
  BY <1>1, <1>2, ClosedProcs DEF Servers
<1>4. Channels(Closed(entry))
  BY <1>1, ClosedConn DEF Channels
<1>5. QED
  BY <1>1, <1>2, <1>3, <1>4, ClosedConn, ClosedProcs DEF Ready, Servers

(* The calls that a closed channel rejects are still under way. *)
LEMMA HungUpCalls ==
  ASSUME TypeOK, NEW r
  PROVE  /\ CallsHungUp(r) \in [Calls -> Call]
         /\ \A x \in Calls : /\ CallsHungUp(r)[x].conn = call[x].conn
                             /\ CallsHungUp(r)[x].pc \in UnderWay => call[x].pc \in UnderWay
<1>1. ASSUME NEW x \in Calls
      PROVE  /\ [call[x] EXCEPT !.pc = "rejected", !.rpc = None] \in Call
             /\ [call[x] EXCEPT !.pc = "rejected", !.rpc = None].conn = call[x].conn
  <2>1. call[x] \in Call
    BY DEF TypeOK
  <2>2. QED
    BY <2>1 DEF Call
<1>2. QED
  BY <1>1 DEF CallsHungUp, TypeOK, UnderWay

(* Closing a connection leaves well-typed kill timers. *)
LEMMA ArmedTimers ==
  ASSUME TypeOK, NEW k \in Conns
  PROVE  TimersOfClosed(k) \in [Conns -> Nat]
BY DEF TypeOK, TimersOfClosed

(* Nothing is loaded at the start. *)
LEMMA MInvInit == Init => MInv
<1> SUFFICES ASSUME Init PROVE MInv
  OBVIOUS
<1>1. NewConn \in Conn /\ NoProc \in Proc /\ NewCall \in Call /\ ~NoProc.listens
  BY DEF NewConn, NoProc, NewCall, Conn, Proc, Call
<1>2. TypeOK
  BY <1>1 DEF Init, TypeOK
<1>3. Servers(entry, conn, proc)
  BY <1>1 DEF Init, Servers, NoProc
<1>4. Channels(conn)
  BY DEF Init, Channels, NewConn
<1>5. Callers
  BY DEF Init, Callers, NewCall, UnderWay
<1>6. QED
  BY <1>2, <1>3, <1>4, <1>5 DEF MInv

-----------------------------------------------------------------------------
(* The steps                                                                *)

(* A step of one connection that leaves its process and its channel alone. *)
LEMMA ConnStep ==
  ASSUME MInv, NEW k \in Conns, NEW c \in Conn, conn' = [conn EXCEPT ![k] = c],
         c.proc = conn[k].proc, c.rpc = conn[k].rpc,
         c.asked \in {None, conn[k].asked, conn[k].rpc},
         c.status = "running" => c.rpc # None,
         \A p \in Procs : k = entry /\ proc[p].listens => Serves(p, c),
         entry' = entry, proc' = proc
  PROVE  conn' \in [Conns -> Conn] /\ Servers(entry', conn', proc') /\ Channels(conn')
<1>1. TypeOK /\ Servers(entry, conn, proc) /\ Channels(conn) /\ conn \in [Conns -> Conn]
  BY DEF MInv, TypeOK
<1>2. conn'[k] = c /\ \A j \in Conns : j # k => conn'[j] = conn[j]
  BY <1>1
<1>3. conn' \in [Conns -> Conn] /\ Channels(conn')
  BY <1>1, <1>2 DEF Channels
<1>4. ASSUME NEW p \in Procs, proc[p].listens
      PROVE  /\ Serves(p, conn'[entry])
             /\ \A j \in Conns : p \in {conn'[j].proc, conn'[j].asked} => j = entry
  <2>1. /\ entry \in Conns /\ Serves(p, conn[entry]) /\ p # None
        /\ \A j \in Conns : p \in {conn[j].proc, conn[j].asked} => j = entry
    BY <1>1, <1>4, McpAssumption DEF Servers
  <2>2. p \in {c.proc, c.asked} => k = entry
    BY <1>1, <2>1 DEF Channels
  <2>3. QED
    BY <1>2, <1>4, <2>1, <2>2
<1>5. QED
  BY <1>1, <1>3, <1>4 DEF Servers

(* A step of the calls that starts none and moves none to another          *)
(* connection.                                                              *)
LEMMA CallStep ==
  ASSUME MInv, entry' = entry,
         \A x \in Calls : call'[x].pc \in UnderWay =>
                            call[x].pc \in UnderWay /\ call'[x].conn = call[x].conn
  PROVE  Callers'
BY DEF MInv, Callers

(* A step that ends a process or its channel: whoever is still heard was    *)
(* heard before.                                                            *)
LEMMA ProcStep ==
  ASSUME MInv, proc' \in [Procs -> Proc], entry' = entry,
         \A p \in Procs :
           /\ proc'[p].listens => proc[p].listens /\ proc'[p].owner = proc[p].owner
           /\ proc'[p].state = "alive" => proc'[p].listens,
         \A k \in Conns : conn'[k].proc = conn[k].proc /\ conn'[k].asked = conn[k].asked,
         \A p \in Procs : proc'[p].listens => Serves(p, conn'[entry])
  PROVE  Servers(entry', conn', proc')
BY DEF MInv, Servers

(* The handshake is sent to the process that was spawned for it. *)
LEMMA SendInitializeStep ==
  ASSUME MInv, NEW k \in Conns, SendInitialize(k)
  PROVE  MInv'
<1> DEFINE c == [conn[k] EXCEPT !.start = IF conn[k].rpc = None THEN "failed" ELSE "init",
                                !.asked = conn[k].rpc]
<1>1. TypeOK /\ conn[k] \in Conn /\ Channels(conn) /\ Servers(entry, conn, proc)
  BY DEF MInv, TypeOK
<1>2. conn' = [conn EXCEPT ![k] = c]
  BY <1>1 DEF SendInitialize, TypeOK, Conn
<1>3. /\ c \in Conn /\ c.proc = conn[k].proc /\ c.rpc = conn[k].rpc
      /\ c.asked = conn[k].rpc /\ c.status = conn[k].status
      /\ c.start = IF conn[k].rpc = None THEN "failed" ELSE "init"
  BY <1>1 DEF Conn
<1> HIDE DEF c
<1>4. ASSUME NEW p \in Procs, k = entry, proc[p].listens PROVE Serves(p, c)
  BY <1>1, <1>3, <1>4, McpAssumption DEF Servers, Serves
<1>5. /\ conn' \in [Conns -> Conn] /\ Servers(entry', conn', proc') /\ Channels(conn')
  BY <1>1, <1>2, <1>3, <1>4, ConnStep DEF SendInitialize, Channels
<1>6. QED
  BY <1>5 DEF MInv, TypeOK, Callers, SendInitialize

(* A start that fails closes what it spawned. *)
LEMMA StartFailsStep ==
  ASSUME MInv, NEW k \in Conns, StartFails(k)
  PROVE  MInv'
<1> DEFINE c == [conn[k] EXCEPT !.start = "no", !.asked = None, !.status = "error"]
<1>1. TypeOK /\ conn[k] \in Conn /\ Channels(conn) /\ Servers(entry, conn, proc)
  BY DEF MInv, TypeOK
<1>2. conn' = [conn EXCEPT ![k] = c]
  BY <1>1 DEF StartFails, TypeOK, Conn
<1>3. /\ c \in Conn /\ c.proc = conn[k].proc /\ c.rpc = conn[k].rpc
      /\ c.asked = None /\ c.status = "error"
  BY <1>1 DEF Conn
<1> HIDE DEF c
<1>4. ASSUME NEW p \in Procs, k = entry, proc[p].listens PROVE FALSE
  BY <1>1, <1>4 DEF StartFails, Servers, Serves
<1>5. /\ conn' \in [Conns -> Conn] /\ Servers(entry', conn', proc') /\ Channels(conn')
  BY <1>1, <1>2, <1>3, <1>4, ConnStep DEF StartFails
<1>6. ASSUME NEW x \in Calls
      PROVE  /\ [call[x] EXCEPT !.pc = "rejected"] \in Call
             /\ [call[x] EXCEPT !.pc = "rejected"].conn = call[x].conn
  BY <1>1 DEF TypeOK, Call
<1>7. call' \in [Calls -> Call] /\ Callers'
  BY <1>1, <1>6, CallStep DEF StartFails, TypeOK, UnderWay
<1>8. QED
  BY <1>5, <1>7 DEF MInv, TypeOK, StartFails

(* The process that answers is the one of the entry. *)
LEMMA AnswersEntry ==
  ASSUME MInv, NEW k \in Conns, Answers(conn[k].asked)
  PROVE  k = entry /\ conn[k].asked \in Procs /\ Serves(conn[k].asked, conn[k])
<1>1. conn[k].asked \in Procs
  BY DEF MInv, TypeOK, Conn, Answers
<1>2. proc[conn[k].asked].listens
  BY <1>1 DEF MInv, Servers, Answers
<1>3. QED
  BY <1>1, <1>2 DEF MInv, Servers

(* The answer to initialize comes from the connection's own process. *)
LEMMA InitAnswerStep ==
  ASSUME MInv, NEW k \in Conns, InitAnswer(k)
  PROVE  MInv'
<1> DEFINE c == [conn[k] EXCEPT !.start = IF conn[k].rpc = None THEN "failed" ELSE "list",
                                !.asked = conn[k].rpc]
<1>1. TypeOK /\ conn[k] \in Conn /\ Channels(conn) /\ Servers(entry, conn, proc)
  BY DEF MInv, TypeOK
<1>2. conn' = [conn EXCEPT ![k] = c]
  BY <1>1 DEF InitAnswer, TypeOK, Conn
<1>3. /\ c \in Conn /\ c.proc = conn[k].proc /\ c.rpc = conn[k].rpc
      /\ c.asked = conn[k].rpc /\ c.status = conn[k].status
      /\ c.start = IF conn[k].rpc = None THEN "failed" ELSE "list"
  BY <1>1 DEF Conn
<1> HIDE DEF c
<1>4. ASSUME NEW p \in Procs, k = entry, proc[p].listens PROVE Serves(p, c)
  BY <1>1, <1>3, <1>4, McpAssumption DEF Servers, Serves
<1>5. /\ conn' \in [Conns -> Conn] /\ Servers(entry', conn', proc') /\ Channels(conn')
  BY <1>1, <1>2, <1>3, <1>4, ConnStep DEF InitAnswer, Channels
<1>6. QED
  BY <1>5 DEF MInv, TypeOK, Callers, InitAnswer

(* The connection says that it is running while its channel is there. *)
LEMMA ListAnswerStep ==
  ASSUME MInv, NEW k \in Conns, ListAnswer(k)
  PROVE  MInv'
<1> DEFINE c == [conn[k] EXCEPT !.start = "no", !.asked = None, !.status = "running"]
           d(x) == [call[x] EXCEPT !.pc = IF conn[k].rpc = None THEN "rejected" ELSE "asked",
                                   !.rpc = conn[k].rpc]
<1>1. TypeOK /\ conn[k] \in Conn /\ Channels(conn) /\ Servers(entry, conn, proc)
  BY DEF MInv, TypeOK
<1>2. conn' = [conn EXCEPT ![k] = c]
  BY <1>1 DEF ListAnswer, TypeOK, Conn
<1>3. /\ c \in Conn /\ c.proc = conn[k].proc /\ c.rpc = conn[k].rpc
      /\ c.asked = None /\ c.status = "running" /\ c.start = "no"
  BY <1>1 DEF Conn
<1> HIDE DEF c
<1>4. conn[k].rpc # None
  BY AnswersEntry, McpAssumption DEF ListAnswer, Serves
<1>5. ASSUME NEW p \in Procs, k = entry, proc[p].listens PROVE Serves(p, c)
  BY <1>1, <1>3, <1>5 DEF Servers, Serves
<1>6. /\ conn' \in [Conns -> Conn] /\ Servers(entry', conn', proc') /\ Channels(conn')
  BY <1>2, <1>3, <1>4, <1>5, ConnStep DEF ListAnswer
<1>7. ASSUME NEW x \in Calls
      PROVE  d(x) \in Call /\ d(x).conn = call[x].conn
  <2>1. call[x] \in Call /\ conn[k].rpc \in Procs \cup {None}
    BY <1>1 DEF TypeOK, Conn
  <2>2. QED
    BY <2>1 DEF Call
<1>8. call' = [x \in Calls |-> IF ~(call[x].pc = "starting" /\ call[x].conn = k) THEN call[x] ELSE d(x)]
  BY DEF ListAnswer
<1> HIDE DEF d
<1>9. call' \in [Calls -> Call] /\ Callers'
  BY <1>1, <1>7, <1>8, CallStep DEF ListAnswer, TypeOK, UnderWay
<1>10. QED
  BY <1>6, <1>9 DEF MInv, TypeOK, ListAnswer

(* Only a handshake with a process that is gone times out. *)
LEMMA TimeoutStep ==
  ASSUME MInv, NEW k \in Conns, CalmTimeout(k)
  PROVE  MInv'
<1> DEFINE c == [conn[k] EXCEPT !.start = "failed"]
<1>1. TypeOK /\ conn[k] \in Conn /\ Channels(conn) /\ Servers(entry, conn, proc)
  BY DEF MInv, TypeOK
<1>2. conn' = [conn EXCEPT ![k] = c]
  BY <1>1 DEF CalmTimeout, StartTimeout, TypeOK, Conn
<1>3. /\ c \in Conn /\ c.proc = conn[k].proc /\ c.rpc = conn[k].rpc
      /\ c.asked = conn[k].asked /\ c.status = conn[k].status
  BY <1>1 DEF Conn
<1> HIDE DEF c
<1>4. ASSUME NEW p \in Procs, k = entry, proc[p].listens PROVE FALSE
  BY <1>1, <1>4 DEF CalmTimeout, StartTimeout, Servers, Serves
<1>5. /\ conn' \in [Conns -> Conn] /\ Servers(entry', conn', proc') /\ Channels(conn')
  BY <1>1, <1>2, <1>3, <1>4, ConnStep DEF CalmTimeout, StartTimeout, Channels
<1>6. QED
  BY <1>5 DEF MInv, TypeOK, Callers, CalmTimeout, StartTimeout

(* A restart: close() and start() of the connection of the entry. *)
LEMMA RetryStep ==
  ASSUME MInv, NEW x \in Calls, Retry(x)
  PROVE  MInv'
<1> DEFINE k == call[x].conn
           cs == CallsHungUp(conn[entry].rpc)
<1>1. TypeOK /\ k = entry /\ entry \in Conns
  BY DEF MInv, Retry, Callers, UnderWay
<1>2. Start(entry, Closed(entry), ProcsOfClosed(entry))
  BY <1>1 DEF Retry
<1>3. Ready(entry, conn', proc')
  BY <1>1, <1>2, ClosedIsReady, StartKeeps
<1>4. /\ call' = [cs EXCEPT ![x].pc = "starting", ![x].attempt = 2]
      /\ UNCHANGED <<entry, crashes, changes>> /\ timers' \in [Conns -> Nat]
  BY <1>1, ArmedTimers DEF Retry
<1>5. /\ cs \in [Calls -> Call] /\ \A y \in Calls : cs[y].conn = call[y].conn
      /\ \A y \in Calls : cs[y].pc \in UnderWay => call[y].pc \in UnderWay
  BY <1>1, HungUpCalls
<1>6. call[x].pc \in UnderWay
  BY DEF Retry, UnderWay
<1> HIDE DEF cs
<1> DEFINE d == [cs[x] EXCEPT !.pc = "starting", !.attempt = 2]
<1>7. d \in Call /\ d.conn = cs[x].conn
  <2>1. cs[x] \in Call /\ 2 \in 0..2
    BY <1>5
  <2>2. QED
    BY <2>1 DEF Call
<1>8. call' = [cs EXCEPT ![x] = d]
  BY <1>4, <1>5 DEF Call
<1> HIDE DEF d
<1>9. /\ call' \in [Calls -> Call]
      /\ \A y \in Calls : call'[y].conn = cs[y].conn /\ (y # x => call'[y] = cs[y])
  BY <1>5, <1>7, <1>8
<1>10. Callers'
  BY <1>4, <1>5, <1>6, <1>9, CallStep
<1>11. QED
  BY <1>1, <1>3, <1>4, <1>9, <1>10 DEF MInv, TypeOK, Ready

(* A call ends, or its request times out. *)
LEMMA CallEndStep ==
  ASSUME MInv, NEW x \in Calls,
         GiveUp(x) \/ Refuse(x) \/ CallAnswer(x) \/ CallTimeout(x)
  PROVE  MInv'
<1>1. TypeOK /\ UNCHANGED <<entry, conn, proc, timers, crashes, changes>>
  BY DEF MInv, GiveUp, Refuse, CallAnswer, CallTimeout
<1>2. call' \in [Calls -> Call]
  BY <1>1 DEF TypeOK, Call, GiveUp, Refuse, CallAnswer, CallTimeout
<1>3. \A y \in Calls : call'[y].pc \in UnderWay =>
                         call[y].pc \in UnderWay /\ call'[y].conn = call[y].conn
  BY <1>1 DEF TypeOK, Call, GiveUp, Refuse, CallAnswer, CallTimeout, UnderWay
<1>4. QED
  BY <1>1, <1>2, <1>3, CallStep DEF MInv, TypeOK

(* Every state of the invariant is one a start may begin in. *)
LEMMA PresentIsReady ==
  ASSUME MInv
  PROVE  Ready(entry, conn, proc)
BY DEF MInv, TypeOK, Ready

(* A tool call uses the running connection, or starts it first. *)
LEMMA InvokeStep ==
  ASSUME MInv, NEW x \in Calls, NEW direct \in BOOLEAN, Invoke(x, direct)
  PROVE  MInv'
<1> DEFINE c == [pc |-> IF conn[entry].status # "running" THEN "starting"
                        ELSE IF conn[entry].rpc = None THEN "rejected" ELSE "asked",
                 conn |-> entry, attempt |-> 1, direct |-> direct,
                 rpc |-> IF conn[entry].status = "running" THEN conn[entry].rpc ELSE None]
<1>1. TypeOK /\ entry \in Conns
  BY DEF MInv, TypeOK, Invoke
<1>2. Ready(entry, conn', proc')
  BY <1>1, PresentIsReady, StartKeeps DEF Invoke
<1>3. call' = [call EXCEPT ![x] = c]
  BY DEF Invoke
<1>4. c \in Call /\ c.conn = entry
  BY <1>1 DEF TypeOK, Call, Conn
<1> HIDE DEF c
<1>5. /\ call' \in [Calls -> Call] /\ call'[x].conn = entry
      /\ \A y \in Calls : y # x => call'[y] = call[y]
  BY <1>1, <1>3, <1>4 DEF TypeOK
<1>6. Callers'
  BY <1>1, <1>5 DEF MInv, Callers, Invoke
<1>7. QED
  BY <1>1, <1>2, <1>5, <1>6 DEF MInv, TypeOK, Ready, Invoke

(* Listing the tools starts a server that does not run. *)
LEMMA ListToolsStep ==
  ASSUME MInv, ListTools
  PROVE  MInv'
<1>1. TypeOK /\ entry \in Conns
  BY DEF MInv, TypeOK, ListTools
<1>2. Ready(entry, conn', proc')
  BY <1>1, PresentIsReady, StartKeeps DEF ListTools
<1>3. QED
  BY <1>1, <1>2 DEF MInv, TypeOK, Ready, ListTools, Callers

(* The configuration changes: nobody is heard after the old connection is  *)
(* closed, and no call uses it.                                             *)
LEMMA LoadStep ==
  ASSUME MInv, NEW enabled \in BOOLEAN, CalmLoad(enabled)
  PROVE  MInv'
<1> DEFINE cs == IF entry = None THEN conn ELSE Closed(entry)
           ps == IF entry = None THEN proc ELSE ProcsOfClosed(entry)
<1>1. TypeOK /\ Load(enabled) /\ \A x \in Calls : call[x].pc \notin UnderWay
  BY DEF MInv, CalmLoad, Settled, UnderWay
<1>2. ASSUME NEW k \in Conns PROVE Ready(k, cs, ps)
  <2>1. CASE entry = None
    <3>1. \A p \in Procs : ~proc[p].listens /\ proc[p].state # "alive"
      BY <2>1, McpAssumption DEF MInv, Servers
    <3>2. QED
      BY <2>1, <3>1 DEF MInv, TypeOK, Ready, Servers
  <2>2. CASE entry # None
    BY <1>1, <2>2, ClosedIsReady DEF TypeOK
  <2>3. QED
    BY <2>1, <2>2
<1>3. /\ call' \in [Calls -> Call] /\ \A x \in Calls : call'[x].pc \notin UnderWay
      /\ timers' \in [Conns -> Nat] /\ changes' \in Nat /\ crashes' \in Nat
  BY <1>1, HungUpCalls, ArmedTimers DEF Load, TypeOK
<1>4. Callers'
  BY <1>3 DEF Callers
<1> HIDE DEF cs, ps
<1>5. CASE enabled
  <2>1. NewObject \in Conns /\ entry' = NewObject /\ Start(NewObject, cs, ps)
    BY <1>1, <1>5 DEF Load, NewObject, NewObjects, cs, ps
  <2>2. Ready(entry', conn', proc')
    BY <1>2, <2>1, StartKeeps
  <2>3. QED
    BY <1>3, <1>4, <2>1, <2>2 DEF MInv, TypeOK, Ready
<1>6. CASE ~enabled
  <2>1. entry' = None /\ conn' = cs /\ proc' = ps
    BY <1>1, <1>6 DEF Load, cs, ps
  <2>2. cs \in [Conns -> Conn] /\ ps \in [Procs -> Proc] /\ Channels(cs)
    <3>1. CASE entry = None
      BY <1>1, <3>1 DEF MInv, TypeOK, cs, ps
    <3>2. CASE entry # None
      BY <1>1, <1>2, <3>2 DEF TypeOK, Ready
    <3>3. QED
      BY <3>1, <3>2
  <2>3. \A p \in Procs : ~ps[p].listens /\ ps[p].state # "alive"
    <3>1. CASE entry = None
      BY <3>1, McpAssumption DEF MInv, Servers, ps
    <3>2. CASE entry # None
      BY <1>1, <3>2, ClosedProcs DEF MInv, TypeOK, Servers, Serves, ps
    <3>3. QED
      BY <3>1, <3>2
  <2>4. QED
    BY <1>3, <1>4, <2>1, <2>2, <2>3 DEF MInv, TypeOK, Servers
<1>7. QED
  BY <1>5, <1>6

(* A process that dies is heard until its exit event. *)
LEMMA DeadProcs ==
  ASSUME TypeOK, NEW p \in Procs
  PROVE  /\ Dead(p) \in [Procs -> Proc]
         /\ \A q \in Procs :
              /\ Dead(p)[q].listens => proc[q].listens /\ Dead(p)[q].owner = proc[q].owner
              /\ Dead(p)[q].state = "alive" => Dead(p)[q] = proc[q]
<1> DEFINE ps == [proc EXCEPT ![p].state = "dead"]
<1>1. ps \in [Procs -> Proc]
  BY DEF TypeOK, Proc
<1>2. ASSUME NEW q \in Procs
      PROVE  /\ ps[q].listens = proc[q].listens /\ ps[q].owner = proc[q].owner
             /\ ps[q].state = "alive" => ps[q] = proc[q]
  BY DEF TypeOK, Proc
<1>3. Dead(p) = Tidy(ps)
  BY DEF Dead
<1> HIDE DEF ps
<1>4. QED
  BY <1>1, <1>2, <1>3, TidyProcs

(* A server dies, told to or not. *)
LEMMA DeathStep ==
  ASSUME MInv, NEW p \in Procs, proc' = Dead(p), UNCHANGED <<entry, conn, call>>,
         timers' \in [Conns -> Nat], crashes' \in Nat, changes' \in Nat
  PROVE  MInv'
<1>1. TypeOK /\ Servers(entry, conn, proc)
  BY DEF MInv
<1>2. Servers(entry', conn', proc')
  BY <1>1, DeadProcs, ProcStep DEF Servers
<1>3. QED
  BY <1>1, <1>2, DeadProcs DEF MInv, TypeOK, Callers

(* The connection and the process that an exit event is about. *)
LEMMA HeardBy ==
  ASSUME MInv, NEW p \in Procs, proc[p].listens
  PROVE  /\ proc[p].owner = entry /\ entry \in Conns /\ conn[entry] \in Conn
         /\ \A q \in Procs : proc[q].listens => q = p
BY DEF MInv, TypeOK, Servers, Serves

(* A process that is no longer heard. *)
LEMMA Unheard ==
  ASSUME NEW ps \in [Procs -> Proc], NEW p \in Procs
  PROVE  /\ Tidy([ps EXCEPT ![p].listens = FALSE]) \in [Procs -> Proc]
         /\ \A q \in Procs :
              /\ Tidy([ps EXCEPT ![p].listens = FALSE])[q].listens => q # p /\ ps[q].listens
              /\ Tidy([ps EXCEPT ![p].listens = FALSE])[q].state = "alive" => ps[q].state = "alive"
<1> DEFINE qs == [ps EXCEPT ![p].listens = FALSE]
<1>1. qs \in [Procs -> Proc]
  BY DEF Proc
<1>2. \A q \in Procs : /\ qs[q].listens => q # p /\ ps[q].listens
                       /\ qs[q].state = ps[q].state
  BY DEF Proc
<1> HIDE DEF qs
<1>3. /\ Tidy(qs) \in [Procs -> Proc]
      /\ \A q \in Procs : /\ Tidy(qs)[q].listens => q # p /\ ps[q].listens
                          /\ Tidy(qs)[q].state = "alive" => ps[q].state = "alive"
  BY <1>1, <1>2, TidyProcs
<1>4. QED
  BY <1>3 DEF qs

(* The process of the entry is gone, and with it the only one that was     *)
(* heard.                                                                   *)
LEMMA GoneStep ==
  ASSUME MInv, NEW p \in Procs, proc[p].listens,
         NEW c \in Conn, conn' = [conn EXCEPT ![entry] = c],
         c.rpc \in {None, c.proc}, c.status # "running",
         NEW ps \in [Procs -> Proc], ps[p].state # "alive",
         \A q \in Procs : /\ ps[q].listens => proc[q].listens
                          /\ ps[q].state = "alive" => proc[q].state = "alive",
         proc' = Tidy([ps EXCEPT ![p].listens = FALSE]),
         UNCHANGED <<entry, call, timers, changes>>, crashes' \in Nat
  PROVE  MInv'
<1>1. TypeOK /\ Servers(entry, conn, proc) /\ entry \in Conns
  BY HeardBy DEF MInv
<1>2. proc' \in [Procs -> Proc] /\ \A q \in Procs : ~proc'[q].listens
  BY HeardBy, Unheard
<1>3. ASSUME NEW q \in Procs, proc'[q].state = "alive" PROVE FALSE
  <2>1. ps[q].state = "alive"
    BY <1>3, Unheard
  <2>2. proc[q].listens
    BY <1>1, <2>1 DEF Servers
  <2>3. q = p
    BY <2>2, HeardBy
  <2>4. QED
    BY <2>1, <2>3
<1>4. Servers(entry', conn', proc')
  BY <1>2, <1>3 DEF Servers
<1>5. conn' \in [Conns -> Conn] /\ Channels(conn')
  BY <1>1 DEF MInv, TypeOK, Channels
<1>6. QED
  BY <1>1, <1>2, <1>4, <1>5 DEF MInv, TypeOK, Callers

(* The spawn itself fails. *)
LEMMA SpawnErrorStep ==
  ASSUME MInv, NEW p \in Procs, SpawnError(p)
  PROVE  MInv'
<1> DEFINE c == [conn[entry] EXCEPT !.status = "error"]
<1>1. TypeOK /\ Channels(conn) /\ proc[p].listens
  BY DEF MInv, SpawnError, Servers
<1>2. proc[p].owner = entry /\ entry \in Conns /\ conn[entry] \in Conn
  BY <1>1, HeardBy
<1>3. conn' = [conn EXCEPT ![entry] = c]
  BY <1>2 DEF SpawnError
<1>4. c \in Conn /\ c.rpc = conn[entry].rpc /\ c.proc = conn[entry].proc /\ c.status = "error"
  BY <1>2 DEF Conn
<1> HIDE DEF c
<1>5. /\ Dead(p) \in [Procs -> Proc] /\ Dead(p)[p].state # "alive"
      /\ \A q \in Procs : /\ Dead(p)[q].listens => proc[q].listens
                          /\ Dead(p)[q].state = "alive" => proc[q].state = "alive"
  <2>1. Dead(p)[p].state # "alive"
    BY <1>1 DEF Dead, Tidy, TypeOK, Proc, NoProc
  <2>2. QED
    BY <1>1, <2>1, DeadProcs
<1>6. crashes' \in Nat
  BY <1>1 DEF SpawnError, TypeOK
<1>7. QED
  BY <1>1, <1>2, <1>3, <1>4, <1>5, <1>6, GoneStep DEF SpawnError, Channels

(* The exit of a process is heard by the connection it belongs to. *)
LEMMA ExitEventStep ==
  ASSUME MInv, NEW p \in Procs, ExitEvent(p)
  PROVE  MInv'
<1> DEFINE s == IF conn[entry].status \in {"running", "starting"} THEN "crashed" ELSE "stopped"
           c == [conn[entry] EXCEPT !.rpc = None, !.status = s]
<1>1. TypeOK /\ Channels(conn) /\ proc[p].listens
  BY DEF MInv, ExitEvent
<1>2. proc[p].owner = entry /\ entry \in Conns /\ conn[entry] \in Conn
  BY <1>1, HeardBy
<1>3. conn' = [conn EXCEPT ![entry] = c]
  BY <1>1, <1>2 DEF ExitEvent, TypeOK, Conn
<1>4. s \in {"crashed", "stopped"}
  OBVIOUS
<1> HIDE DEF s
<1>5. c \in Conn /\ c.rpc = None /\ c.status = s
  BY <1>2, <1>4 DEF Conn
<1> HIDE DEF c
<1>6. QED
  BY <1>1, <1>3, <1>4, <1>5, GoneStep DEF ExitEvent, TypeOK

(* The end of the output of a process that is not heard any more. *)
LEMMA EndStep ==
  ASSUME MInv, NEW p \in Procs, CalmEnd(p)
  PROVE  MInv'
<1> DEFINE ps == [proc EXCEPT ![p].open = FALSE]
<1>1. /\ TypeOK /\ Channels(conn) /\ Servers(entry, conn, proc) /\ ~proc[p].listens
      /\ conn' = [k \in Conns |-> StartHungUp(conn[k], p)] /\ call' = CallsHungUp(p)
      /\ proc' = Tidy(ps) /\ UNCHANGED <<entry, timers, crashes, changes>>
  BY DEF MInv, CalmEnd, OutputEnds
<1>2. ps \in [Procs -> Proc]
  BY <1>1 DEF TypeOK, Proc
<1>3. \A q \in Procs : /\ ps[q].listens = proc[q].listens /\ ps[q].owner = proc[q].owner
                       /\ ps[q].state = proc[q].state
  BY <1>1 DEF TypeOK, Proc
<1> HIDE DEF ps
<1>4. ASSUME NEW k \in Conns
      PROVE  /\ conn'[k] \in Conn /\ conn'[k].proc = conn[k].proc /\ conn'[k].rpc = conn[k].rpc
             /\ conn'[k].asked = conn[k].asked /\ conn'[k].status = conn[k].status
             /\ conn[k].asked # p => conn'[k] = conn[k]
             /\ conn[k].start \notin {"init", "list"} => conn'[k] = conn[k]
  <2>1. conn[k] \in Conn
    BY <1>1 DEF TypeOK
  <2>2. QED
    BY <1>1, <2>1 DEF StartHungUp, Conn
<1>5. conn' \in [Conns -> Conn] /\ Channels(conn')
  BY <1>1, <1>4 DEF Channels
<1>6. ASSUME NEW q \in Procs, proc[q].listens PROVE Serves(q, conn'[entry])
  BY <1>1, <1>4, <1>6 DEF Servers, Serves
<1>7. Servers(entry', conn', proc')
  <2>1. proc' \in [Procs -> Proc]
    BY <1>1, <1>2, TidyProcs
  <2>2. ASSUME NEW q \in Procs
        PROVE  /\ proc'[q].listens => proc[q].listens /\ proc'[q].owner = proc[q].owner
               /\ proc'[q].state = "alive" => proc'[q].listens
    <3>1. proc[q].state = "alive" => proc[q].listens
      BY <1>1 DEF Servers
    <3>2. /\ proc'[q].listens => proc'[q] = ps[q] /\ ps[q].listens
          /\ proc'[q].state = "alive" => proc'[q] = ps[q]
      BY <1>1, <1>2, TidyProcs
    <3>3. QED
      BY <1>3, <3>1, <3>2
  <2>3. QED
    BY <1>1, <1>4, <1>6, <2>1, <2>2, ProcStep
<1>8. call' \in [Calls -> Call] /\ Callers'
  BY <1>1, HungUpCalls, CallStep
<1>9. QED
  BY <1>1, <1>2, <1>5, <1>7, <1>8, TidyProcs DEF MInv, TypeOK

(* The inductive step, one case per action. *)
LEMMA MInvStep == MInv /\ [CalmNext]_vars => MInv'
<1> SUFFICES ASSUME MInv, [CalmNext]_vars PROVE MInv'
  OBVIOUS
<1>1. TypeOK
  BY DEF MInv
<1>2. CASE Continuation
  BY <1>2, SendInitializeStep, StartFailsStep, RetryStep, CallEndStep DEF Continuation
<1>3. ASSUME NEW p \in Procs, Dies(p) PROVE MInv'
  BY <1>1, <1>3, DeathStep DEF Dies, TypeOK
<1>4. ASSUME NEW k \in Conns, KillTimer(k) PROVE MInv'
  <2>1. timers' \in [Conns -> Nat] /\ UNCHANGED <<entry, conn, call, crashes, changes>>
    BY <1>1, <1>4 DEF KillTimer, TypeOK
  <2>2. CASE conn[k].proc = None
    BY <1>1, <1>4, <2>1, <2>2 DEF KillTimer, MInv, TypeOK, Callers
  <2>3. CASE conn[k].proc # None
    <3>1. conn[k].proc \in Procs /\ proc' = Dead(conn[k].proc)
      BY <1>1, <1>4, <2>3 DEF KillTimer, TypeOK, Conn
    <3>2. QED
      BY <1>1, <2>1, <3>1, DeathStep DEF TypeOK
  <2>4. QED
    BY <2>2, <2>3
<1>5. CASE Event
  BY <1>3, <1>4, <1>5, CallEndStep, InvokeStep, InitAnswerStep, ListAnswerStep, SpawnErrorStep,
     ExitEventStep, ListToolsStep DEF Event
<1>6. CASE UNCHANGED vars
  BY <1>6 DEF vars, MInv, TypeOK, Callers
<1>7. QED
  BY <1>2, <1>5, <1>6, LoadStep, TimeoutStep, EndStep DEF CalmNext

(* The invariant holds always. *)
LEMMA Inductive == FairSpec => []MInv
BY MInvInit, MInvStep, PTL DEF FairSpec

-----------------------------------------------------------------------------
(* Invariants                                                               *)

(* A connection that says it is running has the channel of its own process *)
(* (client.js:120), whatever dies, restarts and times out meanwhile.        *)
THEOREM RunningIsConnectedHolds == FairSpec => []RunningIsConnected
<1>1. MInv => RunningIsConnected
  BY DEF MInv, Channels, RunningIsConnected
<1>2. QED
  BY <1>1, Inductive, PTL

(* Whatever restarts, kills and configuration changes overlap, the only     *)
(* server process that close() has not told to terminate is the one of the  *)
(* manager's entry.                                                         *)
THEOREM NoStrayServerHolds == FairSpec => []NoStrayServer
<1>1. MInv => NoStrayServer
  BY McpAssumption DEF MInv, Servers, Serves, NoStrayServer
<1>2. QED
  BY <1>1, Inductive, PTL
=============================================================================
