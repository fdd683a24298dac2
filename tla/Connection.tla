----------------------------- MODULE Connection -----------------------------
(***************************************************************************)
(* The life of a connection of package server: Connection (TCP) and its    *)
(* copies WsConnection, ConnectionKCP, ConnectionQuic, GConnection (gnet)  *)
(* and epoll.Connection, with the heartbeat bound to it, the connection    *)
(* table it is removed from, and the code that calls it: request handlers  *)
(* on the goroutines of the worker pool, the OnConnStart hook and other    *)
(* goroutines of the application.                                          *)
(*                                                                         *)
(* The five copies share Start, Stop, Send and StartWriter; they differ in *)
(* the reader, the capacity of msgChan and, for WebSocket, in the lock of  *)
(* Stop.  isClosed is read and written without a lock: a step reads or     *)
(* writes it once, so both outcomes of each race are behaviours.           *)
(***************************************************************************)
EXTENDS Naturals, FiniteSets, ConnManager

CONSTANTS
  Kinds,       \* transports in use
  Buffer,      \* capacity of a buffered msgChan, 1024 in the code
  Workers,     \* goroutines of the worker pool
  Apps         \* other goroutines of the application that use connections

AllKinds == {"tcp", "ws", "kcp", "quic", "gnet", "epoll"}

ASSUME KindsAssumption == Kinds \subseteq AllKinds /\ Kinds # {}
ASSUME BufferAssumption == Buffer \in Nat

VARIABLES
  kind,        \* transport of each connection
  beating,     \* connections bound to a heartbeat
  bare,        \* history: connections of which a Stop has found c.hb nil
  uncancelled, \* history: those whose Stop panicked at a nil cancel
  at,          \* where each goroutine is
  on,          \* the connection each goroutine works on
  isClosed,    \* connections whose isClosed is set
  ctx,         \* the context of Start: not made, live or cancelled
  opened,      \* sockets not closed by this side
  gone,        \* peers that have gone away
  queue,       \* messages in msgChan
  wsLock,      \* holder of WsConnection.lock
  stops,       \* calls of the OnConnStop hook
  crashed      \* a panic has ended the process

Starter(c) == <<"starter", c>>
Reader(c) == <<"reader", c>>
Writer(c) == <<"writer", c>>
Beat(c) == <<"heartbeat", c>>

(* Goroutines of one connection, and those that serve any.                 *)
Bound == {"starter", "reader", "writer", "heartbeat"} \X Conns
Serving == ({"worker"} \X Workers) \cup ({"app"} \X Apps)
Goroutines == Bound \cup Serving

ASSUME NoneAssumption == None \notin Conns /\ None \notin Goroutines

sockVars == <<ctx, opened, gone, queue>>
setupVars == <<kind, beating, bare, uncancelled>>
vars == <<tableVars, setupVars, sockVars, at, on, isClosed, wsLock, stops,
          crashed>>

(* A connection that has been accepted: newServerConn has put it in the    *)
(* table, where others find it, and Add is about to log the table's Len.   *)
Init ==
  /\ connections = Conns /\ connLock = None
  /\ kind \in [Conns -> Kinds]
  /\ beating = {} /\ bare = {} /\ uncancelled = {}
  /\ at = [g \in Goroutines |->
             CASE g[1] = "starter" -> "bind"
               [] g[1] \in {"worker", "app"} -> "idle"
               [] OTHER -> "off"]
  /\ on = [g \in Goroutines |-> IF g \in Bound THEN g[2] ELSE None]
  /\ isClosed = {}
  /\ ctx = [c \in Conns |-> "none"]
  /\ opened = Conns /\ gone = {}
  /\ queue = [c \in Conns |-> 0]
  /\ wsLock = [c \in Conns |-> None]
  /\ stops = [c \in Conns |-> 0]
  /\ crashed = FALSE

-----------------------------------------------------------------------------
(* Control.                                                                *)

Goto(g, place) == at' = [at EXCEPT ![g] = place]

(* Where a goroutine goes on after a call of Send or Stop.  A heartbeat    *)
(* whose Send was refused ends; one that has stopped its connection sends  *)
(* to the quitChan that only it receives from.                             *)
NextPlace(g) ==
  CASE g[1] \in {"reader", "writer"} -> "done"
    [] g[1] = "starter" -> "wait"
    [] g[1] = "heartbeat" -> (CASE at[g] = "trysend" -> "done"
                                [] at[g] = "send" -> "select"
                                [] OTHER -> "selfquit")
    [] OTHER -> "idle"

(* A serving goroutine lets go of the connection when it returns.          *)
Leaves(g) == on' = [on EXCEPT ![g] = IF g \in Bound THEN @ ELSE None]

Return(g) == Goto(g, NextPlace(g)) /\ Leaves(g)

-----------------------------------------------------------------------------
(* Start.                                                                  *)

(* The accept loop, when Add has returned: Clone and BindConn give the     *)
(* connection a heartbeat with a quitChan of its own, if the server has    *)
(* one and is not the WebSocket listener.  Then Start runs.                *)
Bind(c) ==
  /\ at[Starter(c)] = "bind"
  /\ Available
  /\ \/ UNCHANGED beating
     \/ kind[c] # "ws" /\ beating' = beating \cup {c}
  /\ Goto(Starter(c), "heartbeat")
  /\ UNCHANGED <<tableVars, kind, bare, uncancelled, sockVars, on, isClosed,
                 wsLock, stops, crashed>>

StartHeartbeat(c) ==
  /\ at[Starter(c)] = "heartbeat"
  /\ at' = [at EXCEPT ![Starter(c)] = "context",
                      ![Beat(c)] = IF c \in beating THEN "select" ELSE "off"]
  /\ UNCHANGED <<tableVars, setupVars, sockVars, on, isClosed, wsLock, stops,
                 crashed>>

(* Where the reader begins: gnet's returns at once, epoll has none.        *)
FirstRead(c) ==
  CASE kind[c] = "ws" -> "rlock"
    [] kind[c] = "gnet" -> "stop"
    [] kind[c] = "epoll" -> "off"
    [] OTHER -> "read"

StartContext(c) ==
  /\ at[Starter(c)] = "context"
  /\ ctx' = [ctx EXCEPT ![c] = "live"]
  /\ at' = [at EXCEPT ![Starter(c)] = "hook",
                      ![Reader(c)] = FirstRead(c),
                      ![Writer(c)] = IF kind[c] = "quic" THEN "open"
                                     ELSE "select"]
  /\ UNCHANGED <<tableVars, setupVars, opened, gone, queue, on, isClosed,
                 wsLock, stops, crashed>>

StartReturn(c) ==
  /\ at[Starter(c)] = "wait"
  /\ ctx[c] = "done"
  /\ Goto(Starter(c), "done")
  /\ UNCHANGED <<tableVars, setupVars, sockVars, on, isClosed, wsLock, stops,
                 crashed>>

-----------------------------------------------------------------------------
(* Code of the application: a handler, or the OnConnStart hook, returns or *)
(* calls Send or Stop of its connection; a handler, like any other         *)
(* goroutine, may pick one from the table.                                 *)

Handlers == {"worker"} \X Workers

Picks(g) ==
  /\ Available
  /\ \E c \in connections : on' = [on EXCEPT ![g] = c]

Decide(g) ==
  /\ at[g] \in {"handle", "hook"}
  /\ \/ Return(g)
     \/ \E call \in {"trysend", "stop"} :
          Goto(g, call) /\ (UNCHANGED on \/ (g \in Handlers /\ Picks(g)))
  /\ UNCHANGED <<tableVars, setupVars, sockVars, isClosed, wsLock, stops,
                 crashed>>

(* A goroutine of the application, or a worker that serves a connection    *)
(* outside Conns.                                                          *)
AppCall(g) ==
  /\ at[g] = "idle"
  /\ Picks(g)
  /\ \E call \in {"trysend", "stop"} : Goto(g, call)
  /\ UNCHANGED <<tableVars, setupVars, sockVars, isClosed, wsLock, stops,
                 crashed>>

-----------------------------------------------------------------------------
(* Send: the closed check, then a send on msgChan that waits for room or,  *)
(* on an unbuffered channel, for the writer.                               *)

Capacity(c) == IF kind[c] \in {"kcp", "quic"} THEN 0 ELSE Buffer

SendCheck(g) ==
  /\ at[g] = "trysend"
  /\ IF on[g] \in isClosed
       THEN Return(g)
       ELSE Goto(g, "send") /\ UNCHANGED on
  /\ UNCHANGED <<tableVars, setupVars, sockVars, isClosed, wsLock, stops,
                 crashed>>

(* Faulty variant: a send that finds the channel full does not wait.       *)
SendPutUnbounded(g) ==
  /\ at[g] = "send"
  /\ queue' = [queue EXCEPT ![on[g]] = @ + 1]
  /\ Return(g)
  /\ UNCHANGED <<tableVars, setupVars, ctx, opened, gone, isClosed, wsLock,
                 stops, crashed>>

SendPut(g) ==
  /\ at[g] = "send"
  /\ queue[on[g]] < Capacity(on[g])
  /\ queue' = [queue EXCEPT ![on[g]] = @ + 1]
  /\ Return(g)
  /\ UNCHANGED <<tableVars, setupVars, ctx, opened, gone, isClosed, wsLock,
                 stops, crashed>>

SendHand(g) ==
  /\ at[g] = "send"
  /\ Capacity(on[g]) = 0
  /\ at[Writer(on[g])] = "select"
  /\ at' = [at EXCEPT ![g] = NextPlace(g), ![Writer(on[g])] = "write"]
  /\ Leaves(g)
  /\ UNCHANGED <<tableVars, setupVars, sockVars, isClosed, wsLock, stops,
                 crashed>>

-----------------------------------------------------------------------------
(* StartWriter.                                                            *)

(* Reads and writes of a socket fail when this side has closed it, or when *)
(* the peer has gone and the transport notices; KCP, over UDP, does not.   *)
Broken(c) == c \notin opened \/ (c \in gone /\ kind[c] # "kcp")

OpenStream(c) ==
  /\ at[Writer(c)] = "open"
  /\ Goto(Writer(c), IF Broken(c) THEN "stop" ELSE "select")
  /\ UNCHANGED <<tableVars, setupVars, sockVars, on, isClosed, wsLock, stops,
                 crashed>>

(* Faulty variant: messages are taken only when the connection ends.       *)
WriterTakeDrains(c) ==
  /\ at[Writer(c)] = "select"
  /\ ctx[c] = "done"
  /\ \/ /\ queue[c] > 0
        /\ queue' = [queue EXCEPT ![c] = @ - 1]
        /\ Goto(Writer(c), "write")
     \/ queue[c] = 0 /\ Goto(Writer(c), "stop") /\ UNCHANGED queue
  /\ UNCHANGED <<tableVars, setupVars, ctx, opened, gone, on, isClosed, wsLock,
                 stops, crashed>>

(* The select of the writer: a message, or the end of the context.         *)
WriterTake(c) ==
  /\ at[Writer(c)] = "select"
  /\ \/ /\ queue[c] > 0
        /\ queue' = [queue EXCEPT ![c] = @ - 1]
        /\ Goto(Writer(c), "write")
     \/ /\ ctx[c] = "done"
        /\ Goto(Writer(c), "stop")
        /\ UNCHANGED queue
  /\ UNCHANGED <<tableVars, setupVars, ctx, opened, gone, on, isClosed, wsLock,
                 stops, crashed>>

Write(c) ==
  /\ at[Writer(c)] = "write"
  /\ c \in opened
  /\ Goto(Writer(c), "select")
  /\ UNCHANGED <<tableVars, setupVars, sockVars, on, isClosed, wsLock, stops,
                 crashed>>

WriteFails(c) ==
  /\ at[Writer(c)] = "write"
  /\ Broken(c)
  /\ Goto(Writer(c), "stop")
  /\ UNCHANGED <<tableVars, setupVars, sockVars, on, isClosed, wsLock, stops,
                 crashed>>

-----------------------------------------------------------------------------
(* StartReader.  A heartbeat frame changes nothing here (when the peer was *)
(* last heard of is left to BeatCheck's choice).                           *)

(* WebSocket's read keeps the read lock while it waits for a frame.  A     *)
(* waiting Lock keeps out new readers.  On a closed connection the loop    *)
(* goes round without end.                                                 *)
WsReadLock(c) ==
  /\ at[Reader(c)] = "rlock"
  /\ wsLock[c] = None
  /\ \A g \in Goroutines : ~(at[g] = "lock" /\ on[g] = c)
  /\ c \notin isClosed
  /\ wsLock' = [wsLock EXCEPT ![c] = Reader(c)]
  /\ Goto(Reader(c), "read")
  /\ UNCHANGED <<tableVars, setupVars, sockVars, on, isClosed, stops, crashed>>

Unlocked(g) ==
  wsLock' = [c \in Conns |-> IF wsLock[c] = g THEN None ELSE wsLock[c]]

(* A request frame, handed to the pool below.                              *)
ReadRequest(c) ==
  /\ at[Reader(c)] = "read"
  /\ c \in opened
  /\ Goto(Reader(c), "invoke")
  /\ Unlocked(Reader(c))
  /\ UNCHANGED <<tableVars, setupVars, sockVars, on, isClosed, stops, crashed>>

(* Faulty variant: after a short read KCP and QUIC go on with the loop.    *)
ReadOtherContinues(c) ==
  /\ at[Reader(c)] = "read"
  /\ kind[c] = "ws"
  /\ Goto(Reader(c), "rlock")
  /\ Unlocked(Reader(c))
  /\ UNCHANGED <<tableVars, setupVars, sockVars, on, isClosed, stops, crashed>>

(* Faulty variant: an error leaves read without the deferred RUnlock.      *)
ReadOtherKeepsLock(c) ==
  /\ at[Reader(c)] = "read"
  /\ kind[c] \in {"ws", "kcp", "quic"}
  /\ Broken(c) \/ c \notin gone
  /\ Goto(Reader(c), IF kind[c] = "ws" THEN "rlock" ELSE "stop")
  /\ UNCHANGED <<tableVars, setupVars, sockVars, on, isClosed, wsLock, stops,
                 crashed>>

(* A frame that is no request, or an error.  The loop of KCP and QUIC ends *)
(* at a short read, that of TCP and WebSocket never does.                  *)
ReadOther(c) ==
  /\ at[Reader(c)] = "read"
  /\ kind[c] \in {"ws", "kcp", "quic"}
  /\ Broken(c) \/ c \notin gone
  /\ Goto(Reader(c), IF kind[c] = "ws" THEN "rlock" ELSE "stop")
  /\ Unlocked(Reader(c))
  /\ UNCHANGED <<tableVars, setupVars, sockVars, on, isClosed, stops, crashed>>

(* SendMsgToTaskQueue: the pool's Invoke waits for a free worker, which    *)
(* runs DoMsgHandler.  The pool serves connections outside Conns as well,  *)
(* whose handlers may be in a Send for ever: a worker that is idle here    *)
(* may be with them, and need never come.                                  *)
Invoke(c, w) ==
  /\ at[Reader(c)] = "invoke"
  /\ at[w] = "idle"
  /\ at' = [at EXCEPT ![Reader(c)] = FirstRead(c), ![w] = "handle"]
  /\ on' = [on EXCEPT ![w] = c]
  /\ UNCHANGED <<tableVars, setupVars, sockVars, isClosed, wsLock, stops,
                 crashed>>

-----------------------------------------------------------------------------
(* The heartbeat: check, at a tick, sends or finds the peer silent for too *)
(* long and stops the connection (the default onRemoteNotAlive).  IsAlive  *)
(* is false on a closed connection.                                        *)

BeatCheck(c) ==
  /\ at[Beat(c)] = "select"
  /\ \/ c \notin isClosed /\ Goto(Beat(c), "trysend")
     \/ Goto(Beat(c), "stop")
  /\ UNCHANGED <<tableVars, setupVars, sockVars, on, isClosed, wsLock, stops,
                 crashed>>

-----------------------------------------------------------------------------
(* Stop, by whichever goroutine g.                                         *)

StopPlaces == {"stop", "lock", "hb", "quit", "mark", "remove", "count",
               "close", "cancel"}

StopCheck(g) ==
  /\ at[g] = "stop"
  /\ IF on[g] \in isClosed
       THEN Return(g)
       ELSE /\ Goto(g, IF kind[on[g]] = "ws" THEN "lock" ELSE "hb")
            /\ UNCHANGED on
  /\ UNCHANGED <<tableVars, setupVars, sockVars, isClosed, wsLock, stops,
                 crashed>>

(* Faulty variant: Stop of WebSocket without its Lock.                     *)
StopLockSkipped(g) ==
  /\ at[g] = "lock"
  /\ Goto(g, "mark")
  /\ UNCHANGED <<tableVars, setupVars, sockVars, on, isClosed, wsLock, stops,
                 crashed>>

(* WebSocket only: Lock, and the check again.  It never has a heartbeat.   *)
StopLock(g) ==
  /\ at[g] = "lock"
  /\ wsLock[on[g]] = None
  /\ IF on[g] \in isClosed
       THEN Return(g) /\ UNCHANGED wsLock
       ELSE /\ wsLock' = [wsLock EXCEPT ![on[g]] = g]
            /\ Goto(g, "mark")
            /\ UNCHANGED on
  /\ UNCHANGED <<tableVars, setupVars, sockVars, isClosed, stops, crashed>>

(* c.hb is nil before BindConn, and where there is no heartbeat.           *)
StopHeartbeat(g) ==
  /\ at[g] = "hb"
  /\ IF on[g] \in beating
       THEN Goto(g, "quit") /\ UNCHANGED bare
       ELSE Goto(g, "mark") /\ bare' = bare \cup {on[g]}
  /\ UNCHANGED <<tableVars, kind, beating, uncancelled, sockVars, on, isClosed,
                 wsLock, stops, crashed>>

(* Faulty variant: quitChan has room for a message, so hb.Stop does not    *)
(* wait for the heartbeat.                                                 *)
HeartbeatQuitBuffered(g) ==
  /\ at[g] = "quit"
  /\ Goto(g, "mark")
  /\ UNCHANGED <<tableVars, setupVars, sockVars, on, isClosed, wsLock, stops,
                 crashed>>

(* hb.Stop: a send on the unbuffered quitChan, which the heartbeat takes   *)
(* only in its select; it ends.                                            *)
HeartbeatQuit(g) ==
  /\ at[g] = "quit"
  /\ at[Beat(on[g])] = "select"
  /\ at' = [at EXCEPT ![g] = "mark", ![Beat(on[g])] = "done"]
  /\ UNCHANGED <<tableVars, setupVars, sockVars, on, isClosed, wsLock, stops,
                 crashed>>

(* Faulty variant: the context is cancelled as soon as isClosed is set.    *)
StopMarkCancels(g) ==
  /\ at[g] = "mark"
  /\ isClosed' = isClosed \cup {on[g]}
  /\ stops' = [stops EXCEPT ![on[g]] = @ + 1]
  /\ ctx' = [ctx EXCEPT ![on[g]] = "done"]
  /\ Goto(g, "remove")
  /\ UNCHANGED <<tableVars, setupVars, opened, gone, queue, on, wsLock, crashed>>

(* isClosed is set and the OnConnStop hook called.                         *)
StopMark(g) ==
  /\ at[g] = "mark"
  /\ isClosed' = isClosed \cup {on[g]}
  /\ stops' = [stops EXCEPT ![on[g]] = @ + 1]
  /\ Goto(g, "remove")
  /\ UNCHANGED <<tableVars, setupVars, sockVars, on, wsLock, crashed>>

(* Faulty variant: Stop returns when the connection has left the table.    *)
StopRemoveReturns(g) ==
  /\ at[g] = "remove"
  /\ Remove(on[g])
  /\ Return(g) /\ Unlocked(g)
  /\ UNCHANGED <<setupVars, sockVars, isClosed, stops, crashed>>

StopRemove(g) ==
  /\ at[g] = "remove"
  /\ \/ /\ kind[on[g]] = "epoll"
        /\ RemoveHolding(g, on[g])
        /\ Goto(g, IF on[g] \in connections THEN "count" ELSE "close")
     \/ /\ kind[on[g]] # "epoll"
        /\ Remove(on[g])
        /\ Goto(g, "count")
  /\ UNCHANGED <<setupVars, sockVars, on, isClosed, wsLock, stops, crashed>>

(* Remove's log line asks for Len.                                         *)
StopCount(g) ==
  /\ at[g] = "count"
  /\ Available
  /\ Goto(g, "close")
  /\ UNCHANGED <<tableVars, setupVars, sockVars, on, isClosed, wsLock, stops,
                 crashed>>

(* Faulty variant: the cancel is left out.                                 *)
StopCloseOnly(g) ==
  /\ at[g] = "close"
  /\ opened' = opened \ {on[g]}
  /\ Return(g) /\ Unlocked(g)
  /\ UNCHANGED <<tableVars, setupVars, ctx, gone, queue, isClosed, stops,
                 crashed>>

(* Conn.Close.  Of a socket already closed it may give an error, which     *)
(* returns before the cancel.                                              *)
StopClose(g) ==
  /\ at[g] = "close"
  /\ opened' = opened \ {on[g]}
  /\ \/ Goto(g, "cancel") /\ UNCHANGED <<on, wsLock>>
     \/ on[g] \notin opened /\ Return(g) /\ Unlocked(g)
  /\ UNCHANGED <<tableVars, setupVars, ctx, gone, queue, isClosed, stops,
                 crashed>>

(* cancel is nil until Start has made the context.  The pool recovers the  *)
(* panic, and so does net/http in its handlers; elsewhere it ends the      *)
(* process.                                                                *)
StopCancel(g) ==
  /\ at[g] = "cancel"
  /\ \/ /\ ctx[on[g]] # "none"
        /\ ctx' = [ctx EXCEPT ![on[g]] = "done"]
        /\ Return(g) /\ Unlocked(g)
        /\ UNCHANGED <<uncancelled, crashed>>
     \/ /\ ctx[on[g]] = "none" /\ g \in Serving
        /\ uncancelled' = uncancelled \cup {on[g]}
        /\ Return(g) /\ Unlocked(g)
        /\ UNCHANGED <<ctx, crashed>>
     \/ /\ ctx[on[g]] = "none" /\ g \notin Handlers
        /\ crashed' = TRUE
        /\ UNCHANGED <<uncancelled, ctx, at, on, wsLock>>
  /\ UNCHANGED <<tableVars, kind, beating, bare, opened, gone, queue, isClosed,
                 stops>>

Stop(g) ==
  \/ StopCheck(g) \/ StopLock(g) \/ StopHeartbeat(g) \/ HeartbeatQuit(g)
  \/ StopMark(g) \/ StopRemove(g) \/ StopCount(g) \/ StopClose(g)
  \/ StopCancel(g)

-----------------------------------------------------------------------------
PeerGoes(c) ==
  /\ c \notin gone
  /\ gone' = gone \cup {c}
  /\ UNCHANGED <<tableVars, setupVars, ctx, opened, queue, at, on, isClosed,
                 wsLock, stops, crashed>>

Start(c) == StartHeartbeat(c) \/ StartContext(c) \/ StartReturn(c)

StartWriter(c) ==
  OpenStream(c) \/ WriterTake(c) \/ Write(c) \/ WriteFails(c)

StartReader(c) == WsReadLock(c) \/ ReadRequest(c) \/ ReadOther(c)

Lifecycle(c) ==
  \/ Bind(c) \/ Start(c)
  \/ StartWriter(c) \/ StartReader(c) \/ BeatCheck(c) \/ PeerGoes(c)

Send(g) == SendCheck(g) \/ SendPut(g) \/ SendHand(g)

Calls(g) == Decide(g) \/ Send(g) \/ Stop(g)

Next ==
  /\ ~crashed
  /\ \/ \E c \in Conns : Lifecycle(c)
     \/ \E c \in Conns, w \in Handlers : Invoke(c, w)
     \/ \E g \in Serving : AppCall(g)
     \/ \E g \in Goroutines : Calls(g)

Spec == Init /\ [][Next]_vars

(* The goroutines go on, the ticker fires, the code of the application     *)
(* returns or calls; a waiting Invoke need not get a worker.  A broken socket holds a  *)
(* bounded number of frames and takes a bounded number, so its reads and   *)
(* writes fail in the end: strong fairness.  Nobody has to send a frame,   *)
(* to take what is written, or to go away.                                 *)
Fairness ==
  /\ \A c \in Conns :
       /\ WF_vars(~crashed /\ (Bind(c) \/ Start(c)))
       /\ WF_vars(~crashed /\ (OpenStream(c) \/ WriterTake(c)))
       /\ SF_vars(~crashed /\ WriteFails(c))
       /\ WF_vars(~crashed /\ WsReadLock(c))
       /\ SF_vars(~crashed /\ Broken(c) /\ ReadOther(c))
       /\ WF_vars(~crashed /\ BeatCheck(c))
  /\ \A g \in Goroutines : WF_vars(~crashed /\ Calls(g))

FairSpec == Spec /\ Fairness
-----------------------------------------------------------------------------
(* Properties.                                                             *)

Places == {"off", "idle", "bind", "heartbeat", "context", "hook",
           "handle", "open", "select", "write", "rlock", "read", "invoke",
           "trysend", "send", "wait", "selfquit", "done"} \cup StopPlaces

(* The values the fields of a connection can hold.                         *)
TypeOK ==
  /\ connections \subseteq Conns /\ connLock \in Goroutines \cup {None}
  /\ kind \in [Conns -> AllKinds]
  /\ beating \subseteq Conns /\ bare \subseteq Conns
  /\ uncancelled \subseteq Conns
  /\ at \in [Goroutines -> Places]
  /\ on \in [Goroutines -> Conns \cup {None}]
  /\ isClosed \subseteq Conns /\ opened \subseteq Conns /\ gone \subseteq Conns
  /\ ctx \in [Conns -> {"none", "live", "done"}]
  /\ queue \in [Conns -> 0..Buffer]
  /\ wsLock \in [Conns -> Goroutines \cup {None}]
  /\ stops \in [Conns -> Nat]
  /\ crashed \in BOOLEAN

(* The goroutines that have marked c and are still in Stop.                *)
Stopping(c) ==
  {g \in Goroutines :
     on[g] = c /\ at[g] \in {"remove", "count", "close", "cancel"}}

(* The OnConnStop hook runs once, though isClosed is checked and set       *)
(* without a lock: the heartbeat takes one quit message, so one Stop gets  *)
(* past it, and WebSocket checks again under its lock.  It takes a Stop    *)
(* that has found c.hb nil to run it twice: for want of a heartbeat, or    *)
(* because it came between newServerConn's Add and BindConn, and then in   *)
(* spite of the heartbeat that is bound after it.                          *)
HookOnce ==
  \A c \in Conns : c \notin bare \/ kind[c] = "ws" => stops[c] <= 1

(* When no Stop of a closed connection is under way, it has left the       *)
(* table, its socket is closed and its context cancelled, whichever of two *)
(* racing calls did which part, and however one of them ended.  Only the   *)
(* cancel can be missing, where a panic at a nil cancel was recovered.     *)
ClosedIsClean ==
  \A c \in isClosed :
    Stopping(c) = {} => /\ c \notin connections \cup opened
                        /\ ctx[c] = "done" \/ c \in uncancelled

(* Who sees the context cancelled finds the rest of Stop done.             *)
CancelLast ==
  \A c \in Conns :
    ctx[c] = "done" => c \in isClosed /\ c \notin connections \cup opened

(* The table counts every open socket, the ones being closed excepted, so  *)
(* that the check of MaxConn means something.                              *)
OpenIsCounted ==
  \A c \in opened : c \in connections \/ Stopping(c) # {}

(* WebSocket's reader is never in ReadMessage on a closed connection.      *)
WsReadsOpen ==
  \A c \in Conns :
    kind[c] = "ws" /\ at[Reader(c)] = "read" => c \in opened \ isClosed

(* No heartbeat is sent on a closed connection, unless a Stop found c.hb   *)
(* nil: one that began before BindConn marks the connection later, beside  *)
(* the heartbeat it knows nothing of.                                      *)
NoBeatOnClosed ==
  \A c \in isClosed \ bare : at[Beat(c)] \notin {"trysend", "send"}

(* The writer of a closed connection ends, and so gives its goroutine      *)
(* back, where there is no heartbeat to compete for; a Stop whose panic at *)
(* a nil cancel was recovered leaves it in its select for good.  (Here and *)
(* below: while no Stop of the server holds the table, see Server; or the  *)
(* panic has ended the process.)                                           *)
WriterEnds ==
  \A c \in Conns :
    c \in isClosed \ beating
      ~> at[Writer(c)] = "done" \/ crashed \/ c \in uncancelled

(* A QUIC peer that has gone is taken off the table, where no heartbeat is *)
(* in the way: either loop ends and stops the connection.  The one thing   *)
(* that can keep it there is the pool it shares with the others: handlers  *)
(* in a Send that nobody receives hold their workers for good, and the     *)
(* reader waits in Invoke.                                                 *)
QuicReaped ==
  \A c \in Conns :
    kind[c] = "quic" /\ c \in gone \ beating
      ~> \/ c \notin connections \/ c \in beating \/ crashed
         \/ [](at[Reader(c)] = "invoke")

(* The goroutines that wait for WebSocket's lock in Stop.                  *)
Waiting(c) == {g \in Goroutines : on[g] = c /\ at[g] = "lock"}

(* WebSocket's Stop waits while the reader waits for a frame, but not for  *)
(* a peer that has gone: all that wait then get the lock, and after the    *)
(* first of them nobody comes to wait again.                               *)
WsStopGetsLock ==
  \A c \in Conns :
    c \in gone /\ Waiting(c) # {} ~> Waiting(c) = {} \/ crashed

(* "Remote connection is not alive, stop it" (heartbeat.go:42-46): the     *)
(* connection of a peer found silent is stopped and leaves the table.      *)
SilentPeerStopped ==
  \A c \in Conns : at[Beat(c)] = "stop" ~> c \notin connections \/ crashed

(* All but readers and writers, which never call Send.                     *)
Senders == Goroutines \ ({"reader", "writer"} \X Conns)

(* A Send that has passed its check is let go, unless the writer gives up  *)
(* its select: for a Write that does not return, or for a Stop, after      *)
(* which nobody reads the unbuffered msgChan of KCP and QUIC any more.     *)
SendWaitsForWriter ==
  \A g \in Senders : \A c \in Conns :
    (at[g] = "send" /\ on[g] = c)
      ~> \/ at[g] # "send" \/ crashed
         \/ at[Writer(c)] \notin {"off", "open", "select"}
=============================================================================
