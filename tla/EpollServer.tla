----------------------------- MODULE EpollServer -----------------------------
(***************************************************************************)
(* The epoll server (src/epoll): an accept loop that registers each socket *)
(* with epoll and then in the table, one event loop that reads for all     *)
(* connections and hands their requests to the worker pool, the Stops of   *)
(* the connections and of the server.                                      *)
(*                                                                         *)
(* A frame is pieces of a head and a piece of a body; what the cut of the  *)
(* stream does to its contents is the subject of module Framing.  What     *)
(* Stop does inside a connection, with its heartbeat, is in Connection:    *)
(* here a Stop may stay before its mark.  The pool is in WorkerPool.       *)
(***************************************************************************)
EXTENDS Naturals, FiniteSets, ConnManager

CONSTANTS
  Callers,    \* goroutines of a connection that may call its Stop
  Stopper,    \* the goroutine that calls Stop of the server
  MaxConn,    \* utils.Conf.MaxConn
  HeadPieces, \* pieces a head can come in
  BodyPieces, \* pieces a body can come in
  WorkerPoolSize, \* utils.Conf.WorkerPoolSize
  MaxFrames   \* bound: frames a peer sends

Closers == Conns \X Callers

ASSUME EpollAssumption ==
  /\ IsFiniteSet(Conns)
  /\ None \notin Closers /\ Stopper \notin Closers /\ Stopper # None
  /\ MaxConn \in Nat \ {0} /\ MaxFrames \in Nat
  /\ HeadPieces \in Nat \ {0} /\ BodyPieces \in Nat \ {0}
  /\ WorkerPoolSize \in Nat

FramePieces == HeadPieces + BodyPieces

VARIABLES
  at,          \* where the accept loop is
  holds,       \* the socket it has accepted and not yet dealt with
  listening,   \* the listener is open
  exit,        \* exitChan has been closed
  interest,    \* sockets registered with epoll
  opened,      \* sockets accepted and not closed
  known,       \* sockets that have been in the table
  loopAt,      \* where the event loop is
  batch,       \* events it has still to look at
  found,       \* those of the events that the table knew
  reading,     \* the connection whose Read it is in
  busy,        \* workers of the pool that are in a handler
  sent,        \* pieces that have come from each peer
  read,        \* pieces that have been read of each connection
  gone,        \* peers that have closed or reset
  isClosed,    \* connections whose isClosed is set
  stopAt,      \* where each closer, and the stopper, is
  crashed      \* the process has ended in a panic

acceptVars == <<at, holds, listening>>
socketVars == <<interest, opened, known>>
loopVars == <<loopAt, batch, found, reading, read, busy>>
peerVars == <<sent, gone>>
stopVars == <<isClosed, stopAt, exit>>
vars == <<tableVars, acceptVars, socketVars, loopVars, peerVars, stopVars,
          crashed>>

Init ==
  /\ connections = {} /\ connLock = None
  /\ at = "check" /\ holds = None
  /\ listening = TRUE /\ exit = FALSE
  /\ interest = {} /\ opened = {} /\ known = {}
  /\ loopAt = "wait" /\ batch = {} /\ found = {} /\ reading = None
  /\ busy = 0
  /\ sent = [c \in Conns |-> 0] /\ read = [c \in Conns |-> 0]
  /\ gone = {} /\ isClosed = {}
  /\ stopAt = [g \in Closers \cup {Stopper} |-> "idle"]
  /\ crashed = FALSE

-----------------------------------------------------------------------------
(* The accept loop.                                                        *)

HasRoom == Cardinality(connections) < MaxConn

CheckRoom ==
  /\ at = "check"
  /\ Available /\ HasRoom
  /\ at' = "accept"
  /\ UNCHANGED <<tableVars, holds, listening, socketVars, loopVars, peerVars,
                 stopVars, crashed>>

(* AcceptTCP and NextVal; without an id the socket is dropped, open and in *)
(* no table.                                                               *)
Accept(c) ==
  /\ at = "accept" /\ listening
  /\ c \notin opened \cup isClosed
  /\ opened' = opened \cup {c}
  /\ \/ at' = "register" /\ holds' = c
     \/ at' = "check" /\ UNCHANGED holds
  /\ UNCHANGED <<tableVars, listening, interest, known, loopVars, peerVars,
                 stopVars, crashed>>

(* After an error the accept loop is over, whatever the error was.         *)
AcceptFails ==
  /\ at = "accept"
  /\ at' = "ended"
  /\ UNCHANGED <<tableVars, holds, listening, socketVars, loopVars, peerVars,
                 stopVars, crashed>>

StartOf(c) == stopAt' = [g \in DOMAIN stopAt |->
                           IF g \in {c} \X Callers THEN "run" ELSE stopAt[g]]

(* EPOLL_CTL_ADD, before the lock.  On an error Add returns, and the       *)
(* connection is started without ever being in the table; who stops it     *)
(* has it from Start.                                                      *)
Register ==
  /\ at = "register"
  /\ \/ /\ interest' = interest \cup {holds}
        /\ at' = "list"
        /\ UNCHANGED <<holds, stopAt>>
     \/ /\ StartOf(holds)
        /\ at' = "check" /\ holds' = None
        /\ UNCHANGED interest
  /\ UNCHANGED <<tableVars, listening, opened, known, loopVars, peerVars,
                 isClosed, exit, crashed>>

(* The two maps, under the lock.  From here on the event loop finds the    *)
(* connection, and a handler of its first frame, or anybody who looks in   *)
(* the table, can stop it, though it has not been started.                 *)
List ==
  /\ at = "list"
  /\ Add(holds)
  /\ known' = known \cup {holds}
  /\ StartOf(holds)
  /\ at' = "count"
  /\ UNCHANGED <<holds, listening, interest, opened, loopVars, peerVars,
                 isClosed, exit, crashed>>

(* The Len of Add's log line; go Start.                                    *)
Count ==
  /\ at = "count"
  /\ Available
  /\ at' = "check" /\ holds' = None
  /\ UNCHANGED <<tableVars, listening, socketVars, loopVars, peerVars,
                 stopVars, crashed>>

-----------------------------------------------------------------------------
(* The peers.                                                              *)

(* What came before the registration shows when it has been made.          *)
Piece(c) ==
  /\ c \in interest \ gone
  /\ sent[c] < FramePieces * MaxFrames
  /\ sent' = [sent EXCEPT ![c] = @ + 1]
  /\ UNCHANGED <<tableVars, acceptVars, socketVars, loopVars, gone, stopVars,
                 crashed>>

Leave(c) ==
  /\ c \in interest \ gone
  /\ gone' = gone \cup {c}
  /\ UNCHANGED <<tableVars, acceptVars, socketVars, loopVars, sent, stopVars,
                 crashed>>

-----------------------------------------------------------------------------
(* The event loop.                                                         *)

(* Level triggered: there is something to read, or the end of it.          *)
Ready == {c \in interest : sent[c] > read[c] \/ c \in gone}

EpollWait ==
  /\ loopAt = "wait"
  /\ Ready # {}
  /\ batch' = Ready
  /\ loopAt' = "look"
  /\ UNCHANGED <<tableVars, acceptVars, socketVars, found, reading, read,
                 busy, peerVars, stopVars, crashed>>

(* The events become connections under the read lock: nil for a socket     *)
(* that is not in the maps.                                                *)
LookUp ==
  /\ loopAt = "look"
  /\ Available
  /\ found' = batch \cap connections
  /\ loopAt' = "next"
  /\ UNCHANGED <<tableVars, acceptVars, socketVars, batch, reading, read,
                 busy, peerVars, stopVars, crashed>>

(* The next connection of the slice; the assertion that nil is a           *)
(* *Connection panics.                                                     *)
ReadNext(c) ==
  /\ loopAt = "next" /\ c \in batch
  /\ batch' = batch \ {c}
  /\ IF c \in found
       THEN reading' = c /\ loopAt' = "head" /\ UNCHANGED crashed
       ELSE crashed' = TRUE /\ UNCHANGED <<loopAt, reading>>
  /\ UNCHANGED <<tableVars, acceptVars, socketVars, found, read, busy,
                 peerVars, stopVars>>

BatchDone ==
  /\ loopAt = "next" /\ batch = {}
  /\ found' = {} /\ loopAt' = "wait"
  /\ UNCHANGED <<tableVars, acceptVars, socketVars, batch, reading, read,
                 busy, peerVars, stopVars, crashed>>

Unread(c) == sent[c] - read[c]

Needs == IF loopAt = "head" THEN HeadPieces ELSE BodyPieces

(* io.ReadFull: it waits, and the event loop with it, until all has come.  *)
(* Behind the body of a request comes SendMsgToTaskQueue; a heartbeat, or  *)
(* a request where there is no pool, ends the Read.                        *)
ReadFull ==
  /\ loopAt \in {"head", "body"}
  /\ Unread(reading) >= Needs
  /\ read' = [read EXCEPT ![reading] = @ + Needs]
  /\ \/ loopAt = "head" /\ loopAt' = "body" /\ UNCHANGED reading
     \/ loopAt = "body" /\ loopAt' = "invoke" /\ UNCHANGED reading
     \/ loopAt = "body" /\ loopAt' = "next" /\ reading' = None
  /\ UNCHANGED <<tableVars, acceptVars, socketVars, batch, found, busy,
                 peerVars, stopVars, crashed>>

ReadCutShort ==
  /\ loopAt \in {"head", "body"}
  /\ reading \in gone /\ Unread(reading) < Needs
  /\ read' = [read EXCEPT ![reading] = sent[reading]]


(* An error, the end of the stream included; the loop drops it, and nobody *)
(* is told.                                                                *)
ReadFails ==
  /\ ReadCutShort
  /\ reading' = None /\ loopAt' = "next"
  /\ UNCHANGED <<tableVars, acceptVars, socketVars, batch, found, busy,
                 peerVars, stopVars, crashed>>

(* The pool's Invoke waits, and the event loop with it, while every worker *)
(* is in a handler.                                                        *)
Invoke ==
  /\ loopAt = "invoke"
  /\ busy < WorkerPoolSize
  /\ busy' = busy + 1
  /\ reading' = None /\ loopAt' = "next"
  /\ UNCHANGED <<tableVars, acceptVars, socketVars, batch, found, read,
                 peerVars, stopVars, crashed>>

(* A handler may never return: its Send can wait for ever.                 *)
HandlerReturns ==
  /\ busy > 0
  /\ busy' = busy - 1
  /\ UNCHANGED <<tableVars, acceptVars, socketVars, loopAt, batch, found,
                 reading, read, peerVars, stopVars, crashed>>

-----------------------------------------------------------------------------
(* Stop of a connection.                                                   *)

StopGoto(g, place) == stopAt' = [stopAt EXCEPT ![g] = place]

(* The writer calls Stop after a Write that failed, and whoever else has   *)
(* the connection when he likes.                                           *)
StopCheck(g) ==
  /\ stopAt[g] = "run"
  /\ StopGoto(g, IF g[1] \in isClosed THEN "done" ELSE "mark")
  /\ UNCHANGED <<tableVars, acceptVars, socketVars, loopVars, peerVars,
                 isClosed, exit, crashed>>

StopMark(g) ==
  /\ stopAt[g] = "mark"
  /\ isClosed' = isClosed \cup {g[1]}
  /\ StopGoto(g, "remove")
  /\ UNCHANGED <<tableVars, acceptVars, socketVars, loopVars, peerVars, exit,
                 crashed>>

(* Faulty variant: Remove unlocks before it asks for Len.                  *)
StopRemoveUnlocks(g) ==
  /\ stopAt[g] = "remove"
  /\ Remove(g[1])
  /\ interest' = interest \ {g[1]}
  /\ StopGoto(g, "close")
  /\ UNCHANGED <<acceptVars, opened, known, loopVars, peerVars, isClosed,
                 exit, crashed>>

(* Remove.  EPOLL_CTL_DEL of a connection that Add could not register is   *)
(* an error, and Remove returns; after any other the Len of the log line   *)
(* waits for the lock that Remove itself still holds.                      *)
StopRemove(g) ==
  /\ stopAt[g] = "remove"
  /\ RemoveHolding(g, g[1])
  /\ interest' = interest \ {g[1]}
  /\ StopGoto(g, IF g[1] \in interest THEN "len" ELSE "close")
  /\ UNCHANGED <<acceptVars, opened, known, loopVars, peerVars, isClosed,
                 exit, crashed>>

(* The socket is closed and the context cancelled.  A second Close is an   *)
(* error, and changes nothing.                                             *)
StopClose(g) ==
  /\ stopAt[g] = "close"
  /\ opened' = opened \ {g[1]}
  /\ StopGoto(g, "done")
  /\ UNCHANGED <<tableVars, acceptVars, interest, known, loopVars, peerVars,
                 isClosed, exit, crashed>>

-----------------------------------------------------------------------------
(* Stop of the server.                                                     *)

ClearLock ==
  /\ stopAt[Stopper] = "idle"
  /\ Available
  /\ connLock' = Stopper
  /\ StopGoto(Stopper, "clear")
  /\ UNCHANGED <<connections, acceptVars, socketVars, loopVars, peerVars,
                 isClosed, exit, crashed>>

(* Faulty variant: the table is emptied in the place of the Removes.       *)
ClearEmpties ==
  /\ stopAt[Stopper] = "clear"
  /\ connections' = {}
  /\ connLock' = None
  /\ StopGoto(Stopper, "exit")
  /\ UNCHANGED <<acceptVars, socketVars, loopVars, peerVars, isClosed, exit,
                 crashed>>

(* ClearConn calls Remove for the connections, under the lock that Remove  *)
(* takes: it gets on only when there is none.                              *)
ClearUnlock ==
  /\ stopAt[Stopper] = "clear"
  /\ connections = {}
  /\ connLock' = None
  /\ StopGoto(Stopper, "exit")
  /\ UNCHANGED <<connections, acceptVars, socketVars, loopVars, peerVars,
                 isClosed, exit, crashed>>

(* After the Len of ClearConn's log line.                                  *)
CloseExit ==
  /\ stopAt[Stopper] = "exit"
  /\ Available
  /\ exit' = TRUE
  /\ StopGoto(Stopper, "done")
  /\ UNCHANGED <<tableVars, acceptVars, socketVars, loopVars, peerVars,
                 isClosed, crashed>>

CloseListener ==
  /\ exit /\ listening
  /\ listening' = FALSE
  /\ UNCHANGED <<tableVars, at, holds, socketVars, loopVars, peerVars,
                 stopVars, crashed>>

-----------------------------------------------------------------------------
Accepting ==
  \/ CheckRoom \/ AcceptFails \/ Register \/ List \/ Count
  \/ \E c \in Conns : Accept(c)

Looping ==
  \/ EpollWait \/ LookUp \/ BatchDone \/ ReadFull \/ ReadFails \/ Invoke
  \/ \E c \in Conns : ReadNext(c)

Stop(g) == StopCheck(g) \/ StopMark(g) \/ StopRemove(g) \/ StopClose(g)

Stopping == ClearLock \/ ClearUnlock \/ CloseExit \/ CloseListener

(* A panic ends every goroutine.                                           *)
Next ==
  /\ ~crashed
  /\ \/ Accepting \/ Looping \/ HandlerReturns \/ Stopping
     \/ \E c \in Conns : Piece(c) \/ Leave(c)
     \/ \E g \in Closers : Stop(g)

Spec == Init /\ [][Next]_vars

(* The event loop runs.  Nobody has to connect, to send, to go away, to    *)
(* stop anything or to return from a handler.                              *)
Fairness == WF_vars(~crashed /\ Looping)

FairSpec == Spec /\ Fairness
-----------------------------------------------------------------------------
(* Properties.                                                             *)

(* The values of the variables.                                            *)
TypeOK ==
  /\ connections \subseteq Conns
  /\ connLock \in Closers \cup {Stopper, None}
  /\ at \in {"check", "accept", "register", "list", "count", "ended"}
  /\ holds \in Conns \cup {None}
  /\ listening \in BOOLEAN /\ exit \in BOOLEAN /\ crashed \in BOOLEAN
  /\ interest \subseteq Conns /\ opened \subseteq Conns
  /\ known \subseteq Conns
  /\ loopAt \in {"wait", "look", "next", "head", "body", "invoke"}
  /\ batch \subseteq Conns /\ found \subseteq Conns
  /\ reading \in Conns \cup {None} /\ busy \in 0..WorkerPoolSize
  /\ sent \in [Conns -> Nat] /\ read \in [Conns -> Nat]
  /\ \A c \in Conns : read[c] <= sent[c]
  /\ gone \subseteq Conns /\ isClosed \subseteq Conns
  /\ stopAt \in [Closers \cup {Stopper} ->
       {"idle", "run", "mark", "remove", "len", "close", "clear", "exit",
        "done"}]

(* Connections that the accept loop is still to add.                       *)
Coming == IF at \in {"accept", "register", "list"} THEN 1 ELSE 0

(* One accept loop, which adds before it checks again: the table with what *)
(* the loop is about to accept or to add is within MaxConn.                *)
WithinMaxConn == Cardinality(connections) + Coming <= MaxConn

(* The event loop finds nil, and panics on it, only in the gap between     *)
(* EPOLL_CTL_ADD and the maps; never for a connection that was taken out   *)
(* after its event: that a Remove keeps the lock for ever rules this out.  *)
NilOnlyInGap ==
  [][loopAt = "look" /\ loopAt' = "next" /\ found' # batch
       => at = "list" /\ batch \ found' = {holds}]_vars

(* No socket that ever was in the table is closed again, whoever stops its *)
(* connection: the Stop gets no further than Remove.                       *)
ListedNeverClosed == known \subseteq opened

(* Stop of the server gets to close exitChan only while every connection   *)
(* that ever was in the table is still there: with one in it ClearConn     *)
(* waits for itself, and whoever has taken one out keeps the lock.         *)
ExitMeansNoneRemoved ==
  [][exit' # exit => known \subseteq connections]_vars

(* What the event loop can wait for: the lock that a Remove or ClearConn   *)
(* keeps, the rest of a frame, or the return of a handler while all of the *)
(* workers are in one; or it has panicked.                                 *)
Stuck ==
  \/ crashed
  \/ connLock # None
  \/ loopAt \in {"head", "body"} /\ reading \notin gone
       /\ Unread(reading) < Needs
  \/ loopAt = "invoke" /\ busy = WorkerPoolSize

=============================================================================
