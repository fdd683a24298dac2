------------------------------- MODULE Server -------------------------------
(***************************************************************************)
(* The server around the connection table: of a Server the accept loops of *)
(* TCP, KCP and QUIC and the upgrade handler of the WebSocket listener, of *)
(* a GServer the OnOpened of gnet's event loops; the connections they      *)
(* register, and Stop with ConnManager.ClearConn.                          *)
(*                                                                         *)
(* A connection is reduced to one goroutine that calls Stop some time; it  *)
(* has no heartbeat.  What happens inside a connection is the subject of   *)
(* module Connection.                                                      *)
(***************************************************************************)
EXTENDS Naturals, FiniteSets, ConnManager

CONSTANTS
  Loops,       \* accept loops
  Upgraders,   \* goroutines of the HTTP server that call upgradeWs
  EventLoops,  \* event loops of gnet, which call GServer.OnOpened
  MaxConn,     \* utils.Conf.MaxConn
  IdsRunOut,   \* TRUE when NextVal may give an error
  Stopper      \* the goroutine that calls Stop of the server, once

Acceptors == Loops \cup Upgraders \cup EventLoops

(* Goroutines of connections are named by their connections.               *)
Closers == Conns \cup {Stopper}

ASSUME AcceptorsAssumption ==
  /\ IsFiniteSet(Acceptors)
  /\ IsFiniteSet(Conns)
  /\ MaxConn \in Nat \ {0}
  /\ IdsRunOut \in BOOLEAN

ASSUME GoroutinesAssumption ==
  /\ Loops \cap (Upgraders \cup EventLoops) = {}
  /\ Upgraders \cap EventLoops = {}
  /\ Stopper \notin Conns \cup Acceptors /\ Conns \cap Acceptors = {}
  /\ None \notin Conns \cup Acceptors \cup {Stopper}

VARIABLES
  at,          \* where each acceptor is
  holds,       \* socket an acceptor has accepted and not yet registered
  opened,      \* sockets accepted and not closed
  known,       \* connections that have been registered
  leaked,      \* sockets the server has dropped without closing
  isClosed,    \* connections whose isClosed is set
  stopAt,      \* where each connection's goroutine, and the stopper, is
  stopping,    \* connection the stopper is stopping
  listening,   \* accept loops whose listener is open
  exit         \* exitChan has been closed

acceptVars == <<at, holds>>
closeVars == <<isClosed, stopAt, stopping>>
vars == <<tableVars, acceptVars, closeVars, opened, known, leaked, listening,
          exit>>

Rest(a) == IF a \in Loops THEN "check" ELSE "idle"

(* A server has either accept loops and upgraders or gnet's event loops.   *)
Init ==
  /\ connections = {} /\ connLock = None
  /\ \E running \in {Loops \cup Upgraders, EventLoops} :
       at = [a \in Acceptors |-> IF a \in running THEN Rest(a) ELSE "off"]
  /\ holds = [a \in Acceptors |-> None]
  /\ opened = {} /\ known = {} /\ leaked = {} /\ isClosed = {}
  /\ stopAt = [g \in Closers |-> "idle"]
  /\ stopping = None
  /\ listening = {a \in Loops : at[a] # "off"}
  /\ exit = FALSE

Running == {a \in Acceptors : at[a] # "off"}
Gnet == Running \cap EventLoops # {}

-----------------------------------------------------------------------------
(* Accepting.                                                              *)

(* Faulty variant: one connection more than the limit.                     *)
HasRoomOffByOne == Cardinality(connections) <= MaxConn

HasRoom == Cardinality(connections) < MaxConn

Goto(a, place) == at' = [at EXCEPT ![a] = place]

(* The check of Len before the accept; a full table makes a loop spin, and *)
(* an upgrade request go unanswered.                                       *)
CheckRoom(a) ==
  /\ at[a] = Rest(a) /\ a \notin EventLoops
  /\ Available /\ HasRoom
  /\ Goto(a, "accept")
  /\ UNCHANGED <<tableVars, holds, closeVars, opened, known, leaked,
                 listening, exit>>

Fresh == Conns \ (opened \cup known \cup leaked)

Accept(a, c) ==
  /\ at[a] = "accept" /\ a \in listening \cup Upgraders
  /\ c \in Fresh
  /\ opened' = opened \cup {c}
  /\ holds' = [holds EXCEPT ![a] = c]
  /\ Goto(a, "id")
  /\ UNCHANGED <<tableVars, closeVars, known, leaked, listening, exit>>

(* The accept or the upgrade gives an error: the loop goes on with its     *)
(* check, for ever once its listener has been closed.                      *)
AcceptFails(a) ==
  /\ at[a] = "accept"
  /\ Goto(a, Rest(a))
  /\ UNCHANGED <<tableVars, holds, closeVars, opened, known, leaked,
                 listening, exit>>

(* gnet has the socket open before it asks; past the limit the server      *)
(* forgets it.                                                             *)
OnOpened(a, c) ==
  /\ at[a] = "idle" /\ a \in EventLoops
  /\ Available
  /\ c \in Fresh
  /\ opened' = opened \cup {c}
  /\ IF HasRoom
       THEN /\ holds' = [holds EXCEPT ![a] = c]
            /\ Goto(a, "id")
            /\ UNCHANGED leaked
       ELSE leaked' = leaked \cup {c} /\ UNCHANGED acceptVars
  /\ UNCHANGED <<tableVars, closeVars, known, listening, exit>>

NextVal(a) ==
  /\ at[a] = "id"
  /\ Goto(a, "add")
  /\ UNCHANGED <<tableVars, holds, closeVars, opened, known, leaked,
                 listening, exit>>

(* Without an id the socket is neither closed nor kept.                    *)
NextValFails(a) ==
  /\ IdsRunOut
  /\ at[a] = "id"
  /\ leaked' = leaked \cup {holds[a]}
  /\ holds' = [holds EXCEPT ![a] = None]
  /\ Goto(a, Rest(a))
  /\ UNCHANGED <<tableVars, closeVars, opened, known, listening, exit>>

(* newServerConn adds the connection to the table, where others find it.   *)
Register(a) ==
  /\ at[a] = "add"
  /\ Add(holds[a])
  /\ known' = known \cup {holds[a]}
  /\ stopAt' = [stopAt EXCEPT ![holds[a]] = "run"]
  /\ holds' = [holds EXCEPT ![a] = None]
  /\ Goto(a, "count")
  /\ UNCHANGED <<isClosed, stopping, opened, leaked, listening, exit>>

(* The Len of Add's log line; then go Start.                               *)
Count(a) ==
  /\ at[a] = "count"
  /\ Available
  /\ Goto(a, Rest(a))
  /\ UNCHANGED <<tableVars, holds, closeVars, opened, known, leaked,
                 listening, exit>>

-----------------------------------------------------------------------------
(* Stop of a connection, by its own goroutine or by the stopper.           *)

Target(g) == IF g = Stopper THEN stopping ELSE g

StopGoto(g, place) == stopAt' = [stopAt EXCEPT ![g] = place]

(* The stopper goes back to the loop of ClearConn, with the entry to be    *)
(* deleted.                                                                *)
AfterStop(g) == IF g = Stopper THEN "delete" ELSE "done"

(* Faulty variant: Stop does not look at isClosed.                         *)
StopCheckAlways(g) ==
  /\ stopAt[g] = IF g = Stopper THEN "stop" ELSE "run"
  /\ StopGoto(g, "mark")
  /\ UNCHANGED <<tableVars, acceptVars, isClosed, stopping, opened, known,
                 leaked, listening, exit>>

StopCheck(g) ==
  /\ stopAt[g] = IF g = Stopper THEN "stop" ELSE "run"
  /\ StopGoto(g, IF Target(g) \in isClosed THEN AfterStop(g) ELSE "mark")
  /\ UNCHANGED <<tableVars, acceptVars, isClosed, stopping, opened, known,
                 leaked, listening, exit>>

StopMark(g) ==
  /\ stopAt[g] = "mark"
  /\ isClosed' = isClosed \cup {Target(g)}
  /\ StopGoto(g, "remove")
  /\ UNCHANGED <<tableVars, acceptVars, stopping, opened, known, leaked,
                 listening, exit>>

(* Faulty variant: the socket is left open.                                *)
StopRemoveOnly(g) ==
  /\ stopAt[g] = "remove"
  /\ Remove(Target(g))
  /\ StopGoto(g, AfterStop(g))
  /\ UNCHANGED <<acceptVars, isClosed, stopping, opened, known, leaked,
                 listening, exit>>

StopRemove(g) ==
  /\ stopAt[g] = "remove"
  /\ Remove(Target(g))
  /\ StopGoto(g, "count")
  /\ UNCHANGED <<acceptVars, isClosed, stopping, opened, known, leaked,
                 listening, exit>>

(* The Len of Remove's log line.                                           *)
StopCount(g) ==
  /\ stopAt[g] = "count"
  /\ Available
  /\ StopGoto(g, "close")
  /\ UNCHANGED <<tableVars, acceptVars, isClosed, stopping, opened, known,
                 leaked, listening, exit>>

StopClose(g) ==
  /\ stopAt[g] = "close"
  /\ opened' = opened \ {Target(g)}
  /\ StopGoto(g, AfterStop(g))
  /\ UNCHANGED <<tableVars, acceptVars, isClosed, stopping, known, leaked,
                 listening, exit>>

-----------------------------------------------------------------------------
(* Stop of the server: ClearConn, then the close of exitChan, on which     *)
(* each start...Server goroutine closes its listener.                      *)

ClearLock ==
  /\ stopAt[Stopper] = "idle"
  /\ Available
  /\ connLock' = Stopper
  /\ StopGoto(Stopper, "clear")
  /\ UNCHANGED <<connections, acceptVars, isClosed, stopping, opened, known,
                 leaked, listening, exit>>

(* Faulty variant: ClearConn empties the table without calling Stop.       *)
ClearNextDeletes(c) ==
  /\ stopAt[Stopper] = "clear"
  /\ c \in connections
  /\ stopping' = c
  /\ StopGoto(Stopper, "delete")
  /\ UNCHANGED <<tableVars, acceptVars, isClosed, opened, known, leaked,
                 listening, exit>>

(* One round of the range over the table.                                  *)
ClearNext(c) ==
  /\ stopAt[Stopper] = "clear"
  /\ c \in connections
  /\ stopping' = c
  /\ StopGoto(Stopper, "stop")
  /\ UNCHANGED <<tableVars, acceptVars, isClosed, opened, known, leaked,
                 listening, exit>>

ClearDelete ==
  /\ stopAt[Stopper] = "delete"
  /\ connections' = connections \ {stopping}
  /\ stopping' = None
  /\ StopGoto(Stopper, "clear")
  /\ UNCHANGED <<connLock, acceptVars, isClosed, opened, known, leaked,
                 listening, exit>>

ClearUnlock ==
  /\ stopAt[Stopper] = "clear"
  /\ connections = {}
  /\ connLock' = None
  /\ StopGoto(Stopper, "exit")
  /\ UNCHANGED <<connections, acceptVars, isClosed, stopping, opened, known,
                 leaked, listening, exit>>

(* GServer sends to exitChan before it closes it, and the goroutine that   *)
(* would receive is in gnet.Serve, which does not return.                  *)
CloseExit ==
  /\ stopAt[Stopper] = "exit" /\ ~Gnet
  /\ exit' = TRUE
  /\ StopGoto(Stopper, "done")
  /\ UNCHANGED <<tableVars, acceptVars, isClosed, stopping, opened, known,
                 leaked, listening>>

CloseListener(a) ==
  /\ exit
  /\ a \in listening
  /\ listening' = listening \ {a}
  /\ UNCHANGED <<tableVars, acceptVars, closeVars, opened, known, leaked,
                 exit>>

-----------------------------------------------------------------------------
Accepting(a) ==
  \/ CheckRoom(a) \/ AcceptFails(a) \/ NextVal(a) \/ NextValFails(a)
  \/ Register(a) \/ Count(a)
  \/ \E c \in Conns : Accept(a, c) \/ OnOpened(a, c)

Stop(g) == StopCheck(g) \/ StopMark(g) \/ StopRemove(g) \/ StopCount(g)
           \/ StopClose(g)

ClearConn == ClearLock \/ (\E c \in Conns : ClearNext(c)) \/ ClearDelete
             \/ ClearUnlock

Next ==
  \/ \E a \in Acceptors : Accepting(a)
  \/ \E g \in Closers : Stop(g)
  \/ ClearConn
  \/ CloseExit
  \/ \E a \in Loops : CloseListener(a)

Spec == Init /\ [][Next]_vars

(* Whoever is in Stop, of a connection or of the server, goes on when it   *)
(* can; a connection need not be stopped, nor the server.                  *)
Fairness ==
  /\ \A a \in Acceptors : WF_vars(NextVal(a) \/ Register(a) \/ Count(a))
  /\ \A g \in Closers :
       WF_vars((g = Stopper \/ stopAt[g] # "run") /\ Stop(g))
  /\ WF_vars(stopAt[Stopper] # "idle" /\ ClearConn)
  /\ WF_vars(CloseExit)
  /\ \A a \in Loops : WF_vars(CloseListener(a))

FairSpec == Spec /\ Fairness
-----------------------------------------------------------------------------
(* Properties.                                                             *)

Past(a) == at[a] \in {"accept", "id", "add"}
Holding(a) == at[a] \in {"id", "add"}

(* The values the fields of the server can hold.                           *)
TypeOK ==
  /\ connections \subseteq Conns /\ connLock \in {None, Stopper}
  /\ at \in [Acceptors -> {"off", "check", "idle", "accept", "id", "add",
                         "count"}]
  /\ holds \in [Acceptors -> Conns \cup {None}]
  /\ opened \subseteq Conns /\ known \subseteq Conns /\ leaked \subseteq Conns
  /\ isClosed \subseteq Conns
  /\ stopAt \in [Closers -> {"idle", "run", "stop", "mark", "remove", "count",
                             "close", "clear", "delete", "exit", "done"}]
  /\ stopping \in Conns \cup {None}
  /\ listening \subseteq Loops
  /\ exit \in BOOLEAN

(* How far past MaxConn the table can grow: Len is asked before the accept *)
(* and the connection added after it, so every acceptor but one may add a  *)
(* connection more.                                                        *)
MaxConnOvershoot ==
  Cardinality(connections) + Cardinality({a \in Acceptors : Past(a)})
    <= MaxConn + Cardinality(Running) - 1

(* Each open socket is in the table, in the hands of one acceptor, being   *)
(* closed by a Stop, or one of those the server is known to drop.          *)
OpenIsKnown ==
  \A c \in opened :
    \/ c \in connections \cup leaked
    \/ \E a \in Acceptors : Holding(a) /\ holds[a] = c
    \/ \E g \in Closers : stopAt[g] \in {"remove", "count", "close"}
                           /\ Target(g) = c

(* No connection goes from the table, by its own Stop or under the hands   *)
(* of ClearConn, without having been closed.                               *)
UnlistedIsClosed == known \ connections \subseteq isClosed

(* ClearConn gets to its end when every connection still in the table is   *)
(* marked, though their own Stops wait for the lock it holds.              *)
ClearEnds ==
  stopAt[Stopper] = "clear" /\ connections \subseteq isClosed
    ~> stopAt[Stopper] \in {"exit", "done"}

(* "Close it, so that every exitChan reads an empty value" (server.go:90): *)
(* a call of Server.Stop gets to the close.                                *)
StopReturns == stopAt[Stopper] = "clear" ~> exit
=============================================================================
