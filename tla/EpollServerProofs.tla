-------------------------- MODULE EpollServerProofs --------------------------
(***************************************************************************)
(* The safety properties of EpollServer for any number of connections and  *)
(* of callers of their Stop, any MaxConn and frames in any number of       *)
(* pieces.                                                                 *)
(***************************************************************************)
EXTENDS EpollServer, FiniteSetTheorems, TLAPS

-----------------------------------------------------------------------------
(* The strengthening.                                                      *)

(* Until it is in the table the connection in the accept loop's hands is   *)
(* open, and nobody else has it to stop it.                                *)
HandInv ==
  at \in {"register", "list"} =>
    /\ holds \in opened /\ holds \notin known
    /\ \A k \in Callers : stopAt[<<holds, k>>] = "idle"

Gap == IF at = "list" THEN {holds} ELSE {}

(* What epoll knows is what the maps know, but for the one in the gap.     *)
TableInv ==
  /\ interest = connections \cup Gap
  /\ connections \subseteq known /\ known \subseteq opened

(* A Stop works on a connection that was accepted, past its mark on a      *)
(* marked one, and gets past Remove only on one that never was listed.     *)
CloserInv ==
  \A g \in Closers :
    /\ stopAt[g] # "idle" => g[1] \in opened \cup isClosed
    /\ stopAt[g] \in {"remove", "len", "close", "done"} => g[1] \in isClosed
    /\ stopAt[g] = "close" => g[1] \notin known

(* While a connection is missing from the table a Remove has the lock.     *)
LockInv ==
  /\ stopAt[Stopper] = "clear" => connLock = Stopper
  /\ connLock \notin Closers => known \subseteq connections

(* What the event loop has been given was listed, or is in the gap.        *)
LoopInv ==
  /\ loopAt = "look" => batch \subseteq known \cup Gap
  /\ loopAt \in {"head", "body", "invoke"} => reading \in Conns

IInv ==
  TypeOK /\ HandInv /\ TableInv /\ CloserInv /\ LockInv /\ LoopInv
  /\ WithinMaxConn

-----------------------------------------------------------------------------
(* A goroutine in Stop is not one of a connection still to be listed.      *)
LEMMA NotInHand ==
  ASSUME IInv, NEW g \in Closers, stopAt[g] # "idle",
         at \in {"register", "list"}
  PROVE  g[1] # holds
<1>1. g = <<g[1], g[2]>> /\ g[2] \in Callers BY DEF Closers
<1>2. \A k \in Callers : stopAt[<<holds, k>>] = "idle" BY DEF IInv, HandInv
<1> QED BY <1>1, <1>2

(* Every step preserves the types.                                         *)
LEMMA TypeStep ==
  ASSUME IInv, Next
  PROVE  TypeOK'
<1> USE DEF tableVars, acceptVars, socketVars, loopVars, peerVars, stopVars
<1>0. TypeOK /\ LoopInv /\ HandInv BY DEF IInv
<1>1. CASE Accepting
  <2>1. holds \in Conns \/ at \notin {"register", "list"}
    BY <1>0 DEF TypeOK, HandInv
  <2>2. \A c : StartOf(c) => stopAt' \in [Closers \cup {Stopper} ->
          {"idle", "run", "mark", "remove", "len", "close", "clear", "exit",
           "done"}]
    BY <1>0 DEF StartOf, TypeOK
  <2>3. CASE CheckRoom BY <1>0, <2>3 DEF CheckRoom, TypeOK
  <2>4. CASE AcceptFails BY <1>0, <2>4 DEF AcceptFails, TypeOK
  <2>5. CASE Register BY <1>0, <2>1, <2>2, <2>5 DEF Register, TypeOK
  <2>6. CASE List BY <1>0, <2>1, <2>2, <2>6 DEF List, Add, TypeOK
  <2>7. CASE Count BY <1>0, <2>7 DEF Count, TypeOK
  <2>8. ASSUME NEW c \in Conns, Accept(c) PROVE TypeOK'
    BY <1>0, <2>8 DEF Accept, TypeOK
  <2> QED BY <1>1, <2>3, <2>4, <2>5, <2>6, <2>7, <2>8 DEF Accepting
<1>2. CASE Looping
  <2>1. Needs \in Nat BY EpollAssumption DEF Needs
  <2>2. CASE EpollWait BY <1>0, <2>2 DEF EpollWait, Ready, TypeOK
  <2>3. CASE LookUp BY <1>0, <2>3 DEF LookUp, TypeOK
  <2>4. CASE BatchDone BY <1>0, <2>4 DEF BatchDone, TypeOK
  <2>5. CASE ReadFull
    <3>1. reading \in Conns BY <1>0, <2>5 DEF ReadFull, LoopInv
    <3>2. read[reading] + Needs <= sent[reading]
          /\ read[reading] + Needs \in Nat
      BY <1>0, <2>1, <2>5, <3>1 DEF ReadFull, Unread, TypeOK
    <3>3. /\ read' = [read EXCEPT ![reading] = @ + Needs] /\ sent' = sent
          /\ loopAt' \in {"body", "invoke", "next"}
          /\ reading' \in Conns \cup {None}
      BY <2>5, <3>1 DEF ReadFull
    <3>4. read' \in [Conns -> Nat] /\ \A c \in Conns : read'[c] <= sent'[c]
      BY <1>0, <3>1, <3>2, <3>3 DEF TypeOK
    <3> QED BY <1>0, <2>5, <3>3, <3>4 DEF ReadFull, TypeOK
  <2>6. CASE ReadFails
    BY <1>0, <2>6 DEF ReadFails, ReadCutShort, LoopInv, TypeOK
  <2>7. ASSUME NEW c \in Conns, ReadNext(c) PROVE TypeOK'
    BY <1>0, <2>7 DEF ReadNext, TypeOK
  <2>8. CASE Invoke BY <1>0, <2>8, EpollAssumption DEF Invoke, TypeOK
  <2> QED BY <1>2, <2>2, <2>3, <2>4, <2>5, <2>6, <2>7, <2>8 DEF Looping
<1>3. CASE Stopping
  <2>1. CASE ClearLock BY <1>0, <2>1 DEF ClearLock, StopGoto, TypeOK
  <2>2. CASE ClearUnlock BY <1>0, <2>2 DEF ClearUnlock, StopGoto, TypeOK
  <2>3. CASE CloseExit BY <1>0, <2>3 DEF CloseExit, StopGoto, TypeOK
  <2>4. CASE CloseListener BY <1>0, <2>4 DEF CloseListener, TypeOK
  <2> QED BY <1>3, <2>1, <2>2, <2>3, <2>4 DEF Stopping
<1>4. ASSUME NEW c \in Conns, Piece(c) PROVE TypeOK'
  BY <1>0, <1>4 DEF Piece, TypeOK
<1>5. ASSUME NEW c \in Conns, Leave(c) PROVE TypeOK'
  BY <1>0, <1>5 DEF Leave, TypeOK
<1>6. ASSUME NEW g \in Closers, Stop(g) PROVE TypeOK'
  <2>1. g[1] \in Conns BY DEF Closers
  <2>2. CASE StopCheck(g) BY <1>0, <2>2 DEF StopCheck, StopGoto, TypeOK
  <2>3. CASE StopMark(g) BY <1>0, <2>1, <2>3 DEF StopMark, StopGoto, TypeOK
  <2>4. CASE StopRemove(g)
    BY <1>0, <2>4 DEF StopRemove, RemoveHolding, StopGoto, TypeOK
  <2>5. CASE StopClose(g) BY <1>0, <2>5 DEF StopClose, StopGoto, TypeOK
  <2> QED BY <1>6, <2>2, <2>3, <2>4, <2>5 DEF Stop
<1>7. CASE HandlerReturns
  BY <1>0, <1>7, EpollAssumption DEF HandlerReturns, TypeOK
<1> QED BY <1>1, <1>2, <1>3, <1>4, <1>5, <1>6, <1>7 DEF Next

-----------------------------------------------------------------------------
(* The connection in hand stays open, unlisted and nobody else's.          *)
LEMMA HandStep ==
  ASSUME IInv, Next
  PROVE  HandInv'
<1> USE DEF tableVars, acceptVars, socketVars, loopVars, peerVars, stopVars
<1>0. TypeOK /\ HandInv /\ TableInv /\ CloserInv BY DEF IInv
<1>1. CASE Accepting
  <2>1. CASE CheckRoom BY <2>1 DEF CheckRoom, HandInv
  <2>2. CASE AcceptFails BY <2>2 DEF AcceptFails, HandInv
  <2>3. CASE Register BY <1>0, <2>3 DEF Register, HandInv
  <2>4. CASE List BY <1>0, <2>4 DEF List, HandInv
  <2>5. CASE Count BY <2>5 DEF Count, HandInv
  <2>6. ASSUME NEW c \in Conns, Accept(c) PROVE HandInv'
    <3>1. c \notin opened \cup isClosed BY <2>6 DEF Accept
    <3>2. \A k \in Callers : stopAt[<<c, k>>] = "idle"
      <4> SUFFICES ASSUME NEW k \in Callers PROVE stopAt[<<c, k>>] = "idle"
        OBVIOUS
      <4>1. <<c, k>> \in Closers /\ <<c, k>>[1] = c BY DEF Closers
      <4> QED BY <1>0, <3>1, <4>1 DEF CloserInv
    <3>3. c \notin known BY <1>0, <3>1 DEF TableInv
    <3> QED BY <2>6, <3>2, <3>3 DEF Accept, HandInv
  <2> QED BY <1>1, <2>1, <2>2, <2>3, <2>4, <2>5, <2>6 DEF Accepting
<1>2. CASE Looping \/ HandlerReturns
  BY <1>0, <1>2
     DEF Looping, EpollWait, LookUp, BatchDone, ReadFull, ReadFails,
         ReadCutShort, ReadNext, Invoke, HandlerReturns, HandInv
<1>3. CASE Stopping
  <2>1. \A k \in Callers : holds \in Conns => <<holds, k>> \in Closers
    BY DEF Closers
  <2>2. \A k \in Callers : holds \in Conns => <<holds, k>> # Stopper
    BY <2>1, EpollAssumption
  <2>3. \A g : g # Stopper => stopAt'[g] = stopAt[g] \/ g \notin Closers
    BY <1>0, <1>3
       DEF Stopping, ClearLock, ClearUnlock, CloseExit, CloseListener,
           StopGoto, TypeOK
  <2>4. at' = at /\ holds' = holds /\ opened' = opened /\ known' = known
    BY <1>3 DEF Stopping, ClearLock, ClearUnlock, CloseExit, CloseListener
  <2> QED BY <1>0, <2>1, <2>2, <2>3, <2>4 DEF HandInv, TypeOK
<1>4. ASSUME NEW c \in Conns, Piece(c) \/ Leave(c) PROVE HandInv'
  BY <1>0, <1>4 DEF Piece, Leave, HandInv
<1>5. ASSUME NEW g \in Closers, Stop(g) PROVE HandInv'
  <2>1. at \in {"register", "list"} => g[1] # holds
    BY <1>5, NotInHand DEF Stop, StopCheck, StopMark, StopRemove, StopClose
  <2>2. \E p : stopAt' = [stopAt EXCEPT ![g] = p]
    BY <1>5 DEF Stop, StopCheck, StopMark, StopRemove, StopClose, StopGoto
  <2>3. at' = at /\ holds' = holds /\ known' = known /\ opened \ {g[1]} \subseteq opened'
    BY <1>5 DEF Stop, StopCheck, StopMark, StopRemove, StopClose
  <2>4. at \in {"register", "list"} =>
          \A k \in Callers : stopAt'[<<holds, k>>] = "idle"
    <3> SUFFICES ASSUME at \in {"register", "list"},
                        NEW k \in Callers
                 PROVE  stopAt'[<<holds, k>>] = "idle"
      OBVIOUS
    <3>1. <<holds, k>> # g BY <2>1
    <3>2. <<holds, k>> \in Closers
      BY <1>0 DEF HandInv, TypeOK, Closers
    <3> QED BY <1>0, <2>2, <3>1, <3>2 DEF HandInv, TypeOK
  <2> QED BY <1>0, <2>1, <2>3, <2>4 DEF HandInv
<1> QED BY <1>1, <1>2, <1>3, <1>4, <1>5 DEF Next

-----------------------------------------------------------------------------
(* epoll and the maps go together, and what was listed stays open.         *)
LEMMA TableStep ==
  ASSUME IInv, Next
  PROVE  TableInv'
<1> USE DEF tableVars, acceptVars, socketVars, loopVars, peerVars, stopVars
<1>0. TypeOK /\ HandInv /\ TableInv /\ CloserInv /\ LockInv BY DEF IInv
<1>1. CASE Accepting
  <2>1. CASE CheckRoom BY <1>0, <2>1 DEF CheckRoom, TableInv, Gap
  <2>2. CASE AcceptFails BY <1>0, <2>2 DEF AcceptFails, TableInv, Gap
  <2>3. CASE Register BY <1>0, <2>3 DEF Register, TableInv, Gap
  <2>4. CASE List BY <1>0, <2>4 DEF List, Add, HandInv, TableInv, Gap
  <2>5. CASE Count BY <1>0, <2>5 DEF Count, TableInv, Gap
  <2>6. ASSUME NEW c \in Conns, Accept(c) PROVE TableInv'
    BY <1>0, <2>6 DEF Accept, TableInv, Gap
  <2> QED BY <1>1, <2>1, <2>2, <2>3, <2>4, <2>5, <2>6 DEF Accepting
<1>2. CASE Looping \/ HandlerReturns
  BY <1>0, <1>2
     DEF Looping, EpollWait, LookUp, BatchDone, ReadFull, ReadFails,
         ReadCutShort, ReadNext, Invoke, HandlerReturns, TableInv, Gap
<1>3. CASE Stopping
  BY <1>0, <1>3
     DEF Stopping, ClearLock, ClearUnlock, CloseExit, CloseListener, TableInv,
         Gap
<1>4. ASSUME NEW c \in Conns, Piece(c) \/ Leave(c) PROVE TableInv'
  BY <1>0, <1>4 DEF Piece, Leave, TableInv, Gap
<1>5. ASSUME NEW g \in Closers, Stop(g) PROVE TableInv'
  <2>1. CASE StopCheck(g) BY <1>0, <2>1 DEF StopCheck, TableInv, Gap
  <2>2. CASE StopMark(g) BY <1>0, <2>2 DEF StopMark, TableInv, Gap
  <2>3. CASE StopRemove(g)
    <3>1. at = "list" => g[1] # holds BY <2>3, NotInHand DEF StopRemove
    <3> QED BY <1>0, <2>3, <3>1 DEF StopRemove, RemoveHolding, TableInv, Gap
  <2>4. CASE StopClose(g)
    <3>1. g[1] \notin known BY <1>0, <2>4 DEF StopClose, CloserInv
    <3> QED BY <1>0, <2>4, <3>1 DEF StopClose, TableInv, Gap
  <2> QED BY <1>5, <2>1, <2>2, <2>3, <2>4 DEF Stop
<1> QED BY <1>1, <1>2, <1>3, <1>4, <1>5 DEF Next

-----------------------------------------------------------------------------
(* No Stop of a listed connection comes past Remove.                       *)
LEMMA CloserStep ==
  ASSUME IInv, Next
  PROVE  CloserInv'
<1> USE DEF tableVars, acceptVars, socketVars, loopVars, peerVars, stopVars
<1>0. TypeOK /\ HandInv /\ TableInv /\ CloserInv /\ LockInv BY DEF IInv
<1>1. CASE Accepting
  <2>1. CASE CheckRoom BY <1>0, <2>1 DEF CheckRoom, CloserInv
  <2>2. CASE AcceptFails BY <1>0, <2>2 DEF AcceptFails, CloserInv
  <2>3. CASE Register \/ List
    <3>1. holds \in opened BY <1>0, <2>3 DEF Register, List, HandInv
    <3>2. UNCHANGED stopAt \/ StartOf(holds) BY <2>3 DEF Register, List
    <3>3. \A g \in Closers :
            stopAt'[g] = stopAt[g] \/ (stopAt'[g] = "run" /\ g[1] = holds)
      BY <1>0, <3>2 DEF StartOf, TypeOK
    <3>4. \A g \in Closers : stopAt[g] = "close" => g[1] # holds
      BY <2>3, NotInHand DEF Register, List
    <3>5. /\ UNCHANGED <<opened, isClosed>>
          /\ known' \subseteq known \cup {holds}
      BY <2>3 DEF Register, List
    <3> QED BY <1>0, <3>1, <3>3, <3>4, <3>5 DEF CloserInv
  <2>4. CASE Count BY <1>0, <2>4 DEF Count, CloserInv
  <2>5. ASSUME NEW c \in Conns, Accept(c) PROVE CloserInv'
    BY <1>0, <2>5 DEF Accept, CloserInv
  <2> QED BY <1>1, <2>1, <2>2, <2>3, <2>4, <2>5 DEF Accepting
<1>2. CASE Looping \/ HandlerReturns
  BY <1>0, <1>2
     DEF Looping, EpollWait, LookUp, BatchDone, ReadFull, ReadFails,
         ReadCutShort, ReadNext, Invoke, HandlerReturns, CloserInv
<1>3. CASE Stopping
  <2>1. \A g \in Closers : stopAt'[g] = stopAt[g]
    BY <1>0, <1>3, EpollAssumption
       DEF Stopping, ClearLock, ClearUnlock, CloseExit, CloseListener,
           StopGoto, TypeOK
  <2>2. UNCHANGED <<opened, isClosed, known>>
    BY <1>3 DEF Stopping, ClearLock, ClearUnlock, CloseExit, CloseListener
  <2> QED BY <1>0, <2>1, <2>2 DEF CloserInv
<1>4. ASSUME NEW c \in Conns, Piece(c) \/ Leave(c) PROVE CloserInv'
  BY <1>0, <1>4 DEF Piece, Leave, CloserInv
<1>5. ASSUME NEW g \in Closers, Stop(g) PROVE CloserInv'
  <2>0. g \in Closers \cup {Stopper} OBVIOUS
  <2>1. CASE StopCheck(g)
    BY <1>0, <2>0, <2>1 DEF StopCheck, StopGoto, TypeOK, CloserInv
  <2>2. CASE StopMark(g)
    BY <1>0, <2>0, <2>2 DEF StopMark, StopGoto, TypeOK, CloserInv
  <2>3. CASE StopRemove(g)
    <3>1. g[1] \notin interest => g[1] \notin known
      BY <1>0, <2>3, EpollAssumption
         DEF StopRemove, RemoveHolding, Available, TableInv, LockInv
    <3> QED BY <1>0, <2>0, <2>3, <3>1 DEF StopRemove, StopGoto, TypeOK, CloserInv
  <2>4. CASE StopClose(g)
    BY <1>0, <2>0, <2>4 DEF StopClose, StopGoto, TypeOK, CloserInv
  <2> QED BY <1>5, <2>1, <2>2, <2>3, <2>4 DEF Stop
<1> QED BY <1>1, <1>2, <1>3, <1>4, <1>5 DEF Next

-----------------------------------------------------------------------------
(* A Remove that has taken something out keeps the lock.                   *)
LEMMA LockStep ==
  ASSUME IInv, Next
  PROVE  LockInv'
<1> USE DEF tableVars, acceptVars, socketVars, loopVars, peerVars, stopVars
<1>0. TypeOK /\ HandInv /\ TableInv /\ LockInv BY DEF IInv
<1>1. CASE Accepting
  <2>1. \A c : c \in Conns /\ StartOf(c) => stopAt'[Stopper] = stopAt[Stopper]
    <3> SUFFICES ASSUME NEW c \in Conns, StartOf(c)
                 PROVE  stopAt'[Stopper] = stopAt[Stopper]
      OBVIOUS
    <3>1. Stopper \notin {c} \X Callers BY EpollAssumption DEF Closers
    <3> QED BY <1>0, <3>1 DEF StartOf, TypeOK
  <2>2. CASE Register \/ List
    <3>1. holds \in Conns BY <1>0, <2>2 DEF Register, List, HandInv, TypeOK
    <3> QED BY <1>0, <2>1, <2>2, <3>1 DEF Register, List, Add, LockInv
  <2>3. CASE UNCHANGED <<tableVars, known, stopAt>> BY <1>0, <2>3 DEF LockInv
  <2> QED BY <1>1, <2>2, <2>3
          DEF Accepting, CheckRoom, AcceptFails, Accept, Count
<1>2. CASE Looping \/ HandlerReturns
  BY <1>0, <1>2
     DEF Looping, EpollWait, LookUp, BatchDone, ReadFull, ReadFails,
         ReadCutShort, ReadNext, Invoke, HandlerReturns, LockInv
<1>3. CASE Stopping
  <2>1. CASE ClearLock
    BY <1>0, <2>1, EpollAssumption DEF ClearLock, Available, StopGoto, TypeOK, LockInv
  <2>2. CASE ClearUnlock
    BY <1>0, <2>2, EpollAssumption DEF ClearUnlock, StopGoto, TypeOK, LockInv
  <2>3. CASE CloseExit BY <1>0, <2>3 DEF CloseExit, StopGoto, TypeOK, LockInv
  <2>4. CASE CloseListener BY <1>0, <2>4 DEF CloseListener, LockInv
  <2> QED BY <1>3, <2>1, <2>2, <2>3, <2>4 DEF Stopping
<1>4. ASSUME NEW c \in Conns, Piece(c) \/ Leave(c) PROVE LockInv'
  BY <1>0, <1>4 DEF Piece, Leave, LockInv
<1>5. ASSUME NEW g \in Closers, Stop(g) PROVE LockInv'
  <2>0. stopAt'[Stopper] = stopAt[Stopper]
    BY <1>0, <1>5, EpollAssumption
       DEF Stop, StopCheck, StopMark, StopRemove, StopClose, StopGoto, TypeOK
  <2>1. CASE StopRemove(g)
    BY <1>0, <2>0, <2>1, EpollAssumption
       DEF StopRemove, RemoveHolding, Available, LockInv
  <2>2. CASE UNCHANGED <<tableVars, known>> BY <1>0, <2>0, <2>2 DEF LockInv
  <2> QED BY <1>5, <2>1, <2>2 DEF Stop, StopCheck, StopMark, StopClose
<1> QED BY <1>1, <1>2, <1>3, <1>4, <1>5 DEF Next

-----------------------------------------------------------------------------
(* The events that were waited for stay those of listed connections, but   *)
(* for the one in the gap.                                                 *)
LEMMA LoopStep ==
  ASSUME IInv, Next
  PROVE  LoopInv'
<1> USE DEF tableVars, acceptVars, socketVars, loopVars, peerVars, stopVars
<1>0. TypeOK /\ HandInv /\ TableInv /\ LoopInv BY DEF IInv
<1>1. CASE Accepting
  <2>1. CASE CheckRoom BY <1>0, <2>1 DEF CheckRoom, LoopInv, Gap
  <2>2. CASE AcceptFails BY <1>0, <2>2 DEF AcceptFails, LoopInv, Gap
  <2>3. CASE Register BY <1>0, <2>3 DEF Register, LoopInv, Gap
  <2>4. CASE List BY <1>0, <2>4 DEF List, LoopInv, Gap
  <2>5. CASE Count BY <1>0, <2>5 DEF Count, LoopInv, Gap
  <2>6. ASSUME NEW c \in Conns, Accept(c) PROVE LoopInv'
    BY <1>0, <2>6 DEF Accept, LoopInv, Gap
  <2> QED BY <1>1, <2>1, <2>2, <2>3, <2>4, <2>5, <2>6 DEF Accepting
<1>2. CASE Looping \/ HandlerReturns
  BY <1>0, <1>2
     DEF Looping, EpollWait, Ready, LookUp, BatchDone, ReadFull, ReadFails,
         ReadCutShort, ReadNext, Invoke, HandlerReturns, LoopInv, TableInv, Gap
<1>3. CASE Stopping
  BY <1>0, <1>3
     DEF Stopping, ClearLock, ClearUnlock, CloseExit, CloseListener, LoopInv,
         Gap
<1>4. ASSUME NEW c \in Conns, Piece(c) \/ Leave(c) PROVE LoopInv'
  BY <1>0, <1>4 DEF Piece, Leave, LoopInv, Gap
<1>5. ASSUME NEW g \in Closers, Stop(g) PROVE LoopInv'
  BY <1>0, <1>5
     DEF Stop, StopCheck, StopMark, StopRemove, StopClose, LoopInv, Gap
<1> QED BY <1>1, <1>2, <1>3, <1>4, <1>5 DEF Next

-----------------------------------------------------------------------------
(* The one accept loop adds no more than it has found room for.            *)
LEMMA RoomStep ==
  ASSUME IInv, Next
  PROVE  WithinMaxConn'
<1> USE DEF tableVars, acceptVars, socketVars, loopVars, peerVars, stopVars
<1>0. TypeOK /\ WithinMaxConn /\ MaxConn \in Nat BY EpollAssumption DEF IInv
<1>1. IsFiniteSet(connections) /\ Cardinality(connections) \in Nat
  BY <1>0, EpollAssumption, FS_Subset, FS_CardinalityType DEF TypeOK
<1>2. CASE UNCHANGED <<connections, at>>
  BY <1>0, <1>2 DEF WithinMaxConn, Coming
<1>3. CASE CheckRoom
  BY <1>0, <1>1, <1>3 DEF CheckRoom, HasRoom, WithinMaxConn, Coming
<1>4. CASE connections' = connections /\ at' \in {"check", "ended"}
  BY <1>0, <1>1, <1>4 DEF WithinMaxConn, Coming
<1>5. CASE connections' = connections /\ at \in {"accept", "register"}
  BY <1>0, <1>1, <1>5 DEF WithinMaxConn, Coming
<1>6. CASE List
  <2>0. Cardinality(connections \cup {holds}) =
          IF holds \in connections THEN Cardinality(connections)
          ELSE Cardinality(connections) + 1
    BY <1>1, FS_AddElement
  <2>1. Cardinality(connections \cup {holds}) <= Cardinality(connections) + 1
    BY <1>1, <2>0
  <2>2. IsFiniteSet(connections \cup {holds})
        /\ Cardinality(connections \cup {holds}) \in Nat
    BY <1>1, FS_AddElement, FS_CardinalityType
  <2> QED BY <1>0, <1>1, <1>6, <2>1, <2>2 DEF List, Add, WithinMaxConn, Coming
<1>7. ASSUME NEW g \in Closers, StopRemove(g) PROVE WithinMaxConn'
  <2>1. connections' \subseteq connections /\ at' = at
    BY <1>7 DEF StopRemove, RemoveHolding
  <2>2. Cardinality(connections') <= Cardinality(connections)
        /\ Cardinality(connections') \in Nat
    BY <1>1, <2>1, FS_Subset, FS_CardinalityType
  <2> QED BY <1>0, <1>1, <2>1, <2>2 DEF WithinMaxConn, Coming
<1>8. Accepting => CheckRoom \/ List \/ (connections' = connections
        /\ (at' \in {"check", "ended"} \/ at \in {"accept", "register"}))
  BY DEF Accepting, AcceptFails, Accept, Register, Count
<1>9. Looping \/ HandlerReturns \/ Stopping => UNCHANGED <<connections, at>>
  BY DEF Looping, EpollWait, LookUp, BatchDone, ReadFull, ReadFails,
         ReadCutShort, ReadNext, Invoke, HandlerReturns, Stopping, ClearLock, ClearUnlock, CloseExit,
         CloseListener
<1>10. \A c \in Conns : Piece(c) \/ Leave(c) => UNCHANGED <<connections, at>>
  BY DEF Piece, Leave
<1>11. \A g \in Closers :
         Stop(g) => StopRemove(g) \/ UNCHANGED <<connections, at>>
  BY DEF Stop, StopCheck, StopMark, StopClose
<1> QED BY <1>2, <1>3, <1>4, <1>5, <1>6, <1>7, <1>8, <1>9, <1>10, <1>11 DEF Next

-----------------------------------------------------------------------------
LEMMA InitInv == Init => IInv
<1> SUFFICES ASSUME Init PROVE IInv OBVIOUS
<1> USE EpollAssumption DEF Init
<1>1. TypeOK
  <2>1. stopAt \in [Closers \cup {Stopper} ->
          {"idle", "run", "mark", "remove", "len", "close", "clear", "exit",
           "done"}]
    OBVIOUS
  <2>2. sent \in [Conns -> Nat] /\ read \in [Conns -> Nat]
        /\ \A c \in Conns : read[c] <= sent[c]
    OBVIOUS
  <2>3. busy \in 0..WorkerPoolSize OBVIOUS
  <2> QED BY <2>1, <2>2, <2>3 DEF TypeOK
<1>2. WithinMaxConn BY FS_EmptySet DEF WithinMaxConn, Coming
<1>3. HandInv /\ TableInv /\ CloserInv /\ LockInv /\ LoopInv
  BY DEF HandInv, TableInv, CloserInv, LockInv, LoopInv, Gap
<1> QED BY <1>1, <1>2, <1>3 DEF IInv

LEMMA StepInv == IInv /\ [Next]_vars => IInv'
<1> SUFFICES ASSUME IInv, [Next]_vars PROVE IInv' OBVIOUS
<1>1. CASE Next
  BY <1>1, TypeStep, HandStep, TableStep, CloserStep, LockStep, LoopStep,
     RoomStep DEF IInv
<1>2. CASE UNCHANGED vars
  BY <1>2
     DEF vars, tableVars, acceptVars, socketVars, loopVars, peerVars, stopVars,
         IInv, TypeOK, HandInv, TableInv, CloserInv, LockInv, LoopInv, Gap,
         WithinMaxConn, Coming
<1> QED BY <1>1, <1>2

(* IInv holds in every reachable state, from the moment the maps have a    *)
(* connection, and any goroutine may stop it, to what a Remove leaves      *)
(* behind.                                                                 *)
THEOREM Invariance == Spec => []IInv
BY InitInv, StepInv, PTL DEF Spec

(* Type correctness of the epoll server, io.ReadFull never past what came. *)
THEOREM TypeCorrect == Spec => []TypeOK
<1>1. IInv => TypeOK BY DEF IInv
<1> QED BY <1>1, Invariance, PTL

(* startEpollServer's one loop keeps the table within MaxConn.             *)
THEOREM Room == Spec => []WithinMaxConn
<1>1. IInv => WithinMaxConn BY DEF IInv
<1> QED BY <1>1, Invariance, PTL

(* Stop never gets to Conn.Close for a connection that was in the table.   *)
THEOREM NeverClosed == Spec => []ListedNeverClosed
<1>1. IInv => ListedNeverClosed BY DEF IInv, TableInv, ListedNeverClosed
<1> QED BY <1>1, Invariance, PTL

(* When ConnManager's wait loop finds nil for a socket, that socket is     *)
(* between EPOLL_CTL_ADD and the maps.                                     *)
THEOREM NilInGap == Spec => NilOnlyInGap
<1>1. ASSUME IInv, Next, loopAt = "look", loopAt' = "next", found' # batch
      PROVE  at = "list" /\ batch \ found' = {holds}
  <2>1. LookUp
    BY <1>1 DEF Next, Accepting, CheckRoom, AcceptFails, Register, List, Count,
         Accept, Looping, EpollWait, BatchDone, ReadFull, ReadFails,
         ReadCutShort, ReadNext, Invoke, HandlerReturns, Stopping, ClearLock,
         ClearUnlock, CloseExit, CloseListener, Piece, Leave, Stop, StopCheck, StopMark, StopRemove,
         StopClose, loopVars
  <2>2. known \subseteq connections
    BY <1>1, <2>1, EpollAssumption DEF LookUp, Available, IInv, LockInv
  <2>3. batch \subseteq connections \cup Gap
    BY <1>1, <2>2 DEF IInv, LoopInv
  <2>4. batch \ found' = batch \ connections /\ batch \ connections # {}
    BY <1>1, <2>1 DEF LookUp
  <2> QED BY <2>3, <2>4 DEF Gap
<1>2. IInv /\ [Next]_vars =>
        [loopAt = "look" /\ loopAt' = "next" /\ found' # batch
           => at = "list" /\ batch \ found' = {holds}]_vars
  BY <1>1 DEF vars
<1> QED BY <1>2, Invariance, PTL DEF Spec, NilOnlyInGap

(* Server.Stop closes exitChan only while everything that was ever in the  *)
(* table is in it.                                                         *)
THEOREM ExitIsClean == Spec => ExitMeansNoneRemoved
<1>1. ASSUME IInv, Next, exit' # exit PROVE known \subseteq connections
  <2>1. CloseExit
    BY <1>1 DEF Next, Accepting, CheckRoom, AcceptFails, Register, List, Count,
         Accept, Looping, EpollWait, LookUp, BatchDone, ReadFull, ReadFails,
         ReadCutShort, ReadNext, Invoke, HandlerReturns, Stopping, ClearLock,
         ClearUnlock, CloseListener, Piece, Leave, Stop, StopCheck, StopMark, StopRemove,
         StopClose, stopVars
  <2> QED BY <1>1, <2>1, EpollAssumption DEF CloseExit, Available, IInv, LockInv
<1>2. IInv /\ [Next]_vars => [exit' # exit => known \subseteq connections]_vars
  BY <1>1 DEF vars
<1> QED BY <1>2, Invariance, PTL DEF Spec, ExitMeansNoneRemoved
=============================================================================
