---------------------------- MODULE ServerProofs ----------------------------
(***************************************************************************)
(* The safety invariants of Server for any number of connections,          *)
(* acceptors and any MaxConn.                                              *)
(***************************************************************************)
EXTENDS Server, FiniteSetTheorems, TLAPS

-----------------------------------------------------------------------------
(* The strengthening.                                                      *)

(* A socket in an acceptor's hands is open, in one pair of hands, and not  *)
(* yet registered.                                                         *)
HandInv ==
  /\ \A a \in Acceptors : Holding(a) => holds[a] \in opened \ known
  /\ \A a, b \in Acceptors :
       Holding(a) /\ Holding(b) /\ holds[a] = holds[b] => a = b

(* Only registered connections are listed, run or closed.                  *)
KnownInv ==
  /\ connections \cup isClosed \subseteq known
  /\ \A c \in Conns \ known : stopAt[c] = "idle"
  /\ stopAt[Stopper] \in {"stop", "mark", "remove", "count", "close", "delete"} =>
       stopping \in known

(* A Stop past its mark works on a marked connection, and a marked         *)
(* connection that is still open is in the hands of such a Stop.           *)
Closing(g) == stopAt[g] \in {"remove", "count", "close"}
MarkInv ==
  /\ \A g \in Closers : Closing(g) => Target(g) \in isClosed
  /\ stopAt[Stopper] = "delete" => stopping \in isClosed
  /\ \A c \in isClosed \cap opened : \E g \in Closers : Closing(g) /\ Target(g) = c

IInv ==
  /\ TypeOK /\ HandInv /\ KnownInv /\ MarkInv
  /\ MaxConnOvershoot /\ OpenIsKnown /\ UnlistedIsClosed

-----------------------------------------------------------------------------
(* Whoever is in Stop has a registered connection before it.               *)
LEMMA TargetKnown ==
  ASSUME IInv, NEW g \in Closers,
         stopAt[g] \in {"stop", "run", "mark", "remove", "count", "close"},
         g = Stopper => stopAt[g] # "run"
  PROVE  Target(g) \in known /\ Target(g) \in Conns
<1> USE DEF IInv, KnownInv, TypeOK, Target, Closers
<1>1. CASE g = Stopper BY <1>1
<1>2. CASE g # Stopper
  <2>1. g \in Conns BY <1>2
  <2>2. g \in known BY <2>1
  <2> QED BY <1>2, <2>1, <2>2
<1> QED BY <1>1, <1>2

(* Every step preserves the types.                                         *)
LEMMA TypeStep ==
  ASSUME IInv, Next
  PROVE  TypeOK'
<1> USE DEF acceptVars, closeVars, tableVars
<1>0. TypeOK /\ HandInv BY DEF IInv
<1>1. ASSUME NEW a \in Acceptors, Accepting(a) PROVE TypeOK'
  <2>1. Holding(a) => holds[a] \in Conns BY <1>0 DEF HandInv, TypeOK
  <2>2. Rest(a) \in {"check", "idle"} BY DEF Rest
  <2>3. CASE CheckRoom(a) \/ Count(a)
    BY <1>0, <2>2, <2>3 DEF CheckRoom, Count, Goto, TypeOK
  <2>4. CASE AcceptFails(a) BY <1>0, <2>2, <2>4 DEF AcceptFails, Goto, TypeOK
  <2>5. CASE NextVal(a) BY <1>0, <2>5 DEF NextVal, Goto, TypeOK
  <2>6. CASE NextValFails(a)
    BY <1>0, <2>1, <2>2, <2>6 DEF NextValFails, Goto, Holding, TypeOK
  <2>7. CASE Register(a)
    BY <1>0, <2>1, <2>7
       DEF Register, Add, Goto, Holding, TypeOK, Closers
  <2>8. ASSUME NEW c \in Conns, Accept(a, c) PROVE TypeOK'
    BY <1>0, <2>8 DEF Accept, Goto, TypeOK
  <2>9. ASSUME NEW c \in Conns, OnOpened(a, c) PROVE TypeOK'
    BY <1>0, <2>9 DEF OnOpened, Goto, TypeOK
  <2> QED BY <1>1, <2>3, <2>4, <2>5, <2>6, <2>7, <2>8, <2>9 DEF Accepting
<1>2. ASSUME NEW g \in Closers, Stop(g) PROVE TypeOK'
  <2>1. CASE StopCheck(g)
    BY <1>0, <2>1 DEF StopCheck, StopGoto, AfterStop, TypeOK
  <2>2. CASE StopMark(g)
    <3>1. Target(g) \in Conns
      BY <2>2, TargetKnown DEF StopMark
    <3> QED BY <1>0, <2>2, <3>1 DEF StopMark, StopGoto, TypeOK
  <2>3. CASE StopRemove(g) \/ StopCount(g)
    BY <1>0, <2>3 DEF StopRemove, StopCount, Remove, StopGoto, TypeOK
  <2>4. CASE StopClose(g)
    BY <1>0, <2>4 DEF StopClose, StopGoto, AfterStop, TypeOK
  <2> QED BY <1>2, <2>1, <2>2, <2>3, <2>4 DEF Stop
<1>3. CASE ClearConn
  BY <1>0, <1>3
     DEF ClearConn, ClearLock, ClearNext, ClearDelete, ClearUnlock, StopGoto,
         TypeOK, Closers
<1>4. CASE CloseExit BY <1>0, <1>4 DEF CloseExit, StopGoto, TypeOK, Closers
<1>5. ASSUME NEW a \in Loops, CloseListener(a) PROVE TypeOK'
  BY <1>0, <1>5 DEF CloseListener, TypeOK
<1> QED BY <1>1, <1>2, <1>3, <1>4, <1>5 DEF Next

-----------------------------------------------------------------------------
(* Sockets in hand stay in one acceptor's hands until they are registered. *)
LEMMA HandStep ==
  ASSUME IInv, Next
  PROVE  HandInv'
<1> USE DEF acceptVars, closeVars, tableVars
<1>0. TypeOK /\ HandInv /\ KnownInv BY DEF IInv
<1>1. ASSUME NEW a \in Acceptors, Accepting(a) PROVE HandInv'
  <2>2. Rest(a) \in {"check", "idle"} BY DEF Rest
  <2>3. CASE CheckRoom(a) \/ Count(a)
    BY <1>0, <2>2, <2>3 DEF CheckRoom, Count, Goto, TypeOK, HandInv, Holding
  <2>4. CASE AcceptFails(a)
    BY <1>0, <2>2, <2>4 DEF AcceptFails, Goto, TypeOK, HandInv, Holding
  <2>5. CASE NextVal(a)
    BY <1>0, <2>5 DEF NextVal, Goto, TypeOK, HandInv, Holding
  <2>6. CASE NextValFails(a)
    BY <1>0, <2>2, <2>6 DEF NextValFails, Goto, TypeOK, HandInv, Holding
  <2>7. CASE Register(a)
    BY <1>0, <2>2, <2>7 DEF Register, Goto, TypeOK, HandInv, Holding
  <2>8. ASSUME NEW c \in Conns, Accept(a, c) PROVE HandInv'
    BY <1>0, <2>8 DEF Accept, Fresh, Goto, TypeOK, HandInv, Holding
  <2>9. ASSUME NEW c \in Conns, OnOpened(a, c) PROVE HandInv'
    BY <1>0, <2>9 DEF OnOpened, Fresh, Goto, TypeOK, HandInv, Holding
  <2> QED BY <1>1, <2>3, <2>4, <2>5, <2>6, <2>7, <2>8, <2>9 DEF Accepting
<1>2. ASSUME NEW g \in Closers, Stop(g) PROVE HandInv'
  <2>1. CASE StopCheck(g)
    BY <1>0, <2>1 DEF StopCheck, HandInv, Holding
  <2>2. CASE StopMark(g)
    BY <1>0, <2>2 DEF StopMark, HandInv, Holding
  <2>3. CASE StopRemove(g) \/ StopCount(g)
    BY <1>0, <2>3 DEF StopRemove, StopCount, HandInv, Holding
  <2>4. CASE StopClose(g)
    <3>1. Target(g) \in known
      BY <2>4, TargetKnown DEF StopClose
    <3> QED BY <1>0, <2>4, <3>1 DEF StopClose, HandInv, Holding
  <2> QED BY <1>2, <2>1, <2>2, <2>3, <2>4 DEF Stop
<1>3. CASE ClearConn
  BY <1>0, <1>3
     DEF ClearConn, ClearLock, ClearNext, ClearDelete, ClearUnlock, HandInv,
         Holding
<1>4. CASE CloseExit BY <1>0, <1>4 DEF CloseExit, HandInv, Holding
<1>5. ASSUME NEW a \in Loops, CloseListener(a) PROVE HandInv'
  BY <1>0, <1>5 DEF CloseListener, HandInv, Holding
<1> QED BY <1>1, <1>2, <1>3, <1>4, <1>5 DEF Next

-----------------------------------------------------------------------------
(* Nothing is listed, run or marked before it is registered.               *)
LEMMA KnownStep ==
  ASSUME IInv, Next
  PROVE  KnownInv'
<1> USE DEF acceptVars, closeVars, tableVars
<1>0. TypeOK /\ HandInv /\ KnownInv BY DEF IInv
<1>1. ASSUME NEW a \in Acceptors, Accepting(a) PROVE KnownInv'
  <2>1. CASE UNCHANGED <<tableVars, closeVars, known>>
    BY <1>0, <2>1 DEF KnownInv
  <2>2. CASE Register(a)
    <3>1. holds[a] \in Conns
      BY <1>0, <2>2 DEF Register, HandInv, Holding, TypeOK
    <3>2. Stopper \notin Conns BY GoroutinesAssumption
    <3> QED BY <1>0, <2>2, <3>1, <3>2
            DEF Register, Add, KnownInv, TypeOK, Closers
  <2> QED BY <1>1, <2>1, <2>2
          DEF Accepting, CheckRoom, AcceptFails, NextVal, NextValFails, Count, Accept,
              OnOpened
<1>2. ASSUME NEW g \in Closers, Stop(g) PROVE KnownInv'
  <2>1. Target(g) \in known /\ (g \in Conns => g \in known)
    <3>1. stopAt[g] \in {"stop", "run", "mark", "remove", "count", "close"}
          /\ (g = Stopper => stopAt[g] # "run")
      BY <1>2 DEF Stop, StopCheck, StopMark, StopRemove, StopCount, StopClose
    <3>2. g \in Conns => g \in known BY <1>0, <3>1 DEF KnownInv
    <3> QED BY <3>1, <3>2, TargetKnown
  <2>2. stopping' = stopping /\ known' = known /\ connections' \subseteq connections
        /\ isClosed' \subseteq isClosed \cup {Target(g)}
    BY <1>2 DEF Stop, StopCheck, StopMark, StopRemove, StopCount, StopClose, Remove
  <2>3. \A c \in Conns \ known : stopAt'[c] = stopAt[c]
    <3>1. \E p : stopAt' = [stopAt EXCEPT ![g] = p]
      BY <1>2 DEF Stop, StopCheck, StopMark, StopRemove, StopCount, StopClose, StopGoto
    <3>2. \A c \in Conns \ known : c # g BY <2>1
    <3> QED BY <1>0, <3>1, <3>2 DEF TypeOK, Closers
  <2>4. stopAt'[Stopper] \in {"stop", "mark", "remove", "count", "close", "delete"} =>
          stopAt[Stopper] \in {"stop", "mark", "remove", "count", "close", "delete"}
    BY <1>0, <1>2
       DEF Stop, StopCheck, StopMark, StopRemove, StopCount, StopClose, StopGoto, TypeOK,
           Closers
  <2> QED BY <1>0, <2>1, <2>2, <2>3, <2>4 DEF KnownInv
<1>3. CASE ClearConn
  <2>1. Stopper \notin Conns BY GoroutinesAssumption
  <2> QED BY <1>0, <1>3, <2>1
          DEF ClearConn, ClearLock, ClearNext, ClearDelete, ClearUnlock,
              StopGoto, KnownInv, TypeOK, Closers
<1>4. CASE CloseExit
  BY <1>0, <1>4, GoroutinesAssumption
     DEF CloseExit, StopGoto, KnownInv, TypeOK, Closers
<1>5. ASSUME NEW a \in Loops, CloseListener(a) PROVE KnownInv'
  BY <1>0, <1>5 DEF CloseListener, KnownInv
<1> QED BY <1>1, <1>2, <1>3, <1>4, <1>5 DEF Next

-----------------------------------------------------------------------------
(* A goroutine that has not passed the mark of its Stop, as one that has   *)
(* just been registered, does not close anything: it can move on without   *)
(* anybody's witness of MarkInv being lost.                                *)
LEMMA RegisteredWasIdle ==
  ASSUME IInv, NEW a \in Acceptors, Register(a)
  PROVE  /\ holds[a] \in Conns \ known /\ holds[a] \in opened
         /\ holds[a] # Stopper /\ stopAt[holds[a]] = "idle"
<1>1. holds[a] \in opened \ known /\ holds[a] \in Conns
  BY DEF Register, IInv, HandInv, Holding, TypeOK
<1>2. stopAt[holds[a]] = "idle" BY <1>1 DEF IInv, KnownInv
<1> QED BY <1>1, <1>2, GoroutinesAssumption

(* Marked connections that are open stay in the hands of a Stop.           *)
LEMMA MarkStep ==
  ASSUME IInv, Next
  PROVE  MarkInv'
<1> USE DEF acceptVars, closeVars, tableVars, MarkInv, Closing
<1>0. TypeOK /\ HandInv /\ KnownInv /\ MarkInv BY DEF IInv
<1>1. ASSUME NEW a \in Acceptors, Accepting(a) PROVE MarkInv'
  <2>1. CASE UNCHANGED closeVars /\ opened' \cap known \subseteq opened
    BY <1>0, <2>1 DEF KnownInv, Target
  <2>2. CASE Register(a)
    BY <1>0, <2>2, RegisteredWasIdle
       DEF Register, TypeOK, Target, Closers
  <2> QED BY <1>1, <2>1, <2>2
          DEF Accepting, CheckRoom, AcceptFails, NextVal, NextValFails, Count, Accept,
              OnOpened, Fresh
<1>2. ASSUME NEW g \in Closers, Stop(g) PROVE MarkInv'
  <2>1. \A h \in Closers : Target(h)' = Target(h)
    BY <1>2 DEF Stop, StopCheck, StopMark, StopRemove, StopCount, StopClose, Target
  <2>2. \A h \in Closers : h # g => stopAt'[h] = stopAt[h]
    BY <1>0, <1>2
       DEF Stop, StopCheck, StopMark, StopRemove, StopCount, StopClose, StopGoto, TypeOK
  <2>3. CASE StopCheck(g)
    <3>1. ~Closing(g) /\ ~Closing(g)'
      BY <1>0, <2>3 DEF StopCheck, StopGoto, AfterStop, TypeOK
    <3>2. (stopAt[Stopper] = "delete")' => stopping' \in isClosed'
      BY <1>0, <2>3 DEF StopCheck, StopGoto, AfterStop, Target, TypeOK, Closers
    <3>3. UNCHANGED <<isClosed, opened>> BY <2>3 DEF StopCheck
    <3>4. \A h \in Closers : Closing(h)' <=> Closing(h) BY <2>2, <3>1
    <3> QED BY <1>0, <2>1, <3>2, <3>3, <3>4
  <2>4. CASE StopMark(g)
    <3>1. Closing(g)' BY <1>0, <2>4 DEF StopMark, StopGoto, TypeOK
    <3>2. isClosed' = isClosed \cup {Target(g)} /\ UNCHANGED <<opened, stopping>>
      BY <2>4 DEF StopMark
    <3>3. (stopAt[Stopper] = "delete")' => stopping' \in isClosed'
      BY <1>0, <2>4 DEF StopMark, StopGoto, TypeOK, Closers
    <3>4. \A h \in Closers : Closing(h)' => h = g \/ Closing(h) BY <2>2
    <3>5. \A h \in Closers : Closing(h) => Closing(h)' BY <2>2, <3>1
    <3> QED BY <1>0, <2>1, <3>1, <3>2, <3>3, <3>4, <3>5
  <2>5. CASE StopRemove(g) \/ StopCount(g)
    <3>1. Closing(g) /\ Closing(g)'
      BY <1>0, <2>5 DEF StopRemove, StopCount, StopGoto, TypeOK
    <3>2. UNCHANGED <<isClosed, opened, stopping>>
      BY <2>5 DEF StopRemove, StopCount
    <3>3. (stopAt[Stopper] = "delete")' => stopping' \in isClosed'
      BY <1>0, <2>5 DEF StopRemove, StopCount, StopGoto, TypeOK, Closers
    <3>4. \A h \in Closers : Closing(h)' <=> Closing(h) BY <2>2, <3>1
    <3> QED BY <1>0, <2>1, <3>2, <3>3, <3>4
  <2>6. CASE StopClose(g)
    <3>1. Closing(g) /\ ~Closing(g)'
      BY <1>0, <2>6 DEF StopClose, StopGoto, AfterStop, TypeOK
    <3>2. opened' = opened \ {Target(g)} /\ UNCHANGED <<isClosed, stopping>>
      BY <2>6 DEF StopClose
    <3>3. (stopAt[Stopper] = "delete")' => stopping' \in isClosed'
      BY <1>0, <2>6, <3>1, <3>2
         DEF StopClose, StopGoto, AfterStop, Target, TypeOK, Closers
    <3>4. \A h \in Closers : h # g => (Closing(h)' <=> Closing(h)) BY <2>2
    <3> QED BY <1>0, <2>1, <3>1, <3>2, <3>3, <3>4
  <2> QED BY <1>2, <2>3, <2>4, <2>5, <2>6 DEF Stop
<1>3. CASE ClearConn \/ CloseExit
  <2>1. ~Closing(Stopper) /\ ~Closing(Stopper)'
        /\ ~(stopAt[Stopper] = "delete")'
    BY <1>0, <1>3
       DEF ClearConn, ClearLock, ClearNext, ClearDelete, ClearUnlock, CloseExit,
           StopGoto, TypeOK, Closers
  <2>2. \A h \in Closers : h # Stopper =>
          stopAt'[h] = stopAt[h] /\ Target(h)' = Target(h)
    BY <1>0, <1>3
       DEF ClearConn, ClearLock, ClearNext, ClearDelete, ClearUnlock, CloseExit,
           StopGoto, TypeOK, Target
  <2>3. UNCHANGED <<isClosed, opened>>
    BY <1>3 DEF ClearConn, ClearLock, ClearNext, ClearDelete, ClearUnlock,
                CloseExit
  <2> QED BY <1>0, <2>1, <2>2, <2>3
<1>4. ASSUME NEW a \in Loops, CloseListener(a) PROVE MarkInv'
  BY <1>0, <1>4 DEF CloseListener, Target
<1> QED BY <1>1, <1>2, <1>3, <1>4 DEF Next

-----------------------------------------------------------------------------
(* No step loses sight of an open socket.                                  *)
LEMMA OpenStep ==
  ASSUME IInv, Next
  PROVE  OpenIsKnown'
<1> USE DEF acceptVars, closeVars, tableVars, OpenIsKnown
<1>0. TypeOK /\ HandInv /\ KnownInv /\ MarkInv /\ OpenIsKnown BY DEF IInv
<1>1. ASSUME NEW a \in Acceptors, Accepting(a) PROVE OpenIsKnown'
  <2>2. Rest(a) \in {"check", "idle"} BY DEF Rest
  <2>3. CASE CheckRoom(a) \/ AcceptFails(a) \/ Count(a)
    <3>1. \A b \in Acceptors : Holding(b) => Holding(b)' /\ holds'[b] = holds[b]
      BY <1>0, <2>2, <2>3
         DEF CheckRoom, AcceptFails, Count, Goto, Holding, TypeOK
    <3> QED BY <1>0, <2>3, <3>1 DEF CheckRoom, AcceptFails, Count, Target
  <2>4. CASE NextVal(a)
    <3>1. \A b \in Acceptors : Holding(b) => Holding(b)' /\ holds'[b] = holds[b]
      BY <1>0, <2>4 DEF NextVal, Goto, Holding, TypeOK
    <3> QED BY <1>0, <2>4, <3>1 DEF NextVal, Target
  <2>5. CASE NextValFails(a)
    <3>1. \A b \in Acceptors : b # a /\ Holding(b) =>
            Holding(b)' /\ holds'[b] = holds[b]
      BY <1>0, <2>5 DEF NextValFails, Goto, Holding, TypeOK
    <3> QED BY <1>0, <2>5, <3>1 DEF NextValFails, Target
  <2>6. CASE Register(a)
    <3>1. \A b \in Acceptors : b # a /\ Holding(b) =>
            Holding(b)' /\ holds'[b] = holds[b]
      BY <1>0, <2>6 DEF Register, Goto, Holding, TypeOK
    <3>2. \A g \in Closers : stopAt[g] \in {"remove", "count", "close"} =>
            stopAt'[g] = stopAt[g] /\ Target(g)' = Target(g)
      BY <1>0, <2>6, RegisteredWasIdle DEF Register, Target, TypeOK
    <3>3. connections' = connections \cup {holds[a]}
          /\ UNCHANGED <<opened, leaked>>
      BY <2>6 DEF Register, Add
    <3> QED BY <1>0, <3>1, <3>2, <3>3
  <2>7. ASSUME NEW c \in Conns, Accept(a, c) \/ OnOpened(a, c)
        PROVE  OpenIsKnown'
    <3>1. \A b \in Acceptors : Holding(b) => Holding(b)' /\ holds'[b] = holds[b]
      BY <1>0, <2>7 DEF Accept, OnOpened, Goto, Holding, TypeOK
    <3>2. c \in leaked' \/ (Holding(a)' /\ holds'[a] = c)
      <4>1. CASE Accept(a, c) BY <1>0, <4>1 DEF Accept, Goto, Holding, TypeOK
      <4>2. CASE OnOpened(a, c) /\ HasRoom
        BY <1>0, <4>2 DEF OnOpened, Goto, Holding, TypeOK
      <4>3. CASE OnOpened(a, c) /\ ~HasRoom BY <4>3 DEF OnOpened, HasRoom
      <4> QED BY <2>7, <4>1, <4>2, <4>3
    <3>3. opened' = opened \cup {c} /\ leaked \subseteq leaked'
          /\ UNCHANGED <<tableVars, closeVars>>
      BY <2>7 DEF Accept, OnOpened
    <3> QED BY <1>0, <3>1, <3>2, <3>3 DEF Target
  <2> QED BY <1>1, <2>3, <2>4, <2>5, <2>6, <2>7 DEF Accepting
<1>2. ASSUME NEW g \in Closers, Stop(g) PROVE OpenIsKnown'
  <2>1. \A h \in Closers : Target(h)' = Target(h)
    BY <1>2 DEF Stop, StopCheck, StopMark, StopRemove, StopCount, StopClose, Target
  <2>2. \A h \in Closers : h # g => stopAt'[h] = stopAt[h]
    BY <1>0, <1>2
       DEF Stop, StopCheck, StopMark, StopRemove, StopCount, StopClose, StopGoto, TypeOK
  <2>3. UNCHANGED <<acceptVars, leaked>>
    BY <1>2 DEF Stop, StopCheck, StopMark, StopRemove, StopCount, StopClose
  <2>4. CASE StopCheck(g) \/ StopMark(g)
    <3>1. stopAt[g] \notin {"remove", "count", "close"} BY <2>4 DEF StopCheck, StopMark
    <3>2. UNCHANGED <<connections, opened>> BY <2>4 DEF StopCheck, StopMark
    <3> QED BY <1>0, <2>1, <2>2, <2>3, <3>1, <3>2 DEF Holding
  <2>5. CASE StopRemove(g) \/ StopCount(g)
    <3>1. stopAt'[g] \in {"count", "close"}
      BY <1>0, <2>5 DEF StopRemove, StopCount, StopGoto, TypeOK
    <3>2. connections \ {Target(g)} \subseteq connections' /\ UNCHANGED opened
      BY <2>5 DEF StopRemove, StopCount, Remove
    <3> QED BY <1>0, <2>1, <2>2, <2>3, <3>1, <3>2 DEF Holding
  <2>6. CASE StopClose(g)
    <3>1. opened' = opened \ {Target(g)} /\ UNCHANGED connections
      BY <2>6 DEF StopClose
    <3> QED BY <1>0, <2>1, <2>2, <2>3, <3>1 DEF Holding
  <2> QED BY <1>2, <2>4, <2>5, <2>6 DEF Stop
<1>3. CASE ClearConn \/ CloseExit
  <2>1. stopAt[Stopper] \notin {"remove", "count", "close"}
    BY <1>3 DEF ClearConn, ClearLock, ClearNext, ClearDelete, ClearUnlock,
                CloseExit
  <2>2. \A h \in Closers : h # Stopper =>
          stopAt'[h] = stopAt[h] /\ Target(h)' = Target(h)
    BY <1>0, <1>3
       DEF ClearConn, ClearLock, ClearNext, ClearDelete, ClearUnlock, CloseExit,
           StopGoto, TypeOK, Target
  <2>3. UNCHANGED <<opened, acceptVars, leaked>>
    BY <1>3 DEF ClearConn, ClearLock, ClearNext, ClearDelete, ClearUnlock,
                CloseExit
  <2>4. \A c \in connections \cap opened : c \in connections'
          \/ \E g \in Closers : stopAt[g] \in {"remove", "count", "close"} /\ Target(g) = c
    <3>1. CASE ClearDelete BY <1>0, <3>1 DEF ClearDelete, MarkInv, Closing
    <3>2. CASE UNCHANGED connections BY <3>2
    <3> QED BY <1>3, <3>1, <3>2
            DEF ClearConn, ClearLock, ClearNext, ClearUnlock, CloseExit
  <2> QED BY <1>0, <2>1, <2>2, <2>3, <2>4 DEF Holding
<1>4. ASSUME NEW a \in Loops, CloseListener(a) PROVE OpenIsKnown'
  BY <1>0, <1>4 DEF CloseListener, Target, Holding
<1> QED BY <1>1, <1>2, <1>3, <1>4 DEF Next

(* A connection is marked before it goes from the table.                   *)
LEMMA UnlistedStep ==
  ASSUME IInv, Next
  PROVE  UnlistedIsClosed'
<1> USE DEF acceptVars, closeVars, tableVars, UnlistedIsClosed
<1>0. TypeOK /\ MarkInv /\ UnlistedIsClosed BY DEF IInv
<1>1. ASSUME NEW a \in Acceptors, Accepting(a) PROVE UnlistedIsClosed'
  BY <1>0, <1>1
     DEF Accepting, CheckRoom, AcceptFails, NextVal, NextValFails, Register,
         Count, Add, Accept, OnOpened
<1>2. ASSUME NEW g \in Closers, Stop(g) PROVE UnlistedIsClosed'
  BY <1>0, <1>2
     DEF Stop, StopCheck, StopMark, StopRemove, StopCount, StopClose, Remove, MarkInv,
         Closing
<1>3. CASE ClearConn
  BY <1>0, <1>3
     DEF ClearConn, ClearLock, ClearNext, ClearDelete, ClearUnlock, MarkInv
<1>4. CASE CloseExit BY <1>0, <1>4 DEF CloseExit
<1>5. ASSUME NEW a \in Loops, CloseListener(a) PROVE UnlistedIsClosed'
  BY <1>0, <1>5 DEF CloseListener
<1> QED BY <1>1, <1>2, <1>3, <1>4, <1>5 DEF Next

-----------------------------------------------------------------------------
PastSet == {a \in Acceptors : Past(a)}

(* No acceptor is started or ends after the start of the server, and only  *)
(* one that runs gets past the check.                                      *)
LEMMA RunningStays ==
  ASSUME IInv, Next
  PROVE  Running' = Running /\ PastSet' \subseteq Running
<1>0. TypeOK BY DEF IInv
<1>1. Running' = Running
  <2>1. ASSUME NEW a \in Acceptors, Accepting(a)
        PROVE  \E place : place # "off" /\ at[a] # "off"
                          /\ (at' = [at EXCEPT ![a] = place] \/ at' = at)
    <3>1. Rest(a) \in {"check", "idle"} BY DEF Rest
    <3> QED BY <2>1, <3>1
            DEF Accepting, CheckRoom, AcceptFails, NextVal, NextValFails,
                Register, Count, Accept, OnOpened, Goto, acceptVars
  <2>2. CASE \E a \in Acceptors : Accepting(a)
    BY <1>0, <2>1, <2>2 DEF Running, TypeOK
  <2>3. CASE at' = at BY <2>3 DEF Running
  <2>4. ASSUME NEW g \in Closers, Stop(g) PROVE at' = at
    BY <2>4 DEF Stop, StopCheck, StopMark, StopRemove, StopCount, StopClose, acceptVars
  <2>5. CASE ClearConn \/ CloseExit
    BY <2>3, <2>5
       DEF ClearConn, ClearLock, ClearNext, ClearDelete, ClearUnlock, CloseExit,
           acceptVars
  <2>6. ASSUME NEW a \in Loops, CloseListener(a) PROVE at' = at
    BY <2>6 DEF CloseListener, acceptVars
  <2> QED BY <2>2, <2>3, <2>4, <2>5, <2>6 DEF Next
<1>2. PastSet' \subseteq Running' BY DEF PastSet, Past, Running
<1> QED BY <1>1, <1>2

(* The acceptors past their check and the table together keep within the   *)
(* bound.                                                                  *)

LEMMA OvershootStep ==
  ASSUME IInv, Next
  PROVE  MaxConnOvershoot'
<1> USE DEF acceptVars, closeVars, tableVars
<1>0. TypeOK /\ HandInv /\ MaxConnOvershoot BY DEF IInv
<1>1. /\ IsFiniteSet(Running) /\ IsFiniteSet(connections) /\ IsFiniteSet(PastSet)
      /\ IsFiniteSet(connections') /\ IsFiniteSet(PastSet')
  <2>1. connections \subseteq Conns /\ connections' \subseteq Conns
    BY <1>0, TypeStep DEF TypeOK
  <2>2. /\ PastSet \subseteq Acceptors /\ PastSet' \subseteq Acceptors
        /\ Running \subseteq Acceptors
    BY DEF PastSet, Running
  <2> QED BY <2>1, <2>2, AcceptorsAssumption, FS_Subset
<1>2. /\ Cardinality(Running) \in Nat /\ Cardinality(connections) \in Nat
      /\ Cardinality(PastSet) \in Nat /\ Cardinality(connections') \in Nat
      /\ Cardinality(PastSet') \in Nat /\ MaxConn \in Nat
  BY <1>1, FS_CardinalityType, AcceptorsAssumption
<1>3. Cardinality(connections) + Cardinality(PastSet)
        <= MaxConn + Cardinality(Running) - 1
  BY <1>0 DEF MaxConnOvershoot, PastSet
<1>4. SUFFICES Cardinality(connections') + Cardinality(PastSet')
                 <= MaxConn + Cardinality(Running) - 1
  BY RunningStays DEF MaxConnOvershoot, PastSet
<1>5. CASE connections' \subseteq connections /\ PastSet' \subseteq PastSet
  <2>1. Cardinality(connections') <= Cardinality(connections)
    BY <1>1, <1>5, FS_Subset
  <2>2. Cardinality(PastSet') <= Cardinality(PastSet) BY <1>1, <1>5, FS_Subset
  <2> QED BY <1>2, <1>3, <2>1, <2>2
<1>6. CASE HasRoom /\ UNCHANGED connections
  <2>1. Cardinality(PastSet') <= Cardinality(Running)
    BY <1>1, RunningStays, FS_Subset
  <2>2. Cardinality(connections) < MaxConn /\ connections' = connections
    BY <1>6 DEF HasRoom
  <2> QED BY <1>2, <2>1, <2>2
<1>7. ASSUME NEW a \in Acceptors, Register(a)
      PROVE  Cardinality(connections') + Cardinality(PastSet')
               <= MaxConn + Cardinality(Running) - 1
  <2>2. PastSet' \subseteq PastSet \ {a}
    BY <1>0, <1>7 DEF Register, Goto, PastSet, Past, TypeOK
  <2>3. a \in PastSet BY <1>7 DEF Register, PastSet, Past
  <2>4. Cardinality(PastSet \ {a}) = Cardinality(PastSet) - 1
    BY <1>1, <2>3, FS_RemoveElement
  <2>5. IsFiniteSet(PastSet \ {a}) BY <1>1, FS_Subset
  <2>6. Cardinality(PastSet') <= Cardinality(PastSet \ {a})
    BY <2>2, <2>5, FS_Subset
  <2>7. connections' = connections \cup {holds[a]} BY <1>7 DEF Register, Add
  <2>8. Cardinality(connections') <= Cardinality(connections) + 1
    <3>1. CASE holds[a] \in connections
      <4>1. connections' = connections BY <2>7, <3>1
      <4> QED BY <1>2, <4>1
    <3>2. CASE holds[a] \notin connections
      <4>1. Cardinality(connections') = Cardinality(connections) + 1
        BY <1>1, <2>7, <3>2, FS_AddElement
      <4> QED BY <1>2, <4>1
    <3> QED BY <3>1, <3>2
  <2> QED BY <1>2, <1>3, <2>4, <2>6, <2>8
<1>8. ASSUME NEW a \in Acceptors, Accepting(a)
      PROVE  Cardinality(connections') + Cardinality(PastSet')
               <= MaxConn + Cardinality(Running) - 1
  <2>1. Rest(a) \in {"check", "idle"} BY DEF Rest
  <2>2. CASE CheckRoom(a) BY <1>6, <2>2 DEF CheckRoom
  <2>3. CASE AcceptFails(a)
    BY <1>0, <1>5, <2>1, <2>3 DEF AcceptFails, Goto, PastSet, Past, TypeOK
  <2>4. CASE NextVal(a) \/ Count(a)
    BY <1>0, <1>5, <2>1, <2>4 DEF NextVal, Count, Goto, PastSet, Past, TypeOK
  <2>5. CASE NextValFails(a)
    BY <1>0, <1>5, <2>1, <2>5 DEF NextValFails, Goto, PastSet, Past, TypeOK
  <2>6. ASSUME NEW c \in Conns, Accept(a, c)
        PROVE  Cardinality(connections') + Cardinality(PastSet')
                 <= MaxConn + Cardinality(Running) - 1
    BY <1>0, <1>5, <2>6 DEF Accept, Goto, PastSet, Past, TypeOK
  <2>7. ASSUME NEW c \in Conns, OnOpened(a, c)
        PROVE  Cardinality(connections') + Cardinality(PastSet')
                 <= MaxConn + Cardinality(Running) - 1
    <3>1. UNCHANGED connections BY <2>7 DEF OnOpened
    <3>2. CASE HasRoom BY <1>6, <3>1, <3>2
    <3>3. CASE ~HasRoom
      <4>1. UNCHANGED acceptVars BY <2>7, <3>3 DEF OnOpened, HasRoom
      <4>2. PastSet' = PastSet BY <4>1 DEF PastSet, Past
      <4> QED BY <1>5, <3>1, <4>2
    <3> QED BY <3>2, <3>3
  <2> QED BY <1>7, <1>8, <2>2, <2>3, <2>4, <2>5, <2>6, <2>7 DEF Accepting
<1>9. CASE UNCHANGED acceptVars /\ connections' \subseteq connections
  BY <1>5, <1>9 DEF PastSet, Past
<1>10. ASSUME NEW g \in Closers, Stop(g)
       PROVE  UNCHANGED acceptVars /\ connections' \subseteq connections
  BY <1>10 DEF Stop, StopCheck, StopMark, StopRemove, StopCount, StopClose, Remove
<1>11. CASE ClearConn \/ CloseExit
  BY <1>9, <1>11
     DEF ClearConn, ClearLock, ClearNext, ClearDelete, ClearUnlock, CloseExit
<1>12. ASSUME NEW a \in Loops, CloseListener(a)
       PROVE  UNCHANGED acceptVars /\ connections' \subseteq connections
  BY <1>12 DEF CloseListener
<1> QED BY <1>8, <1>9, <1>10, <1>11, <1>12 DEF Next

-----------------------------------------------------------------------------
(* The invariant holds at the start: nothing is accepted or listed.        *)
LEMMA InitIInv ==
  ASSUME Init
  PROVE  IInv
<1> USE DEF Init
<1>1. /\ at \in [Acceptors -> {"off", "check", "idle"}]
      /\ listening \subseteq Loops
  <2>1. \A a \in Acceptors : Rest(a) \in {"check", "idle"} BY DEF Rest
  <2>2. PICK running :
          at = [a \in Acceptors |-> IF a \in running THEN Rest(a) ELSE "off"]
    OBVIOUS
  <2> QED BY <2>1, <2>2
<1>2. \A a \in Acceptors : ~Past(a) /\ ~Holding(a) BY <1>1 DEF Past, Holding
<1>3. TypeOK BY <1>1 DEF TypeOK
<1>4. HandInv BY <1>2 DEF HandInv
<1>5. KnownInv /\ MarkInv BY DEF KnownInv, MarkInv, Closers, Closing
<1>6. OpenIsKnown /\ UnlistedIsClosed BY DEF OpenIsKnown, UnlistedIsClosed
<1>7. MaxConnOvershoot
  <2>1. {a \in Acceptors : Past(a)} = {} /\ connections = {} BY <1>2
  <2>2. Cardinality({}) = 0 BY FS_EmptySet
  <2>3. Cardinality(Running) \in Nat
    <3>1. Running \subseteq Acceptors BY DEF Running
    <3>2. IsFiniteSet(Running) BY <3>1, AcceptorsAssumption, FS_Subset
    <3> QED BY <3>2, FS_CardinalityType
  <2>4. Cardinality(connections) + Cardinality({a \in Acceptors : Past(a)}) = 0
    BY <2>1, <2>2
  <2> QED BY <2>3, <2>4, AcceptorsAssumption DEF MaxConnOvershoot
<1> QED BY <1>3, <1>4, <1>5, <1>6, <1>7 DEF IInv

(* And every step of the server keeps it.                                  *)
LEMMA StepIInv ==
  ASSUME IInv, [Next]_vars
  PROVE  IInv'
<1>1. CASE Next
  BY <1>1, TypeStep, HandStep, KnownStep, MarkStep, OpenStep, UnlistedStep,
     OvershootStep DEF IInv
<1>2. CASE UNCHANGED vars
  BY <1>2 DEF vars, tableVars, acceptVars, closeVars, IInv, TypeOK, HandInv,
     KnownInv, MarkInv, MaxConnOvershoot, OpenIsKnown, UnlistedIsClosed, Past,
     Running, Holding, Closing, Target
<1> QED BY <1>1, <1>2

(* The inductive invariant holds in every reachable state of the server.   *)
THEOREM Invariance == Spec => []IInv
BY InitIInv, StepIInv, PTL DEF Spec

(* The fields of the server keep their types.                              *)
THEOREM TypeCorrect == Spec => []TypeOK
<1>1. IInv => TypeOK BY DEF IInv
<1> QED BY <1>1, Invariance, PTL

(* However many acceptors race between Len and Add, the table passes       *)
(* MaxConn by less than their number.                                      *)
THEOREM Overshoot == Spec => []MaxConnOvershoot
<1>1. IInv => MaxConnOvershoot BY DEF IInv
<1> QED BY <1>1, Invariance, PTL

(* No socket is open without the server, or a Stop, knowing of it, but     *)
(* those that NextVal's error and gnet's full table drop.                  *)
THEOREM SocketsKnown == Spec => []OpenIsKnown
<1>1. IInv => OpenIsKnown BY DEF IInv
<1> QED BY <1>1, Invariance, PTL

(* Neither Remove nor ClearConn takes out a connection that Stop has not   *)
(* marked.                                                                 *)
THEOREM UnlistedClosed == Spec => []UnlistedIsClosed
<1>1. IInv => UnlistedIsClosed BY DEF IInv
<1> QED BY <1>1, Invariance, PTL
=============================================================================
