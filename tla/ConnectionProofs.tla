-------------------------- MODULE ConnectionProofs --------------------------
(***************************************************************************)
(* The safety properties of Connection for any number of connections, of   *)
(* workers and of other goroutines, and any capacity of msgChan.           *)
(***************************************************************************)
EXTENDS Connection, TLAPS

-----------------------------------------------------------------------------
(* The strengthening.                                                      *)

(* A goroutine of a connection works on it, a serving one on some          *)
(* connection unless it is idle.  Stop takes the lock of a    *)
(* WebSocket connection, and looks for a heartbeat of the others.          *)
OnInv ==
  \A g \in Goroutines :
    /\ IF g \in Bound THEN on[g] = g[2]
                      ELSE at[g] # "idle" => on[g] \in Conns
    /\ at[g] = "lock" => kind[on[g]] = "ws"
    /\ at[g] = "hb" => kind[on[g]] # "ws"

(* What Start is to start has not begun.                                   *)
StartInv ==
  \A c \in Conns :
    /\ at[Starter(c)] \in {"bind", "heartbeat", "context"} =>
         ctx[c] = "none" /\ at[Reader(c)] = "off" /\ at[Writer(c)] = "off"
    /\ at[Starter(c)] \in {"bind", "heartbeat"} => at[Beat(c)] = "off"

(* The connections of which no two calls of Stop get to the mark.          *)
Guarded(c) == c \notin bare \/ kind[c] = "ws"

(* As long as no Stop has found c.hb nil: once one has got to the mark,    *)
(* there was a heartbeat and it has ended.  A heartbeat never gets past    *)
(* hb.Stop itself.                                                         *)
BeatPlaces == {"off", "select", "trysend", "send", "stop", "hb", "quit",
               "selfquit", "done"}

BeatInv ==
  \A c \in Conns :
    /\ kind[c] = "ws" => c \notin beating
    /\ c \notin beating => at[Beat(c)] = "off"
    /\ at[Beat(c)] \in BeatPlaces
    /\ c \notin bare /\ kind[c] # "ws" =>
         /\ c \in isClosed => at[Beat(c)] = "done"
         /\ \A g \in Goroutines :
              on[g] = c /\ at[g] = "mark" => at[Beat(c)] = "done"

MarkInv ==
  /\ \A g \in Goroutines : at[g] = "mark" /\ Guarded(on[g]) =>
       /\ on[g] \notin isClosed
       /\ \A h \in Goroutines : at[h] = "mark" /\ on[h] = on[g] => h = g
  /\ \A c \in Conns :
       /\ c \notin isClosed => stops[c] = 0
       /\ Guarded(c) => stops[c] <= 1

Later == {"remove", "count", "close", "cancel"}

(* WebSocket's Stop has the lock from its check to its return, its reader  *)
(* while it reads.                                                         *)
LockInv ==
  /\ \A g \in Goroutines :
       at[g] \in Later \cup {"mark"} /\ kind[on[g]] = "ws" => wsLock[on[g]] = g
  /\ \A c \in Conns :
       kind[c] = "ws" /\ at[Reader(c)] = "read" =>
         wsLock[c] = Reader(c) /\ c \notin isClosed

(* What a Stop has done by the place where it is.                          *)
StageInv ==
  \A g \in Goroutines :
    /\ at[g] \in Later => on[g] \in isClosed
    /\ at[g] \in Later \ {"remove"} => on[g] \notin connections
    /\ at[g] = "cancel" => on[g] \notin opened

(* What is still to be done of a closed connection a Stop is about to do.  *)
CleanInv ==
  \A c \in Conns :
    /\ c \notin isClosed => c \in connections \cap opened
    /\ c \in isClosed \cap connections =>
         \E g \in Goroutines : on[g] = c /\ at[g] = "remove"
    /\ c \in isClosed \cap opened =>
         \E g \in Goroutines : on[g] = c /\ at[g] \in Later \ {"cancel"}
    /\ c \notin opened =>
         \/ ctx[c] = "done" \/ c \in uncancelled
         \/ \E g \in Goroutines : on[g] = c /\ at[g] = "cancel"
    /\ ctx[c] = "done" => c \in isClosed /\ c \notin connections \cup opened

Control ==
  OnInv /\ StartInv /\ BeatInv /\ MarkInv /\ LockInv /\ StageInv /\ CleanInv

IInv == TypeOK /\ Control

-----------------------------------------------------------------------------
(* Names and places.                                                       *)

LEMMA Names ==
  /\ \A c \in Conns :
       /\ Starter(c) \in Bound /\ Starter(c)[1] = "starter" /\ Starter(c)[2] = c
       /\ Reader(c) \in Bound /\ Reader(c)[1] = "reader" /\ Reader(c)[2] = c
       /\ Writer(c) \in Bound /\ Writer(c)[1] = "writer" /\ Writer(c)[2] = c
       /\ Beat(c) \in Bound /\ Beat(c)[1] = "heartbeat" /\ Beat(c)[2] = c
  /\ \A g \in Bound :
       /\ g \in Goroutines /\ g[2] \in Conns /\ g \notin Serving
       /\ g[1] \in {"starter", "reader", "writer", "heartbeat"}
       /\ g[1] = "starter" => g = Starter(g[2])
       /\ g[1] = "reader" => g = Reader(g[2])
       /\ g[1] = "writer" => g = Writer(g[2])
       /\ g[1] = "heartbeat" => g = Beat(g[2])
  /\ \A g \in Goroutines : g \notin Bound <=> g[1] \in {"worker", "app"}
BY DEF Starter, Reader, Writer, Beat, Bound, Serving, Goroutines

LEMMA Working ==
  ASSUME OnInv, NEW g \in Goroutines, at[g] # "idle"
  PROVE  on[g] \in Conns
BY Names DEF OnInv

LEMMA NextPlaces ==
  ASSUME NEW g \in Goroutines
  PROVE  /\ NextPlace(g) \in {"done", "wait", "select", "selfquit", "idle"}
         /\ NextPlace(g) = "idle" <=> g \notin Bound
         /\ NextPlace(g) \in {"select", "selfquit"} => g[1] = "heartbeat"
         /\ NextPlace(g) = "wait" => g[1] = "starter"
         /\ NextPlace(g) = "select" => at[g] = "send"
<1>1. g \in Bound => g[1] \in {"starter", "reader", "writer", "heartbeat"}
  BY Names
<1>2. g \notin Bound => g[1] \in {"worker", "app"} BY Names
<1> QED BY <1>1, <1>2 DEF NextPlace

-----------------------------------------------------------------------------
(* Steps that do not disturb an invariant.                                 *)

(* Nobody enters or leaves the places after the mark.                      *)
LaterKept ==
  \A g \in Goroutines : at[g] \in Later \/ at'[g] \in Later =>
                          at'[g] = at[g] /\ on'[g] = on[g]

LEMMA StageKept ==
  ASSUME StageInv, LaterKept, UNCHANGED <<connections, opened, isClosed>>
  PROVE  StageInv'
<1> SUFFICES ASSUME NEW g \in Goroutines, at'[g] \in Later
             PROVE  /\ on'[g] \in isClosed
                    /\ at'[g] \in Later \ {"remove"} => on'[g] \notin connections
                    /\ at'[g] = "cancel" => on'[g] \notin opened
  BY DEF StageInv, Later
<1>1. at'[g] = at[g] /\ on'[g] = on[g] BY DEF LaterKept
<1> QED BY <1>1 DEF StageInv

LEMMA CleanKept ==
  ASSUME CleanInv, LaterKept, UNCHANGED <<connections, opened, isClosed>>,
         uncancelled \subseteq uncancelled',
         \A c \in Conns : ctx'[c] = "done" <=> ctx[c] = "done"
  PROVE  CleanInv'
<1> SUFFICES ASSUME NEW c \in Conns
             PROVE  /\ c \notin isClosed => c \in connections \cap opened
                    /\ c \in isClosed \cap connections =>
                         \E g \in Goroutines : on'[g] = c /\ at'[g] = "remove"
                    /\ c \in isClosed \cap opened =>
                         \E g \in Goroutines :
                           on'[g] = c /\ at'[g] \in Later \ {"cancel"}
                    /\ c \notin opened =>
                         \/ ctx'[c] = "done" \/ c \in uncancelled'
                         \/ \E g \in Goroutines : on'[g] = c /\ at'[g] = "cancel"
                    /\ ctx'[c] = "done" =>
                         c \in isClosed /\ c \notin connections \cup opened
  BY DEF CleanInv
<1>1. \A g \in Goroutines : at[g] \in Later => at'[g] = at[g] /\ on'[g] = on[g]
  BY DEF LaterKept
<1>2. /\ "remove" \in Later /\ "cancel" \in Later
  BY DEF Later
<1> QED BY <1>1, <1>2 DEF CleanInv

(* Nobody but a Stop of an unguarded connection gets to the mark.          *)
LEMMA MarkKept ==
  ASSUME MarkInv, UNCHANGED <<kind, isClosed, stops>>, bare \subseteq bare',
         \A g \in Goroutines : at'[g] = "mark" =>
           \/ at[g] = "mark" /\ on'[g] = on[g]
           \/ on'[g] \in bare' /\ kind[on'[g]] # "ws"
  PROVE  MarkInv'
BY DEF MarkInv, Guarded

(* A holder of a lock that matters keeps it.                               *)
LEMMA LockKept ==
  ASSUME LockInv, UNCHANGED <<kind, isClosed>>,
         \A g \in Goroutines : at'[g] \in Later \cup {"mark"} =>
           \/ kind[on'[g]] # "ws"
           \/ /\ at[g] \in Later \cup {"mark"} /\ on'[g] = on[g]
              /\ wsLock[on[g]] = g => wsLock'[on[g]] = g,
         \A c \in Conns : at'[Reader(c)] = "read" =>
           \/ kind[c] # "ws"
           \/ wsLock'[c] = Reader(c) /\ c \notin isClosed
           \/ /\ at[Reader(c)] = "read"
              /\ wsLock[c] = Reader(c) => wsLock'[c] = Reader(c)
  PROVE  LockInv'
BY DEF LockInv

(* Only heartbeats that have begun and not ended move, nobody gets to the  *)
(* mark and nothing is closed.                                             *)
LEMMA BeatKept ==
  ASSUME BeatInv, UNCHANGED <<kind, beating, isClosed>>, bare \subseteq bare',
         \A c \in Conns : \/ at'[Beat(c)] = at[Beat(c)]
                          \/ /\ at[Beat(c)] \notin {"off", "done"}
                             /\ at'[Beat(c)] \in BeatPlaces,
         \A g \in Goroutines : at'[g] = "mark" =>
           \/ at[g] = "mark" /\ on'[g] = on[g]
           \/ on'[g] \in bare' \/ kind[on'[g]] = "ws"
  PROVE  BeatInv'
BY DEF BeatInv

(* No goroutine of a connection begins or ends up before its Start.        *)
LEMMA StartKept ==
  ASSUME StartInv,
         \A c \in Conns :
           /\ at'[Starter(c)] \in {"bind", "heartbeat", "context"} =>
                /\ at'[Starter(c)] = at[Starter(c)]
                /\ ctx[c] = "none" => ctx'[c] = "none"
                /\ at[Reader(c)] = "off" => at'[Reader(c)] = "off"
                /\ at[Writer(c)] = "off" => at'[Writer(c)] = "off"
                /\ at[Beat(c)] = "off" => at'[Beat(c)] = "off"
  PROVE  StartInv'
BY DEF StartInv

(* The goroutines movers, none of them past its mark, go about their       *)
(* business; no other loses a lock.                                        *)
LEMMA Moves ==
  ASSUME IInv, NEW movers \in SUBSET Goroutines,
         UNCHANGED <<kind, beating, connections, opened, isClosed, ctx, stops>>,
         bare \subseteq bare', uncancelled \subseteq uncancelled',
         \A h \in Goroutines \ movers :
           /\ at'[h] = at[h] /\ on'[h] = on[h]
           /\ \A c \in Conns : wsLock[c] = h => wsLock'[c] = h,
         \A g \in movers :
           /\ at[g] \notin {"off", "done", "mark"} \cup Later
           /\ at'[g] \notin {"bind", "heartbeat", "context"} \cup Later
           /\ at'[g] = "mark" => on'[g] \in bare' /\ kind[on'[g]] # "ws"
           /\ at'[g] = "lock" => kind[on'[g]] = "ws"
           /\ at'[g] = "hb" => kind[on'[g]] # "ws"
           /\ at'[g] = "read" => \/ kind[g[2]] # "ws"
                                 \/ wsLock'[g[2]] = g /\ g[2] \notin isClosed
           /\ g[1] = "heartbeat" => at'[g] \in BeatPlaces
           /\ IF g \in Bound
                THEN on'[g] = on[g]
                ELSE at'[g] = "idle" \/ on'[g] \in Conns
  PROVE  Control'
<1>0. /\ OnInv /\ StartInv /\ BeatInv /\ MarkInv /\ LockInv /\ StageInv
      /\ CleanInv
  BY DEF IInv, Control
<1>1. OnInv' BY <1>0 DEF OnInv
<1>2. LaterKept BY DEF LaterKept
<1>3. StageInv' /\ CleanInv' BY <1>0, <1>2, StageKept, CleanKept
<1>4. \A c \in Conns :
        /\ {Starter(c), Reader(c), Writer(c), Beat(c)} \subseteq Goroutines
        /\ Reader(c)[2] = c /\ Beat(c)[1] = "heartbeat"
  BY Names
<1>5. StartInv'
  <2>1. \A c \in Conns :
          /\ at'[Starter(c)] \in {"bind", "heartbeat", "context"} =>
               at'[Starter(c)] = at[Starter(c)]
          /\ at[Reader(c)] = "off" => at'[Reader(c)] = "off"
          /\ at[Writer(c)] = "off" => at'[Writer(c)] = "off"
          /\ at[Beat(c)] = "off" => at'[Beat(c)] = "off"
    BY <1>4
  <2> QED BY <1>0, <2>1, StartKept
<1>6. \A g \in Goroutines : at'[g] = "mark" =>
        \/ at[g] = "mark" /\ on'[g] = on[g]
        \/ on'[g] \in bare' /\ kind[on'[g]] # "ws"
  OBVIOUS
<1>7. MarkInv' BY <1>0, <1>6, MarkKept
<1>8. BeatInv' BY <1>0, <1>4, <1>6, BeatKept
<1>9. LockInv'
  <2>1. \A g \in Goroutines : at'[g] \in Later \cup {"mark"} =>
          \/ kind[on'[g]] # "ws"
          \/ /\ at[g] \in Later \cup {"mark"} /\ on'[g] = on[g]
             /\ wsLock[on[g]] = g => wsLock'[on[g]] = g
    <3> SUFFICES ASSUME NEW g \in Goroutines, at'[g] \in Later \cup {"mark"},
                        kind[on'[g]] = "ws"
                 PROVE  /\ at[g] \in Later \cup {"mark"} /\ on'[g] = on[g]
                        /\ wsLock[on[g]] = g => wsLock'[on[g]] = g
      OBVIOUS
    <3>1. g \notin movers OBVIOUS
    <3>2. at'[g] = at[g] /\ on'[g] = on[g] BY <3>1
    <3>3. on[g] \in Conns BY <1>0, <3>2, Working DEF Later
    <3> QED BY <3>1, <3>2, <3>3
  <2>2. \A c \in Conns : at'[Reader(c)] = "read" =>
          \/ kind[c] # "ws"
          \/ wsLock'[c] = Reader(c) /\ c \notin isClosed
          \/ /\ at[Reader(c)] = "read"
             /\ wsLock[c] = Reader(c) => wsLock'[c] = Reader(c)
    BY <1>4
  <2> QED BY <1>0, <2>1, <2>2, LockKept
<1> QED BY <1>1, <1>3, <1>5, <1>7, <1>8, <1>9 DEF Control

(* One goroutine moves.                                                    *)
LEMMA OneMoves ==
  ASSUME IInv, NEW g \in Goroutines,
         UNCHANGED <<kind, beating, connections, opened, isClosed, ctx, stops>>,
         bare \subseteq bare', uncancelled \subseteq uncancelled',
         \A h \in Goroutines \ {g} :
           /\ at'[h] = at[h] /\ on'[h] = on[h]
           /\ \A c \in Conns : wsLock[c] = h => wsLock'[c] = h,
         at[g] \notin {"off", "done", "mark"} \cup Later,
         at'[g] \notin {"bind", "heartbeat", "context"} \cup Later,
         at'[g] = "mark" => on'[g] \in bare' /\ kind[on'[g]] # "ws",
         at'[g] = "lock" => kind[on'[g]] = "ws",
         at'[g] = "hb" => kind[on'[g]] # "ws",
         at'[g] = "read" => \/ kind[g[2]] # "ws"
                            \/ wsLock'[g[2]] = g /\ g[2] \notin isClosed,
         g[1] = "heartbeat" => at'[g] \in BeatPlaces,
         IF g \in Bound THEN on'[g] = on[g]
                        ELSE at'[g] = "idle" \/ on'[g] \in Conns
  PROVE  Control'
<1> DEFINE movers == {g}
<1>1. movers \in SUBSET Goroutines /\ \A h : h \in movers <=> h = g OBVIOUS
<1> HIDE DEF movers
<1> QED BY <1>1, Moves

(* Two goroutines move.                                                    *)
LEMMA TwoMove ==
  ASSUME IInv, NEW g \in Goroutines, NEW w \in Goroutines,
         UNCHANGED <<kind, beating, connections, opened, isClosed, ctx, stops>>,
         bare \subseteq bare', uncancelled \subseteq uncancelled',
         UNCHANGED wsLock,
         \A h \in Goroutines \ {g, w} : at'[h] = at[h] /\ on'[h] = on[h],
         \A h \in {g, w} :
           /\ at[h] \notin {"off", "done", "mark"} \cup Later
           /\ at'[h] \notin {"bind", "heartbeat", "context", "lock", "hb", "mark"}
                           \cup Later
           /\ at'[h] = "read" => kind[h[2]] # "ws"
           /\ h[1] = "heartbeat" => at'[h] \in BeatPlaces
           /\ IF h \in Bound THEN on'[h] = on[h]
                             ELSE at'[h] = "idle" \/ on'[h] \in Conns
  PROVE  Control'
<1> DEFINE movers == {g, w}
<1>1. movers \in SUBSET Goroutines /\ \A h : h \in movers <=> h \in {g, w}
  OBVIOUS
<1> HIDE DEF movers
<1> QED BY <1>1, Moves

(* What a Return does.                                                     *)
LEMMA Returns ==
  ASSUME TypeOK, NEW g \in Goroutines, Return(g)
  PROVE  /\ at'[g] = NextPlace(g)
         /\ at' \in [Goroutines -> Places] /\ on' \in [Goroutines -> Conns \cup {None}]
         /\ \A h \in Goroutines \ {g} : at'[h] = at[h] /\ on'[h] = on[h]
         /\ IF g \in Bound THEN on'[g] = on[g] ELSE at'[g] = "idle"
<1>1. /\ at' = [at EXCEPT ![g] = NextPlace(g)]
      /\ on' = [on EXCEPT ![g] = IF g \in Bound THEN on[g] ELSE None]
  BY DEF Return, Goto, Leaves
<1>2. /\ NextPlace(g) \in {"done", "wait", "select", "selfquit", "idle"}
      /\ NextPlace(g) = "idle" <=> g \notin Bound
  BY NextPlaces
<1>3. NextPlace(g) \in Places BY <1>2 DEF Places
<1>4. /\ at \in [Goroutines -> Places]
      /\ on \in [Goroutines -> Conns \cup {None}]
  BY DEF TypeOK
<1> QED BY <1>1, <1>2, <1>3, <1>4

(* And a Goto.                                                             *)
LEMMA Goes ==
  ASSUME TypeOK, NEW g \in Goroutines, NEW p \in Places, Goto(g, p),
         UNCHANGED on
  PROVE  /\ at'[g] = p
         /\ at' \in [Goroutines -> Places] /\ on' \in [Goroutines -> Conns \cup {None}]
         /\ \A h \in Goroutines \ {g} : at'[h] = at[h] /\ on'[h] = on[h]
         /\ on'[g] = on[g]
BY DEF Goto, TypeOK

-----------------------------------------------------------------------------
(* The code of the application, and Send.                                  *)

LEMMA DecideStep ==
  ASSUME IInv, NEW g \in Goroutines, Decide(g)
  PROVE  IInv'
<1> USE DEF tableVars, setupVars, sockVars
<1>0. TypeOK /\ OnInv /\ BeatInv BY DEF IInv, Control
<1>1. /\ at[g] \in {"handle", "hook"}
      /\ UNCHANGED <<tableVars, setupVars, sockVars, isClosed, wsLock, stops,
                     crashed>>
  BY DEF Decide
<1>2. /\ at' \in [Goroutines -> Places] /\ on' \in [Goroutines -> Conns \cup {None}]
      /\ \A h \in Goroutines \ {g} : at'[h] = at[h] /\ on'[h] = on[h]
      /\ at'[g] = NextPlace(g) \/ at'[g] \in {"trysend", "stop"}
      /\ IF g \in Bound THEN on'[g] = on[g]
                        ELSE at'[g] = "idle" \/ on'[g] = on[g] \/ on'[g] \in Conns
  <2>1. CASE Return(g) BY <1>0, <2>1, Returns
  <2>2. CASE \E call \in {"trysend", "stop"} :
               Goto(g, call) /\ (UNCHANGED on \/ (g \in Handlers /\ Picks(g)))
    <3>0. PICK p \in {"trysend", "stop"} :
            Goto(g, p) /\ (UNCHANGED on \/ (g \in Handlers /\ Picks(g)))
      BY <2>2
    <3>1. p \in Places BY <3>0 DEF Places, StopPlaces
    <3>2. CASE UNCHANGED on BY <1>0, <3>0, <3>1, <3>2, Goes
    <3>3. CASE g \in Handlers /\ Picks(g)
      <4>1. g \notin Bound BY <3>3 DEF Handlers, Bound
      <4>2. PICK c \in connections : on' = [on EXCEPT ![g] = c]
        BY <3>3 DEF Picks
      <4>3. c \in Conns BY <1>0 DEF TypeOK
      <4> QED BY <1>0, <3>0, <3>1, <4>1, <4>2, <4>3 DEF Goto, TypeOK
    <3> QED BY <3>0, <3>2, <3>3
  <2> QED BY <2>1, <2>2 DEF Decide
<1>3. TypeOK' BY <1>0, <1>1, <1>2 DEF TypeOK
<1>4. on[g] \in Conns BY <1>0, <1>1, Working
<1>5. g[1] # "heartbeat"
  BY <1>0, <1>1, Names DEF BeatInv, BeatPlaces
<1>6. Control'
  BY <1>1, <1>2, <1>4, <1>5, OneMoves, NextPlaces DEF IInv, Later
<1> QED BY <1>3, <1>6 DEF IInv

LEMMA AppCallStep ==
  ASSUME IInv, NEW g \in Serving, AppCall(g)
  PROVE  IInv'
<1> USE DEF tableVars, setupVars, sockVars
<1>0. TypeOK BY DEF IInv
<1>1. g \in Goroutines /\ g \notin Bound /\ g[1] # "heartbeat"
  BY DEF Goroutines, Serving, Bound
<1>2. PICK c \in connections : on' = [on EXCEPT ![g] = c] BY DEF AppCall, Picks
<1>3. c \in Conns BY <1>0, <1>2 DEF TypeOK
<1>4. /\ at[g] = "idle" /\ at'[g] \in {"trysend", "stop"}
      /\ on'[g] = c
      /\ \A h \in Goroutines \ {g} : at'[h] = at[h] /\ on'[h] = on[h]
      /\ at' \in [Goroutines -> Places] /\ on' \in [Goroutines -> Conns \cup {None}]
      /\ UNCHANGED <<tableVars, setupVars, sockVars, isClosed, wsLock, stops,
                     crashed>>
  BY <1>0, <1>1, <1>2, <1>3 DEF AppCall, Goto, TypeOK, Places, StopPlaces
<1>5. TypeOK' BY <1>0, <1>4 DEF TypeOK
<1>6. Control' BY <1>1, <1>4, <1>3, OneMoves DEF Later
<1> QED BY <1>5, <1>6 DEF IInv

LEMMA SendCheckStep ==
  ASSUME IInv, NEW g \in Goroutines, SendCheck(g)
  PROVE  IInv'
<1> USE DEF tableVars, setupVars, sockVars
<1>0. TypeOK /\ OnInv BY DEF IInv, Control
<1>1. /\ at[g] = "trysend"
      /\ UNCHANGED <<tableVars, setupVars, sockVars, isClosed, wsLock, stops,
                     crashed>>
  BY DEF SendCheck
<1>2. /\ at' \in [Goroutines -> Places] /\ on' \in [Goroutines -> Conns \cup {None}]
      /\ \A h \in Goroutines \ {g} : at'[h] = at[h] /\ on'[h] = on[h]
      /\ at'[g] = NextPlace(g) \/ at'[g] = "send"
      /\ IF g \in Bound THEN on'[g] = on[g]
                        ELSE at'[g] = "idle" \/ on'[g] = on[g]
  <2>1. CASE Return(g) BY <1>0, <2>1, Returns
  <2>2. CASE Goto(g, "send") /\ UNCHANGED on
    BY <1>0, <2>2, Goes DEF Places
  <2> QED BY <2>1, <2>2 DEF SendCheck
<1>3. TypeOK' BY <1>0, <1>1, <1>2 DEF TypeOK
<1>4. on[g] \in Conns BY <1>0, <1>1, Working
<1>5. g[1] = "heartbeat" => at'[g] \in BeatPlaces
  BY <1>2, NextPlaces, Names DEF BeatPlaces
<1>6. Control' BY <1>1, <1>2, <1>4, <1>5, OneMoves, NextPlaces DEF Later
<1> QED BY <1>3, <1>6 DEF IInv

LEMMA SendPutStep ==
  ASSUME IInv, NEW g \in Goroutines, SendPut(g)
  PROVE  IInv'
<1> USE DEF tableVars, setupVars, sockVars
<1>0. TypeOK /\ OnInv BY DEF IInv, Control
<1>1. /\ at[g] = "send" /\ Return(g)
      /\ queue[on[g]] < Capacity(on[g])
      /\ queue' = [queue EXCEPT ![on[g]] = queue[on[g]] + 1]
      /\ UNCHANGED <<tableVars, setupVars, ctx, opened, gone, isClosed, wsLock,
                     stops, crashed>>
  BY DEF SendPut
<1>2. /\ at' \in [Goroutines -> Places] /\ on' \in [Goroutines -> Conns \cup {None}]
      /\ \A h \in Goroutines \ {g} : at'[h] = at[h] /\ on'[h] = on[h]
      /\ at'[g] = NextPlace(g)
      /\ IF g \in Bound THEN on'[g] = on[g] ELSE at'[g] = "idle"
  BY <1>0, <1>1, Returns
<1>3. queue' \in [Conns -> 0..Buffer]
  <2>1. on[g] \in Conns BY <1>0, <1>1, Working
  <2>2. Capacity(on[g]) \in 0..Buffer BY BufferAssumption DEF Capacity
  <2>3. queue \in [Conns -> 0..Buffer] BY <1>0 DEF TypeOK
  <2>4. queue[on[g]] + 1 \in 0..Buffer
    BY <1>1, <2>1, <2>2, <2>3, BufferAssumption
  <2> QED BY <1>1, <2>1, <2>3, <2>4
<1>4. TypeOK' BY <1>0, <1>1, <1>2, <1>3 DEF TypeOK
<1>5. g[1] = "heartbeat" => at'[g] \in BeatPlaces
  BY <1>2, NextPlaces, Names DEF BeatPlaces
<1>6. Control' BY <1>1, <1>2, <1>5, OneMoves, NextPlaces DEF Later
<1> QED BY <1>4, <1>6 DEF IInv

LEMMA SendHandStep ==
  ASSUME IInv, NEW g \in Goroutines, SendHand(g)
  PROVE  IInv'
<1> USE DEF tableVars, setupVars, sockVars
<1>0. TypeOK /\ OnInv BY DEF IInv, Control
<1> DEFINE w == Writer(on[g])
<1>1. /\ at[g] = "send" /\ at[w] = "select"
      /\ at' = [at EXCEPT ![g] = NextPlace(g), ![w] = "write"]
      /\ on' = [on EXCEPT ![g] = IF g \in Bound THEN on[g] ELSE None]
      /\ UNCHANGED <<tableVars, setupVars, sockVars, isClosed, wsLock, stops,
                     crashed>>
  BY DEF SendHand, Leaves
<1>2. on[g] \in Conns BY <1>0, <1>1, Working
<1>3. w \in Goroutines /\ w \in Bound /\ w[1] = "writer" BY <1>2, Names
<1> HIDE DEF w
<1>4. /\ NextPlace(g) \in {"done", "wait", "select", "selfquit", "idle"}
      /\ NextPlace(g) = "idle" <=> g \notin Bound
  BY NextPlaces
<1>5. NextPlace(g) \in Places /\ "write" \in Places BY <1>4 DEF Places
<1>6. /\ at' \in [Goroutines -> Places] /\ on' \in [Goroutines -> Conns \cup {None}]
      /\ \A h \in Goroutines \ {g, w} : at'[h] = at[h] /\ on'[h] = on[h]
      /\ g # w /\ at'[g] = NextPlace(g) /\ at'[w] = "write" /\ on'[w] = on[w]
      /\ IF g \in Bound THEN on'[g] = on[g] ELSE at'[g] = "idle"
  BY <1>0, <1>1, <1>3, <1>4, <1>5 DEF TypeOK
<1>7. TypeOK' BY <1>0, <1>1, <1>6 DEF TypeOK
<1>8. g[1] = "heartbeat" => at'[g] \in BeatPlaces
  BY <1>6, NextPlaces, Names DEF BeatPlaces
<1>9. Control' BY <1>1, <1>3, <1>4, <1>6, <1>8, TwoMove DEF Later
<1> QED BY <1>7, <1>9 DEF IInv

-----------------------------------------------------------------------------
(* Start, the writer, the reader and the heartbeat.                        *)

(* One of the goroutines of c goes from a place to a place.                *)
LEMMA BoundGoes ==
  ASSUME IInv, NEW c \in Conns, NEW g \in Bound, g[2] = c,
         NEW p \in Places, Goto(g, p), UNCHANGED on,
         UNCHANGED <<tableVars, setupVars, ctx, opened, gone, isClosed, stops,
                     crashed>>,
         queue' \in [Conns -> 0..Buffer],
         \/ UNCHANGED wsLock \/ Unlocked(g)
         \/ wsLock[c] = None /\ wsLock' = [wsLock EXCEPT ![c] = g],
         at[g] \notin {"off", "done", "mark"} \cup Later,
         p \notin {"bind", "heartbeat", "context", "lock", "hb", "mark"} \cup Later,
         p = "read" => kind[c] # "ws" \/ (wsLock'[c] = g /\ c \notin isClosed),
         g[1] = "heartbeat" => p \in BeatPlaces
  PROVE  IInv'
<1> USE DEF tableVars, setupVars
<1>0. TypeOK BY DEF IInv
<1>1. g \in Goroutines BY Names
<1>2. /\ at'[g] = p
      /\ at' \in [Goroutines -> Places] /\ on' \in [Goroutines -> Conns \cup {None}]
      /\ \A h \in Goroutines \ {g} : at'[h] = at[h] /\ on'[h] = on[h]
      /\ on'[g] = on[g]
  BY <1>0, <1>1, Goes
<1>3. wsLock \in [Conns -> Goroutines \cup {None}] BY <1>0 DEF TypeOK
<1>4. wsLock' \in [Conns -> Goroutines \cup {None}]
  BY <1>1, <1>3 DEF Unlocked
<1>5. \A h \in Goroutines \ {g} :
        \A d \in Conns : wsLock[d] = h => wsLock'[d] = h
  <2>1. CASE Unlocked(g) BY <1>3, <2>1 DEF Unlocked
  <2>2. CASE wsLock[c] = None /\ wsLock' = [wsLock EXCEPT ![c] = g]
    BY <1>3, <2>2, NoneAssumption
  <2> QED BY <2>1, <2>2
<1>6. TypeOK' BY <1>0, <1>2, <1>4 DEF TypeOK
<1>7. Control' BY <1>1, <1>2, <1>5, OneMoves
<1> QED BY <1>6, <1>7 DEF IInv

LEMMA WriterStep ==
  ASSUME IInv, NEW c \in Conns, StartWriter(c)
  PROVE  IInv'
<1> USE DEF tableVars, setupVars, sockVars
<1> DEFINE g == Writer(c)
<1>0. TypeOK BY DEF IInv
<1>1. g \in Bound /\ g[1] = "writer" /\ g[2] = c BY Names
<1>2. queue \in [Conns -> 0..Buffer] BY <1>0 DEF TypeOK
<1>3. /\ at[g] \in {"open", "select", "write"}
      /\ \E p \in {"select", "write", "stop"} : Goto(g, p)
      /\ UNCHANGED <<tableVars, setupVars, ctx, opened, gone, on, isClosed,
                     wsLock, stops, crashed>>
      /\ \/ UNCHANGED queue
         \/ queue[c] > 0 /\ queue' = [queue EXCEPT ![c] = queue[c] - 1]
  BY DEF StartWriter, OpenStream, WriterTake, Write, WriteFails
<1>4. queue' \in [Conns -> 0..Buffer]
  <2>1. CASE UNCHANGED queue BY <1>2, <2>1
  <2>2. CASE queue[c] > 0 /\ queue' = [queue EXCEPT ![c] = queue[c] - 1]
    <3>1. queue[c] - 1 \in 0..Buffer BY <1>2, <2>2, BufferAssumption
    <3> QED BY <1>2, <2>2, <3>1
  <2> QED BY <1>3, <2>1, <2>2
<1> HIDE DEF g
<1>5. PICK p \in {"select", "write", "stop"} : Goto(g, p) BY <1>3
<1>6. p \in Places BY <1>5 DEF Places, StopPlaces
<1> QED BY <1>1, <1>3, <1>4, <1>5, <1>6, BoundGoes DEF Later

LEMMA ReaderStep ==
  ASSUME IInv, NEW c \in Conns, StartReader(c)
  PROVE  IInv'
<1> USE DEF tableVars, setupVars, sockVars
<1> DEFINE g == Reader(c)
<1>0. TypeOK BY DEF IInv
<1>1. g \in Bound /\ g[1] = "reader" /\ g[2] = c BY Names
<1>2. queue' \in [Conns -> 0..Buffer] /\ wsLock \in [Conns -> Goroutines \cup {None}]
  BY <1>0 DEF TypeOK, StartReader, WsReadLock, ReadRequest, ReadOther
<1>3. CASE WsReadLock(c)
  <2>1. /\ at[g] = "rlock" /\ wsLock[c] = None /\ c \notin isClosed
        /\ wsLock' = [wsLock EXCEPT ![c] = g] /\ Goto(g, "read")
        /\ UNCHANGED <<tableVars, setupVars, sockVars, on, isClosed, stops,
                       crashed>>
    BY <1>3 DEF WsReadLock
  <2> HIDE DEF g
  <2>2. wsLock'[c] = g BY <1>2, <2>1
  <2>3. "read" \in Places BY DEF Places
  <2> QED BY <1>1, <1>2, <2>1, <2>2, <2>3, BoundGoes DEF Later
<1>4. CASE ReadRequest(c) \/ ReadOther(c)
  <2>1. /\ at[g] = "read"
        /\ \E p \in {"invoke", "rlock", "stop"} : Goto(g, p)
        /\ Unlocked(g)
        /\ UNCHANGED <<tableVars, setupVars, sockVars, on, isClosed, stops,
                       crashed>>
    BY <1>4 DEF ReadRequest, ReadOther
  <2> HIDE DEF g
  <2>2. PICK p \in {"invoke", "rlock", "stop"} : Goto(g, p) BY <2>1
  <2>3. p \in Places BY <2>2 DEF Places, StopPlaces
  <2> QED BY <1>1, <1>2, <2>1, <2>2, <2>3, BoundGoes DEF Later
<1> QED BY <1>3, <1>4 DEF StartReader

LEMMA BeatCheckStep ==
  ASSUME IInv, NEW c \in Conns, BeatCheck(c)
  PROVE  IInv'
<1> USE DEF tableVars, setupVars, sockVars
<1> DEFINE g == Beat(c)
<1>1. g \in Bound /\ g[1] = "heartbeat" /\ g[2] = c BY Names
<1>2. /\ at[g] = "select"
      /\ \E p \in {"trysend", "stop"} : Goto(g, p)
      /\ UNCHANGED <<tableVars, setupVars, sockVars, on, isClosed, wsLock, stops,
                     crashed>>
  BY DEF BeatCheck
<1>3. queue' \in [Conns -> 0..Buffer] BY <1>2 DEF IInv, TypeOK
<1> HIDE DEF g
<1>4. PICK p \in {"trysend", "stop"} : Goto(g, p) BY <1>2
<1>5. p \in Places BY <1>4 DEF Places, StopPlaces
<1> QED BY <1>1, <1>2, <1>3, <1>4, <1>5, BoundGoes DEF Later, BeatPlaces

LEMMA InvokeStep ==
  ASSUME IInv, NEW c \in Conns, NEW w \in Handlers, Invoke(c, w)
  PROVE  IInv'
<1> USE DEF tableVars, setupVars, sockVars
<1> DEFINE g == Reader(c)
<1>0. TypeOK BY DEF IInv
<1>1. g \in Bound /\ g \in Goroutines /\ g[1] = "reader" /\ g[2] = c BY Names
<1>2. w \in Goroutines /\ w \notin Bound /\ w[1] = "worker"
  BY DEF Handlers, Goroutines, Serving, Bound
<1>3. /\ at[g] = "invoke" /\ at[w] = "idle"
      /\ at' = [at EXCEPT ![g] = FirstRead(c), ![w] = "handle"]
      /\ on' = [on EXCEPT ![w] = c]
      /\ UNCHANGED <<tableVars, setupVars, sockVars, isClosed, wsLock, stops,
                     crashed>>
  BY DEF Invoke
<1> HIDE DEF g
<1>4. /\ FirstRead(c) \in {"rlock", "stop", "off", "read"}
      /\ FirstRead(c) = "read" => kind[c] # "ws"
  BY DEF FirstRead
<1>5. FirstRead(c) \in Places /\ "handle" \in Places
  BY <1>4 DEF Places, StopPlaces
<1>6. /\ at' \in [Goroutines -> Places] /\ on' \in [Goroutines -> Conns \cup {None}]
      /\ \A h \in Goroutines \ {g, w} : at'[h] = at[h] /\ on'[h] = on[h]
      /\ at'[g] = FirstRead(c) /\ at'[w] = "handle"
      /\ on'[g] = on[g] /\ on'[w] = c
  BY <1>0, <1>1, <1>2, <1>3, <1>5 DEF TypeOK
<1>7. TypeOK' BY <1>0, <1>3, <1>6 DEF TypeOK
<1>8. Control' BY <1>1, <1>2, <1>3, <1>4, <1>6, TwoMove DEF Later
<1> QED BY <1>7, <1>8 DEF IInv

LEMMA PeerGoesStep ==
  ASSUME IInv, NEW c \in Conns, PeerGoes(c)
  PROVE  IInv'
<1> USE DEF tableVars, setupVars, sockVars
<1>1. TypeOK' BY DEF IInv, TypeOK, PeerGoes
<1> DEFINE movers == {}
<1>2. movers \in SUBSET Goroutines /\ \A g : g \notin movers OBVIOUS
<1> HIDE DEF movers
<1>3. UNCHANGED <<kind, beating, bare, uncancelled, connections, opened,
                  isClosed, ctx, stops, at, on, wsLock>>
  BY DEF PeerGoes
<1>4. Control' BY <1>2, <1>3, Moves
<1> QED BY <1>1, <1>4 DEF IInv

(* Goroutines begin, none of them in a Stop; a heartbeat only where there  *)
(* is to be one.                                                           *)
LEMMA Begins ==
  ASSUME IInv, NEW c \in Conns,
         UNCHANGED <<kind, bare, uncancelled, connections, opened, isClosed,
                     stops, on, wsLock>>,
         \A d \in Conns : ctx'[d] = "done" <=> ctx[d] = "done",
         \A h \in Goroutines \ {Starter(c), Reader(c), Writer(c), Beat(c)} :
           at'[h] = at[h],
         \A h \in {Starter(c), Reader(c), Writer(c), Beat(c)} :
           \/ at'[h] = at[h]
           \/ at[h] \notin Later /\ at'[h] \notin Later \cup {"lock", "hb", "mark"},
         at'[Reader(c)] = "read" /\ kind[c] = "ws" => at[Reader(c)] = "read"
  PROVE  OnInv' /\ MarkInv' /\ LockInv' /\ StageInv' /\ CleanInv'
<1>0. OnInv /\ MarkInv /\ LockInv /\ StageInv /\ CleanInv
  BY DEF IInv, Control
<1> DEFINE mine == {Starter(c), Reader(c), Writer(c), Beat(c)}
<1>1. \A h \in mine : h \in Bound BY Names
<1>2. \A d \in Conns : Reader(d) \in Goroutines /\ Reader(d)[1] = "reader"
                      /\ Reader(d)[2] = d
  BY Names
<1>3. /\ Starter(c)[1] = "starter" /\ Writer(c)[1] = "writer"
      /\ Beat(c)[1] = "heartbeat"
  BY Names
<1>4. \A d \in Conns : d # c => Reader(d) \notin mine BY <1>2, <1>3
<1> HIDE DEF mine
<1>5. /\ \A h \in Goroutines : h \notin mine => at'[h] = at[h]
      /\ \A h \in mine : \/ at'[h] = at[h]
                         \/ /\ at[h] \notin Later
                            /\ at'[h] \notin Later \cup {"lock", "hb", "mark"}
  BY DEF mine
<1>6. OnInv' BY <1>0, <1>1, <1>5 DEF OnInv
<1>7. LaterKept BY <1>5 DEF LaterKept
<1>8. StageInv' /\ CleanInv' BY <1>0, <1>7, StageKept, CleanKept
<1>9. MarkInv' BY <1>0, <1>5, MarkKept
<1>10. LockInv'
  <2>1. \A g \in Goroutines : at'[g] \in Later \cup {"mark"} =>
          at[g] \in Later \cup {"mark"} /\ on'[g] = on[g]
    BY <1>5
  <2>2. \A d \in Conns : at'[Reader(d)] = "read" /\ kind[d] = "ws" =>
          at[Reader(d)] = "read"
    BY <1>2, <1>4, <1>5
  <2> QED BY <1>0, <2>1, <2>2, LockKept
<1> QED BY <1>6, <1>8, <1>9, <1>10

LEMMA BindStep ==
  ASSUME IInv, NEW c \in Conns, Bind(c)
  PROVE  IInv'
<1> USE DEF tableVars, setupVars, sockVars
<1>0. TypeOK /\ StartInv /\ BeatInv BY DEF IInv, Control
<1>1. /\ Starter(c) \in Goroutines
      /\ \A d \in Conns :
           /\ {Starter(d), Reader(d), Writer(d), Beat(d)} \subseteq Goroutines
           /\ Starter(d)[2] = d
           /\ Starter(c) \notin {Reader(d), Writer(d), Beat(d)}
  BY Names
<1>2. /\ at[Starter(c)] = "bind"
      /\ at' = [at EXCEPT ![Starter(c)] = "heartbeat"]
      /\ \/ beating' = beating
         \/ kind[c] # "ws" /\ beating' = beating \cup {c}
      /\ UNCHANGED <<tableVars, kind, bare, uncancelled, sockVars, on, isClosed,
                     wsLock, stops, crashed>>
  BY DEF Bind, Goto
<1>3. /\ at' \in [Goroutines -> Places] /\ at'[Starter(c)] = "heartbeat"
      /\ \A h \in Goroutines \ {Starter(c)} : at'[h] = at[h]
  BY <1>0, <1>1, <1>2 DEF TypeOK, Places
<1>4. TypeOK' BY <1>0, <1>2, <1>3 DEF TypeOK
<1>5. \A d \in Conns :
        /\ at'[Beat(d)] = at[Beat(d)] /\ at'[Reader(d)] = at[Reader(d)]
        /\ at'[Writer(d)] = at[Writer(d)]
        /\ d # c => at'[Starter(d)] = at[Starter(d)]
  BY <1>1, <1>3
<1>6. OnInv' /\ MarkInv' /\ LockInv' /\ StageInv' /\ CleanInv'
  BY <1>1, <1>2, <1>3, <1>5, Begins DEF Later
<1>7. StartInv' BY <1>0, <1>2, <1>3, <1>5 DEF StartInv
<1>8. BeatInv'
  <2>1. \A g \in Goroutines : at'[g] = "mark" => at[g] = "mark" BY <1>3
  <2>2. \A d \in Conns : d \notin beating' => d \notin beating BY <1>2
  <2>3. \A d \in Conns : kind[d] = "ws" => d \notin beating'
    BY <1>0, <1>2 DEF BeatInv
  <2> QED BY <1>0, <1>2, <1>5, <2>1, <2>2, <2>3 DEF BeatInv
<1> QED BY <1>4, <1>6, <1>7, <1>8 DEF IInv, Control

LEMMA StartHeartbeatStep ==
  ASSUME IInv, NEW c \in Conns, StartHeartbeat(c)
  PROVE  IInv'
<1> USE DEF tableVars, setupVars, sockVars
<1>0. TypeOK /\ StartInv /\ BeatInv BY DEF IInv, Control
<1>1. /\ Starter(c) \in Goroutines /\ Beat(c) \in Goroutines
      /\ \A d \in Conns :
           /\ {Starter(d), Reader(d), Writer(d), Beat(d)} \subseteq Goroutines
           /\ Starter(d)[2] = d /\ Reader(d)[2] = d /\ Writer(d)[2] = d
           /\ Beat(d)[2] = d
           /\ Starter(d)[1] = "starter" /\ Reader(d)[1] = "reader"
           /\ Writer(d)[1] = "writer" /\ Beat(d)[1] = "heartbeat"
  BY Names
<1>2. /\ at[Starter(c)] = "heartbeat"
      /\ at' = [at EXCEPT ![Starter(c)] = "context",
                          ![Beat(c)] = IF c \in beating THEN "select" ELSE "off"]
      /\ UNCHANGED <<tableVars, setupVars, sockVars, on, isClosed, wsLock, stops,
                     crashed>>
  BY DEF StartHeartbeat
<1>3. /\ at' \in [Goroutines -> Places]
      /\ at'[Starter(c)] = "context"
      /\ at'[Beat(c)] = IF c \in beating THEN "select" ELSE "off"
      /\ \A h \in Goroutines \ {Starter(c), Beat(c)} : at'[h] = at[h]
  <2>1. "context" \in Places /\ "select" \in Places /\ "off" \in Places
    BY DEF Places
  <2>2. Starter(c) # Beat(c) BY <1>1
  <2> QED BY <1>0, <1>1, <1>2, <2>1, <2>2 DEF TypeOK
<1>4. TypeOK' BY <1>0, <1>2, <1>3 DEF TypeOK
<1>5. at[Beat(c)] = "off" /\ at[Reader(c)] = "off" /\ at[Writer(c)] = "off"
      /\ ctx[c] = "none"
  BY <1>0, <1>2 DEF StartInv
<1>6. at'[Reader(c)] = "off" /\ at'[Writer(c)] = "off" BY <1>1, <1>3, <1>5
<1>7. OnInv' /\ MarkInv' /\ LockInv' /\ StageInv' /\ CleanInv'
  BY <1>1, <1>2, <1>3, <1>5, <1>6, Begins DEF Later
<1>8. StartInv'
  <2> SUFFICES ASSUME NEW d \in Conns
               PROVE  /\ at'[Starter(d)] \in {"bind", "heartbeat", "context"} =>
                           /\ ctx[d] = "none" /\ at'[Reader(d)] = "off"
                           /\ at'[Writer(d)] = "off"
                      /\ at'[Starter(d)] \in {"bind", "heartbeat"} => at'[Beat(d)] = "off"
    BY <1>2 DEF StartInv
  <2>1. CASE d = c BY <1>3, <1>5, <1>6, <2>1
  <2>2. CASE d # c
    <3>1. /\ at'[Starter(d)] = at[Starter(d)] /\ at'[Reader(d)] = at[Reader(d)]
          /\ at'[Writer(d)] = at[Writer(d)] /\ at'[Beat(d)] = at[Beat(d)]
      BY <1>1, <1>3, <2>2
    <3> QED BY <1>0, <3>1 DEF StartInv
  <2> QED BY <2>1, <2>2
<1>9. BeatInv'
  <2>1. \A g \in Goroutines : at'[g] = "mark" => at[g] = "mark" /\ on'[g] = on[g]
    BY <1>2, <1>3
  <2>2. \A d \in Conns : d # c => at'[Beat(d)] = at[Beat(d)] BY <1>1, <1>3
  <2>3. c \notin bare /\ kind[c] # "ws" =>
          c \notin isClosed /\ \A g \in Goroutines : ~(on[g] = c /\ at[g] = "mark")
    BY <1>0, <1>5 DEF BeatInv
  <2> QED BY <1>0, <1>2, <1>3, <2>1, <2>2, <2>3 DEF BeatInv, BeatPlaces
<1> QED BY <1>4, <1>7, <1>8, <1>9 DEF IInv, Control

LEMMA StartContextStep ==
  ASSUME IInv, NEW c \in Conns, StartContext(c)
  PROVE  IInv'
<1> USE DEF tableVars, setupVars, sockVars
<1>0. TypeOK /\ StartInv /\ BeatInv BY DEF IInv, Control
<1>1. /\ {Starter(c), Reader(c), Writer(c)} \subseteq Goroutines
      /\ \A d \in Conns :
           /\ {Starter(d), Reader(d), Writer(d), Beat(d)} \subseteq Goroutines
           /\ Starter(d)[2] = d /\ Reader(d)[2] = d /\ Writer(d)[2] = d
           /\ Beat(d)[2] = d
           /\ Starter(d)[1] = "starter" /\ Reader(d)[1] = "reader"
           /\ Writer(d)[1] = "writer" /\ Beat(d)[1] = "heartbeat"
  BY Names
<1> DEFINE wp == IF kind[c] = "quic" THEN "open" ELSE "select"
<1>2. /\ at[Starter(c)] = "context"
      /\ ctx' = [ctx EXCEPT ![c] = "live"]
      /\ at' = [at EXCEPT ![Starter(c)] = "hook", ![Reader(c)] = FirstRead(c),
                          ![Writer(c)] = wp]
      /\ UNCHANGED <<tableVars, setupVars, opened, gone, queue, on, isClosed,
                     wsLock, stops, crashed>>
  BY DEF StartContext
<1>3. /\ FirstRead(c) \in {"rlock", "stop", "off", "read"}
      /\ FirstRead(c) = "read" => kind[c] # "ws"
      /\ wp \in {"open", "select"}
  BY DEF FirstRead
<1>4. FirstRead(c) \in Places /\ wp \in Places /\ "hook" \in Places
  BY <1>3 DEF Places, StopPlaces
<1> HIDE DEF wp
<1>5. /\ at' \in [Goroutines -> Places]
      /\ at'[Starter(c)] = "hook" /\ at'[Reader(c)] = FirstRead(c)
      /\ at'[Writer(c)] = wp
      /\ \A h \in Goroutines \ {Starter(c), Reader(c), Writer(c)} : at'[h] = at[h]
  <2>1. /\ Starter(c) # Reader(c) /\ Starter(c) # Writer(c)
        /\ Reader(c) # Writer(c)
    BY <1>1
  <2> QED BY <1>0, <1>1, <1>2, <1>4, <2>1 DEF TypeOK
<1>6. /\ ctx[c] = "none" /\ at[Reader(c)] = "off" /\ at[Writer(c)] = "off"
  BY <1>0, <1>2 DEF StartInv
<1>7. /\ ctx' \in [Conns -> {"none", "live", "done"}] /\ ctx'[c] = "live"
      /\ \A d \in Conns : d # c => ctx'[d] = ctx[d]
  BY <1>0, <1>2 DEF TypeOK
<1>8. TypeOK' BY <1>0, <1>2, <1>5, <1>7 DEF TypeOK
<1>9. at'[Beat(c)] = at[Beat(c)] BY <1>1, <1>5
<1>10. OnInv' /\ MarkInv' /\ LockInv' /\ StageInv' /\ CleanInv'
  <2>1. \A d \in Conns : ctx'[d] = "done" <=> ctx[d] = "done"
    BY <1>6, <1>7
  <2>2. \A h \in Goroutines \ {Starter(c), Reader(c), Writer(c), Beat(c)} :
          at'[h] = at[h]
    BY <1>5
  <2>3. \A h \in {Starter(c), Reader(c), Writer(c), Beat(c)} :
          \/ at'[h] = at[h]
          \/ at[h] \notin Later /\ at'[h] \notin Later \cup {"lock", "hb", "mark"}
    <3>1. /\ at[Starter(c)] \notin Later
          /\ at'[Starter(c)] \notin Later \cup {"lock", "hb", "mark"}
      BY <1>2, <1>5 DEF Later
    <3>2. /\ at[Reader(c)] \notin Later
          /\ at'[Reader(c)] \notin Later \cup {"lock", "hb", "mark"}
      BY <1>3, <1>5, <1>6 DEF Later
    <3>3. /\ at[Writer(c)] \notin Later
          /\ at'[Writer(c)] \notin Later \cup {"lock", "hb", "mark"}
      BY <1>3, <1>5, <1>6 DEF Later
    <3> QED BY <1>9, <3>1, <3>2, <3>3
  <2>4. ~(at'[Reader(c)] = "read" /\ kind[c] = "ws") BY <1>3, <1>5
  <2>5. UNCHANGED <<kind, bare, uncancelled, connections, opened, isClosed,
                    stops, on, wsLock>>
    BY <1>2
  <2> QED BY <2>1, <2>2, <2>3, <2>4, <2>5, Begins
<1>11. StartInv'
  <2> SUFFICES ASSUME NEW d \in Conns
               PROVE  /\ at'[Starter(d)] \in {"bind", "heartbeat", "context"} =>
                           /\ ctx'[d] = "none" /\ at'[Reader(d)] = "off"
                           /\ at'[Writer(d)] = "off"
                      /\ at'[Starter(d)] \in {"bind", "heartbeat"} => at'[Beat(d)] = "off"
    BY DEF StartInv
  <2>1. CASE d = c BY <1>5, <2>1
  <2>2. CASE d # c
    <3>1. /\ at'[Starter(d)] = at[Starter(d)] /\ at'[Reader(d)] = at[Reader(d)]
          /\ at'[Writer(d)] = at[Writer(d)] /\ at'[Beat(d)] = at[Beat(d)]
      BY <1>1, <1>5, <2>2
    <3> QED BY <1>0, <1>7, <2>2, <3>1 DEF StartInv
  <2> QED BY <2>1, <2>2
<1>12. BeatInv'
  <2>1. \A g \in Goroutines : at'[g] = "mark" => at[g] = "mark" /\ on'[g] = on[g]
    BY <1>2, <1>3, <1>5
  <2>2. \A d \in Conns : at'[Beat(d)] = at[Beat(d)] BY <1>1, <1>5
  <2> QED BY <1>0, <1>2, <2>1, <2>2, BeatKept
<1> QED BY <1>8, <1>10, <1>11, <1>12 DEF IInv, Control

LEMMA StartStep ==
  ASSUME IInv, NEW c \in Conns, Start(c)
  PROVE  IInv'
<1>1. CASE StartReturn(c)
  <2>1. Starter(c) \in Bound /\ Starter(c)[1] = "starter" /\ Starter(c)[2] = c
    BY Names
  <2>2. "done" \in Places BY DEF Places
  <2>3. queue' \in [Conns -> 0..Buffer]
    BY <1>1 DEF StartReturn, IInv, TypeOK, sockVars
  <2> QED BY <1>1, <2>1, <2>2, <2>3, BoundGoes DEF StartReturn, Later, sockVars
<1> QED BY <1>1, StartHeartbeatStep, StartContextStep DEF Start

-----------------------------------------------------------------------------
(* Stop, up to the mark.                                                   *)

LEMMA StopCheckStep ==
  ASSUME IInv, NEW g \in Goroutines, StopCheck(g)
  PROVE  IInv'
<1> USE DEF tableVars, setupVars, sockVars
<1>0. TypeOK /\ OnInv /\ BeatInv BY DEF IInv, Control
<1>1. /\ at[g] = "stop"
      /\ UNCHANGED <<tableVars, setupVars, sockVars, isClosed, wsLock, stops,
                     crashed>>
  BY DEF StopCheck
<1> DEFINE c == on[g]
           p == IF kind[c] = "ws" THEN "lock" ELSE "hb"
<1>2. c \in Conns BY <1>0, <1>1, Working
<1>3. (Goto(g, p) /\ UNCHANGED on) \/ Return(g) BY DEF StopCheck
<1>4. p \in {"lock", "hb"} /\ p \in Places BY DEF Places, StopPlaces
<1>5. g[1] = "heartbeat" => kind[c] # "ws"
  <2> SUFFICES ASSUME g[1] = "heartbeat" PROVE kind[c] # "ws" OBVIOUS
  <2>1. g \in Bound BY Names
  <2>2. on[g] = g[2] BY <1>0, <2>1 DEF OnInv
  <2>3. g = Beat(c) BY <2>1, <2>2, Names
  <2> QED BY <1>0, <1>1, <1>2, <2>3 DEF BeatInv
<1>6. /\ at' \in [Goroutines -> Places] /\ on' \in [Goroutines -> Conns \cup {None}]
      /\ \A h \in Goroutines \ {g} : at'[h] = at[h] /\ on'[h] = on[h]
      /\ at'[g] = NextPlace(g) \/ (at'[g] = p /\ on'[g] = on[g])
      /\ IF g \in Bound THEN on'[g] = on[g]
                        ELSE at'[g] = "idle" \/ on'[g] = on[g]
  <2>1. CASE Return(g) BY <1>0, <2>1, Returns
  <2>2. CASE Goto(g, p) /\ UNCHANGED on
    <3> HIDE DEF p
    <3> QED BY <1>0, <1>4, <2>2, Goes
  <2> QED BY <1>3, <2>1, <2>2
<1>7. TypeOK' BY <1>0, <1>1, <1>6 DEF TypeOK
<1>8. g[1] = "heartbeat" => at'[g] \in BeatPlaces
  <2>1. g[1] = "heartbeat" => NextPlace(g) \in {"done", "select", "selfquit"}
    BY NextPlaces, Names
  <2> QED BY <1>5, <1>6, <2>1 DEF BeatPlaces
<1>9. /\ at'[g] \notin {"bind", "heartbeat", "context", "read", "mark"} \cup Later
      /\ at'[g] = "lock" => kind[on'[g]] = "ws"
      /\ at'[g] = "hb" => kind[on'[g]] # "ws"
  BY <1>6, NextPlaces DEF Later
<1>10. Control' BY <1>1, <1>2, <1>6, <1>8, <1>9, OneMoves DEF Later
<1> QED BY <1>7, <1>10 DEF IInv

(* A Stop that finds c.hb nil makes the connection bare.                   *)
LEMMA StopHeartbeatStep ==
  ASSUME IInv, NEW g \in Goroutines, StopHeartbeat(g)
  PROVE  IInv'
<1> USE DEF tableVars, setupVars, sockVars
<1>0. TypeOK /\ OnInv /\ BeatInv BY DEF IInv, Control
<1> DEFINE c == on[g]
<1>1. /\ at[g] = "hb"
      /\ \/ c \in beating /\ Goto(g, "quit") /\ UNCHANGED bare
         \/ c \notin beating /\ Goto(g, "mark") /\ bare' = bare \cup {c}
      /\ UNCHANGED <<tableVars, kind, beating, uncancelled, sockVars, on,
                     isClosed, wsLock, stops, crashed>>
  BY DEF StopHeartbeat
<1>2. c \in Conns /\ kind[c] # "ws"
  BY <1>0, <1>1, Working DEF OnInv
<1>3. \E p \in {"quit", "mark"} : Goto(g, p) BY <1>1
<1>4. PICK p \in {"quit", "mark"} : Goto(g, p) BY <1>3
<1>5. p \in Places BY DEF Places, StopPlaces
<1>6. /\ at'[g] = p /\ on'[g] = c
      /\ at' \in [Goroutines -> Places] /\ on' \in [Goroutines -> Conns \cup {None}]
      /\ \A h \in Goroutines \ {g} : at'[h] = at[h] /\ on'[h] = on[h]
  BY <1>0, <1>1, <1>4, <1>5, Goes
<1>7. p = "mark" => c \in bare' /\ c \notin beating
  <2>1. CASE Goto(g, "quit")
    BY <1>0, <1>6, <2>1 DEF Goto, TypeOK
  <2>2. CASE c \notin beating /\ bare' = bare \cup {c} BY <2>2
  <2> QED BY <1>1, <2>1, <2>2
<1>8. bare \subseteq bare' /\ bare' \subseteq Conns BY <1>0, <1>1, <1>2 DEF TypeOK
<1>9. TypeOK' BY <1>0, <1>1, <1>6, <1>8 DEF TypeOK
<1>10. g[1] = "heartbeat" => at'[g] \in BeatPlaces
  <2> SUFFICES ASSUME g[1] = "heartbeat" PROVE p = "quit"
    BY <1>6 DEF BeatPlaces
  <2>1. g \in Bound BY Names
  <2>2. on[g] = g[2] BY <1>0, <2>1 DEF OnInv
  <2>3. g = Beat(c) BY <2>1, <2>2, Names
  <2>4. c \in beating BY <1>0, <1>1, <1>2, <2>3 DEF BeatInv
  <2> QED BY <1>7, <2>4
<1>11. Control' BY <1>1, <1>2, <1>6, <1>7, <1>8, <1>10, OneMoves DEF Later
<1> QED BY <1>9, <1>11 DEF IInv

(* The heartbeat stops by the other way only: it never takes the lock.     *)
LEMMA NoBeatInStop ==
  ASSUME IInv, NEW g \in Goroutines, at[g] \in Later \cup {"lock", "mark"}
  PROVE  g[1] # "heartbeat"
BY Names DEF IInv, Control, BeatInv, BeatPlaces, Later

LEMMA StopLockStep ==
  ASSUME IInv, NEW g \in Goroutines, StopLock(g)
  PROVE  IInv'
<1> USE DEF tableVars, setupVars, sockVars
<1>0. TypeOK /\ OnInv /\ StartInv /\ BeatInv /\ MarkInv /\ LockInv /\ StageInv
      /\ CleanInv
  BY DEF IInv, Control
<1> DEFINE c == on[g]
<1>1. /\ at[g] = "lock" /\ wsLock[c] = None
      /\ UNCHANGED <<tableVars, setupVars, sockVars, isClosed, stops, crashed>>
      /\ \/ Return(g) /\ UNCHANGED wsLock
         \/ /\ wsLock' = [wsLock EXCEPT ![c] = g] /\ c \notin isClosed
            /\ Goto(g, "mark") /\ UNCHANGED on
  BY DEF StopLock
<1>2. c \in Conns BY <1>0, <1>1, Working
<1>3. g[1] # "heartbeat" BY <1>1, NoBeatInStop
<1>4. kind[c] = "ws" BY <1>0, <1>1 DEF OnInv
<1>5. wsLock \in [Conns -> Goroutines \cup {None}] BY <1>0 DEF TypeOK
<1>6. /\ at' \in [Goroutines -> Places] /\ on' \in [Goroutines -> Conns \cup {None}]
      /\ \A h \in Goroutines \ {g} : at'[h] = at[h] /\ on'[h] = on[h]
      /\ IF g \in Bound THEN on'[g] = on[g]
                        ELSE at'[g] = "idle" \/ on'[g] = on[g]
      /\ \/ at'[g] = NextPlace(g) /\ UNCHANGED wsLock
         \/ at'[g] = "mark" /\ on'[g] = on[g] /\ c \notin isClosed
            /\ wsLock' = [wsLock EXCEPT ![c] = g]
  <2>1. CASE Return(g) /\ UNCHANGED wsLock BY <1>0, <2>1, Returns
  <2>2. CASE /\ wsLock' = [wsLock EXCEPT ![c] = g] /\ c \notin isClosed
             /\ Goto(g, "mark") /\ UNCHANGED on
    <3>1. "mark" \in Places BY DEF Places, StopPlaces
    <3> QED BY <1>0, <2>2, <3>1, Goes
  <2> QED BY <1>1, <2>1, <2>2
<1>7. /\ wsLock' \in [Conns -> Goroutines \cup {None}]
      /\ \A h \in Goroutines \ {g} :
           \A d \in Conns : wsLock[d] = h => wsLock'[d] = h
  BY <1>1, <1>5, <1>6, NoneAssumption
<1>8. TypeOK' BY <1>0, <1>1, <1>6, <1>7 DEF TypeOK
<1>9. at'[g] \notin {"bind", "heartbeat", "context", "lock", "hb", "read"}
                  \cup Later
  BY <1>6, NextPlaces DEF Later
<1>10. CASE at'[g] # "mark"
  <2>1. Control'
    BY <1>1, <1>2, <1>3, <1>6, <1>7, <1>9, <1>10, OneMoves DEF Later
  <2> QED BY <1>8, <2>1 DEF IInv
<1>11. CASE at'[g] = "mark"
  <2>1. /\ on'[g] = c /\ c \notin isClosed
        /\ wsLock' = [wsLock EXCEPT ![c] = g] /\ wsLock'[c] = g
    BY <1>2, <1>5, <1>6, <1>11, NextPlaces
  <2>2. \A h \in Goroutines : on[h] = c => at[h] \notin Later \cup {"mark"}
    BY <1>0, <1>1, <1>4, NoneAssumption DEF LockInv
  <2>3. \A d \in Conns :
          /\ {Starter(d), Reader(d), Writer(d), Beat(d)} \subseteq Goroutines
          /\ Beat(d)[1] = "heartbeat" /\ Reader(d)[2] = d
    BY Names
  <2>4. OnInv' BY <1>0, <1>2, <1>6, <1>9, <2>1, <1>1, <1>11 DEF OnInv
  <2>5. LaterKept BY <1>1, <1>6, <1>9, <2>1 DEF LaterKept, Later
  <2>6. StageInv' /\ CleanInv' BY <1>0, <1>1, <2>5, StageKept, CleanKept
  <2>7. StartInv'
    <3>1. \A d \in Conns :
            /\ at'[Starter(d)] \in {"bind", "heartbeat", "context"} =>
                 at'[Starter(d)] = at[Starter(d)]
            /\ at[Reader(d)] = "off" => at'[Reader(d)] = "off"
            /\ at[Writer(d)] = "off" => at'[Writer(d)] = "off"
            /\ at[Beat(d)] = "off" => at'[Beat(d)] = "off"
      BY <1>1, <1>6, <1>9, <2>3
    <3> QED BY <1>0, <1>1, <3>1, StartKept
  <2>8. BeatInv'
    <3>1. \A d \in Conns : at'[Beat(d)] = at[Beat(d)] BY <1>3, <1>6, <2>3
    <3>2. \A h \in Goroutines : at'[h] = "mark" =>
            (at[h] = "mark" /\ on'[h] = on[h]) \/ kind[on'[h]] = "ws"
      BY <1>4, <1>6, <2>1
    <3> QED BY <1>0, <1>1, <3>1, <3>2, BeatKept
  <2>9. MarkInv'
    <3>1. \A d : Guarded(d)' = Guarded(d) BY <1>1 DEF Guarded
    <3>2. \A h \in Goroutines : at'[h] = "mark" =>
            \/ h = g /\ on'[h] = c
            \/ h # g /\ at[h] = "mark" /\ on'[h] = on[h] /\ on[h] # c
      BY <1>6, <2>1, <2>2
    <3> QED BY <1>0, <1>1, <2>1, <3>1, <3>2 DEF MarkInv
  <2>10. LockInv'
    <3>1. \A h \in Goroutines : at'[h] \in Later \cup {"mark"} =>
            \/ h = g /\ on'[h] = c
            \/ /\ h # g /\ at[h] \in Later \cup {"mark"} /\ on'[h] = on[h]
               /\ on[h] # c /\ on[h] \in Conns
      BY <1>0, <1>6, <1>9, <2>1, <2>2, Working DEF Later
    <3>2. \A d \in Conns : at'[Reader(d)] = "read" /\ kind[d] = "ws" =>
            d # c /\ at[Reader(d)] = "read"
      <4> SUFFICES ASSUME NEW d \in Conns, at'[Reader(d)] = "read",
                          kind[d] = "ws"
                   PROVE  d # c /\ at[Reader(d)] = "read"
        OBVIOUS
      <4>1. Reader(d) # g BY <1>9
      <4>2. at[Reader(d)] = "read" BY <1>6, <2>3, <4>1
      <4>3. wsLock[d] = Reader(d) BY <1>0, <4>2 DEF LockInv
      <4> QED BY <1>1, <2>3, <4>2, <4>3, NoneAssumption
    <3>3. \A d \in Conns : d # c => wsLock'[d] = wsLock[d] BY <1>5, <2>1
    <3> QED BY <1>0, <1>1, <2>1, <3>1, <3>2, <3>3 DEF LockInv
  <2> QED BY <1>8, <2>4, <2>6, <2>7, <2>8, <2>9, <2>10 DEF IInv, Control
<1> QED BY <1>10, <1>11

LEMMA HeartbeatQuitStep ==
  ASSUME IInv, NEW g \in Goroutines, HeartbeatQuit(g)
  PROVE  IInv'
<1> USE DEF tableVars, setupVars, sockVars
<1>0. TypeOK /\ OnInv /\ StartInv /\ BeatInv /\ MarkInv /\ LockInv /\ StageInv
      /\ CleanInv
  BY DEF IInv, Control
<1> DEFINE c == on[g]
           b == Beat(c)
<1>1. /\ at[g] = "quit" /\ at[b] = "select"
      /\ at' = [at EXCEPT ![g] = "mark", ![b] = "done"]
      /\ UNCHANGED <<tableVars, setupVars, sockVars, on, isClosed, wsLock, stops,
                     crashed>>
  BY DEF HeartbeatQuit
<1>2. c \in Conns BY <1>0, <1>1, Working
<1>3. b \in Goroutines /\ b \in Bound BY <1>2, Names
<1>4. /\ kind[c] # "ws" /\ c \in beating
      /\ c \notin bare => c \notin isClosed
      /\ c \notin bare =>
           \A h \in Goroutines : ~(on[h] = c /\ at[h] = "mark")
  BY <1>0, <1>1, <1>2 DEF BeatInv
<1> HIDE DEF b
<1>5. /\ at' \in [Goroutines -> Places] /\ at'[g] = "mark" /\ at'[b] = "done"
      /\ \A h \in Goroutines \ {g, b} : at'[h] = at[h]
      /\ g # b
  BY <1>0, <1>1, <1>3 DEF TypeOK, Places, StopPlaces
<1>6. TypeOK' BY <1>0, <1>1, <1>5 DEF TypeOK
<1>7. OnInv' BY <1>0, <1>1, <1>2, <1>3, <1>5 DEF OnInv
<1>8. \A d \in Conns :
        /\ {Starter(d), Reader(d), Writer(d), Beat(d)} \subseteq Goroutines
        /\ Beat(d)[1] = "heartbeat" /\ Beat(d)[2] = d
  BY Names
<1>9. StartInv'
  <2>1. \A d \in Conns :
          /\ at'[Starter(d)] \in {"bind", "heartbeat", "context"} =>
               at'[Starter(d)] = at[Starter(d)]
          /\ at[Reader(d)] = "off" => at'[Reader(d)] = "off"
          /\ at[Writer(d)] = "off" => at'[Writer(d)] = "off"
          /\ at[Beat(d)] = "off" => at'[Beat(d)] = "off"
    BY <1>1, <1>5, <1>8
  <2> QED BY <1>0, <1>1, <2>1, StartKept
<1>10. g[1] # "heartbeat"
  <2> SUFFICES ASSUME g[1] = "heartbeat" PROVE FALSE OBVIOUS
  <2>1. g \in Bound /\ g = Beat(g[2]) BY Names
  <2>2. on[g] = g[2] BY <1>0, <2>1 DEF OnInv
  <2> QED BY <1>5, <2>1, <2>2 DEF b
<1>11. BeatInv'
  <2>1. \A d \in Conns : d # c => Beat(d) # g /\ Beat(d) # b
    BY <1>2, <1>8, <1>10 DEF b
  <2>2. \A d \in Conns : d # c => at'[Beat(d)] = at[Beat(d)] BY <1>5, <1>8, <2>1
  <2>3. at'[Beat(c)] = "done" BY <1>5 DEF b
  <2>4. \A h \in Goroutines : at'[h] = "mark" => at[h] = "mark" \/ on[h] = c
    BY <1>5
  <2> QED BY <1>0, <1>1, <1>4, <2>2, <2>3, <2>4 DEF BeatInv, BeatPlaces
<1>12. MarkInv'
  <2>1. \A d : Guarded(d)' = Guarded(d) BY <1>1 DEF Guarded
  <2>2. \A h \in Goroutines : at'[h] = "mark" =>
          h = g \/ (at[h] = "mark" /\ (on[h] = c => c \in bare))
    BY <1>4, <1>5
  <2> QED BY <1>0, <1>1, <1>4, <2>1, <2>2 DEF MarkInv, Guarded
<1>13. LockInv'
  <2>1. \A h \in Goroutines : at'[h] \in Later \cup {"mark"} =>
          h = g \/ at[h] \in Later \cup {"mark"}
    BY <1>5 DEF Later
  <2>2. \A d \in Conns : at'[Reader(d)] = "read" => at[Reader(d)] = "read"
    BY <1>5, <1>8
  <2> QED BY <1>0, <1>1, <1>4, <2>1, <2>2, LockKept
<1>14. LaterKept BY <1>1, <1>5 DEF LaterKept, Later
<1>15. StageInv' /\ CleanInv' BY <1>0, <1>1, <1>14, StageKept, CleanKept
<1> QED
  BY <1>6, <1>7, <1>9, <1>11, <1>12, <1>13, <1>15 DEF IInv, Control

LEMMA StopMarkStep ==
  ASSUME IInv, NEW g \in Goroutines, StopMark(g)
  PROVE  IInv'
<1> USE DEF tableVars, setupVars, sockVars
<1>0. TypeOK /\ OnInv /\ StartInv /\ BeatInv /\ MarkInv /\ LockInv /\ StageInv
      /\ CleanInv
  BY DEF IInv, Control
<1> DEFINE c == on[g]
<1>1. /\ at[g] = "mark"
      /\ isClosed' = isClosed \cup {c}
      /\ stops' = [stops EXCEPT ![c] = stops[c] + 1]
      /\ at' = [at EXCEPT ![g] = "remove"]
      /\ UNCHANGED <<tableVars, setupVars, sockVars, on, wsLock, crashed>>
  BY DEF StopMark, Goto
<1>2. c \in Conns BY <1>0, <1>1, Working
<1>3. /\ at' \in [Goroutines -> Places] /\ at'[g] = "remove"
      /\ \A h \in Goroutines \ {g} : at'[h] = at[h]
  BY <1>0, <1>1 DEF TypeOK, Places, StopPlaces
<1>4. /\ stops' \in [Conns -> Nat] /\ stops'[c] = stops[c] + 1
      /\ \A d \in Conns : d # c => stops'[d] = stops[d]
  BY <1>0, <1>1, <1>2 DEF TypeOK
<1>5. TypeOK' BY <1>0, <1>1, <1>2, <1>3, <1>4 DEF TypeOK
<1>6. \A d \in Conns :
        /\ {Starter(d), Reader(d), Writer(d), Beat(d)} \subseteq Goroutines
        /\ Beat(d)[1] = "heartbeat"
  BY Names
<1>7. g[1] # "heartbeat" BY <1>1, NoBeatInStop
<1>8. OnInv' BY <1>0, <1>1, <1>2, <1>3 DEF OnInv
<1>9. StartInv'
  <2>1. \A d \in Conns :
          /\ at'[Starter(d)] \in {"bind", "heartbeat", "context"} =>
               at'[Starter(d)] = at[Starter(d)]
          /\ at[Reader(d)] = "off" => at'[Reader(d)] = "off"
          /\ at[Writer(d)] = "off" => at'[Writer(d)] = "off"
          /\ at[Beat(d)] = "off" => at'[Beat(d)] = "off"
    BY <1>1, <1>3, <1>6
  <2> QED BY <1>0, <1>1, <2>1, StartKept
<1>10. \A h \in Goroutines : at'[h] = "mark" => h # g /\ at[h] = "mark"
  BY <1>3
<1>11. BeatInv'
  <2>1. \A d \in Conns : at'[Beat(d)] = at[Beat(d)] BY <1>3, <1>6, <1>7
  <2>2. c \notin bare /\ kind[c] # "ws" => at[Beat(c)] = "done"
    BY <1>0, <1>1, <1>2 DEF BeatInv
  <2> QED BY <1>0, <1>1, <1>10, <2>1, <2>2 DEF BeatInv
<1>12. MarkInv'
  <2>1. \A d : Guarded(d)' = Guarded(d) BY <1>1 DEF Guarded
  <2>2. Guarded(c) => /\ stops[c] = 0
                      /\ \A h \in Goroutines : at[h] = "mark" /\ on[h] = c => h = g
    BY <1>0, <1>1, <1>2 DEF MarkInv
  <2>3. \A h \in Goroutines : at'[h] = "mark" /\ Guarded(on[h]) =>
          at[h] = "mark" /\ on[h] # c
    BY <1>10, <2>2
  <2>4. \A h \in Goroutines : at'[h] = "mark" /\ Guarded(on[h]) =>
          /\ on[h] \notin isClosed'
          /\ \A k \in Goroutines : at'[k] = "mark" /\ on[k] = on[h] => k = h
    BY <1>0, <1>1, <1>10, <2>3 DEF MarkInv
  <2>5. \A d \in Conns : /\ d \notin isClosed' => stops'[d] = 0
                         /\ Guarded(d) => stops'[d] <= 1
    BY <1>0, <1>1, <1>4, <2>2 DEF MarkInv
  <2> QED BY <1>1, <2>1, <2>4, <2>5 DEF MarkInv
<1>13. LockInv'
  <2>1. \A h \in Goroutines : at'[h] \in Later \cup {"mark"} =>
          at[h] \in Later \cup {"mark"}
    BY <1>1, <1>3
  <2>2. \A d \in Conns : at'[Reader(d)] = "read" =>
          Reader(d) # g /\ at[Reader(d)] = "read"
    BY <1>3, <1>6
  <2>3. kind[c] = "ws" => wsLock[c] = g BY <1>0, <1>1 DEF LockInv
  <2> QED BY <1>0, <1>1, <2>1, <2>2, <2>3 DEF LockInv
<1>14. StageInv'
  <2>1. \A h \in Goroutines : at'[h] \in Later =>
          (h = g /\ at'[h] = "remove") \/ (at[h] \in Later /\ at'[h] = at[h])
    BY <1>3
  <2> QED BY <1>0, <1>1, <2>1 DEF StageInv
<1>15. CleanInv'
  <2>1. \A h \in Goroutines : at[h] \in Later => h # g /\ at'[h] = at[h]
    BY <1>1, <1>3 DEF Later
  <2>2. /\ "remove" \in Later \ {"cancel"} /\ "cancel" \in Later BY DEF Later
  <2> SUFFICES ASSUME NEW d \in Conns
               PROVE  /\ d \notin isClosed' => d \in connections \cap opened
                      /\ d \in isClosed' \cap connections =>
                           \E h \in Goroutines : on[h] = d /\ at'[h] = "remove"
                      /\ d \in isClosed' \cap opened =>
                           \E h \in Goroutines :
                             on[h] = d /\ at'[h] \in Later \ {"cancel"}
                      /\ d \notin opened =>
                           \/ ctx[d] = "done" \/ d \in uncancelled
                           \/ \E h \in Goroutines : on[h] = d /\ at'[h] = "cancel"
                      /\ ctx[d] = "done" =>
                           d \in isClosed' /\ d \notin connections \cup opened
    BY <1>1 DEF CleanInv
  <2>3. d \notin isClosed' => d \in connections \cap opened
    BY <1>0, <1>1 DEF CleanInv
  <2>4. d \in isClosed' \cap connections =>
          \E h \in Goroutines : on[h] = d /\ at'[h] = "remove"
    BY <1>0, <1>1, <1>3, <2>1, <2>2 DEF CleanInv
  <2>5. d \in isClosed' \cap opened =>
          \E h \in Goroutines : on[h] = d /\ at'[h] \in Later \ {"cancel"}
    BY <1>0, <1>1, <1>3, <2>1, <2>2 DEF CleanInv
  <2>6. d \notin opened =>
          \/ ctx[d] = "done" \/ d \in uncancelled
          \/ \E h \in Goroutines : on[h] = d /\ at'[h] = "cancel"
    BY <1>0, <2>1, <2>2 DEF CleanInv
  <2>7. ctx[d] = "done" => d \in isClosed' /\ d \notin connections \cup opened
    BY <1>0, <1>1 DEF CleanInv
  <2> QED BY <2>3, <2>4, <2>5, <2>6, <2>7
<1> QED BY <1>5, <1>8, <1>9, <1>11, <1>12, <1>13, <1>14, <1>15
        DEF IInv, Control

-----------------------------------------------------------------------------
(* Stop, after the mark.                                                   *)

LEMMA LateMoves ==
  ASSUME IInv, NEW g \in Goroutines, at[g] \in Later,
         UNCHANGED <<kind, beating, bare, isClosed, stops>>,
         \A c \in Conns : ctx[c] = "none" => ctx'[c] = "none",
         \A h \in Goroutines \ {g} :
           /\ at'[h] = at[h] /\ on'[h] = on[h]
           /\ \A c \in Conns : wsLock[c] = h => wsLock'[c] = h,
         \/ at'[g] \in Later /\ on'[g] = on[g] /\ UNCHANGED wsLock
         \/ at'[g] \in {"done", "wait", "select", "selfquit", "idle"},
         IF g \in Bound THEN on'[g] = on[g]
                        ELSE at'[g] = "idle" \/ on'[g] = on[g]
  PROVE  OnInv' /\ StartInv' /\ BeatInv' /\ MarkInv' /\ LockInv'
<1>0. OnInv /\ StartInv /\ BeatInv /\ MarkInv /\ LockInv BY DEF IInv, Control
<1>1. on[g] \in Conns BY <1>0, Working DEF Later
<1>2. OnInv'
  <2>1. at'[g] \notin {"lock", "hb"} BY DEF Later
  <2> QED BY <1>0, <1>1, <2>1 DEF OnInv
<1>3. g[1] # "heartbeat" BY NoBeatInStop
<1>4. \A d \in Conns :
        /\ {Starter(d), Reader(d), Writer(d), Beat(d)} \subseteq Goroutines
        /\ Beat(d)[1] = "heartbeat"
  BY Names
<1>5. /\ at[g] \notin {"off", "mark", "read"}
      /\ at'[g] \notin {"bind", "heartbeat", "context", "lock", "hb", "mark",
                        "read"}
  BY DEF Later
<1>6. StartInv'
  <2>1. \A d \in Conns :
          /\ at'[Starter(d)] \in {"bind", "heartbeat", "context"} =>
               at'[Starter(d)] = at[Starter(d)]
          /\ at[Reader(d)] = "off" => at'[Reader(d)] = "off"
          /\ at[Writer(d)] = "off" => at'[Writer(d)] = "off"
          /\ at[Beat(d)] = "off" => at'[Beat(d)] = "off"
    BY <1>4, <1>5
  <2> QED BY <1>0, <2>1, StartKept
<1>7. \A h \in Goroutines : at'[h] = "mark" => at[h] = "mark" /\ on'[h] = on[h]
  BY <1>5
<1>8. BeatInv'
  <2>1. \A d \in Conns : at'[Beat(d)] = at[Beat(d)] BY <1>3, <1>4
  <2> QED BY <1>0, <1>7, <2>1, BeatKept
<1>9. MarkInv' BY <1>0, <1>7, MarkKept
<1>10. LockInv'
  <2>1. \A h \in Goroutines : at'[h] \in Later \cup {"mark"} =>
          /\ at[h] \in Later \cup {"mark"} /\ on'[h] = on[h]
          /\ wsLock[on[h]] = h => wsLock'[on[h]] = h
    <3> SUFFICES ASSUME NEW h \in Goroutines, at'[h] \in Later \cup {"mark"}
                 PROVE  /\ at[h] \in Later \cup {"mark"} /\ on'[h] = on[h]
                        /\ wsLock[on[h]] = h => wsLock'[on[h]] = h
      OBVIOUS
    <3>1. CASE h = g BY <3>1 DEF Later
    <3>2. CASE h # g
      <4>1. at[h] \in Later \cup {"mark"} /\ on'[h] = on[h] BY <3>2
      <4>2. on[h] \in Conns BY <1>0, <4>1, Working DEF Later
      <4> QED BY <3>2, <4>1, <4>2
    <3> QED BY <3>1, <3>2
  <2>2. \A d \in Conns : at'[Reader(d)] = "read" =>
          /\ at[Reader(d)] = "read"
          /\ wsLock[d] = Reader(d) => wsLock'[d] = Reader(d)
    BY <1>4, <1>5
  <2> QED BY <1>0, <2>1, <2>2, LockKept
<1> QED BY <1>2, <1>6, <1>8, <1>9, <1>10

(* How a Stop that returns changes the lock.                               *)
LEMMA Unlocks ==
  ASSUME TypeOK, NEW g \in Goroutines, Unlocked(g)
  PROVE  /\ wsLock' \in [Conns -> Goroutines \cup {None}]
         /\ \A h \in Goroutines \ {g} :
              \A d \in Conns : wsLock[d] = h => wsLock'[d] = h
BY DEF TypeOK, Unlocked

LEMMA RemoveAndCountStep ==
  ASSUME IInv, NEW g \in Goroutines, StopRemove(g) \/ StopCount(g)
  PROVE  IInv'
<1> USE DEF tableVars, setupVars, sockVars
<1>0. TypeOK /\ OnInv /\ StageInv /\ CleanInv BY DEF IInv, Control
<1> DEFINE c == on[g]
<1>1. /\ at[g] \in {"remove", "count"}
      /\ connections' = connections \ {c}
      /\ connLock' \in Goroutines \cup {None}
      /\ \E p \in {"count", "close"} : Goto(g, p)
      /\ UNCHANGED <<setupVars, sockVars, on, isClosed, wsLock, stops, crashed>>
  <2>1. CASE StopRemove(g)
    BY <1>0, <2>1 DEF StopRemove, Remove, RemoveHolding, TypeOK
  <2>2. CASE StopCount(g)
    <3>1. c \notin connections BY <1>0, <2>2 DEF StopCount, StageInv, Later
    <3> QED BY <1>0, <2>2, <3>1 DEF StopCount, TypeOK
  <2> QED BY <2>1, <2>2
<1>2. PICK p \in {"count", "close"} : Goto(g, p) BY <1>1
<1>3. p \in Places BY <1>2 DEF Places, StopPlaces
<1>4. /\ at'[g] = p
      /\ at' \in [Goroutines -> Places]
      /\ \A h \in Goroutines \ {g} : at'[h] = at[h]
  BY <1>0, <1>2, <1>3 DEF TypeOK, Goto
<1>5. TypeOK' BY <1>0, <1>1, <1>4 DEF TypeOK
<1>6. OnInv' /\ StartInv' /\ BeatInv' /\ MarkInv' /\ LockInv'
  BY <1>1, <1>2, <1>4, LateMoves DEF Later
<1>7. c \in isClosed BY <1>0, <1>1 DEF StageInv, Later
<1>8. StageInv'
  <2>1. \A h \in Goroutines : at'[h] \in Later =>
          h = g \/ (at[h] \in Later /\ at'[h] = at[h])
    BY <1>4
  <2>2. at'[g] # "cancel" /\ "cancel" \in Later BY <1>2, <1>4 DEF Later
  <2> QED BY <1>0, <1>1, <1>7, <2>1, <2>2 DEF StageInv
<1>9. CleanInv'
  <2>1. \A h \in Goroutines : at[h] = "cancel" => at'[h] = "cancel"
    BY <1>1, <1>4
  <2>2. at'[g] \in Later \ {"cancel"} BY <1>2, <1>4 DEF Later
  <2> SUFFICES ASSUME NEW d \in Conns
               PROVE  /\ d \notin isClosed => d \in connections' \cap opened
                      /\ d \in isClosed \cap connections' =>
                           \E h \in Goroutines : on[h] = d /\ at'[h] = "remove"
                      /\ d \in isClosed \cap opened =>
                           \E h \in Goroutines :
                             on[h] = d /\ at'[h] \in Later \ {"cancel"}
                      /\ d \notin opened =>
                           \/ ctx[d] = "done" \/ d \in uncancelled
                           \/ \E h \in Goroutines : on[h] = d /\ at'[h] = "cancel"
                      /\ ctx[d] = "done" =>
                           d \in isClosed /\ d \notin connections' \cup opened
    BY <1>1 DEF CleanInv
  <2>3. d \notin isClosed => d \in connections' \cap opened
    BY <1>0, <1>1, <1>7 DEF CleanInv
  <2>4. d \in isClosed \cap connections' =>
          \E h \in Goroutines : on[h] = d /\ at'[h] = "remove"
    BY <1>0, <1>1, <1>4 DEF CleanInv
  <2>5. d \in isClosed \cap opened =>
          \E h \in Goroutines : on[h] = d /\ at'[h] \in Later \ {"cancel"}
    BY <1>0, <1>4, <2>2 DEF CleanInv
  <2>6. d \notin opened =>
          \/ ctx[d] = "done" \/ d \in uncancelled
          \/ \E h \in Goroutines : on[h] = d /\ at'[h] = "cancel"
    BY <1>0, <2>1 DEF CleanInv
  <2>7. ctx[d] = "done" => d \in isClosed /\ d \notin connections' \cup opened
    BY <1>0, <1>1 DEF CleanInv
  <2> QED BY <2>3, <2>4, <2>5, <2>6, <2>7
<1> QED BY <1>5, <1>6, <1>8, <1>9 DEF IInv, Control

LEMMA StopCloseStep ==
  ASSUME IInv, NEW g \in Goroutines, StopClose(g)
  PROVE  IInv'
<1> USE DEF tableVars, setupVars, sockVars
<1>0. TypeOK /\ OnInv /\ StageInv /\ CleanInv BY DEF IInv, Control
<1> DEFINE c == on[g]
<1>1. /\ at[g] = "close" /\ opened' = opened \ {c}
      /\ \/ Goto(g, "cancel") /\ UNCHANGED <<on, wsLock>>
         \/ c \notin opened /\ Return(g) /\ Unlocked(g)
      /\ UNCHANGED <<tableVars, setupVars, ctx, gone, queue, isClosed, stops,
                     crashed>>
  BY DEF StopClose
<1>2. /\ at' \in [Goroutines -> Places] /\ on' \in [Goroutines -> Conns \cup {None}]
      /\ wsLock' \in [Conns -> Goroutines \cup {None}]
      /\ \A h \in Goroutines \ {g} :
           /\ at'[h] = at[h] /\ on'[h] = on[h]
           /\ \A d \in Conns : wsLock[d] = h => wsLock'[d] = h
      /\ \/ at'[g] = "cancel" /\ on'[g] = on[g] /\ UNCHANGED wsLock
         \/ at'[g] = NextPlace(g) /\ c \notin opened
      /\ IF g \in Bound THEN on'[g] = on[g]
                        ELSE at'[g] = "idle" \/ on'[g] = on[g]
  <2>1. CASE Goto(g, "cancel") /\ UNCHANGED <<on, wsLock>>
    <3>1. "cancel" \in Places BY DEF Places, StopPlaces
    <3>2. wsLock' \in [Conns -> Goroutines \cup {None}]
      BY <1>0, <2>1 DEF TypeOK
    <3> QED BY <1>0, <2>1, <3>1, <3>2, Goes
  <2>2. CASE c \notin opened /\ Return(g) /\ Unlocked(g)
    BY <1>0, <2>2, Returns, Unlocks
  <2> QED BY <1>1, <2>1, <2>2
<1>3. TypeOK' BY <1>0, <1>1, <1>2 DEF TypeOK
<1>4. at'[g] \in Later => at'[g] = "cancel" BY <1>2, NextPlaces DEF Later
<1>5. OnInv' /\ StartInv' /\ BeatInv' /\ MarkInv' /\ LockInv'
  BY <1>1, <1>2, LateMoves, NextPlaces DEF Later
<1>6. /\ c \in isClosed /\ c \notin connections
      /\ at[g] \in Later \ {"remove"}
  BY <1>0, <1>1 DEF StageInv, Later
<1>7. StageInv'
  <2>1. \A h \in Goroutines : at'[h] \in Later =>
          \/ h = g /\ at'[h] = "cancel" /\ on'[h] = c
          \/ at[h] \in Later /\ at'[h] = at[h] /\ on'[h] = on[h]
    BY <1>2, <1>4, NextPlaces
  <2>2. "cancel" \in Later BY DEF Later
  <2> QED BY <1>0, <1>1, <1>6, <2>1, <2>2 DEF StageInv
<1>8. CleanInv'
  <2>1. /\ \A h \in Goroutines : at[h] \in Later /\ at[h] # "close" =>
             at'[h] = at[h] /\ on'[h] = on[h]
        /\ {"remove", "cancel"} \subseteq Later \ {"close"}
        /\ \A h \in Goroutines : at[h] \in Later /\ on[h] # c =>
             at'[h] = at[h] /\ on'[h] = on[h]
    BY <1>1, <1>2 DEF Later
  <2> SUFFICES ASSUME NEW d \in Conns
               PROVE  /\ d \notin isClosed => d \in connections \cap opened'
                      /\ d \in isClosed \cap connections =>
                           \E h \in Goroutines : on'[h] = d /\ at'[h] = "remove"
                      /\ d \in isClosed \cap opened' =>
                           \E h \in Goroutines :
                             on'[h] = d /\ at'[h] \in Later \ {"cancel"}
                      /\ d \notin opened' =>
                           \/ ctx[d] = "done" \/ d \in uncancelled
                           \/ \E h \in Goroutines : on'[h] = d /\ at'[h] = "cancel"
                      /\ ctx[d] = "done" =>
                           d \in isClosed /\ d \notin connections \cup opened'
    BY <1>1 DEF CleanInv
  <2>2. d \notin isClosed => d \in connections \cap opened'
    BY <1>0, <1>1, <1>6 DEF CleanInv
  <2>3. d \in isClosed \cap connections =>
          \E h \in Goroutines : on'[h] = d /\ at'[h] = "remove"
    BY <1>0, <2>1 DEF CleanInv
  <2>4. d \in isClosed \cap opened' =>
          \E h \in Goroutines : on'[h] = d /\ at'[h] \in Later \ {"cancel"}
    BY <1>0, <1>1, <2>1 DEF CleanInv
  <2>5. d \notin opened' =>
          \/ ctx[d] = "done" \/ d \in uncancelled
          \/ \E h \in Goroutines : on'[h] = d /\ at'[h] = "cancel"
    <3>1. CASE d \notin opened BY <1>0, <2>1, <3>1 DEF CleanInv
    <3>2. CASE d \in opened /\ d \notin opened'
      <4>1. d = c BY <1>1, <3>2
      <4>2. at'[g] = "cancel" /\ on'[g] = c BY <1>2, <3>2, <4>1
      <4> QED BY <4>1, <4>2
    <3> QED BY <3>1, <3>2
  <2>6. ctx[d] = "done" => d \in isClosed /\ d \notin connections \cup opened'
    BY <1>0, <1>1 DEF CleanInv
  <2> QED BY <2>2, <2>3, <2>4, <2>5, <2>6
<1> QED BY <1>3, <1>5, <1>7, <1>8 DEF IInv, Control

LEMMA StopCancelStep ==
  ASSUME IInv, NEW g \in Goroutines, StopCancel(g)
  PROVE  IInv'
<1> USE DEF tableVars, setupVars, sockVars
<1>0. TypeOK /\ OnInv /\ StageInv /\ CleanInv BY DEF IInv, Control
<1> DEFINE c == on[g]
<1>1. /\ at[g] = "cancel"
      /\ UNCHANGED <<tableVars, kind, beating, bare, opened, gone, queue,
                     isClosed, stops>>
  BY DEF StopCancel
<1>2. c \in Conns BY <1>0, <1>1, Working
<1>3. CASE crashed' = TRUE /\ UNCHANGED <<uncancelled, ctx, at, on, wsLock>>
  <2>1. TypeOK' BY <1>0, <1>1, <1>3 DEF TypeOK
  <2> DEFINE movers == {}
  <2>2. movers \in SUBSET Goroutines /\ \A h : h \notin movers OBVIOUS
  <2> HIDE DEF movers
  <2>3. Control' BY <1>1, <1>3, <2>2, Moves
  <2> QED BY <2>1, <2>3 DEF IInv
(* The cancel is done, or its panic recovered.                             *)
<1>4. CASE /\ Return(g) /\ Unlocked(g) /\ UNCHANGED crashed
           /\ \/ /\ ctx[c] # "none" /\ ctx' = [ctx EXCEPT ![c] = "done"]
                 /\ UNCHANGED uncancelled
              \/ UNCHANGED ctx /\ uncancelled' = uncancelled \cup {c}
  <2>1. /\ at'[g] = NextPlace(g)
        /\ at' \in [Goroutines -> Places]
        /\ on' \in [Goroutines -> Conns \cup {None}]
        /\ \A h \in Goroutines \ {g} : at'[h] = at[h] /\ on'[h] = on[h]
        /\ IF g \in Bound THEN on'[g] = on[g] ELSE at'[g] = "idle"
    BY <1>0, <1>4, Returns
  <2>2. /\ wsLock' \in [Conns -> Goroutines \cup {None}]
        /\ \A h \in Goroutines \ {g} :
             \A d \in Conns : wsLock[d] = h => wsLock'[d] = h
    BY <1>0, <1>4, Unlocks
  <2>3. /\ ctx' \in [Conns -> {"none", "live", "done"}]
        /\ ctx'[c] = "done" \/ c \in uncancelled'
        /\ uncancelled \subseteq uncancelled' /\ uncancelled' \subseteq Conns
        /\ \A d \in Conns : /\ d # c => ctx'[d] = ctx[d]
                            /\ ctx[d] = "none" => ctx'[d] = "none"
                            /\ ctx[d] = "done" => ctx'[d] = "done"
    BY <1>0, <1>2, <1>4 DEF TypeOK
  <2>4. TypeOK' BY <1>0, <1>1, <1>4, <2>1, <2>2, <2>3 DEF TypeOK
  <2>5. OnInv' /\ StartInv' /\ BeatInv' /\ MarkInv' /\ LockInv'
    BY <1>1, <2>1, <2>2, <2>3, LateMoves, NextPlaces DEF Later
  <2>6. c \in isClosed /\ c \notin connections \cup opened
    BY <1>0, <1>1 DEF StageInv, Later
  <2>7. at'[g] \notin Later BY <2>1, NextPlaces DEF Later
  <2>8. StageInv'
    <3>1. \A h \in Goroutines : at'[h] \in Later =>
            at[h] \in Later /\ at'[h] = at[h] /\ on'[h] = on[h]
      BY <2>1, <2>7
    <3>2. "cancel" \in Later BY DEF Later
    <3> QED BY <1>0, <1>1, <3>1, <3>2 DEF StageInv
  <2>9. CleanInv'
    <3>1. /\ \A h \in Goroutines : at[h] # "cancel" =>
               at'[h] = at[h] /\ on'[h] = on[h]
          /\ \A h \in Goroutines : on[h] # c => at'[h] = at[h] /\ on'[h] = on[h]
      BY <1>1, <2>1
    <3> SUFFICES ASSUME NEW d \in Conns
                 PROVE  /\ d \notin isClosed => d \in connections \cap opened
                        /\ d \in isClosed \cap connections =>
                             \E h \in Goroutines : on'[h] = d /\ at'[h] = "remove"
                        /\ d \in isClosed \cap opened =>
                             \E h \in Goroutines :
                               on'[h] = d /\ at'[h] \in Later \ {"cancel"}
                        /\ d \notin opened =>
                             \/ ctx'[d] = "done" \/ d \in uncancelled'
                             \/ \E h \in Goroutines :
                                  on'[h] = d /\ at'[h] = "cancel"
                        /\ ctx'[d] = "done" =>
                             d \in isClosed /\ d \notin connections \cup opened
      BY <1>1 DEF CleanInv
    <3>2. d \notin isClosed => d \in connections \cap opened BY <1>0 DEF CleanInv
    <3>3. d \in isClosed \cap connections =>
            \E h \in Goroutines : on'[h] = d /\ at'[h] = "remove"
      BY <1>0, <3>1 DEF CleanInv
    <3>4. d \in isClosed \cap opened =>
            \E h \in Goroutines : on'[h] = d /\ at'[h] \in Later \ {"cancel"}
      BY <1>0, <3>1 DEF CleanInv
    <3>5. d \notin opened =>
            \/ ctx'[d] = "done" \/ d \in uncancelled'
            \/ \E h \in Goroutines : on'[h] = d /\ at'[h] = "cancel"
      BY <1>0, <2>3, <3>1 DEF CleanInv
    <3>6. ctx'[d] = "done" => d \in isClosed /\ d \notin connections \cup opened
      BY <1>0, <2>3, <2>6 DEF CleanInv
    <3> QED BY <3>2, <3>3, <3>4, <3>5, <3>6
  <2> QED BY <2>4, <2>5, <2>8, <2>9 DEF IInv, Control
<1> QED BY <1>3, <1>4 DEF StopCancel

-----------------------------------------------------------------------------
(* The inductive invariant.                                                *)

LEMMA InitInv == Init => IInv
<1> SUFFICES ASSUME Init PROVE IInv OBVIOUS
<1> USE DEF Init
<1>1. at \in [Goroutines -> {"bind", "idle", "off"}] OBVIOUS
<1>2. \A g \in Goroutines :
        /\ at[g] \in {"bind", "idle", "off"}
        /\ at[g] = "bind" => g[1] = "starter"
        /\ at[g] = "idle" => g \notin Bound
        /\ g \notin Bound => at[g] = "idle"
  BY Names
<1>3. on \in [Goroutines -> Conns \cup {None}] BY Names
<1>4. TypeOK
  <2>1. at \in [Goroutines -> Places] BY <1>1 DEF Places
  <2>2. kind \in [Conns -> AllKinds] BY KindsAssumption
  <2>3. beating \subseteq Conns /\ bare \subseteq Conns /\ uncancelled \subseteq Conns
    OBVIOUS
  <2>4. 0 \in 0..Buffer /\ 0 \in Nat BY BufferAssumption
  <2>5. /\ ctx \in [Conns -> {"none", "live", "done"}]
        /\ queue \in [Conns -> 0..Buffer] /\ stops \in [Conns -> Nat]
        /\ wsLock \in [Conns -> Goroutines \cup {None}]
    BY <2>4
  <2>6. /\ connections \subseteq Conns /\ connLock \in Goroutines \cup {None}
        /\ isClosed \subseteq Conns /\ opened \subseteq Conns
        /\ gone \subseteq Conns /\ crashed \in BOOLEAN
    OBVIOUS
  <2> HIDE DEF Init
  <2> QED BY <1>3, <2>1, <2>2, <2>3, <2>5, <2>6 DEF TypeOK
<1>5. OnInv BY <1>2, Names DEF OnInv
<1>6. \A c \in Conns :
        /\ at[Reader(c)] = "off" /\ at[Writer(c)] = "off" /\ at[Beat(c)] = "off"
  BY Names
<1>7. StartInv BY <1>6 DEF StartInv
<1>8. \A g \in Goroutines : at[g] \notin Later \cup {"mark", "read", "cancel"}
  BY <1>2 DEF Later
<1>9. BeatInv BY <1>6, <1>8 DEF BeatInv, BeatPlaces
<1>10. MarkInv BY <1>8 DEF MarkInv
<1>11. LockInv BY <1>8, Names DEF LockInv
<1>12. StageInv BY <1>8 DEF StageInv
<1>13. CleanInv BY DEF CleanInv
<1> QED
  BY <1>4, <1>5, <1>7, <1>9, <1>10, <1>11, <1>12, <1>13 DEF IInv, Control

LEMMA CallStep ==
  ASSUME IInv, NEW g \in Goroutines, Calls(g)
  PROVE  IInv'
BY DecideStep, SendCheckStep, SendPutStep, SendHandStep, StopCheckStep,
   StopLockStep, StopHeartbeatStep, HeartbeatQuitStep, StopMarkStep, RemoveAndCountStep,
   StopCloseStep, StopCancelStep
   DEF Calls, Send, Stop

LEMMA LifecycleStep ==
  ASSUME IInv, NEW c \in Conns, Lifecycle(c)
  PROVE  IInv'
BY BindStep, StartStep, WriterStep, ReaderStep, BeatCheckStep, PeerGoesStep
   DEF Lifecycle

LEMMA StutterInv ==
  ASSUME IInv, UNCHANGED vars
  PROVE  IInv'
<1>1. UNCHANGED <<connections, connLock, kind, beating, bare, uncancelled,
                  ctx, opened, gone, queue, at, on, isClosed, wsLock, stops, crashed>>
  BY DEF vars, tableVars, setupVars, sockVars
<1>2. TypeOK' BY <1>1 DEF IInv, TypeOK
<1> DEFINE movers == {}
<1>3. movers \in SUBSET Goroutines /\ \A g : g \notin movers OBVIOUS
<1> HIDE DEF movers
<1>4. Control' BY <1>1, <1>3, Moves
<1> QED BY <1>2, <1>4 DEF IInv

(* IInv holds from newServerConn's Add on, through BindConn, Start, Stop,  *)
(* Send and the loops of a connection, whatever Stop comes before BindConn *)
(* or before Start: what depends on the heartbeat (BeatInv, MarkInv) it    *)
(* says only of connections that no Stop has found without one.            *)
THEOREM Invariance == Spec => []IInv
<1>1. Init => IInv BY InitInv
<1>2. IInv /\ [Next]_vars => IInv'
  <2> SUFFICES ASSUME IInv, [Next]_vars PROVE IInv' OBVIOUS
  <2>1. CASE \E c \in Conns : Lifecycle(c) BY <2>1, LifecycleStep
  <2>2. CASE \E c \in Conns, w \in Handlers : Invoke(c, w) BY <2>2, InvokeStep
  <2>3. CASE \E g \in Serving : AppCall(g) BY <2>3, AppCallStep
  <2>4. CASE \E g \in Goroutines : Calls(g) BY <2>4, CallStep
  <2>5. CASE UNCHANGED vars BY <2>5, StutterInv
  <2> QED BY <2>1, <2>2, <2>3, <2>4, <2>5 DEF Next
<1> QED BY <1>1, <1>2, PTL DEF Spec

-----------------------------------------------------------------------------
(* What the runs check, for every value of the constants.                  *)

(* The fields of a connection keep their ranges; msgChan holds no more     *)
(* messages than its capacity.                                             *)
THEOREM TypeCorrect == Spec => []TypeOK
<1>1. IInv => TypeOK BY DEF IInv
<1> QED BY <1>1, Invariance, PTL

(* Stop calls the OnConnStop hook once, however many goroutines race in it *)
(* and whenever they began, where WebSocket's lock keeps a second call out *)
(* or every call has found the heartbeat.  A Stop that reads c.hb before   *)
(* BindConn finds none: of such a connection nothing is said.              *)
THEOREM HookCalledOnce == Spec => []HookOnce
<1>1. IInv => HookOnce
  BY DEF IInv, Control, MarkInv, HookOnce, Guarded
<1> QED BY <1>1, Invariance, PTL

(* What Stop leaves, when the last of its calls on a closed connection has *)
(* returned: nothing in the table, no open socket, and a cancelled context *)
(* unless the panic of a nil cancel was recovered.                         *)
THEOREM StopCleans == Spec => []ClosedIsClean
<1>1. IInv => ClosedIsClean
  <2> SUFFICES ASSUME CleanInv, NEW c \in isClosed, Stopping(c) = {}, TypeOK
               PROVE  /\ c \notin connections \cup opened
                      /\ ctx[c] = "done" \/ c \in uncancelled
    BY DEF IInv, Control, ClosedIsClean
  <2>1. c \in Conns BY DEF TypeOK
  <2>2. \A g \in Goroutines : on[g] = c => at[g] \notin Later
    BY DEF Stopping, Later
  <2>3. "remove" \in Later /\ "cancel" \in Later BY DEF Later
  <2> QED BY <2>1, <2>2, <2>3 DEF CleanInv
<1> QED BY <1>1, Invariance, PTL

(* cancel is the last thing Stop does: a goroutine that leaves its select  *)
(* at ctx.Done finds the connection off the table and its socket closed.   *)
THEOREM CancelComesLast == Spec => []CancelLast
<1>1. IInv => CancelLast BY DEF IInv, Control, CleanInv, CancelLast
<1> QED BY <1>1, Invariance, PTL

(* The table that MaxConn is checked against counts every open socket but  *)
(* those a Stop is closing.                                                *)
THEOREM TableCounts == Spec => []OpenIsCounted
<1>1. IInv => OpenIsCounted
  <2> SUFFICES ASSUME CleanInv, TypeOK, NEW c \in opened, Stopping(c) = {}
               PROVE  c \in connections
    BY DEF IInv, Control, OpenIsCounted
  <2>1. c \in Conns BY DEF TypeOK
  <2>2. \A g \in Goroutines : on[g] = c => at[g] \notin Later
    BY DEF Stopping, Later
  <2> QED BY <2>1, <2>2 DEF CleanInv
<1> QED BY <1>1, Invariance, PTL

(* WebSocket's reader waits in ReadMessage on open connections only.       *)
THEOREM WsReaderReadsOpen == Spec => []WsReadsOpen
<1>1. IInv => WsReadsOpen
  BY DEF IInv, Control, LockInv, CleanInv, WsReadsOpen
<1> QED BY <1>1, Invariance, PTL

(* hb.Stop comes before the mark, so no heartbeat is in Send when its      *)
(* connection is closed, unless a Stop found c.hb nil, as one that began   *)
(* between newServerConn's Add and BindConn does.                          *)
THEOREM BeatEndsFirst == Spec => []NoBeatOnClosed
<1>1. IInv => NoBeatOnClosed
  BY DEF IInv, Control, BeatInv, TypeOK, NoBeatOnClosed
<1> QED BY <1>1, Invariance, PTL
=============================================================================
