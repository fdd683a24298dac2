-------------------------- MODULE WorkerPoolProofs --------------------------
(***************************************************************************)
(* The safety invariants of WorkerPool for every number of submitters and  *)
(* workers, every capacity and every number of calls.                      *)
(***************************************************************************)
EXTENDS WorkerPoolFacts, FiniteSetTheorems

-----------------------------------------------------------------------------
(* The strengthening that makes the invariants inductive.                  *)

(* A submitter in a section of several steps has the lock, and it is there *)
(* because it found the stack empty.                                       *)
LockInv ==
  \A s \in Submitters :
    pc[s] \in {"check", "park"} => lock = s /\ items = << >>

(* The notify list is the list of the parked submitters.                   *)
NotifyInv ==
  /\ Distinct(notify)
  /\ \A s \in Submitters : In(s, notify) <=> pc[s] = "waiting"

(* A submitter in a call has been counted, and one that is about to send   *)
(* has a worker.                                                           *)
CallInv ==
  \A s \in Submitters :
    /\ pc[s] # "idle" => calls[s] >= 1
    /\ pc[s] = "send" => mine[s] \in Workers

PhaseInv ==
  /\ purger # "finish" => stale = << >>
  /\ closed <=> releaser # "idle"

(* What holds whoever owns the workers: no part of it looks at the owners, *)
(* so it is inductive without them.                                        *)
RestInv ==
  /\ TypeOK /\ LockInv /\ NotifyInv /\ CallInv /\ PhaseInv
  /\ CountersExact /\ BoundedOvershoot
  /\ IdleNotWasted /\ NoIdleAfterReset

IInv == RestInv /\ OneOwner /\ NotStranded

-----------------------------------------------------------------------------
(* What a Signal or a Broadcast does to the submitters.                    *)

WakesOnly ==
  \A s \in Submitters :
    pc'[s] = pc[s] \/ (pc[s] = "waiting" /\ pc'[s] = "woken")

(* What one Signal does to the notify list and the places of the callers.  *)
LEMMA SignalWakes ==
  ASSUME TypeOK, NotifyInv, Signal
  PROVE  /\ WakesOnly
         /\ pc' \in [Submitters -> CallerPlaces]
         /\ notify' \in Seq(Submitters)
         /\ NotifyInv'
<1>1. CASE notify = << >> /\ UNCHANGED condVars
  BY <1>1 DEF TypeOK, NotifyInv, WakesOnly, condVars, Distinct, In
<1>2. CASE /\ notify # << >>
           /\ pc' = [pc EXCEPT ![Head(notify)] = "woken"]
           /\ notify' = Tail(notify)
  <2>1. /\ Tail(notify) \in Seq(Submitters)
        /\ Head(notify) \in Submitters
        /\ In(Head(notify), notify)
        /\ \A v : In(v, notify) <=> In(v, Tail(notify)) \/ v = Head(notify)
        /\ Distinct(Tail(notify)) /\ ~In(Head(notify), Tail(notify))
    BY <1>2, TailHas DEF TypeOK, NotifyInv
  <2>2. pc[Head(notify)] = "waiting" BY <2>1 DEF NotifyInv
  <2>3. \A s \in Submitters :
          pc'[s] = IF s = Head(notify) THEN "woken" ELSE pc[s]
    BY <1>2 DEF TypeOK
  <2>4. \A s \in Submitters : In(s, notify') <=> pc'[s] = "waiting"
    BY <1>2, <2>1, <2>3 DEF NotifyInv
  <2>5. Distinct(notify') BY <1>2, <2>1
  <2>6. notify' \in Seq(Submitters) BY <1>2, <2>1
  <2>7. NotifyInv' BY <2>4, <2>5 DEF NotifyInv, In, Distinct
  <2>8. pc' \in [Submitters -> CallerPlaces]
    BY <1>2 DEF TypeOK, CallerPlaces
  <2>9. WakesOnly BY <2>2, <2>3 DEF WakesOnly
  <2> QED BY <2>6, <2>7, <2>8, <2>9
<1> QED BY <1>1, <1>2 DEF Signal

(* What a Broadcast does to them.                                          *)
LEMMA BroadcastWakes ==
  ASSUME TypeOK, NotifyInv, Broadcast
  PROVE  /\ WakesOnly
         /\ pc' \in [Submitters -> CallerPlaces]
         /\ notify' \in Seq(Submitters)
         /\ NotifyInv'
<1>1. \A s \in Submitters :
        pc'[s] = IF pc[s] = "waiting" THEN "woken" ELSE pc[s]
  BY DEF Broadcast
<1>2. notify' = << >> BY DEF Broadcast
<1>3. pc' \in [Submitters -> CallerPlaces]
  BY DEF Broadcast, TypeOK, CallerPlaces
<1>4. NotifyInv' BY <1>1, <1>2 DEF NotifyInv, In, Distinct
<1> QED BY <1>1, <1>2, <1>3, <1>4 DEF WakesOnly

-----------------------------------------------------------------------------
(* One step preserves each part of the invariant.                          *)

(* Every step preserves the types.                                         *)
LEMMA TypeStep ==
  ASSUME RestInv, Next
  PROVE  TypeOK'
<1> USE CapAssumption DEF callerVars, workerVars, condVars, capVars,
        releaseVars, purgeVars, CallerPlaces, WorkerPlaces
<1>1. TypeOK /\ NotifyInv BY DEF RestInv
<1>2. ASSUME NEW s \in Submitters, Invoke(s) PROVE TypeOK'
  <2>1. calls[s] + 1 \in 0..MaxCalls BY <1>1, <1>2 DEF TypeOK, Invoke
  <2>2. pc' \in [Submitters -> CallerPlaces]
    BY <1>1, <1>2 DEF TypeOK, Invoke, Goto
  <2>3. calls' \in [Submitters -> 0..MaxCalls]
    BY <1>1, <1>2, <2>1 DEF TypeOK, Invoke
  <2> QED BY <1>1, <1>2, <2>2, <2>3 DEF TypeOK, Invoke
<1>3. ASSUME NEW s \in Submitters, Detach(s),
             calls' = calls, UNCHANGED <<workerVars, notify, capVars>>,
             UNCHANGED <<releaseVars, purgeVars, running>>,
             waiting' \in Nat
      PROVE  TypeOK'
  <2>1. CASE items # << >> /\ UNCHANGED <<lock, seen>>
    <3>1. /\ SubSeq(items, 1, Len(items) - 1) \in Seq(Workers)
          /\ items[Len(items)] \in Workers
      BY <2>1, <1>1, FrontHas DEF TypeOK
    <3> QED BY <1>1, <1>3, <2>1, <3>1 DEF TypeOK, Detach, Goto
  <2>2. CASE items = << >>
    <3>1. cap \in 0..MaxCap BY <1>1 DEF TypeOK
    <3>2. seen' \in [Submitters -> 0..MaxCap]
      BY <1>1, <1>3, <2>2, <3>1 DEF TypeOK, Detach
    <3>3. pc' \in [Submitters -> CallerPlaces]
      BY <1>1, <1>3, <2>2 DEF TypeOK, Detach, Goto
    <3> QED BY <1>1, <1>3, <2>2, <3>2, <3>3 DEF TypeOK, Detach
  <2> QED BY <1>3, <2>1, <2>2 DEF Detach
<1>4. ASSUME NEW s \in Submitters, RetrieveWorker(s) PROVE TypeOK'
  BY <1>1, <1>3, <1>4 DEF RetrieveWorker, TypeOK
<1>5. ASSUME NEW s \in Submitters, CheckCapacity(s) PROVE TypeOK'
  <2>1. pc' \in [Submitters -> CallerPlaces]
    BY <1>1, <1>5 DEF TypeOK, CheckCapacity, Goto
  <2>2. seen' \in [Submitters -> 0..MaxCap]
    <3>1. 0 \in 0..MaxCap OBVIOUS
    <3> QED BY <1>1, <1>5, <3>1 DEF TypeOK, CheckCapacity
  <2>3. waiting' \in Nat BY <1>1, <1>5 DEF TypeOK, CheckCapacity
  <2>4. lock' \in Submitters \cup {None} BY <1>1, <1>5 DEF TypeOK, CheckCapacity
  <2> QED BY <1>1, <1>5, <2>1, <2>2, <2>3, <2>4 DEF TypeOK, CheckCapacity
<1>6. ASSUME NEW s \in Submitters, Park(s) PROVE TypeOK'
  <2>1. Append(notify, s) \in Seq(Submitters)
    BY <1>1, AppendHas DEF TypeOK
  <2> QED BY <1>1, <1>6, <2>1 DEF TypeOK, Park, Goto
<1>7. ASSUME NEW s \in Submitters, Wakened(s) PROVE TypeOK'
  <2>1. waiting' \in Nat
    <3>1. s \in Counted BY <1>7 DEF Wakened, Counted
    <3>2. IsFiniteSet(Counted)
      BY FS_Subset, WorkersAssumption DEF Counted
    <3>3. waiting = Cardinality(Counted) BY DEF RestInv, CountersExact
    <3>4. waiting # 0 BY <3>1, <3>2, <3>3, FS_EmptySet
    <3> QED BY <1>1, <1>7, <3>4 DEF TypeOK, Wakened
  <2>2. CASE closed /\ Goto(s, "idle") /\ UNCHANGED <<mine, items, lock, seen>>
    BY <1>1, <1>7, <2>1, <2>2 DEF TypeOK, Wakened, Goto
  <2>3. CASE Detach(s)
    BY <1>3, <1>7, <2>1, <2>3 DEF Wakened
  <2> QED BY <1>7, <2>2, <2>3 DEF Wakened
<1>8. ASSUME NEW s \in Submitters, SpawnWorker(s) PROVE TypeOK'
  BY <1>1, <1>8 DEF TypeOK, SpawnWorker, Goto
<1>9. ASSUME NEW s \in Submitters, InputParam(s) PROVE TypeOK'
  <2>1. calls[s] \in 1..MaxCalls
    BY <1>1, <1>9 DEF InputParam, RestInv, CallInv, TypeOK
  <2> QED BY <1>1, <1>9, <2>1 DEF TypeOK, InputParam, Goto, Tasks
<1>10. ASSUME NEW w \in Workers, Receive(w) PROVE TypeOK'
  BY <1>1, <1>10 DEF TypeOK, Receive
<1>11. ASSUME NEW w \in Workers, FinishTask(w) PROVE TypeOK'
  <2>1. cap \in 0..MaxCap BY <1>1 DEF TypeOK
  <2>2. wseen' \in [Workers -> 0..MaxCap]
    BY <1>1, <1>11, <2>1 DEF TypeOK, FinishTask
  <2>3. wpc' \in [Workers -> WorkerPlaces] BY <1>1, <1>11 DEF TypeOK, FinishTask
  <2>4. job' \in [Workers -> Tasks \cup {None}]
    BY <1>1, <1>11 DEF TypeOK, FinishTask
  <2> QED BY <1>1, <1>11, <2>2, <2>3, <2>4 DEF TypeOK, FinishTask
<1>12. ASSUME NEW w \in Workers, RevertCheck(w) PROVE TypeOK'
  BY <1>1, <1>12 DEF TypeOK, RevertCheck
<1>13. ASSUME NEW w \in Workers, RevertRefused(w) PROVE TypeOK'
  <2>1. Broadcast BY <1>13 DEF RevertRefused
  <2>2. pc' \in [Submitters -> CallerPlaces] /\ notify' \in Seq(Submitters)
    BY <1>1, <2>1, BroadcastWakes
  <2> QED BY <1>1, <1>13, <2>2 DEF TypeOK, RevertRefused
<1>14. ASSUME NEW w \in Workers, RevertInsert(w) PROVE TypeOK'
  <2>1. CASE closed
    BY <1>1, <1>14, <2>1 DEF TypeOK, RevertInsert
  <2>2. CASE ~closed
    <3>1. Signal BY <1>14, <2>2 DEF RevertInsert
    <3>2. pc' \in [Submitters -> CallerPlaces] /\ notify' \in Seq(Submitters)
      BY <1>1, <3>1, SignalWakes
    <3>3. Append(items, w) \in Seq(Workers) BY <1>1, AppendHas DEF TypeOK
    <3> QED BY <1>1, <1>14, <2>2, <3>2, <3>3 DEF TypeOK, RevertInsert
  <2> QED BY <2>1, <2>2
<1>15. ASSUME NEW w \in Workers, Exit(w) PROVE TypeOK'
  <2>1. w \in Live BY <1>15 DEF Exit, Live
  <2>2. IsFiniteSet(Live) BY FS_Subset, WorkersAssumption DEF Live
  <2>3. running = Cardinality(Live) BY DEF RestInv, CountersExact
  <2>4. running # 0 BY <2>1, <2>2, <2>3, FS_EmptySet
  <2> QED BY <1>1, <1>15, <2>4 DEF TypeOK, Exit
<1>16. CASE ExitSignal
  <2>1. Signal BY <1>16 DEF ExitSignal
  <2>2. pc' \in [Submitters -> CallerPlaces] /\ notify' \in Seq(Submitters)
    BY <1>1, <2>1, SignalWakes
  <2> QED BY <1>1, <1>16, <2>2 DEF TypeOK, ExitSignal
<1>17. CASE PurgeTick
  BY <1>1, <1>17 DEF TypeOK, PurgeTick
<1>18. CASE PurgeStopped
  BY <1>1, <1>18 DEF TypeOK, PurgeStopped
<1>19. CASE PurgeRefresh
  <2>1. PICK k \in Expired :
          /\ stale' = SubSeq(items, 1, k)
          /\ items' = SubSeq(items, k + 1, Len(items))
          /\ dormant' = (running \in {0, k})
    BY <1>19 DEF PurgeRefresh
  <2>2. k \in 0..Len(items) BY <1>1, EmptySeq DEF Expired, TypeOK
  <2>3. stale' \in Seq(Workers) /\ items' \in Seq(Workers)
    BY <1>1, <2>1, <2>2, CutHas DEF TypeOK
  <2> QED BY <1>1, <1>19, <2>1, <2>3 DEF TypeOK, PurgeRefresh
<1>20. CASE PurgeFinish
  <2>1. Tail(stale) \in Seq(Workers) /\ Head(stale) \in Workers
    BY <1>1, <1>20, TailHas DEF TypeOK, PurgeFinish
  <2> QED BY <1>1, <1>20, <2>1 DEF TypeOK, PurgeFinish
<1>21. CASE PurgeWake
  <2>1. pc' \in [Submitters -> CallerPlaces] /\ notify' \in Seq(Submitters)
    <3>1. CASE dormant /\ waiting > 0
      BY <1>1, <1>21, <3>1, BroadcastWakes DEF PurgeWake
    <3>2. CASE ~(dormant /\ waiting > 0)
      BY <1>1, <1>21, <3>2 DEF PurgeWake, TypeOK
    <3> QED BY <3>1, <3>2
  <2> QED BY <1>1, <1>21, <2>1 DEF TypeOK, PurgeWake
<1>22. CASE StopPurgeStaleWorkers
  BY <1>1, <1>22 DEF TypeOK, StopPurgeStaleWorkers
<1>23. CASE Release
  BY <1>1, <1>23 DEF TypeOK, Release
<1>24. CASE ReleaseReset
  <2>1. << >> \in Seq(Workers) BY EmptySeq
  <2> QED BY <1>1, <1>24, <2>1 DEF TypeOK, ReleaseReset
<1>25. CASE ReleaseBroadcast
  <2>1. Broadcast BY <1>25 DEF ReleaseBroadcast
  <2>2. pc' \in [Submitters -> CallerPlaces] /\ notify' \in Seq(Submitters)
    BY <1>1, <2>1, BroadcastWakes
  <2> QED BY <1>1, <1>25, <2>2 DEF TypeOK, ReleaseBroadcast
<1>26. ASSUME NEW size \in TuneSizes, Tune(size) PROVE TypeOK'
  BY <1>1, <1>26 DEF TypeOK, Tune
<1>27. CASE TuneWake
  <2>1. Signal \/ Broadcast BY <1>27 DEF TuneWake
  <2>2. pc' \in [Submitters -> CallerPlaces] /\ notify' \in Seq(Submitters)
    BY <1>1, <2>1, SignalWakes, BroadcastWakes
  <2> QED BY <1>1, <1>27, <2>2 DEF TypeOK, TuneWake
<1> QED
  BY <1>2, <1>4, <1>5, <1>6, <1>7, <1>8, <1>9, <1>10, <1>11, <1>12, <1>13,
     <1>14, <1>15, <1>16, <1>17, <1>18, <1>19, <1>20, <1>21, <1>22, <1>23,
     <1>24, <1>25, <1>26, <1>27
  DEF Next, Call, Run, Purge, ReleaseRest

-----------------------------------------------------------------------------
(* The steps sorted by what they do to the submitters and to the stack.    *)

(* Steps that wake submitters and touch neither stack nor channels.        *)
PureWake ==
  \/ \E w \in Workers : RevertRefused(w)
  \/ ExitSignal \/ PurgeWake \/ ReleaseBroadcast \/ TuneWake

(* Steps no submitter and no stack is part of.                             *)
Quiet ==
  \/ \E w \in Workers :
       Receive(w) \/ FinishTask(w) \/ RevertCheck(w) \/ Exit(w)
  \/ PurgeTick \/ PurgeStopped \/ PurgeFinish \/ StopPurgeStaleWorkers
  \/ Release
  \/ \E size \in TuneSizes : Tune(size)

(* Each step changes what the invariants look at, only wakes callers, or   *)
(* does neither.                                                           *)
LEMMA StepKinds ==
  ASSUME Next
  PROVE  \/ \E s \in Submitters :
              \/ Invoke(s) \/ RetrieveWorker(s) \/ CheckCapacity(s) \/ Park(s)
              \/ Wakened(s) \/ SpawnWorker(s) \/ InputParam(s)
         \/ \E w \in Workers : RevertInsert(w)
         \/ PurgeRefresh \/ ReleaseReset
         \/ PureWake \/ Quiet
  BY DEF Next, Call, Run, Purge, ReleaseRest, PureWake, Quiet

(* A step that wakes callers touches no other part of their state.         *)
LEMMA WakeFrame ==
  ASSUME TypeOK, NotifyInv, PureWake
  PROVE  /\ WakesOnly /\ NotifyInv'
         /\ UNCHANGED <<seen, mine, calls, lock, items, chan, waiting, closed,
                        running>>
<1> USE DEF callerVars, workerVars, capVars, releaseVars, purgeVars
<1>1. ASSUME UNCHANGED condVars PROVE WakesOnly /\ NotifyInv'
  BY <1>1 DEF condVars, WakesOnly, NotifyInv, In, Distinct
<1>2. ASSUME NEW w \in Workers, RevertRefused(w)
      PROVE  /\ WakesOnly /\ NotifyInv'
             /\ UNCHANGED <<seen, mine, calls, lock, items, chan, waiting,
                            closed, running>>
  BY <1>2, BroadcastWakes DEF RevertRefused
<1>3. CASE ExitSignal
  BY <1>3, SignalWakes DEF ExitSignal
<1>4. CASE PurgeWake
  BY <1>1, <1>4, BroadcastWakes DEF PurgeWake
<1>5. CASE ReleaseBroadcast
  BY <1>5, BroadcastWakes DEF ReleaseBroadcast
<1>6. CASE TuneWake
  BY <1>6, SignalWakes, BroadcastWakes DEF TuneWake
<1> QED BY <1>2, <1>3, <1>4, <1>5, <1>6 DEF PureWake

(* The steps that wake nobody.                                             *)
LEMMA QuietFrame ==
  ASSUME Quiet
  PROVE  UNCHANGED <<pc, notify, seen, mine, calls, lock, items, waiting>>
  BY DEF Quiet, callerVars, condVars, Receive, FinishTask, RevertCheck, Exit,
         PurgeTick, PurgeStopped, PurgeFinish, StopPurgeStaleWorkers, Release,
         Tune

(* What detach does, whoever calls it.                                     *)
LEMMA DetachEffect ==
  ASSUME TypeOK, NEW s \in Submitters, Detach(s)
  PROVE  /\ \A t \in Submitters \ {s} : pc'[t] = pc[t] /\ mine'[t] = mine[t]
         /\ \/ /\ items # << >>
               /\ pc'[s] = "send"
               /\ mine'[s] = items[Len(items)]
               /\ items' = SubSeq(items, 1, Len(items) - 1)
               /\ lock' = lock
            \/ /\ items = << >> /\ items' = items
               /\ pc'[s] = "check"
               /\ lock' = s
  BY DEF Detach, TypeOK, Goto

-----------------------------------------------------------------------------

(* Every step keeps the lock in at most one pair of hands.                 *)
LEMMA LockStep ==
  ASSUME RestInv, Next
  PROVE  LockInv'
<1>1. TypeOK /\ LockInv /\ NotifyInv BY DEF RestInv
<1>2. None \notin Submitters BY NamesAssumption
<1>3. ASSUME NEW s \in Submitters, Invoke(s) PROVE LockInv'
  BY <1>1, <1>3 DEF Invoke, LockInv, Goto, TypeOK
<1>4. ASSUME NEW s \in Submitters, Detach(s), lock = None PROVE LockInv'
  BY <1>1, <1>2, <1>4, DetachEffect DEF LockInv
<1>5. ASSUME NEW s \in Submitters, RetrieveWorker(s) PROVE LockInv'
  BY <1>4, <1>5 DEF RetrieveWorker
<1>6. ASSUME NEW s \in Submitters, CheckCapacity(s) PROVE LockInv'
  BY <1>1, <1>6 DEF CheckCapacity, LockInv, Goto, TypeOK
<1>7. ASSUME NEW s \in Submitters, Park(s) PROVE LockInv'
  BY <1>1, <1>7 DEF Park, LockInv, Goto, TypeOK
<1>8. ASSUME NEW s \in Submitters, Wakened(s) PROVE LockInv'
  <2>1. CASE Goto(s, "idle") /\ UNCHANGED <<mine, items, lock, seen>>
    BY <1>1, <2>1 DEF LockInv, Goto, TypeOK
  <2> QED BY <1>4, <1>8, <2>1 DEF Wakened
<1>9. ASSUME NEW s \in Submitters, SpawnWorker(s) PROVE LockInv'
  BY <1>1, <1>9 DEF SpawnWorker, LockInv, Goto, TypeOK
<1>10. ASSUME NEW s \in Submitters, InputParam(s) PROVE LockInv'
  BY <1>1, <1>10 DEF InputParam, LockInv, Goto, TypeOK
<1>11. ASSUME NEW w \in Workers, RevertInsert(w) PROVE LockInv'
  <2>1. WakesOnly
    BY <1>1, <1>11, SignalWakes DEF RevertInsert, WakesOnly, condVars
  <2> QED BY <1>1, <1>2, <1>11, <2>1 DEF RevertInsert, LockInv, WakesOnly
<1>12. CASE PurgeRefresh
  BY <1>1, <1>2, <1>12 DEF PurgeRefresh, LockInv, condVars
<1>13. CASE ReleaseReset
  BY <1>1, <1>2, <1>13 DEF ReleaseReset, LockInv, condVars
<1>14. CASE PureWake
  BY <1>1, <1>14, WakeFrame DEF LockInv, WakesOnly
<1>15. CASE Quiet
  BY <1>1, <1>15, QuietFrame DEF LockInv
<1> QED
  BY <1>3, <1>5, <1>6, <1>7, <1>8, <1>9, <1>10, <1>11, <1>12, <1>13, <1>14,
     <1>15, StepKinds

(* Every step keeps the notify list equal to the parked callers.           *)
LEMMA NotifyStep ==
  ASSUME RestInv, Next
  PROVE  NotifyInv'
<1>1. TypeOK /\ NotifyInv BY DEF RestInv
<1>2. ASSUME notify' = notify,
             \A s \in Submitters : pc'[s] = "waiting" <=> pc[s] = "waiting"
      PROVE  NotifyInv'
  BY <1>1, <1>2 DEF NotifyInv, In, Distinct
<1>3. ASSUME NEW s \in Submitters, Invoke(s) PROVE NotifyInv'
  BY <1>1, <1>2, <1>3 DEF Invoke, Goto, TypeOK
<1>4. ASSUME NEW s \in Submitters, RetrieveWorker(s) PROVE NotifyInv'
  BY <1>1, <1>2, <1>4, DetachEffect DEF RetrieveWorker
<1>5. ASSUME NEW s \in Submitters, CheckCapacity(s) PROVE NotifyInv'
  BY <1>1, <1>2, <1>5 DEF CheckCapacity, Goto, TypeOK
<1>6. ASSUME NEW s \in Submitters, Park(s) PROVE NotifyInv'
  <2>1. ~In(s, notify) BY <1>1, <1>6 DEF Park, NotifyInv
  <2>2. /\ \A v : In(v, Append(notify, s)) <=> In(v, notify) \/ v = s
        /\ Distinct(Append(notify, s))
    BY <1>1, <2>1, AppendHas DEF TypeOK, NotifyInv
  <2>3. \A t \in Submitters : pc'[t] = IF t = s THEN "waiting" ELSE pc[t]
    BY <1>1, <1>6 DEF Park, Goto, TypeOK
  <2>4. notify' = Append(notify, s) BY <1>6 DEF Park
  <2>5. Distinct(notify') BY <2>2, <2>4
  <2>6. \A t \in Submitters : In(t, notify') <=> pc'[t] = "waiting"
    BY <1>1, <2>2, <2>3, <2>4 DEF NotifyInv
  <2> QED BY <2>5, <2>6 DEF NotifyInv, In, Distinct
<1>7. ASSUME NEW s \in Submitters, Wakened(s) PROVE NotifyInv'
  <2>1. CASE Goto(s, "idle")
    BY <1>1, <1>2, <1>7, <2>1 DEF Wakened, Goto, TypeOK
  <2>2. CASE Detach(s)
    BY <1>1, <1>2, <1>7, <2>2, DetachEffect DEF Wakened
  <2> QED BY <1>7, <2>1, <2>2 DEF Wakened
<1>8. ASSUME NEW s \in Submitters, SpawnWorker(s) PROVE NotifyInv'
  BY <1>1, <1>2, <1>8 DEF SpawnWorker, Goto, TypeOK
<1>9. ASSUME NEW s \in Submitters, InputParam(s) PROVE NotifyInv'
  BY <1>1, <1>2, <1>9 DEF InputParam, Goto, TypeOK
<1>10. ASSUME NEW w \in Workers, RevertInsert(w) PROVE NotifyInv'
  <2>1. CASE UNCHANGED condVars BY <1>2, <2>1 DEF condVars
  <2>2. CASE Signal BY <1>1, <2>2, SignalWakes
  <2> QED BY <1>10, <2>1, <2>2 DEF RevertInsert
<1>11. CASE PurgeRefresh BY <1>2, <1>11 DEF PurgeRefresh, condVars
<1>12. CASE ReleaseReset BY <1>2, <1>12 DEF ReleaseReset, condVars
<1>13. CASE PureWake BY <1>1, <1>13, WakeFrame
<1>14. CASE Quiet BY <1>2, <1>14, QuietFrame
<1> QED
  BY <1>3, <1>4, <1>5, <1>6, <1>7, <1>8, <1>9, <1>10, <1>11, <1>12, <1>13,
     <1>14, StepKinds

(* Every step keeps what a caller holds in line with its place.            *)
LEMMA CallStep ==
  ASSUME RestInv, Next
  PROVE  CallInv'
<1>1. TypeOK /\ NotifyInv /\ CallInv BY DEF RestInv
<1>2. ASSUME NEW s \in Submitters, Invoke(s) PROVE CallInv'
  BY <1>1, <1>2 DEF Invoke, CallInv, Goto, TypeOK
<1>3. ASSUME NEW s \in Submitters, pc[s] # "idle", Detach(s), calls' = calls
      PROVE  CallInv'
  <2>1. items # << >> => items[Len(items)] \in Workers
    BY <1>1, FrontHas DEF TypeOK
  <2> QED BY <1>1, <1>3, <2>1, DetachEffect DEF CallInv
<1>4. ASSUME NEW s \in Submitters, RetrieveWorker(s) PROVE CallInv'
  BY <1>3, <1>4 DEF RetrieveWorker
<1>5. ASSUME NEW s \in Submitters, CheckCapacity(s) PROVE CallInv'
  BY <1>1, <1>5 DEF CheckCapacity, CallInv, Goto, TypeOK
<1>6. ASSUME NEW s \in Submitters, Park(s) PROVE CallInv'
  BY <1>1, <1>6 DEF Park, CallInv, Goto, TypeOK, callerVars
<1>7. ASSUME NEW s \in Submitters, Wakened(s) PROVE CallInv'
  <2>1. CASE Goto(s, "idle") /\ UNCHANGED <<mine, items, lock, seen>>
    BY <1>1, <1>7, <2>1 DEF Wakened, CallInv, Goto, TypeOK
  <2> QED BY <1>3, <1>7, <2>1 DEF Wakened
<1>8. ASSUME NEW s \in Submitters, SpawnWorker(s) PROVE CallInv'
  BY <1>1, <1>8 DEF SpawnWorker, CallInv, Goto, TypeOK
<1>9. ASSUME NEW s \in Submitters, InputParam(s) PROVE CallInv'
  BY <1>1, <1>9 DEF InputParam, CallInv, Goto, TypeOK
<1>10. ASSUME WakesOnly, UNCHANGED <<mine, calls>> PROVE CallInv'
  BY <1>1, <1>10 DEF CallInv, WakesOnly
<1>11. ASSUME NEW w \in Workers, RevertInsert(w) PROVE CallInv'
  <2>1. WakesOnly
    BY <1>1, <1>11, SignalWakes DEF RevertInsert, WakesOnly, condVars
  <2> QED BY <1>10, <1>11, <2>1 DEF RevertInsert, callerVars
<1>12. CASE PurgeRefresh
  BY <1>1, <1>12 DEF PurgeRefresh, CallInv, condVars, callerVars
<1>13. CASE ReleaseReset
  BY <1>1, <1>13 DEF ReleaseReset, CallInv, condVars, callerVars
<1>14. CASE PureWake BY <1>1, <1>10, <1>14, WakeFrame
<1>15. CASE Quiet BY <1>1, <1>15, QuietFrame DEF CallInv
<1> QED
  BY <1>2, <1>4, <1>5, <1>6, <1>7, <1>8, <1>9, <1>11, <1>12, <1>13, <1>14,
     <1>15, StepKinds

(* Every step keeps the phases of Release and of the purger in order.      *)
LEMMA PhaseStep ==
  ASSUME RestInv, Next
  PROVE  PhaseInv'
<1> USE DEF callerVars, workerVars, condVars, capVars, releaseVars, purgeVars
<1>1. PhaseInv BY DEF RestInv
<1>2. ASSUME NEW s \in Submitters, Invoke(s) \/ Call(s) PROVE PhaseInv'
  BY <1>1, <1>2 DEF PhaseInv, Invoke, Call, RetrieveWorker, CheckCapacity,
                    Park, Wakened, SpawnWorker, InputParam
<1>3. ASSUME NEW w \in Workers, Run(w) PROVE PhaseInv'
  BY <1>1, <1>3 DEF PhaseInv, Run, Receive, FinishTask, RevertCheck,
                    RevertRefused, RevertInsert, Exit
<1>4. CASE ExitSignal BY <1>1, <1>4 DEF PhaseInv, ExitSignal
<1>5. CASE Purge
  BY <1>1, <1>5 DEF PhaseInv, Purge, PurgeTick, PurgeStopped, PurgeRefresh,
                    PurgeFinish, PurgeWake
<1>6. CASE StopPurgeStaleWorkers
  BY <1>1, <1>6 DEF PhaseInv, StopPurgeStaleWorkers
<1>7. CASE Release \/ ReleaseRest
  BY <1>1, <1>7 DEF PhaseInv, Release, ReleaseRest, ReleaseReset,
                    ReleaseBroadcast
<1>8. ASSUME NEW size \in TuneSizes, Tune(size) PROVE PhaseInv'
  BY <1>1, <1>8 DEF PhaseInv, Tune
<1>9. CASE TuneWake BY <1>1, <1>9 DEF PhaseInv, TuneWake
<1> QED
  BY <1>2, <1>3, <1>4, <1>5, <1>6, <1>7, <1>8, <1>9 DEF Next

(* A worker that is not at the receive with an empty channel is nobody's.  *)
LEMMA BusyFree ==
  ASSUME OneOwner, NEW w \in Workers, ~Ready(w)
  PROVE  /\ ~In(w, items) /\ ~In(w, stale)
         /\ \A s \in Submitters : pc[s] = "send" => mine[s] # w
  BY DEF OneOwner

(* Nobody's worker may change, and owners of ready workers keep them.      *)
LEMMA OwnerFrame ==
  ASSUME OneOwner,
         UNCHANGED <<items, stale, mine>>,
         \A s \in Submitters : pc'[s] = "send" <=> pc[s] = "send",
         CallInv, TypeOK,
         \A w \in Workers : Ready(w) => Ready(w)'
  PROVE  OneOwner'
<1>1. \A w \in Workers : (In(w, items)' <=> In(w, items))
                         /\ (In(w, stale)' <=> In(w, stale))
  BY DEF In
<1>2. Distinct(items)' /\ Distinct(stale)' BY DEF OneOwner, Distinct
<1>3. \A s \in Submitters : pc[s] = "send" => mine[s] \in Workers
  BY DEF CallInv
<1> QED BY <1>1, <1>2, <1>3 DEF OneOwner

(* Every step leaves each waiting worker one owner.                        *)
LEMMA OwnerStep ==
  ASSUME IInv, Next
  PROVE  OneOwner'
<1> USE DEF callerVars, workerVars, condVars, capVars, releaseVars, purgeVars
<1>1. TypeOK /\ NotifyInv /\ CallInv /\ OneOwner /\ NotStranded
  BY DEF IInv, RestInv
<1>2. ASSUME UNCHANGED <<items, stale, mine, wpc, chan>>,
             \A s \in Submitters : pc'[s] = "send" <=> pc[s] = "send"
      PROVE  OneOwner'
  <2>1. \A w \in Workers : Ready(w) => Ready(w)' BY <1>2 DEF Ready
  <2> QED BY <1>1, <1>2, <2>1, OwnerFrame
<1>3. ASSUME NEW s \in Submitters, Invoke(s) PROVE OneOwner'
  BY <1>1, <1>2, <1>3 DEF Invoke, Goto, TypeOK
<1>4. ASSUME NEW s \in Submitters, pc[s] # "send", Detach(s),
             UNCHANGED <<stale, wpc, chan>>
      PROVE  OneOwner'
  <2>1. CASE items = << >>
    BY <1>1, <1>2, <1>4, <2>1, DetachEffect DEF Detach, Goto, TypeOK
  <2>2. CASE items # << >>
    <3> DEFINE w == items[Len(items)]
               rest == SubSeq(items, 1, Len(items) - 1)
    <3>1. /\ w \in Workers /\ In(w, items)
          /\ \A v : In(v, rest) => In(v, items)
          /\ Distinct(rest) /\ ~In(w, rest)
      BY <1>1, <2>2, FrontHas DEF TypeOK, OneOwner
    <3>2. /\ \A t \in Submitters \ {s} : pc'[t] = pc[t] /\ mine'[t] = mine[t]
          /\ pc'[s] = "send" /\ mine'[s] = w /\ items' = rest
      BY <1>1, <1>4, <2>2, DetachEffect
    <3> HIDE DEF w, rest
    <3>3. \A v \in Workers : Ready(v)' <=> Ready(v) BY <1>4 DEF Ready
    <3>4. \A v : In(v, stale)' <=> In(v, stale) BY <1>4 DEF In
    <3>5. \A v : In(v, items)' <=> In(v, rest) BY <3>2 DEF In
    <3>6. Distinct(items)' /\ Distinct(stale)'
      BY <1>1, <1>4, <3>1, <3>2 DEF OneOwner, Distinct
    <3>7. \A t \in Submitters : pc[t] = "send" => mine[t] # w
      BY <1>1, <3>1 DEF OneOwner
    <3>8. \A t \in Submitters : pc[t] = "send" => mine[t] \in Workers
      BY <1>1 DEF CallInv
    <3>9. \A t \in Submitters : pc'[t] = "send" =>
            Ready(mine[t])' /\ ~In(mine[t], items)' /\ ~In(mine[t], stale)'
      <4>1. ASSUME NEW t \in Submitters \ {s}, pc'[t] = "send"
            PROVE  Ready(mine[t])' /\ ~In(mine[t], items)' /\ ~In(mine[t], stale)'
        <5>1. mine'[t] = mine[t] /\ pc[t] = "send" BY <3>2, <4>1
        <5>2. Ready(mine[t]) /\ ~In(mine[t], items) /\ ~In(mine[t], stale)
          BY <1>1, <5>1 DEF OneOwner
        <5>3. Ready(mine[t])' BY <1>4, <5>1, <5>2 DEF Ready
        <5>4. ~In(mine[t], rest) BY <5>2, <3>1
        <5> QED BY <1>4, <3>2, <5>1, <5>2, <5>3, <5>4 DEF In
      <4>2. Ready(mine[s])' /\ ~In(mine[s], items)' /\ ~In(mine[s], stale)'
        <5>1. Ready(w) /\ ~In(w, stale) BY <1>1, <3>1 DEF OneOwner
        <5> QED BY <1>4, <3>1, <3>2, <5>1 DEF Ready, In
      <4> QED BY <4>1, <4>2
    <3>10. \A t, u \in Submitters :
             pc'[t] = "send" /\ pc'[u] = "send" /\ mine'[t] = mine'[u] => t = u
      BY <1>1, <3>2, <3>7 DEF OneOwner
    <3> QED
      BY <1>1, <3>1, <3>3, <3>4, <3>5, <3>6, <3>9, <3>10 DEF OneOwner
  <2> QED BY <2>1, <2>2
<1>5. ASSUME NEW s \in Submitters, RetrieveWorker(s) PROVE OneOwner'
  BY <1>4, <1>5 DEF RetrieveWorker
<1>6. ASSUME NEW s \in Submitters, CheckCapacity(s) PROVE OneOwner'
  BY <1>1, <1>2, <1>6 DEF CheckCapacity, Goto, TypeOK
<1>7. ASSUME NEW s \in Submitters, Park(s) PROVE OneOwner'
  BY <1>1, <1>2, <1>7 DEF Park, Goto, TypeOK
<1>8. ASSUME NEW s \in Submitters, Wakened(s) PROVE OneOwner'
  <2>1. CASE Goto(s, "idle") /\ UNCHANGED <<mine, items, lock, seen>>
    BY <1>1, <1>2, <1>8, <2>1 DEF Wakened, Goto, TypeOK
  <2>2. CASE Detach(s)
    BY <1>4, <1>8, <2>2 DEF Wakened
  <2> QED BY <1>8, <2>1, <2>2 DEF Wakened
<1>9. ASSUME NEW s \in Submitters, SpawnWorker(s) PROVE OneOwner'
  <2>1. PICK w \in Workers :
          /\ wpc[w] = "off"
          /\ wpc' = [wpc EXCEPT ![w] = "recv"]
          /\ mine' = [mine EXCEPT ![s] = w]
    BY <1>9 DEF SpawnWorker
  <2>2. ~Ready(w) /\ chan[w] = None BY <1>1, <2>1 DEF Ready, NotStranded
  <2>3. /\ ~In(w, items) /\ ~In(w, stale)
        /\ \A t \in Submitters : pc[t] = "send" => mine[t] # w
    BY <1>1, <2>2, BusyFree
  <2>4. UNCHANGED <<items, stale, chan>> BY <1>9 DEF SpawnWorker
  <2>5. Ready(w)' /\ \A v \in Workers : Ready(v) => Ready(v)'
    BY <1>1, <2>1, <2>2, <2>4 DEF Ready, TypeOK
  <2>6. /\ \A t \in Submitters \ {s} : pc'[t] = pc[t] /\ mine'[t] = mine[t]
        /\ pc'[s] = "send" /\ mine'[s] = w
    BY <1>1, <1>9, <2>1 DEF SpawnWorker, Goto, TypeOK
  <2>7. \A v : (In(v, items)' <=> In(v, items)) /\ (In(v, stale)' <=> In(v, stale))
    BY <2>4 DEF In
  <2>8. Distinct(items)' /\ Distinct(stale)' BY <1>1, <2>4 DEF OneOwner, Distinct
  <2>9. \A t \in Submitters : pc'[t] = "send" =>
          Ready(mine[t])' /\ ~In(mine[t], items)' /\ ~In(mine[t], stale)'
    <3>1. ASSUME NEW t \in Submitters \ {s}, pc'[t] = "send"
          PROVE  Ready(mine[t])' /\ ~In(mine[t], items)' /\ ~In(mine[t], stale)'
      <4>1. mine'[t] = mine[t] /\ pc[t] = "send" /\ mine[t] \in Workers
        BY <1>1, <2>6, <3>1 DEF CallInv
      <4>2. Ready(mine[t]) /\ ~In(mine[t], items) /\ ~In(mine[t], stale)
        BY <1>1, <4>1 DEF OneOwner
      <4>3. mine[t] # w BY <2>3, <4>1
      <4>4. Ready(mine[t])'
        BY <1>1, <2>1, <2>4, <4>1, <4>2, <4>3 DEF Ready, TypeOK
      <4> QED BY <2>4, <4>1, <4>2, <4>4 DEF In
    <3>2. Ready(mine[s])' /\ ~In(mine[s], items)' /\ ~In(mine[s], stale)'
      <4>1. Ready(mine[s])' BY <2>5, <2>6 DEF Ready
      <4> QED BY <2>3, <2>4, <2>6, <4>1 DEF In
    <3> QED BY <3>1, <3>2
  <2>10. \A t, u \in Submitters :
           pc'[t] = "send" /\ pc'[u] = "send" /\ mine'[t] = mine'[u] => t = u
    BY <1>1, <2>3, <2>6 DEF OneOwner
  <2> QED BY <1>1, <2>5, <2>7, <2>8, <2>9, <2>10 DEF OneOwner
<1>10. ASSUME NEW s \in Submitters, InputParam(s) PROVE OneOwner'
  <2> DEFINE w == mine[s]
  <2>1. pc[s] = "send" /\ w \in Workers BY <1>1, <1>10 DEF InputParam, CallInv
  <2>2. /\ ~In(w, items) /\ ~In(w, stale)
        /\ \A t \in Submitters \ {s} : pc[t] = "send" => mine[t] # w
    BY <1>1, <2>1 DEF OneOwner
  <2>3. UNCHANGED <<items, stale, wpc>> BY <1>10 DEF InputParam
  <2>4. \A v \in Workers \ {w} : Ready(v)' <=> Ready(v)
    BY <1>1, <1>10, <2>1 DEF InputParam, Ready, TypeOK
  <2>5. /\ \A t \in Submitters \ {s} : pc'[t] = pc[t] /\ mine'[t] = mine[t]
        /\ pc'[s] = "idle"
    BY <1>1, <1>10 DEF InputParam, Goto, TypeOK
  <2>6. \A v : (In(v, items)' <=> In(v, items)) /\ (In(v, stale)' <=> In(v, stale))
    BY <2>3 DEF In
  <2>7. Distinct(items)' /\ Distinct(stale)' BY <1>1, <2>3 DEF OneOwner, Distinct
  <2>8. \A t \in Submitters : pc'[t] = "send" =>
          Ready(mine[t])' /\ ~In(mine[t], items)' /\ ~In(mine[t], stale)'
    <3>1. SUFFICES ASSUME NEW t \in Submitters \ {s}, pc'[t] = "send"
                   PROVE  /\ Ready(mine[t])'
                          /\ ~In(mine[t], items)' /\ ~In(mine[t], stale)'
      BY <2>5
    <3>2. mine'[t] = mine[t] /\ pc[t] = "send" /\ mine[t] \in Workers \ {w}
      BY <1>1, <2>2, <2>5, <3>1 DEF CallInv
    <3>3. Ready(mine[t]) /\ ~In(mine[t], items) /\ ~In(mine[t], stale)
      BY <1>1, <3>2 DEF OneOwner
    <3>4. Ready(mine[t])'
      BY <1>1, <1>10, <2>1, <3>2, <3>3 DEF Ready, TypeOK, InputParam
    <3> QED BY <2>3, <3>2, <3>3, <3>4 DEF In
  <2>9. \A t, u \in Submitters :
          pc'[t] = "send" /\ pc'[u] = "send" /\ mine'[t] = mine'[u] => t = u
    BY <1>1, <2>5 DEF OneOwner
  <2>10. \A v \in Workers : In(v, items)' \/ In(v, stale)' => Ready(v)'
    BY <1>1, <2>2, <2>4, <2>6 DEF OneOwner
  <2> QED BY <1>1, <2>6, <2>7, <2>8, <2>9, <2>10 DEF OneOwner
<1>11. ASSUME NEW w \in Workers, ~Ready(w),
              \A v \in Workers \ {w} : wpc'[v] = wpc[v] /\ chan'[v] = chan[v],
              UNCHANGED <<items, stale, mine>>,
              \A s \in Submitters : pc'[s] = "send" <=> pc[s] = "send"
       PROVE  OneOwner'
  <2>1. \A v \in Workers : Ready(v) => Ready(v)' BY <1>11 DEF Ready
  <2> QED BY <1>1, <1>11, <2>1, OwnerFrame
<1>12. ASSUME NEW w \in Workers,
              Receive(w) \/ FinishTask(w) \/ RevertCheck(w) \/ Exit(w)
       PROVE  OneOwner'
  <2>1. ~Ready(w)
    BY <1>12 DEF Ready, Receive, FinishTask, RevertCheck, Exit
  <2>2. \A v \in Workers \ {w} : wpc'[v] = wpc[v] /\ chan'[v] = chan[v]
    BY <1>1, <1>12 DEF Receive, FinishTask, RevertCheck, Exit, TypeOK
  <2>3. UNCHANGED <<items, stale, mine, pc>>
    BY <1>12 DEF Receive, FinishTask, RevertCheck, Exit
  <2> QED BY <1>11, <2>1, <2>2, <2>3
<1>13. ASSUME NEW w \in Workers, RevertRefused(w) PROVE OneOwner'
  <2>1. ~Ready(w) BY <1>13 DEF Ready, RevertRefused
  <2>2. \A v \in Workers \ {w} : wpc'[v] = wpc[v] /\ chan'[v] = chan[v]
    BY <1>1, <1>13 DEF RevertRefused, TypeOK
  <2>3. \A s \in Submitters : pc'[s] = "send" <=> pc[s] = "send"
    BY <1>1, <1>13, BroadcastWakes DEF RevertRefused, WakesOnly
  <2>4. UNCHANGED <<items, stale, mine>> BY <1>13 DEF RevertRefused
  <2> QED BY <1>11, <2>1, <2>2, <2>3, <2>4
<1>14. ASSUME NEW w \in Workers, RevertInsert(w) PROVE OneOwner'
  <2>1. ~Ready(w) /\ wpc[w] = "insert" /\ chan[w] = None
    BY <1>1, <1>14 DEF Ready, RevertInsert, NotStranded, TypeOK
  <2>2. \A v \in Workers \ {w} : wpc'[v] = wpc[v] /\ chan'[v] = chan[v]
    BY <1>1, <1>14 DEF RevertInsert, TypeOK
  <2>3. UNCHANGED <<stale, mine, chan>> BY <1>14 DEF RevertInsert
  <2>4. \A s \in Submitters : pc'[s] = "send" <=> pc[s] = "send"
    BY <1>1, <1>14, SignalWakes DEF RevertInsert, WakesOnly
  <2>5. CASE closed
    <3>1. items' = items BY <1>14, <2>5 DEF RevertInsert
    <3> QED BY <1>11, <2>1, <2>2, <2>3, <2>4, <3>1
  <2>6. CASE ~closed
    <3>1. /\ items' = Append(items, w) /\ wpc'[w] = "recv"
      BY <1>1, <1>14, <2>6 DEF RevertInsert, TypeOK
    <3>2. /\ ~In(w, items) /\ ~In(w, stale)
          /\ \A t \in Submitters : pc[t] = "send" => mine[t] # w
      BY <1>1, <2>1, BusyFree
    <3>3. /\ \A v : In(v, Append(items, w)) <=> In(v, items) \/ v = w
          /\ Distinct(Append(items, w))
      BY <1>1, <3>2, AppendHas DEF TypeOK, OneOwner
    <3>4. \A v : /\ In(v, items)' <=> In(v, items) \/ v = w
                 /\ In(v, stale)' <=> In(v, stale)
      BY <2>3, <3>1, <3>3 DEF In
    <3>5. Distinct(items)' /\ Distinct(stale)'
      BY <1>1, <2>3, <3>1, <3>3 DEF OneOwner, Distinct
    <3>6. \A v \in Workers : Ready(v) => Ready(v)'
      BY <2>1, <2>2 DEF Ready
    <3>7. Ready(w)' BY <2>1, <2>3, <3>1 DEF Ready
    <3>8. \A t \in Submitters : pc'[t] = "send" =>
            Ready(mine[t])' /\ ~In(mine[t], items)' /\ ~In(mine[t], stale)'
      <4>1. SUFFICES ASSUME NEW t \in Submitters, pc'[t] = "send"
                     PROVE  /\ Ready(mine[t])'
                            /\ ~In(mine[t], items)' /\ ~In(mine[t], stale)'
        OBVIOUS
      <4>2. pc[t] = "send" /\ mine'[t] = mine[t] /\ mine[t] \in Workers
        BY <1>1, <2>3, <2>4, <4>1 DEF CallInv
      <4>3. Ready(mine[t]) /\ ~In(mine[t], items) /\ ~In(mine[t], stale)
        BY <1>1, <4>2 DEF OneOwner
      <4>4. mine[t] # w BY <3>2, <4>2
      <4>5. Ready(mine[t])' BY <2>2, <2>3, <4>2, <4>3, <4>4 DEF Ready
      <4>6. ~In(mine[t], Append(items, w)) BY <3>3, <4>3, <4>4
      <4> QED BY <2>3, <3>1, <4>2, <4>3, <4>5, <4>6 DEF In
    <3>9. \A t, u \in Submitters :
            pc'[t] = "send" /\ pc'[u] = "send" /\ mine'[t] = mine'[u] => t = u
      BY <1>1, <2>3, <2>4 DEF OneOwner
    <3> QED
      BY <1>1, <3>2, <3>4, <3>5, <3>6, <3>7, <3>8, <3>9 DEF OneOwner
  <2> QED BY <2>5, <2>6
<1>15. ASSUME UNCHANGED <<mine, pc>>,
              Distinct(items)', Distinct(stale)',
              \A v \in Workers : ~(In(v, items)' /\ In(v, stale)'),
              \A v \in Workers : In(v, items)' \/ In(v, stale)' => Ready(v)',
              \A v \in Workers :
                In(v, items)' \/ In(v, stale)' => In(v, items) \/ In(v, stale),
              \A v \in Workers :
                ~In(v, items) /\ ~In(v, stale) /\ Ready(v) => Ready(v)'
       PROVE  OneOwner'
  <2>1. \A t \in Submitters : pc'[t] = "send" =>
          Ready(mine[t])' /\ ~In(mine[t], items)' /\ ~In(mine[t], stale)'
    <3>1. SUFFICES ASSUME NEW t \in Submitters, pc'[t] = "send"
                   PROVE  /\ Ready(mine[t])'
                          /\ ~In(mine[t], items)' /\ ~In(mine[t], stale)'
      OBVIOUS
    <3>2. pc[t] = "send" /\ mine'[t] = mine[t] /\ mine[t] \in Workers
      BY <1>1, <1>15, <3>1 DEF CallInv
    <3>3. Ready(mine[t]) /\ ~In(mine[t], items) /\ ~In(mine[t], stale)
      BY <1>1, <3>2 DEF OneOwner
    <3>4. Ready(mine[t])' BY <1>15, <3>2, <3>3 DEF Ready
    <3>5. ~In(mine[t], items)' /\ ~In(mine[t], stale)'
      BY <1>15, <3>2, <3>3 DEF In
    <3> QED BY <3>4, <3>5
  <2>2. \A t, u \in Submitters :
          pc'[t] = "send" /\ pc'[u] = "send" /\ mine'[t] = mine'[u] => t = u
    BY <1>1, <1>15 DEF OneOwner
  <2> QED BY <1>15, <2>1, <2>2 DEF OneOwner
<1>16. CASE PurgeRefresh
  <2>1. PICK k \in Expired :
          /\ stale' = SubSeq(items, 1, k)
          /\ items' = SubSeq(items, k + 1, Len(items))
    BY <1>16 DEF PurgeRefresh
  <2>2. k \in 0..Len(items) BY <1>1, EmptySeq DEF Expired, TypeOK
  <2> DEFINE a == SubSeq(items, 1, k)
             b == SubSeq(items, k + 1, Len(items))
  <2>3. /\ \A v : In(v, a) => In(v, items)
        /\ \A v : In(v, b) => In(v, items)
        /\ Distinct(a) /\ Distinct(b)
        /\ \A v : ~(In(v, a) /\ In(v, b))
    BY <1>1, <2>2, CutHas DEF TypeOK, OneOwner
  <2>4. stale' = a /\ items' = b BY <2>1
  <2> HIDE DEF a, b
  <2>5. \A v : (In(v, stale)' <=> In(v, a)) /\ (In(v, items)' <=> In(v, b))
    BY <2>4 DEF In
  <2>6. Distinct(items)' /\ Distinct(stale)' BY <2>3, <2>4 DEF Distinct
  <2>7. UNCHANGED <<wpc, chan, mine, pc>> BY <1>16 DEF PurgeRefresh
  <2>8. \A v \in Workers : Ready(v)' <=> Ready(v) BY <2>7 DEF Ready
  <2>9. \A v \in Workers : In(v, items) => Ready(v) BY <1>1 DEF OneOwner
  <2> QED BY <1>15, <2>3, <2>5, <2>6, <2>7, <2>8, <2>9
<1>17. CASE PurgeFinish
  <2> DEFINE h == Head(stale)
  <2>1. stale # << >> /\ stale' = Tail(stale) BY <1>17 DEF PurgeFinish
  <2>2. /\ h \in Workers /\ In(h, stale)
        /\ \A v : In(v, stale) <=> In(v, Tail(stale)) \/ v = h
        /\ Distinct(Tail(stale)) /\ ~In(h, Tail(stale))
    BY <1>1, <2>1, TailHas DEF TypeOK, OneOwner
  <2> HIDE DEF h
  <2>3. UNCHANGED <<wpc, mine, pc, items>> BY <1>17 DEF PurgeFinish
  <2>4. \A v \in Workers \ {h} : chan'[v] = chan[v]
    BY <1>1, <1>17 DEF PurgeFinish, TypeOK, h
  <2>5. \A v : /\ In(v, items)' <=> In(v, items)
               /\ In(v, stale)' <=> In(v, Tail(stale))
    BY <2>1, <2>3 DEF In
  <2>6. Distinct(items)' /\ Distinct(stale)'
    BY <1>1, <2>1, <2>2, <2>3 DEF Distinct, OneOwner
  <2>7. \A v \in Workers \ {h} : Ready(v) => Ready(v)' BY <2>3, <2>4 DEF Ready
  <2>8. ~In(h, items) BY <1>1, <2>2 DEF OneOwner
  <2>9. \A v \in Workers : In(v, items) \/ In(v, stale) => Ready(v)
    BY <1>1 DEF OneOwner
  <2>10. \A v \in Workers : ~(In(v, items) /\ In(v, stale))
    BY <1>1 DEF OneOwner
  <2> QED BY <1>15, <2>2, <2>3, <2>5, <2>6, <2>7, <2>8, <2>9, <2>10
<1>18. CASE ReleaseReset
  <2>1. UNCHANGED <<wpc, mine, pc, stale>> /\ items' = << >>
    BY <1>18 DEF ReleaseReset
  <2>2. \A v \in Workers : ~In(v, items) => chan'[v] = chan[v]
    BY <1>18 DEF ReleaseReset, Idle, In
  <2>3. \A v : ~In(v, items)' /\ (In(v, stale)' <=> In(v, stale))
    BY <2>1, EmptySeq DEF In
  <2>4. Distinct(items)' /\ Distinct(stale)'
    BY <1>1, <2>1, EmptySeq DEF Distinct, OneOwner
  <2>5. \A v \in Workers : ~In(v, items) /\ Ready(v) => Ready(v)'
    BY <2>1, <2>2 DEF Ready
  <2>6. \A v \in Workers : In(v, stale) => Ready(v) /\ ~In(v, items)
    BY <1>1 DEF OneOwner
  <2> QED BY <1>15, <2>1, <2>3, <2>4, <2>5, <2>6
<1>19. CASE \/ PurgeTick \/ PurgeStopped \/ StopPurgeStaleWorkers \/ Release
            \/ \E size \in TuneSizes : Tune(size)
  BY <1>2, <1>19
  DEF PurgeTick, PurgeStopped, StopPurgeStaleWorkers, Release, Tune
<1>20. CASE ExitSignal \/ PurgeWake \/ ReleaseBroadcast \/ TuneWake
  <2>1. \A s \in Submitters : pc'[s] = "send" <=> pc[s] = "send"
    BY <1>1, <1>20, WakeFrame DEF WakesOnly, PureWake
  <2>2. UNCHANGED <<items, stale, mine, wpc, chan>>
    BY <1>20 DEF ExitSignal, PurgeWake, ReleaseBroadcast, TuneWake
  <2> QED BY <1>2, <2>1, <2>2
<1> QED
  BY <1>3, <1>5, <1>6, <1>7, <1>8, <1>9, <1>10, <1>12, <1>13, <1>14, <1>16,
     <1>17, <1>18, <1>19, <1>20, StepKinds
  DEF Quiet, PureWake

(* Every step leaves a message only where a goroutine receives it.         *)
LEMMA StrandedStep ==
  ASSUME IInv, Next
  PROVE  NotStranded'
<1> USE DEF callerVars, workerVars, condVars, capVars, releaseVars, purgeVars
<1>1. TypeOK /\ CallInv /\ OneOwner /\ NotStranded BY DEF IInv, RestInv
<1>2. ASSUME UNCHANGED <<wpc, chan>> PROVE NotStranded'
  BY <1>1, <1>2 DEF NotStranded
<1>3. ASSUME NEW s \in Submitters,
             \/ Invoke(s) \/ RetrieveWorker(s) \/ CheckCapacity(s) \/ Park(s)
             \/ Wakened(s)
      PROVE  NotStranded'
  BY <1>2, <1>3 DEF Invoke, RetrieveWorker, CheckCapacity, Park, Wakened
<1>4. ASSUME NEW s \in Submitters, SpawnWorker(s) PROVE NotStranded'
  BY <1>1, <1>4 DEF SpawnWorker, NotStranded, TypeOK
<1>5. ASSUME NEW s \in Submitters, InputParam(s) PROVE NotStranded'
  <2>1. mine[s] \in Workers /\ Ready(mine[s])
    BY <1>1, <1>5 DEF InputParam, CallInv, OneOwner
  <2> QED BY <1>1, <1>5, <2>1 DEF InputParam, NotStranded, TypeOK, Ready
<1>6. ASSUME NEW w \in Workers, Run(w) PROVE NotStranded'
  BY <1>1, <1>6 DEF Run, Receive, FinishTask, RevertCheck, RevertRefused,
                    RevertInsert, Exit, NotStranded, TypeOK
<1>7. CASE PurgeFinish
  <2>1. In(Head(stale), stale) /\ Head(stale) \in Workers
    BY <1>1, <1>7, TailHas DEF PurgeFinish, TypeOK
  <2>2. wpc[Head(stale)] = "recv" BY <1>1, <2>1 DEF OneOwner, Ready
  <2> QED BY <1>1, <1>7, <2>1, <2>2 DEF PurgeFinish, NotStranded, TypeOK
<1>8. CASE ReleaseReset
  <2>1. \A w \in Idle \cap Workers : wpc[w] = "recv"
    BY <1>1 DEF Idle, OneOwner, Ready, In
  <2> QED BY <1>1, <1>8, <2>1 DEF ReleaseReset, NotStranded, TypeOK
<1>9. CASE \/ ExitSignal \/ PurgeTick \/ PurgeStopped \/ PurgeRefresh
           \/ PurgeWake \/ StopPurgeStaleWorkers \/ Release
           \/ ReleaseBroadcast \/ TuneWake
           \/ \E size \in TuneSizes : Tune(size)
  BY <1>2, <1>9
  DEF ExitSignal, PurgeTick, PurgeStopped, PurgeRefresh, PurgeWake,
      StopPurgeStaleWorkers, Release, ReleaseBroadcast, TuneWake, Tune
<1> QED
  BY <1>3, <1>4, <1>5, <1>6, <1>7, <1>8, <1>9
  DEF Next, Call, Purge, ReleaseRest

(* A set of callers is finite and has a cardinality.                       *)
LEMMA SubmitterSets ==
  ASSUME NEW A, A \subseteq Submitters
  PROVE  IsFiniteSet(A) /\ Cardinality(A) \in Nat
  BY FS_Subset, FS_CardinalityType, WorkersAssumption

(* Every step keeps running equal to the worker goroutines.                *)
LEMMA LiveStep ==
  ASSUME RestInv, Next
  PROVE  running' = Cardinality(Live')
<1> USE DEF callerVars, workerVars, condVars, capVars, releaseVars, purgeVars
<1>1. TypeOK /\ running = Cardinality(Live) BY DEF RestInv, CountersExact
<1>2. IsFiniteSet(Live) /\ Cardinality(Live) \in Nat
  BY FS_Subset, FS_CardinalityType, WorkersAssumption DEF Live
<1>3. ASSUME UNCHANGED <<wpc, running>> PROVE running' = Cardinality(Live')
  BY <1>1, <1>3 DEF Live
<1>4. ASSUME NEW s \in Submitters,
             \/ Invoke(s) \/ RetrieveWorker(s) \/ CheckCapacity(s) \/ Park(s)
             \/ Wakened(s) \/ InputParam(s)
      PROVE  running' = Cardinality(Live')
  BY <1>3, <1>4 DEF Invoke, RetrieveWorker, CheckCapacity, Park, Wakened,
                    InputParam
<1>5. ASSUME NEW s \in Submitters, SpawnWorker(s)
      PROVE  running' = Cardinality(Live')
  <2>1. PICK w \in Workers : wpc[w] = "off" /\ wpc' = [wpc EXCEPT ![w] = "recv"]
    BY <1>5 DEF SpawnWorker
  <2>2. Live' = Live \cup {w} /\ w \notin Live BY <1>1, <2>1 DEF Live, TypeOK
  <2>3. Cardinality(Live') = Cardinality(Live) + 1 BY <1>2, <2>2, FS_AddElement
  <2> QED BY <1>1, <1>5, <2>3 DEF SpawnWorker
<1>6. ASSUME NEW w \in Workers, Exit(w) PROVE running' = Cardinality(Live')
  <2>1. Live' = Live \ {w} /\ w \in Live BY <1>1, <1>6 DEF Live, Exit, TypeOK
  <2>2. Cardinality(Live') = Cardinality(Live) - 1
    BY <1>2, <2>1, FS_RemoveElement
  <2> QED BY <1>1, <1>6, <2>2 DEF Exit
<1>7. ASSUME NEW w \in Workers,
             \/ Receive(w) \/ FinishTask(w) \/ RevertCheck(w)
             \/ RevertRefused(w) \/ RevertInsert(w)
      PROVE  running' = Cardinality(Live')
  <2>1. \A v \in Workers : wpc'[v] # "off" <=> wpc[v] # "off"
    BY <1>1, <1>7 DEF Receive, FinishTask, RevertCheck, RevertRefused,
                      RevertInsert, TypeOK
  <2>2. running' = running
    BY <1>7 DEF Receive, FinishTask, RevertCheck, RevertRefused, RevertInsert
  <2>3. Live' = Live BY <2>1 DEF Live
  <2> QED BY <1>1, <2>2, <2>3
<1>8. CASE \/ ExitSignal \/ Purge \/ StopPurgeStaleWorkers \/ Release
           \/ ReleaseRest \/ TuneWake \/ \E size \in TuneSizes : Tune(size)
  BY <1>3, <1>8
  DEF ExitSignal, Purge, PurgeTick, PurgeStopped, PurgeRefresh, PurgeFinish,
      PurgeWake, StopPurgeStaleWorkers, Release, ReleaseRest, ReleaseReset,
      ReleaseBroadcast, TuneWake, Tune
<1> QED BY <1>4, <1>5, <1>6, <1>7, <1>8 DEF Next, Call, Run

(* Every step keeps waiting equal to the callers in Wait.                  *)
LEMMA WaitingStep ==
  ASSUME RestInv, Next
  PROVE  waiting' = Cardinality(Counted')
<1>1. TypeOK /\ NotifyInv /\ waiting = Cardinality(Counted)
  BY DEF RestInv, CountersExact
<1>2. IsFiniteSet(Counted) /\ Cardinality(Counted) \in Nat
  BY SubmitterSets DEF Counted
<1>3. ASSUME waiting' = waiting,
             \A s \in Submitters : pc'[s] \in {"park", "waiting", "woken"}
                               <=> pc[s] \in {"park", "waiting", "woken"}
      PROVE  waiting' = Cardinality(Counted')
  <2>1. Counted' = Counted BY <1>3 DEF Counted
  <2> QED BY <1>1, <1>3, <2>1
<1>4. ASSUME NEW s \in Submitters, Invoke(s)
      PROVE  waiting' = Cardinality(Counted')
  BY <1>1, <1>3, <1>4 DEF Invoke, Goto, TypeOK
<1>5. ASSUME NEW s \in Submitters, RetrieveWorker(s)
      PROVE  waiting' = Cardinality(Counted')
  BY <1>1, <1>3, <1>5, DetachEffect DEF RetrieveWorker
<1>6. ASSUME NEW s \in Submitters, CheckCapacity(s)
      PROVE  waiting' = Cardinality(Counted')
  <2>1. CASE Goto(s, "spawn") /\ UNCHANGED waiting
    BY <1>1, <1>3, <1>6, <2>1 DEF CheckCapacity, Goto, TypeOK
  <2>2. CASE Goto(s, "park") /\ waiting' = waiting + 1
    <3>1. Counted' = Counted \cup {s} /\ s \notin Counted
      BY <1>1, <1>6, <2>2 DEF CheckCapacity, Goto, TypeOK, Counted
    <3>2. Cardinality(Counted') = Cardinality(Counted) + 1
      BY <1>2, <3>1, FS_AddElement
    <3> QED BY <1>1, <2>2, <3>2
  <2> QED BY <1>6, <2>1, <2>2 DEF CheckCapacity
<1>7. ASSUME NEW s \in Submitters, Park(s)
      PROVE  waiting' = Cardinality(Counted')
  BY <1>1, <1>3, <1>7 DEF Park, Goto, TypeOK
<1>8. ASSUME NEW s \in Submitters, Wakened(s)
      PROVE  waiting' = Cardinality(Counted')
  <2>1. /\ \A t \in Submitters \ {s} : pc'[t] = pc[t]
        /\ pc'[s] \notin {"park", "waiting", "woken"}
    BY <1>1, <1>8, DetachEffect DEF Wakened, Goto, TypeOK
  <2>2. Counted' = Counted \ {s} /\ s \in Counted
    BY <1>8, <2>1 DEF Counted, Wakened
  <2>3. Cardinality(Counted') = Cardinality(Counted) - 1
    BY <1>2, <2>2, FS_RemoveElement
  <2> QED BY <1>1, <1>8, <2>3 DEF Wakened
<1>9. ASSUME NEW s \in Submitters, SpawnWorker(s) \/ InputParam(s)
      PROVE  waiting' = Cardinality(Counted')
  BY <1>1, <1>3, <1>9 DEF SpawnWorker, InputParam, Goto, TypeOK
<1>10. ASSUME WakesOnly, waiting' = waiting
       PROVE  waiting' = Cardinality(Counted')
  BY <1>3, <1>10 DEF WakesOnly
<1>11. ASSUME NEW w \in Workers, RevertInsert(w)
       PROVE  waiting' = Cardinality(Counted')
  <2>1. WakesOnly
    BY <1>1, <1>11, SignalWakes DEF RevertInsert, WakesOnly, condVars
  <2> QED BY <1>10, <1>11, <2>1 DEF RevertInsert
<1>12. CASE PurgeRefresh BY <1>3, <1>12 DEF PurgeRefresh, condVars
<1>13. CASE ReleaseReset BY <1>3, <1>13 DEF ReleaseReset, condVars
<1>14. CASE PureWake BY <1>1, <1>10, <1>14, WakeFrame
<1>15. CASE Quiet BY <1>3, <1>15, QuietFrame
<1> QED
  BY <1>4, <1>5, <1>6, <1>7, <1>8, <1>9, <1>11, <1>12, <1>13, <1>14, <1>15,
     StepKinds

(* The submitter that decides to spawn is not yet among those that do, so  *)
(* they are at most one fewer than all submitters.                         *)
LEMMA OvershootStep ==
  ASSUME RestInv, Next
  PROVE  BoundedOvershoot'
<1> USE DEF callerVars, workerVars, condVars, capVars, releaseVars, purgeVars
<1>1. TypeOK /\ NotifyInv /\ BoundedOvershoot BY DEF RestInv
<1> DEFINE A == At("spawn")
<1>2. IsFiniteSet(A) /\ Cardinality(A) \in Nat BY SubmitterSets DEF At
<1>3. Cardinality(Submitters) \in Nat /\ MaxCap \in Nat /\ running \in Nat
  BY <1>1, SubmitterSets, CapAssumption DEF TypeOK
<1>4. ASSUME running' = running,
             \A s \in Submitters : pc'[s] = "spawn" <=> pc[s] = "spawn"
      PROVE  BoundedOvershoot'
  <2>1. A' = A BY <1>4 DEF At
  <2> QED BY <1>1, <1>4, <2>1 DEF BoundedOvershoot, SpawnLimit
<1>5. ASSUME NEW s \in Submitters, Invoke(s) \/ Park(s) \/ InputParam(s)
      PROVE  BoundedOvershoot'
  BY <1>1, <1>4, <1>5 DEF Invoke, Park, InputParam, Goto, TypeOK
<1>6. ASSUME NEW s \in Submitters, RetrieveWorker(s) PROVE BoundedOvershoot'
  BY <1>1, <1>4, <1>6, DetachEffect DEF RetrieveWorker
<1>7. ASSUME NEW s \in Submitters, CheckCapacity(s) PROVE BoundedOvershoot'
  <2>1. CASE seen[s] > running /\ Goto(s, "spawn")
    <3>1. A' = A \cup {s} /\ s \notin A
      BY <1>1, <1>7, <2>1 DEF CheckCapacity, Goto, TypeOK, At
    <3>2. Cardinality(A') = Cardinality(A) + 1 BY <1>2, <3>1, FS_AddElement
    <3>3. Cardinality(A') <= Cardinality(Submitters)
      <4>1. A' \in SUBSET Submitters BY DEF At
      <4> QED BY <4>1, FS_Subset, WorkersAssumption
    <3>4. running' = running BY <1>7 DEF CheckCapacity
    <3>5. running + 1 <= MaxCap
      <4>1. seen[s] \in 0..MaxCap BY <1>1 DEF TypeOK
      <4> QED BY <1>3, <2>1, <4>1
    <3>6. Cardinality(A') \in Nat BY <1>2, <3>2
    <3>7. running' + Cardinality(A') <= MaxCap + Cardinality(Submitters) - 1
      BY <1>3, <3>3, <3>4, <3>5, <3>6
    <3> QED BY <3>7 DEF BoundedOvershoot, SpawnLimit
  <2>2. CASE Goto(s, "park")
    BY <1>1, <1>4, <1>7, <2>2 DEF CheckCapacity, Goto, TypeOK
  <2> QED BY <1>7, <2>1, <2>2 DEF CheckCapacity
<1>8. ASSUME NEW s \in Submitters, Wakened(s) PROVE BoundedOvershoot'
  <2>1. CASE Goto(s, "idle")
    BY <1>1, <1>4, <1>8, <2>1 DEF Wakened, Goto, TypeOK
  <2>2. CASE Detach(s)
    BY <1>1, <1>4, <1>8, <2>2, DetachEffect DEF Wakened
  <2> QED BY <1>8, <2>1, <2>2 DEF Wakened
<1>9. ASSUME NEW s \in Submitters, SpawnWorker(s) PROVE BoundedOvershoot'
  <2>1. A' = A \ {s} /\ s \in A
    BY <1>1, <1>9 DEF SpawnWorker, Goto, TypeOK, At
  <2>2. Cardinality(A') = Cardinality(A) - 1 BY <1>2, <2>1, FS_RemoveElement
  <2>3. running' = running + 1 BY <1>9 DEF SpawnWorker
  <2>4. running' + Cardinality(A') = running + Cardinality(A)
    BY <1>2, <1>3, <2>2, <2>3
  <2> QED BY <1>1, <2>4 DEF BoundedOvershoot, SpawnLimit
<1>10. ASSUME NEW w \in Workers, Exit(w) PROVE BoundedOvershoot'
  <2>1. A' = A /\ running' = running - 1 BY <1>10 DEF Exit, At
  <2>2. running' + Cardinality(A') <= running + Cardinality(A)
    BY <1>2, <1>3, <2>1
  <2>3. running' + Cardinality(A') \in Int BY <1>2, <1>3, <2>1
  <2> QED BY <1>1, <1>2, <1>3, <2>2, <2>3 DEF BoundedOvershoot, SpawnLimit
<1>11. ASSUME WakesOnly, running' = running PROVE BoundedOvershoot'
  BY <1>4, <1>11 DEF WakesOnly
<1>12. ASSUME NEW w \in Workers, RevertInsert(w) PROVE BoundedOvershoot'
  <2>1. WakesOnly
    BY <1>1, <1>12, SignalWakes DEF RevertInsert, WakesOnly
  <2> QED BY <1>11, <1>12, <2>1 DEF RevertInsert
<1>13. CASE PurgeRefresh BY <1>4, <1>13 DEF PurgeRefresh
<1>14. CASE ReleaseReset BY <1>4, <1>14 DEF ReleaseReset
<1>15. CASE PureWake BY <1>1, <1>11, <1>15, WakeFrame
<1>16. CASE Quiet
  <2>1. ASSUME NEW w \in Workers,
               Receive(w) \/ FinishTask(w) \/ RevertCheck(w)
        PROVE  BoundedOvershoot'
    BY <1>4, <2>1 DEF Receive, FinishTask, RevertCheck
  <2>2. CASE \/ PurgeTick \/ PurgeStopped \/ PurgeFinish
             \/ StopPurgeStaleWorkers \/ Release
             \/ \E size \in TuneSizes : Tune(size)
    BY <1>4, <2>2 DEF PurgeTick, PurgeStopped, PurgeFinish,
                      StopPurgeStaleWorkers, Release, Tune
  <2> QED BY <1>10, <1>16, <2>1, <2>2 DEF Quiet
<1> QED
  BY <1>5, <1>6, <1>7, <1>8, <1>9, <1>12, <1>13, <1>14, <1>15, <1>16, StepKinds

(* Every step keeps a woken caller for each idle worker while callers are  *)
(* parked.                                                                 *)
LEMMA WastedStep ==
  ASSUME RestInv, Next
  PROVE  IdleNotWasted'
<1> USE DEF callerVars, workerVars, condVars, capVars, releaseVars, purgeVars
<1>1. TypeOK /\ NotifyInv /\ LockInv /\ IdleNotWasted BY DEF RestInv
<1> DEFINE A == At("woken")
<1>2. IsFiniteSet(A) /\ Cardinality(A) \in Nat BY SubmitterSets DEF At
<1>3. Len(items) \in Nat /\ Len(<< >>) = 0 BY <1>1, LenProperties, EmptySeq DEF TypeOK
<1>4. ASSUME UNCHANGED <<items, notify, closed>>,
             \A s \in Submitters : pc'[s] = "woken" <=> pc[s] = "woken"
      PROVE  IdleNotWasted'
  <2>1. A' = A BY <1>4 DEF At
  <2> QED BY <1>1, <1>4, <2>1 DEF IdleNotWasted
<1>5. ASSUME items' = << >> PROVE IdleNotWasted'
  <2>1. Cardinality(A') \in Nat BY SubmitterSets DEF At
  <2> QED BY <1>3, <1>5, <2>1 DEF IdleNotWasted
<1>6. ASSUME NEW s \in Submitters, Invoke(s) PROVE IdleNotWasted'
  BY <1>1, <1>4, <1>6 DEF Invoke, Goto, TypeOK
<1>7. ASSUME NEW s \in Submitters, RetrieveWorker(s) PROVE IdleNotWasted'
  <2>1. UNCHANGED <<notify, closed>> /\ Detach(s) BY <1>7 DEF RetrieveWorker
  <2>2. A' = A BY <1>1, <1>7, <2>1, DetachEffect DEF RetrieveWorker, At
  <2>3. CASE items = << >>
    BY <1>1, <1>5, <2>1, <2>3, DetachEffect
  <2>4. CASE items # << >>
    <3>1. Len(items') = Len(items) - 1
      BY <1>1, <2>1, <2>4, FrontHas, DetachEffect DEF TypeOK
    <3> QED BY <1>1, <1>2, <1>3, <2>1, <2>2, <3>1 DEF IdleNotWasted
  <2> QED BY <2>3, <2>4
<1>8. ASSUME NEW s \in Submitters, CheckCapacity(s) PROVE IdleNotWasted'
  BY <1>1, <1>4, <1>8 DEF CheckCapacity, Goto, TypeOK
<1>9. ASSUME NEW s \in Submitters, Park(s) PROVE IdleNotWasted'
  <2>1. items' = << >> BY <1>1, <1>9 DEF Park, LockInv
  <2> QED BY <1>5, <2>1
<1>10. ASSUME NEW s \in Submitters, Wakened(s) PROVE IdleNotWasted'
  <2>1. closed' = closed /\ notify' = notify BY <1>10 DEF Wakened
  <2>2. CASE closed BY <2>1, <2>2 DEF IdleNotWasted
  <2>3. CASE Detach(s) /\ items = << >>
    BY <1>1, <1>5, <2>3, DetachEffect
  <2>4. CASE Detach(s) /\ items # << >>
    <3>1. Len(items') = Len(items) - 1
      BY <1>1, <2>4, FrontHas, DetachEffect DEF TypeOK
    <3>2. A' = A \ {s} /\ s \in A
      BY <1>1, <1>10, <2>4, DetachEffect DEF Wakened, At
    <3>3. Cardinality(A') = Cardinality(A) - 1
      BY <1>2, <3>2, FS_RemoveElement
    <3> QED BY <1>1, <1>2, <1>3, <2>1, <3>1, <3>3 DEF IdleNotWasted
  <2> QED BY <1>10, <2>2, <2>3, <2>4 DEF Wakened
<1>11. ASSUME NEW s \in Submitters, SpawnWorker(s) \/ InputParam(s)
       PROVE  IdleNotWasted'
  BY <1>1, <1>4, <1>11 DEF SpawnWorker, InputParam, Goto, TypeOK
<1>12. ASSUME Signal, notify # << >>
       PROVE  /\ Cardinality(A') = Cardinality(A) + 1
  <2>1. pc' = [pc EXCEPT ![Head(notify)] = "woken"] BY <1>12 DEF Signal
  <2>2. Head(notify) \in Submitters /\ pc[Head(notify)] = "waiting"
    BY <1>1, <1>12, TailHas DEF TypeOK, NotifyInv
  <2>3. A' = A \cup {Head(notify)} /\ Head(notify) \notin A
    BY <1>1, <2>1, <2>2 DEF At, TypeOK
  <2> QED BY <1>2, <2>3, FS_AddElement
<1>13. ASSUME Signal, UNCHANGED <<items, closed>> PROVE IdleNotWasted'
  <2>1. CASE notify = << >>
    BY <1>13, <2>1, <1>4 DEF Signal
  <2>2. CASE notify # << >>
    BY <1>1, <1>2, <1>3, <1>12, <1>13, <2>2 DEF IdleNotWasted
  <2> QED BY <2>1, <2>2
<1>14. ASSUME Broadcast PROVE IdleNotWasted'
  BY <1>14 DEF Broadcast, IdleNotWasted
<1>15. ASSUME NEW w \in Workers, RevertInsert(w) PROVE IdleNotWasted'
  <2>1. closed' = closed BY <1>15 DEF RevertInsert
  <2>2. CASE closed BY <2>1, <2>2 DEF IdleNotWasted
  <2>3. CASE ~closed
    <3>1. Signal /\ items' = Append(items, w) BY <1>15, <2>3 DEF RevertInsert
    <3>2. Len(items') = Len(items) + 1 BY <1>1, <3>1, AppendHas DEF TypeOK
    <3>3. CASE notify = << >>
      BY <3>1, <3>3 DEF Signal, IdleNotWasted
    <3>4. CASE notify # << >>
      BY <1>1, <1>2, <1>3, <1>12, <2>3, <3>1, <3>2, <3>4 DEF IdleNotWasted
    <3> QED BY <3>3, <3>4
  <2> QED BY <2>2, <2>3
<1>16. CASE PurgeRefresh
  <2>1. PICK k \in Expired : items' = SubSeq(items, k + 1, Len(items))
    BY <1>16 DEF PurgeRefresh
  <2>2. k \in 0..Len(items) BY <1>1, EmptySeq DEF Expired, TypeOK
  <2>3. Len(items') <= Len(items) /\ items' \in Seq(Workers)
    BY <1>1, <2>1, <2>2, CutHas DEF TypeOK
  <2>4. Len(items') \in Nat BY <2>3, LenProperties
  <2>5. UNCHANGED <<pc, notify, closed>> BY <1>16 DEF PurgeRefresh
  <2>6. A' = A BY <2>5 DEF At
  <2> QED BY <1>1, <1>2, <1>3, <2>3, <2>4, <2>5, <2>6 DEF IdleNotWasted
<1>17. CASE ReleaseReset BY <1>5, <1>17 DEF ReleaseReset
<1>18. CASE PureWake
  <2>1. ASSUME NEW w \in Workers, RevertRefused(w) PROVE IdleNotWasted'
    BY <1>14, <2>1 DEF RevertRefused
  <2>2. CASE ExitSignal BY <1>13, <2>2 DEF ExitSignal
  <2>3. CASE PurgeWake BY <1>4, <1>14, <2>3 DEF PurgeWake
  <2>4. CASE ReleaseBroadcast BY <1>14, <2>4 DEF ReleaseBroadcast
  <2>5. CASE TuneWake BY <1>13, <1>14, <2>5 DEF TuneWake
  <2> QED BY <1>18, <2>1, <2>2, <2>3, <2>4, <2>5 DEF PureWake
<1>19. CASE Quiet
  <2>1. CASE Release BY <2>1 DEF Release, IdleNotWasted
  <2>2. CASE closed' = closed BY <1>4, <1>19, <2>2, QuietFrame
  <2> QED
    BY <1>19, <2>1, <2>2
    DEF Quiet, Receive, FinishTask, RevertCheck, Exit, PurgeTick, PurgeStopped,
        PurgeFinish, StopPurgeStaleWorkers, Tune
<1> QED
  BY <1>6, <1>7, <1>8, <1>9, <1>10, <1>11, <1>15, <1>16, <1>17, <1>18, <1>19,
     StepKinds

(* No step puts a worker on the stack after its reset.                     *)
LEMMA DrainStep ==
  ASSUME RestInv, Next
  PROVE  NoIdleAfterReset'
<1> USE DEF callerVars, workerVars, condVars, capVars, releaseVars, purgeVars
<1>1. TypeOK /\ PhaseInv /\ NoIdleAfterReset BY DEF RestInv
<1>2. CASE ReleaseReset BY <1>2 DEF ReleaseReset, NoIdleAfterReset
<1>3. ASSUME ~ReleaseReset PROVE releaser' \in {"broadcast", "done"} =>
                                   releaser \in {"broadcast", "done"}
  <2>1. ASSUME NEW s \in Submitters, Invoke(s) \/ Call(s)
        PROVE  releaser' = releaser
    BY <2>1 DEF Invoke, Call, RetrieveWorker, CheckCapacity, Park, Wakened,
                SpawnWorker, InputParam
  <2>2. ASSUME NEW w \in Workers, Run(w) PROVE releaser' = releaser
    BY <2>2 DEF Run, Receive, FinishTask, RevertCheck, RevertRefused,
                RevertInsert, Exit
  <2>3. CASE \/ ExitSignal \/ Purge \/ StopPurgeStaleWorkers \/ TuneWake
             \/ \E size \in TuneSizes : Tune(size)
    BY <2>3 DEF ExitSignal, Purge, PurgeTick, PurgeStopped, PurgeRefresh,
                PurgeFinish, PurgeWake, StopPurgeStaleWorkers, Tune, TuneWake
  <2>4. CASE Release BY <2>4 DEF Release
  <2>5. CASE ReleaseBroadcast BY <2>5 DEF ReleaseBroadcast
  <2> QED BY <1>3, <2>1, <2>2, <2>3, <2>4, <2>5 DEF Next, ReleaseRest
<1>4. ASSUME closed, items = << >>, ~ReleaseReset PROVE items' = << >>
  <2>1. ASSUME NEW s \in Submitters, Invoke(s) \/ Call(s) PROVE items' = items
    BY <1>1, <1>4, <2>1, DetachEffect
    DEF Invoke, Call, RetrieveWorker, CheckCapacity, Park, Wakened, SpawnWorker,
        InputParam
  <2>2. ASSUME NEW w \in Workers, RevertInsert(w) PROVE items' = items
    BY <1>4, <2>2 DEF RevertInsert
  <2>3. CASE PurgeRefresh
    <3>1. items' = SubSeq(items, 1, Len(items)) /\ 0 \in 0..Len(items)
      BY <1>4, <2>3, EmptySeq DEF PurgeRefresh, Expired
    <3>2. items' \in Seq(Workers) /\ Len(items') <= Len(items)
      BY <1>1, <3>1, CutHas DEF TypeOK
    <3> QED BY <1>4, <3>2, EmptySeq
  <2>4. CASE PureWake BY <1>1, <1>4, <2>4, WakeFrame DEF RestInv
  <2>5. CASE Quiet BY <1>4, <2>5, QuietFrame
  <2> QED BY <1>4, <2>1, <2>2, <2>3, <2>4, <2>5, StepKinds DEF Call
<1>5. ASSUME ~ReleaseReset PROVE NoIdleAfterReset'
  <2>1. releaser \in {"broadcast", "done"} => closed BY <1>1 DEF PhaseInv
  <2> QED BY <1>1, <1>3, <1>4, <1>5, <2>1 DEF NoIdleAfterReset
<1> QED BY <1>2, <1>5

-----------------------------------------------------------------------------
(* The invariant, and what it says of the pool.                            *)

(* A new pool satisfies the inductive invariant.                           *)
LEMMA InitIInv ==
  ASSUME Init
  PROVE  IInv
<1>1. TypeOK
  <2>1. << >> \in Seq(Workers) /\ << >> \in Seq(Submitters) BY EmptySeq
  <2>2. 0 \in 0..MaxCap /\ 0 \in 0..MaxCalls BY CapAssumption
  <2> QED BY <2>1, <2>2, CapAssumption DEF Init, TypeOK, CallerPlaces, WorkerPlaces
<1>2. LockInv /\ NotifyInv /\ CallInv /\ PhaseInv
  BY EmptySeq DEF Init, LockInv, NotifyInv, CallInv, PhaseInv, In, Distinct
<1>3. OneOwner /\ NotStranded /\ NoIdleAfterReset
  BY EmptySeq DEF Init, OneOwner, NotStranded, NoIdleAfterReset, In, Distinct
<1>4. Live = {} /\ Counted = {} /\ At("spawn") = {}
  BY DEF Init, Live, Counted, At
<1>5. CountersExact BY <1>4, FS_EmptySet DEF Init, CountersExact
<1>6. BoundedOvershoot
  <2>1. Cardinality(Submitters) \in Nat \ {0}
    BY SubmitterSets, FS_EmptySet, WorkersAssumption
  <2>2. running = 0 /\ Cardinality(At("spawn")) = 0
    BY <1>4, FS_EmptySet DEF Init
  <2>3. MaxCap \in Nat /\ 0 <= MaxCap + Cardinality(Submitters) - 1
    BY <2>1, CapAssumption
  <2> QED BY <2>2, <2>3 DEF BoundedOvershoot, SpawnLimit
<1>7. IdleNotWasted BY DEF Init, IdleNotWasted
<1> QED BY <1>1, <1>2, <1>3, <1>5, <1>6, <1>7 DEF IInv, RestInv

(* Every step preserves the part that does not look at the owners.         *)
LEMMA StepRestInv ==
  ASSUME RestInv, Next
  PROVE  RestInv'
BY TypeStep, LockStep, NotifyStep, CallStep, PhaseStep, LiveStep, WaitingStep,
   OvershootStep, WastedStep, DrainStep
DEF RestInv, CountersExact

(* Whoever finishes idle workers and wakes callers, a purger or a Reboot:  *)
(* a step that takes workers off the stack at most, and only when the lock *)
(* is free, puts messages into channels and broadcasts, keeps what does    *)
(* not depend on the owners.                                               *)
LEMMA FrameRest ==
  ASSUME RestInv, TypeOK', PhaseInv',
         UNCHANGED <<callerVars, lock, wpc, running, waiting>>,
         Broadcast \/ UNCHANGED condVars,
         items' = items \/ (lock = None /\ Len(items') <= Len(items)),
         closed' = closed \/ items = << >>,
         releaser' \in {"broadcast", "done"} =>
           releaser \in {"broadcast", "done"}
  PROVE  RestInv'
<1>1. TypeOK /\ LockInv /\ NotifyInv /\ CallInv BY DEF RestInv
<1>2. WakesOnly /\ NotifyInv'
  <2>1. CASE UNCHANGED condVars
    BY <1>1, <2>1 DEF condVars, WakesOnly, NotifyInv, In, Distinct
  <2> QED BY <1>1, <2>1, BroadcastWakes
<1>3. Len(items) \in Nat /\ Len(items') \in Nat
  BY <1>1, LenProperties DEF TypeOK
<1>4. items = << >> => items' = << >>
  <2>1. CASE items # items'
    <3>1. ASSUME items = << >> PROVE Len(items') = 0
      BY <2>1, <3>1, <1>3, EmptySeq
    <3> QED BY <3>1, EmptySeq DEF TypeOK
  <2> QED BY <2>1
<1>5. LockInv'
  BY <1>1, <1>2, NamesAssumption DEF LockInv, WakesOnly
<1>6. CallInv' BY <1>1, <1>2 DEF CallInv, WakesOnly, callerVars
<1>7. CountersExact'
  <2>1. Counted' = Counted BY <1>2 DEF Counted, WakesOnly
  <2>2. Live' = Live BY DEF Live
  <2> QED BY <2>1, <2>2 DEF RestInv, CountersExact
<1>8. BoundedOvershoot'
  <2>1. At("spawn")' = At("spawn") BY <1>2 DEF At, WakesOnly
  <2> QED BY <2>1 DEF RestInv, BoundedOvershoot
<1>9. IdleNotWasted'
  <2>1. At("woken") \subseteq At("woken")' BY <1>2 DEF At, WakesOnly
  <2>2. /\ IsFiniteSet(At("woken")') /\ Cardinality(At("woken")) \in Nat
        /\ Cardinality(At("woken")') \in Nat
    BY SubmitterSets DEF At
  <2>3. Cardinality(At("woken")) <= Cardinality(At("woken")')
    BY <2>1, <2>2, FS_Subset
  <2>4. notify' # << >> => notify = notify' BY DEF Broadcast, condVars
  <2>5. Len(items') <= Len(items) BY <1>3
  <2>6. CASE items = << >>
    <3>1. Len(items') = 0 BY <1>4, <2>6, EmptySeq
    <3> QED BY <2>2, <3>1 DEF IdleNotWasted
  <2>7. CASE closed' = closed
    <3>1. IdleNotWasted BY DEF RestInv
    <3> QED BY <1>3, <2>2, <2>3, <2>4, <2>5, <2>7, <3>1 DEF IdleNotWasted
  <2> QED BY <2>6, <2>7
<1>10. NoIdleAfterReset' BY <1>4 DEF RestInv, NoIdleAfterReset
<1> QED
  BY <1>2, <1>5, <1>6, <1>7, <1>8, <1>9, <1>10 DEF RestInv

(* Every step preserves the inductive invariant.                           *)
LEMMA StepIInv ==
  ASSUME IInv, [Next]_vars
  PROVE  IInv'
<1>1. CASE Next
  BY <1>1, StepRestInv, OwnerStep, StrandedStep DEF IInv
<1>2. CASE UNCHANGED vars
  BY <1>2 DEF vars, callerVars, workerVars, condVars, capVars, releaseVars,
    purgeVars, IInv, RestInv, TypeOK, LockInv, NotifyInv, CallInv, PhaseInv,
    OneOwner, NotStranded, CountersExact, BoundedOvershoot, IdleNotWasted,
    NoIdleAfterReset, Live, Counted, At, In, Distinct, Ready
<1> QED BY <1>1, <1>2

(* The inductive invariant holds: initially, over every step, and so always.*)
THEOREM Invariance == Spec => []IInv
<1>1. Init => IInv BY InitIInv
<1>2. IInv /\ [Next]_vars => IInv' BY StepIInv
<1> QED BY <1>1, <1>2, PTL DEF Spec

(* The pool's fields keep their types; in particular neither counter, both *)
(* updated by unlocked atomic adds, ever goes below zero.                  *)
THEOREM TypeCorrect == Spec => []TypeOK
<1>1. IInv => TypeOK BY DEF IInv, RestInv
<1> QED BY <1>1, Invariance, PTL

(* A retrieved, idle or expired worker has one owner and an empty channel: *)
(* no send of inputParam or finish blocks, so reset cannot block while it  *)
(* holds the spin lock.                                                    *)
THEOREM Ownership == Spec => []OneOwner
<1>1. IInv => OneOwner BY DEF IInv
<1> QED BY <1>1, Invariance, PTL

(* No message is left in the channel of a worker whose goroutine has gone. *)
THEOREM NoTaskStranded == Spec => []NotStranded
<1>1. IInv => NotStranded BY DEF IInv
<1> QED BY <1>1, Invariance, PTL

(* running counts the worker goroutines and waiting the callers in Wait.   *)
THEOREM Counting == Spec => []CountersExact
<1>1. IInv => CountersExact BY DEF IInv, RestInv
<1> QED BY <1>1, Invariance, PTL

(* The pool exceeds its capacity by less than its number of callers.       *)
THEOREM Overshoot == Spec => []BoundedOvershoot
<1>1. IInv => BoundedOvershoot BY DEF IInv, RestInv
<1> QED BY <1>1, Invariance, PTL

(* While a caller is parked, every idle worker has a woken caller.         *)
THEOREM NoIdleWasted == Spec => []IdleNotWasted
<1>1. IInv => IdleNotWasted BY DEF IInv, RestInv
<1> QED BY <1>1, Invariance, PTL

(* After the reset of Release the stack of idle workers stays empty.       *)
THEOREM Drained == Spec => []NoIdleAfterReset
<1>1. IInv => NoIdleAfterReset BY DEF IInv, RestInv
<1> QED BY <1>1, Invariance, PTL

(* spawnWorker always finds an object: SpawnLimit objects are as good as   *)
(* the unlimited supply of sync.Pool.                                      *)
THEOREM SpawnNeverStarves ==
  Spec => [](\A s \in Submitters :
               pc[s] = "spawn" => \E w \in Workers : wpc[w] = "off")
<1> DEFINE Supplied == \A s \in Submitters :
                         pc[s] = "spawn" => \E w \in Workers : wpc[w] = "off"
<1>1. IInv => Supplied
  <2>1. SUFFICES ASSUME IInv, NEW s \in Submitters, pc[s] = "spawn",
                        \A w \in Workers : wpc[w] # "off"
                 PROVE  FALSE
    OBVIOUS
  <2>2. Live = Workers BY <2>1 DEF Live
  <2>3. running = Cardinality(Workers)
    BY <2>1, <2>2 DEF IInv, RestInv, CountersExact
  <2>4. Cardinality(At("spawn")) \in Nat /\ Cardinality(At("spawn")) # 0
    <3>1. s \in At("spawn") BY <2>1 DEF At
    <3>2. IsFiniteSet(At("spawn")) /\ Cardinality(At("spawn")) \in Nat
      BY SubmitterSets DEF At
    <3> QED BY <3>1, <3>2, FS_EmptySet
  <2>5. Cardinality(Workers) \in Nat /\ Cardinality(Submitters) \in Nat
    BY FS_CardinalityType, WorkersAssumption
  <2>6. running + Cardinality(At("spawn")) <= MaxCap + Cardinality(Submitters) - 1
    BY <2>1 DEF IInv, RestInv, BoundedOvershoot, SpawnLimit
  <2>7. Cardinality(Workers) >= MaxCap + Cardinality(Submitters) - 1
    BY WorkersAssumption
  <2> QED BY <2>3, <2>4, <2>5, <2>6, <2>7, CapAssumption
<1> QED BY <1>1, Invariance, PTL

-----------------------------------------------------------------------------
(* The pool implements Executor.                                           *)

(* A task is in one channel or with one worker at most, and not there      *)
(* before its call has handed it over; a worker has a task while it runs   *)
(* it, so there is one at most for each worker goroutine.                  *)
TaskInv ==
  /\ \A w \in Workers : job[w] # None <=> wpc[w] = "run"
  /\ \A w \in Workers : \A t \in Tasks :
       chan[w] = t \/ job[w] = t =>
         t[2] <= calls[t[1]] /\ (pc[t[1]] # "idle" => t[2] # calls[t[1]])
  /\ \A v, w \in Workers :
       /\ chan[v] \in Tasks /\ chan[v] = chan[w] => v = w
       /\ job[v] # None /\ job[v] = job[w] => v = w
       /\ job[v] # None => job[v] # chan[w]

(* Steps of the pool that the tasks do not notice.                         *)
TaskFrame ==
  /\ UNCHANGED <<calls, chan, job, closed>>
  /\ \A s \in Submitters : pc'[s] = "idle" <=> pc[s] = "idle"
  /\ \A w \in Workers : wpc'[w] = "run" <=> wpc[w] = "run"

(* The steps by what they do to the tasks.                                 *)
LEMMA TaskKinds ==
  ASSUME RestInv, Next
  PROVE  \/ \E s \in Submitters :
              Invoke(s) \/ (Wakened(s) /\ closed) \/ InputParam(s)
         \/ \E w \in Workers : Receive(w) \/ FinishTask(w)
         \/ PurgeFinish \/ ReleaseReset \/ Release
         \/ TaskFrame
<1> USE DEF callerVars, workerVars, condVars, capVars, releaseVars, purgeVars
<1>1. TypeOK /\ NotifyInv BY DEF RestInv
<1>2. ASSUME WakesOnly, UNCHANGED <<calls, chan, job, closed, wpc>>
      PROVE  TaskFrame
  BY <1>2 DEF WakesOnly, TaskFrame
<1>3. ASSUME UNCHANGED <<pc, calls, chan, job, closed>>,
             \A w \in Workers : wpc'[w] = "run" <=> wpc[w] = "run"
      PROVE  TaskFrame
  BY <1>3 DEF TaskFrame
<1>4. ASSUME NEW s \in Submitters, pc[s] # "idle", Detach(s),
             UNCHANGED <<calls, chan, job, closed, wpc>>
      PROVE  TaskFrame
  BY <1>1, <1>4, DetachEffect DEF TaskFrame
<1>5. ASSUME NEW s \in Submitters, RetrieveWorker(s) PROVE TaskFrame
  BY <1>4, <1>5 DEF RetrieveWorker
<1>6. ASSUME NEW s \in Submitters, CheckCapacity(s) \/ Park(s)
      PROVE  TaskFrame
  BY <1>1, <1>6 DEF CheckCapacity, Park, Goto, TypeOK, TaskFrame
<1>7. ASSUME NEW s \in Submitters, Wakened(s), ~closed PROVE TaskFrame
  BY <1>4, <1>7 DEF Wakened
<1>8. ASSUME NEW s \in Submitters, SpawnWorker(s) PROVE TaskFrame
  BY <1>1, <1>8 DEF SpawnWorker, Goto, TypeOK, TaskFrame
<1>9. ASSUME NEW w \in Workers, RevertCheck(w) \/ Exit(w) PROVE TaskFrame
  BY <1>1, <1>3, <1>9 DEF RevertCheck, Exit, TypeOK
<1>10. ASSUME NEW w \in Workers, RevertInsert(w) PROVE TaskFrame
  <2>1. WakesOnly
    BY <1>1, <1>10, SignalWakes DEF RevertInsert, WakesOnly
  <2>2. \A v \in Workers : wpc'[v] = "run" <=> wpc[v] = "run"
    BY <1>1, <1>10 DEF RevertInsert, TypeOK
  <2> QED BY <1>10, <2>1, <2>2 DEF RevertInsert, WakesOnly, TaskFrame
<1>11. ASSUME NEW w \in Workers, RevertRefused(w) PROVE TaskFrame
  <2>1. WakesOnly BY <1>1, <1>11, BroadcastWakes DEF RevertRefused
  <2>2. \A v \in Workers : wpc'[v] = "run" <=> wpc[v] = "run"
    BY <1>1, <1>11 DEF RevertRefused, TypeOK
  <2> QED BY <1>11, <2>1, <2>2 DEF RevertRefused, WakesOnly, TaskFrame
<1>12. CASE ExitSignal \/ PurgeWake \/ ReleaseBroadcast \/ TuneWake
  <2>1. WakesOnly BY <1>1, <1>12, WakeFrame DEF PureWake
  <2> QED BY <1>2, <1>12, <2>1
          DEF ExitSignal, PurgeWake, ReleaseBroadcast, TuneWake
<1>13. CASE \/ PurgeTick \/ PurgeStopped \/ PurgeRefresh
            \/ StopPurgeStaleWorkers \/ \E size \in TuneSizes : Tune(size)
  BY <1>3, <1>13 DEF PurgeTick, PurgeStopped, PurgeRefresh,
                     StopPurgeStaleWorkers, Tune
<1> QED
  BY <1>5, <1>6, <1>7, <1>8, <1>9, <1>10, <1>11, <1>12, <1>13
  DEF Next, Call, Run, Purge, ReleaseRest

(* The task of a caller that is in a call.                                 *)
LEMMA CurrentTask ==
  ASSUME RestInv, NEW s \in Submitters, pc[s] # "idle"
  PROVE  <<s, calls[s]>> \in Tasks
BY DEF RestInv, CallInv, TypeOK, Tasks

(* No step gives a task to two, or gives it back.                          *)
LEMMA TaskStep ==
  ASSUME RestInv, TaskInv, Next
  PROVE  TaskInv'
<1> USE DEF callerVars, workerVars, condVars, capVars, releaseVars, purgeVars
<1>1. TypeOK /\ CallInv BY DEF RestInv
<1>2. None # Nil /\ None \notin Tasks /\ Nil \notin Tasks
  BY NamesAssumption
<1>3. \A t \in Tasks : t[1] \in Submitters /\ t[2] \in 1..MaxCalls
  BY DEF Tasks
<1>4. ASSUME NEW s \in Submitters, Invoke(s) PROVE TaskInv'
  <2>1. /\ UNCHANGED <<chan, job, wpc>>
        /\ \A r \in Submitters \ {s} : pc'[r] = pc[r] /\ calls'[r] = calls[r]
        /\ pc[s] = "idle" /\ calls'[s] = calls[s] + 1
    BY <1>1, <1>4 DEF Invoke, Goto, TypeOK
  <2>2. \A t \in Tasks : t[2] <= calls[t[1]] /\ t[1] = s =>
          t[2] <= calls'[s] /\ t[2] # calls'[s]
    BY <1>1, <1>3, <2>1 DEF TypeOK
  <2> QED BY <1>3, <2>1, <2>2 DEF TaskInv
<1>5. ASSUME NEW s \in Submitters, Wakened(s), closed PROVE TaskInv'
  <2>1. CASE Goto(s, "idle") /\ UNCHANGED <<mine, items, lock, seen>>
    BY <1>1, <1>3, <1>5, <2>1 DEF Wakened, Goto, TypeOK, TaskInv
  <2> QED BY <1>5, <2>1 DEF Wakened
<1>6. ASSUME NEW s \in Submitters, InputParam(s) PROVE TaskInv'
  <2> DEFINE t == <<s, calls[s]>>
             w == mine[s]
  <2>1. pc[s] = "send" /\ w \in Workers /\ t \in Tasks
    BY <1>1, <1>6, CurrentTask DEF InputParam, CallInv
  <2>2. \A v \in Workers : chan[v] # t /\ job[v] # t
    BY <2>1 DEF TaskInv
  <2>3. /\ \A v \in Workers : chan'[v] = IF v = w THEN t ELSE chan[v]
        /\ UNCHANGED <<calls, job, wpc>>
        /\ \A r \in Submitters : pc'[r] = IF r = s THEN "idle" ELSE pc[r]
    BY <1>1, <1>6 DEF InputParam, Goto, TypeOK
  <2>4. t[1] = s /\ t[2] = calls[s] /\ t[2] <= calls[s]
    BY <1>1 DEF TypeOK
  <2> HIDE DEF t, w
  <2>5. \A v \in Workers : job'[v] # None <=> wpc'[v] = "run"
    BY <2>3 DEF TaskInv
  <2>6. ASSUME NEW v \in Workers, NEW u \in Tasks, chan'[v] = u \/ job'[v] = u
        PROVE  u[2] <= calls'[u[1]] /\ (pc'[u[1]] # "idle" => u[2] # calls'[u[1]])
    <3>1. CASE u = t BY <1>3, <2>3, <2>4, <3>1
    <3>2. CASE u # t
      <4>1. chan[v] = u \/ job[v] = u BY <2>3, <2>6, <3>2
      <4> QED BY <1>3, <2>3, <4>1 DEF TaskInv
    <3> QED BY <3>1, <3>2
  <2>7. \A u, v \in Workers :
          /\ chan'[u] \in Tasks /\ chan'[u] = chan'[v] => u = v
          /\ job'[u] # None /\ job'[u] = job'[v] => u = v
          /\ job'[u] # None => job'[u] # chan'[v]
    BY <2>2, <2>3 DEF TaskInv
  <2> QED BY <2>5, <2>6, <2>7 DEF TaskInv
<1>7. ASSUME UNCHANGED <<pc, calls>>,
             \A w \in Workers : job'[w] # None <=> wpc'[w] = "run",
             \A w \in Workers : chan'[w] = chan[w] \/ chan'[w] \notin Tasks,
             \A w \in Workers : job'[w] = job[w] \/ job'[w] = None
      PROVE  TaskInv'
  <2>1. \A w \in Workers : job[w] \in Tasks \cup {None} BY <1>1 DEF TypeOK
  <2>2. \A w \in Workers : \A t \in Tasks : chan'[w] = t \/ job'[w] = t =>
          chan[w] = t \/ job[w] = t
    BY <1>2, <1>7
  <2>3. \A v, w \in Workers :
          /\ chan'[v] \in Tasks /\ chan'[v] = chan'[w] => v = w
          /\ job'[v] # None /\ job'[v] = job'[w] => v = w
          /\ job'[v] # None => job'[v] # chan'[w]
    BY <1>2, <1>7, <2>1 DEF TaskInv
  <2> QED BY <1>7, <2>2, <2>3 DEF TaskInv
<1>8. ASSUME NEW w \in Workers, Receive(w) PROVE TaskInv'
  <2>1. job[w] = None /\ UNCHANGED <<pc, calls>>
    BY <1>8 DEF Receive, TaskInv
  <2>2. \A v \in Workers : chan'[v] = IF v = w THEN None ELSE chan[v]
    BY <1>1, <1>8 DEF Receive, TypeOK
  <2>3. CASE chan[w] = Nil /\ wpc' = [wpc EXCEPT ![w] = "exit"] /\ UNCHANGED job
    <3>1. \A v \in Workers : job'[v] # None <=> wpc'[v] = "run"
      BY <1>1, <2>1, <2>3 DEF TypeOK, TaskInv
    <3> QED BY <1>2, <1>7, <2>1, <2>2, <2>3, <3>1
  <2>4. CASE /\ chan[w] # Nil
             /\ wpc' = [wpc EXCEPT ![w] = "run"]
             /\ job' = [job EXCEPT ![w] = chan[w]]
    <3>1. chan[w] \in Tasks BY <1>1, <1>8, <2>4 DEF Receive, TypeOK
    <3>2. \A v \in Workers : job'[v] = IF v = w THEN chan[w] ELSE job[v]
      BY <1>1, <2>4 DEF TypeOK
    <3>3. \A v \in Workers : wpc'[v] = IF v = w THEN "run" ELSE wpc[v]
      BY <1>1, <2>4 DEF TypeOK
    <3>4. \A v \in Workers : job'[v] # None <=> wpc'[v] = "run"
      BY <1>2, <3>1, <3>2, <3>3 DEF TaskInv
    <3>5. \A v \in Workers : \A t \in Tasks : chan'[v] = t \/ job'[v] = t =>
            chan[v] = t \/ job[v] = t
      BY <1>2, <2>2, <3>2
    <3>6. \A u, v \in Workers :
            /\ chan'[u] \in Tasks /\ chan'[u] = chan'[v] => u = v
            /\ job'[u] # None /\ job'[u] = job'[v] => u = v
            /\ job'[u] # None => job'[u] # chan'[v]
      BY <1>2, <2>1, <2>2, <3>1, <3>2 DEF TaskInv
    <3> QED BY <2>1, <3>4, <3>5, <3>6 DEF TaskInv
  <2> QED BY <1>8, <2>3, <2>4 DEF Receive
<1>9. ASSUME NEW w \in Workers, FinishTask(w) PROVE TaskInv'
  <2>1. /\ UNCHANGED <<pc, calls, chan>>
        /\ \A v \in Workers : job'[v] = IF v = w THEN None ELSE job[v]
        /\ \A v \in Workers \ {w} : wpc'[v] = wpc[v]
        /\ wpc'[w] # "run"
    BY <1>1, <1>9 DEF FinishTask, TypeOK
  <2>2. \A v \in Workers : job'[v] # None <=> wpc'[v] = "run"
    BY <2>1 DEF TaskInv
  <2> QED BY <1>7, <2>1, <2>2
<1>10. CASE PurgeFinish
  <2>1. Head(stale) \in Workers BY <1>1, <1>10, TailHas DEF PurgeFinish, TypeOK
  <2>2. \A w \in Workers : chan'[w] = chan[w] \/ chan'[w] \notin Tasks
    BY <1>1, <1>2, <1>10, <2>1 DEF PurgeFinish, TypeOK
  <2> QED BY <1>7, <1>10, <2>2 DEF PurgeFinish, TaskInv
<1>11. CASE ReleaseReset
  <2>1. \A w \in Workers : chan'[w] = chan[w] \/ chan'[w] \notin Tasks
    BY <1>2, <1>11 DEF ReleaseReset
  <2> QED BY <1>7, <1>11, <2>1 DEF ReleaseReset, TaskInv
<1>12. CASE Release BY <1>7, <1>12 DEF Release, TaskInv
<1>13. CASE TaskFrame BY <1>3, <1>13 DEF TaskFrame, TaskInv
<1> QED
  BY <1>4, <1>5, <1>6, <1>8, <1>9, <1>10, <1>11, <1>12, <1>13, TaskKinds

(* Fewer tasks are under way than the pool may have workers, as long as    *)
(* there is a worker without one.                                          *)
LEMMA UnderwayBounded ==
  ASSUME RestInv, TaskInv, NEW w \in Live, job[w] = None
  PROVE  Cardinality(Underway) < SpawnLimit
<1> DEFINE Busy == {v \in Workers : job[v] # None}
           f == [v \in Busy |-> job[v]]
<1>1. IsFiniteSet(Live) /\ IsFiniteSet(Busy)
  BY FS_Subset, WorkersAssumption DEF Live
<1>2. Busy \subseteq Live \ {w} BY DEF TaskInv, Live
<1>3. /\ IsFiniteSet(Live \ {w})
      /\ Cardinality(Live \ {w}) = Cardinality(Live) - 1
  BY <1>1, FS_RemoveElement
<1>4. Cardinality(Busy) <= Cardinality(Live) - 1 BY <1>2, <1>3, FS_Subset
<1>5. f \in Surjection(Busy, Underway)
  BY DEF Surjection, Underway
<1>6. IsFiniteSet(Underway) /\ Cardinality(Underway) <= Cardinality(Busy)
  BY <1>1, <1>5, FS_Surjection
<1>7. /\ Cardinality(Live) \in Nat /\ Cardinality(Busy) \in Nat
      /\ Cardinality(Underway) \in Nat
  BY <1>1, <1>6, FS_CardinalityType
<1>8. Cardinality(At("spawn")) \in Nat /\ Cardinality(Submitters) \in Nat
  BY SubmitterSets DEF At
<1>9. Cardinality(Live) + Cardinality(At("spawn")) <= SpawnLimit
  BY DEF RestInv, CountersExact, BoundedOvershoot
<1>10. SpawnLimit \in Int BY <1>8, CapAssumption DEF SpawnLimit
<1> QED BY <1>4, <1>6, <1>7, <1>8, <1>9, <1>10

(* Every step of the pool is one of the executor, or none.                 *)
LEMMA Simulates ==
  ASSUME RestInv, TaskInv, Next
  PROVE  Promise!Next \/ UNCHANGED Promise!vars
<1> USE DEF callerVars, workerVars, condVars, capVars, releaseVars, purgeVars
<1>1. TypeOK /\ CallInv BY DEF RestInv
<1>2. None # Nil /\ None \notin Tasks /\ Nil \notin Tasks
  BY NamesAssumption
<1>3. Tasks = Promise!Tasks BY DEF Tasks, Promise!Tasks
<1>4. ASSUME \A s \in Submitters : (pc'[s] = "idle" <=> pc[s] = "idle")
                                  /\ calls'[s] = calls[s]
      PROVE  Offered' = Offered
  BY <1>4 DEF Offered
<1>5. ASSUME UNCHANGED chan PROVE Accepted' = Accepted BY <1>5 DEF Accepted
<1>6. ASSUME UNCHANGED job PROVE Underway' = Underway BY <1>6 DEF Underway
<1>7. ASSUME NEW s \in Submitters, Invoke(s) PROVE Promise!Offer(s)
  <2>1. /\ pc[s] = "idle" /\ calls[s] < MaxCalls
        /\ calls' = [calls EXCEPT ![s] = @ + 1]
        /\ UNCHANGED <<chan, job, closed>>
    BY <1>7 DEF Invoke
  <2>2. \A t \in Offered : t[1] # s BY <2>1 DEF Offered
  <2>3. \/ Offered' = Offered \cup {<<s, calls'[s]>>}
        \/ closed /\ Offered' = Offered
    <3>1. \A r \in Submitters \ {s} : calls'[r] = calls[r]
      BY <1>1, <2>1 DEF TypeOK
    <3>2. CASE closed /\ UNCHANGED pc BY <2>1, <3>1, <3>2 DEF Offered
    <3>3. CASE Goto(s, "retrieve")
      <4>1. \A r \in Submitters : pc'[r] = IF r = s THEN "retrieve" ELSE pc[r]
        BY <1>1, <3>3 DEF Goto, TypeOK
      <4> QED BY <2>1, <3>1, <4>1 DEF Offered
    <3> QED BY <1>7, <3>2, <3>3 DEF Invoke
  <2> QED BY <1>5, <1>6, <2>1, <2>2, <2>3 DEF Promise!Offer
<1>8. ASSUME NEW s \in Submitters, pc[s] # "idle", Goto(s, "idle"),
             UNCHANGED calls
      PROVE  Offered' = Offered \ {<<s, calls[s]>>}
  <2>1. \A r \in Submitters : pc'[r] = IF r = s THEN "idle" ELSE pc[r]
    BY <1>1, <1>8 DEF Goto, TypeOK
  <2> QED BY <1>8, <2>1 DEF Offered
<1>9. ASSUME NEW s \in Submitters, pc[s] # "idle"
      PROVE  <<s, calls[s]>> \in Promise!Tasks /\ <<s, calls[s]>> \in Offered
  BY <1>3, <1>9, CurrentTask DEF Offered
<1>10. ASSUME NEW s \in Submitters, Wakened(s), closed
       PROVE  Promise!Refuse(<<s, calls[s]>>) /\ pc[s] # "idle"
  <2>1. /\ pc[s] # "idle" /\ Goto(s, "idle")
        /\ UNCHANGED <<calls, chan, job, closed>>
    BY <1>10 DEF Wakened
  <2> QED BY <1>5, <1>6, <1>8, <1>9, <1>10, <2>1 DEF Promise!Refuse
<1>11. ASSUME NEW s \in Submitters, InputParam(s)
       PROVE  Promise!Accept(<<s, calls[s]>>) /\ pc[s] # "idle"
  <2> DEFINE t == <<s, calls[s]>>
             w == mine[s]
  <2>1. /\ pc[s] # "idle" /\ Goto(s, "idle") /\ w \in Workers
        /\ UNCHANGED <<calls, job, closed>> /\ t \in Tasks
    BY <1>1, <1>11, CurrentTask DEF InputParam, CallInv
  <2>2. chan[w] = None /\ chan' = [chan EXCEPT ![w] = t]
    BY <1>11 DEF InputParam
  <2> HIDE DEF t, w
  <2>3. \A v \in Workers : chan'[v] = IF v = w THEN t ELSE chan[v]
    BY <1>1, <2>2 DEF TypeOK
  <2>4. Accepted' = Accepted \cup {t}
    BY <1>2, <2>1, <2>2, <2>3 DEF Accepted
  <2> QED BY <1>6, <1>8, <1>9, <2>1, <2>4 DEF t, Promise!Accept
<1>12. ASSUME UNCHANGED <<pc, calls>> PROVE Offered' = Offered
  BY <1>4, <1>12
<1>13. ASSUME NEW w \in Workers, Receive(w), chan[w] = Nil
       PROVE  UNCHANGED Promise!vars
  <2>1. UNCHANGED <<pc, calls, job, closed>> BY <1>13 DEF Receive
  <2>2. \A v \in Workers : chan'[v] = IF v = w THEN None ELSE chan[v]
    BY <1>1, <1>13 DEF Receive, TypeOK
  <2>3. Accepted' = Accepted BY <1>2, <1>13, <2>2 DEF Accepted
  <2> QED BY <1>6, <1>12, <2>1, <2>3 DEF Promise!vars
<1>14. ASSUME NEW w \in Workers, Receive(w), chan[w] # Nil
       PROVE  Promise!Start(chan[w]) /\ chan[w] \in Tasks
  <2>1. /\ UNCHANGED <<pc, calls, closed>> /\ wpc[w] = "recv"
        /\ chan[w] # None /\ job' = [job EXCEPT ![w] = chan[w]]
    BY <1>14 DEF Receive
  <2>2. chan[w] \in Tasks BY <1>1, <1>14, <2>1 DEF TypeOK
  <2>3. \A v \in Workers : chan'[v] = IF v = w THEN None ELSE chan[v]
    BY <1>1, <1>14 DEF Receive, TypeOK
  <2>4. \A v \in Workers : job'[v] = IF v = w THEN chan[w] ELSE job[v]
    BY <1>1, <2>1 DEF TypeOK
  <2>5. \A v \in Workers \ {w} : chan[v] # chan[w]
    BY <2>2 DEF TaskInv
  <2>6. Accepted' = Accepted \ {chan[w]} BY <1>2, <2>3, <2>5 DEF Accepted
  <2>7. job[w] = None BY <2>1 DEF TaskInv
  <2>8. Underway' = Underway \cup {chan[w]}
    BY <2>1, <2>4, <2>7 DEF Underway
  <2>9. Cardinality(Underway) < SpawnLimit
    BY <2>1, <2>7, UnderwayBounded DEF Live
  <2>10. Promise!Cardinality(Underway) < SpawnLimit
    BY <2>9 DEF Cardinality, Promise!Cardinality
  <2>11. chan[w] \in Accepted BY <2>2 DEF Accepted
  <2> QED BY <1>12, <2>1, <2>2, <2>6, <2>8, <2>10, <2>11 DEF Promise!Start
<1>15. ASSUME NEW w \in Workers, FinishTask(w)
       PROVE  Promise!Finish(job[w]) /\ job[w] \in Tasks
  <2>1. UNCHANGED <<pc, calls, chan, closed>> BY <1>15 DEF FinishTask
  <2>2. job[w] # None BY <1>15 DEF FinishTask, TaskInv
  <2>3. job[w] \in Tasks BY <1>1, <2>2 DEF TypeOK
  <2>4. \A v \in Workers : job'[v] = IF v = w THEN None ELSE job[v]
    BY <1>1, <1>15 DEF FinishTask, TypeOK
  <2>5. \A v \in Workers \ {w} : job[v] # job[w] BY <2>2 DEF TaskInv
  <2>6. Underway' = Underway \ {job[w]} BY <2>4, <2>5 DEF Underway
  <2>7. job[w] \in Underway BY <2>2 DEF Underway
  <2> QED BY <1>5, <1>12, <2>1, <2>3, <2>6, <2>7 DEF Promise!Finish
<1>16. ASSUME UNCHANGED <<pc, calls, job, closed>>,
              \A w \in Workers : chan'[w] = chan[w]
                               \/ (chan[w] = None /\ chan'[w] = Nil)
       PROVE  UNCHANGED Promise!vars
  <2>1. Accepted' = Accepted BY <1>2, <1>16 DEF Accepted
  <2> QED BY <1>6, <1>12, <1>16, <2>1 DEF Promise!vars
<1>17. CASE PurgeFinish
  <2>1. Head(stale) \in Workers BY <1>1, <1>17, TailHas DEF PurgeFinish, TypeOK
  <2>2. \A w \in Workers : chan'[w] = chan[w]
                         \/ (chan[w] = None /\ chan'[w] = Nil)
    BY <1>1, <1>17, <2>1 DEF PurgeFinish, TypeOK
  <2> QED BY <1>16, <1>17, <2>2 DEF PurgeFinish
<1>18. CASE ReleaseReset BY <1>16, <1>18 DEF ReleaseReset
<1>19. CASE Release BY <1>5, <1>6, <1>12, <1>19 DEF Release, Promise!Shut,
                                          Promise!Next
<1>20. CASE TaskFrame
  BY <1>4, <1>5, <1>6, <1>20 DEF TaskFrame, Promise!vars
<1>21. ASSUME NEW s \in Submitters,
              Invoke(s) \/ (Wakened(s) /\ closed) \/ InputParam(s)
       PROVE  Promise!Next
  <2>1. CASE Invoke(s) BY <1>7, <2>1 DEF Promise!Next
  <2>2. CASE Wakened(s) /\ closed BY <1>9, <1>10, <2>2 DEF Promise!Next
  <2>3. CASE InputParam(s) BY <1>9, <1>11, <2>3 DEF Promise!Next
  <2> QED BY <1>21, <2>1, <2>2, <2>3
<1>22. ASSUME NEW w \in Workers, Receive(w) \/ FinishTask(w)
       PROVE  Promise!Next \/ UNCHANGED Promise!vars
  <2>1. CASE Receive(w) /\ chan[w] # Nil
    BY <1>3, <1>14, <2>1 DEF Promise!Next
  <2>2. CASE FinishTask(w) BY <1>3, <1>15, <2>2 DEF Promise!Next
  <2> QED BY <1>13, <1>22, <2>1, <2>2
<1> QED BY <1>17, <1>18, <1>19, <1>20, <1>21, <1>22, TaskKinds

(* The tasks where they start.                                             *)
LEMMA InitTasks ==
  ASSUME Init
  PROVE  TaskInv /\ Promise!Init
<1>1. None \notin Tasks BY NamesAssumption
<1>2. TaskInv BY <1>1 DEF Init, TaskInv
<1>3. Promise!Init
  BY <1>1 DEF Init, Promise!Init, Offered, Accepted, Underway
<1> QED BY <1>2, <1>3

(* A task is never with two workers, nor in two channels, nor still to be  *)
(* sent by its caller when a worker has it.                                *)
THEOREM OnePlace == Spec => []TaskInv
<1>1. Init => TaskInv BY InitTasks
<1>2. IInv /\ TaskInv /\ [Next]_vars => TaskInv'
  BY TaskStep DEF IInv, TaskInv, vars, callerVars, workerVars, condVars
<1> QED BY <1>1, <1>2, Invariance, PTL DEF Spec

(* What the callers can rely on: the pool, with its workers, its stack and *)
(* its wake-ups, does only what Executor allows.  A task is accepted once, *)
(* refused only after Release, run by one worker, and no more of them run  *)
(* at a time than the capacity and the callers past its check.             *)
THEOREM ImplementsExecutor == Spec => Promise!Spec
<1>1. Init => Promise!Init BY InitTasks
<1>2. IInv /\ TaskInv /\ [Next]_vars => [Promise!Next]_(Promise!vars)
  <2>1. UNCHANGED vars => UNCHANGED Promise!vars
    BY DEF vars, callerVars, workerVars, condVars, releaseVars, Promise!vars,
           Offered, Accepted, Underway
  <2> QED BY <2>1, Simulates DEF IInv
<1> QED BY <1>1, <1>2, Invariance, OnePlace, PTL DEF Spec, Promise!Spec

(* A call of Invoke has been made for the task, and nobody has it: it has  *)
(* been refused, or it has ended.                                          *)
Gone(t) ==
  /\ t[2] <= calls[t[1]]
  /\ t \notin Offered \cup Accepted \cup Underway

(* A task that has ended, or has been refused, never comes back: it is not *)
(* run twice, however workers, purger and Release pass it on.              *)
THEOREM NeverAgain == Spec => [][\A t \in Tasks : Gone(t) => Gone(t)']_vars
<1> DEFINE Stays == \A t \in Tasks : Gone(t) => Gone(t)'
<1>1. IInv /\ TaskInv /\ Next => Stays
  <2> SUFFICES ASSUME IInv, TaskInv, Next, NEW t \in Tasks, Gone(t)
               PROVE  Gone(t)'
    OBVIOUS
  <2>1. calls \in [Submitters -> 0..MaxCalls]
    BY DEF IInv, RestInv, TypeOK
  <2>2. t[1] \in Submitters /\ t[2] \in Nat BY DEF Tasks
  <2>3. Promise!Next \/ UNCHANGED Promise!vars BY Simulates DEF IInv
  <2>4. CASE UNCHANGED Promise!vars BY <2>4 DEF Promise!vars, Gone
  <2>5. ASSUME NEW s \in Submitters, Promise!Offer(s) PROVE Gone(t)'
    <3>1. /\ calls' = [calls EXCEPT ![s] = @ + 1]
          /\ Offered' \subseteq Offered \cup {<<s, calls'[s]>>}
          /\ UNCHANGED <<Accepted, Underway>>
      BY <2>5 DEF Promise!Offer
    <3>2. t # <<s, calls'[s]>> /\ t[2] <= calls'[t[1]]
      BY <2>1, <2>2, <3>1 DEF Gone
    <3> QED BY <3>1, <3>2 DEF Gone
  <2>6. ASSUME NEW u \in Promise!Tasks,
               \/ Promise!Accept(u) \/ Promise!Refuse(u)
               \/ Promise!Start(u) \/ Promise!Finish(u)
        PROVE  Gone(t)'
    <3>1. CASE Promise!Accept(u) BY <3>1 DEF Promise!Accept, Gone
    <3>2. CASE Promise!Refuse(u) BY <3>2 DEF Promise!Refuse, Gone
    <3>3. CASE Promise!Start(u) BY <3>3 DEF Promise!Start, Gone
    <3>4. CASE Promise!Finish(u) BY <3>4 DEF Promise!Finish, Gone
    <3> QED BY <2>6, <3>1, <3>2, <3>3, <3>4
  <2>7. CASE Promise!Shut BY <2>7 DEF Promise!Shut, Gone
  <2> QED BY <2>3, <2>4, <2>5, <2>6, <2>7 DEF Promise!Next
<1>2. IInv /\ TaskInv /\ [Next]_vars => [Stays]_vars
  BY <1>1
<1> QED BY <1>2, Invariance, OnePlace, PTL DEF Spec
=============================================================================
