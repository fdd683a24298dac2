-------------------------- MODULE ClosurePoolProofs --------------------------
(***************************************************************************)
(* The invariants of ClosurePool for every number of callers, workers and  *)
(* restarts.  The steps of the callers, the workers, Release and Tune are  *)
(* steps of WorkerPool, and what WorkerPoolProofs shows of them is used    *)
(* here; so are the steps of the purger as long as there is one.  When     *)
(* there are two, what does not depend on the owners of the workers is     *)
(* still preserved.                                                        *)
(***************************************************************************)
EXTENDS ClosurePool, SequenceTheorems, TLAPS

(* The proofs about the pool with one purger, which is here the last one.  *)
P == INSTANCE WorkerPoolProofs WITH
  purger <- Phase, stale <- Held, dormant <- dormant[gen],
  stopped <- gen \in cancelled

Cells == Workers \cup {None}

(* What TypeOK says of the variables that WorkerPool does not have.        *)
OwnTypes ==
  /\ gen \in Gens
  /\ purgerAt \in [Gens -> {"off", "sleep", "refresh", "finish", "send",
                            "clear", "dead"}]
  /\ taken \in [Gens -> Cells]
  /\ dormant \in [Gens -> BOOLEAN]
  /\ arrays \in Seq(Seq(Cells)) /\ Len(arrays) >= 1
  /\ cancelled \subseteq Gens
  /\ early \in BOOLEAN /\ crashed \in BOOLEAN

Slices == [array : Nat \ {0}, next : Nat \ {0}, upto : Nat]

(* A slice lies within its array, is that of a purger that is with its     *)
(* workers, and has one left while one is being sent to or cleared.        *)
SliceInv ==
  /\ slice \in [Gens -> Slices]
  /\ \A g \in Gens :
       /\ slice[g].array <= Len(arrays)
       /\ slice[g].upto <= Len(arrays[slice[g].array])
       /\ purgerAt[g] \notin {"finish", "send", "clear"} =>
            slice[g] = NoSlice
       /\ purgerAt[g] \in {"send", "clear"} => slice[g].next <= slice[g].upto
       /\ purgerAt[g] = "send" => taken[g] \in Workers

(* The purgers up to gen have been started.                                *)
GenInv == \A g \in Gens : purgerAt[g] = "off" <=> g > gen

(* While no Reboot has come early: one purger, which has read what its     *)
(* slice says, and the owners.                                             *)
OneAtATime ==
  /\ \A g \in Gens : Running(g) => g = gen
  /\ purgerAt[gen] = "send" =>
       taken[gen] = arrays[slice[gen].array][slice[gen].next]
  /\ P!OneOwner /\ P!NotStranded /\ ~crashed

(* Inductive: the pool's invariant but for the owners does not depend on   *)
(* early, the owners do.                                                   *)
IInv ==
  /\ OwnTypes /\ SliceInv /\ GenInv
  /\ P!RestInv
  /\ ~early => OneAtATime

-----------------------------------------------------------------------------
(* WorkerPool seen through the model and through its proofs is one module. *)
LEMMA Assumptions ==
  P!CapAssumption /\ P!NamesAssumption /\ P!WorkersAssumption
  BY PoolAssumption
  DEF PoolAssumption, Pool!CapAssumption, Pool!NamesAssumption,
      Pool!WorkersAssumption, P!CapAssumption, P!NamesAssumption,
      P!WorkersAssumption, Pool!Tasks, P!Tasks, Cardinality,
      Pool!Cardinality, P!Cardinality, IsFiniteSet, Pool!IsFiniteSet,
      P!IsFiniteSet

(* The steps that no purger has a part in are steps of WorkerPool.         *)
LEMMA PoolSteps ==
  ASSUME UNCHANGED purgers,
         \/ \E s \in Submitters :
              \/ Pool!Invoke(s) \/ Pool!RetrieveWorker(s)
              \/ Pool!CheckCapacity(s) \/ Pool!Park(s) \/ Pool!Wakened(s)
              \/ Pool!SpawnWorker(s) \/ Pool!InputParam(s)
         \/ \E w \in Workers :
              \/ Pool!Receive(w) \/ Pool!FinishTask(w) \/ Pool!Exit(w)
              \/ Pool!RevertCheck(w) \/ Pool!RevertRefused(w)
              \/ Pool!RevertInsert(w)
         \/ Pool!ExitSignal \/ Pool!Release \/ Pool!ReleaseRest
         \/ \E n \in TuneSizes : Pool!Tune(n)
         \/ Pool!TuneWake
  PROVE  P!Next
<1> USE DEF Pool!callerVars, Pool!workerVars, Pool!condVars, Pool!capVars,
        Pool!releaseVars, Pool!purgeVars, Pool!Goto, Pool!Detach, Pool!Signal,
        Pool!Broadcast, P!callerVars, P!workerVars, P!condVars, P!capVars,
        P!releaseVars, P!purgeVars, P!Goto, P!Detach, P!Signal, P!Broadcast
<1>1. ASSUME NEW s \in Submitters,
             \/ Pool!Invoke(s) \/ Pool!RetrieveWorker(s)
             \/ Pool!CheckCapacity(s) \/ Pool!Park(s) \/ Pool!Wakened(s)
             \/ Pool!SpawnWorker(s) \/ Pool!InputParam(s)
      PROVE  P!Invoke(s) \/ P!Call(s)
  BY <1>1 DEF P!Call, Pool!Invoke, P!Invoke, Pool!RetrieveWorker,
              P!RetrieveWorker, Pool!CheckCapacity, P!CheckCapacity,
              Pool!Park, P!Park, Pool!Wakened, P!Wakened, Pool!SpawnWorker,
              P!SpawnWorker, Pool!InputParam, P!InputParam
<1>2. ASSUME NEW w \in Workers,
             \/ Pool!Receive(w) \/ Pool!FinishTask(w) \/ Pool!Exit(w)
             \/ Pool!RevertCheck(w) \/ Pool!RevertRefused(w)
             \/ Pool!RevertInsert(w)
      PROVE  P!Run(w)
  BY <1>2 DEF P!Run, Pool!Receive, P!Receive, Pool!FinishTask, P!FinishTask,
              Pool!Exit, P!Exit, Pool!RevertCheck, P!RevertCheck,
              Pool!RevertRefused, P!RevertRefused, Pool!RevertInsert,
              P!RevertInsert
<1>3. Pool!ExitSignal => P!ExitSignal BY DEF Pool!ExitSignal, P!ExitSignal
<1>4. Pool!Release => P!Release BY DEF Pool!Release, P!Release
<1>5. Pool!ReleaseRest => P!ReleaseRest
  BY DEF Pool!ReleaseRest, Pool!ReleaseReset, Pool!ReleaseBroadcast, Pool!Idle,
         P!ReleaseRest, P!ReleaseReset, P!ReleaseBroadcast, P!Idle
<1>6. \A n \in TuneSizes : Pool!Tune(n) => P!Tune(n)
  BY DEF Pool!Tune, P!Tune
<1>7. Pool!TuneWake => P!TuneWake BY DEF Pool!TuneWake, P!TuneWake
<1> QED BY <1>1, <1>2, <1>3, <1>4, <1>5, <1>6, <1>7 DEF P!Next

(* The steps of the callers, the workers, Release and Tune.                *)
Others ==
  \/ \E s \in Submitters : Submit(s) \/ RetrieveWorker(s) \/ InputFunc(s)
  \/ \E w \in Workers : Run(w) \/ RevertWorker(w)
  \/ ExitSignal \/ Release \/ Tune

(* Each of them is one of WorkerPool and leaves the purgers alone.         *)
LEMMA OthersArePool ==
  ASSUME Others
  PROVE  UNCHANGED purgers /\ P!Next
<1>1. UNCHANGED purgers
  BY DEF Others, Submit, RetrieveWorker, InputFunc, Run, RevertWorker,
         ExitSignal, Release, Tune
<1> QED
  BY <1>1, PoolSteps
  DEF Others, Submit, RetrieveWorker, InputFunc, Run, RevertWorker,
      ExitSignal, Release, Tune

-----------------------------------------------------------------------------
(* The arrays and what is cut out of them.                                 *)

(* What maps 1..n to values is a sequence of n of them.                    *)
LEMMA FunctionSeq ==
  ASSUME NEW n \in Nat, NEW S, NEW f \in [1..n -> S]
  PROVE  f \in Seq(S) /\ Len(f) = n
<1>1. f \in Seq(S) BY SeqDef
<1> QED BY <1>1, LenProperties

(* Writing in place or into a new array, refresh has its workers at the    *)
(* front of the last array, and no array is ever shorter than before.      *)
LEMMA AppendedHas ==
  ASSUME arrays \in Seq(Seq(Cells)), Len(arrays) >= 1,
         NEW ws \in Seq(Cells), NEW as, as = Appended(ws)
  PROVE  /\ as \in Seq(Seq(Cells)) /\ Len(as) >= Len(arrays)
         /\ \A a \in 1..Len(arrays) : Len(as[a]) >= Len(arrays[a])
         /\ Len(ws) <= Len(as[Len(as)])
         /\ \A i \in 1..Len(ws) : as[Len(as)][i] = ws[i]
<1> DEFINE n == Len(ws)
           l == Len(arrays)
           used == arrays[l]
           room == IF n > 2 * Len(used) THEN n ELSE 2 * Len(used)
           over == [i \in 1..Len(used) |-> IF i <= n THEN ws[i] ELSE used[i]]
           new == [i \in 1..room |-> IF i <= n THEN ws[i] ELSE None]
<1>1. l \in Nat /\ l >= 1 /\ n \in Nat BY LenProperties
<1>2. used \in Seq(Cells) /\ Len(used) \in Nat
  BY <1>1, ElementOfSeq, LenProperties
<1>3. \A i \in 1..n : ws[i] \in Cells BY ElementOfSeq
<1>4. \A i \in 1..Len(used) : used[i] \in Cells BY <1>2, ElementOfSeq
<1>5. CASE n <= Len(used)
  <2>1. over \in Seq(Cells) /\ Len(over) = Len(used)
    <3>1. \A i \in 1..Len(used) : (IF i <= n THEN ws[i] ELSE used[i]) \in Cells
      BY <1>1, <1>2, <1>3, <1>4
    <3>2. over \in [1..Len(used) -> Cells] BY <3>1
    <3> QED BY <1>2, <3>2, FunctionSeq
  <2>2. \A i \in 1..n : over[i] = ws[i] BY <1>1, <1>2, <1>5
  <2>3. as = [arrays EXCEPT ![l] = over] BY <1>5 DEF Appended
  <2> HIDE DEF over
  <2>4. /\ as \in Seq(Seq(Cells))
        /\ Len(as) = l
        /\ as[l] = over
        /\ \A a \in 1..l : a # l => as[a] = arrays[a]
    <3> DEFINE Rows == Seq(Cells)
    <3>1. l \in 1..Len(arrays) /\ over \in Rows /\ arrays \in Seq(Rows)
      BY <1>1, <2>1
    <3> HIDE DEF Rows
    <3>2. as \in Seq(Rows) /\ Len(as) = l
      <4>1. as \in [1..l -> Rows] BY <2>3, <3>1, LenProperties
      <4> QED BY <1>1, <4>1, FunctionSeq
    <3>3. as[l] = over BY <2>3, <3>1, LenProperties
    <3>4. \A a \in 1..l : a # l => as[a] = arrays[a]
      BY <2>3, <3>1, LenProperties
    <3> QED BY <3>2, <3>3, <3>4 DEF Rows
  <2>5. \A a \in 1..l : Len(arrays[a]) \in Nat
    BY ElementOfSeq, LenProperties
  <2>6. \A a \in 1..l : Len(as[a]) >= Len(arrays[a])
    <3>1. ASSUME NEW a \in 1..l PROVE Len(as[a]) >= Len(arrays[a])
      <4>1. Len(arrays[a]) \in Nat BY <2>5
      <4>2. CASE a = l BY <1>2, <2>1, <2>4, <4>1, <4>2
      <4>3. CASE a # l BY <2>4, <4>1, <4>3
      <4> QED BY <4>2, <4>3
    <3> QED BY <3>1
  <2> QED BY <1>1, <1>5, <2>1, <2>2, <2>4, <2>6
<1>6. CASE n > Len(used)
  <2>1. room \in Nat /\ n <= room BY <1>1, <1>2, <1>6
  <2>2. new \in Seq(Cells) /\ Len(new) = room
    <3>1. \A i \in 1..room : (IF i <= n THEN ws[i] ELSE None) \in Cells
      BY <1>1, <2>1, <1>3 DEF Cells
    <3> HIDE DEF room
    <3>2. new \in [1..room -> Cells] BY <3>1
    <3> QED BY <2>1, <3>2, FunctionSeq
  <2>3. \A i \in 1..n : new[i] = ws[i]
    <3> HIDE DEF room
    <3> QED BY <1>1, <2>1
  <2>4. as = Append(arrays, new)
    BY <1>1, <1>2, <1>6 DEF Appended
  <2> HIDE DEF new, room
  <2>5. /\ Append(arrays, new) \in Seq(Seq(Cells))
        /\ Len(Append(arrays, new)) = l + 1
        /\ \A a \in 1..l : Append(arrays, new)[a] = arrays[a]
        /\ Append(arrays, new)[l + 1] = new
    BY <2>2, AppendProperties
  <2>6. \A a \in 1..l : Len(arrays[a]) \in Nat
    BY ElementOfSeq, LenProperties
  <2> QED BY <1>1, <2>1, <2>2, <2>3, <2>4, <2>5, <2>6
<1>7. n <= Len(used) \/ n > Len(used) BY <1>1, <1>2
<1> QED BY <1>5, <1>6, <1>7

(* A cell is set to nil.                                                   *)
Cleared(a, n) == [arrays EXCEPT ![a][n] = None]

(* No array gets shorter, and the other cells are left.                    *)
LEMMA ClearedHas ==
  ASSUME arrays \in Seq(Seq(Cells)), NEW a \in 1..Len(arrays),
         NEW n \in 1..Len(arrays[a]), NEW as,
         as = Cleared(a, n)
  PROVE  /\ as \in Seq(Seq(Cells)) /\ Len(as) = Len(arrays)
         /\ \A b \in 1..Len(arrays) : Len(as[b]) = Len(arrays[b])
         /\ \A j \in 1..Len(arrays[a]) : j # n => as[a][j] = arrays[a][j]
<1> DEFINE row == arrays[a]
           cut == [row EXCEPT ![n] = None]
<1>1. /\ Len(arrays) \in Nat /\ DOMAIN arrays = 1..Len(arrays)
      /\ \A b \in 1..Len(arrays) : arrays[b] \in Seq(Cells)
  BY LenProperties, ElementOfSeq
<1>2. /\ row \in Seq(Cells) /\ Len(row) \in Nat
      /\ DOMAIN row = 1..Len(row) /\ row \in [1..Len(row) -> Cells]
  BY <1>1, LenProperties
<1>3. cut \in [1..Len(row) -> Cells] BY <1>2 DEF Cells
<1>4. cut \in Seq(Cells) /\ Len(cut) = Len(row) BY <1>2, <1>3, FunctionSeq
<1>5. \A j \in 1..Len(row) : j # n => cut[j] = row[j] BY <1>2
<1>6. as = [arrays EXCEPT ![a] = cut] BY DEF Cleared
<1> HIDE DEF cut, row
<1>7. as[a] = cut /\ \A b \in 1..Len(arrays) : b # a => as[b] = arrays[b]
  BY <1>1, <1>6
<1>8. as \in [1..Len(arrays) -> Seq(Cells)] BY <1>1, <1>4, <1>6
<1>9. as \in Seq(Seq(Cells)) /\ Len(as) = Len(arrays)
  BY <1>1, <1>8, FunctionSeq
<1>10. \A b \in 1..Len(arrays) : Len(as[b]) = Len(arrays[b])
  BY <1>4, <1>7 DEF row
<1> QED BY <1>5, <1>7, <1>9, <1>10 DEF row

(* The rest of a slice is the next of its workers and those after it.      *)
LEMMA SliceHas ==
  ASSUME NEW q \in Seq(Cells), NEW m \in Nat \ {0}, NEW u \in Nat,
         u <= Len(q)
  PROVE  /\ m > u <=> SubSeq(q, m, u) = << >>
         /\ m <= u => /\ Head(SubSeq(q, m, u)) = q[m]
                      /\ Tail(SubSeq(q, m, u)) = SubSeq(q, m + 1, u)
<1>1. Len(q) \in Nat /\ \A i \in 1..Len(q) : q[i] \in Cells
  BY LenProperties, ElementOfSeq
<1>2. /\ SubSeq(q, m, u) \in Seq(Cells)
      /\ Len(SubSeq(q, m, u)) = IF m <= u THEN u - m + 1 ELSE 0
      /\ \A i \in 1..(u - m + 1) : SubSeq(q, m, u)[i] = q[m + i - 1]
  BY <1>1, SubSeqProperties
<1>3. /\ SubSeq(q, m + 1, u) \in Seq(Cells)
      /\ Len(SubSeq(q, m + 1, u)) = IF m + 1 <= u THEN u - m ELSE 0
      /\ \A i \in 1..(u - m) : SubSeq(q, m + 1, u)[i] = q[m + i]
  <2>1. \A i \in (m + 1)..u : q[i] \in Cells BY <1>1
  <2>2. u - (m + 1) + 1 = u - m /\ \A i \in 1..(u - m) : m + 1 + i - 1 = m + i
    OBVIOUS
  <2> QED BY <2>1, <2>2, SubSeqProperties
<1>4. m > u <=> SubSeq(q, m, u) = << >> BY <1>2, EmptySeq
<1>5. ASSUME m <= u
      PROVE  /\ Head(SubSeq(q, m, u)) = q[m]
             /\ Tail(SubSeq(q, m, u)) = SubSeq(q, m + 1, u)
  <2> DEFINE whole == SubSeq(q, m, u)
             rest == SubSeq(q, m + 1, u)
  <2>1. whole # << >> BY <1>4, <1>5
  <2>2. /\ Head(whole) = whole[1] /\ Tail(whole) \in Seq(Cells)
        /\ Len(Tail(whole)) = Len(whole) - 1
        /\ \A i \in 1..(Len(whole) - 1) : Tail(whole)[i] = whole[i + 1]
    BY <1>2, <2>1, HeadTailProperties
  <2>3. whole[1] = q[m] BY <1>2, <1>5
  <2>4. Len(rest) = u - m /\ Len(whole) = u - m + 1 BY <1>2, <1>3, <1>5
  <2>5. ASSUME NEW i \in 1..(u - m) PROVE Tail(whole)[i] = rest[i]
    <3>1. i \in 1..(Len(whole) - 1) /\ i + 1 \in 1..(u - m + 1) BY <2>4
    <3>2. Tail(whole)[i] = q[m + (i + 1) - 1] BY <1>2, <2>2, <3>1
    <3> QED BY <1>3, <3>2
  <2> HIDE DEF whole, rest
  <2>6. Len(Tail(whole)) = u - m BY <2>2, <2>4
  <2>7. rest \in Seq(Cells) BY <1>3 DEF rest
  <2>8. Tail(whole) = rest BY <2>2, <2>4, <2>5, <2>6, <2>7, SeqEqual
  <2> QED BY <2>2, <2>3, <2>8 DEF whole, rest
<1> QED BY <1>4, <1>5

-----------------------------------------------------------------------------
(* The purgers' own state.                                                 *)

(* The array a purger reads is one of the arrays, and is long enough.      *)
LEMMA RowOf ==
  ASSUME OwnTypes, SliceInv, NEW g \in Gens
  PROVE  /\ slice[g] \in Slices
         /\ slice[g].array \in 1..Len(arrays)
         /\ arrays[slice[g].array] \in Seq(Cells)
         /\ Len(arrays) \in Nat /\ Len(arrays[slice[g].array]) \in Nat
         /\ slice[g].upto <= Len(arrays[slice[g].array])
<1>1. slice[g] \in Slices /\ slice[g].array <= Len(arrays)
      /\ slice[g].upto <= Len(arrays[slice[g].array])
  BY DEF SliceInv
<1>2. Len(arrays) \in Nat BY LenProperties DEF OwnTypes
<1>3. slice[g].array \in 1..Len(arrays) BY <1>1, <1>2 DEF Slices
<1>4. arrays[slice[g].array] \in Seq(Cells)
  BY <1>3, ElementOfSeq DEF OwnTypes
<1> QED BY <1>1, <1>2, <1>3, <1>4, LenProperties

(* A step that leaves the arrays and the slices alone.                     *)
LEMMA MoveOwn ==
  ASSUME OwnTypes, SliceInv, GenInv, NEW g \in Gens, NEW place,
         UNCHANGED <<gen, cancelled, early, slice, arrays>>,
         crashed' \in BOOLEAN, dormant' \in [Gens -> BOOLEAN],
         purgerAt[g] # "off", PurgeGoto(g, place),
         \/ /\ place \in {"sleep", "refresh", "dead"} /\ UNCHANGED taken
            /\ slice[g] = NoSlice
         \/ /\ place = "send" /\ slice[g].next <= slice[g].upto
            /\ \E w \in Workers : taken' = [taken EXCEPT ![g] = w]
         \/ /\ place = "clear" /\ slice[g].next <= slice[g].upto
            /\ taken' = [taken EXCEPT ![g] = None]
  PROVE  OwnTypes' /\ SliceInv' /\ GenInv'
<1>1. OwnTypes' BY DEF OwnTypes, PurgeGoto, Cells
<1>2. \A h \in Gens : purgerAt'[h] = IF h = g THEN place ELSE purgerAt[h]
  BY DEF OwnTypes, PurgeGoto
<1>3. GenInv' BY <1>2 DEF GenInv
<1>4. \A h \in Gens : purgerAt'[h] = "send" => taken'[h] \in Workers
  BY <1>2 DEF OwnTypes, SliceInv
<1>5. SliceInv' BY <1>2, <1>4 DEF SliceInv
<1> QED BY <1>1, <1>3, <1>5

(* Each step of a purger keeps its own state in order.                     *)
LEMMA OwnStep ==
  ASSUME IInv, NEW g \in Gens, Purge(g)
  PROVE  OwnTypes' /\ SliceInv' /\ GenInv'
<1>1. OwnTypes /\ SliceInv /\ GenInv BY DEF IInv
<1>2. purgerAt[g] # "off"
  BY DEF Purge, PurgeTick, PurgeStopped, PurgeRefresh, PurgeNext, PurgeFinish,
         PurgeClear, PurgeWake
<1>3. CASE PurgeTick(g)
  BY <1>1, <1>2, <1>3, MoveOwn DEF PurgeTick, cells, SliceInv, OwnTypes
<1>4. CASE PurgeStopped(g)
  BY <1>1, <1>2, <1>4, MoveOwn DEF PurgeStopped, cells, SliceInv, OwnTypes
<1>5. CASE PurgeNext(g)
  <2> DEFINE w == arrays[slice[g].array][slice[g].next]
  <2>1. UNCHANGED <<gen, cancelled, early, slice, arrays, dormant>>
        /\ slice[g].next <= slice[g].upto /\ purgerAt[g] = "finish"
    BY <1>5 DEF PurgeNext
  <2>2. CASE w = None
    BY <1>1, <1>5, <2>1, <2>2 DEF PurgeNext, OwnTypes, SliceInv, GenInv
  <2>3. CASE w # None
    <3>1. slice[g].next \in 1..Len(arrays[slice[g].array])
      BY <1>1, <2>1, RowOf DEF Slices
    <3>2. w \in Workers BY <1>1, <2>3, <3>1, RowOf, ElementOfSeq DEF Cells
    <3>3. taken' = [taken EXCEPT ![g] = w] /\ PurgeGoto(g, "send")
          /\ UNCHANGED crashed
      BY <1>5, <2>3 DEF PurgeNext
    <3> HIDE DEF w
    <3> QED BY <1>1, <1>2, <2>1, <3>2, <3>3, MoveOwn DEF OwnTypes
  <2> QED BY <2>2, <2>3
<1>6. CASE PurgeFinish(g)
  BY <1>1, <1>2, <1>6, MoveOwn DEF PurgeFinish, SliceInv, OwnTypes
<1>7. CASE PurgeRefresh(g)
  <2>1. PICK k \in Pool!Expired :
          /\ arrays' = IF k = 0 THEN arrays ELSE Appended(SubSeq(items, 1, k))
          /\ slice' = [slice EXCEPT ![g] = IF k = 0 THEN NoSlice ELSE
                         [array |-> Len(arrays'), next |-> 1, upto |-> k]]
          /\ dormant' = [dormant EXCEPT ![g] = running \in {0, k}]
    BY <1>7 DEF PurgeRefresh
  <2>2. PurgeGoto(g, "finish") /\ UNCHANGED <<gen, taken, cancelled, early,
                                              crashed>>
    BY <1>7 DEF PurgeRefresh
  <2>3. items \in Seq(Workers) /\ k \in 0..Len(items)
    <3>1. items \in Seq(Workers) BY DEF IInv, P!RestInv, P!TypeOK
    <3> QED BY <3>1, LenProperties DEF Pool!Expired
  <2>4. SubSeq(items, 1, k) \in Seq(Cells) /\ Len(SubSeq(items, 1, k)) = k
    <3>1. Len(items) \in Nat BY <2>3, LenProperties
    <3>2. \A i \in 1..k : items[i] \in Cells
      BY <2>3, <3>1, ElementOfSeq DEF Cells
    <3> QED BY <2>3, <3>1, <3>2, SubSeqProperties
  <2>5. Len(arrays) \in Nat /\ \A a \in 1..Len(arrays) : Len(arrays[a]) \in Nat
    BY <1>1, ElementOfSeq, LenProperties DEF OwnTypes
  <2>6. /\ arrays' \in Seq(Seq(Cells)) /\ Len(arrays') >= Len(arrays)
        /\ \A a \in 1..Len(arrays) : Len(arrays'[a]) >= Len(arrays[a])
        /\ k # 0 => k <= Len(arrays'[Len(arrays')])
    <3>1. CASE k = 0 BY <1>1, <2>1, <2>5, <3>1 DEF OwnTypes
    <3>2. CASE k # 0
      BY <1>1, <2>1, <2>4, <3>2, AppendedHas DEF OwnTypes
    <3> QED BY <3>1, <3>2
  <2>7. \A a \in 1..Len(arrays') : Len(arrays'[a]) \in Nat
    BY <2>6, ElementOfSeq, LenProperties
  <2>8. Len(arrays') \in Nat /\ Len(arrays') >= 1
    BY <1>1, <2>5, <2>6, LenProperties DEF OwnTypes
  <2>9. \A h \in Gens : purgerAt'[h] = IF h = g THEN "finish" ELSE purgerAt[h]
    BY <1>1, <2>2 DEF OwnTypes, PurgeGoto
  <2>10. OwnTypes' BY <1>1, <2>1, <2>2, <2>6, <2>8 DEF OwnTypes, PurgeGoto
  <2>11. GenInv' BY <1>1, <1>2, <2>2, <2>9 DEF GenInv
  <2>12. /\ slice'[g] \in Slices /\ slice'[g].array <= Len(arrays')
         /\ slice'[g].upto <= Len(arrays'[slice'[g].array])
    <3>1. CASE k = 0
      <4>1. slice'[g] = NoSlice BY <1>1, <2>1, <3>1 DEF SliceInv
      <4> QED BY <2>7, <2>8, <4>1 DEF NoSlice, Slices
    <3>2. CASE k # 0
      <4>1. slice'[g] = [array |-> Len(arrays'), next |-> 1, upto |-> k]
        BY <1>1, <2>1, <3>2 DEF SliceInv
      <4> QED BY <2>3, <2>6, <2>8, <3>2, <4>1 DEF Slices
    <3> QED BY <3>1, <3>2
  <2>13. ASSUME NEW h \in Gens, h # g
         PROVE  /\ slice'[h] = slice[h] /\ slice'[h].array <= Len(arrays')
                /\ slice'[h].upto <= Len(arrays'[slice'[h].array])
    <3>1. slice'[h] = slice[h] BY <1>1, <2>1, <2>13 DEF SliceInv
    <3>2. /\ slice[h].array \in 1..Len(arrays) /\ slice[h].upto \in Nat
          /\ slice[h].upto <= Len(arrays[slice[h].array])
      BY <1>1, RowOf DEF Slices
    <3>3. slice[h].array \in 1..Len(arrays') BY <2>5, <2>6, <2>8, <3>2
    <3> QED BY <2>5, <2>6, <2>7, <2>8, <3>1, <3>2, <3>3
  <2>14. slice' \in [Gens -> Slices]
    BY <1>1, <2>1, <2>12 DEF SliceInv
  <2>15. SliceInv'
    BY <1>1, <2>2, <2>9, <2>12, <2>13, <2>14 DEF SliceInv
  <2> QED BY <2>10, <2>11, <2>15
<1>8. CASE PurgeClear(g)
  <2> DEFINE a == slice[g].array
             n == slice[g].next
  <2>1. /\ purgerAt[g] = "clear"
        /\ arrays' = [arrays EXCEPT ![a][n] = None]
        /\ slice' = [slice EXCEPT ![g].next = @ + 1]
        /\ PurgeGoto(g, "finish")
        /\ UNCHANGED <<gen, dormant, cancelled, early, crashed, taken>>
    BY <1>8 DEF PurgeClear
  <2>2. /\ a \in 1..Len(arrays) /\ n \in Nat \ {0} /\ slice[g].upto \in Nat
        /\ n <= slice[g].upto /\ n \in 1..Len(arrays[a])
    BY <1>1, <2>1, RowOf DEF Slices, SliceInv
  <2>3. /\ arrays' \in Seq(Seq(Cells)) /\ Len(arrays') = Len(arrays)
        /\ \A b \in 1..Len(arrays) : Len(arrays'[b]) = Len(arrays[b])
    <3>1. arrays \in Seq(Seq(Cells)) BY <1>1 DEF OwnTypes
    <3>2. arrays' = Cleared(a, n) BY <2>1 DEF Cleared
    <3>3. a \in 1..Len(arrays) /\ n \in 1..Len(arrays[a]) BY <2>2
    <3> HIDE DEF a, n
    <3> QED BY <3>1, <3>2, <3>3, ClearedHas
  <2>4. \A h \in Gens : purgerAt'[h] = IF h = g THEN "finish" ELSE purgerAt[h]
    BY <1>1, <2>1 DEF OwnTypes, PurgeGoto
  <2>5. OwnTypes' BY <1>1, <2>1, <2>3 DEF OwnTypes, PurgeGoto
  <2>6. GenInv' BY <1>1, <1>2, <2>1, <2>4 DEF GenInv
  <2>7. /\ slice' \in [Gens -> Slices]
        /\ \A h \in Gens : /\ slice'[h].array = slice[h].array
                           /\ slice'[h].upto = slice[h].upto
                           /\ h # g => slice'[h] = slice[h]
    <3> DEFINE next == [slice[g] EXCEPT !.next = @ + 1]
    <3>1. slice' = [slice EXCEPT ![g] = next] BY <2>1
    <3>2. slice \in [Gens -> Slices] BY <1>1 DEF SliceInv
    <3>3. /\ next \in Slices /\ next.array = slice[g].array
          /\ next.upto = slice[g].upto
      BY <2>2, <3>2 DEF Slices
    <3> HIDE DEF next
    <3> QED BY <3>1, <3>2, <3>3
  <2>8. \A h \in Gens : /\ slice'[h].array <= Len(arrays')
                        /\ slice'[h].upto <= Len(arrays'[slice'[h].array])
    BY <1>1, <2>3, <2>7, RowOf
  <2>9. SliceInv' BY <1>1, <2>1, <2>4, <2>7, <2>8 DEF SliceInv
  <2> QED BY <2>5, <2>6, <2>9
<1>9. CASE PurgeWake(g)
  <2>1. /\ slice' = [slice EXCEPT ![g] = NoSlice]
        /\ PurgeGoto(g, "sleep") /\ dormant' = [dormant EXCEPT ![g] = FALSE]
        /\ UNCHANGED <<gen, cancelled, early, crashed, taken, arrays>>
    BY <1>9 DEF PurgeWake
  <2>2. \A h \in Gens : purgerAt'[h] = IF h = g THEN "sleep" ELSE purgerAt[h]
    BY <1>1, <2>1 DEF OwnTypes, PurgeGoto
  <2>3. OwnTypes' BY <1>1, <2>1 DEF OwnTypes, PurgeGoto
  <2>4. GenInv' BY <1>1, <1>2, <2>1, <2>2 DEF GenInv
  <2>5. 1 <= Len(arrays) /\ Len(arrays) \in Nat /\ Len(arrays[1]) \in Nat
    BY <1>1, LenProperties, ElementOfSeq DEF OwnTypes
  <2>6. SliceInv'
    BY <1>1, <2>1, <2>2, <2>5 DEF SliceInv, Slices, NoSlice
  <2> QED BY <2>3, <2>4, <2>6
<1> QED
  BY <1>3, <1>4, <1>5, <1>6, <1>7, <1>8, <1>9 DEF Purge

-----------------------------------------------------------------------------
(* One purger: its steps are WorkerPool's, or are not seen there.          *)

(* A purger that is not with its slice holds nothing, now or next.         *)
LEMMA HeldNone ==
  /\ early \/ slice[gen] = NoSlice => Held = << >>
  /\ early' \/ slice'[gen'] = NoSlice => Held' = << >>
<1>1. \A q : SubSeq(q, 1, 0) = << >> /\ SubSeq(q, 2, 0) = << >>
  BY SubSeqEmpty
<1>2. NoSlice.next = 1 /\ NoSlice.upto = 0 /\ NoSlice.next + 1 = 2
  BY DEF NoSlice
<1>3. ASSUME early \/ slice[gen] = NoSlice PROVE Held = << >>
  BY <1>1, <1>2, <1>3 DEF Held
<1>4. ASSUME early' \/ slice'[gen'] = NoSlice PROVE Held' = << >>
  BY <1>1, <1>2, <1>4 DEF Held
<1> QED BY <1>3, <1>4

(* What the last purger holds next, when there is one purger.              *)
LEMMA HeldSome ==
  ASSUME ~early', gen' = gen
  PROVE  LET s == slice'[gen]
             row == arrays'[s.array] IN
         /\ purgerAt'[gen] # "clear" => Held' = SubSeq(row, s.next, s.upto)
         /\ purgerAt'[gen] = "clear" => Held' = SubSeq(row, s.next + 1, s.upto)
  BY DEF Held

(* As long as there is one purger, each of its steps keeps WorkerPool's    *)
(* invariant, the part about the owners included, and it does not panic.   *)
LEMMA OneStep ==
  ASSUME IInv, ~early, NEW g \in Gens, Purge(g)
  PROVE  [P!Next]_(P!vars) /\ P!IInv' /\ OneAtATime'
<1> DEFINE s == slice[gen]
           row == arrays[s.array]
<1>1. OwnTypes /\ SliceInv /\ GenInv /\ OneAtATime /\ P!IInv
  BY DEF IInv, OneAtATime, P!IInv
<1>2. OwnTypes' /\ SliceInv' BY OwnStep
<1>3. g = gen /\ gen \in Gens
  BY <1>1 DEF OwnTypes, OneAtATime, Running, Purge, PurgeTick, PurgeStopped,
       PurgeRefresh, PurgeNext, PurgeFinish, PurgeClear, PurgeWake
<1>4. gen' = gen /\ early' = early /\ cancelled' = cancelled
  BY DEF Purge, PurgeTick, PurgeStopped, PurgeRefresh, PurgeNext, PurgeFinish,
         PurgeClear, PurgeWake
<1>5. \A h \in Gens : h # gen => purgerAt'[h] = purgerAt[h]
  BY <1>1, <1>3 DEF OwnTypes, PurgeGoto, Purge, PurgeTick, PurgeStopped,
       PurgeRefresh, PurgeNext, PurgeFinish, PurgeClear, PurgeWake
<1>6. row \in Seq(Cells) /\ s.next \in Nat \ {0} /\ s.upto \in Nat
      /\ s.upto <= Len(row) /\ Len(row) \in Nat /\ Len(arrays) \in Nat
      /\ s.array \in 1..Len(arrays)
  BY <1>1, <1>3, RowOf DEF Slices
<1>7. Held \in Seq(Workers) BY <1>1 DEF P!IInv, P!RestInv, P!TypeOK
<1>8. SUFFICES /\ [P!Next]_(P!vars)
               /\ crashed' = FALSE
               /\ purgerAt'[gen] = "send" =>
                    taken'[gen] = arrays'[slice'[gen].array][slice'[gen].next]
  <2>1. ASSUME [P!Next]_(P!vars) PROVE P!IInv'
    BY <1>1, <2>1, Assumptions, P!StepIInv
  <2> QED BY <1>1, <1>4, <1>5, <2>1 DEF OneAtATime, P!IInv, Running
<1> USE DEF P!callerVars, P!workerVars, P!condVars, P!capVars,
        P!releaseVars, P!purgeVars, submits, works, counts, states, cells
<1>9. CASE PurgeTick(gen)
  <2>1. purgerAt'[gen] = IF closed THEN "dead" ELSE "refresh"
    BY <1>1, <1>3, <1>9 DEF PurgeTick, PurgeGoto, OwnTypes
  <2>2. s = NoSlice /\ slice' = slice
    BY <1>1, <1>3, <1>9 DEF PurgeTick, SliceInv
  <2>3. Held = << >> /\ Held' = << >>
    BY <1>1, <1>2, <1>4, <2>2, HeldNone
  <2>4. P!PurgeTick
    BY <1>4, <1>9, <2>1, <2>3 DEF PurgeTick, P!PurgeTick, Phase
  <2> QED BY <1>1, <1>9, <2>1, <2>4 DEF PurgeTick, P!Next, P!Purge, OneAtATime
<1>10. CASE PurgeStopped(gen)
  <2>1. purgerAt'[gen] = "dead"
    BY <1>1, <1>3, <1>10 DEF PurgeStopped, PurgeGoto, OwnTypes
  <2>2. s = NoSlice /\ slice' = slice
    BY <1>1, <1>3, <1>10 DEF PurgeStopped, SliceInv
  <2>3. Held = << >> /\ Held' = << >>
    BY <1>1, <1>2, <1>4, <2>2, HeldNone
  <2>4. P!PurgeStopped
    BY <1>4, <1>10, <2>1, <2>3 DEF PurgeStopped, P!PurgeStopped, Phase
  <2> QED
    BY <1>1, <1>10, <2>1, <2>4 DEF PurgeStopped, P!Next, P!Purge, OneAtATime
<1>11. CASE PurgeRefresh(gen)
  <2>1. PICK k \in Pool!Expired :
          /\ arrays' = IF k = 0 THEN arrays ELSE Appended(SubSeq(items, 1, k))
          /\ slice' = [slice EXCEPT ![gen] = IF k = 0 THEN NoSlice ELSE
                         [array |-> Len(arrays'), next |-> 1, upto |-> k]]
          /\ items' = SubSeq(items, k + 1, Len(items))
          /\ dormant' = [dormant EXCEPT ![gen] = running \in {0, k}]
    BY <1>11 DEF PurgeRefresh
  <2>2. purgerAt[gen] = "refresh" /\ purgerAt'[gen] = "finish"
    BY <1>1, <1>3, <1>11 DEF PurgeRefresh, PurgeGoto, OwnTypes
  <2>3. items \in Seq(Workers) /\ Len(items) \in Nat /\ k \in 0..Len(items)
    <3>1. items \in Seq(Workers) BY <1>1 DEF P!IInv, P!RestInv, P!TypeOK
    <3> QED BY <3>1, LenProperties DEF Pool!Expired
  <2>4. /\ SubSeq(items, 1, k) \in Seq(Cells)
        /\ Len(SubSeq(items, 1, k)) = k
        /\ \A i \in 1..k : items[i] \in Cells
        /\ \A i \in 1..k : SubSeq(items, 1, k)[i] = items[i]
    <3>1. \A i \in 1..k : items[i] \in Cells
      BY <2>3, ElementOfSeq DEF Cells
    <3> QED BY <2>3, <3>1, SubSeqProperties
  <2>5. Held' = SubSeq(items, 1, k)
    <3>1. CASE k = 0
      <4>1. slice'[gen] = NoSlice BY <1>1, <1>3, <2>1, <3>1 DEF SliceInv
      <4>2. Held' = << >> BY <1>2, <1>4, <4>1, HeldNone
      <4> QED BY <3>1, <4>2, SubSeqEmpty
    <3>2. CASE k # 0
      <4> DEFINE l == Len(arrays')
                 new == arrays'[l]
      <4>1. slice'[gen] = [array |-> l, next |-> 1, upto |-> k]
        BY <1>1, <1>3, <2>1, <3>2 DEF SliceInv
      <4>2. Held' = SubSeq(new, 1, k)
        BY <1>4, <2>2, <4>1, HeldSome
      <4>3. k <= Len(new) /\ \A i \in 1..k : new[i] = items[i]
        <5> DEFINE ws == SubSeq(items, 1, k)
        <5>1. arrays' = Appended(ws) /\ ws \in Seq(Cells) /\ Len(ws) = k
          BY <2>1, <2>4, <3>2
        <5>2. arrays \in Seq(Seq(Cells)) /\ Len(arrays) >= 1
          BY <1>1 DEF OwnTypes
        <5>3. \A i \in 1..k : ws[i] = items[i] BY <2>4
        <5> HIDE DEF ws
        <5>4. Len(ws) <= Len(new) /\ \A i \in 1..Len(ws) : new[i] = ws[i]
          BY <5>1, <5>2, AppendedHas
        <5> QED BY <5>1, <5>3, <5>4
      <4> HIDE DEF l, new
      <4>4. \A i \in 1..k : new[i] \in Cells BY <2>4, <4>3
      <4>5. /\ SubSeq(new, 1, k) \in Seq(Cells)
            /\ Len(SubSeq(new, 1, k)) = k
            /\ \A i \in 1..k : SubSeq(new, 1, k)[i] = new[i]
        BY <2>3, <4>4, SubSeqProperties
      <4>6. SubSeq(new, 1, k) = SubSeq(items, 1, k)
        BY <2>4, <4>3, <4>5, SeqEqual
      <4> QED BY <4>2, <4>6
    <3> QED BY <3>1, <3>2
  <2>6. k \in P!Expired BY DEF Pool!Expired, P!Expired
  <2>7. dormant'[gen] = (running \in {0, k})
    BY <1>1, <1>3, <2>1 DEF OwnTypes
  <2>8. P!PurgeRefresh
    BY <1>4, <1>11, <2>1, <2>2, <2>5, <2>6, <2>7
    DEF PurgeRefresh, P!PurgeRefresh, Phase
  <2> QED
    BY <1>1, <1>11, <2>2, <2>8 DEF PurgeRefresh, P!Next, P!Purge, OneAtATime
<1>12. CASE PurgeNext(gen)
  <2> DEFINE w == row[s.next]
  <2>1. /\ purgerAt[gen] = "finish" /\ s.next <= s.upto
        /\ UNCHANGED <<submits, works, counts, states, lock, items, gen,
                       dormant, cancelled, early, slice, arrays>>
    BY <1>12 DEF PurgeNext
  <2>2. Held = SubSeq(row, s.next, s.upto) BY <2>1 DEF Held
  <2>3. Held # << >> /\ Head(Held) = w BY <1>6, <2>1, <2>2, SliceHas
  <2>4. w \in Workers BY <1>7, <2>3, HeadTailProperties
  <2>5. w # None BY <2>4, PoolAssumption DEF PoolAssumption, Pool!NamesAssumption
  <2>6. /\ taken' = [taken EXCEPT ![gen] = w] /\ PurgeGoto(gen, "send")
        /\ UNCHANGED crashed
    BY <1>12, <2>5 DEF PurgeNext
  <2>7. purgerAt'[gen] = "send" /\ taken'[gen] = w
    BY <1>1, <1>3, <2>6 DEF PurgeGoto, OwnTypes
  <2>8. Held' = SubSeq(row, s.next, s.upto)
    BY <1>4, <2>1, <2>7, HeldSome
  <2>9. UNCHANGED P!vars
    BY <2>1, <2>2, <2>7, <2>8 DEF P!vars, Phase
  <2> QED BY <1>1, <2>1, <2>6, <2>7, <2>9 DEF OneAtATime
<1>13. CASE PurgeFinish(gen)
  <2> DEFINE w == row[s.next]
  <2>1. /\ purgerAt[gen] = "send" /\ chan[taken[gen]] = None
        /\ chan' = [chan EXCEPT ![taken[gen]] = Nil]
        /\ UNCHANGED <<submits, wpc, wseen, job, exiting, counts, states,
                       lock, items, gen, dormant, cancelled, early, crashed,
                       slice, arrays>>
    BY <1>13 DEF PurgeFinish
  <2>2. s.next <= s.upto BY <1>1, <1>3, <2>1 DEF SliceInv
  <2>3. taken[gen] = w BY <1>1, <2>1 DEF OneAtATime
  <2>4. Held = SubSeq(row, s.next, s.upto) BY <2>1 DEF Held
  <2>5. Held # << >> /\ Head(Held) = w
        /\ Tail(Held) = SubSeq(row, s.next + 1, s.upto)
    <3> DEFINE m == s.next
               u == s.upto
    <3>1. /\ row \in Seq(Cells) /\ m \in Nat \ {0} /\ u \in Nat
          /\ u <= Len(row) /\ m <= u
      BY <1>6, <2>2
    <3> HIDE DEF row, m, u
    <3>2. /\ SubSeq(row, m, u) # << >> /\ Head(SubSeq(row, m, u)) = row[m]
          /\ Tail(SubSeq(row, m, u)) = SubSeq(row, m + 1, u)
      BY <3>1, SliceHas
    <3> QED BY <2>4, <3>2 DEF m, u
  <2>6. purgerAt'[gen] = "clear"
    BY <1>1, <1>3, <1>13 DEF PurgeFinish, PurgeGoto, OwnTypes
  <2>7. Held' = Tail(Held)
    <3>1. Held' = SubSeq(row, s.next + 1, s.upto)
      BY <1>4, <2>1, <2>6, HeldSome
    <3> QED BY <2>5, <3>1
  <2>8. P!PurgeFinish
    BY <2>1, <2>3, <2>5, <2>6, <2>7 DEF P!PurgeFinish, Phase
  <2> QED BY <1>1, <2>1, <2>6, <2>8 DEF P!Next, P!Purge, OneAtATime
<1>14. CASE PurgeClear(gen)
  <2>1. /\ purgerAt[gen] = "clear"
        /\ arrays' = Cleared(s.array, s.next)
        /\ slice' = [slice EXCEPT ![gen].next = @ + 1]
        /\ UNCHANGED <<submits, works, counts, states, lock, items, gen,
                       dormant, cancelled, early, crashed, taken>>
    BY <1>14 DEF PurgeClear, Cleared
  <2>2. purgerAt'[gen] = "finish"
    BY <1>1, <1>3, <1>14 DEF PurgeClear, PurgeGoto, OwnTypes
  <2>3. s.next <= s.upto BY <1>1, <1>3, <2>1 DEF SliceInv
  <2>4. s.next \in 1..Len(row) BY <1>6, <2>3
  <2> DEFINE new == arrays'[s.array]
  <2>5. \A j \in 1..Len(row) : j # s.next => new[j] = row[j]
    <3> DEFINE a == s.array
               n == s.next
    <3>1. /\ arrays \in Seq(Seq(Cells)) /\ a \in 1..Len(arrays)
          /\ n \in 1..Len(arrays[a]) /\ arrays' = Cleared(a, n)
      BY <1>1, <1>6, <2>1, <2>4 DEF OwnTypes
    <3> HIDE DEF a, n
    <3>2. \A j \in 1..Len(arrays[a]) : j # n => arrays'[a][j] = arrays[a][j]
      BY <3>1, ClearedHas
    <3> QED BY <3>2 DEF a, n
  <2>6. /\ slice'[gen].array = s.array /\ slice'[gen].upto = s.upto
        /\ slice'[gen].next = s.next + 1
    <3> DEFINE next == [s EXCEPT !.next = @ + 1]
    <3>1. slice' = [slice EXCEPT ![gen] = next] BY <2>1
    <3>2. s \in Slices /\ slice \in [Gens -> Slices]
      BY <1>1, <1>3 DEF SliceInv
    <3>3. next.array = s.array /\ next.upto = s.upto /\ next.next = s.next + 1
      BY <3>2 DEF Slices
    <3> HIDE DEF next
    <3>4. slice'[gen] = next BY <1>3, <3>1, <3>2
    <3> QED BY <3>3, <3>4
  <2>7. Held = SubSeq(row, s.next + 1, s.upto) BY <2>1 DEF Held
  <2>8. Held' = SubSeq(new, s.next + 1, s.upto)
    BY <1>4, <2>2, <2>6, HeldSome
  <2>9. SubSeq(new, s.next + 1, s.upto) = SubSeq(row, s.next + 1, s.upto)
    <3> HIDE DEF new, row
    <3> DEFINE m == s.next + 1
               u == s.upto
               c == SubSeq(new, m, u)
               d == SubSeq(row, m, u)
    <3>1. m \in Nat /\ u \in Nat /\ m >= 1 /\ u <= Len(row) BY <1>6
    <3>2. /\ \A i \in m..u : row[i] \in Cells /\ new[i] = row[i]
      BY <1>6, <2>5, <3>1, ElementOfSeq
    <3> HIDE DEF m, u
    <3>3. /\ c \in Seq(Cells) /\ Len(c) = IF m <= u THEN u - m + 1 ELSE 0
          /\ \A i \in 1..(u - m + 1) : c[i] = new[m + i - 1]
      BY <3>1, <3>2, SubSeqProperties
    <3>4. /\ d \in Seq(Cells) /\ Len(d) = IF m <= u THEN u - m + 1 ELSE 0
          /\ \A i \in 1..(u - m + 1) : d[i] = row[m + i - 1]
      BY <3>1, <3>2, SubSeqProperties
    <3> HIDE DEF c, d
    <3>5. \A i \in 1..Len(c) : c[i] = d[i]
      BY <3>1, <3>2, <3>3, <3>4
    <3>6. c = d BY <3>3, <3>4, <3>5, SeqEqual
    <3> QED BY <3>6 DEF c, d, m, u
  <2>10. UNCHANGED P!vars
    BY <2>1, <2>2, <2>7, <2>8, <2>9 DEF P!vars, Phase
  <2> QED BY <1>1, <2>1, <2>2, <2>10 DEF OneAtATime
<1>15. CASE PurgeWake(gen)
  <2>1. /\ purgerAt[gen] = "finish" /\ s.next > s.upto
        /\ slice' = [slice EXCEPT ![gen] = NoSlice]
        /\ dormant' = [dormant EXCEPT ![gen] = FALSE]
    BY <1>15 DEF PurgeWake
  <2>2. purgerAt'[gen] = "sleep" /\ slice'[gen] = NoSlice
        /\ dormant'[gen] = FALSE
    BY <1>1, <1>3, <1>15 DEF PurgeWake, PurgeGoto, OwnTypes, SliceInv
  <2>3. Held = SubSeq(row, s.next, s.upto) BY <2>1 DEF Held
  <2>4. Held = << >> BY <1>6, <2>1, <2>3, SliceHas
  <2>5. Held' = << >> BY <1>2, <1>4, <2>2, HeldNone
  <2>6. P!PurgeWake
    BY <1>4, <1>15, <2>1, <2>2, <2>4, <2>5
    DEF PurgeWake, P!PurgeWake, Phase, Pool!Broadcast, P!Broadcast
  <2> QED BY <1>1, <1>15, <2>2, <2>6 DEF PurgeWake, P!Next, P!Purge, OneAtATime
<1> QED
  BY <1>3, <1>9, <1>10, <1>11, <1>12, <1>13, <1>14, <1>15 DEF Purge

-----------------------------------------------------------------------------
(* Two purgers: the owners are lost, the rest of the invariant is not.     *)
LEMMA EarlyStep ==
  ASSUME IInv, early', NEW g \in Gens, Purge(g)
  PROVE  P!RestInv'
<1> USE DEF submits, works, counts, states, cells, P!callerVars, P!condVars
<1>1. OwnTypes /\ SliceInv /\ P!RestInv /\ P!TypeOK BY DEF IInv, P!RestInv
<1>2. OwnTypes' BY OwnStep
<1>3. Held' = << >> /\ << >> \in Seq(Workers) BY HeldNone, EmptySeq
<1>4. /\ UNCHANGED <<P!callerVars, lock, wpc, wseen, job, exiting, running,
                     waiting, cap, grown, closed, releaser>>
      /\ P!Broadcast \/ UNCHANGED P!condVars
      /\ purgerAt[g] # "refresh" => items' = items
      /\ purgerAt[g] # "send" => chan' = chan
  BY DEF Purge, PurgeTick, PurgeStopped, PurgeRefresh, PurgeNext, PurgeFinish,
         PurgeClear, PurgeWake, Pool!Broadcast, P!Broadcast
<1>5. /\ items' \in Seq(Workers)
      /\ items' = items \/ (lock = None /\ Len(items') <= Len(items))
  <2>1. CASE PurgeRefresh(g)
    <3>1. PICK k \in Pool!Expired : items' = SubSeq(items, k + 1, Len(items))
      BY <2>1 DEF PurgeRefresh
    <3>2. items \in Seq(Workers) BY <1>1 DEF P!TypeOK
    <3>3. k \in 0..Len(items) BY <3>2, LenProperties DEF Pool!Expired
    <3>4. items' \in Seq(Workers) /\ Len(items') <= Len(items)
      BY <3>1, <3>2, <3>3, P!CutHas
    <3> QED BY <2>1, <3>4 DEF PurgeRefresh
  <2>2. CASE ~PurgeRefresh(g)
    <3>1. items' = items
      BY <2>2 DEF Purge, PurgeTick, PurgeStopped, PurgeNext, PurgeFinish,
                  PurgeClear, PurgeWake
    <3> QED BY <1>1, <3>1 DEF P!TypeOK
  <2> QED BY <2>1, <2>2
<1>6. chan' \in [Workers -> P!Tasks \cup {Nil, None}]
  <2>1. CASE PurgeFinish(g) BY <1>1, <2>1 DEF PurgeFinish, P!TypeOK
  <2>2. CASE ~PurgeFinish(g)
    <3>1. chan' = chan
      BY <2>2 DEF Purge, PurgeTick, PurgeStopped, PurgeRefresh, PurgeNext,
                  PurgeClear, PurgeWake
    <3> QED BY <1>1, <3>1 DEF P!TypeOK
  <2> QED BY <2>1, <2>2
<1>7. pc' \in [Submitters -> P!CallerPlaces] /\ notify' \in Seq(Submitters)
  <2>1. CASE P!Broadcast
    BY <1>1, <2>1, Assumptions, P!BroadcastWakes DEF P!RestInv
  <2>2. CASE UNCHANGED P!condVars BY <1>1, <2>2 DEF P!TypeOK
  <2> QED BY <1>4, <2>1, <2>2
<1>8. /\ Phase' \in {"sleep", "refresh", "finish", "dead"}
      /\ dormant'[gen'] \in BOOLEAN
  <2>1. gen' = gen /\ gen \in Gens /\ purgerAt[gen] # "off"
    <3>1. gen' = gen
      BY DEF Purge, PurgeTick, PurgeStopped, PurgeRefresh, PurgeNext,
             PurgeFinish, PurgeClear, PurgeWake
    <3>2. gen \in Gens BY <1>1 DEF OwnTypes
    <3>3. gen \in Nat BY <3>2, PoolAssumption DEF Gens, PoolAssumption
    <3> QED BY <3>1, <3>2, <3>3 DEF IInv, GenInv
  <2>2. purgerAt'[gen] # "off"
    <3>1. GenInv' BY OwnStep
    <3>2. gen \in Nat BY <2>1, PoolAssumption DEF Gens, PoolAssumption
    <3> QED BY <2>1, <3>1, <3>2 DEF GenInv
  <2> QED BY <1>2, <2>1, <2>2 DEF OwnTypes, Phase
<1>9. P!TypeOK'
  BY <1>1, <1>3, <1>4, <1>5, <1>6, <1>7, <1>8 DEF P!TypeOK
<1>10. P!PhaseInv' BY <1>1, <1>3, <1>4 DEF P!RestInv, P!PhaseInv
<1>11. releaser' \in {"broadcast", "done"} => releaser \in {"broadcast", "done"}
  BY <1>4
<1> QED
  BY <1>1, <1>4, <1>5, <1>9, <1>10, <1>11, Assumptions, P!FrameRest

-----------------------------------------------------------------------------
(* Every step preserves the invariant.                                     *)

(* A purger's, alone or not.                                               *)
LEMMA PurgeStep ==
  ASSUME IInv, NEW g \in Gens, Purge(g)
  PROVE  IInv'
<1>1. OwnTypes' /\ SliceInv' /\ GenInv' BY OwnStep
<1>2. early' = early
  BY DEF Purge, PurgeTick, PurgeStopped, PurgeRefresh, PurgeNext, PurgeFinish,
         PurgeClear, PurgeWake
<1>3. CASE early BY <1>1, <1>2, <1>3, EarlyStep DEF IInv
<1>4. CASE ~early BY <1>1, <1>2, <1>4, OneStep DEF IInv, P!IInv
<1> QED BY <1>3, <1>4

(* The pool's other steps.                                                 *)
LEMMA OthersStep ==
  ASSUME IInv, Others
  PROVE  IInv'
<1>1. UNCHANGED purgers /\ P!Next BY OthersArePool
<1>2. P!RestInv' BY <1>1, Assumptions, P!StepRestInv DEF IInv
<1>3. ASSUME ~early PROVE P!OneOwner' /\ P!NotStranded'
  <2>1. P!IInv BY <1>3 DEF IInv, OneAtATime, P!IInv
  <2>2. P!IInv' BY <1>1, <2>1, Assumptions, P!StepIInv
  <2> QED BY <2>2 DEF P!IInv
<1>4. OwnTypes' /\ SliceInv' /\ GenInv'
  BY <1>1 DEF IInv, purgers, cells, OwnTypes, SliceInv, GenInv
<1> QED BY <1>1, <1>2, <1>3, <1>4 DEF IInv, OneAtATime, purgers, cells, Running

(* StopPurgeStaleWorkers cancels the last purger.                          *)
LEMMA StopStep ==
  ASSUME IInv, StopPurgeStaleWorkers
  PROVE  IInv'
<1> USE DEF submits, works, counts, states, cells, P!callerVars, P!condVars,
        P!workerVars, P!capVars, P!releaseVars, P!purgeVars
<1>1. /\ UNCHANGED <<submits, works, counts, states, lock, items, gen, cells>>
      /\ UNCHANGED <<purgerAt, dormant, early, crashed>>
      /\ cancelled' = cancelled \cup {gen} /\ gen \notin cancelled /\ Stoppable
  BY DEF StopPurgeStaleWorkers
<1>2. Held' = Held /\ Phase' = Phase BY <1>1 DEF Held, Phase
<1>3. P!StopPurgeStaleWorkers BY <1>1, <1>2 DEF P!StopPurgeStaleWorkers
<1>4. P!Next BY <1>3 DEF P!Next
<1>5. P!RestInv' BY <1>4, Assumptions, P!StepRestInv DEF IInv
<1>6. ASSUME ~early PROVE P!OneOwner' /\ P!NotStranded'
  <2>1. P!IInv BY <1>6 DEF IInv, OneAtATime, P!IInv
  <2>2. P!IInv' BY <1>4, <2>1, Assumptions, P!StepIInv
  <2> QED BY <2>2 DEF P!IInv
<1>7. OwnTypes' /\ SliceInv' /\ GenInv'
  BY <1>1 DEF IInv, OwnTypes, SliceInv, GenInv
<1> QED BY <1>1, <1>5, <1>6, <1>7 DEF IInv, OneAtATime, Running

(* A Reboot starts from a stack that Release has emptied; its purger has   *)
(* no slice.                                                               *)
LEMMA RebootStep ==
  ASSUME IInv, Reboot
  PROVE  IInv'
<1> USE DEF submits, works, counts, cells, P!callerVars, P!condVars
<1>1. OwnTypes /\ SliceInv /\ GenInv /\ P!RestInv /\ P!TypeOK
  BY DEF IInv, P!RestInv
<1>2. /\ UNCHANGED <<submits, works, counts, lock, items, dormant, cancelled>>
      /\ UNCHANGED <<crashed, slice, taken, arrays>>
      /\ closed' = FALSE /\ releaser' = "idle" /\ releaser = "done"
      /\ gen' = gen + 1 /\ gen \in 1..MaxReboots
      /\ PurgeGoto(gen', "sleep")
      /\ early' = (early \/ \E g \in Gens : Running(g))
  BY DEF Reboot
<1>3. gen' \in Gens /\ gen \in Nat /\ Gens \subseteq Nat
  BY <1>2, PoolAssumption DEF Gens, PoolAssumption
<1>4. \A g \in Gens : purgerAt'[g] = IF g = gen' THEN "sleep" ELSE purgerAt[g]
  BY <1>1, <1>3, <1>2 DEF OwnTypes, PurgeGoto
<1>5. purgerAt[gen'] = "off" BY <1>1, <1>2, <1>3 DEF GenInv
<1>6. slice[gen'] = NoSlice BY <1>1, <1>3, <1>5 DEF SliceInv
<1>7. Held' = << >> /\ << >> \in Seq(Workers)
  BY <1>2, <1>6, HeldNone, EmptySeq
<1>8. OwnTypes'
  BY <1>1, <1>2, <1>3 DEF OwnTypes, PurgeGoto
<1>9. GenInv'
  <2>1. ASSUME NEW g \in Gens PROVE purgerAt'[g] = "off" <=> g > gen'
    BY <1>1, <1>2, <1>3, <1>4, <2>1 DEF GenInv
  <2> QED BY <2>1 DEF GenInv
<1>10. SliceInv' BY <1>1, <1>2, <1>4, <1>6 DEF SliceInv
<1>11. Phase' = "sleep" /\ dormant'[gen'] \in BOOLEAN
  BY <1>3, <1>4, <1>8 DEF Phase, OwnTypes
<1>12. items = << >> BY <1>1, <1>2 DEF P!RestInv, P!NoIdleAfterReset
<1>13. P!TypeOK'
  <2>1. /\ UNCHANGED <<pc, seen, mine, calls, lock, items, wpc, wseen, chan>>
        /\ UNCHANGED <<job, running, waiting, exiting, notify, cap, grown>>
        /\ closed' \in BOOLEAN
        /\ releaser' \in {"idle", "reset", "broadcast", "done"}
    BY <1>2
  <2>2. Phase' \in {"sleep", "refresh", "finish", "dead"} BY <1>11
  <2>3. Held' \in Seq(Workers) BY <1>7
  <2> QED BY <1>1, <1>11, <2>1, <2>2, <2>3 DEF P!TypeOK
<1>14. P!PhaseInv' BY <1>2, <1>7 DEF P!PhaseInv
<1>15. P!RestInv'
  <2>1. /\ UNCHANGED <<P!callerVars, lock, wpc, running, waiting>>
        /\ UNCHANGED P!condVars /\ items' = items
        /\ releaser' \notin {"broadcast", "done"}
    BY <1>2
  <2> QED
    BY <1>1, <1>12, <1>13, <1>14, <2>1, Assumptions, P!FrameRest
<1>16. ASSUME ~early' PROVE OneAtATime'
  <2>1. ~early /\ \A g \in Gens : ~Running(g) BY <1>2, <1>16
  <2>2. OneAtATime BY <2>1 DEF IInv
  <2>3. \A g \in Gens : Running(g)' => g = gen'
    BY <1>4, <2>1 DEF Running
  <2>4. slice[gen] = NoSlice
    <3>1. gen \in Gens /\ ~Running(gen) BY <1>1, <2>1 DEF OwnTypes
    <3> QED BY <1>1, <3>1 DEF SliceInv, Running
  <2>5. Held = << >> BY <2>4, HeldNone
  <2>6. \A s \in Submitters : pc'[s] = "send" <=> pc[s] = "send" BY <1>2
  <2>7. \A w \in Workers : P!Ready(w) => P!Ready(w)' BY <1>2 DEF P!Ready
  <2>8. UNCHANGED <<items, Held, mine>> BY <1>2, <1>7, <2>5
  <2>9. P!OneOwner'
    BY <1>1, <2>2, <2>6, <2>7, <2>8, Assumptions, P!OwnerFrame
    DEF OneAtATime, P!RestInv
  <2>10. P!NotStranded' BY <1>2, <2>2 DEF OneAtATime, P!NotStranded
  <2>11. purgerAt'[gen'] = "sleep" BY <1>3, <1>4
  <2> QED BY <1>2, <2>2, <2>3, <2>9, <2>10, <2>11 DEF OneAtATime
<1> QED BY <1>8, <1>9, <1>10, <1>15, <1>16 DEF IInv

(* NewPool.                                                                *)
LEMMA InitInv ==
  ASSUME Init
  PROVE  IInv /\ P!Init /\ ~early
<1>1. P!Init BY DEF Init, Pool!Init, P!Init
<1>2. P!IInv BY <1>1, Assumptions, P!InitIInv
<1>3. 1 \in Gens /\ Gens \subseteq Nat
  BY PoolAssumption DEF Gens, PoolAssumption
<1>4. arrays \in Seq(Seq(Cells)) /\ Len(arrays) = 1 /\ Len(arrays[1]) = 0
  <2>1. << >> \in Seq(Cells) /\ Len(<< >>) = 0 BY EmptySeq
  <2>2. arrays = << << >> >> BY DEF Init
  <2> QED BY <2>1, <2>2
<1>5. OwnTypes
  <2>1. /\ gen = 1
        /\ purgerAt = [g \in Gens |-> IF g = 1 THEN "sleep" ELSE "off"]
        /\ taken = [g \in Gens |-> None] /\ dormant = [g \in Gens |-> FALSE]
        /\ cancelled = {} /\ early = FALSE /\ crashed = FALSE
    BY DEF Init
  <2>2. purgerAt \in [Gens -> {"off", "sleep", "refresh", "finish", "send",
                              "clear", "dead"}]
    BY <2>1
  <2>3. taken \in [Gens -> Cells] /\ dormant \in [Gens -> BOOLEAN]
    BY <2>1 DEF Cells
  <2>4. gen \in Gens /\ cancelled \subseteq Gens BY <1>3, <2>1
  <2>5. Len(arrays) >= 1 BY <1>4
  <2> QED BY <1>4, <2>1, <2>2, <2>3, <2>4, <2>5 DEF OwnTypes
<1>6. SliceInv BY <1>3, <1>4 DEF Init, SliceInv, Slices, NoSlice
<1>7. GenInv BY <1>3 DEF Init, GenInv
<1>8. OneAtATime
  BY <1>2, <1>3 DEF Init, OneAtATime, Running, P!IInv
<1> QED BY <1>1, <1>2, <1>5, <1>6, <1>7, <1>8 DEF IInv, P!IInv, Init

LEMMA StepInv ==
  ASSUME IInv, [Next]_vars
  PROVE  IInv'
<1>1. CASE Next
  BY <1>1, PurgeStep, OthersStep, StopStep, RebootStep DEF Next, Others
<1>2. CASE UNCHANGED vars
  <2>1. UNCHANGED P!vars /\ UNCHANGED purgers
    BY <1>2 DEF vars, submits, works, counts, states, purgers, cells, P!vars,
         P!callerVars, P!workerVars, P!condVars, P!capVars, P!releaseVars,
         P!purgeVars, Held, Phase
  <2>2. OwnTypes' /\ SliceInv' /\ GenInv'
    BY <2>1 DEF IInv, purgers, cells, OwnTypes, SliceInv, GenInv
  <2>3. P!RestInv'
    BY <2>1 DEF IInv, P!vars, P!callerVars, P!workerVars, P!condVars,
         P!capVars, P!releaseVars, P!purgeVars, P!RestInv, P!TypeOK,
         P!LockInv, P!NotifyInv, P!CallInv, P!PhaseInv, P!CountersExact,
         P!BoundedOvershoot, P!IdleNotWasted, P!NoIdleAfterReset, P!Live,
         P!Counted, P!At, P!In, P!Distinct
  <2>4. ASSUME ~early PROVE OneAtATime'
    <3>1. P!IInv BY <2>4 DEF IInv, OneAtATime, P!IInv
    <3>2. P!IInv' BY <2>1, <3>1, Assumptions, P!StepIInv
    <3> QED
      BY <2>1, <2>4, <3>2 DEF IInv, OneAtATime, P!IInv, purgers, cells, Running
  <2> QED BY <2>1, <2>2, <2>3, <2>4 DEF IInv, purgers
<1> QED BY <1>1, <1>2

-----------------------------------------------------------------------------
(* The results.                                                            *)

(* The inductive invariant holds in every reachable state.                 *)
THEOREM Invariance == Spec => []IInv
<1>1. Init => IInv BY InitInv
<1>2. IInv /\ [Next]_vars => IInv' BY StepInv
<1> QED BY <1>1, <1>2, PTL DEF Spec

(* The fields of GPool keep their types over any number of restarts; no    *)
(* purger ever reads past the end of an array of workerStack.expiry.       *)
THEOREM TypeCorrect == Spec => []TypeOK
<1>1. IInv => TypeOK
  <2> SUFFICES ASSUME IInv PROVE TypeOK
    OBVIOUS
  <2>1. OwnTypes /\ SliceInv /\ P!TypeOK BY DEF IInv, P!RestInv
  <2>2. Pool!TypeOK
    BY <2>1 DEF P!TypeOK, Pool!TypeOK, P!Tasks, Pool!Tasks, P!CallerPlaces,
         Pool!CallerPlaces, P!WorkerPlaces, Pool!WorkerPlaces
  <2>3. \A g \in Gens : slice[g].array \in 1..Len(arrays)
                        /\ slice[g].upto <= Len(arrays[slice[g].array])
    BY <2>1, RowOf
  <2> QED BY <2>1, <2>2, <2>3 DEF TypeOK, OwnTypes, Cells
<1> QED BY <1>1, Invariance, PTL

(* Restarts are harmless as long as each comes after the end of the purger *)
(* of before: one owner for every worker, no stranded message, no panic.   *)
THEOREM Owners == Spec => []OwnersUnlessEarly
<1>1. IInv => OwnersUnlessEarly
  BY DEF IInv, OneAtATime, OwnersUnlessEarly, P!OneOwner, Pool!OneOwner,
         P!NotStranded, Pool!NotStranded, P!Distinct, Pool!Distinct, P!In,
         Pool!In, P!Ready, Pool!Ready
<1> QED BY <1>1, Invariance, PTL

(* Even two purgers at a time, on one array, leave the counters exact, the *)
(* wake-ups where they are owed and a closed pool empty.                   *)
THEOREM Rest == Spec => []RestSurvives
<1>1. IInv => RestSurvives
  <2> SUFFICES ASSUME IInv PROVE RestSurvives
    OBVIOUS
  <2>1. P!RestInv BY DEF IInv
  <2>2. /\ \A A : P!Cardinality(A) = Pool!Cardinality(A)
        /\ Pool!Live = P!Live /\ Pool!Counted = P!Counted
        /\ Pool!At("spawn") = P!At("spawn")
        /\ Pool!At("woken") = P!At("woken")
    BY DEF P!Cardinality, Pool!Cardinality, P!Live, Pool!Live, P!Counted,
           Pool!Counted, P!At, Pool!At
  <2> QED
    BY <2>1, <2>2
    DEF RestSurvives, P!RestInv, P!CountersExact, Pool!CountersExact,
        P!BoundedOvershoot, Pool!BoundedOvershoot, P!SpawnLimit,
        Pool!SpawnLimit, P!IdleNotWasted, Pool!IdleNotWasted,
        P!NoIdleAfterReset, Pool!NoIdleAfterReset
<1> QED BY <1>1, Invariance, PTL

(* Until a Reboot comes early, the pool of closures is the pool of one     *)
(* function: each of its steps but Reboot is a step of WorkerPool, with    *)
(* the last purger in the place of its own, or changes nothing there.      *)
THEOREM PoolUnlessEarly ==
  Spec => [][~early => Reboot \/ P!Next \/ UNCHANGED P!vars]_vars
<1> DEFINE Follows == ~early => Reboot \/ P!Next \/ UNCHANGED P!vars
<1>1. IInv /\ Next => Follows
  <2> SUFFICES ASSUME IInv, Next, ~early
               PROVE  Reboot \/ P!Next \/ UNCHANGED P!vars
    OBVIOUS
  <2>1. CASE Others BY <2>1, OthersArePool
  <2>2. CASE \E g \in Gens : Purge(g) BY <2>2, OneStep
  <2>3. CASE StopPurgeStaleWorkers
    <3> USE DEF submits, works, counts, states, cells, P!callerVars,
            P!condVars, P!workerVars, P!capVars, P!releaseVars, P!purgeVars
    <3>1. Held' = Held /\ Phase' = Phase
      BY <2>3 DEF StopPurgeStaleWorkers, Held, Phase
    <3>2. P!StopPurgeStaleWorkers
      BY <2>3, <3>1 DEF StopPurgeStaleWorkers, P!StopPurgeStaleWorkers
    <3> QED BY <3>2 DEF P!Next
  <2> QED BY <2>1, <2>2, <2>3 DEF Next, Others
<1>2. IInv /\ [Next]_vars => [Follows]_vars BY <1>1
<1> QED BY <1>2, Invariance, PTL DEF Spec

(* A pool of closures that is never restarted implements WorkerPool, and   *)
(* with it everything that WorkerPoolProofs shows of that one.             *)
THEOREM ImplementsPool == Spec /\ [][~Reboot]_vars => P!Spec
<1>1. Init => P!Init /\ ~early BY InitInv
<1>2. ~early /\ [Next]_vars /\ [~Reboot]_vars => ~early'
  <2>1. ASSUME Next, ~Reboot PROVE early' = early
    <3>1. CASE Others BY <3>1, OthersArePool DEF purgers
    <3>2. CASE \E g \in Gens : Purge(g)
      BY <3>2 DEF Purge, PurgeTick, PurgeStopped, PurgeRefresh, PurgeNext,
           PurgeFinish, PurgeClear, PurgeWake
    <3>3. CASE StopPurgeStaleWorkers BY <3>3 DEF StopPurgeStaleWorkers
    <3> QED BY <2>1, <3>1, <3>2, <3>3 DEF Next, Others
  <2> QED BY <2>1 DEF vars, purgers
<1>3. /\ ~early
      /\ [~early => Reboot \/ P!Next \/ UNCHANGED P!vars]_vars
      /\ [~Reboot]_vars
      => [P!Next]_(P!vars)
  <2>1. UNCHANGED vars => UNCHANGED P!vars
    BY DEF vars, submits, works, counts, states, purgers, cells, P!vars,
         P!callerVars, P!workerVars, P!condVars, P!capVars, P!releaseVars,
         P!purgeVars, Held, Phase
  <2> QED BY <2>1
<1> QED BY <1>1, <1>2, <1>3, PoolUnlessEarly, PTL DEF Spec, P!Spec

(* So it keeps the promise to its callers too: a task is accepted once,    *)
(* refused only after Release, and run by one worker.                      *)
THEOREM ImplementsExecutor == Spec /\ [][~Reboot]_vars => P!Promise!Spec
BY ImplementsPool, Assumptions, P!ImplementsExecutor, PTL
=============================================================================
