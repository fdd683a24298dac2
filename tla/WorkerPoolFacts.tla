-------------------------- MODULE WorkerPoolFacts ---------------------------
(***************************************************************************)
(* Which elements the sequences of the pool hold after the operations of   *)
(* workerStack (insert, detach, refresh) and of a queue, and when they     *)
(* stay free of duplicates.                                                *)
(***************************************************************************)
EXTENDS WorkerPool, SequenceTheorems, TLAPS

(* insert adds its worker and keeps the rest.                              *)
LEMMA AppendHas ==
  ASSUME NEW S, NEW q \in Seq(S), NEW w \in S
  PROVE  /\ Append(q, w) \in Seq(S)
         /\ Len(Append(q, w)) = Len(q) + 1
         /\ \A v : In(v, Append(q, w)) <=> In(v, q) \/ v = w
         /\ Distinct(q) /\ ~In(w, q) => Distinct(Append(q, w))
  BY AppendProperties DEF Distinct, In

(* detach takes the last worker: what is left had it once at most.         *)
LEMMA FrontHas ==
  ASSUME NEW S, NEW q \in Seq(S), q # << >>
  PROVE  LET r == SubSeq(q, 1, Len(q) - 1) IN
         /\ r \in Seq(S)
         /\ Len(r) = Len(q) - 1
         /\ q[Len(q)] \in S
         /\ In(q[Len(q)], q)
         /\ \A v : In(v, r) => In(v, q)
         /\ Distinct(q) => Distinct(r) /\ ~In(q[Len(q)], r)
<1>1. Len(q) \in Nat \ {0} BY EmptySeq, LenProperties
<1>2. \A i \in 1..Len(q) : q[i] \in S BY ElementOfSeq
<1>3. /\ SubSeq(q, 1, Len(q) - 1) \in Seq(S)
      /\ Len(SubSeq(q, 1, Len(q) - 1)) = Len(q) - 1
      /\ \A i \in 1..(Len(q) - 1) : SubSeq(q, 1, Len(q) - 1)[i] = q[i]
  <2>1. /\ 1 \in Int /\ Len(q) - 1 \in Int
        /\ \A i \in 1..(Len(q) - 1) : q[i] \in S
        /\ (Len(q) - 1) - 1 + 1 = Len(q) - 1
        /\ \A i \in 1..(Len(q) - 1) : 1 + i - 1 = i
    BY <1>1, <1>2
  <2> QED BY <2>1, <1>1, SubSeqProperties
<1> QED BY <1>1, <1>2, <1>3 DEF Distinct, In

(* The first element leaves a queue.                                       *)
LEMMA TailHas ==
  ASSUME NEW S, NEW q \in Seq(S), q # << >>
  PROVE  /\ Tail(q) \in Seq(S)
         /\ Len(Tail(q)) = Len(q) - 1
         /\ Head(q) \in S
         /\ In(Head(q), q)
         /\ \A v : In(v, q) <=> In(v, Tail(q)) \/ v = Head(q)
         /\ Distinct(q) => Distinct(Tail(q)) /\ ~In(Head(q), Tail(q))
<1>1. Len(q) \in Nat \ {0} BY EmptySeq, LenProperties
<1>2. /\ Tail(q) \in Seq(S)
      /\ Len(Tail(q)) = Len(q) - 1
      /\ \A i \in 1..(Len(q) - 1) : Tail(q)[i] = q[i + 1]
      /\ Head(q) = q[1]
  BY <1>1, HeadTailProperties
<1>3. \A i \in 1..Len(q) : q[i] \in S BY ElementOfSeq
<1>4. ASSUME NEW v PROVE In(v, q) <=> In(v, Tail(q)) \/ v = Head(q)
  <2>1. ASSUME NEW i \in 1..Len(q), q[i] = v PROVE In(v, Tail(q)) \/ v = Head(q)
    <3>1. CASE i = 1 BY <3>1, <2>1, <1>2
    <3>2. CASE i # 1
      <4>1. i - 1 \in 1..(Len(q) - 1) /\ (i - 1) + 1 = i BY <3>2, <1>1
      <4>2. Tail(q)[i - 1] = v BY <4>1, <1>2, <2>1
      <4> QED BY <4>1, <4>2, <1>2 DEF In
    <3> QED BY <3>1, <3>2
  <2> QED BY <2>1, <1>1, <1>2 DEF In
<1>5. Distinct(q) => Distinct(Tail(q)) /\ ~In(Head(q), Tail(q))
  BY <1>1, <1>2 DEF Distinct, In
<1> QED BY <1>1, <1>2, <1>3, <1>4, <1>5 DEF In

(* refresh cuts the stack in two: each half has workers of the stack only, *)
(* and no worker is in both.                                               *)
LEMMA CutHas ==
  ASSUME NEW S, NEW q \in Seq(S), NEW k \in 0..Len(q)
  PROVE  LET a == SubSeq(q, 1, k)
             b == SubSeq(q, k + 1, Len(q)) IN
         /\ a \in Seq(S) /\ b \in Seq(S)
         /\ Len(b) <= Len(q)
         /\ \A v : In(v, a) => In(v, q)
         /\ \A v : In(v, b) => In(v, q)
         /\ Distinct(q) => /\ Distinct(a) /\ Distinct(b)
                             /\ \A v : ~(In(v, a) /\ In(v, b))
<1> DEFINE a == SubSeq(q, 1, k)
           b == SubSeq(q, k + 1, Len(q))
<1>1. Len(q) \in Nat BY LenProperties
<1>2. \A i \in 1..Len(q) : q[i] \in S BY ElementOfSeq
<1>3. /\ a \in Seq(S)
      /\ Len(a) = k
      /\ \A i \in 1..k : a[i] = q[i]
  BY <1>1, SubSeqProperties
<1>4. /\ b \in Seq(S)
      /\ Len(b) = Len(q) - k
      /\ \A i \in 1..(Len(q) - k) : b[i] = q[k + i]
  BY <1>1, SubSeqProperties
<1> HIDE DEF a, b
<1>5. \A v : In(v, a) => In(v, q) BY <1>1, <1>3 DEF In
<1>6. \A v : In(v, b) => In(v, q) BY <1>1, <1>4 DEF In
<1>7. ASSUME Distinct(q)
      PROVE  Distinct(a) /\ Distinct(b) /\ \A v : ~(In(v, a) /\ In(v, b))
  <2>1. Distinct(a) BY <1>1, <1>3, <1>7 DEF Distinct
  <2>2. Distinct(b)
    <3>1. SUFFICES ASSUME NEW i \in 1..Len(b), NEW j \in 1..Len(b), b[i] = b[j]
                   PROVE  i = j
      BY DEF Distinct
    <3>2. k + i \in 1..Len(q) /\ k + j \in 1..Len(q) BY <1>1, <1>4
    <3>3. q[k + i] = q[k + j] BY <1>4, <3>1
    <3>4. k + i = k + j BY <3>2, <3>3, <1>7 DEF Distinct
    <3> QED BY <3>4, <1>1, <1>4
  <2>3. ASSUME NEW v, NEW i \in 1..Len(a), NEW j \in 1..Len(b), a[i] = v, b[j] = v
        PROVE  FALSE
    <3>1. i \in 1..Len(q) /\ k + j \in 1..Len(q) /\ i # k + j BY <1>1, <1>3, <1>4
    <3>2. q[i] = q[k + j] BY <1>3, <1>4, <2>3
    <3> QED BY <3>1, <3>2, <1>7 DEF Distinct
  <2> QED BY <2>1, <2>2, <2>3 DEF In
<1>8. Len(b) <= Len(q) BY <1>1, <1>4
<1> QED BY <1>3, <1>4, <1>5, <1>6, <1>7, <1>8 DEF a, b
=============================================================================
