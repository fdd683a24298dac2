--------------------------- MODULE SnowflakeProofs --------------------------
(***************************************************************************)
(* With a clock that is not set back, ids are unique, for every number of  *)
(* nodes, every width of the fields and every number of calls.             *)
(***************************************************************************)
EXTENDS Snowflake, SequenceTheorems, TLAPS

-----------------------------------------------------------------------------
(* Arithmetic: reading the fields back from an id.                         *)

(* Multiplication by a natural number is monotone.                         *)
LEMMA MulLe ==
  ASSUME NEW a \in Int, NEW b \in Int, NEW S \in Nat, a <= b
  PROVE  a * S <= b * S
<1>1. PICK d \in Nat : b = a + d
  <2>1. b - a \in Nat /\ b = a + (b - a) OBVIOUS
  <2> QED BY <2>1
<1>2. b * S = a * S + d * S BY <1>1
<1>3. d * S \in Nat OBVIOUS
<1>4. a * S \in Int OBVIOUS
<1> QED BY <1>2, <1>3, <1>4

(* A larger quotient outweighs any remainder.                              *)
LEMMA DigitOrder ==
  ASSUME NEW S \in Nat \ {0}, NEW a \in Int, NEW b \in Int,
         NEW q \in 0..(S - 1), NEW r \in 0..(S - 1), a < b
  PROVE  a * S + q < b * S + r
<1>1. (a + 1) * S <= b * S BY MulLe
<1>2. (a + 1) * S = a * S + S OBVIOUS
<1>3. a * S \in Int /\ b * S \in Int OBVIOUS
<1> QED BY <1>1, <1>2, <1>3

(* An id is an integer.                                                    *)
LEMMA IdInt ==
  ASSUME NEW n \in Nodes, NEW t \in Nat, NEW q \in 0..(SeqSpan - 1)
  PROVE  Id(n, t, q) \in Int
<1>1. n \in Int /\ NodeSpan \in Int /\ SeqSpan \in Int BY SpanAssumption
<1>2. t * NodeSpan + n \in Int BY <1>1
<1>3. (t * NodeSpan + n) * SeqSpan \in Int BY <1>1, <1>2
<1> QED BY <1>3, <1>1 DEF Id

(* Ids ascend with the time, and within a millisecond with the sequence.   *)
LEMMA IdOrder ==
  ASSUME NEW n \in Nodes, NEW t \in Nat, NEW u \in Nat,
         NEW q \in 0..(SeqSpan - 1), NEW r \in 0..(SeqSpan - 1),
         t < u \/ (t = u /\ q < r)
  PROVE  Id(n, t, q) < Id(n, u, r)
<1> DEFINE a == t * NodeSpan + n
           b == u * NodeSpan + n
<1>1. /\ n \in 0..(NodeSpan - 1)
      /\ NodeSpan \in Nat \ {0} /\ SeqSpan \in Nat \ {0}
  BY SpanAssumption
<1>2. a \in Int /\ b \in Int BY <1>1
<1>3. CASE t < u
  <2>1. a < b BY <1>1, <1>3, DigitOrder
  <2> HIDE DEF a, b
  <2>2. a * SeqSpan + q < b * SeqSpan + r BY <1>1, <1>2, <2>1, DigitOrder
  <2> QED BY <2>2 DEF Id, a, b
<1>4. CASE t = u /\ q < r
  <2>1. a = b BY <1>4
  <2> HIDE DEF a, b
  <2>2. a * SeqSpan \in Int BY <1>1, <1>2
  <2>3. a * SeqSpan + q < b * SeqSpan + r BY <1>4, <2>1, <2>2
  <2> QED BY <2>3 DEF Id, a, b
<1> QED BY <1>3, <1>4

(* Two nodes never compose the same id.                                    *)
LEMMA IdNode ==
  ASSUME NEW n \in Nodes, NEW m \in Nodes, NEW t \in Nat, NEW u \in Nat,
         NEW q \in 0..(SeqSpan - 1), NEW r \in 0..(SeqSpan - 1),
         Id(n, t, q) = Id(m, u, r)
  PROVE  n = m
<1> DEFINE a == t * NodeSpan + n
           b == u * NodeSpan + m
<1>1. /\ n \in 0..(NodeSpan - 1) /\ m \in 0..(NodeSpan - 1)
      /\ NodeSpan \in Nat \ {0} /\ SeqSpan \in Nat \ {0}
  BY SpanAssumption
<1>2. a \in Int /\ b \in Int BY <1>1
<1>3. a * SeqSpan + q = b * SeqSpan + r BY DEF Id
<1>4. a = b
  <2> HIDE DEF a, b
  <2>1. ~(a < b)
    <3>1. a < b => a * SeqSpan + q < b * SeqSpan + r BY <1>1, <1>2, DigitOrder
    <3>2. b * SeqSpan + r \in Int BY <1>1, <1>2
    <3> QED BY <1>3, <3>1, <3>2
  <2>2. ~(b < a)
    <3>1. b < a => b * SeqSpan + r < a * SeqSpan + q BY <1>1, <1>2, DigitOrder
    <3>2. b * SeqSpan + r \in Int BY <1>1, <1>2
    <3> QED BY <1>3, <3>1, <3>2
  <2> QED BY <1>2, <2>1, <2>2
<1>5. ~(t < u)
  <2>1. t < u => a < b BY <1>1, DigitOrder
  <2> QED BY <1>2, <1>4, <2>1
<1>6. ~(u < t)
  <2>1. u < t => b < a BY <1>1, DigitOrder
  <2> QED BY <1>2, <1>4, <2>1
<1>7. t = u BY <1>5, <1>6
<1>8. t * NodeSpan \in Int BY <1>1
<1> QED BY <1>1, <1>4, <1>7, <1>8

(* The mask: the next number, or 0 after the last one.                     *)
LEMMA SuccessorValue ==
  ASSUME NEW n \in Nodes, sequence[n] \in 0..(SeqSpan - 1)
  PROVE  Successor(n) = IF sequence[n] + 1 = SeqSpan THEN 0 ELSE sequence[n] + 1
  BY SpanAssumption DEF Successor

-----------------------------------------------------------------------------
(* The strengthening: an id issued by a node carries a time up to the      *)
(* node's timestamp and, while the clock still shows that time and no call *)
(* is waiting for the next one, a sequence number up to the last one used. *)

OriginInv ==
  \A n \in Nodes : \A i \in 1..Len(issued[n]) :
    \E t \in Nat, q \in 0..(SeqSpan - 1) :
      /\ issued[n][i] = Id(n, t, q)
      /\ t <= timestamp[n]
      /\ t = clock[n] /\ pc[n] = "free" => q <= sequence[n]

ClockInv == \A n \in Nodes : timestamp[n] <= clock[n]

SInv == TypeOK /\ ClockInv /\ OriginInv /\ Ascending

(* An id made later than all ids of its node, by time or by sequence.      *)
LEMMA StampStep ==
  ASSUME SInv, NEW n \in Nodes, NEW q \in 0..(SeqSpan - 1), Stamp(n, q),
         UNCHANGED clock,
         \A i \in 1..Len(issued[n]) :
           \E t \in Nat, r \in 0..(SeqSpan - 1) :
             /\ issued[n][i] = Id(n, t, r)
             /\ t < clock[n] \/ (t = clock[n] /\ r < q)
  PROVE  SInv'
<1>1. TypeOK /\ ClockInv /\ OriginInv /\ Ascending BY DEF SInv
<1>2. /\ clock[n] \in Nat /\ issued[n] \in Seq(Int)
      /\ timestamp[n] \in Int /\ TimestampMax \in Nat
  BY <1>1, SpanAssumption DEF TypeOK, Unset
<1>3. CASE clock[n] > TimestampMax /\ UNCHANGED <<timestamp, issued>>
  <2>1. TypeOK' BY <1>1, <1>3 DEF TypeOK, Stamp
  <2>2. ClockInv' BY <1>1, <1>3 DEF ClockInv
  <2>3. OriginInv'
    <3>1. SUFFICES ASSUME NEW m \in Nodes, NEW i \in 1..Len(issued[m])
                   PROVE  \E t \in Nat, r \in 0..(SeqSpan - 1) :
                            /\ issued[m][i] = Id(m, t, r)
                            /\ t <= timestamp[m]
                            /\ t = clock[m] /\ pc'[m] = "free" => r <= sequence'[m]
      BY <1>3 DEF OriginInv
    <3>2. PICK t \in Nat, r \in 0..(SeqSpan - 1) :
            /\ issued[m][i] = Id(m, t, r)
            /\ t <= timestamp[m]
            /\ t = clock[m] /\ pc[m] = "free" => r <= sequence[m]
      BY <1>1 DEF OriginInv
    <3>3. CASE m = n
      <4>1. timestamp[n] <= TimestampMax BY <1>1 DEF TypeOK, Unset
      <4>2. t # clock[n] BY <1>2, <1>3, <3>2, <3>3, <4>1
      <4> QED BY <3>2, <3>3, <4>2
    <3>4. CASE m # n
      <4>1. pc'[m] = pc[m] /\ sequence'[m] = sequence[m]
        BY <1>1, <3>4 DEF Stamp, TypeOK
      <4> QED BY <3>2, <4>1
    <3> QED BY <3>3, <3>4
  <2>4. Ascending' BY <1>1, <1>3 DEF Ascending
  <2> QED BY <2>1, <2>2, <2>3, <2>4 DEF SInv
<1>4. CASE /\ clock[n] <= TimestampMax
           /\ timestamp' = [timestamp EXCEPT ![n] = clock[n]]
           /\ issued' = [issued EXCEPT ![n] = Append(@, Id(n, clock[n], q))]
  <2> DEFINE new == Id(n, clock[n], q)
             len == Len(issued[n])
  <2>1. new \in Int BY <1>2, IdInt
  <2>2. len \in Nat BY <1>2, LenProperties
  <2>3. /\ Append(issued[n], new) \in Seq(Int)
        /\ Len(Append(issued[n], new)) = len + 1
        /\ \A i \in 1..len : Append(issued[n], new)[i] = issued[n][i]
        /\ Append(issued[n], new)[len + 1] = new
    BY <1>2, <2>1, AppendProperties
  <2>4. \A i \in 1..len : issued[n][i] < new
    BY <1>2, IdOrder
  <2> HIDE DEF new, len
  <2>5. /\ issued'[n] = Append(issued[n], new)
        /\ \A m \in Nodes \ {n} : issued'[m] = issued[m]
    BY <1>1, <1>4 DEF TypeOK, new
  <2>6. TypeOK'
    <3>1. clock[n] \in Unset..TimestampMax BY <1>2, <1>4 DEF Unset
    <3>2. timestamp' \in [Nodes -> Unset..TimestampMax]
      BY <1>1, <1>4, <3>1 DEF TypeOK
    <3>3. issued' \in [Nodes -> Seq(Int)]
      BY <1>1, <1>4, <2>3 DEF TypeOK, new
    <3> QED BY <1>1, <3>2, <3>3 DEF TypeOK, Stamp
  <2>7. ClockInv'
    <3>1. \A m \in Nodes : timestamp'[m] =
                            IF m = n THEN clock[n] ELSE timestamp[m]
      BY <1>1, <1>4 DEF TypeOK
    <3> QED BY <1>1, <1>2, <3>1 DEF ClockInv
  <2>8. OriginInv'
    <3>1. SUFFICES ASSUME NEW m \in Nodes, NEW i \in 1..Len(issued'[m])
                   PROVE  \E t \in Nat, r \in 0..(SeqSpan - 1) :
                            /\ issued'[m][i] = Id(m, t, r)
                            /\ t <= timestamp'[m]
                            /\ t = clock[m] /\ pc'[m] = "free" => r <= sequence'[m]
      BY DEF OriginInv
    <3>2. CASE m # n
      <4>1. /\ pc'[m] = pc[m] /\ sequence'[m] = sequence[m]
            /\ timestamp'[m] = timestamp[m] /\ issued'[m] = issued[m]
        BY <1>1, <1>4, <3>2 DEF Stamp, TypeOK
      <4> QED BY <1>1, <3>1, <4>1 DEF OriginInv
    <3>3. CASE m = n /\ i = len + 1
      <4>1. issued'[n][i] = new BY <2>3, <2>5, <3>3
      <4>2. timestamp'[n] = clock[n] /\ sequence'[n] = q
        BY <1>1, <1>4 DEF Stamp, TypeOK
      <4>3. clock[n] <= clock[n] /\ q <= q BY <1>2
      <4> QED BY <1>2, <3>3, <4>1, <4>2, <4>3 DEF new
    <3>4. CASE m = n /\ i # len + 1
      <4>1. i \in 1..len BY <2>2, <2>3, <2>5, <3>4
      <4>2. issued'[n][i] = issued[n][i] BY <2>3, <2>5, <4>1
      <4>3. PICK t \in Nat, r \in 0..(SeqSpan - 1) :
              /\ issued[n][i] = Id(n, t, r)
              /\ t < clock[n] \/ (t = clock[n] /\ r < q)
        BY <4>1 DEF len
      <4>4. timestamp'[n] = clock[n] /\ sequence'[n] = q
        BY <1>1, <1>4 DEF Stamp, TypeOK
      <4>5. t <= clock[n] /\ (t = clock[n] => r <= q) BY <1>2, <4>3
      <4> QED BY <3>4, <4>2, <4>3, <4>4, <4>5
    <3> QED BY <3>2, <3>3, <3>4
  <2>9. Ascending'
    <3>1. SUFFICES ASSUME NEW m \in Nodes, NEW i \in 1..Len(issued'[m]),
                          NEW j \in 1..Len(issued'[m]), i < j
                   PROVE  issued'[m][i] < issued'[m][j]
      BY DEF Ascending
    <3>2. CASE m # n BY <1>1, <2>5, <3>1, <3>2 DEF Ascending
    <3>3. CASE m = n /\ j # len + 1
      <4>1. i \in 1..len /\ j \in 1..len BY <2>2, <2>3, <2>5, <3>1, <3>3
      <4> QED BY <1>1, <2>3, <2>5, <3>1, <3>3, <4>1 DEF Ascending, len
    <3>4. CASE m = n /\ j = len + 1
      <4>1. i \in 1..len BY <2>2, <2>3, <2>5, <3>1, <3>4
      <4> QED BY <2>3, <2>4, <2>5, <3>4, <4>1
    <3> QED BY <3>2, <3>3, <3>4
  <2> QED BY <2>6, <2>7, <2>8, <2>9 DEF SInv
<1> QED BY <1>3, <1>4 DEF Stamp

(* A generator that has issued nothing satisfies the invariant.            *)
LEMMA InitSInv ==
  ASSUME Init
  PROVE  SInv
<1>1. << >> \in Seq(Int) /\ Len(<< >>) = 0 BY EmptySeq
<1> QED BY <1>1, SpanAssumption
        DEF Init, SInv, TypeOK, ClockInv, OriginInv, Ascending, Unset

(* Every call, spin and tick preserves the invariant, as long as no clock  *)
(* steps back.                                                             *)
LEMMA NextSInv ==
  ASSUME ~MayStepBack, SInv, [Next]_vars
  PROVE  SInv'
<1>1. TypeOK /\ ClockInv /\ OriginInv /\ Ascending BY DEF SInv
<1>2. ASSUME NEW n \in Nodes, NEW i \in 1..Len(issued[n])
      PROVE  \E t \in Nat, r \in 0..(SeqSpan - 1) :
               /\ issued[n][i] = Id(n, t, r)
               /\ t <= timestamp[n]
               /\ t = clock[n] /\ pc[n] = "free" => r <= sequence[n]
  BY <1>1 DEF OriginInv
<1>3. \A n \in Nodes : /\ clock[n] \in Nat /\ timestamp[n] \in Int
                       /\ timestamp[n] <= clock[n]
                       /\ sequence[n] \in 0..(SeqSpan - 1)
  BY <1>1 DEF TypeOK, ClockInv, Unset
<1>4. SeqSpan \in Nat \ {0} BY SpanAssumption
<1>5. ASSUME NEW n \in Nodes, NextVal(n) PROVE SInv'
  <2>1. pc[n] = "free" /\ clock' = clock BY <1>5 DEF NextVal
  <2>2. CASE timestamp[n] = clock[n] /\ Successor(n) # 0 /\ Stamp(n, Successor(n))
    <3> DEFINE q == Successor(n)
    <3>1. q = sequence[n] + 1 /\ q \in 0..(SeqSpan - 1)
      BY <1>3, <1>4, <2>2, SuccessorValue
    <3> HIDE DEF q
    <3>2. \A i \in 1..Len(issued[n]) :
            \E t \in Nat, r \in 0..(SeqSpan - 1) :
              /\ issued[n][i] = Id(n, t, r)
              /\ t < clock[n] \/ (t = clock[n] /\ r < q)
      <4>1. SUFFICES ASSUME NEW i \in 1..Len(issued[n])
                     PROVE  \E t \in Nat, r \in 0..(SeqSpan - 1) :
                              /\ issued[n][i] = Id(n, t, r)
                              /\ t < clock[n] \/ (t = clock[n] /\ r < q)
        OBVIOUS
      <4>2. PICK t \in Nat, r \in 0..(SeqSpan - 1) :
              /\ issued[n][i] = Id(n, t, r)
              /\ t <= timestamp[n]
              /\ t = clock[n] /\ pc[n] = "free" => r <= sequence[n]
        BY <1>2
      <4>3. t < clock[n] \/ (t = clock[n] /\ r < q)
        BY <1>3, <2>1, <3>1, <4>2
      <4> QED BY <4>2, <4>3
    <3>3. Stamp(n, q) BY <2>2 DEF q
    <3> QED BY <2>1, <3>1, <3>2, <3>3, StampStep
  <2>3. CASE /\ timestamp[n] = clock[n] /\ Successor(n) = 0
             /\ sequence' = [sequence EXCEPT ![n] = 0]
             /\ pc' = [pc EXCEPT ![n] = "spin"]
             /\ UNCHANGED <<timestamp, issued>>
    <3>1. 0 \in 0..(SeqSpan - 1) BY <1>4
    <3>2. TypeOK' BY <1>1, <2>1, <2>3, <3>1 DEF TypeOK
    <3>3. ClockInv' BY <1>1, <2>1, <2>3 DEF ClockInv
    <3>4. \A m \in Nodes : pc'[m] = "free" =>
                            pc[m] = "free" /\ sequence'[m] = sequence[m]
      BY <1>1, <2>3 DEF TypeOK
    <3>5. OriginInv' BY <1>1, <2>1, <2>3, <3>4 DEF OriginInv
    <3>6. Ascending' BY <1>1, <2>3 DEF Ascending
    <3> QED BY <3>2, <3>3, <3>5, <3>6 DEF SInv
  <2>4. CASE timestamp[n] # clock[n] /\ Stamp(n, 0)
    <3>1. 0 \in 0..(SeqSpan - 1) BY <1>4
    <3>2. timestamp[n] < clock[n] BY <1>3, <2>4
    <3>3. \A i \in 1..Len(issued[n]) :
            \E t \in Nat, r \in 0..(SeqSpan - 1) :
              /\ issued[n][i] = Id(n, t, r)
              /\ t < clock[n] \/ (t = clock[n] /\ r < 0)
      <4>1. SUFFICES ASSUME NEW i \in 1..Len(issued[n])
                     PROVE  \E t \in Nat, r \in 0..(SeqSpan - 1) :
                              /\ issued[n][i] = Id(n, t, r)
                              /\ t < clock[n] \/ (t = clock[n] /\ r < 0)
        OBVIOUS
      <4>2. PICK t \in Nat, r \in 0..(SeqSpan - 1) :
              issued[n][i] = Id(n, t, r) /\ t <= timestamp[n]
        BY <1>2
      <4>3. t < clock[n] BY <1>3, <3>2, <4>2
      <4> QED BY <4>2, <4>3
    <3> QED BY <2>1, <2>4, <3>1, <3>3, StampStep
  <2> QED BY <1>5, <2>2, <2>3, <2>4 DEF NextVal
<1>6. ASSUME NEW n \in Nodes, Spin(n) PROVE SInv'
  <2>1. 0 \in 0..(SeqSpan - 1) BY <1>4
  <2>2. clock' = clock /\ Stamp(n, 0) /\ timestamp[n] < clock[n]
    BY <1>3, <1>6 DEF Spin
  <2>3. \A i \in 1..Len(issued[n]) :
          \E t \in Nat, r \in 0..(SeqSpan - 1) :
            /\ issued[n][i] = Id(n, t, r)
            /\ t < clock[n] \/ (t = clock[n] /\ r < 0)
    BY <1>2, <1>3, <2>2
  <2> QED BY <2>1, <2>2, <2>3, StampStep
<1>7. ASSUME NEW n \in Nodes, Tick(n) PROVE SInv'
  <2>1. PICK u \in 0..MaxClock : u > clock[n] /\ clock' = [clock EXCEPT ![n] = u]
    BY <1>7 DEF Tick
  <2>2. UNCHANGED <<timestamp, sequence, pc, issued>> BY <1>7 DEF Tick
  <2>3. TypeOK' BY <1>1, <2>1, <2>2 DEF TypeOK
  <2>4. \A m \in Nodes : clock'[m] = IF m = n THEN u ELSE clock[m]
    BY <1>1, <2>1 DEF TypeOK
  <2>5. ClockInv' BY <1>3, <2>1, <2>2, <2>4 DEF ClockInv
  <2>6. OriginInv'
    <3>1. SUFFICES ASSUME NEW m \in Nodes, NEW i \in 1..Len(issued[m])
                   PROVE  \E t \in Nat, r \in 0..(SeqSpan - 1) :
                            /\ issued[m][i] = Id(m, t, r)
                            /\ t <= timestamp[m]
                            /\ t = clock'[m] /\ pc[m] = "free" => r <= sequence[m]
      BY <2>2 DEF OriginInv
    <3>2. PICK t \in Nat, r \in 0..(SeqSpan - 1) :
            /\ issued[m][i] = Id(m, t, r)
            /\ t <= timestamp[m]
            /\ t = clock[m] /\ pc[m] = "free" => r <= sequence[m]
      BY <1>2
    <3>3. m = n => t # clock'[m] BY <1>3, <2>1, <2>4, <3>2
    <3> QED BY <2>4, <3>2, <3>3
  <2>7. Ascending' BY <1>1, <2>2 DEF Ascending
  <2> QED BY <2>3, <2>5, <2>6, <2>7 DEF SInv
<1>8. CASE UNCHANGED vars
  BY <1>8 DEF vars, SInv, TypeOK, ClockInv, OriginInv, Ascending
<1> QED BY <1>5, <1>6, <1>7, <1>8 DEF Next

(* What the invariant says of the ids issued makes them unique.            *)
LEMMA SInvUnique ==
  ASSUME SInv
  PROVE  Unique
<1>1. SUFFICES ASSUME NEW n \in Nodes, NEW m \in Nodes,
                      NEW i \in 1..Len(issued[n]), NEW j \in 1..Len(issued[m]),
                      issued[n][i] = issued[m][j]
               PROVE  n = m /\ i = j
  BY DEF Unique
<1>2. PICK t \in Nat, q \in 0..(SeqSpan - 1) : issued[n][i] = Id(n, t, q)
  BY DEF SInv, OriginInv
<1>3. PICK u \in Nat, r \in 0..(SeqSpan - 1) : issued[m][j] = Id(m, u, r)
  BY DEF SInv, OriginInv
<1>4. n = m BY <1>1, <1>2, <1>3, IdNode
<1>5. issued[n] \in Seq(Int) BY DEF SInv, TypeOK
<1>6. Len(issued[n]) \in Nat /\ issued[n][i] \in Int
  BY <1>5, LenProperties, ElementOfSeq
<1>7. ~(i < j) /\ ~(j < i) BY <1>1, <1>4, <1>6 DEF SInv, Ascending
<1>8. i = j BY <1>4, <1>6, <1>7
<1> QED BY <1>4, <1>8

-----------------------------------------------------------------------------

(* The inductive invariant holds in every state.                           *)
LEMMA Invariance == ~MayStepBack /\ Spec => []SInv
<1>1. ASSUME ~MayStepBack PROVE Spec => []SInv
  <2>1. Init => SInv BY InitSInv
  <2>2. SInv /\ [Next]_vars => SInv' BY <1>1, NextSInv
  <2> QED BY <2>1, <2>2, PTL DEF Spec
<1> QED BY <1>1

(* No two calls of NextVal, on one node or on two, return the same id.     *)
THEOREM IdsUnique == ~MayStepBack /\ Spec => []Unique
<1>1. SInv => Unique BY SInvUnique
<1>2. ~MayStepBack /\ Spec => []SInv BY Invariance
<1> QED BY <1>1, <1>2, PTL

(* A node's ids ascend in the order of the calls.                          *)
THEOREM IdsAscend == ~MayStepBack /\ Spec => []Ascending
<1>1. SInv => Ascending BY DEF SInv
<1>2. ~MayStepBack /\ Spec => []SInv BY Invariance
<1> QED BY <1>1, <1>2, PTL

(* The tail of NextVal keeps the fields in their ranges.                   *)
LEMMA StampTypes ==
  ASSUME TypeOK, NEW n \in Nodes, NEW q \in 0..(SeqSpan - 1), Stamp(n, q),
         UNCHANGED clock
  PROVE  TypeOK'
<1>1. /\ clock[n] \in Nat /\ issued \in [Nodes -> Seq(Int)]
      /\ timestamp \in [Nodes -> Unset..TimestampMax]
  BY SpanAssumption DEF TypeOK
<1>2. /\ sequence' \in [Nodes -> 0..(SeqSpan - 1)]
      /\ pc' \in [Nodes -> {"free", "spin"}]
      /\ clock' \in [Nodes -> 0..MaxClock]
  BY DEF TypeOK, Stamp
<1>3. timestamp' \in [Nodes -> Unset..TimestampMax]
  <2>1. CASE UNCHANGED timestamp BY <1>1, <2>1
  <2>2. CASE clock[n] <= TimestampMax
             /\ timestamp' = [timestamp EXCEPT ![n] = clock[n]]
    <3>1. clock[n] \in Unset..TimestampMax
      BY <1>1, <2>2, SpanAssumption DEF Unset
    <3> QED BY <1>1, <2>2, <3>1
  <2> QED BY <2>1, <2>2 DEF Stamp
<1>4. issued' \in [Nodes -> Seq(Int)]
  <2>1. Append(issued[n], Id(n, clock[n], q)) \in Seq(Int)
    BY <1>1, IdInt
  <2> QED BY <1>1, <2>1 DEF Stamp
<1> QED BY <1>2, <1>3, <1>4 DEF TypeOK

(* The fields of a generator keep their ranges, whatever the clock does:   *)
(* the sequence fits sequenceBits and the timestamp timestampBits.         *)
THEOREM TypeCorrect == Spec => []TypeOK
<1>1. Init => TypeOK BY InitSInv DEF SInv
<1>2. TypeOK /\ [Next]_vars => TypeOK'
  <2> SUFFICES ASSUME TypeOK, [Next]_vars PROVE TypeOK' OBVIOUS
  <2>1. 0 \in 0..(SeqSpan - 1) BY SpanAssumption
  <2>2. ASSUME NEW n \in Nodes, NextVal(n) PROVE TypeOK'
    <3>1. CASE Stamp(n, Successor(n)) /\ UNCHANGED clock
      <4>1. sequence[n] \in 0..(SeqSpan - 1) BY DEF TypeOK
      <4>2. Successor(n) = IF sequence[n] + 1 = SeqSpan THEN 0
                                                        ELSE sequence[n] + 1
        BY <4>1, SuccessorValue
      <4>3. Successor(n) \in 0..(SeqSpan - 1)
        BY <4>1, <4>2, SpanAssumption
      <4> QED BY <3>1, <4>3, StampTypes
    <3>2. CASE Stamp(n, 0) /\ UNCHANGED clock BY <2>1, <3>2, StampTypes
    <3>3. CASE /\ sequence' = [sequence EXCEPT ![n] = 0]
               /\ pc' = [pc EXCEPT ![n] = "spin"]
               /\ UNCHANGED <<clock, timestamp, issued>>
      BY <2>1, <3>3 DEF TypeOK
    <3> QED BY <2>2, <3>1, <3>2, <3>3 DEF NextVal
  <2>3. ASSUME NEW n \in Nodes, Spin(n) PROVE TypeOK'
    <3>1. Stamp(n, 0) /\ UNCHANGED clock BY <2>3 DEF Spin
    <3> QED BY <2>1, <3>1, StampTypes
  <2>4. ASSUME NEW n \in Nodes, Tick(n) PROVE TypeOK'
    BY <2>4 DEF Tick, TypeOK
  <2>5. CASE UNCHANGED vars BY <2>5 DEF vars, TypeOK
  <2> QED BY <2>2, <2>3, <2>4, <2>5 DEF Next
<1> QED BY <1>1, <1>2, PTL DEF Spec
=============================================================================
