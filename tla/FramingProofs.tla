---------------------------- MODULE FramingProofs ----------------------------
(***************************************************************************)
(* What module Framing promises of the readers, for any messages, any cut  *)
(* of the stream and any limit.                                            *)
(***************************************************************************)
EXTENDS Framing, SequenceTheorems, FiniteSetTheorems, TLAPS

-----------------------------------------------------------------------------
(* The strengthening.                                                      *)

(* Where in the stream message k begins.                                   *)
Start(k) == IF k = 1 THEN 0 ELSE ends[k - 1]

(* Message k is in the stream as Pack has made it.                         *)
FrameAt(k) ==
  /\ ends[k] = Start(k) + HeadLen + DataLen(sent[k]) /\ ends[k] <= Len(stream)
  /\ stream[Start(k) + 1] = DataLen(sent[k])
  /\ stream[Start(k) + 2] = sent[k].id
  /\ \A j \in 1..DataLen(sent[k]) :
       stream[Start(k) + HeadLen + j] = sent[k].data[j]

StreamInv ==
  /\ \A k \in 1..Len(sent) : FrameAt(k)
  /\ Start(Len(sent) + 1) = Len(stream)
  /\ \A i, j \in 1..Len(sent) : i <= j => ends[i] <= ends[j]

(* The messages a reader does not lose its step on: for QUIC those without *)
(* data, for the others those within the limit.                            *)
Passes(m) == Fits(m) /\ (kind = "quic" => DataLen(m) = 0)

(* The message the reader is to hand on next.                              *)
Coming == Len(taken) + 1

(* The reader is where a message begins, or after the head of one.         *)
InPlace ==
  /\ at = "head" => pos = Start(Coming)
  /\ at = "body" =>
       /\ Coming <= Len(sent) /\ pos = Start(Coming) + HeadLen
       /\ msg = [DataLen |-> DataLen(sent[Coming]), Id |-> sent[Coming].id]

(* In step: what has been handed on is what was sent.                      *)
Good ==
  /\ Len(taken) <= Len(sent)
  /\ \A i \in 1..Len(taken) : taken[i] = sent[i]
  /\ InPlace

(* Out of step: it was in step up to some message that does not pass.      *)
Lost ==
  \E k \in 1..Len(sent) :
    /\ k <= Coming /\ ~Passes(sent[k])
    /\ \A i \in 1..Len(taken) : i < k => taken[i] = sent[i]

StepInv == kind # "ws" => Good \/ Lost

(* QUIC never has a body to read, and hands on no data.                    *)
QuicInv ==
  kind = "quic" => at # "body" /\ \A i \in 1..Len(taken) : taken[i].data = << >>

(* A WebSocket read is given a whole message.                              *)
WsInv == kind = "ws" => pos = arrived \/ pos + HeadLen <= arrived

(* While KCP's messages come whole and fit, what has arrived ends where a  *)
(* message does, and a body that is to be read has come with its head.     *)
Keeping == kind = "kcp" /\ whole /\ ~ended /\ FitUpTo(Len(sent))

KcpInv ==
  Keeping =>
    /\ at # "over"
    /\ \E j \in 1..Len(sent) + 1 :
         arrived = Start(j) /\ Coming <= j /\ (at = "body" => Coming < j)

(* A WebSocket reader has read the first p messages and may have the next  *)
(* one before it; it has handed on those of the p that fit, and no others. *)
WsAt(p) ==
  /\ pos = Start(p + 1)
  /\ arrived = pos \/ (p < Len(sent) /\ arrived = ends[p + 1])
  /\ Len(taken) = FitCount(p)

WsPlace ==
  kind = "ws" => at # "body" /\ \E p \in 0..Len(sent) : WsAt(p)

IInv == TypeOK /\ StreamInv /\ StepInv /\ QuicInv /\ WsInv /\ KcpInv

-----------------------------------------------------------------------------
(* Operators.                                                              *)

LEMMA MessageData ==
  ASSUME NEW m \in Messages
  PROVE  m.id \in Nat /\ m.data \in Seq(Nat) /\ DataLen(m) \in Nat
<1>1. m.id \in Nat BY FramingAssumption DEF Messages
<1>2. PICK n \in 0..MaxLen : m.data \in [1..n -> Cells]
  <2>1. m.data \in UNION {[1..n -> Cells] : n \in 0..MaxLen}
    BY DEF Messages
  <2> QED BY <2>1
<1>3. n \in Nat /\ m.data \in [1..n -> Nat]
  <2>1. n \in Nat BY FramingAssumption
  <2>2. Cells \subseteq Nat BY FramingAssumption
  <2> QED BY <1>2, <2>1, <2>2
<1>4. m.data \in Seq(Nat) BY <1>3, SeqDef
<1> QED BY <1>1, <1>4, LenProperties DEF DataLen

(* A packed message is its length, its id and its data.                    *)
LEMMA Packed ==
  ASSUME NEW m \in Messages
  PROVE  /\ Pack(m) \in Seq(Nat) /\ Len(Pack(m)) = HeadLen + DataLen(m)
         /\ Pack(m)[1] = DataLen(m) /\ Pack(m)[2] = m.id
         /\ \A j \in 1..DataLen(m) : Pack(m)[HeadLen + j] = m.data[j]
<1> DEFINE head == <<DataLen(m), m.id>>
<1>1. m.id \in Nat /\ m.data \in Seq(Nat) /\ DataLen(m) \in Nat
  BY MessageData
<1>2. head \in Seq(Nat) /\ Len(head) = 2 /\ head[1] = DataLen(m)
      /\ head[2] = m.id
  BY <1>1
<1>3. Pack(m) = head \o m.data BY DEF Pack
<1> HIDE DEF head
<1>4. /\ head \o m.data \in Seq(Nat)
      /\ Len(head \o m.data) = Len(head) + DataLen(m)
      /\ \A i \in 1..Len(head) + DataLen(m) : (head \o m.data)[i] =
           IF i <= Len(head) THEN head[i] ELSE m.data[i - Len(head)]
  BY <1>1, <1>2, ConcatProperties DEF DataLen
<1>5. Pack(m)[1] = DataLen(m) /\ Pack(m)[2] = m.id
  <2>1. 1 \in 1..2 + DataLen(m) /\ 2 \in 1..2 + DataLen(m) BY <1>1
  <2>2. (head \o m.data)[1] = head[1] /\ (head \o m.data)[2] = head[2]
    BY <1>2, <1>4, <2>1
  <2> QED BY <1>2, <1>3, <2>2
<1>6. ASSUME NEW j \in 1..DataLen(m) PROVE Pack(m)[2 + j] = m.data[j]
  <2>1. 2 + j \in 1..2 + DataLen(m) /\ ~(2 + j <= 2) /\ (2 + j) - 2 = j
    BY <1>1
  <2> QED BY <1>2, <1>3, <1>4, <2>1
<1> QED BY <1>2, <1>3, <1>4, <1>5, <1>6 DEF HeadLen

(* The cells that a read takes from what has arrived.                      *)
LEMMA Cut ==
  ASSUME TypeOK, NEW n \in Nat, n <= Unread
  PROVE  /\ NextCells(n) \in Seq(Nat) /\ Len(NextCells(n)) = n
         /\ \A i \in 1..n : NextCells(n)[i] = stream[pos + i]
<1>1. pos \in Nat /\ arrived \in Nat /\ Len(stream) \in Nat
      /\ pos + n <= Len(stream)
  BY LenProperties DEF TypeOK, Unread
<1>2. \A i \in (pos + 1)..(pos + n) : stream[i] \in Nat
  BY <1>1, ElementOfSeq DEF TypeOK
<1>3. /\ SubSeq(stream, pos + 1, pos + n) \in Seq(Nat)
      /\ Len(SubSeq(stream, pos + 1, pos + n)) =
           IF pos + 1 <= pos + n THEN (pos + n) - (pos + 1) + 1 ELSE 0
      /\ \A i \in 1..(pos + n) - (pos + 1) + 1 :
           SubSeq(stream, pos + 1, pos + n)[i] = stream[(pos + 1) + i - 1]
  BY <1>1, <1>2, SubSeqProperties
<1> QED BY <1>1, <1>3 DEF NextCells

(* A message is its id and its data; with no data it is empty.             *)
LEMMA SameMessage ==
  ASSUME NEW m \in Messages, NEW d \in Seq(Nat), Len(d) = DataLen(m),
         \A i \in 1..Len(d) : d[i] = m.data[i]
  PROVE  [id |-> m.id, data |-> d] = m
<1>1. d = m.data BY MessageData, SeqEqual DEF DataLen
<1> QED BY <1>1 DEF Messages

-----------------------------------------------------------------------------
(* The peer.                                                               *)

(* What Send does to the three sequences.                                  *)
LEMMA Sending ==
  ASSUME TypeOK, NEW m \in Messages, Send(m)
  PROVE  LET L == Len(sent)
             E == Len(stream) + HeadLen + DataLen(m)
         IN /\ L \in Nat /\ Len(stream) \in Nat /\ E \in Nat
            /\ sent' \in Seq(Messages) /\ Len(sent') = L + 1 /\ sent'[L + 1] = m
            /\ \A i \in 1..L : sent'[i] = sent[i]
            /\ ends' \in Seq(Nat) /\ Len(ends') = L + 1 /\ ends'[L + 1] = E
            /\ \A i \in 1..L : ends'[i] = ends[i]
            /\ stream' \in Seq(Nat) /\ Len(stream') = E
            /\ \A i \in 1..Len(stream) : stream'[i] = stream[i]
            /\ \A i \in 1..Len(Pack(m)) : stream'[Len(stream) + i] = Pack(m)[i]
<1> DEFINE L == Len(sent)
           E == Len(stream) + HeadLen + DataLen(m)
<1>1. /\ sent \in Seq(Messages) /\ ends \in Seq(Nat) /\ stream \in Seq(Nat)
      /\ Len(ends) = L
  BY DEF TypeOK
<1>2. L \in Nat /\ Len(stream) \in Nat BY <1>1, LenProperties
<1>3. DataLen(m) \in Nat BY MessageData
<1>4. E \in Nat BY <1>2, <1>3 DEF HeadLen
<1>5. /\ sent' = Append(sent, m) /\ ends' = Append(ends, E)
      /\ stream' = stream \o Pack(m)
  BY DEF Send
<1>6. /\ Pack(m) \in Seq(Nat) /\ Len(Pack(m)) = HeadLen + DataLen(m)
  BY Packed
<1> HIDE DEF L, E
<1>7. /\ sent' \in Seq(Messages) /\ Len(sent') = L + 1 /\ sent'[L + 1] = m
      /\ \A i \in 1..L : sent'[i] = sent[i]
  BY <1>1, <1>5, AppendProperties DEF L
<1>8. /\ ends' \in Seq(Nat) /\ Len(ends') = L + 1 /\ ends'[L + 1] = E
      /\ \A i \in 1..L : ends'[i] = ends[i]
  BY <1>1, <1>4, <1>5, AppendProperties
<1>9. /\ stream' \in Seq(Nat)
      /\ Len(stream') = Len(stream) + Len(Pack(m))
      /\ \A i \in 1..Len(stream) + Len(Pack(m)) : stream'[i] =
           IF i <= Len(stream) THEN stream[i] ELSE Pack(m)[i - Len(stream)]
  BY <1>1, <1>5, <1>6, ConcatProperties
<1>10. Len(stream') = E BY <1>2, <1>3, <1>6, <1>9 DEF E, HeadLen
<1>11. /\ \A i \in 1..Len(stream) : stream'[i] = stream[i]
       /\ \A i \in 1..Len(Pack(m)) : stream'[Len(stream) + i] = Pack(m)[i]
  <2>1. Len(Pack(m)) \in Nat BY <1>3, <1>6 DEF HeadLen
  <2>2. \A i \in 1..Len(stream) : stream'[i] = stream[i]
    BY <1>2, <1>9, <2>1
  <2>3. \A i \in 1..Len(Pack(m)) : stream'[Len(stream) + i] = Pack(m)[i]
    <3> SUFFICES ASSUME NEW i \in 1..Len(Pack(m))
                 PROVE  stream'[Len(stream) + i] = Pack(m)[i]
      OBVIOUS
    <3>1. /\ Len(stream) + i \in 1..Len(stream) + Len(Pack(m))
          /\ ~(Len(stream) + i <= Len(stream))
          /\ (Len(stream) + i) - Len(stream) = i
      BY <1>2, <2>1
    <3> QED BY <1>9, <3>1
  <2> QED BY <2>2, <2>3
<1> QED BY <1>2, <1>4, <1>7, <1>8, <1>9, <1>10, <1>11 DEF L, E

(* The frames so far stay, and the new one is after them.                  *)
LEMMA SendStream ==
  ASSUME TypeOK, StreamInv, NEW m \in Messages, Send(m)
  PROVE  StreamInv'
<1> DEFINE L == Len(sent)
           N == Len(stream)
           E == N + HeadLen + DataLen(m)
<1>1. /\ L \in Nat /\ N \in Nat /\ E \in Nat
      /\ sent' \in Seq(Messages) /\ Len(sent') = L + 1 /\ sent'[L + 1] = m
      /\ \A i \in 1..L : sent'[i] = sent[i]
      /\ ends' \in Seq(Nat) /\ Len(ends') = L + 1 /\ ends'[L + 1] = E
      /\ \A i \in 1..L : ends'[i] = ends[i]
      /\ stream' \in Seq(Nat) /\ Len(stream') = E
      /\ \A i \in 1..N : stream'[i] = stream[i]
      /\ \A i \in 1..Len(Pack(m)) : stream'[N + i] = Pack(m)[i]
  BY Sending
<1>2. DataLen(m) \in Nat /\ E = N + 2 + DataLen(m) BY MessageData DEF HeadLen
<1>3. sent \in Seq(Messages) /\ ends \in Seq(Nat) /\ Len(ends) = L
  BY DEF TypeOK
<1>4. \A k \in 1..L : ends[k] \in Nat /\ ends[k] <= N
  BY <1>1, <1>3, ElementOfSeq DEF StreamInv, FrameAt
<1>5. Start(L + 1) = N BY DEF StreamInv
<1> HIDE DEF L, E, N
<1>6. \A k \in 1..L + 1 : Start(k)' = Start(k) /\ Start(k) \in 0..N
  <2> SUFFICES ASSUME NEW k \in 1..L + 1
               PROVE  Start(k)' = Start(k) /\ Start(k) \in 0..N
    OBVIOUS
  <2>1. CASE k = 1 BY <2>1, <1>1 DEF Start
  <2>2. CASE k # 1
    <3>1. k - 1 \in 1..L BY <2>2, <1>1
    <3> QED BY <1>1, <1>4, <2>2, <3>1 DEF Start
  <2> QED BY <2>1, <2>2
<1>7. ASSUME NEW k \in 1..L + 1 PROVE FrameAt(k)'
  <2>1. CASE k \in 1..L
    <3>1. FrameAt(k) BY <2>1 DEF StreamInv, L
    <3>2. sent'[k] = sent[k] /\ ends'[k] = ends[k] BY <1>1, <2>1
    <3>3. Start(k)' = Start(k) /\ Start(k) \in 0..N BY <1>6
    <3>4. sent[k] \in Messages BY <1>3, <2>1, ElementOfSeq DEF L
    <3>5. DataLen(sent[k]) \in Nat BY <3>4, MessageData
    <3>6. ends[k] = Start(k) + 2 + DataLen(sent[k]) /\ ends[k] <= N
      BY <3>1 DEF FrameAt, HeadLen, N
    <3>7. \A j \in 1..DataLen(sent[k]) + 2 :
            stream'[Start(k) + j] = stream[Start(k) + j]
      <4> SUFFICES ASSUME NEW j \in 1..DataLen(sent[k]) + 2
                   PROVE  stream'[Start(k) + j] = stream[Start(k) + j]
        OBVIOUS
      <4>1. Start(k) + j \in 1..N BY <1>1, <3>3, <3>5, <3>6
      <4> QED BY <1>1, <4>1
    <3>8. stream'[Start(k) + 1] = DataLen(sent[k])
          /\ stream'[Start(k) + 2] = sent[k].id
      BY <3>1, <3>5, <3>7 DEF FrameAt
    <3>9. \A j \in 1..DataLen(sent[k]) :
            stream'[Start(k) + 2 + j] = sent[k].data[j]
      <4> SUFFICES ASSUME NEW j \in 1..DataLen(sent[k])
                   PROVE  stream'[Start(k) + 2 + j] = sent[k].data[j]
        OBVIOUS
      <4>1. stream[Start(k) + 2 + j] = sent[k].data[j]
        BY <3>1 DEF FrameAt, HeadLen
      <4>2. 2 + j \in 1..DataLen(sent[k]) + 2
            /\ Start(k) + 2 + j = Start(k) + (2 + j)
        BY <3>3, <3>5
      <4> QED BY <3>7, <4>1, <4>2
    <3> QED BY <1>1, <1>2, <3>2, <3>3, <3>5, <3>6, <3>8, <3>9
            DEF FrameAt, HeadLen
  <2>2. CASE k = L + 1
    <3>1. Start(k)' = N BY <1>5, <1>6, <2>2
    <3>2. sent'[k] = m /\ ends'[k] = E BY <1>1, <2>2
    <3>3. /\ Len(Pack(m)) = 2 + DataLen(m)
          /\ Pack(m)[1] = DataLen(m) /\ Pack(m)[2] = m.id
          /\ \A j \in 1..DataLen(m) : Pack(m)[2 + j] = m.data[j]
      BY Packed DEF HeadLen
    <3>4. stream'[N + 1] = DataLen(m) /\ stream'[N + 2] = m.id
      <4>1. 1 \in 1..Len(Pack(m)) /\ 2 \in 1..Len(Pack(m)) BY <1>2, <3>3
      <4> QED BY <1>1, <3>3, <4>1
    <3>5. \A j \in 1..DataLen(m) : stream'[N + 2 + j] = m.data[j]
      <4> SUFFICES ASSUME NEW j \in 1..DataLen(m)
                   PROVE  stream'[N + 2 + j] = m.data[j]
        OBVIOUS
      <4>1. 2 + j \in 1..Len(Pack(m)) /\ N + 2 + j = N + (2 + j)
        BY <1>1, <1>2, <3>3
      <4> QED BY <1>1, <3>3, <4>1
    <3> QED BY <1>1, <1>2, <3>1, <3>2, <3>4, <3>5 DEF FrameAt, HeadLen
  <2> QED BY <1>1, <2>1, <2>2
<1>8. ends'[Len(sent')] = Len(stream') /\ Len(sent') \in Nat \ {0}
  BY <1>1
<1>9. \A i, j \in 1..L + 1 : i <= j => ends'[i] <= ends'[j]
  <2> SUFFICES ASSUME NEW i \in 1..L + 1, NEW j \in 1..L + 1, i <= j
               PROVE  ends'[i] <= ends'[j]
    OBVIOUS
  <2>1. CASE j = L + 1
    <3>1. CASE i = j BY <1>1, <2>1, <3>1
    <3>2. CASE i # j
      <4>1. i \in 1..L BY <1>1, <2>1, <3>2
      <4>2. ends'[i] = ends[i] /\ ends[i] \in Nat /\ ends[i] <= N
        BY <1>1, <1>4, <4>1
      <4>3. ends'[j] = E /\ N <= E BY <1>1, <1>2, <2>1
      <4> QED BY <1>1, <4>2, <4>3
    <3> QED BY <3>1, <3>2
  <2>2. CASE j # L + 1
    <3>1. i \in 1..L /\ j \in 1..L BY <1>1, <2>2
    <3> QED BY <1>1, <3>1 DEF StreamInv, L
  <2> QED BY <2>1, <2>2
<1>10. (Start(Len(sent) + 1) = Len(stream))'
  BY <1>8 DEF Start
<1> QED BY <1>1, <1>7, <1>9, <1>10 DEF StreamInv

(* Where the frames so far begin does not change.                          *)
LEMMA SendStart ==
  ASSUME TypeOK, NEW m \in Messages, Send(m)
  PROVE  \A k \in 1..Len(sent) + 1 : Start(k)' = Start(k)
<1> DEFINE L == Len(sent)
<1>1. L \in Nat /\ \A i \in 1..L : ends'[i] = ends[i] BY Sending
<1> HIDE DEF L
<1>2. ASSUME NEW k \in 1..L + 1 PROVE Start(k)' = Start(k)
  <2>1. CASE k = 1 BY <2>1 DEF Start
  <2>2. CASE k # 1
    <3>1. k - 1 \in 1..L BY <1>1, <2>2
    <3> QED BY <1>1, <2>2, <3>1 DEF Start
  <2> QED BY <2>1, <2>2
<1> QED BY <1>2 DEF L

-----------------------------------------------------------------------------
(* The types.                                                              *)

Handed == [id : Nat, data : Seq(Nat)]

LEMMA AppendHanded ==
  ASSUME taken \in Seq(Handed), NEW e \in Handed, taken' = Append(taken, e)
  PROVE  /\ taken' \in Seq(Handed) /\ Len(taken) \in Nat
         /\ Len(taken') = Len(taken) + 1 /\ taken'[Len(taken) + 1] = e
         /\ \A i \in 1..Len(taken) : taken'[i] = taken[i]
BY AppendProperties, LenProperties

(* UseHead with what a head that was read can be unpacked to.              *)
LEMMA UseHeadType ==
  ASSUME TypeOK, Unread >= HeadLen, NEW found \in SUBSET [DataLen : Nat, Id : Nat],
         UseHead(found)
  PROVE  TypeOK'
<1>1. pos' \in 0..arrived /\ arrived \in Nat
  <2>1. arrived \in Nat /\ pos \in Nat
    BY LenProperties DEF TypeOK
  <2> QED BY <2>1 DEF TypeOK, Unread, HeadLen, UseHead
<1>2. at' \in {"head", "body", "over"} /\ msg' \in [DataLen : Nat, Id : Nat]
  BY DEF TypeOK, UseHead
<1>3. taken' \in Seq(Handed)
  <2>1. CASE UNCHANGED taken BY <2>1 DEF TypeOK, Handed
  <2>2. ASSUME NEW m \in found, Take(m.Id, << >>) PROVE taken' \in Seq(Handed)
    <3>1. [id |-> m.Id, data |-> << >>] \in Handed BY DEF Handed
    <3>2. taken \in Seq(Handed) BY DEF TypeOK, Handed
    <3> QED BY <2>2, <3>1, <3>2, AppendHanded DEF Take
  <2> QED BY <2>1, <2>2 DEF UseHead
<1> QED BY <1>1, <1>2, <1>3 DEF UseHead, peerVars, netVars, TypeOK, Handed

LEMMA UseBodyType ==
  ASSUME TypeOK, Unread >= msg.DataLen, UseBody
  PROVE  TypeOK'
<1>0. msg.DataLen \in Nat /\ msg.Id \in Nat BY DEF TypeOK
<1>1. pos' \in 0..arrived
  <2>1. arrived \in Nat /\ pos \in Nat
    BY LenProperties DEF TypeOK
  <2> QED BY <1>0, <2>1 DEF TypeOK, Unread, UseBody
<1>2. taken' \in Seq(Handed)
  <2>0. msg.DataLen <= Unread
    <3>1. Unread \in Int BY LenProperties DEF TypeOK, Unread
    <3> QED BY <1>0, <3>1
  <2>1. [id |-> msg.Id, data |-> NextCells(msg.DataLen)] \in Handed
    BY <1>0, <2>0, Cut DEF Handed
  <2>2. taken \in Seq(Handed) BY DEF TypeOK, Handed
  <2> QED BY <2>1, <2>2, AppendHanded DEF UseBody, Take
<1> QED BY <1>1, <1>2 DEF UseBody, peerVars, netVars, TypeOK, Handed

(* What is unpacked from cells that were read.                             *)
LEMMA Unpacked ==
  ASSUME TypeOK, NEW n \in Nat, HeadLen <= n, n <= Unread
  PROVE  /\ UnpackHead(NextCells(n)) \in SUBSET [DataLen : Nat, Id : Nat]
         /\ Unpack(NextCells(n)) \in SUBSET [DataLen : Nat, Id : Nat]
<1>1. NextCells(n) \in Seq(Nat) /\ Len(NextCells(n)) = n BY Cut
<1>2. NextCells(n)[1] \in Nat /\ NextCells(n)[2] \in Nat
  BY <1>1, ElementOfSeq DEF HeadLen
<1> QED BY <1>2 DEF UnpackHead, Unpack

(* Every step preserves the types.                                         *)
LEMMA TypeStep ==
  ASSUME TypeOK, WsInv, Next
  PROVE  TypeOK'
<1> USE DEF peerVars, netVars
<1>0. /\ arrived \in Nat /\ pos \in Nat /\ Len(stream) \in Nat
      /\ Unread \in Int
  BY LenProperties DEF TypeOK, Unread
<1>1. ASSUME NEW m \in Messages, Send(m) PROVE TypeOK'
  <2> DEFINE N == Len(stream)
             E == N + HeadLen + DataLen(m)
  <2>1. /\ sent' \in Seq(Messages) /\ Len(sent') = Len(sent) + 1
        /\ ends' \in Seq(Nat) /\ Len(ends') = Len(sent) + 1
        /\ stream' \in Seq(Nat) /\ Len(stream') = E /\ N \in Nat /\ E \in Nat
        /\ Len(sent) \in Nat
    BY <1>1, Sending
  <2>2. DataLen(m) \in Nat BY MessageData
  <2>3. arrived \in 0..N BY DEF TypeOK
  <2> HIDE DEF N
  <2>4. arrived \in 0..E BY <2>1, <2>2, <2>3 DEF HeadLen
  <2> HIDE DEF E
  <2>5. Len(sent) + 1 <= MaxFrames
    BY <1>1, <2>1, FramingAssumption DEF Send
  <2>6. UNCHANGED <<kind, netVars, pos, at, msg, taken>> BY <1>1 DEF Send
  <2> QED BY <2>1, <2>4, <2>5, <2>6 DEF TypeOK
<1>2. ASSUME NEW to \in 1..Len(stream), Arrive(to) PROVE TypeOK'
  <2>1. arrived' = to /\ pos' = pos /\ stream' = stream /\ arrived < to
    BY <1>2 DEF Arrive
  <2>2. arrived' \in 0..Len(stream) /\ pos \in 0..arrived'
    BY <1>0, <2>1 DEF TypeOK
  <2>3. whole' \in BOOLEAN BY <1>2 DEF Arrive, TypeOK
  <2> QED BY <1>2, <2>2, <2>3 DEF Arrive, TypeOK
<1>3. CASE PeerEnds BY <1>3 DEF PeerEnds, TypeOK
<1>4. ASSUME NEW n \in Int, ShortRead(n) PROVE TypeOK'
  BY <1>0, <1>4 DEF ShortRead, TypeOK
<1>5. CASE ReadFails BY <1>0, <1>5 DEF ReadFails, TypeOK
<1>6. HeadLen \in Nat /\ msg.DataLen \in Nat BY DEF HeadLen, TypeOK
<1>7. CASE ReadHead
  BY <1>0, <1>6, <1>7, Unpacked, UseHeadType DEF ReadHead
<1>8. CASE ReadBody BY <1>8, UseBodyType DEF ReadBody
<1>9. CASE KcpReadHead
  <2>1. CASE ShortRead(HeadLen) BY <1>4, <1>6, <2>1
  <2>2. CASE Unread >= HeadLen /\ UseHead(UnpackHead(NextCells(HeadLen)))
    BY <1>0, <1>6, <2>2, Unpacked, UseHeadType
  <2> QED BY <1>9, <2>1, <2>2 DEF KcpReadHead
<1>10. CASE KcpReadBody
  <2>1. CASE ShortRead(msg.DataLen) BY <1>4, <1>6, <2>1
  <2>2. CASE Unread >= msg.DataLen /\ UseBody BY <2>2, UseBodyType
  <2> QED BY <1>10, <2>1, <2>2 DEF KcpReadBody
<1>11. CASE QuicReadHead
  <2>1. CASE ShortRead(HeadLen) BY <1>4, <1>6, <2>1
  <2>2. CASE Unread >= HeadLen /\ UseHead(Unpack(NextCells(HeadLen)))
    BY <1>0, <1>6, <2>2, Unpacked, UseHeadType
  <2> QED BY <1>11, <2>1, <2>2 DEF QuicReadHead
<1>12. CASE WsRead
  <2>1. pos' = arrived /\ Unread >= HeadLen /\ Unread \in Nat
    BY <1>0, <1>6, <1>12 DEF WsRead, WsInv, Unread, HeadLen
  <2>2. UnpackHead(NextCells(Unread)) \in SUBSET [DataLen : Nat, Id : Nat]
    BY <1>6, <2>1, Unpacked
  <2>3. msg' \in [DataLen : Nat, Id : Nat] BY <1>12, <2>2 DEF WsRead, TypeOK
  <2>4. taken' \in Seq(Handed)
    <3>1. taken \in Seq(Handed) BY DEF TypeOK, Handed
    <3>2. CASE UNCHANGED taken BY <3>1, <3>2
    <3>3. ASSUME NEW m \in UnpackHead(NextCells(Unread)), Take(m.Id, << >>)
          PROVE  taken' \in Seq(Handed)
      <4>1. [id |-> m.Id, data |-> << >>] \in Handed BY <2>2 DEF Handed
      <4> QED BY <3>1, <3>3, <4>1, AppendHanded DEF Take
    <3> QED BY <1>12, <3>2, <3>3 DEF WsRead
  <2> QED BY <1>0, <1>12, <2>1, <2>3, <2>4 DEF WsRead, TypeOK, Handed
<1> QED BY <1>1, <1>2, <1>3, <1>5, <1>7, <1>8, <1>9, <1>10, <1>11, <1>12
        DEF Next, Read

LEMMA WsStep ==
  ASSUME TypeOK, StreamInv, WsInv, Next
  PROVE  WsInv'
<1> USE DEF peerVars, netVars
<1>0. arrived \in Nat /\ pos \in Nat BY LenProperties DEF TypeOK
<1>1. CASE kind # "ws"
  <2>1. kind' = kind
    BY DEF Next, Send, Arrive, PeerEnds, Read, ReadHead, ReadBody,
       KcpReadHead, KcpReadBody, QuicReadHead, WsRead, ReadFails, UseHead,
       UseBody, ShortRead
  <2> QED BY <1>1, <2>1 DEF WsInv
<1>2. ASSUME kind = "ws", NEW to \in 1..Len(stream), Arrive(to) PROVE WsInv'
  <2>1. PICK i \in 1..Len(ends) : to = ends[i] /\ arrived = Start(i)
    BY <1>2 DEF Arrive, MayArrive, Start
  <2>2. FrameAt(i) /\ sent[i] \in Messages
    BY <2>1, ElementOfSeq DEF StreamInv, TypeOK
  <2>3. DataLen(sent[i]) \in Nat BY <2>2, MessageData
  <2>4. to = arrived + 2 + DataLen(sent[i]) /\ pos = arrived
    BY <1>2, <2>1, <2>2 DEF FrameAt, HeadLen, Arrive, MayArrive
  <2> QED BY <1>0, <1>2, <2>3, <2>4 DEF Arrive, WsInv, HeadLen
<1>3. CASE UNCHANGED <<kind, pos, arrived>> BY <1>3 DEF WsInv, HeadLen
<1>4. CASE pos' = arrived /\ arrived' = arrived BY <1>4 DEF WsInv
<1> QED BY <1>1, <1>2, <1>3, <1>4
        DEF Next, Send, PeerEnds, Read, ReadHead, ReadBody, KcpReadHead,
            KcpReadBody, QuicReadHead, WsRead, ReadFails, FullReaders

-----------------------------------------------------------------------------
(* In step and out of step.                                                *)

(* A reader in step that may read a head reads the one of the next message.*)
LEMMA NextHead ==
  ASSUME TypeOK, StreamInv, Good, at = "head", Unread >= HeadLen
  PROVE  /\ Coming \in 1..Len(sent) /\ sent[Coming] \in Messages
         /\ NextCells(HeadLen)[1] = DataLen(sent[Coming])
         /\ NextCells(HeadLen)[2] = sent[Coming].id
         /\ Len(NextCells(HeadLen)) = HeadLen
<1>0. /\ arrived \in 0..Len(stream) /\ Len(stream) \in Nat /\ pos \in Nat
      /\ Len(taken) \in Nat /\ Len(sent) \in Nat
  BY LenProperties DEF TypeOK
<1>1. pos = Start(Coming) BY DEF Good, InPlace
<1>2. Coming # Len(sent) + 1
  BY <1>0, <1>1 DEF StreamInv, Unread, HeadLen
<1>3. Coming \in 1..Len(sent) BY <1>0, <1>2 DEF Good, Coming
<1>4. FrameAt(Coming) /\ sent[Coming] \in Messages
  BY <1>3, ElementOfSeq DEF StreamInv, TypeOK
<1>5. /\ Len(NextCells(2)) = 2
      /\ \A i \in 1..2 : NextCells(2)[i] = stream[pos + i]
  <2>1. 2 \in Nat /\ 2 <= Unread BY <1>0 DEF HeadLen, Unread
  <2> QED BY <2>1, Cut
<1>6. NextCells(2)[1] = stream[pos + 1] /\ NextCells(2)[2] = stream[pos + 2]
  BY <1>5
<1> QED BY <1>1, <1>3, <1>4, <1>5, <1>6 DEF FrameAt, HeadLen

(* A reader in step that hands on the next message stays in step.          *)
LEMMA HandOn ==
  ASSUME TypeOK, Good, Coming \in 1..Len(sent), sent[Coming] \in Messages,
         taken' = Append(taken, sent[Coming]), UNCHANGED <<sent, ends>>,
         at' = "head", pos' = ends[Coming]
  PROVE  Good'
<1>0. Len(taken) \in Nat /\ Len(sent) \in Nat BY LenProperties DEF TypeOK
<1>1. sent[Coming] \in Handed BY MessageData DEF Messages, Handed
<1>2. /\ Len(taken') = Len(taken) + 1 /\ taken'[Len(taken) + 1] = sent[Coming]
      /\ \A i \in 1..Len(taken) : taken'[i] = taken[i]
  <2>1. taken \in Seq(Handed) BY DEF TypeOK, Handed
  <2> QED BY <1>1, <2>1, AppendHanded
<1>3. Len(taken') <= Len(sent) BY <1>0, <1>2 DEF Coming
<1>4. \A i \in 1..Len(taken') : taken'[i] = sent[i]
  BY <1>0, <1>2 DEF Good, Coming
<1>5. Start(Coming)' = ends[Coming]
  BY <1>0, <1>2 DEF Start, Coming
<1> QED BY <1>3, <1>4, <1>5 DEF Good, InPlace

LEMMA UseOne ==
  ASSUME NEW h, UseHead({h})
  PROVE  msg' = h /\ IF h.DataLen > 0 THEN at' = "body" /\ UNCHANGED taken
                      ELSE at' = "head" /\ Take(h.Id, << >>)
BY DEF UseHead

(* The next message is handed on, or has its body read next, or loses the  *)
(* reader.                                                                 *)
LEMMA UseHeadStep ==
  ASSUME TypeOK, StreamInv, Good, at = "head", Unread >= HeadLen, NEW found,
         UseHead(found),
         found = IF Passes(sent[Coming])
                   THEN {[DataLen |-> DataLen(sent[Coming]),
                          Id |-> sent[Coming].id]}
                   ELSE {}
  PROVE  Good' \/ Lost'
<1>1. Coming \in 1..Len(sent) /\ sent[Coming] \in Messages BY NextHead
<1>2. UNCHANGED <<kind, sent, ends, stream>> /\ pos' = Start(Coming) + HeadLen
  BY DEF UseHead, peerVars, Good, InPlace
<1>3. FrameAt(Coming) BY <1>1 DEF StreamInv
<1>4. DataLen(sent[Coming]) \in Nat BY <1>1, MessageData
<1>5. CASE ~Passes(sent[Coming])
  <2>1. found = {} BY <1>5
  <2>2. taken' = taken BY <2>1 DEF UseHead
  <2>3. Passes(sent[Coming])' = Passes(sent[Coming]) /\ Coming' = Coming
    BY <1>2, <2>2 DEF Passes, Fits, Coming
  <2> QED BY <1>1, <1>2, <1>5, <2>2, <2>3 DEF Good, Lost, Coming, Passes, Fits
<1> DEFINE h == [DataLen |-> DataLen(sent[Coming]), Id |-> sent[Coming].id]
<1>8. h.DataLen = DataLen(sent[Coming]) /\ h.Id = sent[Coming].id OBVIOUS
<1>9. Passes(sent[Coming]) => UseHead({h}) OBVIOUS
<1> HIDE DEF h
<1>6. CASE Passes(sent[Coming]) /\ DataLen(sent[Coming]) > 0
  <2>1. at' = "body" /\ taken' = taken /\ msg' = h
    BY <1>6, <1>8, <1>9, UseOne
  <2>2. Start(Coming)' = Start(Coming) /\ Coming' = Coming
    BY <1>2, <2>1 DEF Start, Coming
  <2> QED BY <1>1, <1>2, <2>1, <2>2 DEF Good, InPlace, Coming, h
<1>7. CASE Passes(sent[Coming]) /\ ~(DataLen(sent[Coming]) > 0)
  <2>1. DataLen(sent[Coming]) = 0 BY <1>4, <1>7
  <2>2. at' = "head" /\ Take(sent[Coming].id, << >>)
    BY <1>7, <1>8, <1>9, UseOne
  <2>3. << >> \in Seq(Nat) /\ Len(<< >>) = 0 BY EmptySeq
  <2>4. [id |-> sent[Coming].id, data |-> << >>] = sent[Coming]
    <3> DEFINE e == << >>
    <3>1. e \in Seq(Nat) /\ Len(e) = DataLen(sent[Coming])
          /\ \A i \in 1..Len(e) : e[i] = sent[Coming].data[i]
      BY <2>1, <2>3
    <3> HIDE DEF e
    <3>2. [id |-> sent[Coming].id, data |-> e] = sent[Coming]
      BY <1>1, <3>1, SameMessage
    <3> QED BY <3>2 DEF e
  <2>5. pos' = ends[Coming]
    <3>1. ends[Coming] = Start(Coming) + HeadLen + 0
      BY <1>3, <2>1 DEF FrameAt
    <3>2. Start(Coming) + HeadLen \in Nat
      BY LenProperties DEF Good, InPlace, TypeOK, HeadLen
    <3> QED BY <1>2, <3>1, <3>2
  <2> QED BY <1>1, <1>2, <2>2, <2>4, <2>5, HandOn DEF Take
<1> QED BY <1>5, <1>6, <1>7

(* The body that is read is the next message's.                            *)
LEMMA UseBodyStep ==
  ASSUME TypeOK, StreamInv, Good, at = "body", Unread >= msg.DataLen, UseBody
  PROVE  Good'
<1>0. /\ pos \in Nat /\ Unread \in Int /\ Len(taken) \in Nat
      /\ Len(sent) \in Nat
  BY LenProperties DEF TypeOK, Unread
<1>1. /\ Coming \in 1..Len(sent) /\ pos = Start(Coming) + HeadLen
      /\ msg.DataLen = DataLen(sent[Coming]) /\ msg.Id = sent[Coming].id
  BY <1>0 DEF Good, InPlace, Coming
<1>2. FrameAt(Coming) /\ sent[Coming] \in Messages
  BY <1>1, ElementOfSeq DEF StreamInv, TypeOK
<1> DEFINE D == DataLen(sent[Coming])
           d == NextCells(D)
<1>3. D \in Nat BY <1>2, MessageData
<1>4. /\ d \in Seq(Nat) /\ Len(d) = D
      /\ \A i \in 1..D : d[i] = stream[pos + i]
  <2>1. D <= Unread BY <1>0, <1>1, <1>3
  <2> QED BY <1>3, <2>1, Cut
<1>5. \A i \in 1..D : d[i] = sent[Coming].data[i]
  BY <1>1, <1>2, <1>4 DEF FrameAt
<1>6. [id |-> sent[Coming].id, data |-> d] = sent[Coming]
  <2> HIDE DEF d
  <2> QED BY <1>2, <1>4, <1>5, SameMessage
<1>7. taken' = Append(taken, sent[Coming]) BY <1>1, <1>6 DEF UseBody, Take
<1>8. pos' = ends[Coming] BY <1>1, <1>2 DEF UseBody, FrameAt
<1> QED BY <1>1, <1>2, <1>7, <1>8, HandOn DEF UseBody, peerVars

(* Out of step stays out of step.                                          *)
LEMMA LostStep ==
  ASSUME TypeOK, Lost, UNCHANGED <<kind, sent>>,
         \/ UNCHANGED taken
         \/ \E e \in Handed : taken' = Append(taken, e)
  PROVE  Lost'
<1>1. PICK k \in 1..Len(sent) :
        /\ k <= Coming /\ ~Passes(sent[k])
        /\ \A i \in 1..Len(taken) : i < k => taken[i] = sent[i]
  BY DEF Lost
<1>2. Passes(sent[k])' = Passes(sent[k]) BY DEF Passes, Fits
<1>3. CASE UNCHANGED taken BY <1>1, <1>2, <1>3 DEF Lost, Coming
<1>4. ASSUME NEW e \in Handed, taken' = Append(taken, e) PROVE Lost'
  <2>1. /\ Len(taken) \in Nat /\ Len(taken') = Len(taken) + 1
        /\ \A i \in 1..Len(taken) : taken'[i] = taken[i]
    <3>1. taken \in Seq(Handed) BY DEF TypeOK, Handed
    <3> QED BY <1>4, <3>1, AppendHanded
  <2>2. Len(sent) \in Nat BY LenProperties DEF TypeOK
  <2>3. k <= Coming' BY <1>1, <2>1, <2>2 DEF Coming
  <2>4. \A i \in 1..Len(taken') : i < k => taken'[i] = sent[i]
    BY <1>1, <2>1, <2>2 DEF Coming
  <2> QED BY <1>1, <1>2, <2>3, <2>4 DEF Lost
<1> QED BY <1>3, <1>4

(* Whoever sends, the reader keeps its place.                              *)
LEMMA SendStep ==
  ASSUME TypeOK, Good \/ Lost, NEW m \in Messages, Send(m)
  PROVE  Good' \/ Lost'
<1> DEFINE L == Len(sent)
<1>1. /\ L \in Nat /\ Len(sent') = L + 1 /\ Len(taken) \in Nat
      /\ \A i \in 1..L : sent'[i] = sent[i]
  BY Sending, LenProperties DEF TypeOK
<1>2. UNCHANGED <<kind, pos, at, msg, taken>> BY DEF Send
<1>3. \A k \in 1..L + 1 : Start(k)' = Start(k) BY SendStart
<1>4. CASE Good
  <2>1. Coming \in 1..L + 1 BY <1>1, <1>4 DEF Good, Coming
  <2>2. Start(Coming)' = Start(Coming)
    <3> DEFINE n == Coming
    <3>1. Start(n)' = Start(Coming)'
      BY <1>2 DEF Start, Coming
    <3>2. ASSUME NEW k \in 1..L + 1, k = Coming
          PROVE  Start(Coming)' = Start(Coming)
      <4>1. Start(k)' = Start(Coming)' BY <1>2, <3>2 DEF Start, Coming
      <4>2. Start(k) = Start(Coming) BY <3>2
      <4> QED BY <1>3, <4>1, <4>2
    <3> QED BY <2>1, <3>2
  <2>3. \A i \in 1..Len(taken) : taken'[i] = sent'[i]
    BY <1>1, <1>2, <1>4 DEF Good
  <2>4. InPlace'
    BY <1>1, <1>2, <1>4, <2>2 DEF Good, InPlace, Coming
  <2> QED BY <1>1, <1>2, <1>4, <2>3, <2>4 DEF Good
<1>5. CASE Lost
  <2>1. PICK k \in 1..L :
          /\ k <= Coming /\ ~Passes(sent[k])
          /\ \A i \in 1..Len(taken) : i < k => taken[i] = sent[i]
    BY <1>5 DEF Lost
  <2>2. ~Passes(sent[k])'
    <3>1. sent'[k] = sent[k] BY <1>1, <2>1
    <3> QED BY <1>2, <2>1, <3>1 DEF Passes, Fits
  <2>3. \A i \in 1..Len(taken) : i < k => taken'[i] = sent'[i]
    BY <1>1, <1>2, <2>1
  <2>4. k \in 1..L + 1 /\ k <= Coming' BY <1>1, <1>2, <2>1 DEF Coming
  <2> QED BY <1>1, <1>2, <2>2, <2>3, <2>4 DEF Lost
<1> QED BY <1>4, <1>5

(* What a reader can unpack of the head of the next message.               *)
LEMMA HeadFound ==
  ASSUME TypeOK, StreamInv, Good, at = "head", Unread >= HeadLen
  PROVE  LET h == [DataLen |-> DataLen(sent[Coming]), Id |-> sent[Coming].id]
             only == IF Passes(sent[Coming]) THEN {h} ELSE {}
         IN /\ kind # "quic" => UnpackHead(NextCells(HeadLen)) = only
            /\ kind = "quic" => Unpack(NextCells(HeadLen)) = only
<1>1. /\ NextCells(HeadLen)[1] = DataLen(sent[Coming])
      /\ NextCells(HeadLen)[2] = sent[Coming].id
      /\ Len(NextCells(HeadLen)) = HeadLen /\ sent[Coming] \in Messages
  BY NextHead
<1>2. DataLen(sent[Coming]) \in Nat BY <1>1, MessageData
<1> DEFINE h == [DataLen |-> DataLen(sent[Coming]), Id |-> sent[Coming].id]
<1>3. UnpackHead(NextCells(HeadLen)) =
        IF Fits(sent[Coming]) THEN {h} ELSE {}
  BY <1>1 DEF UnpackHead, Fits
<1>4. kind = "quic" => Unpack(NextCells(HeadLen)) =
        IF Passes(sent[Coming]) THEN {h} ELSE {}
  <2> SUFFICES ASSUME kind = "quic"
               PROVE  Unpack(NextCells(HeadLen)) =
                        IF Passes(sent[Coming]) THEN {h} ELSE {}
    OBVIOUS
  <2>1. h.DataLen = DataLen(sent[Coming]) OBVIOUS
  <2>2. HeadLen + DataLen(sent[Coming]) <= HeadLen <=> DataLen(sent[Coming]) = 0
    BY <1>2 DEF HeadLen
  <2> HIDE DEF h
  <2> QED BY <1>1, <1>3, <2>1, <2>2 DEF Unpack, Passes
<1>5. kind # "quic" => (Passes(sent[Coming]) <=> Fits(sent[Coming]))
  BY DEF Passes
<1> QED BY <1>3, <1>4, <1>5

(* What has been handed on stays, and the peer's side with it.             *)
LEMMA ReaderKeeps ==
  ASSUME TypeOK, WsInv, Read \/ ReadFails
  PROVE  /\ UNCHANGED <<kind, sent, ends, stream>>
         /\ UNCHANGED taken \/ \E e \in Handed : taken' = Append(taken, e)
<1> USE DEF peerVars, netVars
<1>0. Unread \in Int /\ HeadLen \in Nat /\ msg.DataLen \in Nat
  BY LenProperties DEF TypeOK, Unread, HeadLen
<1>1. UNCHANGED <<kind, sent, ends, stream>>
  BY DEF Read, ReadHead, ReadBody, KcpReadHead, KcpReadBody, QuicReadHead,
     WsRead, ReadFails, UseHead, UseBody, ShortRead
<1>2. << >> \in Seq(Nat) BY EmptySeq
<1>3. ASSUME NEW found \in SUBSET [DataLen : Nat, Id : Nat], UseHead(found)
      PROVE  UNCHANGED taken \/ \E e \in Handed : taken' = Append(taken, e)
  BY <1>2, <1>3 DEF UseHead, Take, Handed
<1>4. ASSUME UseBody, Unread >= msg.DataLen
      PROVE  \E e \in Handed : taken' = Append(taken, e)
  <2>1. NextCells(msg.DataLen) \in Seq(Nat) BY <1>0, <1>4, Cut
  <2> QED BY <1>4, <2>1 DEF UseBody, Take, Handed, TypeOK
<1>5. CASE WsRead
  <2>1. Unread \in Nat /\ HeadLen <= Unread
    BY <1>0, <1>5 DEF WsRead, WsInv, Unread, HeadLen, TypeOK
  <2>2. UnpackHead(NextCells(Unread)) \in SUBSET [DataLen : Nat, Id : Nat]
    BY <1>0, <2>1, Unpacked
  <2> QED BY <1>2, <1>5, <2>2 DEF WsRead, Take, Handed
<1>6. Unread >= HeadLen =>
        /\ UnpackHead(NextCells(HeadLen)) \in SUBSET [DataLen : Nat, Id : Nat]
        /\ Unpack(NextCells(HeadLen)) \in SUBSET [DataLen : Nat, Id : Nat]
  BY <1>0, Unpacked
<1> QED BY <1>1, <1>3, <1>4, <1>5, <1>6
        DEF Read, ReadHead, ReadBody, KcpReadHead, KcpReadBody, QuicReadHead,
            ReadFails, ShortRead

(* A reader is in step, or it was up to a message that does not pass.      *)
LEMMA StepStep ==
  ASSUME IInv, Next
  PROVE  StepInv'
<1> USE DEF peerVars, netVars
<1>0. TypeOK /\ StreamInv /\ StepInv /\ WsInv BY DEF IInv
<1>1. kind' = kind
  BY <1>0, ReaderKeeps DEF Next, Send, Arrive, PeerEnds
<1> SUFFICES ASSUME kind # "ws" PROVE Good' \/ Lost'
  BY <1>1 DEF StepInv
<1>2. Good \/ Lost BY <1>0 DEF StepInv
<1>3. ASSUME NEW m \in Messages, Send(m) PROVE Good' \/ Lost'
  BY <1>0, <1>2, <1>3, SendStep
<1>4. ASSUME UNCHANGED <<kind, sent, ends, pos, at, msg, taken>>
      PROVE  Good' \/ Lost'
  BY <1>2, <1>4 DEF Good, Lost, InPlace, Coming, Start, Passes, Fits
<1>5. ASSUME Read \/ ReadFails, Lost PROVE Lost'
  BY <1>0, <1>5, ReaderKeeps, LostStep
<1>6. ASSUME Good, UNCHANGED <<sent, taken>>, at' = "over" PROVE Good'
  BY <1>6 DEF Good, InPlace
<1>7. ASSUME Good, at = "head", Unread >= HeadLen, NEW found, UseHead(found),
             \/ kind # "quic" /\ found = UnpackHead(NextCells(HeadLen))
             \/ kind = "quic" /\ found = Unpack(NextCells(HeadLen))
      PROVE  Good' \/ Lost'
  <2>1. found = IF Passes(sent[Coming])
                  THEN {[DataLen |-> DataLen(sent[Coming]),
                         Id |-> sent[Coming].id]}
                  ELSE {}
    BY <1>0, <1>7, HeadFound
  <2> QED BY <1>0, <1>7, <2>1, UseHeadStep
<1>8. ASSUME Good, at = "body", Unread >= msg.DataLen, UseBody PROVE Good'
  BY <1>0, <1>8, UseBodyStep
<1>9. ASSUME Read \/ ReadFails, Good PROVE Good' \/ Lost'
  <2>1. CASE ReadHead BY <1>7, <1>9, <2>1 DEF ReadHead, FullReaders
  <2>2. CASE ReadBody BY <1>8, <1>9, <2>2 DEF ReadBody
  <2>3. CASE KcpReadHead
    BY <1>6, <1>7, <1>9, <2>3 DEF KcpReadHead, ShortRead
  <2>4. CASE KcpReadBody
    BY <1>6, <1>8, <1>9, <2>4 DEF KcpReadBody, ShortRead
  <2>5. CASE QuicReadHead
    BY <1>6, <1>7, <1>9, <2>5 DEF QuicReadHead, ShortRead
  <2>6. CASE ReadFails BY <1>6, <1>9, <2>6 DEF ReadFails
  <2> QED BY <1>9, <2>1, <2>2, <2>3, <2>4, <2>5, <2>6 DEF Read, WsRead
<1> QED BY <1>2, <1>3, <1>4, <1>5, <1>9 DEF Next, Arrive, PeerEnds

-----------------------------------------------------------------------------
(* QUIC's reader gets no data.                                             *)
LEMMA QuicStep ==
  ASSUME IInv, Next
  PROVE  QuicInv'
<1> USE DEF peerVars, netVars
<1>0. TypeOK /\ QuicInv /\ WsInv BY DEF IInv
<1>1. kind' = kind
  BY <1>0, ReaderKeeps DEF Next, Send, Arrive, PeerEnds
<1> SUFFICES ASSUME kind = "quic"
             PROVE  at' # "body" /\ \A i \in 1..Len(taken') : taken'[i].data = << >>
  BY <1>1 DEF QuicInv
<1>2. at # "body" /\ \A i \in 1..Len(taken) : taken[i].data = << >>
  BY <1>0 DEF QuicInv
<1>3. CASE UNCHANGED taken /\ at' \in {at, "over"} BY <1>2, <1>3
<1>4. CASE QuicReadHead
  <2>1. CASE ShortRead(HeadLen) BY <1>3, <2>1 DEF ShortRead
  <2>2. CASE Unread >= HeadLen /\ UseHead(Unpack(NextCells(HeadLen)))
    <3>1. /\ Len(NextCells(2)) = 2
          /\ Unpack(NextCells(2)) \in SUBSET [DataLen : Nat, Id : Nat]
      <4>1. 2 \in Nat /\ 2 <= Unread /\ HeadLen <= 2
        BY <1>0, <2>2, LenProperties DEF TypeOK, Unread, HeadLen
      <4> QED BY <1>0, <4>1, Cut, Unpacked
    <3>2. ASSUME NEW h \in Unpack(NextCells(2))
          PROVE  h.Id \in Nat /\ ~(h.DataLen > 0)
      <4>1. h \in [DataLen : Nat, Id : Nat] BY <3>1
      <4>2. 2 + h.DataLen <= 2 BY <3>1 DEF Unpack, HeadLen
      <4>3. \A d \in Nat : 2 + d <= 2 => ~(d > 0) OBVIOUS
      <4> QED BY <4>1, <4>2, <4>3
    <3>3. CASE UNCHANGED <<at, msg, taken>> BY <1>3, <3>3
    <3>4. ASSUME NEW h \in Unpack(NextCells(2)), at' = "head", Take(h.Id, << >>)
          PROVE  at' # "body" /\ \A i \in 1..Len(taken') : taken'[i].data = << >>
      <4> DEFINE e == [id |-> h.Id, data |-> << >>]
      <4>1. e \in Handed /\ e.data = << >> /\ taken' = Append(taken, e)
        <5>1. << >> \in Seq(Nat) BY EmptySeq
        <5>2. h.Id \in Nat BY <3>2
        <5> QED BY <3>4, <5>1, <5>2 DEF Handed, Take
      <4> HIDE DEF e
      <4>2. taken \in Seq(Handed) BY <1>0 DEF TypeOK, Handed
      <4>3. /\ Len(taken) \in Nat /\ Len(taken') = Len(taken) + 1
            /\ taken'[Len(taken) + 1] = e
            /\ \A i \in 1..Len(taken) : taken'[i] = taken[i]
        BY <4>1, <4>2, AppendHanded
      <4> QED BY <1>2, <3>4, <4>1, <4>3
    <3> QED BY <2>2, <3>2, <3>3, <3>4 DEF UseHead, HeadLen
  <2> QED BY <1>4, <2>1, <2>2 DEF QuicReadHead
<1> QED BY <1>2, <1>3, <1>4
        DEF Next, Send, Arrive, PeerEnds, Read, ReadHead, ReadBody,
            KcpReadHead, KcpReadBody, WsRead, ReadFails, FullReaders

-----------------------------------------------------------------------------
(* A KCP reader that is to keep up is in step.                             *)
LEMMA KeepingIsGood ==
  ASSUME TypeOK, StepInv, Keeping
  PROVE  Good
<1>1. kind # "ws" /\ kind # "quic" BY DEF Keeping
<1>2. \A k \in 1..Len(sent) : Passes(sent[k])
  BY <1>1, LenProperties DEF Keeping, FitUpTo, Passes, TypeOK
<1> QED BY <1>1, <1>2 DEF StepInv, Lost

(* Where it reads a head or a body, all of it has come.                    *)
LEMMA KcpHasAll ==
  ASSUME TypeOK, StreamInv, Good,
         NEW j \in 1..Len(sent) + 1, arrived = Start(j), Coming < j
  PROVE  /\ at = "head" => Unread >= HeadLen
         /\ at = "body" => Unread >= msg.DataLen
<1>0. /\ Len(taken) \in Nat /\ Len(sent) \in Nat /\ pos \in Nat
      /\ arrived \in Nat
  BY LenProperties DEF TypeOK
<1>1. Coming \in 1..Len(sent) /\ j - 1 \in 1..Len(sent) /\ Coming <= j - 1
      /\ j # 1
  BY <1>0 DEF Coming
<1>2. ends[Coming] <= ends[j - 1] /\ arrived = ends[j - 1]
  BY <1>1 DEF StreamInv, Start
<1>3. FrameAt(Coming) /\ sent[Coming] \in Messages
  BY <1>1, ElementOfSeq DEF StreamInv, TypeOK
<1>4. DataLen(sent[Coming]) \in Nat BY <1>3, MessageData
<1>5. ends[Coming] = Start(Coming) + 2 + DataLen(sent[Coming])
  BY <1>3 DEF FrameAt, HeadLen
<1>6. CASE at = "head"
  <2>1. pos = Start(Coming) BY <1>6 DEF Good, InPlace
  <2> QED BY <1>0, <1>2, <1>4, <1>5, <1>6, <2>1 DEF Unread, HeadLen
<1>7. CASE at = "body"
  <2>1. pos = Start(Coming) + 2 /\ msg.DataLen = DataLen(sent[Coming])
    BY <1>7 DEF Good, InPlace, HeadLen
  <2>2. Start(Coming) \in Int
    <3>1. CASE Coming = 1 BY <3>1 DEF Start
    <3>2. CASE Coming # 1
      <4>1. Coming - 1 \in 1..Len(ends) BY <1>0, <1>1, <3>2 DEF TypeOK
      <4>2. ends[Coming - 1] \in Nat BY <4>1, ElementOfSeq DEF TypeOK
      <4> QED BY <3>2, <4>2 DEF Start
    <3> QED BY <3>1, <3>2
  <2> QED BY <1>0, <1>2, <1>4, <1>5, <1>7, <2>1, <2>2 DEF Unread
<1> QED BY <1>6, <1>7

(* What KcpInv says of where the stream has been cut.                      *)
CutAt(j) ==
  arrived = Start(j) /\ Coming <= j /\ (at = "body" => Coming < j)

LEMMA KcpStep ==
  ASSUME IInv, Next
  PROVE  KcpInv'
<1> USE DEF peerVars, netVars
<1>0. TypeOK /\ StreamInv /\ StepInv /\ KcpInv /\ WsInv BY DEF IInv
<1>1. /\ arrived \in Nat /\ pos \in Nat /\ Len(taken) \in Nat
      /\ Len(sent) \in Nat /\ Len(ends) = Len(sent) /\ Unread \in Int
  BY <1>0, LenProperties DEF TypeOK, Unread
<1>2. Keeping => at # "over" /\ \E j \in 1..Len(sent) + 1 : CutAt(j)
  BY <1>0 DEF KcpInv, CutAt
<1>3. SUFFICES ASSUME Keeping'
               PROVE  at' # "over" /\ \E j \in 1..Len(sent') + 1 : CutAt(j)'
  BY DEF KcpInv, CutAt
<1>4. ASSUME NEW m \in Messages, Send(m)
      PROVE  at' # "over" /\ \E j \in 1..Len(sent') + 1 : CutAt(j)'
  <2>1. Len(sent') = Len(sent) + 1 /\ \A i \in 1..Len(sent) : sent'[i] = sent[i]
    BY <1>0, <1>4, Sending
  <2>2. UNCHANGED <<kind, whole, ended, arrived, at, taken>> BY <1>4 DEF Send
  <2>3. FitUpTo(Len(sent))
    <3> SUFFICES ASSUME NEW i \in 1..Len(sent) PROVE Fits(sent[i])
      BY DEF FitUpTo
    <3>1. i \in 1..Len(sent') /\ i <= Len(sent') BY <1>1, <2>1
    <3>2. Fits(sent'[i]) BY <1>3, <3>1 DEF Keeping, FitUpTo, Fits
    <3> QED BY <2>1, <3>2 DEF Fits
  <2>4. Keeping BY <1>3, <2>2, <2>3 DEF Keeping
  <2>5. PICK j \in 1..Len(sent) + 1 : CutAt(j) BY <1>2, <2>4
  <2>6. Start(j)' = Start(j) BY <1>0, <1>4, <2>5, SendStart
  <2>7. j \in 1..Len(sent') + 1 BY <1>1, <2>1
  <2> QED BY <1>2, <2>2, <2>4, <2>5, <2>6, <2>7 DEF CutAt, Coming
<1>5. CASE PeerEnds BY <1>3, <1>5 DEF PeerEnds, Keeping
<1>6. CASE ReadFails BY <1>3, <1>6 DEF ReadFails, Keeping
<1>7. ASSUME NEW to \in 1..Len(stream), Arrive(to)
      PROVE  at' # "over" /\ \E j \in 1..Len(sent') + 1 : CutAt(j)'
  <2>1. Keeping BY <1>3, <1>7 DEF Keeping, Arrive, FitUpTo, Fits
  <2>2. PICK j \in 1..Len(sent) + 1 : CutAt(j) BY <1>2, <2>1
  <2>3. PICK i \in 1..Len(ends) : ends[i] = to
    BY <1>3, <1>7 DEF Keeping, Arrive
  <2>4. j <= i
    <3> SUFFICES ASSUME ~(j <= i) PROVE FALSE OBVIOUS
    <3>1. j - 1 \in 1..Len(sent) /\ i <= j - 1 /\ j # 1 BY <1>1
    <3>2. ends[i] <= ends[j - 1] BY <1>0, <1>1, <3>1 DEF StreamInv
    <3>3. arrived = ends[j - 1] BY <2>2, <3>1 DEF CutAt, Start
    <3>4. arrived < to BY <1>7 DEF Arrive
    <3>5. to \in Nat BY <1>0, LenProperties DEF TypeOK
    <3> QED BY <1>1, <2>3, <3>2, <3>3, <3>4, <3>5
  <2>5. i + 1 \in 1..Len(sent) + 1 /\ i + 1 # 1 /\ (i + 1) - 1 = i
    BY <1>1
  <2>6. Start(i + 1)' = to
    BY <1>7, <2>3, <2>5 DEF Start, Arrive
  <2>7. Coming < i + 1 BY <1>1, <2>2, <2>4 DEF CutAt, Coming
  <2>8. CutAt(i + 1)'
    BY <1>1, <1>7, <2>6, <2>7 DEF CutAt, Coming, Arrive
  <2> QED BY <1>2, <1>7, <2>1, <2>5, <2>8 DEF Arrive
<1>8. CASE Read
  <2>1. UNCHANGED <<kind, sent, ends, stream>> /\ UNCHANGED <<whole, ended, arrived>>
    BY <1>0, <1>8, ReaderKeeps
       DEF Read, ReadHead, ReadBody, KcpReadHead, KcpReadBody, QuicReadHead,
           WsRead, UseHead, UseBody, ShortRead
  <2>2. Keeping BY <1>3, <2>1 DEF Keeping, FitUpTo, Fits
  <2>3. Good BY <1>0, <2>2, KeepingIsGood
  <2>4. PICK j \in 1..Len(sent) + 1 : CutAt(j) BY <1>2, <2>2
  <2>5. \A k : Start(k)' = Start(k) BY <2>1 DEF Start
  <2>6. ASSUME Coming < j
        PROVE  /\ at = "head" => Unread >= HeadLen
               /\ at = "body" => Unread >= msg.DataLen
    BY <1>0, <2>3, <2>4, <2>6, KcpHasAll DEF CutAt
  <2>7. at = "head" /\ Unread > 0 => Coming < j
    <3>1. at = "head" /\ Coming = j => Unread = 0
      BY <1>1, <2>3, <2>4 DEF Good, InPlace, CutAt, Unread
    <3> QED BY <1>1, <2>4, <3>1 DEF CutAt, Coming
  <2>8. CASE at = "head"
    <3>0. \/ ShortRead(HeadLen)
          \/ Unread >= HeadLen /\ UseHead(UnpackHead(NextCells(HeadLen)))
      BY <1>8, <2>2, <2>8
         DEF Keeping, Read, ReadHead, ReadBody, KcpReadHead, KcpReadBody,
             QuicReadHead, WsRead, FullReaders
    <3>2. Coming < j
      <4>1. Unread > 0 BY <1>1, <3>0 DEF ShortRead, HeadLen
      <4> QED BY <2>7, <2>8, <4>1
    <3>1. UseHead(UnpackHead(NextCells(HeadLen)))
      <4>1. Unread >= HeadLen BY <2>6, <2>8, <3>2
      <4>2. ~ShortRead(HeadLen) BY <1>1, <4>1 DEF ShortRead, HeadLen
      <4> QED BY <3>0, <4>2
    <3>3. at' \in {"head", "body"} BY <2>8, <3>1 DEF UseHead
    <3>4. CASE UNCHANGED taken
      <4>1. CutAt(j)' BY <1>1, <2>1, <2>4, <2>5, <3>2, <3>4 DEF CutAt, Coming
      <4> QED BY <2>1, <2>4, <3>3, <4>1
    <3>5. ASSUME at' = "head", NEW e \in Handed, taken' = Append(taken, e)
          PROVE  \E i \in 1..Len(sent') + 1 : CutAt(i)'
      <4>1. taken \in Seq(Handed) BY <1>0 DEF TypeOK, Handed
      <4>2. Len(taken') = Len(taken) + 1 BY <3>5, <4>1, AppendHanded
      <4>3. Coming' <= j BY <1>1, <2>4, <3>2, <4>2 DEF Coming
      <4> QED BY <2>1, <2>4, <2>5, <3>5, <4>3 DEF CutAt
    <3>6. UNCHANGED taken \/ (at' = "head" /\ \E e \in Handed : taken' = Append(taken, e))
      <4>1. UNCHANGED taken \/ \E e \in Handed : taken' = Append(taken, e)
        BY <1>0, <1>8, ReaderKeeps
      <4>2. UNCHANGED taken \/ at' = "head" BY <2>8, <3>1 DEF UseHead
      <4> QED BY <4>1, <4>2
    <3> QED BY <3>3, <3>4, <3>5, <3>6
  <2>9. CASE at = "body"
    <3>1. Coming < j BY <2>4, <2>9 DEF CutAt
    <3>2. UseBody /\ Unread >= msg.DataLen
      <4>1. Unread >= msg.DataLen BY <2>6, <2>9, <3>1
      <4>2. msg.DataLen \in Nat BY <1>0 DEF TypeOK
      <4>3. ~ShortRead(msg.DataLen) BY <1>1, <4>1, <4>2 DEF ShortRead
      <4>4. UseBody \/ ShortRead(msg.DataLen)
        BY <1>8, <2>2, <2>9
           DEF Keeping, Read, ReadHead, ReadBody, KcpReadHead, KcpReadBody,
               QuicReadHead, WsRead, FullReaders
      <4> QED BY <4>1, <4>3, <4>4
    <3>3. at' = "head" BY <3>2 DEF UseBody
    <3>4. Len(taken') = Len(taken) + 1
      <4> DEFINE e == [id |-> msg.Id, data |-> NextCells(msg.DataLen)]
      <4>1. msg.DataLen \in Nat /\ msg.Id \in Nat BY <1>0 DEF TypeOK
      <4>2. e \in Handed BY <1>0, <3>2, <4>1, Cut DEF Handed
      <4>3. taken' = Append(taken, e) BY <3>2 DEF UseBody, Take
      <4>4. taken \in Seq(Handed) BY <1>0 DEF TypeOK, Handed
      <4> HIDE DEF e
      <4> QED BY <4>2, <4>3, <4>4, AppendHanded
    <3>5. Coming' <= j BY <1>1, <2>4, <3>1, <3>4 DEF Coming
    <3> QED BY <2>1, <2>4, <2>5, <3>3, <3>5 DEF CutAt
  <2> QED BY <1>2, <1>0, <2>2, <2>8, <2>9 DEF TypeOK
<1> QED BY <1>4, <1>5, <1>6, <1>7, <1>8 DEF Next

-----------------------------------------------------------------------------
(* The invariant.                                                          *)

(* Only Send changes the stream.                                           *)
LEMMA StreamStep ==
  ASSUME TypeOK, StreamInv, WsInv, Next
  PROVE  StreamInv'
<1>1. ASSUME NEW m \in Messages, Send(m) PROVE StreamInv' BY <1>1, SendStream
<1>2. CASE UNCHANGED <<sent, ends, stream>>
  BY <1>2 DEF StreamInv, FrameAt, Start
<1> QED BY <1>1, <1>2, ReaderKeeps DEF Next, Arrive, PeerEnds, peerVars

LEMMA InitInv == Init => IInv
<1> SUFFICES ASSUME Init PROVE IInv OBVIOUS
<1>1. /\ sent = << >> /\ stream = << >> /\ ends = << >> /\ taken = << >>
      /\ kind \in Kinds /\ arrived = 0 /\ pos = 0 /\ at = "head"
      /\ msg = [DataLen |-> 0, Id |-> 0] /\ whole = TRUE /\ ended = FALSE
  BY DEF Init
<1>2. Len(sent) = 0 /\ Len(stream) = 0 /\ Len(ends) = 0 /\ Len(taken) = 0
  BY <1>1
<1>3. TypeOK
  <2>1. /\ sent \in Seq(Messages) /\ stream \in Seq(Nat) /\ ends \in Seq(Nat)
        /\ taken \in Seq([id : Nat, data : Seq(Nat)])
    BY <1>1, EmptySeq
  <2>2. 0 <= MaxFrames BY FramingAssumption
  <2>3. msg \in [DataLen : Nat, Id : Nat] BY <1>1
  <2>4. arrived \in 0..Len(stream) /\ pos \in 0..arrived BY <1>1, <1>2
  <2>5. Len(sent) <= MaxFrames /\ Len(ends) = Len(sent) BY <1>2, <2>2
  <2>6. /\ kind \in Kinds /\ whole \in BOOLEAN /\ ended \in BOOLEAN
        /\ at \in {"head", "body", "over"}
    BY <1>1
  <2> QED BY <2>1, <2>3, <2>4, <2>5, <2>6 DEF TypeOK
<1>4. Start(1) = 0 BY DEF Start
<1>5. StreamInv BY <1>2, <1>4 DEF StreamInv
<1>6. StepInv BY <1>1, <1>2, <1>4 DEF StepInv, Good, InPlace, Coming
<1>7. QuicInv /\ WsInv BY <1>1, <1>2 DEF QuicInv, WsInv
<1>8. KcpInv
  <2>1. 1 \in 1..Len(sent) + 1 /\ Coming = 1 BY <1>2 DEF Coming
  <2> QED BY <1>1, <1>4, <2>1 DEF KcpInv
<1> QED BY <1>3, <1>5, <1>6, <1>7, <1>8 DEF IInv

LEMMA StutterInv ==
  ASSUME IInv, UNCHANGED vars
  PROVE  IInv'
<1>0. UNCHANGED <<peerVars, netVars, pos, at, msg, taken>> BY DEF vars
<1> USE <1>0 DEF peerVars, netVars
<1>1. TypeOK' BY DEF IInv, TypeOK
<1>2. StreamInv' BY DEF IInv, StreamInv, FrameAt, Start
<1>3. StepInv'
  <2>1. Good' <=> Good BY DEF Good, InPlace, Coming, Start
  <2>2. Lost' <=> Lost BY DEF Lost, Coming, Passes, Fits
  <2> QED BY <2>1, <2>2 DEF IInv, StepInv
<1>4. QuicInv' /\ WsInv' BY DEF IInv, QuicInv, WsInv
<1>5. KcpInv' BY DEF IInv, KcpInv, Keeping, FitUpTo, Fits, Coming, Start
<1> QED BY <1>1, <1>2, <1>3, <1>4, <1>5 DEF IInv

(* Every step keeps the strengthening, whatever Kinds, Messages and the    *)
(* limit are.                                                              *)
THEOREM Invariance == Spec => []IInv
<1>1. IInv /\ Next => IInv'
  <2> SUFFICES ASSUME IInv, Next PROVE IInv' OBVIOUS
  <2>1. TypeOK /\ StreamInv /\ WsInv BY DEF IInv
  <2>2. TypeOK' BY <2>1, TypeStep
  <2>3. StreamInv' BY <2>1, StreamStep
  <2>4. WsInv' BY <2>1, WsStep
  <2>5. StepInv' /\ QuicInv' /\ KcpInv' BY StepStep, QuicStep, KcpStep
  <2> QED BY <2>2, <2>3, <2>4, <2>5 DEF IInv
<1> QED BY <1>1, InitInv, StutterInv, PTL DEF Spec

-----------------------------------------------------------------------------
(* WebSocket.                                                              *)

(* A message further on is counted if it fits.                             *)
LEMMA CountNext ==
  ASSUME NEW n \in Nat
  PROVE  /\ FitCount(n) \in Nat /\ FitCount(0) = 0
         /\ FitCount(n + 1) = FitCount(n) + (IF Fits(sent[n + 1]) THEN 1 ELSE 0)
<1> DEFINE F(i) == {k \in 1..i : Fits(sent[k])}
<1>1. IsFiniteSet(F(n))
  <2>1. IsFiniteSet(1..n) BY FS_Interval
  <2> QED BY <2>1, FS_Subset
<1>2. Cardinality(F(n)) \in Nat BY <1>1, FS_CardinalityType
<1>3. FitCount(0) = 0
  <2>1. F(0) = {} OBVIOUS
  <2> QED BY <2>1, FS_EmptySet DEF FitCount
<1>4. CASE Fits(sent[n + 1])
  <2>1. F(n + 1) = F(n) \cup {n + 1} /\ n + 1 \notin F(n) BY <1>4
  <2>2. Cardinality(F(n + 1)) = Cardinality(F(n)) + 1
    BY <1>1, <2>1, FS_AddElement
  <2> QED BY <1>2, <1>3, <1>4, <2>2 DEF FitCount
<1>5. CASE ~Fits(sent[n + 1])
  <2>1. F(n + 1) = F(n) BY <1>5
  <2> QED BY <1>2, <1>3, <1>5, <2>1 DEF FitCount
<1> QED BY <1>4, <1>5

(* The count is of the messages sent, which no step changes.               *)
LEMMA CountKept ==
  ASSUME NEW n \in Nat, \A i \in 1..n : sent'[i] = sent[i]
  PROVE  FitCount(n)' = FitCount(n)
<1>1. {k \in 1..n : Fits(sent'[k])} = {k \in 1..n : Fits(sent[k])} OBVIOUS
<1> QED BY <1>1 DEF FitCount, Fits

(* Messages begin one after another.                                       *)
LEMMA StartsApart ==
  ASSUME TypeOK, StreamInv
  PROVE  /\ \A i \in 1..Len(sent) + 1 : Start(i) \in Nat
         /\ \A i \in 1..Len(sent) : Start(i) + HeadLen <= ends[i] /\ ends[i] \in Nat
         /\ \A i, j \in 1..Len(sent) + 1 : i < j => Start(i) < Start(j)
<1>0. Len(sent) \in Nat /\ Len(ends) = Len(sent) /\ sent \in Seq(Messages)
  BY LenProperties DEF TypeOK
<1>1. \A i \in 1..Len(sent) : ends[i] \in Nat
  BY <1>0, ElementOfSeq DEF TypeOK
<1>2. ASSUME NEW i \in 1..Len(sent) + 1 PROVE Start(i) \in Nat
  <2>1. CASE i = 1 BY <2>1 DEF Start
  <2>2. CASE i # 1
    <3>1. i - 1 \in 1..Len(sent) BY <1>0, <2>2
    <3> QED BY <1>1, <2>2, <3>1 DEF Start
  <2> QED BY <2>1, <2>2
<1>3. ASSUME NEW i \in 1..Len(sent) PROVE Start(i) + HeadLen <= ends[i]
  <2>1. FrameAt(i) /\ sent[i] \in Messages BY <1>0, ElementOfSeq DEF StreamInv
  <2>2. DataLen(sent[i]) \in Nat BY <2>1, MessageData
  <2>3. Start(i) \in Nat BY <1>0, <1>2
  <2> QED BY <2>1, <2>2, <2>3 DEF FrameAt, HeadLen
<1>4. ASSUME NEW i \in 1..Len(sent) + 1, NEW j \in 1..Len(sent) + 1, i < j
      PROVE  Start(i) < Start(j)
  <2>1. i \in 1..Len(sent) /\ j - 1 \in 1..Len(sent) /\ i <= j - 1 /\ j # 1
    BY <1>0, <1>4
  <2>2. ends[i] <= ends[j - 1] /\ Start(j) = ends[j - 1]
    BY <2>1 DEF StreamInv, Start
  <2>3. Start(i) + 2 <= ends[i] BY <1>3, <2>1 DEF HeadLen
  <2> QED BY <1>1, <1>2, <2>1, <2>2, <2>3
<1> QED BY <1>1, <1>2, <1>3, <1>4

(* What is before a WebSocket reader is one message, the next.             *)
LEMMA WsHead ==
  ASSUME TypeOK, StreamInv, NEW p \in 0..Len(sent), WsAt(p), Unread > 0
  PROVE  /\ p + 1 \in 1..Len(sent) /\ arrived = ends[p + 1]
         /\ arrived = Start(p + 2)
         /\ NextCells(Unread)[1] = DataLen(sent[p + 1])
         /\ NextCells(Unread)[2] = sent[p + 1].id
<1>0. /\ arrived \in Nat /\ pos \in Nat /\ Len(sent) \in Nat
  BY LenProperties DEF TypeOK
<1>1. p < Len(sent) /\ arrived = ends[p + 1]
  BY <1>0 DEF WsAt, Unread
<1>2. p + 1 \in 1..Len(sent) BY <1>0, <1>1
<1>3. FrameAt(p + 1) /\ Start(p + 1) + 2 <= ends[p + 1]
  BY <1>2, StartsApart DEF StreamInv, HeadLen
<1>4. Unread \in Nat /\ 2 <= Unread
  BY <1>0, <1>1, <1>3 DEF WsAt, Unread
<1>5. \A i \in 1..Unread : NextCells(Unread)[i] = stream[pos + i]
  BY <1>4, Cut
<1>6. NextCells(Unread)[1] = stream[pos + 1] /\ NextCells(Unread)[2] = stream[pos + 2]
  BY <1>4, <1>5
<1>7. arrived = Start(p + 2)
  <2>1. p + 2 # 1 /\ (p + 2) - 1 = p + 1 BY <1>2
  <2> QED BY <1>1, <2>1 DEF Start
<1> QED BY <1>1, <1>2, <1>3, <1>6, <1>7 DEF WsAt, FrameAt, HeadLen

(* WsRead takes one message off the stream, and hands it on if it fits.    *)
LEMMA WsTakes ==
  ASSUME TypeOK, StreamInv, NEW p \in 0..Len(sent), WsAt(p), WsRead
  PROVE  /\ p + 1 \in 1..Len(sent) /\ pos' = Start(p + 2)
         /\ UNCHANGED <<kind, sent, stream, ends, arrived, at>>
         /\ Fits(sent[p + 1]) =>
              taken' = Append(taken, [id |-> sent[p + 1].id, data |-> << >>])
         /\ ~Fits(sent[p + 1]) => UNCHANGED taken
<1>1. Unread > 0 /\ pos' = arrived BY DEF WsRead
<1>2. /\ p + 1 \in 1..Len(sent) /\ arrived = Start(p + 2)
      /\ NextCells(Unread)[1] = DataLen(sent[p + 1])
      /\ NextCells(Unread)[2] = sent[p + 1].id
  BY <1>1, WsHead
<1>3. UNCHANGED <<kind, sent, stream, ends, arrived, at>>
  BY DEF WsRead, peerVars, netVars
<1>4. UnpackHead(NextCells(Unread)) =
        IF Fits(sent[p + 1])
          THEN {[DataLen |-> DataLen(sent[p + 1]), Id |-> sent[p + 1].id]}
          ELSE {}
  BY <1>2 DEF UnpackHead, Fits
<1>5. CASE Fits(sent[p + 1])
  <2> DEFINE h == [DataLen |-> DataLen(sent[p + 1]), Id |-> sent[p + 1].id]
  <2>1. UnpackHead(NextCells(Unread)) = {h} /\ h.Id = sent[p + 1].id
    BY <1>4, <1>5
  <2> HIDE DEF h
  <2>2. Take(h.Id, << >>) BY <2>1 DEF WsRead
  <2>3. taken' = Append(taken, [id |-> sent[p + 1].id, data |-> << >>])
    BY <2>1, <2>2 DEF Take
  <2> QED BY <1>1, <1>2, <1>3, <1>5, <2>3
<1>6. CASE ~Fits(sent[p + 1])
  <2>1. UNCHANGED taken BY <1>4, <1>6 DEF WsRead
  <2> QED BY <1>1, <1>2, <1>3, <1>6, <2>1
<1> QED BY <1>5, <1>6

(* What WsRead hands on, and how many that makes.                          *)
LEMMA WsHands ==
  ASSUME TypeOK, NEW p \in 0..Len(sent), WsAt(p), p + 1 \in 1..Len(sent),
         taken' = Append(taken, [id |-> sent[p + 1].id, data |-> << >>])
  PROVE  /\ Len(taken) \in Nat /\ Len(taken') = Len(taken) + 1
         /\ taken'[Len(taken) + 1] = [id |-> sent[p + 1].id, data |-> << >>]
         /\ \A i \in 1..Len(taken) : taken'[i] = taken[i]
<1>1. sent[p + 1] \in Messages BY ElementOfSeq DEF TypeOK
<1>2. sent[p + 1].id \in Nat /\ << >> \in Seq(Nat)
  BY <1>1, MessageData, EmptySeq
<1>3. [id |-> sent[p + 1].id, data |-> << >>] \in Handed BY <1>2 DEF Handed
<1>4. taken \in Seq(Handed) BY DEF TypeOK, Handed
<1> QED BY <1>3, <1>4, AppendHanded

LEMMA WsPlaceStep ==
  ASSUME IInv, WsPlace, Next
  PROVE  WsPlace'
<1> USE DEF peerVars, netVars
<1>0. TypeOK /\ StreamInv /\ WsInv BY DEF IInv
<1>1. kind' = kind BY <1>0, ReaderKeeps DEF Next, Send, Arrive, PeerEnds
<1> SUFFICES ASSUME kind = "ws" PROVE WsPlace' BY <1>1 DEF WsPlace
<1>2. PICK p \in 0..Len(sent) : WsAt(p) BY DEF WsPlace
<1>3. at # "body" BY DEF WsPlace
<1>4. /\ arrived \in Nat /\ pos \in Nat /\ Len(sent) \in Nat /\ p \in Nat
      /\ Len(ends) = Len(sent)
  BY <1>0, LenProperties DEF TypeOK
<1>5. ASSUME NEW m \in Messages, Send(m) PROVE WsPlace'
  <2>1. /\ Len(sent') = Len(sent) + 1 /\ \A i \in 1..Len(sent) : sent'[i] = sent[i]
        /\ \A i \in 1..Len(sent) : ends'[i] = ends[i]
    BY <1>0, <1>5, Sending
  <2>2. UNCHANGED <<kind, arrived, pos, at, taken>> BY <1>5 DEF Send
  <2>3. Start(p + 1)' = Start(p + 1) BY <1>0, <1>4, <1>5, SendStart
  <2>4. FitCount(p)' = FitCount(p)
    <3>1. \A i \in 1..p : sent'[i] = sent[i] BY <1>4, <2>1
    <3> QED BY <1>4, <3>1, CountKept
  <2>5. p < Len(sent) => p < Len(sent') /\ ends'[p + 1] = ends[p + 1]
    BY <1>4, <2>1
  <2>6. WsAt(p)' BY <1>2, <2>2, <2>3, <2>4, <2>5 DEF WsAt
  <2>7. p \in 0..Len(sent') BY <1>4, <2>1
  <2> QED BY <1>3, <2>2, <2>6, <2>7 DEF WsPlace
<1>6. ASSUME NEW to \in 1..Len(stream), Arrive(to) PROVE WsPlace'
  <2>1. PICK i \in 1..Len(ends) : to = ends[i] /\ arrived = Start(i)
    BY <1>6 DEF Arrive, MayArrive, Start
  <2>2. arrived = pos BY <1>6 DEF Arrive, MayArrive
  <2>3. i = p + 1
    <3>1. i \in 1..Len(sent) + 1 /\ p + 1 \in 1..Len(sent) + 1 BY <1>4
    <3>2. Start(i) = Start(p + 1) BY <1>2, <2>1, <2>2 DEF WsAt
    <3>3. ~(i < p + 1) /\ ~(p + 1 < i) BY <1>0, <3>1, <3>2, StartsApart
    <3> QED BY <1>4, <3>3
  <2>4. p < Len(sent) BY <1>4, <2>3
  <2>5. UNCHANGED <<kind, sent, ends, pos, at, taken>> /\ arrived' = to
    BY <1>6 DEF Arrive
  <2>6. WsAt(p)'
    BY <1>2, <2>1, <2>3, <2>4, <2>5 DEF WsAt, Start, FitCount, Fits
  <2> QED BY <1>3, <2>5, <2>6 DEF WsPlace
<1>7. CASE PeerEnds
  <2>1. UNCHANGED <<kind, sent, ends, arrived, pos, at, taken>>
    BY <1>7 DEF PeerEnds
  <2>2. WsAt(p)' BY <1>2, <2>1 DEF WsAt, Start, FitCount, Fits
  <2> QED BY <1>3, <2>1, <2>2 DEF WsPlace
<1>8. CASE ReadFails
  <2>1. UNCHANGED <<kind, sent, ends, arrived, taken>> /\ at' = "over"
        /\ pos' = arrived
    BY <1>8 DEF ReadFails
  <2>2. at = "head" BY <1>0, <1>3, <1>8 DEF ReadFails, TypeOK
  <2>3. pos = arrived
    BY <1>0, <1>4, <1>8, <2>2 DEF ReadFails, WsInv, Unread, HeadLen
  <2>4. WsAt(p)' BY <1>2, <2>1, <2>3 DEF WsAt, Start, FitCount, Fits
  <2> QED BY <2>1, <2>4 DEF WsPlace
<1>9. CASE Read
  <2>0. WsRead
    BY <1>9 DEF Read, ReadHead, ReadBody, KcpReadHead, KcpReadBody,
       QuicReadHead, FullReaders
  <2>1. /\ p + 1 \in 1..Len(sent) /\ pos' = Start(p + 2)
        /\ UNCHANGED <<kind, sent, stream, ends, arrived, at>>
        /\ Fits(sent[p + 1]) =>
             taken' = Append(taken, [id |-> sent[p + 1].id, data |-> << >>])
        /\ ~Fits(sent[p + 1]) => UNCHANGED taken
    BY <1>0, <1>2, <2>0, WsTakes
  <2>2. arrived' = pos' BY <2>0 DEF WsRead
  <2>3. Len(taken) = FitCount(p) BY <1>2 DEF WsAt
  <2>4. Len(taken') = FitCount(p + 1)
    <3>1. CASE Fits(sent[p + 1])
      <4>1. Len(taken') = Len(taken) + 1 BY <1>0, <1>2, <2>1, <3>1, WsHands
      <4> QED BY <1>4, <2>3, <3>1, <4>1, CountNext
    <3>2. CASE ~Fits(sent[p + 1])
      <4>1. taken' = taken BY <2>1, <3>2
      <4>2. FitCount(p) \in Nat /\ FitCount(p + 1) = FitCount(p)
        <5>1. FitCount(p) \in Nat
              /\ FitCount(p + 1) =
                   FitCount(p) + (IF Fits(sent[p + 1]) THEN 1 ELSE 0)
          BY <1>4, CountNext
        <5>2. FitCount(p + 1) = FitCount(p) + 0 BY <3>2, <5>1
        <5> QED BY <5>1, <5>2
      <4> QED BY <2>3, <4>1, <4>2
    <3> QED BY <3>1, <3>2
  <2>5. FitCount(p + 1)' = FitCount(p + 1)
    BY <1>4, <2>1, CountKept
  <2>6. Start(p + 2)' = Start(p + 2) /\ (p + 1) + 1 = p + 2
    BY <1>4, <2>1 DEF Start
  <2>7. WsAt(p + 1)' BY <2>1, <2>2, <2>4, <2>5, <2>6 DEF WsAt
  <2>8. p + 1 \in 0..Len(sent') BY <1>4, <2>1
  <2> QED BY <1>3, <2>1, <2>7, <2>8 DEF WsPlace
<1> QED BY <1>5, <1>6, <1>7, <1>8, <1>9 DEF Next

(* The i-th that has been handed on is from message j.                     *)
FromWs(i, j) ==
  /\ Fits(sent[j]) /\ FitCount(j) = i
  /\ taken[i] = [id |-> sent[j].id, data |-> << >>]

LEMMA WsInStepStep ==
  ASSUME IInv, WsPlace, WsInStep, Next
  PROVE  WsInStep'
<1> USE DEF peerVars, netVars
<1>0. TypeOK /\ StreamInv /\ WsInv BY DEF IInv
<1>1. kind' = kind BY <1>0, ReaderKeeps DEF Next, Send, Arrive, PeerEnds
<1> SUFFICES ASSUME kind = "ws"
             PROVE  \A i \in 1..Len(taken') : \E j \in 1..Len(sent') : FromWs(i, j)'
  BY <1>1 DEF WsInStep, FromWs
<1>2. \A i \in 1..Len(taken) : \E j \in 1..Len(sent) : FromWs(i, j)
  BY DEF WsInStep, FromWs
<1>3. PICK p \in 0..Len(sent) : WsAt(p) BY DEF WsPlace
<1>4. Len(sent) \in Nat /\ Len(taken) \in Nat /\ p \in Nat
  BY <1>0, LenProperties DEF TypeOK
<1>5. ASSUME Len(sent) <= Len(sent') /\ Len(sent') \in Nat,
             \A i \in 1..Len(sent) : sent'[i] = sent[i],
             NEW i \in 1..Len(taken), taken'[i] = taken[i]
      PROVE  \E j \in 1..Len(sent') : FromWs(i, j)'
  <2>1. PICK j \in 1..Len(sent) : FromWs(i, j) BY <1>2
  <2>2. j \in Nat /\ \A k \in 1..j : sent'[k] = sent[k] BY <1>4, <1>5
  <2>3. FitCount(j)' = FitCount(j) BY <2>2, CountKept
  <2>4. FromWs(i, j)' BY <1>5, <2>1, <2>3 DEF FromWs, Fits
  <2>5. j \in 1..Len(sent') BY <1>4, <1>5
  <2> QED BY <2>4, <2>5
<1>6. ASSUME NEW m \in Messages, Send(m)
      PROVE  \A i \in 1..Len(taken') : \E j \in 1..Len(sent') : FromWs(i, j)'
  <2>1. Len(sent') = Len(sent) + 1 /\ \A i \in 1..Len(sent) : sent'[i] = sent[i]
    BY <1>0, <1>6, Sending
  <2>2. taken' = taken BY <1>6 DEF Send
  <2> QED BY <1>4, <1>5, <2>1, <2>2
<1>7. CASE UNCHANGED <<sent, taken>>
  BY <1>4, <1>5, <1>7
<1>8. CASE Read
  <2>0. WsRead
    BY <1>8 DEF Read, ReadHead, ReadBody, KcpReadHead, KcpReadBody,
       QuicReadHead, FullReaders
  <2>1. /\ p + 1 \in 1..Len(sent) /\ UNCHANGED sent
        /\ Fits(sent[p + 1]) =>
             taken' = Append(taken, [id |-> sent[p + 1].id, data |-> << >>])
        /\ ~Fits(sent[p + 1]) => UNCHANGED taken
    BY <1>0, <1>3, <2>0, WsTakes
  <2>2. CASE ~Fits(sent[p + 1]) BY <1>7, <2>1, <2>2
  <2>3. CASE Fits(sent[p + 1])
    <3>1. /\ Len(taken') = Len(taken) + 1
          /\ taken'[Len(taken) + 1] = [id |-> sent[p + 1].id, data |-> << >>]
          /\ \A i \in 1..Len(taken) : taken'[i] = taken[i]
      BY <1>0, <1>3, <2>1, <2>3, WsHands
    <3>2. FitCount(p + 1) = Len(taken) + 1
      BY <1>3, <1>4, <2>3, CountNext DEF WsAt
    <3>3. FitCount(p + 1)' = FitCount(p + 1) BY <1>4, <2>1, CountKept
    <3>4. PICK n \in Nat : n = Len(taken) + 1 BY <1>4
    <3>5. FromWs(n, p + 1)'
      BY <2>1, <2>3, <3>1, <3>2, <3>3, <3>4 DEF FromWs, Fits
    <3> SUFFICES ASSUME NEW i \in 1..Len(taken')
                 PROVE  \E j \in 1..Len(sent') : FromWs(i, j)'
      OBVIOUS
    <3>6. CASE i \in 1..Len(taken)
      <4>1. taken'[i] = taken[i] BY <3>1, <3>6
      <4>2. Len(sent) <= Len(sent') /\ Len(sent') \in Nat BY <1>4, <2>1
      <4>3. \A k \in 1..Len(sent) : sent'[k] = sent[k] BY <2>1
      <4> QED BY <1>5, <3>6, <4>1, <4>2, <4>3
    <3>7. CASE i = n BY <2>1, <3>5, <3>7
    <3> QED BY <1>4, <3>1, <3>4, <3>6, <3>7
  <2> QED BY <2>2, <2>3
<1> QED BY <1>6, <1>7, <1>8 DEF Next, Arrive, PeerEnds, ReadFails

LEMMA WsStart == Init => WsPlace /\ WsInStep
<1> SUFFICES ASSUME Init PROVE WsPlace /\ WsInStep OBVIOUS
<1>1. Len(sent) = 0 /\ Len(taken) = 0 /\ at = "head" /\ pos = 0 /\ arrived = 0
  BY DEF Init
<1>2. FitCount(0) = 0 BY CountNext
<1>3. 0 \in 0..Len(sent) /\ WsAt(0) BY <1>1, <1>2 DEF WsAt, Start
<1> QED BY <1>1, <1>3 DEF WsPlace, WsInStep

LEMMA WsStutter ==
  ASSUME WsPlace, WsInStep, UNCHANGED vars
  PROVE  (WsPlace /\ WsInStep)'
<1>1. UNCHANGED <<kind, sent, ends, arrived, pos, at, taken>>
  BY DEF vars, peerVars, netVars
<1> QED BY <1>1 DEF WsPlace, WsAt, WsInStep, FitCount, Fits, Start

-----------------------------------------------------------------------------
(* What follows from it.                                                   *)

(* The variables of the readers keep their types: what UnpackHead makes of *)
(* cells that are no head is a length and an id all the same.              *)
THEOREM TypeCorrect == Spec => []TypeOK
<1>1. IInv => TypeOK BY DEF IInv
<1> QED BY <1>1, Invariance, PTL

(* io.ReadFull (TCP and epoll) and KCP's Read with its checks of size cut  *)
(* any stream into the messages that were packed.                          *)
THEOREM StaysInStep == Spec => []InStep
<1>1. ASSUME IInv PROVE InStep
  <2>1. TypeOK /\ StepInv BY <1>1 DEF IInv
  <2>2. Len(sent) \in Nat /\ Len(taken) \in Nat
    BY <2>1, LenProperties DEF TypeOK
  <2> SUFFICES ASSUME kind \in Cutters, NEW i \in 1..Len(taken), FitUpTo(i)
               PROVE  i <= Len(sent) /\ taken[i] = sent[i]
    BY DEF InStep
  <2>3. kind # "ws" /\ kind # "quic" BY DEF Cutters, FullReaders
  <2>4. CASE Good BY <2>2, <2>4 DEF Good
  <2>5. CASE Lost
    <3>1. PICK k \in 1..Len(sent) :
            /\ k <= Coming /\ ~Passes(sent[k])
            /\ \A n \in 1..Len(taken) : n < k => taken[n] = sent[n]
      BY <2>5 DEF Lost
    <3>2. ~Fits(sent[k]) BY <2>3, <3>1 DEF Passes
    <3>3. i < k BY <2>2, <3>2 DEF FitUpTo
    <3> QED BY <2>2, <3>1, <3>3
  <2> QED BY <2>1, <2>3, <2>4, <2>5 DEF StepInv
<1> QED BY <1>1, Invariance, PTL

(* A WebSocket reader, which is given one message after another, hands on  *)
(* the ids of those within the limit, in order and each once.              *)
THEOREM WsStaysInStep == Spec => []WsInStep
<1>1. Init => WsPlace /\ WsInStep BY WsStart
<1>2. IInv /\ WsPlace /\ WsInStep /\ [Next]_vars => (WsPlace /\ WsInStep)'
  BY WsPlaceStep, WsInStepStep, WsStutter
<1> QED BY <1>1, <1>2, Invariance, PTL DEF Spec

(* QUIC's reader, whose Unpack is given the head alone, hands on no data,  *)
(* and hands on the messages until the first that has some.                *)
THEOREM QuicWithoutData == Spec => []QuicTakesNoData
<1>1. ASSUME IInv PROVE QuicTakesNoData
  <2>1. TypeOK /\ StepInv /\ QuicInv BY <1>1 DEF IInv
  <2>2. Len(sent) \in Nat /\ Len(taken) \in Nat
    BY <2>1, LenProperties DEF TypeOK
  <2> SUFFICES ASSUME kind = "quic", NEW i \in 1..Len(taken)
               PROVE  /\ taken[i].data = << >>
                      /\ (\A j \in 1..i : j <= Len(sent) => sent[j].data = << >>)
                           => i <= Len(sent) /\ taken[i] = sent[i]
    BY DEF QuicTakesNoData
  <2>3. taken[i].data = << >> BY <2>1 DEF QuicInv
  <2>4. CASE Good BY <2>2, <2>3, <2>4 DEF Good
  <2>5. ASSUME Lost, \A j \in 1..i : j <= Len(sent) => sent[j].data = << >>
        PROVE  i <= Len(sent) /\ taken[i] = sent[i]
    <3>1. PICK k \in 1..Len(sent) :
            /\ k <= Coming /\ ~Passes(sent[k])
            /\ \A n \in 1..Len(taken) : n < k => taken[n] = sent[n]
      BY <2>5 DEF Lost
    <3>2. sent[k].data # << >>
      <4>1. Accepts(0) BY FramingAssumption DEF Accepts
      <4> SUFFICES ASSUME sent[k].data = << >> PROVE FALSE OBVIOUS
      <4>2. DataLen(sent[k]) = 0 BY DEF DataLen
      <4> QED BY <3>1, <4>1, <4>2 DEF Passes, Fits
    <3>3. i < k BY <2>2, <2>5, <3>2
    <3> QED BY <2>2, <3>1, <3>3
  <2> QED BY <2>1, <2>3, <2>4, <2>5 DEF StepInv
<1> QED BY <1>1, Invariance, PTL

(* KCP's reader does not give up while its messages come whole and fit the *)
(* limit: its one Read for a body always finds all of the body.            *)
THEOREM KcpNeverShort == Spec => []KcpKeepsUp
<1>1. IInv => KcpKeepsUp BY DEF IInv, KcpInv, Keeping, KcpKeepsUp
<1> QED BY <1>1, Invariance, PTL
=============================================================================
