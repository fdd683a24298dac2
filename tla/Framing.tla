------------------------------ MODULE Framing ------------------------------
(***************************************************************************)
(* Frames on a stream: DataPack (message/datapack.go) and what the readers *)
(* of the transports make of the bytes they are given.  One connection;    *)
(* its peer packs messages and the reader cuts the stream into messages    *)
(* again.                                                                  *)
(*                                                                         *)
(* The stream is a sequence of cells: the two fields of a head are a cell  *)
(* each (uint32 in the code), and so is a unit of data.  A stream that is  *)
(* out of step takes cells of data for a head, so a cell is a number.      *)
(***************************************************************************)
EXTENDS Naturals, Sequences, FiniteSets

CONSTANTS
  Kinds,           \* transports in use
  Ids,             \* message ids
  Cells,           \* values a cell of data can have
  MaxLen,          \* bound: cells of data in a message
  MaxFrames,       \* bound: messages the peer sends
  MaxPacketSize    \* utils.Conf.MaxPacketSize, 0 for no limit

AllKinds == {"tcp", "epoll", "kcp", "quic", "ws"}

(* The readers that use io.ReadFull, and those that ever come to a body.   *)
FullReaders == {"tcp", "epoll"}
Cutters == FullReaders \cup {"kcp"}

ASSUME FramingAssumption ==
  /\ Kinds \subseteq AllKinds /\ Kinds # {}
  /\ Ids \subseteq Nat /\ Cells \subseteq Nat
  /\ MaxLen \in Nat /\ MaxFrames \in Nat /\ MaxPacketSize \in Nat

VARIABLES
  kind,     \* the transport
  sent,     \* messages the peer has packed
  stream,   \* the cells it has written
  ends,     \* where in the stream each message ends
  whole,    \* every segment so far has ended where a message ends
  arrived,  \* cells that have arrived
  pos,      \* cells that have been read
  at,       \* where the reader is: before a head, before a body, at its end
  msg,      \* the head that has been unpacked
  taken,    \* messages handed on, heartbeats included
  ended     \* the socket gives no more after what has arrived

peerVars == <<kind, sent, stream, ends>>
netVars == <<whole, arrived, ended>>
vars == <<peerVars, netVars, pos, at, msg, taken>>

HeadLen == 2

Messages == [id : Ids, data : UNION {[1..n -> Cells] : n \in 0..MaxLen}]

Init ==
  /\ kind \in Kinds
  /\ sent = << >> /\ stream = << >> /\ ends = << >>
  /\ arrived = 0 /\ pos = 0
  /\ whole = TRUE /\ ended = FALSE
  /\ at = "head"
  /\ msg = [DataLen |-> 0, Id |-> 0]
  /\ taken = << >>

-----------------------------------------------------------------------------
(* DataPack.                                                               *)

DataLen(m) == Len(m.data)

Pack(m) == <<DataLen(m), m.id>> \o m.data

(* The check against the limit, after both fields have been read.          *)
Accepts(len) == MaxPacketSize = 0 \/ len <= MaxPacketSize

(* Faulty variant: a message of just the limit is refused.                 *)
UnpackHeadBelow(cells) ==
  IF cells[1] < MaxPacketSize
    THEN {[DataLen |-> cells[1], Id |-> cells[2]]} ELSE {}

(* The heads that UnpackHead makes of some cells: none for an error.       *)
UnpackHead(cells) ==
  IF Accepts(cells[1]) THEN {[DataLen |-> cells[1], Id |-> cells[2]]} ELSE {}

(* Unpack wants the data in the same cells, and gives an error when they   *)
(* are too few.                                                            *)
Unpack(cells) ==
  {m \in UnpackHead(cells) : HeadLen + m.DataLen <= Len(cells)}

-----------------------------------------------------------------------------
(* The peer and the network.                                               *)

(* NewMsgPackage, Pack and the writer's Write.                             *)
Send(m) ==
  /\ ~ended /\ Len(sent) < MaxFrames
  /\ sent' = Append(sent, m)
  /\ stream' = stream \o Pack(m)
  /\ ends' = Append(ends, Len(stream) + HeadLen + DataLen(m))
  /\ UNCHANGED <<kind, netVars, pos, at, msg, taken>>

(* TCP and QUIC cut the stream anywhere.  KCP gives a write as one segment *)
(* or several, one at a time; a WebSocket message is a write.              *)
MayArrive(to) ==
  CASE kind = "kcp" -> /\ pos = arrived
                       /\ \A i \in 1..Len(ends) : ~(arrived < ends[i] /\ ends[i] < to)
    [] kind = "ws" -> /\ pos = arrived
                      /\ \E i \in 1..Len(ends) :
                           /\ to = ends[i]
                           /\ arrived = IF i = 1 THEN 0 ELSE ends[i - 1]
    [] OTHER -> TRUE

Arrive(to) ==
  /\ ~ended
  /\ arrived < to /\ to <= Len(stream)
  /\ MayArrive(to)
  /\ arrived' = to
  /\ whole' = (whole /\ \E i \in 1..Len(ends) : ends[i] = to)
  /\ UNCHANGED <<peerVars, ended, pos, at, msg, taken>>

(* The peer has gone, or this side has closed the socket.                  *)
PeerEnds ==
  /\ ~ended
  /\ ended' = TRUE
  /\ UNCHANGED <<peerVars, whole, arrived, pos, at, msg, taken>>

-----------------------------------------------------------------------------
(* The readers.                                                            *)

Unread == arrived - pos

NextCells(n) == SubSeq(stream, pos + 1, pos + n)

Take(id, data) == taken' = Append(taken, [id |-> id, data |-> data])

(* A head has been read and unpacked, with result found.  A body is read   *)
(* next if there is one.  After an error every loop goes on with a head.   *)
UseHead(found) ==
  /\ pos' = pos + HeadLen
  /\ \/ \E m \in found :
          /\ msg' = m
          /\ IF m.DataLen > 0
               THEN at' = "body" /\ UNCHANGED taken
               ELSE at' = "head" /\ Take(m.Id, << >>)
     \/ found = {} /\ UNCHANGED <<at, msg, taken>>
  /\ UNCHANGED <<peerVars, netVars>>

UseBody ==
  /\ pos' = pos + msg.DataLen
  /\ Take(msg.Id, NextCells(msg.DataLen))
  /\ at' = "head"
  /\ UNCHANGED <<peerVars, netVars, msg>>

(* io.ReadFull of TCP and epoll waits for all it wants.                    *)
ReadHead ==
  /\ at = "head" /\ kind \in FullReaders
  /\ Unread >= HeadLen
  /\ UseHead(UnpackHead(NextCells(HeadLen)))

(* Faulty variant: Read in the place of io.ReadFull.                       *)
ReadBodyOnce ==
  /\ at = "body" /\ kind \in FullReaders
  /\ \E n \in 1..msg.DataLen :
       /\ n <= Unread
       /\ pos' = pos + n
       /\ Take(msg.Id, NextCells(n))
  /\ at' = "head"
  /\ UNCHANGED <<peerVars, netVars, msg>>

ReadBody ==
  /\ at = "body" /\ kind \in FullReaders
  /\ Unread >= msg.DataLen
  /\ UseBody

(* One Read of KCP and QUIC gives what there is.  When that is too little  *)
(* the reader returns, and its connection is stopped.                      *)
ShortRead(need) ==
  /\ Unread \in 1..(need - 1)
  /\ pos' = arrived
  /\ at' = "over"
  /\ UNCHANGED <<peerVars, netVars, msg, taken>>

KcpReadHead ==
  /\ at = "head" /\ kind = "kcp"
  /\ \/ ShortRead(HeadLen)
     \/ Unread >= HeadLen /\ UseHead(UnpackHead(NextCells(HeadLen)))

(* Faulty variant: the size is compared with a cell too many.              *)
KcpReadBodyLonger ==
  /\ at = "body" /\ kind = "kcp"
  /\ \/ ShortRead(msg.DataLen + 1)
     \/ Unread > msg.DataLen /\ UseBody

KcpReadBody ==
  /\ at = "body" /\ kind = "kcp"
  /\ \/ ShortRead(msg.DataLen)
     \/ Unread >= msg.DataLen /\ UseBody

(* Faulty variant: UnpackHead in the place of Unpack, and the body read.   *)
QuicReadBoth ==
  /\ at = "head" /\ kind = "quic"
  /\ Unread >= HeadLen
  /\ \E m \in UnpackHead(NextCells(HeadLen)) :
       /\ Unread >= HeadLen + m.DataLen
       /\ pos' = pos + HeadLen + m.DataLen
       /\ Take(m.Id, SubSeq(stream, pos + HeadLen + 1, pos'))
  /\ UNCHANGED <<peerVars, netVars, at, msg>>

(* QUIC gives the cells of the head to Unpack, so it never has a body to   *)
(* read.                                                                   *)
QuicReadHead ==
  /\ at = "head" /\ kind = "quic"
  /\ \/ ShortRead(HeadLen)
     \/ Unread >= HeadLen /\ UseHead(Unpack(NextCells(HeadLen)))

(* WebSocket reads a whole message, unpacks its head and never sets Data.  *)
WsRead ==
  /\ at = "head" /\ kind = "ws"
  /\ Unread > 0
  /\ pos' = arrived
  /\ \/ \E m \in UnpackHead(NextCells(Unread)) : msg' = m /\ Take(m.Id, << >>)
     \/ UnpackHead(NextCells(Unread)) = {} /\ UNCHANGED <<msg, taken>>
  /\ UNCHANGED <<peerVars, netVars, at>>

(* A read gives an error, and what there was of a head or a body is lost.  *)
(* TCP, epoll and WebSocket call read again, to get the same error; KCP    *)
(* and QUIC return.                                                        *)
ReadFails ==
  /\ ended /\ at # "over"
  /\ Unread < IF at = "head" THEN HeadLen ELSE msg.DataLen
  /\ pos' = arrived
  /\ at' = "over"
  /\ UNCHANGED <<peerVars, netVars, msg, taken>>

Read ==
  \/ ReadHead \/ ReadBody \/ KcpReadHead \/ KcpReadBody \/ QuicReadHead
  \/ WsRead

Next ==
  \/ \E m \in Messages : Send(m)
  \/ \E to \in 1..Len(stream) : Arrive(to)
  \/ PeerEnds
  \/ Read \/ ReadFails

Spec == Init /\ [][Next]_vars

(* The reader reads what it can read; nothing has to be sent or to arrive. *)
FairSpec == Spec /\ WF_vars(Read)
-----------------------------------------------------------------------------
(* Properties.                                                             *)

(* The values of the variables.                                            *)
TypeOK ==
  /\ kind \in Kinds
  /\ sent \in Seq(Messages) /\ Len(sent) <= MaxFrames
  /\ stream \in Seq(Nat)
  /\ ends \in Seq(Nat) /\ Len(ends) = Len(sent)
  /\ arrived \in 0..Len(stream) /\ pos \in 0..arrived
  /\ whole \in BOOLEAN /\ ended \in BOOLEAN
  /\ at \in {"head", "body", "over"}
  /\ msg \in [DataLen : Nat, Id : Nat]
  /\ taken \in Seq([id : Nat, data : Seq(Nat)])

Fits(m) == Accepts(DataLen(m))

(* Of the first n messages none is over the limit.                         *)
FitUpTo(n) == \A i \in 1..n : i <= Len(sent) => Fits(sent[i])

(* However the stream is cut, and wherever it breaks off, TCP, epoll and   *)
(* KCP hand on the messages the peer packed, whole, each once and in       *)
(* order: up to the first message over the limit, whose body is then taken *)
(* for heads.                                                              *)
InStep ==
  kind \in Cutters =>
    \A i \in 1..Len(taken) :
      FitUpTo(i) => i <= Len(sent) /\ taken[i] = sent[i]

(* How many of the first n messages are within the limit.                  *)
FitCount(n) == Cardinality({k \in 1..n : Fits(sent[k])})

(* WebSocket never gets out of step: it skips what is over the limit, and  *)
(* what it hands on i-th has the id of the i-th of the rest, and no data.  *)
WsInStep ==
  kind = "ws" =>
    \A i \in 1..Len(taken) : \E j \in 1..Len(sent) :
      /\ Fits(sent[j]) /\ FitCount(j) = i
      /\ taken[i] = [id |-> sent[j].id, data |-> << >>]

(* QUIC hands on messages without data as long as there are no others; no  *)
(* message with data ever gets through, and its body is taken for heads.   *)
QuicTakesNoData ==
  kind = "quic" =>
    \A i \in 1..Len(taken) :
      /\ taken[i].data = << >>
      /\ (\A j \in 1..i : j <= Len(sent) => sent[j].data = << >>)
           => i <= Len(sent) /\ taken[i] = sent[i]

(* KCP's reader gives up only when a message came in pieces, was over the  *)
(* limit, or the session ended.                                            *)
KcpKeepsUp ==
  kind = "kcp" /\ whole /\ ~ended /\ FitUpTo(Len(sent)) => at # "over"

(* A message that has arrived is handed on, as long as the reader is in    *)
(* step: by KCP only if the messages come whole.                           *)
AllTaken ==
  \A n \in 1..MaxFrames :
    ( /\ n <= Len(sent) /\ FitUpTo(n) /\ arrived >= ends[n]
      /\ kind \in FullReaders \/ (kind = "kcp" /\ whole) )
      ~> Len(taken) >= n
=============================================================================
