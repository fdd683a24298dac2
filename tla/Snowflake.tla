----------------------------- MODULE Snowflake ------------------------------
(***************************************************************************)
(* SnowflakeGenerator (utils/snowflake.go): the connection ids of every    *)
(* listener.  One generator per process, so per node; its mutex is held    *)
(* from the first line of NextVal to the last, so a call is one step,      *)
(* unless it spins on the clock for the next millisecond, mutex in hand.   *)
(* Times are milliseconds since the generator's epoch.                     *)
(***************************************************************************)
EXTENDS Integers, Sequences

CONSTANTS
  Nodes,         \* the pairs datacenterId, workerId in use, as numbers
  NodeSpan,      \* 2^(datacenterIdBits + workerIdBits)
  SeqSpan,       \* 2^sequenceBits
  TimestampMax,  \* last time that fits timestampBits
  MaxClock,      \* bound: last time a clock shows
  MayStepBack    \* TRUE when the wall clock may be set back

(* Nodes are configured with distinct ids that fit their fields: NextVal   *)
(* itself does not mask them.                                              *)
ASSUME SpanAssumption ==
  /\ NodeSpan \in Nat \ {0} /\ SeqSpan \in Nat \ {0}
  /\ Nodes \subseteq 0..(NodeSpan - 1)
  /\ TimestampMax \in Nat /\ MaxClock \in Nat
  /\ MayStepBack \in BOOLEAN

VARIABLES
  clock,      \* time.Now() of each node
  timestamp,  \* SnowflakeGenerator.timestamp
  sequence,   \* SnowflakeGenerator.sequence
  pc,         \* "spin" while a call waits for the next millisecond
  issued      \* ids each node has returned, oldest first

vars == <<clock, timestamp, sequence, pc, issued>>

Unset == -1   \* the zero timestamp, long before the epoch

Init ==
  /\ clock = [n \in Nodes |-> 0]
  /\ timestamp = [n \in Nodes |-> Unset]
  /\ sequence = [n \in Nodes |-> 0]
  /\ pc = [n \in Nodes |-> "free"]
  /\ issued = [n \in Nodes |-> << >>]

(* The fields of an id do not overlap, so or-ing them is adding them.      *)
Id(n, t, q) == (t * NodeSpan + n) * SeqSpan + q

(* The tail of NextVal: an error past the last timestamp, which leaves the *)
(* timestamp alone, or the id.                                             *)
Stamp(n, q) ==
  /\ sequence' = [sequence EXCEPT ![n] = q]
  /\ \/ /\ clock[n] > TimestampMax
        /\ UNCHANGED <<timestamp, issued>>
     \/ /\ clock[n] <= TimestampMax
        /\ timestamp' = [timestamp EXCEPT ![n] = clock[n]]
        /\ issued' = [issued EXCEPT ![n] = Append(@, Id(n, clock[n], q))]
  /\ pc' = [pc EXCEPT ![n] = "free"]

(* (sequence + 1) & sequenceMask                                           *)
Successor(n) == (sequence[n] + 1) % SeqSpan

(* Faulty variant: a full millisecond is not waited out.                   *)
NextValNoWait(n) ==
  /\ pc[n] = "free"
  /\ Stamp(n, IF timestamp[n] = clock[n] THEN Successor(n) ELSE 0)
  /\ UNCHANGED clock

NextVal(n) ==
  /\ pc[n] = "free"
  /\ \/ /\ timestamp[n] = clock[n]
        /\ Successor(n) # 0
        /\ Stamp(n, Successor(n))
     \/ /\ timestamp[n] = clock[n]
        /\ Successor(n) = 0
        /\ sequence' = [sequence EXCEPT ![n] = 0]
        /\ pc' = [pc EXCEPT ![n] = "spin"]
        /\ UNCHANGED <<timestamp, issued>>
     \/ /\ timestamp[n] # clock[n]
        /\ Stamp(n, 0)
  /\ UNCHANGED clock

(* Faulty variant: the spin ends within the same millisecond.              *)
SpinTooShort(n) ==
  /\ pc[n] = "spin"
  /\ clock[n] >= timestamp[n]
  /\ Stamp(n, 0)
  /\ UNCHANGED clock

(* The loop that reads the clock until it has passed the timestamp.        *)
Spin(n) ==
  /\ pc[n] = "spin"
  /\ clock[n] > timestamp[n]
  /\ Stamp(n, 0)
  /\ UNCHANGED clock

(* The wall clock: forwards, or back when it is adjusted.                  *)
Tick(n) ==
  /\ \E t \in 0..MaxClock :
       /\ t # clock[n]
       /\ ~MayStepBack => t > clock[n]
       /\ clock' = [clock EXCEPT ![n] = t]
  /\ UNCHANGED <<timestamp, sequence, pc, issued>>

Next == \E n \in Nodes : NextVal(n) \/ Spin(n) \/ Tick(n)

Spec == Init /\ [][Next]_vars

-----------------------------------------------------------------------------
(* Properties.                                                             *)

(* The generator's fields; the sequence fits its field.                    *)
TypeOK ==
  /\ clock \in [Nodes -> 0..MaxClock]
  /\ timestamp \in [Nodes -> Unset..TimestampMax]
  /\ sequence \in [Nodes -> 0..(SeqSpan - 1)]
  /\ pc \in [Nodes -> {"free", "spin"}]
  /\ issued \in [Nodes -> Seq(Int)]

(* "Generates unique ids" (snowflake.go:4), "globally unique" (conn.go:28  *)
(* of package server): no id twice, whether from one node or from two.     *)
(* What it takes is a clock that is not set back.                          *)
Unique ==
  \A n, m \in Nodes : \A i \in 1..Len(issued[n]), j \in 1..Len(issued[m]) :
    issued[n][i] = issued[m][j] => n = m /\ i = j

(* Each id of a node is greater than the ones before it.                   *)
Ascending ==
  \A n \in Nodes : \A i, j \in 1..Len(issued[n]) :
    i < j => issued[n][i] < issued[n][j]
=============================================================================
