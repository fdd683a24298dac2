------------------------------ MODULE Executor ------------------------------
(***************************************************************************)
(* What the goroutine pool promises its callers, without workers, stack,   *)
(* lock or condition variable.  A call of Invoke offers a task; the pool   *)
(* accepts it, or refuses it and then only when the pool has been shut.    *)
(* An accepted task is started once and finishes, and at most Limit tasks  *)
(* are under way at a time.                                                *)
(***************************************************************************)
EXTENDS Naturals, FiniteSets

CONSTANTS Submitters, MaxCalls, Limit

VARIABLES
  made,      \* calls each submitter has made
  offered,   \* tasks of calls that have not returned
  pending,   \* tasks accepted and not started
  underway,  \* tasks started and not finished
  shut       \* the pool has been closed

vars == <<made, offered, pending, underway, shut>>

Tasks == Submitters \X (1..MaxCalls)

Init ==
  /\ made = [s \in Submitters |-> 0]
  /\ offered = {} /\ pending = {} /\ underway = {}
  /\ shut = FALSE

(* A submitter makes one call at a time; a shut pool may turn it away.     *)
Offer(s) ==
  /\ made[s] < MaxCalls
  /\ \A t \in offered : t[1] # s
  /\ made' = [made EXCEPT ![s] = @ + 1]
  /\ \/ offered' = offered \cup {<<s, made'[s]>>}
     \/ shut /\ UNCHANGED offered
  /\ UNCHANGED <<pending, underway, shut>>

Accept(t) ==
  /\ t \in offered
  /\ offered' = offered \ {t}
  /\ pending' = pending \cup {t}
  /\ UNCHANGED <<made, underway, shut>>

Refuse(t) ==
  /\ shut
  /\ t \in offered
  /\ offered' = offered \ {t}
  /\ UNCHANGED <<made, pending, underway, shut>>

Start(t) ==
  /\ t \in pending
  /\ Cardinality(underway) < Limit
  /\ pending' = pending \ {t}
  /\ underway' = underway \cup {t}
  /\ UNCHANGED <<made, offered, shut>>

Finish(t) ==
  /\ t \in underway
  /\ underway' = underway \ {t}
  /\ UNCHANGED <<made, offered, pending, shut>>

Shut ==
  /\ ~shut
  /\ shut' = TRUE
  /\ UNCHANGED <<made, offered, pending, underway>>

Next ==
  \/ \E s \in Submitters : Offer(s)
  \/ \E t \in Tasks : Accept(t) \/ Refuse(t) \/ Start(t) \/ Finish(t)
  \/ Shut

Spec == Init /\ [][Next]_vars

(* What was accepted is started, and finishes.                             *)
FairSpec == Spec /\ \A t \in Tasks : WF_vars(Start(t)) /\ WF_vars(Finish(t))
=============================================================================
