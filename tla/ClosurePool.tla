----------------------------- MODULE ClosurePool -----------------------------
(***************************************************************************)
(* GPool and goWorker (pool/gpool.go, worker.go): the pool of closures,    *)
(* which is WorkerPool but for the task that is sent, over restarts.  Each *)
(* Reboot starts a purger; an earlier one ends only if it ticks while the  *)
(* pool is closed, so there can be two, and both finish workers out of the *)
(* one array under workerStack.expiry, after their unlock.                 *)
(*                                                                         *)
(* Submit, the workers, Release and Tune are the steps of WorkerPool, with *)
(* the purgers here in the place of its one.                               *)
(***************************************************************************)
EXTENDS Naturals, Sequences, FiniteSets

CONSTANTS
  Submitters, Workers, InitCap, MaxCap, TuneSizes, MaxCalls, Releasable,
  Stoppable, Nil, None,   \* as in WorkerPool
  MaxReboots              \* bound: calls of Reboot

Gens == 1..(MaxReboots + 1)

VARIABLES
  pc, seen, mine, calls, lock, items, wpc, wseen, chan, job, running, waiting,
  notify, exiting, cap, grown, closed, releaser,   \* as in WorkerPool
  gen,        \* purgers started; GPool.stopPurge is that of the last
  purgerAt,   \* where each purger is
  slice,      \* what refresh gave each purger: an array, the part left of it
  taken,      \* the worker each purger is about to finish
  dormant,    \* isDormant of each purger
  arrays,     \* arrays workerStack.expiry has had; the last is in use
  cancelled,  \* purgers whose context has been cancelled
  early,      \* a Reboot has come before the purgers of before had ended
  crashed     \* the process has ended in a panic

cells == <<slice, taken, arrays>>
purgers == <<gen, purgerAt, dormant, cancelled, early, crashed, cells>>
submits == <<pc, seen, mine, calls, notify>>
works == <<wpc, wseen, chan, job, exiting>>
counts == <<running, waiting, cap, grown>>
states == <<closed, releaser>>
vars == <<submits, works, counts, states, lock, items, purgers>>

NoSlice == [array |-> 1, next |-> 1, upto |-> 0]

(* What the last of the purgers holds: the workers of its slice that it    *)
(* has not finished yet.  After an early Reboot it is no longer the one    *)
(* that writes on the array, and nothing is said of what it holds.         *)
Held ==
  LET s == slice[gen]
      first == IF purgerAt[gen] = "clear" THEN s.next + 1 ELSE s.next
  IN IF early THEN << >> ELSE SubSeq(arrays[s.array], first, s.upto)

Phase == IF purgerAt[gen] \in {"send", "clear"} THEN "finish"
                                                ELSE purgerAt[gen]

(* WorkerPool with the last purger in the place of its own, whose steps    *)
(* are not used.                                                           *)
Pool == INSTANCE WorkerPool WITH
  purger <- Phase, stale <- Held, dormant <- dormant[gen],
  stopped <- gen \in cancelled

ASSUME PoolAssumption ==
  /\ Pool!CapAssumption /\ Pool!NamesAssumption /\ Pool!WorkersAssumption
  /\ MaxReboots \in Nat

(* NewPool.                                                                *)
Init ==
  /\ gen = 1
  /\ purgerAt = [g \in Gens |-> IF g = 1 THEN "sleep" ELSE "off"]
  /\ slice = [g \in Gens |-> NoSlice]
  /\ taken = [g \in Gens |-> None]
  /\ dormant = [g \in Gens |-> FALSE]
  /\ arrays = << << >> >>
  /\ cancelled = {} /\ early = FALSE /\ crashed = FALSE
  /\ Pool!Init

-----------------------------------------------------------------------------
(* What is WorkerPool's, by method; no purger has a part in it.            *)

Submit(s) == UNCHANGED purgers /\ Pool!Invoke(s)

RetrieveWorker(s) ==
  /\ UNCHANGED purgers
  /\ \/ Pool!RetrieveWorker(s) \/ Pool!CheckCapacity(s) \/ Pool!Park(s)
     \/ Pool!Wakened(s) \/ Pool!SpawnWorker(s)

InputFunc(s) == UNCHANGED purgers /\ Pool!InputParam(s)

Run(w) ==
  /\ UNCHANGED purgers
  /\ Pool!Receive(w) \/ Pool!FinishTask(w) \/ Pool!Exit(w)

RevertWorker(w) ==
  /\ UNCHANGED purgers
  /\ Pool!RevertCheck(w) \/ Pool!RevertRefused(w) \/ Pool!RevertInsert(w)

ExitSignal == UNCHANGED purgers /\ Pool!ExitSignal

Release == UNCHANGED purgers /\ (Pool!Release \/ Pool!ReleaseRest)

Tune ==
  /\ UNCHANGED purgers
  /\ (\E n \in TuneSizes : Pool!Tune(n)) \/ Pool!TuneWake

-----------------------------------------------------------------------------
(* purgeStaleWorkers.                                                      *)

PurgeGoto(g, place) == purgerAt' = [purgerAt EXCEPT ![g] = place]

(* The ticker fires: a purger that finds the pool closed ends.             *)
PurgeTick(g) ==
  /\ purgerAt[g] = "sleep"
  /\ PurgeGoto(g, IF closed THEN "dead" ELSE "refresh")
  /\ UNCHANGED <<submits, works, counts, states, lock, items, gen, dormant,
                 cancelled, early, crashed, cells>>

PurgeStopped(g) ==
  /\ purgerAt[g] = "sleep" /\ g \in cancelled
  /\ PurgeGoto(g, "dead")
  /\ UNCHANGED <<submits, works, counts, states, lock, items, gen, dormant,
                 cancelled, early, crashed, cells>>

(* Faulty variant: what does not fit into the array is dropped.            *)
AppendedInPlace(ws) ==
  LET n == Len(ws)
      used == arrays[Len(arrays)]
  IN [arrays EXCEPT ![Len(arrays)] =
        [i \in 1..Len(used) |-> IF i <= n THEN ws[i] ELSE used[i]]]

(* workerStack.expiry[:0] with the workers ws appended: over what is in    *)
(* the array, or in a new one, at least twice as large, when it is full.   *)
Appended(ws) ==
  LET n == Len(ws)
      used == arrays[Len(arrays)]
      room == IF n > 2 * Len(used) THEN n ELSE 2 * Len(used)
  IN IF n <= Len(used)
       THEN [arrays EXCEPT ![Len(arrays)] =
               [i \in 1..Len(used) |-> IF i <= n THEN ws[i] ELSE used[i]]]
       ELSE Append(arrays, [i \in 1..room |-> IF i <= n THEN ws[i] ELSE None])

(* Faulty variant: the expired workers are not taken off the stack.        *)
PurgeRefreshKeeps(g) ==
  /\ purgerAt[g] = "refresh"
  /\ lock = None
  /\ \E k \in Pool!Expired :
       /\ arrays' = IF k = 0 THEN arrays ELSE Appended(SubSeq(items, 1, k))
       /\ slice' = [slice EXCEPT ![g] = IF k = 0 THEN NoSlice ELSE
                      [array |-> Len(arrays'), next |-> 1, upto |-> k]]
       /\ dormant' = [dormant EXCEPT ![g] = running \in {0, k}]
  /\ PurgeGoto(g, "finish")
  /\ UNCHANGED <<submits, works, counts, states, lock, items, gen, taken,
                 cancelled, early, crashed>>

(* refresh and the count, under the lock.                                  *)
PurgeRefresh(g) ==
  /\ purgerAt[g] = "refresh"
  /\ lock = None
  /\ \E k \in Pool!Expired :
       /\ arrays' = IF k = 0 THEN arrays ELSE Appended(SubSeq(items, 1, k))
       /\ slice' = [slice EXCEPT ![g] = IF k = 0 THEN NoSlice ELSE
                      [array |-> Len(arrays'), next |-> 1, upto |-> k]]
       /\ items' = SubSeq(items, k + 1, Len(items))
       /\ dormant' = [dormant EXCEPT ![g] = running \in {0, k}]
  /\ PurgeGoto(g, "finish")
  /\ UNCHANGED <<submits, works, counts, states, lock, gen, taken, cancelled,
                 early, crashed>>

(* The next worker of the slice; one that is nil by now panics.            *)
PurgeNext(g) ==
  /\ purgerAt[g] = "finish" /\ slice[g].next <= slice[g].upto
  /\ LET w == arrays[slice[g].array][slice[g].next]
     IN IF w = None
          THEN crashed' = TRUE /\ UNCHANGED <<taken, purgerAt>>
          ELSE /\ taken' = [taken EXCEPT ![g] = w]
               /\ PurgeGoto(g, "send")
               /\ UNCHANGED crashed
  /\ UNCHANGED <<submits, works, counts, states, lock, items, gen, dormant,
                 cancelled, early, slice, arrays>>

(* finish.                                                                 *)
PurgeFinish(g) ==
  /\ purgerAt[g] = "send"
  /\ chan[taken[g]] = None
  /\ chan' = [chan EXCEPT ![taken[g]] = Nil]
  /\ taken' = [taken EXCEPT ![g] = None]
  /\ PurgeGoto(g, "clear")
  /\ UNCHANGED <<submits, wpc, wseen, job, exiting, counts, states, lock,
                 items, gen, dormant, cancelled, early, crashed, slice,
                 arrays>>

(* staleWorkers[i] = nil                                                   *)
PurgeClear(g) ==
  /\ purgerAt[g] = "clear"
  /\ arrays' = [arrays EXCEPT ![slice[g].array][slice[g].next] = None]
  /\ slice' = [slice EXCEPT ![g].next = @ + 1]
  /\ PurgeGoto(g, "finish")
  /\ UNCHANGED <<submits, works, counts, states, lock, items, gen, dormant,
                 cancelled, early, crashed, taken>>

PurgeWake(g) ==
  /\ purgerAt[g] = "finish" /\ slice[g].next > slice[g].upto
  /\ IF dormant[g] /\ waiting > 0 THEN Pool!Broadcast
                                  ELSE UNCHANGED <<pc, notify>>
  /\ dormant' = [dormant EXCEPT ![g] = FALSE]
  /\ slice' = [slice EXCEPT ![g] = NoSlice]
  /\ PurgeGoto(g, "sleep")
  /\ UNCHANGED <<seen, mine, calls, works, counts, states, lock, items, gen,
                 cancelled, early, crashed, taken, arrays>>

(* The second call for one purger would call nil.                          *)
StopPurgeStaleWorkers ==
  /\ Stoppable /\ gen \notin cancelled
  /\ cancelled' = cancelled \cup {gen}
  /\ UNCHANGED <<submits, works, counts, states, lock, items, gen, purgerAt,
                 dormant, early, crashed, cells>>

-----------------------------------------------------------------------------
(* Reboot, by the goroutine that called Release, once that has returned.   *)

Running(g) == purgerAt[g] \notin {"off", "dead"}

Reboot ==
  /\ closed /\ releaser = "done" /\ gen \in 1..MaxReboots
  /\ closed' = FALSE /\ releaser' = "idle"
  /\ gen' = gen + 1
  /\ PurgeGoto(gen', "sleep")
  /\ early' = (early \/ \E g \in Gens : Running(g))
  /\ UNCHANGED <<submits, works, counts, lock, items, dormant, cancelled,
                 crashed, cells>>

-----------------------------------------------------------------------------
Purge(g) ==
  \/ PurgeTick(g) \/ PurgeStopped(g) \/ PurgeRefresh(g) \/ PurgeNext(g)
  \/ PurgeFinish(g) \/ PurgeClear(g) \/ PurgeWake(g)

Next ==
  /\ ~crashed
  /\ \/ \E s \in Submitters : Submit(s) \/ RetrieveWorker(s) \/ InputFunc(s)
     \/ \E w \in Workers : Run(w) \/ RevertWorker(w)
     \/ \E g \in Gens : Purge(g)
     \/ ExitSignal \/ Release \/ Tune \/ StopPurgeStaleWorkers \/ Reboot

Spec == Init /\ [][Next]_vars

-----------------------------------------------------------------------------
(* Properties.                                                             *)

(* The values of the variables, WorkerPool's own included.                 *)
TypeOK ==
  /\ gen \in Gens
  /\ purgerAt \in [Gens -> {"off", "sleep", "refresh", "finish", "send",
                            "clear", "dead"}]
  /\ taken \in [Gens -> Workers \cup {None}]
  /\ dormant \in [Gens -> BOOLEAN]
  /\ arrays \in Seq(Seq(Workers \cup {None}))
  /\ \A g \in Gens : slice[g].array \in 1..Len(arrays)
                     /\ slice[g].upto <= Len(arrays[slice[g].array])
  /\ cancelled \subseteq Gens
  /\ early \in BOOLEAN /\ crashed \in BOOLEAN
  /\ Pool!TypeOK

(* As long as no Reboot came before the purger of before had ended, every  *)
(* worker has one owner over any number of restarts, no message is sent to *)
(* a worker that has ended, and no purger panics; the array of before is   *)
(* used again without harm.                                                *)
OwnersUnlessEarly ==
  ~early => Pool!OneOwner /\ Pool!NotStranded /\ ~crashed

(* What an early Reboot spoils is whose the workers are.  Whatever it      *)
(* does, the counters stay exact, and with them the bound on the workers;  *)
(* no wake-up that a worker put back owes to a caller is lost, and a pool  *)
(* that is closed again is emptied again.                                  *)
RestSurvives ==
  /\ Pool!CountersExact /\ Pool!BoundedOvershoot
  /\ Pool!IdleNotWasted /\ Pool!NoIdleAfterReset
=============================================================================
