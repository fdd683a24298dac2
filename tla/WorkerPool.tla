----------------------------- MODULE WorkerPool -----------------------------
(***************************************************************************)
(* The goroutine pool of package pool: GPoolWithFunc, its workers          *)
(* (goWorkerWithFunc), the stack of idle workers (workerStack), the spin   *)
(* lock and the sync.Cond on it.  GPool and goWorker are the same code     *)
(* with Submit(task) in the place of Invoke(args).                         *)
(*                                                                         *)
(* A step is one stretch of code between two points where another          *)
(* goroutine can see or change what it uses.  A section under the lock     *)
(* that touches nothing shared outside the lock, or one such thing, is one *)
(* step; the sections of retrieveWorker are split at the unlocked counter  *)
(* they read (Running) and at the registration with the condition          *)
(* variable.                                                               *)
(***************************************************************************)
EXTENDS Naturals, Sequences, FiniteSets

CONSTANTS
  Submitters,   \* goroutines that call Invoke
  Workers,      \* worker objects workerCache can hand out
  InitCap,      \* size given to NewPoolWithFunc, at least 1
  MaxCap,       \* largest capacity the pool ever has
  TuneSizes,    \* sizes Tune is called with; {} when it is never called
  MaxCalls,     \* bound: calls of Invoke per submitter
  Releasable,   \* TRUE when Release may be called
  Stoppable,    \* TRUE when StopPurgeStaleWorkers may be called
  Nil,          \* the nil argument, which ends a worker
  None          \* free lock, empty channel, no worker, no task

Tasks == Submitters \X (1..MaxCalls)

ASSUME CapAssumption ==
  /\ InitCap \in 1..MaxCap /\ MaxCap \in Nat
  /\ TuneSizes \subseteq 1..MaxCap
  /\ MaxCalls \in Nat
  /\ Releasable \in BOOLEAN /\ Stoppable \in BOOLEAN

ASSUME NamesAssumption ==
  /\ None # Nil
  /\ None \notin Submitters \cup Workers \cup Tasks
  /\ Nil \notin Tasks

(* sync.Pool creates objects on demand; SpawnLimit of them are enough      *)
(* (theorem SpawnNeverStarves), so a larger set adds nothing.              *)
ASSUME WorkersAssumption ==
  /\ IsFiniteSet(Submitters) /\ Submitters # {}
  /\ IsFiniteSet(Workers)
  /\ Cardinality(Workers) >= MaxCap + Cardinality(Submitters) - 1

VARIABLES
  pc,        \* where each submitter is in Invoke and retrieveWorker
  seen,      \* capacity a submitter read, 0 when it is not using one
  mine,      \* worker a submitter has retrieved and will send to
  calls,     \* calls of Invoke each submitter has made
  lock,      \* submitter inside a section of several steps, or None
  items,     \* workerStack.items
  wpc,       \* where the goroutine of each worker is
  wseen,     \* capacity a worker read in revertWorker, 0 otherwise
  chan,      \* the buffered message of each worker's args channel
  job,       \* task each worker is running
  running,   \* GPoolWithFunc.running
  waiting,   \* GPoolWithFunc.waiting
  notify,    \* submitters in cond.Wait, oldest first
  exiting,   \* goroutines between workerCache.Put and cond.Signal
  cap,       \* GPoolWithFunc.cap
  grown,     \* capacity Tune has added and not yet signalled
  closed,    \* GPoolWithFunc.state = 1
  releaser,  \* where Release is
  purger,    \* where purgeStaleWorkers is
  stale,     \* workers the purger has taken and not yet finished
  dormant,   \* purgeStaleWorkers' isDormant
  stopped    \* StopPurgeStaleWorkers has been called

callerVars  == <<seen, mine, calls>>
workerVars  == <<wpc, wseen, chan, job, exiting>>
condVars    == <<pc, notify>>
capVars     == <<cap, grown>>
releaseVars == <<closed, releaser>>
purgeVars   == <<purger, stale, dormant, stopped>>
vars == <<callerVars, workerVars, condVars, capVars, releaseVars, purgeVars,
          lock, items, running, waiting>>

Init ==
  /\ pc = [s \in Submitters |-> "idle"]
  /\ seen = [s \in Submitters |-> 0]
  /\ mine = [s \in Submitters |-> None]
  /\ calls = [s \in Submitters |-> 0]
  /\ lock = None
  /\ items = << >>
  /\ wpc = [w \in Workers |-> "off"]
  /\ wseen = [w \in Workers |-> 0]
  /\ chan = [w \in Workers |-> None]
  /\ job = [w \in Workers |-> None]
  /\ running = 0 /\ waiting = 0
  /\ notify = << >>
  /\ exiting = 0
  /\ cap = InitCap /\ grown = 0
  /\ closed = FALSE /\ releaser = "idle"
  /\ purger = "sleep" /\ stale = << >> /\ dormant = FALSE
  /\ stopped = FALSE

-----------------------------------------------------------------------------
(* sync.Cond: Signal wakes the submitter that has waited longest,          *)
(* Broadcast all of them; a woken submitter still has to take the lock.    *)

Signal ==
  \/ /\ notify = << >>
     /\ UNCHANGED condVars
  \/ /\ notify # << >>
     /\ pc' = [pc EXCEPT ![Head(notify)] = "woken"]
     /\ notify' = Tail(notify)

Broadcast ==
  /\ pc' = [s \in Submitters |-> IF pc[s] = "waiting" THEN "woken" ELSE pc[s]]
  /\ notify' = << >>

-----------------------------------------------------------------------------
(* Invoke and retrieveWorker.                                              *)

Goto(s, label) == pc' = [pc EXCEPT ![s] = label]

(* Invoke's closed check: a closed pool refuses the call at once.          *)
Invoke(s) ==
  /\ pc[s] = "idle"
  /\ calls[s] < MaxCalls
  /\ calls' = [calls EXCEPT ![s] = @ + 1]
  /\ IF closed THEN UNCHANGED pc ELSE Goto(s, "retrieve")
  /\ UNCHANGED <<seen, mine, workerVars, notify, capVars, releaseVars,
                 purgeVars, lock, items, running, waiting>>

(* detach under the lock: the youngest idle worker, and the lock is        *)
(* dropped; or none, and the capacity is read with the lock kept.          *)
Detach(s) ==
  \/ /\ items # << >>
     /\ mine' = [mine EXCEPT ![s] = items[Len(items)]]
     /\ items' = SubSeq(items, 1, Len(items) - 1)
     /\ Goto(s, "send")
     /\ UNCHANGED <<lock, seen>>
  \/ /\ items = << >>
     /\ lock' = s
     /\ seen' = [seen EXCEPT ![s] = cap]
     /\ Goto(s, "check")
     /\ UNCHANGED <<mine, items>>

RetrieveWorker(s) ==
  /\ pc[s] = "retrieve"
  /\ lock = None
  /\ Detach(s)
  /\ UNCHANGED <<calls, workerVars, notify, capVars, releaseVars, purgeVars,
                 running, waiting>>

(* Faulty variant: the comparison admits one worker too many.              *)
CheckCapacityOffByOne(s) ==
  /\ pc[s] = "check"
  /\ seen' = [seen EXCEPT ![s] = 0]
  /\ \/ /\ seen[s] >= running
        /\ Goto(s, "spawn")
        /\ lock' = None
        /\ UNCHANGED waiting
     \/ /\ seen[s] < running
        /\ Goto(s, "park")
        /\ waiting' = waiting + 1
        /\ UNCHANGED lock
  /\ UNCHANGED <<mine, calls, workerVars, notify, capVars, releaseVars,
                 purgeVars, items, running>>

(* Faulty variant: addWaiting(1) is left out before cond.Wait.             *)
CheckCapacityUncounted(s) ==
  /\ pc[s] = "check"
  /\ seen' = [seen EXCEPT ![s] = 0]
  /\ \/ /\ seen[s] > running
        /\ Goto(s, "spawn")
        /\ lock' = None
     \/ /\ seen[s] <= running
        /\ Goto(s, "park")
        /\ UNCHANGED lock
  /\ UNCHANGED <<mine, calls, workerVars, notify, capVars, releaseVars,
                 purgeVars, items, running, waiting>>

(* The capacity read against Running(), which changes outside the lock.    *)
(* A waiter's Free() > 0 is the same comparison.                           *)
CheckCapacity(s) ==
  /\ pc[s] = "check"
  /\ seen' = [seen EXCEPT ![s] = 0]
  /\ \/ /\ seen[s] > running
        /\ Goto(s, "spawn")
        /\ lock' = None
        /\ UNCHANGED waiting
     \/ /\ seen[s] <= running
        /\ Goto(s, "park")
        /\ waiting' = waiting + 1
        /\ UNCHANGED lock
  /\ UNCHANGED <<mine, calls, workerVars, notify, capVars, releaseVars,
                 purgeVars, items, running>>

(* cond.Wait: join the notify list, then drop the lock.                    *)
Park(s) ==
  /\ pc[s] = "park"
  /\ notify' = Append(notify, s)
  /\ lock' = None
  /\ Goto(s, "waiting")
  /\ UNCHANGED <<callerVars, workerVars, capVars, releaseVars, purgeVars,
                 items, running, waiting>>

(* Faulty variant: a woken waiter that finds no worker fails its call      *)
(* where the code goes back to wait.                                       *)
WakenedNoRetry(s) ==
  /\ pc[s] = "woken"
  /\ lock = None
  /\ waiting' = waiting - 1
  /\ \/ /\ closed \/ items = << >>
        /\ Goto(s, "idle")
        /\ UNCHANGED <<mine, items, lock, seen>>
     \/ /\ ~closed /\ items # << >>
        /\ Detach(s)
  /\ UNCHANGED <<calls, workerVars, notify, capVars, releaseVars, purgeVars,
                 running>>

(* cond.Wait returns with the lock: give up on a closed pool, else retry.  *)
Wakened(s) ==
  /\ pc[s] = "woken"
  /\ lock = None
  /\ waiting' = waiting - 1
  /\ \/ /\ closed
        /\ Goto(s, "idle")
        /\ UNCHANGED <<mine, items, lock, seen>>
     \/ /\ ~closed
        /\ Detach(s)
  /\ UNCHANGED <<calls, workerVars, notify, capVars, releaseVars, purgeVars,
                 running>>

(* spawnWorker, after the unlock: Get and run, which counts the worker.    *)
SpawnWorker(s) ==
  /\ pc[s] = "spawn"
  /\ \E w \in Workers :
       /\ wpc[w] = "off"
       /\ wpc' = [wpc EXCEPT ![w] = "recv"]
       /\ mine' = [mine EXCEPT ![s] = w]
  /\ running' = running + 1
  /\ Goto(s, "send")
  /\ UNCHANGED <<seen, calls, wseen, chan, job, exiting, notify, capVars,
                 releaseVars, purgeVars, lock, items, waiting>>

(* inputParam: a send on a channel of capacity 1.                          *)
InputParam(s) ==
  /\ pc[s] = "send"
  /\ chan[mine[s]] = None
  /\ chan' = [chan EXCEPT ![mine[s]] = <<s, calls[s]>>]
  /\ mine' = [mine EXCEPT ![s] = None]
  /\ Goto(s, "idle")
  /\ UNCHANGED <<seen, calls, wpc, wseen, job, exiting, notify, capVars,
                 releaseVars, purgeVars, lock, items, running, waiting>>

-----------------------------------------------------------------------------
(* The worker goroutine: run's loop, revertWorker, and the deferred exit.  *)

Receive(w) ==
  /\ wpc[w] = "recv"
  /\ chan[w] # None
  /\ chan' = [chan EXCEPT ![w] = None]
  /\ \/ /\ chan[w] = Nil
        /\ wpc' = [wpc EXCEPT ![w] = "exit"]
        /\ UNCHANGED job
     \/ /\ chan[w] # Nil
        /\ wpc' = [wpc EXCEPT ![w] = "run"]
        /\ job' = [job EXCEPT ![w] = chan[w]]
  /\ UNCHANGED <<callerVars, wseen, exiting, condVars, capVars, releaseVars,
                 purgeVars, lock, items, running, waiting>>

(* Faulty variant: the count is not in the deferred function, so a panic   *)
(* skips it.                                                               *)
FinishTaskPanicUncounted(w) ==
  /\ wpc[w] = "run"
  /\ job' = [job EXCEPT ![w] = None]
  /\ \/ /\ wpc' = [wpc EXCEPT ![w] = "revert"]
        /\ wseen' = [wseen EXCEPT ![w] = cap]
     \/ /\ wpc' = [wpc EXCEPT ![w] = "off"]
        /\ UNCHANGED wseen
  /\ UNCHANGED <<callerVars, chan, exiting, condVars, capVars, releaseVars,
                 purgeVars, lock, items, running, waiting>>

(* poolFunc returns and revertWorker reads the capacity, or it panics.     *)
FinishTask(w) ==
  /\ wpc[w] = "run"
  /\ job' = [job EXCEPT ![w] = None]
  /\ \/ /\ wpc' = [wpc EXCEPT ![w] = "revert"]
        /\ wseen' = [wseen EXCEPT ![w] = cap]
     \/ /\ wpc' = [wpc EXCEPT ![w] = "exit"]
        /\ UNCHANGED wseen
  /\ UNCHANGED <<callerVars, chan, exiting, condVars, capVars, releaseVars,
                 purgeVars, lock, items, running, waiting>>

(* revertWorker's first check, without the lock.                           *)
RevertCheck(w) ==
  /\ wpc[w] = "revert"
  /\ wseen' = [wseen EXCEPT ![w] = 0]
  /\ wpc' = [wpc EXCEPT ![w] =
               IF running > wseen[w] \/ closed THEN "refused" ELSE "insert"]
  /\ UNCHANGED <<callerVars, chan, job, exiting, condVars, capVars,
                 releaseVars, purgeVars, lock, items, running, waiting>>

RevertRefused(w) ==
  /\ wpc[w] = "refused"
  /\ wpc' = [wpc EXCEPT ![w] = "exit"]
  /\ Broadcast
  /\ UNCHANGED <<callerVars, wseen, chan, job, exiting, capVars, releaseVars,
                 purgeVars, lock, items, running, waiting>>

(* Faulty variant: no second look at the state under the lock.             *)
RevertInsertUnchecked(w) ==
  /\ wpc[w] = "insert"
  /\ lock = None
  /\ items' = Append(items, w)
  /\ wpc' = [wpc EXCEPT ![w] = "recv"]
  /\ Signal
  /\ UNCHANGED <<callerVars, wseen, chan, job, exiting, capVars, releaseVars,
                 purgeVars, lock, running, waiting>>

(* Faulty variant: nobody is signalled after the insert.                   *)
RevertInsertSilent(w) ==
  /\ wpc[w] = "insert"
  /\ lock = None
  /\ IF closed
       THEN wpc' = [wpc EXCEPT ![w] = "exit"] /\ UNCHANGED items
       ELSE wpc' = [wpc EXCEPT ![w] = "recv"] /\ items' = Append(items, w)
  /\ UNCHANGED <<callerVars, wseen, chan, job, exiting, condVars, capVars,
                 releaseVars, purgeVars, lock, running, waiting>>

(* Faulty variant: the worker is inserted and false is returned, so its    *)
(* goroutine ends while the stack offers it.                               *)
RevertInsertThenExit(w) ==
  /\ wpc[w] = "insert"
  /\ lock = None
  /\ wpc' = [wpc EXCEPT ![w] = "exit"]
  /\ items' = IF closed THEN items ELSE Append(items, w)
  /\ UNCHANGED <<callerVars, wseen, chan, job, exiting, condVars, capVars,
                 releaseVars, purgeVars, lock, running, waiting>>

(* revertWorker's second check, the insert and the Signal, under the lock. *)
RevertInsert(w) ==
  /\ wpc[w] = "insert"
  /\ lock = None
  /\ \/ /\ closed
        /\ wpc' = [wpc EXCEPT ![w] = "exit"]
        /\ UNCHANGED <<items, condVars>>
     \/ /\ ~closed
        /\ items' = Append(items, w)
        /\ wpc' = [wpc EXCEPT ![w] = "recv"]
        /\ Signal
  /\ UNCHANGED <<callerVars, wseen, chan, job, exiting, capVars, releaseVars,
                 purgeVars, lock, running, waiting>>

(* run's deferred function: the count, then Put, and only then the Signal, *)
(* none of them under the lock.                                            *)
Exit(w) ==
  /\ wpc[w] = "exit"
  /\ wpc' = [wpc EXCEPT ![w] = "off"]
  /\ running' = running - 1
  /\ exiting' = exiting + 1
  /\ UNCHANGED <<callerVars, wseen, chan, job, condVars, capVars, releaseVars,
                 purgeVars, lock, items, waiting>>

ExitSignal ==
  /\ exiting > 0
  /\ exiting' = exiting - 1
  /\ Signal
  /\ UNCHANGED <<callerVars, wpc, wseen, chan, job, capVars, releaseVars,
                 purgeVars, lock, items, running, waiting>>

-----------------------------------------------------------------------------
(* purgeStaleWorkers.                                                      *)

PurgeTick ==
  /\ purger = "sleep"
  /\ purger' = IF closed THEN "dead" ELSE "refresh"
  /\ UNCHANGED <<callerVars, workerVars, condVars, capVars, releaseVars, stale,
                 dormant, stopped, lock, items, running, waiting>>

PurgeStopped ==
  /\ purger = "sleep" /\ stopped
  /\ purger' = "dead"
  /\ UNCHANGED <<callerVars, workerVars, condVars, capVars, releaseVars, stale,
                 dormant, stopped, lock, items, running, waiting>>

(* Faulty variant: refresh never finds a stale worker.                     *)
ExpiredNone == {0}

(* workerStack.refresh takes the first k idle workers.  Its binary search  *)
(* always returns an index of the stack, so k is never 0 on a nonempty     *)
(* stack; which k depends on the clock.                                    *)
Expired == IF items = << >> THEN {0} ELSE 1..Len(items)

(* Faulty variant: the expired workers are not taken off the stack.        *)
PurgeRefreshKeeps ==
  /\ purger = "refresh"
  /\ lock = None
  /\ \E k \in Expired :
       /\ stale' = SubSeq(items, 1, k)
       /\ dormant' = (running \in {0, k})
  /\ purger' = "finish"
  /\ UNCHANGED <<callerVars, workerVars, condVars, capVars, releaseVars,
                 stopped, lock, items, running, waiting>>

PurgeRefresh ==
  /\ purger = "refresh"
  /\ lock = None
  /\ \E k \in Expired :
       /\ stale' = SubSeq(items, 1, k)
       /\ items' = SubSeq(items, k + 1, Len(items))
       /\ dormant' = (running \in {0, k})
  /\ purger' = "finish"
  /\ UNCHANGED <<callerVars, workerVars, condVars, capVars, releaseVars,
                 stopped, lock, running, waiting>>

(* finish: a send on the worker's channel, after the unlock.               *)
PurgeFinish ==
  /\ purger = "finish" /\ stale # << >>
  /\ chan[Head(stale)] = None
  /\ chan' = [chan EXCEPT ![Head(stale)] = Nil]
  /\ stale' = Tail(stale)
  /\ UNCHANGED <<callerVars, wpc, wseen, job, exiting, condVars, capVars,
                 releaseVars, purger, dormant, stopped, lock, items, running,
                 waiting>>

(* Faulty variant: no Broadcast when the pool is dormant.                  *)
PurgeWakeSilent ==
  /\ purger = "finish" /\ stale = << >>
  /\ purger' = "sleep"
  /\ dormant' = FALSE
  /\ UNCHANGED <<callerVars, workerVars, condVars, capVars, releaseVars, stale,
                 stopped, lock, items, running, waiting>>

PurgeWake ==
  /\ purger = "finish" /\ stale = << >>
  /\ IF dormant /\ waiting > 0 THEN Broadcast ELSE UNCHANGED condVars
  /\ purger' = "sleep"
  /\ dormant' = FALSE
  /\ UNCHANGED <<callerVars, workerVars, capVars, releaseVars, stale, stopped,
                 lock, items, running, waiting>>

StopPurgeStaleWorkers ==
  /\ Stoppable /\ ~stopped
  /\ stopped' = TRUE
  /\ UNCHANGED <<callerVars, workerVars, condVars, capVars, releaseVars,
                 purger, stale, dormant, lock, items, running, waiting>>

-----------------------------------------------------------------------------
(* Release, and Tune as called by one goroutine.                           *)

Release ==
  /\ Releasable /\ ~closed
  /\ closed' = TRUE
  /\ releaser' = "reset"
  /\ UNCHANGED <<callerVars, workerVars, condVars, capVars, purgeVars, lock,
                 items, running, waiting>>

(* workerStack.reset finishes every idle worker while the lock is held.    *)
Idle == {items[i] : i \in 1..Len(items)}

(* Faulty variant: the stack is emptied without finishing its workers.     *)
ReleaseResetForgets ==
  /\ releaser = "reset"
  /\ lock = None
  /\ items' = << >>
  /\ releaser' = "broadcast"
  /\ UNCHANGED <<callerVars, workerVars, condVars, capVars, closed, purgeVars,
                 lock, running, waiting>>

ReleaseReset ==
  /\ releaser = "reset"
  /\ lock = None
  /\ \A w \in Idle : chan[w] = None
  /\ chan' = [w \in Workers |-> IF w \in Idle THEN Nil ELSE chan[w]]
  /\ items' = << >>
  /\ releaser' = "broadcast"
  /\ UNCHANGED <<callerVars, wpc, wseen, job, exiting, condVars, capVars,
                 closed, purgeVars, lock, running, waiting>>

ReleaseBroadcast ==
  /\ releaser = "broadcast"
  /\ Broadcast
  /\ releaser' = "done"
  /\ UNCHANGED <<callerVars, workerVars, capVars, closed, purgeVars, lock,
                 items, running, waiting>>

Tune(size) ==
  /\ grown = 0
  /\ size # cap
  /\ cap' = size
  /\ grown' = IF size > cap THEN size - cap ELSE 0
  /\ UNCHANGED <<callerVars, workerVars, condVars, releaseVars, purgeVars,
                 lock, items, running, waiting>>

TuneWake ==
  /\ grown > 0
  /\ grown' = 0
  /\ IF grown = 1 THEN Signal ELSE Broadcast
  /\ UNCHANGED <<callerVars, workerVars, cap, releaseVars, purgeVars, lock,
                 items, running, waiting>>

-----------------------------------------------------------------------------
(* The steps of one submitter inside a call, of one worker, of the rest.   *)

Call(s) ==
  \/ RetrieveWorker(s) \/ CheckCapacity(s) \/ Park(s) \/ Wakened(s)
  \/ SpawnWorker(s) \/ InputParam(s)

Run(w) ==
  \/ Receive(w) \/ FinishTask(w)
  \/ RevertCheck(w) \/ RevertRefused(w) \/ RevertInsert(w)
  \/ Exit(w)

Purge ==
  PurgeTick \/ PurgeStopped \/ PurgeRefresh \/ PurgeFinish \/ PurgeWake

ReleaseRest == ReleaseReset \/ ReleaseBroadcast

Next ==
  \/ \E s \in Submitters : Invoke(s) \/ Call(s)
  \/ \E w \in Workers : Run(w)
  \/ ExitSignal
  \/ Purge \/ StopPurgeStaleWorkers
  \/ Release \/ ReleaseRest
  \/ \E size \in TuneSizes : Tune(size)
  \/ TuneWake

Spec == Init /\ [][Next]_vars

(* Every goroutine that can go on does: tasks return, the ticker fires,    *)
(* the spin lock is not withheld from one goroutine for ever.  Nobody has  *)
(* to call Invoke, Release, Tune or StopPurgeStaleWorkers.                 *)
Fairness ==
  /\ \A s \in Submitters : WF_vars(Call(s))
  /\ \A w \in Workers : WF_vars(Run(w))
  /\ WF_vars(ExitSignal)
  /\ WF_vars(Purge)
  /\ WF_vars(ReleaseRest)
  /\ WF_vars(TuneWake)

FairSpec == Spec /\ Fairness
-----------------------------------------------------------------------------
(* Properties.                                                             *)

Live == {w \in Workers : wpc[w] # "off"}
At(label) == {s \in Submitters : pc[s] = label}
Counted == {s \in Submitters : pc[s] \in {"park", "waiting", "woken"}}

CallerPlaces == {"idle", "retrieve", "check", "park", "waiting", "woken",
                 "spawn", "send"}
WorkerPlaces == {"off", "recv", "run", "revert", "refused", "insert", "exit"}

(* The values the pool's fields can hold.                                  *)
TypeOK ==
  /\ pc \in [Submitters -> CallerPlaces]
  /\ seen \in [Submitters -> 0..MaxCap]
  /\ mine \in [Submitters -> Workers \cup {None}]
  /\ calls \in [Submitters -> 0..MaxCalls]
  /\ lock \in Submitters \cup {None}
  /\ items \in Seq(Workers)
  /\ wpc \in [Workers -> WorkerPlaces]
  /\ wseen \in [Workers -> 0..MaxCap]
  /\ chan \in [Workers -> Tasks \cup {Nil, None}]
  /\ job \in [Workers -> Tasks \cup {None}]
  /\ running \in Nat /\ waiting \in Nat /\ exiting \in Nat
  /\ notify \in Seq(Submitters)
  /\ cap \in 1..MaxCap /\ grown \in 0..MaxCap
  /\ closed \in BOOLEAN
  /\ releaser \in {"idle", "reset", "broadcast", "done"}
  /\ purger \in {"sleep", "refresh", "finish", "dead"}
  /\ stale \in Seq(Workers)
  /\ dormant \in BOOLEAN /\ stopped \in BOOLEAN

Distinct(q) == \A i, j \in 1..Len(q) : q[i] = q[j] => i = j
In(w, q) == \E i \in 1..Len(q) : q[i] = w
Ready(w) == wpc[w] = "recv" /\ chan[w] = None

(* A worker that waits in the stack, in the purger's list or in the hands  *)
(* of a submitter is in one of these places only, its goroutine is at the  *)
(* receive and its channel is empty.  So no inputParam and no finish ever  *)
(* blocks, not even the one reset makes while it holds the spin lock, and  *)
(* no worker is given two messages.                                        *)
OneOwner ==
  /\ Distinct(items) /\ Distinct(stale)
  /\ \A w \in Workers : ~(In(w, items) /\ In(w, stale))
  /\ \A w \in Workers : In(w, items) \/ In(w, stale) => Ready(w)
  /\ \A s \in Submitters : pc[s] = "send" =>
       /\ Ready(mine[s])
       /\ ~In(mine[s], items) /\ ~In(mine[s], stale)
  /\ \A s, t \in Submitters :
       pc[s] = "send" /\ pc[t] = "send" /\ mine[s] = mine[t] => s = t

(* A message in a channel has a goroutine at the receive to take it: none  *)
(* is sent to a worker whose goroutine has ended, to be run by whoever     *)
(* gets that object from workerCache later.                                *)
NotStranded == \A w \in Workers : chan[w] # None => wpc[w] = "recv"

(* running and waiting, updated by atomic adds in different goroutines,    *)
(* count the worker goroutines and the callers in cond.Wait.               *)
CountersExact ==
  /\ running = Cardinality(Live)
  /\ waiting = Cardinality(Counted)

(* How far past the capacity the pool can go: the check is made under the  *)
(* lock but the worker is counted after the unlock, so every submitter but *)
(* the one that came first may add one worker.                             *)
SpawnLimit == MaxCap + Cardinality(Submitters) - 1
BoundedOvershoot == running + Cardinality(At("spawn")) <= SpawnLimit

(* An idle worker and a parked caller do not coexist for long: as long as  *)
(* somebody is parked, each idle worker has a woken caller coming for it.  *)
IdleNotWasted ==
  ~closed /\ notify # << >> => Len(items) <= Cardinality(At("woken"))

(* Once Release has reset the stack no worker goes back to it, where       *)
(* nobody would ever finish it.                                            *)
NoIdleAfterReset == releaser \in {"broadcast", "done"} => items = << >>

(* Every call of Invoke returns, whatever wake-up was lost, because the    *)
(* purger wakes the waiters of a dormant pool; a Release takes it away.    *)
InvokeReturns ==
  \A s \in Submitters : (pc[s] # "idle") ~> (pc[s] = "idle" \/ closed)

(* After Release every worker goroutine ends.                              *)
ReleaseDrains == closed ~> (running = 0)

(* A pool above its capacity, because of a Tune to less or of the          *)
(* overshoot, comes back to it.                                            *)
OvershootHeals == (running > cap) ~> (running <= cap)

(* "Wake the wait queue", says the comment on the last Signal of a worker, *)
(* and Release broadcasts: a caller waiting on a closed pool is let go.    *)
ReleaseWakesWaiters ==
  \A s \in Submitters : (closed /\ pc[s] = "waiting") ~> (pc[s] # "waiting")

(* The pool implements Executor: a task is offered by a call that has not  *)
(* returned, accepted in a channel, and under way at a worker.             *)
Offered  == {<<s, calls[s]>> : s \in {r \in Submitters : pc[r] # "idle"}}
Accepted == {chan[w] : w \in {v \in Workers : chan[v] \in Tasks}}
Underway == {job[w] : w \in {v \in Workers : job[v] # None}}

Promise == INSTANCE Executor WITH
  Limit <- SpawnLimit, made <- calls, offered <- Offered,
  pending <- Accepted, underway <- Underway, shut <- closed

(* Every task offered to the pool is accepted at most once, refused only   *)
(* when the pool is closed, run once if accepted, and ends.                *)
ImplementsFair == Promise!FairSpec
=============================================================================
