---------------------------- MODULE ConnManager ----------------------------
(***************************************************************************)
(* The connection table (server/connmanager.go, epoll/connmanger.go): a    *)
(* map under a sync.RWMutex.  A section that ends in the call that began   *)
(* it is one step; connLock is held between steps only by a goroutine that *)
(* calls out of the section, and Go's mutex is not reentrant.              *)
(***************************************************************************)
CONSTANTS
  Conns,       \* connections, by ConnID
  None         \* no goroutine, no connection

VARIABLES
  connections, \* ConnManager.connections
  connLock     \* the goroutine that holds connLock over several steps, or None

tableVars == <<connections, connLock>>

(* Lock and RLock wait for the holder; Len is an RLock of its own.         *)
Available == connLock = None

Add(c) ==
  /\ Available
  /\ connections' = connections \cup {c}
  /\ UNCHANGED connLock

Remove(c) ==
  /\ Available
  /\ connections' = connections \ {c}
  /\ UNCHANGED connLock

(* The epoll table unlocks in a defer, so after the delete the lock is     *)
(* still held when the log line asks for Len.  A connection that is not in *)
(* the table makes EPOLL_CTL_DEL fail and Remove return before that.       *)
RemoveHolding(g, c) ==
  /\ Available
  /\ connections' = connections \ {c}
  /\ connLock' = IF c \in connections THEN g ELSE None
=============================================================================
