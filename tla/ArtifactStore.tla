---------------------------- MODULE ArtifactStore ----------------------------
(***************************************************************************)
(* What Vaultium promises of a backup directory, with no word of how: a    *)
(* name holds nothing or one complete backup.  Only a writer that holds    *)
(* its lock changes that, by putting a backup under a name of its own in   *)
(* one step, or by dropping one that is older than it must keep backups.   *)
(* A writer does not keep its lock for ever.                               *)
(***************************************************************************)
EXTENDS Naturals

CONSTANTS
    Writers,
    Locks,
    LockOf,    \* the lock of each writer
    NamesOf,   \* the names each writer may put a backup under
    KeepFor,   \* how long each writer must keep a backup
    Names,
    Data,
    None,
    MaxTime

VARIABLES
    now,
    holder,    \* who holds each lock
    store,     \* the backup under each name
    born       \* when its data was complete

vars == <<now, holder, store, born>>

Init ==
    /\ now = 0
    /\ holder = [l \in Locks |-> None]
    /\ store = [n \in Names |-> None]
    /\ born = [n \in Names |-> 0]

Holds(w) == holder[LockOf[w]] = w

Acquire(w) ==
    /\ holder[LockOf[w]] = None
    /\ holder' = [holder EXCEPT ![LockOf[w]] = w]
    /\ UNCHANGED <<now, store, born>>

Release(w) ==
    /\ Holds(w)
    /\ holder' = [holder EXCEPT ![LockOf[w]] = None]
    /\ UNCHANGED <<now, store, born>>

Put(w, n, d, t) ==
    /\ Holds(w)
    /\ n \in NamesOf[w]
    /\ t <= now
    /\ store' = [store EXCEPT ![n] = d]
    /\ born' = [born EXCEPT ![n] = t]
    /\ UNCHANGED <<now, holder>>

Drop(w, n) ==
    /\ Holds(w)
    /\ store[n] # None
    /\ now - born[n] > KeepFor[w]
    /\ store' = [store EXCEPT ![n] = None]
    /\ born' = [born EXCEPT ![n] = 0]
    /\ UNCHANGED <<now, holder>>

Tick ==
    /\ now < MaxTime
    /\ now' = now + 1
    /\ UNCHANGED <<holder, store, born>>

Next ==
    \/ \E w \in Writers :
        \/ Acquire(w) \/ Release(w)
        \/ \E n \in Names : Drop(w, n)
        \/ \E n \in Names, d \in Data, t \in 0 .. MaxTime : Put(w, n, d, t)
    \/ Tick

Spec == Init /\ [][Next]_vars /\ \A w \in Writers : WF_vars(Release(w))

=============================================================================
