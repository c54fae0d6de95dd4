------------------------------- MODULE FileLock -------------------------------
(***************************************************************************)
(* What the runs of one job rely on in their lock file, with no word of    *)
(* descriptors: the lock is nobody's or one run's, a run takes it only     *)
(* when it is nobody's, and it never passes from one run to another.       *)
(***************************************************************************)
CONSTANTS
    Runs,
    None

VARIABLE owner

Init == owner = None

Acquire(r) == owner = None /\ owner' = r
Release(r) == owner = r /\ owner' = None

Next == \E r \in Runs : Acquire(r) \/ Release(r)

Spec == Init /\ [][Next]_owner

=============================================================================
