------------------------- MODULE BackupManagerProofs -------------------------
(***************************************************************************)
(* What holds of BackupManager for every set of processes, every           *)
(* configuration and every bound that satisfies its assumptions.           *)
(***************************************************************************)
EXTENDS BackupManager, TLAPS

-----------------------------------------------------------------------------
(***************************************************************************)
(* The inductive invariant.                                                *)
(***************************************************************************)

\* A process inside runOnce holds its flock.
LockInv == \A p \in Procs : pc[p] # "idle" => lock[LockFile(p)] = p

\* Between Prepare and the end of the run there is a target of the run's own
\* series; before Prepare there is none.
TargetInv ==
    \A p \in Procs :
        IF pc[p] \in {"idle", "locked"}
        THEN target[p] = None
        ELSE target[p] \in Names /\ target[p][1] = Config[p].series

\* A finished dump is complete, and so is what was published.
WholeInv ==
    /\ \A p \in Procs : pc[p] = "dumped" => tmp[target[p]] # Torn
    /\ \A n \in Names : artifact[n] # Torn

\* No artifact was written before the second its name bears, no dump after
\* the present one, and no run is older than MaxRun.
AgeInv ==
    /\ \A n \in Names :
        IF artifact[n] = None THEN mtime[n] = 0 ELSE n[2] <= mtime[n]
    /\ \A p \in Procs :
        /\ written[p] <= now
        /\ target[p] # None => target[p][2] <= now /\ now <= target[p][2] + MaxRun
        /\ pc[p] \in {"writing", "dumped"} => target[p][2] <= written[p]

\* What a cleanup is about to remove has expired, even by its name.
VictimInv ==
    \A p \in Procs :
        /\ pc[p] = "cleaning" => Cleans(p)
        /\ pc[p] = "removing" =>
            /\ Cleans(p)
            /\ victim[p] \in Names
            /\ now > victim[p][2] + MaxRun
            /\ artifact[victim[p]] # None => Expired(p, victim[p])
        /\ pc[p] \in {"removingSidecar", "removingMeta"} => Cleans(p) /\ victim[p] \in Names

IInv == TypeOK /\ LockInv /\ TargetInv /\ WholeInv /\ AgeInv /\ VictimInv

-----------------------------------------------------------------------------
(***************************************************************************)
(* The inductive invariant of the sidecars, which rests on the one above.  *)
(***************************************************************************)

Removing == {"removing", "removingSidecar", "removingMeta"}
Placed == {"published", "hashed", "sealing", "sealed", "described", "cleaning"} \union Removing

\* A victim is older than any run, hence no run's target, until its removal
\* is through; and once its artifact is gone it stays so.
RemovalInv ==
    \A p \in Procs :
        /\ pc[p] \in Removing => victim[p] \in Names /\ now > victim[p][2] + MaxRun
        /\ pc[p] \in {"removingSidecar", "removingMeta"} => artifact[victim[p]] = None

\* What a run has published is there as long as the run is.
PresentInv == \A p \in Procs : pc[p] \in Placed => artifact[target[p]] # None

\* The checksum a run has computed is still that of its artifact when it is
\* written, into a sidecar that nobody else has filled.
DigestInv ==
    \A p \in Procs :
        /\ pc[p] \in {"hashed", "sealing"} => digest[p] = artifact[target[p]]
        /\ pc[p] = "sealing" => sidecar[target[p]] = Torn

\* A run with checksums that has got past its sidecar has sealed its artifact.
SealedInv ==
    \A p \in Procs :
        ~ShortWrites /\ Config[p].checksum
            /\ pc[p] \in {"sealed", "described", "cleaning"} \union Removing
            => sidecar[target[p]] = artifact[target[p]]

\* A sidecar without its artifact was cut off from it, or the removal that
\* took the artifact is about to take it.
SideExcused(n) ==
    n \in cut \/ \E p \in Procs : victim[p] = n /\ pc[p] = "removingSidecar"
MetaExcused(n) ==
    n \in cut \/ \E p \in Procs : victim[p] = n /\ pc[p] \in {"removingSidecar", "removingMeta"}
OrphanInv ==
    \A n \in Names : artifact[n] = None =>
        (sidecar[n] # None => SideExcused(n)) /\ (meta[n] # None => MetaExcused(n))

\* A mismatch is excused as long as its run has still to truncate the sidecar.
MismatchExcused(n) ==
    n \in cut \/ \E p \in Procs : target[p] = n /\ pc[p] \in {"published", "hashed"}

\* Only a run with checksums writes one, and it has one to write.
MeantInv ==
    /\ \A p \in Procs : /\ pc[p] \in {"hashed", "sealing"} => Config[p].checksum
                        /\ pc[p] = "sealed" => digest[p] # None
    /\ \A n \in Names : sidecar[n] # None =>
           \E p \in Procs : Config[p].series = n[1] /\ Config[p].checksum

\* A sidecar is empty while it is written, or when that was cut short.
TornExcused(n) ==
    ShortWrites \/ n \in cut \/ \E p \in Procs : target[p] = n /\ pc[p] = "sealing"
TornInv == \A n \in Names : sidecar[n] = Torn => TornExcused(n)

SideInv ==
    /\ RemovalInv /\ PresentInv /\ DigestInv /\ SealedInv /\ OrphanInv
    /\ MismatchOnlyUnsealed /\ MeantInv /\ TornInv

-----------------------------------------------------------------------------
(***************************************************************************)
(* Type correctness.                                                       *)
(***************************************************************************)

\* Leaving runOnce keeps the locals within their types.
LEMMA LeaveType ==
    ASSUME TypeOK, NEW p \in Procs, Leave(p)
    PROVE  /\ pc' \in [Procs -> Points]
           /\ lock' \in [LockFiles -> Procs \union {None}]
           /\ target' \in [Procs -> Names \union {None}]
           /\ written' \in [Procs -> 0 .. MaxTime]
           /\ digest' \in [Procs -> Contents]
           /\ pending' \in [Procs -> SUBSET Names]
           /\ victim' \in [Procs -> Names \union {None}]
<1>1. LockFile(p) \in LockFiles /\ 0 \in 0 .. MaxTime
  BY ConfigAssumption, BoundAssumption DEF Configs, LockFile
<1>2. pc' \in [Procs -> Points] /\ lock' \in [LockFiles -> Procs \union {None}]
  BY <1>1 DEF TypeOK, Leave, Points
<1>3. /\ target' \in [Procs -> Names \union {None}]
      /\ written' \in [Procs -> 0 .. MaxTime]
      /\ digest' \in [Procs -> Contents]
  BY <1>1 DEF TypeOK, Leave, Contents
<1>4. /\ pending' \in [Procs -> SUBSET Names]
      /\ victim' \in [Procs -> Names \union {None}]
  BY DEF TypeOK, Leave
<1> QED
  BY <1>2, <1>3, <1>4

\* A target and a victim are names when the history records them.
LEMMA FaultType ==
    ASSUME TypeOK, TargetInv, VictimInv, NEW p \in Procs, Fault(p)
    PROVE  cut' \in SUBSET Names /\ faults' \in 0 .. MaxFaults
<1>1. CutShort(p) \in SUBSET Names
  BY DEF TypeOK, TargetInv, VictimInv, CutShort
<1> QED
  BY <1>1, BoundAssumption DEF TypeOK, Fault

\* Every step keeps the types.
LEMMA NextType ==
    ASSUME TypeOK, TargetInv, VictimInv, [Next]_vars
    PROVE  TypeOK'
<1> USE ConfigAssumption, BoundAssumption
        DEF TypeOK, Configs, Points, Contents, files, locals, history, Goto
<1>1. ASSUME NEW p \in Procs, TryLock(p) PROVE TypeOK'
  BY <1>1 DEF TryLock, LockFile
<1>2. ASSUME NEW p \in Procs, Prepare(p) PROVE TypeOK'
  <2>1. <<Config[p].series, now>> \in Names
    BY DEF Names
  <2> QED
    BY <1>2, <2>1 DEF Prepare
<1>3. ASSUME NEW p \in Procs, StartDump(p) PROVE TypeOK'
  BY <1>3 DEF StartDump
<1>4. ASSUME NEW p \in Procs, EndDump(p) PROVE TypeOK'
  BY <1>4 DEF EndDump
<1>5. ASSUME NEW p \in Procs, EmptyDump(p) PROVE TypeOK'
  BY <1>5, LeaveType, FaultType DEF EmptyDump
<1>6. ASSUME NEW p \in Procs, Publish(p) PROVE TypeOK'
  BY <1>6 DEF Publish, TargetInv
<1>7. ASSUME NEW p \in Procs, HashArtifact(p) PROVE TypeOK'
  BY <1>7 DEF HashArtifact, TargetInv
<1>8. ASSUME NEW p \in Procs, OpenSidecar(p) PROVE TypeOK'
  BY <1>8 DEF OpenSidecar
<1>9. ASSUME NEW p \in Procs, WriteSidecar(p) PROVE TypeOK'
  BY <1>9 DEF WriteSidecar
<1>10. ASSUME NEW p \in Procs, WriteMetadata(p) PROVE TypeOK'
  <2>1. target[p] \in Names /\ artifact[target[p]] \in Contents /\ digest[p] \in Contents
    BY <1>10 DEF WriteMetadata, TargetInv, SealedAt
  <2>2. meta' \in [Names -> Contents]
    BY <1>10, <2>1 DEF WriteMetadata
  <2>3. pc' \in [Procs -> Points]
    BY <1>10 DEF WriteMetadata
  <2> QED
    BY <1>10, <2>2, <2>3 DEF WriteMetadata
<1>11. ASSUME NEW p \in Procs, ListDirectory(p) PROVE TypeOK'
  <2>1. {n \in Names : artifact[n] # None} \in SUBSET Names
    OBVIOUS
  <2>2. pending' \in [Procs -> SUBSET Names]
    BY <1>11, <2>1 DEF ListDirectory
  <2> QED
    BY <1>11, <2>2 DEF ListDirectory
<1>12. ASSUME NEW p \in Procs, Examine(p) PROVE TypeOK'
  <2>1. PICK n \in pending[p] :
            /\ pending' = [pending EXCEPT ![p] = @ \ {n}]
            /\ IF Expired(p, n)
               THEN /\ victim' = [victim EXCEPT ![p] = n]
                    /\ pc' = [pc EXCEPT ![p] = "removing"]
               ELSE UNCHANGED <<victim, pc>>
    BY <1>12 DEF Examine
  <2>2. n \in Names /\ pending[p] \ {n} \in SUBSET Names
    OBVIOUS
  <2>3. pending' \in [Procs -> SUBSET Names]
    BY <2>1, <2>2
  <2>4. victim' \in [Procs -> Names \union {None}] /\ pc' \in [Procs -> Points]
    BY <2>1, <2>2
  <2> QED
    BY <1>12, <2>3, <2>4 DEF Examine
<1>13. ASSUME NEW p \in Procs, RemoveArtifact(p) PROVE TypeOK'
  <2> 0 \in 0 .. MaxTime /\ None \in Contents
    OBVIOUS
  <2>1. artifact' \in [Names -> Contents] /\ mtime' \in [Names -> 0 .. MaxTime]
    BY <1>13 DEF RemoveArtifact
  <2>2. pc' \in [Procs -> Points]
    BY <1>13 DEF RemoveArtifact
  <2>3. UNCHANGED <<now, lock, tmp, sidecar, meta, target, written, digest,
                   pending, victim, cut, faults>>
    BY <1>13 DEF RemoveArtifact
  <2> QED
    BY <2>1, <2>2, <2>3
<1>14. ASSUME NEW p \in Procs, RemoveSidecar(p) PROVE TypeOK'
  BY <1>14, FaultType DEF RemoveSidecar
<1>15. ASSUME NEW p \in Procs, RemoveMetadata(p) PROVE TypeOK'
  BY <1>15, FaultType DEF RemoveMetadata
<1>16. ASSUME NEW p \in Procs, Return(p) PROVE TypeOK'
  BY <1>16, LeaveType DEF Return
<1>17. ASSUME NEW p \in Procs, Throw(p) PROVE TypeOK'
  BY <1>17, LeaveType, FaultType DEF Throw
<1>18. ASSUME NEW p \in Procs, Crash(p) PROVE TypeOK'
  BY <1>18, LeaveType, FaultType DEF Crash
<1>19. CASE Tick
  BY <1>19 DEF Tick
<1>20. CASE UNCHANGED vars
  BY <1>20 DEF vars
<1>21. ASSUME NEW p \in Procs, Orphan(p) PROVE TypeOK'
  BY <1>21, FaultType DEF Orphan
<1>22. ASSUME NEW p \in Procs, OrphansEnd(p) PROVE TypeOK'
  <2>1. tmp' \in [Names -> Contents]
    BY <1>22 DEF OrphansEnd
  <2> QED
    BY <1>22, <2>1, LeaveType DEF OrphansEnd
<1> QED
  BY <1>1, <1>2, <1>3, <1>4, <1>5, <1>6, <1>7, <1>8, <1>9, <1>10, <1>11,
     <1>12, <1>13, <1>14, <1>15, <1>16, <1>17, <1>18, <1>19, <1>20, <1>21, <1>22
     DEF Next, Step

-----------------------------------------------------------------------------
(***************************************************************************)
(* The lock.                                                               *)
(***************************************************************************)

\* A process that leaves runOnce releases a lock no other one relies on.
LEMMA LeaveLock ==
    ASSUME TypeOK, LockInv, NEW p \in Procs, pc[p] # "idle", Leave(p)
    PROVE  LockInv'
<1> SUFFICES ASSUME NEW q \in Procs, pc'[q] # "idle"
             PROVE  lock'[LockFile(q)] = q
  BY DEF LockInv, LockFile
<1>1. q # p /\ pc[q] # "idle"
  BY DEF TypeOK, Leave
<1>2. lock[LockFile(q)] = q /\ lock[LockFile(p)] = p
  BY <1>1 DEF LockInv
<1>3. LockFile(q) # LockFile(p)
  BY <1>1, <1>2
<1> QED
  BY <1>2, <1>3, ConfigAssumption DEF TypeOK, Leave, LockFile, Configs

\* A process that takes the lock takes it from nobody.
LEMMA TryLockLock ==
    ASSUME TypeOK, LockInv, NEW p \in Procs, TryLock(p)
    PROVE  LockInv'
<1> SUFFICES ASSUME NEW q \in Procs, pc'[q] # "idle"
             PROVE  lock'[LockFile(q)] = q
  BY DEF LockInv, LockFile
<1> USE ConfigAssumption, NullAssumption DEF TypeOK, TryLock, Goto, LockFile, Configs
<1>1. CASE q = p
  BY <1>1
<1>2. CASE q # p
  <2>1. lock[LockFile(q)] = q
    BY <1>2 DEF LockInv
  <2>2. LockFile(q) # LockFile(p)
    BY <2>1
  <2> QED
    BY <2>1, <2>2
<1> QED
  BY <1>1, <1>2

\* Every step leaves the lock with whoever is inside runOnce.
LEMMA NextLock ==
    ASSUME TypeOK, LockInv, [Next]_vars
    PROVE  LockInv'
<1> USE DEF LockInv, TypeOK, LockFile, Goto, files, locals, history
<1>1. ASSUME NEW p \in Procs, TryLock(p) PROVE LockInv'
  BY <1>1, TryLockLock
<1>2. ASSUME NEW p \in Procs, Prepare(p) PROVE LockInv'
  BY <1>2 DEF Prepare
<1>3. ASSUME NEW p \in Procs, StartDump(p) PROVE LockInv'
  BY <1>3 DEF StartDump
<1>4. ASSUME NEW p \in Procs, EndDump(p) PROVE LockInv'
  BY <1>4 DEF EndDump
<1>5. ASSUME NEW p \in Procs, EmptyDump(p) PROVE LockInv'
  BY <1>5, LeaveLock DEF EmptyDump
<1>6. ASSUME NEW p \in Procs, Publish(p) PROVE LockInv'
  BY <1>6 DEF Publish
<1>7. ASSUME NEW p \in Procs, HashArtifact(p) PROVE LockInv'
  BY <1>7 DEF HashArtifact
<1>8. ASSUME NEW p \in Procs, OpenSidecar(p) PROVE LockInv'
  BY <1>8 DEF OpenSidecar
<1>9. ASSUME NEW p \in Procs, WriteSidecar(p) PROVE LockInv'
  BY <1>9 DEF WriteSidecar
<1>10. ASSUME NEW p \in Procs, WriteMetadata(p) PROVE LockInv'
  BY <1>10 DEF WriteMetadata, SealedAt
<1>11. ASSUME NEW p \in Procs, ListDirectory(p) PROVE LockInv'
  BY <1>11 DEF ListDirectory, DescribedAt, SealedAt
<1>12. ASSUME NEW p \in Procs, Examine(p) PROVE LockInv'
  BY <1>12 DEF Examine
<1>13. ASSUME NEW p \in Procs, RemoveArtifact(p) PROVE LockInv'
  BY <1>13 DEF RemoveArtifact
<1>14. ASSUME NEW p \in Procs, RemoveSidecar(p) PROVE LockInv'
  BY <1>14 DEF RemoveSidecar
<1>15. ASSUME NEW p \in Procs, RemoveMetadata(p) PROVE LockInv'
  BY <1>15 DEF RemoveMetadata
<1>16. ASSUME NEW p \in Procs, Return(p) PROVE LockInv'
  BY <1>16, LeaveLock DEF Return, DescribedAt, SealedAt
<1>17. ASSUME NEW p \in Procs, Throw(p) PROVE LockInv'
  BY <1>17, LeaveLock DEF Throw
<1>18. ASSUME NEW p \in Procs, Crash(p) PROVE LockInv'
  BY <1>18, LeaveLock DEF Crash
<1>19. CASE Tick
  BY <1>19 DEF Tick
<1>20. CASE UNCHANGED vars
  BY <1>20 DEF vars
<1>21. ASSUME NEW p \in Procs, Orphan(p) PROVE LockInv'
  BY <1>21 DEF Orphan
<1>22. ASSUME NEW p \in Procs, OrphansEnd(p) PROVE LockInv'
  BY <1>22, LeaveLock DEF OrphansEnd
<1> QED
  BY <1>1, <1>2, <1>3, <1>4, <1>5, <1>6, <1>7, <1>8, <1>9, <1>10, <1>11,
     <1>12, <1>13, <1>14, <1>15, <1>16, <1>17, <1>18, <1>19, <1>20, <1>21, <1>22
     DEF Next, Step

\* Two processes inside runOnce with one target are one process: the target
\* gives away the series, the series the lock file, the lock its holder.
LEMMA TargetOwner ==
    ASSUME LockInv, TargetInv, NEW p \in Procs, NEW q \in Procs,
           target[p] = target[q], target[p] # None
    PROVE  p = q
<1>1. pc[p] \notin {"idle", "locked"} /\ pc[q] \notin {"idle", "locked"}
  BY DEF TargetInv
<1>2. Config[p].series = Config[q].series
  BY <1>1 DEF TargetInv
<1>3. lock[LockFile(p)] = p /\ lock[LockFile(q)] = q
  BY <1>1 DEF LockInv
<1> QED
  BY <1>2, <1>3, SeriesLockAssumption DEF LockFile

-----------------------------------------------------------------------------
(***************************************************************************)
(* Targets.                                                                *)
(***************************************************************************)

\* Every step keeps the targets in their series.
LEMMA NextTarget ==
    ASSUME TypeOK, TargetInv, [Next]_vars
    PROVE  TargetInv'
<1> USE ConfigAssumption, NullAssumption
        DEF TargetInv, TypeOK, Names, Goto, Leave, files, locals, history
<1>1. ASSUME NEW p \in Procs, TryLock(p) PROVE TargetInv'
  BY <1>1 DEF TryLock
<1>2. ASSUME NEW p \in Procs, Prepare(p) PROVE TargetInv'
  <2>1. <<Config[p].series, now>> \in Names
    BY DEF Configs
  <2>2. target'[p] = <<Config[p].series, now>> /\ pc'[p] = "dumping"
    BY <1>2 DEF Prepare
  <2>3. \A q \in Procs \ {p} : target'[q] = target[q] /\ pc'[q] = pc[q]
    BY <1>2 DEF Prepare
  <2> QED
    BY <2>1, <2>2, <2>3
<1>3. ASSUME NEW p \in Procs, StartDump(p) PROVE TargetInv'
  BY <1>3 DEF StartDump
<1>4. ASSUME NEW p \in Procs, EndDump(p) PROVE TargetInv'
  BY <1>4 DEF EndDump
<1>5. ASSUME NEW p \in Procs, EmptyDump(p) PROVE TargetInv'
  BY <1>5 DEF EmptyDump
<1>6. ASSUME NEW p \in Procs, Publish(p) PROVE TargetInv'
  BY <1>6 DEF Publish
<1>7. ASSUME NEW p \in Procs, HashArtifact(p) PROVE TargetInv'
  BY <1>7 DEF HashArtifact
<1>8. ASSUME NEW p \in Procs, OpenSidecar(p) PROVE TargetInv'
  BY <1>8 DEF OpenSidecar
<1>9. ASSUME NEW p \in Procs, WriteSidecar(p) PROVE TargetInv'
  BY <1>9 DEF WriteSidecar
<1>10. ASSUME NEW p \in Procs, WriteMetadata(p) PROVE TargetInv'
  BY <1>10 DEF WriteMetadata, SealedAt
<1>11. ASSUME NEW p \in Procs, ListDirectory(p) PROVE TargetInv'
  BY <1>11 DEF ListDirectory, DescribedAt, SealedAt
<1>12. ASSUME NEW p \in Procs, Examine(p) PROVE TargetInv'
  BY <1>12 DEF Examine
<1>13. ASSUME NEW p \in Procs, RemoveArtifact(p) PROVE TargetInv'
  BY <1>13 DEF RemoveArtifact
<1>14. ASSUME NEW p \in Procs, RemoveSidecar(p) PROVE TargetInv'
  BY <1>14 DEF RemoveSidecar
<1>15. ASSUME NEW p \in Procs, RemoveMetadata(p) PROVE TargetInv'
  BY <1>15 DEF RemoveMetadata
<1>16. ASSUME NEW p \in Procs, Return(p) PROVE TargetInv'
  BY <1>16 DEF Return
<1>17. ASSUME NEW p \in Procs, Throw(p) PROVE TargetInv'
  BY <1>17 DEF Throw
<1>18. ASSUME NEW p \in Procs, Crash(p) PROVE TargetInv'
  BY <1>18 DEF Crash
<1>19. CASE Tick
  BY <1>19 DEF Tick
<1>20. CASE UNCHANGED vars
  BY <1>20 DEF vars
<1>21. ASSUME NEW p \in Procs, Orphan(p) PROVE TargetInv'
  BY <1>21 DEF Orphan
<1>22. ASSUME NEW p \in Procs, OrphansEnd(p) PROVE TargetInv'
  BY <1>22 DEF OrphansEnd
<1> QED
  BY <1>1, <1>2, <1>3, <1>4, <1>5, <1>6, <1>7, <1>8, <1>9, <1>10, <1>11,
     <1>12, <1>13, <1>14, <1>15, <1>16, <1>17, <1>18, <1>19, <1>20, <1>21, <1>22
     DEF Next, Step

-----------------------------------------------------------------------------
(***************************************************************************)
(* Publication.                                                            *)
(***************************************************************************)

\* The temporary file of a finished dump is touched by its own run only.
LEMMA NextWhole ==
    ASSUME TypeOK, LockInv, TargetInv, WholeInv, [Next]_vars
    PROVE  WholeInv'
<1> USE ConfigAssumption, NullAssumption
        DEF WholeInv, TypeOK, Contents, Goto, Leave, files, locals, history
<1>1. ASSUME NEW p \in Procs, TryLock(p) PROVE WholeInv'
  BY <1>1 DEF TryLock
<1>2. ASSUME NEW p \in Procs, Prepare(p) PROVE WholeInv'
  <2>1. \A q \in Procs : pc'[q] = "dumped" => pc[q] = "dumped" /\ q # p
    BY <1>2 DEF Prepare
  <2>2. \A q \in Procs \ {p} : target'[q] = target[q]
    BY <1>2 DEF Prepare
  <2>3. \A n \in Names : tmp'[n] \in {tmp[n], None}
    BY <1>2 DEF Prepare
  <2>4. UNCHANGED artifact
    BY <1>2 DEF Prepare
  <2> QED
    BY <2>1, <2>2, <2>3, <2>4 DEF TargetInv
<1>3. ASSUME NEW p \in Procs, StartDump(p) PROVE WholeInv'
  <2>1. \A q \in Procs : pc'[q] = "dumped" => pc[q] = "dumped" /\ target[q] # target[p]
    BY <1>3, TargetOwner DEF StartDump, TargetInv
  <2>2. \A n \in Names \ {target[p]} : tmp'[n] = tmp[n]
    BY <1>3 DEF StartDump
  <2>3. UNCHANGED <<artifact, target>>
    BY <1>3 DEF StartDump
  <2> QED
    BY <2>1, <2>2, <2>3 DEF TargetInv
<1>4. ASSUME NEW p \in Procs, EndDump(p) PROVE WholeInv'
  <2>1. target[p] \in Names
    BY <1>4 DEF EndDump, TargetInv
  <2>2. PICK d \in Data : tmp' = [tmp EXCEPT ![target[p]] = d]
    BY <1>4 DEF EndDump
  <2>3. tmp'[target[p]] = d /\ \A n \in Names \ {target[p]} : tmp'[n] = tmp[n]
    BY <2>1, <2>2
  <2>4. UNCHANGED <<artifact, target>>
    BY <1>4 DEF EndDump
  <2>5. \A q \in Procs \ {p} : pc'[q] = pc[q]
    BY <1>4 DEF EndDump
  <2> QED
    BY <2>3, <2>4, <2>5 DEF TargetInv
<1>5. ASSUME NEW p \in Procs, EmptyDump(p) PROVE WholeInv'
  BY <1>5 DEF EmptyDump
<1>6. ASSUME NEW p \in Procs, Publish(p) PROVE WholeInv'
  BY <1>6 DEF Publish
<1>7. ASSUME NEW p \in Procs, HashArtifact(p) PROVE WholeInv'
  BY <1>7 DEF HashArtifact
<1>8. ASSUME NEW p \in Procs, OpenSidecar(p) PROVE WholeInv'
  BY <1>8 DEF OpenSidecar
<1>9. ASSUME NEW p \in Procs, WriteSidecar(p) PROVE WholeInv'
  BY <1>9 DEF WriteSidecar
<1>10. ASSUME NEW p \in Procs, WriteMetadata(p) PROVE WholeInv'
  BY <1>10 DEF WriteMetadata, SealedAt
<1>11. ASSUME NEW p \in Procs, ListDirectory(p) PROVE WholeInv'
  BY <1>11 DEF ListDirectory, DescribedAt, SealedAt
<1>12. ASSUME NEW p \in Procs, Examine(p) PROVE WholeInv'
  BY <1>12 DEF Examine
<1>13. ASSUME NEW p \in Procs, RemoveArtifact(p) PROVE WholeInv'
  BY <1>13 DEF RemoveArtifact
<1>14. ASSUME NEW p \in Procs, RemoveSidecar(p) PROVE WholeInv'
  BY <1>14 DEF RemoveSidecar
<1>15. ASSUME NEW p \in Procs, RemoveMetadata(p) PROVE WholeInv'
  BY <1>15 DEF RemoveMetadata
<1>16. ASSUME NEW p \in Procs, Return(p) PROVE WholeInv'
  BY <1>16 DEF Return
<1>17. ASSUME NEW p \in Procs, Throw(p) PROVE WholeInv'
  BY <1>17 DEF Throw
<1>18. ASSUME NEW p \in Procs, Crash(p) PROVE WholeInv'
  BY <1>18 DEF Crash
<1>19. CASE Tick
  BY <1>19 DEF Tick
<1>20. CASE UNCHANGED vars
  BY <1>20 DEF vars
<1>21. ASSUME NEW p \in Procs, Orphan(p) PROVE WholeInv'
  BY <1>21 DEF Orphan
<1>22. ASSUME NEW p \in Procs, OrphansEnd(p) PROVE WholeInv'
  <2>1. \A q \in Procs : pc'[q] = "dumped" => pc[q] = "dumped" /\ target[q] # target[p]
    BY <1>22, TargetOwner DEF OrphansEnd, TargetInv
  <2>2. \A n \in Names \ {target[p]} : tmp'[n] = tmp[n]
    BY <1>22 DEF OrphansEnd
  <2>3. \A q \in Procs : pc'[q] = "dumped" => target'[q] = target[q]
    BY <1>22 DEF OrphansEnd
  <2>4. UNCHANGED artifact
    BY <1>22 DEF OrphansEnd
  <2> QED
    BY <2>1, <2>2, <2>3, <2>4 DEF TargetInv
<1> QED
  BY <1>1, <1>2, <1>3, <1>4, <1>5, <1>6, <1>7, <1>8, <1>9, <1>10, <1>11,
     <1>12, <1>13, <1>14, <1>15, <1>16, <1>17, <1>18, <1>19, <1>20, <1>21, <1>22
     DEF Next, Step

-----------------------------------------------------------------------------
(***************************************************************************)
(* Ages.                                                                   *)
(***************************************************************************)

\* Every step keeps the ages in order.
LEMMA NextAge ==
    ASSUME TypeOK, TargetInv, AgeInv, [Next]_vars
    PROVE  AgeInv'
<1> USE ConfigAssumption, NullAssumption, BoundAssumption
        DEF AgeInv, TypeOK, Contents, Goto, Leave, files, locals, history
<1>1. ASSUME NEW p \in Procs, TryLock(p) PROVE AgeInv'
  BY <1>1 DEF TryLock
<1>2. ASSUME NEW p \in Procs, Prepare(p) PROVE AgeInv'
  BY <1>2 DEF Prepare
<1>3. ASSUME NEW p \in Procs, StartDump(p) PROVE AgeInv'
  <2>1. target[p] # None /\ written'[p] = now
    BY <1>3 DEF StartDump, TargetInv, Names
  <2>2. \A q \in Procs \ {p} : written'[q] = written[q] /\ pc'[q] = pc[q]
    BY <1>3 DEF StartDump
  <2>3. UNCHANGED <<now, artifact, mtime, target>>
    BY <1>3 DEF StartDump
  <2> QED
    BY <2>1, <2>2, <2>3
<1>4. ASSUME NEW p \in Procs, EndDump(p) PROVE AgeInv'
  <2>1. target[p] # None /\ written'[p] = now
    BY <1>4 DEF EndDump, TargetInv, Names
  <2>2. \A q \in Procs \ {p} : written'[q] = written[q] /\ pc'[q] = pc[q]
    BY <1>4 DEF EndDump
  <2>3. UNCHANGED <<now, artifact, mtime, target>>
    BY <1>4 DEF EndDump
  <2> QED
    BY <2>1, <2>2, <2>3
<1>5. ASSUME NEW p \in Procs, EmptyDump(p) PROVE AgeInv'
  BY <1>5 DEF EmptyDump
<1>6. ASSUME NEW p \in Procs, Publish(p) PROVE AgeInv'
  BY <1>6 DEF Publish
<1>7. ASSUME NEW p \in Procs, HashArtifact(p) PROVE AgeInv'
  BY <1>7 DEF HashArtifact
<1>8. ASSUME NEW p \in Procs, OpenSidecar(p) PROVE AgeInv'
  BY <1>8 DEF OpenSidecar
<1>9. ASSUME NEW p \in Procs, WriteSidecar(p) PROVE AgeInv'
  BY <1>9 DEF WriteSidecar
<1>10. ASSUME NEW p \in Procs, WriteMetadata(p) PROVE AgeInv'
  BY <1>10 DEF WriteMetadata, SealedAt
<1>11. ASSUME NEW p \in Procs, ListDirectory(p) PROVE AgeInv'
  BY <1>11 DEF ListDirectory, DescribedAt, SealedAt
<1>12. ASSUME NEW p \in Procs, Examine(p) PROVE AgeInv'
  BY <1>12 DEF Examine
<1>13. ASSUME NEW p \in Procs, RemoveArtifact(p) PROVE AgeInv'
  BY <1>13 DEF RemoveArtifact
<1>14. ASSUME NEW p \in Procs, RemoveSidecar(p) PROVE AgeInv'
  BY <1>14 DEF RemoveSidecar
<1>15. ASSUME NEW p \in Procs, RemoveMetadata(p) PROVE AgeInv'
  BY <1>15 DEF RemoveMetadata
<1>16. ASSUME NEW p \in Procs, Return(p) PROVE AgeInv'
  BY <1>16 DEF Return
<1>17. ASSUME NEW p \in Procs, Throw(p) PROVE AgeInv'
  BY <1>17 DEF Throw
<1>18. ASSUME NEW p \in Procs, Crash(p) PROVE AgeInv'
  BY <1>18 DEF Crash
<1>19. CASE Tick
  <2>1. now' = now + 1 /\ UNCHANGED <<artifact, mtime, target, written, pc>>
    BY <1>19 DEF Tick
  <2>2. \A q \in Procs : target[q] # None => now' <= target[q][2] + MaxRun
    <3> SUFFICES ASSUME NEW q \in Procs, target[q] # None
                 PROVE  now + 1 <= target[q][2] + MaxRun
      BY <2>1
    <3>1. target[q][2] \in Nat /\ now < target[q][2] + MaxRun
      BY <1>19 DEF Tick, Names
    <3> QED
      BY <3>1
  <2>3. \A q \in Procs : target[q] # None => target[q][2] <= now'
    <3> SUFFICES ASSUME NEW q \in Procs, target[q] # None
                 PROVE  target[q][2] <= now + 1
      BY <2>1
    <3> QED
      BY DEF Names
  <2> QED
    BY <2>1, <2>2, <2>3
<1>20. CASE UNCHANGED vars
  BY <1>20 DEF vars
<1>21. ASSUME NEW p \in Procs, Orphan(p) PROVE AgeInv'
  BY <1>21 DEF Orphan
<1>22. ASSUME NEW p \in Procs, OrphansEnd(p) PROVE AgeInv'
  BY <1>22 DEF OrphansEnd
<1> QED
  BY <1>1, <1>2, <1>3, <1>4, <1>5, <1>6, <1>7, <1>8, <1>9, <1>10, <1>11,
     <1>12, <1>13, <1>14, <1>15, <1>16, <1>17, <1>18, <1>19, <1>20, <1>21, <1>22
     DEF Next, Step

-----------------------------------------------------------------------------
(***************************************************************************)
(* Retention.                                                              *)
(***************************************************************************)

\* What an expired artifact's name says of its age.
LEMMA ExpiredName ==
    ASSUME TypeOK, AgeInv, NEW p \in Procs, NEW n \in Names, Cleans(p), Expired(p, n)
    PROVE  now > n[2] + MaxRun
<1>1. Config[p].retention \in Nat /\ Config[p].retention >= MaxRun
  BY ConfigAssumption, RetentionAssumption DEF Configs, Cleans
<1>2. now - mtime[n] > Config[p].retention /\ n[2] <= mtime[n]
  BY DEF Expired, AgeInv
<1>3. now \in Nat /\ mtime[n] \in Nat /\ n[2] \in Nat /\ MaxRun \in Nat
  BY BoundAssumption DEF TypeOK, Names
<1> QED
  BY <1>1, <1>2, <1>3

\* Every step keeps what is being removed expired.
LEMMA NextVictim ==
    ASSUME TypeOK, TargetInv, AgeInv, VictimInv, [Next]_vars
    PROVE  VictimInv'
<1> USE ConfigAssumption, NullAssumption, BoundAssumption
        DEF VictimInv, TypeOK, Goto, Leave, Cleans, Expired, files, locals, history
<1>1. ASSUME NEW p \in Procs, TryLock(p) PROVE VictimInv'
  BY <1>1 DEF TryLock
<1>2. ASSUME NEW p \in Procs, Prepare(p) PROVE VictimInv'
  BY <1>2 DEF Prepare
<1>3. ASSUME NEW p \in Procs, StartDump(p) PROVE VictimInv'
  BY <1>3 DEF StartDump
<1>4. ASSUME NEW p \in Procs, EndDump(p) PROVE VictimInv'
  BY <1>4 DEF EndDump
<1>5. ASSUME NEW p \in Procs, EmptyDump(p) PROVE VictimInv'
  BY <1>5 DEF EmptyDump
<1>6. ASSUME NEW p \in Procs, Publish(p) PROVE VictimInv'
  <2>1. target[p] \in Names /\ now <= target[p][2] + MaxRun
    BY <1>6 DEF Publish, TargetInv, AgeInv
  <2>2. \A q \in Procs : pc'[q] = "removing" => pc[q] = "removing" /\ q # p
    BY <1>6 DEF Publish
  <2>3. \A q \in Procs : pc[q] = "removing" => victim[q] # target[p]
    BY <2>1 DEF Names
  <2>4. \A n \in Names \ {target[p]} : artifact'[n] = artifact[n] /\ mtime'[n] = mtime[n]
    BY <1>6 DEF Publish
  <2>5. \A q \in Procs \ {p} : pc'[q] = pc[q]
    BY <1>6 DEF Publish
  <2>6. pc'[p] = "published" /\ UNCHANGED <<now, victim>>
    BY <1>6 DEF Publish
  <2> QED
    BY <2>2, <2>3, <2>4, <2>5, <2>6
<1>7. ASSUME NEW p \in Procs, HashArtifact(p) PROVE VictimInv'
  BY <1>7 DEF HashArtifact
<1>8. ASSUME NEW p \in Procs, OpenSidecar(p) PROVE VictimInv'
  BY <1>8 DEF OpenSidecar
<1>9. ASSUME NEW p \in Procs, WriteSidecar(p) PROVE VictimInv'
  BY <1>9 DEF WriteSidecar
<1>10. ASSUME NEW p \in Procs, WriteMetadata(p) PROVE VictimInv'
  BY <1>10 DEF WriteMetadata, SealedAt
<1>11. ASSUME NEW p \in Procs, ListDirectory(p) PROVE VictimInv'
  BY <1>11 DEF ListDirectory, DescribedAt, SealedAt
<1>12. ASSUME NEW p \in Procs, Examine(p) PROVE VictimInv'
  <2>1. PICK n \in pending[p] :
            IF Expired(p, n)
            THEN /\ victim' = [victim EXCEPT ![p] = n]
                 /\ pc' = [pc EXCEPT ![p] = "removing"]
            ELSE UNCHANGED <<victim, pc>>
    BY <1>12 DEF Examine
  <2>2. UNCHANGED <<now, artifact, mtime>> /\ Cleans(p) /\ n \in Names
    BY <1>12 DEF Examine
  <2>3. CASE Expired(p, n)
    <3>1. now > n[2] + MaxRun
      BY <2>2, <2>3, ExpiredName
    <3>2. pc'[p] = "removing" /\ victim'[p] = n
      BY <2>1, <2>3
    <3>3. \A q \in Procs \ {p} : pc'[q] = pc[q] /\ victim'[q] = victim[q]
      BY <2>1, <2>3
    <3> QED
      BY <2>2, <2>3, <3>1, <3>2, <3>3
  <2>4. CASE ~Expired(p, n)
    BY <2>1, <2>2, <2>4
  <2> QED
    BY <2>3, <2>4
<1>13. ASSUME NEW p \in Procs, RemoveArtifact(p) PROVE VictimInv'
  BY <1>13 DEF RemoveArtifact
<1>14. ASSUME NEW p \in Procs, RemoveSidecar(p) PROVE VictimInv'
  BY <1>14 DEF RemoveSidecar
<1>15. ASSUME NEW p \in Procs, RemoveMetadata(p) PROVE VictimInv'
  BY <1>15 DEF RemoveMetadata
<1>16. ASSUME NEW p \in Procs, Return(p) PROVE VictimInv'
  BY <1>16 DEF Return
<1>17. ASSUME NEW p \in Procs, Throw(p) PROVE VictimInv'
  BY <1>17 DEF Throw
<1>18. ASSUME NEW p \in Procs, Crash(p) PROVE VictimInv'
  BY <1>18 DEF Crash
<1>19. CASE Tick
  <2>1. now' = now + 1 /\ UNCHANGED <<artifact, mtime, victim, pc>>
    BY <1>19 DEF Tick
  <2>2. ASSUME NEW q \in Procs, pc[q] = "removing"
        PROVE  /\ now' > victim[q][2] + MaxRun
               /\ artifact[victim[q]] # None =>
                      now' - mtime[victim[q]] > Config[q].retention
    <3>1. /\ now \in Nat /\ victim[q] \in Names /\ victim[q][2] \in Nat
          /\ mtime[victim[q]] \in Nat /\ Config[q].retention \in Nat
      BY <2>2 DEF Names, Configs
    <3>2. /\ now > victim[q][2] + MaxRun
          /\ artifact[victim[q]] # None =>
                 now - mtime[victim[q]] > Config[q].retention
      BY <2>2
    <3> QED
      BY <2>1, <3>1, <3>2
  <2> QED
    BY <2>1, <2>2
<1>20. CASE UNCHANGED vars
  BY <1>20 DEF vars
<1>21. ASSUME NEW p \in Procs, Orphan(p) PROVE VictimInv'
  BY <1>21 DEF Orphan
<1>22. ASSUME NEW p \in Procs, OrphansEnd(p) PROVE VictimInv'
  BY <1>22 DEF OrphansEnd
<1> QED
  BY <1>1, <1>2, <1>3, <1>4, <1>5, <1>6, <1>7, <1>8, <1>9, <1>10, <1>11,
     <1>12, <1>13, <1>14, <1>15, <1>16, <1>17, <1>18, <1>19, <1>20, <1>21, <1>22
     DEF Next, Step

-----------------------------------------------------------------------------
(***************************************************************************)
(* The theorems.                                                           *)
(***************************************************************************)

\* Initially nobody runs and there is no file.
LEMMA InitInv == Init => IInv
<1> SUFFICES ASSUME Init PROVE IInv
  OBVIOUS
<1> USE BoundAssumption, NullAssumption DEF Init
<1>1. TypeOK
  BY DEF TypeOK, Contents, Points
<1>2. LockInv /\ TargetInv /\ WholeInv
  BY DEF LockInv, TargetInv, WholeInv
<1>3. AgeInv /\ VictimInv
  BY DEF AgeInv, VictimInv
<1> QED
  BY <1>1, <1>2, <1>3 DEF IInv

\* Every step keeps the conjunction of the parts above.
LEMMA Inductive == IInv /\ [Next]_vars => IInv'
BY NextType, NextLock, NextTarget, NextWhole, NextAge, NextVictim DEF IInv

\* The inductive invariant holds of every behaviour, whatever crashes.
THEOREM Invariance == Spec => []IInv
BY InitInv, Inductive, PTL DEF Spec

\* Every variable keeps its type.
THEOREM TypeCorrect == Spec => []TypeOK
<1>1. IInv => TypeOK
  BY DEF IInv
<1> QED
  BY Invariance, <1>1, PTL

\* No two processes that name one lock file are inside runOnce together,
\* whichever of them were killed while they held it.
THEOREM MutualExclusion == Spec => []OneRunPerLock
<1>1. IInv => OneRunPerLock
  <2> SUFFICES ASSUME LockInv, NEW p \in Procs, NEW q \in Procs,
                      LockFile(p) = LockFile(q), pc[p] # "idle", pc[q] # "idle"
               PROVE  p = q
    BY DEF IInv, OneRunPerLock
  <2> QED
    BY DEF LockInv
<1> QED
  BY Invariance, <1>1, PTL

\* No file under a final name is ever partial.
THEOREM WholeAlways == Spec => []PublishedWhole
<1>1. IInv => PublishedWhole
  BY DEF IInv, WholeInv, PublishedWhole
<1> QED
  BY Invariance, <1>1, PTL

-----------------------------------------------------------------------------
\* The only step that takes an artifact away is the removal of a victim.
LEMMA OnlyRemovalLoses ==
    ASSUME IInv, [Next]_vars, NEW n \in Names, artifact[n] # None, artifact'[n] = None
    PROVE  \E p \in Procs : RemoveArtifact(p) /\ victim[p] = n
<1> USE DEF IInv, TypeOK, Goto, files, locals, history
<1>1. ASSUME NEW p \in Procs, Publish(p) PROVE artifact'[n] # None
  BY <1>1 DEF Publish
<1>2. ASSUME NEW p \in Procs, RemoveArtifact(p) PROVE victim[p] = n
  BY <1>2 DEF RemoveArtifact
<1>3. ASSUME NEW p \in Procs,
             \/ TryLock(p) \/ Prepare(p) \/ StartDump(p) \/ EndDump(p) \/ EmptyDump(p)
             \/ HashArtifact(p) \/ OpenSidecar(p) \/ WriteSidecar(p) \/ WriteMetadata(p)
             \/ ListDirectory(p) \/ Examine(p) \/ RemoveSidecar(p) \/ RemoveMetadata(p)
             \/ Return(p) \/ Throw(p) \/ Crash(p) \/ Orphan(p) \/ OrphansEnd(p)
      PROVE  UNCHANGED artifact
  BY <1>3 DEF TryLock, Prepare, StartDump, EndDump, EmptyDump, HashArtifact,
              OpenSidecar, WriteSidecar, WriteMetadata, ListDirectory, Examine,
              RemoveSidecar, RemoveMetadata, Return, Throw, Crash, Orphan, OrphansEnd
<1>4. Tick \/ UNCHANGED vars => UNCHANGED artifact
  BY DEF Tick, vars
<1> QED
  BY <1>1, <1>2, <1>3, <1>4 DEF Next, Step

\* Cleanup only ever loses an artifact that is past the retention of the
\* process that removes it at the moment it removes it.
THEOREM RetentionKept == Spec => ExpireOnlyOld
<1>1. IInv /\ [Next]_vars =>
        [\A n \in Names :
            artifact[n] # None /\ artifact'[n] = None
                => \E p \in Procs : victim[p] = n /\ Expired(p, n)]_vars
  <2> SUFFICES ASSUME IInv, [Next]_vars, NEW n \in Names,
                      artifact[n] # None, artifact'[n] = None
               PROVE  \E p \in Procs : victim[p] = n /\ Expired(p, n)
    OBVIOUS
  <2>1. PICK p \in Procs : RemoveArtifact(p) /\ victim[p] = n
    BY OnlyRemovalLoses
  <2>2. pc[p] = "removing"
    BY <2>1 DEF RemoveArtifact, Goto
  <2> QED
    BY <2>1, <2>2 DEF IInv, VictimInv
<1> QED
  BY Invariance, <1>1, PTL DEF Spec, ExpireOnlyOld

-----------------------------------------------------------------------------
(***************************************************************************)
(* The processes implement ArtifactStore.                                  *)
(***************************************************************************)

\* A process that leaves runOnce releases its lock.
LEMMA LeaveIsRelease ==
    ASSUME IInv, NEW p \in Procs, pc[p] # "idle", Leave(p), UNCHANGED <<now, artifact, mtime>>
    PROVE  Store!Release(p)
<1>1. lock[LockFile(p)] = p
  BY DEF IInv, LockInv
<1> QED
  BY <1>1 DEF Leave, Store!Release, Store!Holds, LockFile

\* Publication puts a complete backup under a name of the run's series.
LEMMA PublishIsPut ==
    ASSUME IInv, NEW p \in Procs, Publish(p)
    PROVE  Store!Put(p, target[p], tmp[target[p]], written[p])
           /\ target[p] \in Names /\ tmp[target[p]] \in Data /\ written[p] \in 0 .. MaxTime
<1>1. pc[p] = "dumped" /\ tmp[target[p]] # None
  BY DEF Publish, Goto
<1>2. target[p] \in Names /\ target[p][1] = Config[p].series
  BY <1>1 DEF IInv, TargetInv
<1>3. tmp[target[p]] \in Data
  BY <1>1, <1>2 DEF IInv, WholeInv, TypeOK, Contents
<1>4. lock[LockFile(p)] = p
  BY <1>1 DEF IInv, LockInv
<1>5. written[p] \in 0 .. MaxTime /\ written[p] <= now
  BY DEF IInv, TypeOK, AgeInv
<1> QED
  BY <1>2, <1>3, <1>4, <1>5
     DEF Publish, Store!Put, Store!Holds, LockFile, locals, history

\* Removing an artifact drops an expired backup, or nothing when another
\* process has removed it first.
LEMMA RemoveIsDrop ==
    ASSUME IInv, NEW p \in Procs, RemoveArtifact(p)
    PROVE  victim[p] \in Names /\ (Store!Drop(p, victim[p]) \/ UNCHANGED Store!vars)
<1>1. pc[p] = "removing" /\ victim[p] \in Names
  BY DEF RemoveArtifact, Goto, IInv, VictimInv
<1>2. lock[LockFile(p)] = p
  BY <1>1 DEF IInv, LockInv
<1>3. UNCHANGED <<now, lock>>
  BY DEF RemoveArtifact
<1>4. CASE artifact[victim[p]] = None
  <2>1. mtime[victim[p]] = 0
    BY <1>1, <1>4 DEF IInv, AgeInv
  <2>2. artifact' = artifact /\ mtime' = mtime
    BY <1>1, <1>4, <2>1 DEF RemoveArtifact, IInv, TypeOK
  <2> QED
    BY <1>1, <1>3, <2>2 DEF Store!vars
<1>5. CASE artifact[victim[p]] # None
  <2>1. now - mtime[victim[p]] > Config[p].retention
    BY <1>1, <1>5 DEF IInv, VictimInv, Expired
  <2> QED
    BY <1>1, <1>2, <1>3, <1>5, <2>1
       DEF RemoveArtifact, Store!Drop, Store!Holds, LockFile
<1> QED
  BY <1>4, <1>5

\* Every step of the processes is a step of the store, or none.
LEMMA StepRefines == IInv /\ [Next]_vars => [Store!Next]_(Store!vars)
<1> SUFFICES ASSUME IInv, [Next]_vars PROVE [Store!Next]_(Store!vars)
  OBVIOUS
<1>1. ASSUME NEW p \in Procs, TryLock(p) PROVE Store!Next
  <2>1. Store!Acquire(p)
    BY <1>1 DEF TryLock, Store!Acquire, LockFile, files
  <2> QED
    BY <2>1 DEF Store!Next
<1>2. ASSUME NEW p \in Procs, Publish(p) PROVE Store!Next
  BY <1>2, PublishIsPut DEF Store!Next
<1>3. ASSUME NEW p \in Procs, RemoveArtifact(p) PROVE [Store!Next]_(Store!vars)
  BY <1>3, RemoveIsDrop DEF Store!Next
<1>4. ASSUME NEW p \in Procs, EmptyDump(p) \/ Return(p) \/ Throw(p) \/ Crash(p) \/ OrphansEnd(p)
      PROVE  Store!Next
  <2>1. pc[p] # "idle" /\ Leave(p) /\ UNCHANGED <<now, artifact, mtime>>
    BY <1>4 DEF EmptyDump, Return, Throw, Crash, OrphansEnd, DescribedAt, SealedAt, files
  <2> QED
    BY <2>1, LeaveIsRelease DEF Store!Next
<1>5. ASSUME NEW p \in Procs,
             \/ Prepare(p) \/ StartDump(p) \/ EndDump(p) \/ HashArtifact(p)
             \/ OpenSidecar(p) \/ WriteSidecar(p) \/ WriteMetadata(p)
             \/ ListDirectory(p) \/ Examine(p) \/ RemoveSidecar(p) \/ RemoveMetadata(p)
             \/ Orphan(p)
      PROVE  UNCHANGED Store!vars
  BY <1>5 DEF Prepare, StartDump, EndDump, HashArtifact, OpenSidecar, WriteSidecar,
              WriteMetadata, ListDirectory, Examine, RemoveSidecar, RemoveMetadata,
              Orphan, Store!vars, files
<1>6. ASSUME Tick PROVE Store!Next
  <2>1. Store!Tick
    BY <1>6 DEF Tick, Store!Tick, files
  <2> QED
    BY <2>1 DEF Store!Next
<1>7. UNCHANGED vars => UNCHANGED Store!vars
  BY DEF vars, files, Store!vars
<1> QED
  BY <1>1, <1>2, <1>3, <1>4, <1>5, <1>6, <1>7 DEF Next, Step

\* The safety half of ImplementsStore: a backup appears in the directory
\* complete and in one step, under the lock of its job, and disappears only
\* when it has expired.
THEOREM StoreRefined == Spec => Store!Init /\ [][Store!Next]_(Store!vars)
<1>1. Init => Store!Init
  BY DEF Init, Store!Init
<1> QED
  BY Invariance, StepRefines, <1>1, PTL DEF Spec

-----------------------------------------------------------------------------
(***************************************************************************)
(* The sidecars.                                                           *)
(***************************************************************************)

\* What is removed is never what a run has made.
LEMMA VictimNoTarget ==
    ASSUME IInv, RemovalInv, NEW p \in Procs, NEW q \in Procs,
           pc[p] \in Removing, target[q] # None
    PROVE  victim[p] # target[q]
<1>1. victim[p] \in Names /\ now > victim[p][2] + MaxRun
  BY DEF RemovalInv
<1>2. now <= target[q][2] + MaxRun
  BY DEF IInv, AgeInv
<1> QED
  BY <1>1, <1>2, BoundAssumption DEF IInv, TypeOK, Names

\* A run that has published has a name of its own series to show for it.
LEMMA PlacedTarget ==
    ASSUME IInv, NEW p \in Procs, pc[p] \in Placed \union {"dumping", "writing", "dumped"}
    PROVE  target[p] \in Names /\ target[p] # None /\ target[p][1] = Config[p].series
BY NullAssumption DEF IInv, TargetInv, Placed, Removing

\* The steps before publication, and the ends of a run, move no file but a
\* temporary one and leave the process outside of what the sidecars depend on.
Early(p) ==
    TryLock(p) \/ Prepare(p) \/ StartDump(p) \/ EndDump(p) \/ Orphan(p)
Ending(p) ==
    EmptyDump(p) \/ Return(p) \/ Throw(p) \/ Crash(p) \/ OrphansEnd(p)

\* The steps before a rename touch no artifact and no sidecar.
LEMMA EarlyEffect ==
    ASSUME TypeOK, NEW p \in Procs, Early(p)
    PROVE  /\ UNCHANGED <<now, artifact, mtime, sidecar, meta, digest, pending, victim>>
           /\ pc[p] \in {"idle", "locked", "dumping", "writing"}
           /\ pc'[p] \in {"locked", "dumping", "writing", "dumped", "orphaned"}
           /\ \A q \in Procs \ {p} : pc'[q] = pc[q] /\ target'[q] = target[q]
           /\ cut' = cut
<1>1. CASE Orphan(p)
  BY <1>1 DEF Orphan, Goto, Fault, CutShort, files, locals, TypeOK
<1>2. CASE TryLock(p) \/ Prepare(p) \/ StartDump(p) \/ EndDump(p)
  BY <1>2 DEF TryLock, Prepare, StartDump, EndDump, Goto, files, locals, history, TypeOK
<1> QED
  BY <1>1, <1>2 DEF Early

\* The ends of a run touch none either, and forget its locals.
LEMMA EndingEffect ==
    ASSUME TypeOK, NEW p \in Procs, Ending(p)
    PROVE  /\ UNCHANGED <<now, artifact, mtime, sidecar, meta>>
           /\ pc'[p] = "idle" /\ target'[p] = None /\ victim'[p] = None
           /\ \A q \in Procs \ {p} :
                /\ pc'[q] = pc[q] /\ target'[q] = target[q] /\ victim'[q] = victim[q]
                /\ digest'[q] = digest[q]
           /\ \/ cut' = cut /\ pc[p] \notin {"removingSidecar", "removingMeta"}
                            /\ (Return(p) \/ pc[p] \notin {"published", "hashed", "sealing"})
              \/ cut' = cut \union CutShort(p)
<1>1. Leave(p) /\ UNCHANGED <<now, artifact, mtime, sidecar, meta>>
  BY DEF Ending, EmptyDump, Return, Throw, Crash, OrphansEnd, files
<1>2. CASE Return(p)
  BY <1>1, <1>2 DEF Return, Leave, DescribedAt, SealedAt, history, TypeOK
<1>3. CASE OrphansEnd(p)
  BY <1>1, <1>3 DEF OrphansEnd, Leave, history, TypeOK
<1>4. CASE EmptyDump(p) \/ Throw(p) \/ Crash(p)
  BY <1>1, <1>4 DEF EmptyDump, Throw, Crash, Fault, Leave, TypeOK
<1> QED
  BY <1>2, <1>3, <1>4 DEF Ending

\* Every step keeps what is being removed apart from what is being made.
LEMMA NextRemoval ==
    ASSUME IInv, RemovalInv, [Next]_vars
    PROVE  RemovalInv'
<1> USE NullAssumption, BoundAssumption DEF IInv, TypeOK, RemovalInv, Removing, Goto, files, locals, history
<1>1. ASSUME NEW p \in Procs, Early(p) PROVE RemovalInv'
  BY <1>1, EarlyEffect
<1>2. ASSUME NEW p \in Procs, Ending(p) PROVE RemovalInv'
  BY <1>2, EndingEffect
<1>3. ASSUME NEW p \in Procs, Publish(p) PROVE RemovalInv'
  <2>1. /\ pc[p] = "dumped" /\ pc' = [pc EXCEPT ![p] = "published"]
        /\ artifact' = [artifact EXCEPT ![target[p]] = tmp[target[p]]]
        /\ UNCHANGED <<now, sidecar, victim>>
    BY <1>3 DEF Publish
  <2>2. \A q \in Procs : pc[q] \in Removing => victim[q] # target[p]
    BY <2>1, VictimNoTarget, PlacedTarget
  <2> QED
    BY <2>1, <2>2
<1>4. ASSUME NEW p \in Procs, HashArtifact(p) PROVE RemovalInv'
  BY <1>4 DEF HashArtifact
<1>5. ASSUME NEW p \in Procs, OpenSidecar(p) PROVE RemovalInv'
  <2>1. /\ pc[p] = "hashed" /\ pc' = [pc EXCEPT ![p] = "sealing"]
        /\ sidecar' = [sidecar EXCEPT ![target[p]] = Torn]
        /\ UNCHANGED <<now, artifact, victim>>
    BY <1>5 DEF OpenSidecar
  <2>2. \A q \in Procs : pc[q] \in Removing => victim[q] # target[p]
    BY <2>1, VictimNoTarget, PlacedTarget DEF Placed
  <2> QED
    BY <2>1, <2>2
<1>6. ASSUME NEW p \in Procs, WriteSidecar(p) PROVE RemovalInv'
  <2>1. /\ pc[p] = "sealing" /\ pc' = [pc EXCEPT ![p] = "sealed"]
        /\ sidecar' = [sidecar EXCEPT ![target[p]] = digest[p]] \/ sidecar' = sidecar
        /\ UNCHANGED <<now, artifact, victim>>
    BY <1>6 DEF WriteSidecar
  <2>2. \A q \in Procs : pc[q] \in Removing => victim[q] # target[p]
    BY <2>1, VictimNoTarget, PlacedTarget DEF Placed
  <2> QED
    BY <2>1, <2>2
<1>7. ASSUME NEW p \in Procs, WriteMetadata(p) PROVE RemovalInv'
  BY <1>7 DEF WriteMetadata
<1>8. ASSUME NEW p \in Procs, ListDirectory(p) PROVE RemovalInv'
  BY <1>8 DEF ListDirectory
<1>9. ASSUME NEW p \in Procs, Examine(p) PROVE RemovalInv'
  <2>1. /\ UNCHANGED <<now, artifact, sidecar>>
        /\ \A q \in Procs \ {p} : pc'[q] = pc[q] /\ victim'[q] = victim[q]
        /\ pc'[p] \in {"removing", "cleaning"}
    BY <1>9 DEF Examine
  <2>2. pc'[p] = "removing" => victim'[p] \in Names /\ now > victim'[p][2] + MaxRun
    <3>1. PICK n \in pending[p] :
              IF Expired(p, n)
              THEN /\ victim' = [victim EXCEPT ![p] = n]
                   /\ pc' = [pc EXCEPT ![p] = "removing"]
              ELSE UNCHANGED <<victim, pc>>
      BY <1>9 DEF Examine
    <3>2. Cleans(p) /\ n \in Names /\ pc[p] = "cleaning"
      BY <1>9 DEF Examine, VictimInv
    <3>3. CASE Expired(p, n)
      BY <3>1, <3>2, <3>3, ExpiredName
    <3>4. CASE ~Expired(p, n)
      BY <3>1, <3>2, <3>4
    <3> QED
      BY <3>3, <3>4
  <2> QED
    BY <2>1, <2>2
<1>10. ASSUME NEW p \in Procs, RemoveArtifact(p) PROVE RemovalInv'
  BY <1>10 DEF RemoveArtifact
<1>11. ASSUME NEW p \in Procs, RemoveSidecar(p) PROVE RemovalInv'
  <2>1. /\ pc[p] = "removingSidecar" /\ pc' = [pc EXCEPT ![p] = "removingMeta"]
        /\ UNCHANGED <<now, artifact, victim>>
    BY <1>11 DEF RemoveSidecar
  <2> QED
    BY <2>1
<1>12. ASSUME NEW p \in Procs, RemoveMetadata(p) PROVE RemovalInv'
  BY <1>12 DEF RemoveMetadata
<1>13. CASE Tick
  <2>1. now' = now + 1 /\ UNCHANGED <<artifact, sidecar, victim, pc>>
    BY <1>13 DEF Tick
  <2>2. ASSUME NEW q \in Procs, pc[q] \in Removing
        PROVE  now' > victim[q][2] + MaxRun
    BY <2>1, <2>2 DEF Names
  <2> QED
    BY <2>1, <2>2
<1>14. CASE UNCHANGED vars
  BY <1>14 DEF vars
<1> QED
  BY <1>1, <1>2, <1>3, <1>4, <1>5, <1>6, <1>7, <1>8, <1>9, <1>10, <1>11, <1>12, <1>13, <1>14
     DEF Next, Step, Early, Ending

\* The steps in between change neither artifacts nor targets.
LEMMA NextPresent ==
    ASSUME IInv, RemovalInv, PresentInv, [Next]_vars
    PROVE  PresentInv'
<1> USE NullAssumption DEF IInv, TypeOK, PresentInv, Goto, files, locals, history
<1>1. ASSUME NEW p \in Procs, Early(p) PROVE PresentInv'
  BY <1>1, EarlyEffect DEF Placed, Removing
<1>2. ASSUME NEW p \in Procs, Ending(p) PROVE PresentInv'
  BY <1>2, EndingEffect DEF Placed, Removing
<1>3. ASSUME NEW p \in Procs, Publish(p) PROVE PresentInv'
  <2>1. /\ pc[p] = "dumped" /\ pc' = [pc EXCEPT ![p] = "published"]
        /\ artifact' = [artifact EXCEPT ![target[p]] = tmp[target[p]]]
        /\ tmp[target[p]] # None /\ UNCHANGED target
    BY <1>3 DEF Publish
  <2>2. \A n \in Names : artifact[n] # None \/ n = target[p] => artifact'[n] # None
    BY <2>1
  <2>3. \A q \in Procs \ {p} : pc'[q] = pc[q]
    BY <2>1
  <2> QED
    BY <2>1, <2>2, <2>3, PlacedTarget
<1>4. ASSUME NEW p \in Procs,
             \/ HashArtifact(p) \/ OpenSidecar(p) \/ WriteSidecar(p) \/ WriteMetadata(p)
             \/ ListDirectory(p) \/ Examine(p) \/ RemoveSidecar(p) \/ RemoveMetadata(p)
      PROVE  PresentInv'
  <2>1. UNCHANGED <<artifact, target>> /\ pc[p] \in Placed
        /\ \A q \in Procs \ {p} : pc'[q] = pc[q]
    BY <1>4 DEF HashArtifact, OpenSidecar, WriteSidecar, WriteMetadata, ListDirectory,
                Examine, RemoveSidecar, RemoveMetadata, SealedAt, DescribedAt, Placed, Removing
  <2> QED
    BY <2>1
<1>5. ASSUME NEW p \in Procs, RemoveArtifact(p) PROVE PresentInv'
  <2>1. /\ pc[p] = "removing" /\ pc' = [pc EXCEPT ![p] = "removingSidecar"]
        /\ artifact' = [artifact EXCEPT ![victim[p]] = None]
        /\ UNCHANGED target
    BY <1>5 DEF RemoveArtifact
  <2>2. ASSUME NEW q \in Procs, pc'[q] \in Placed
        PROVE  artifact'[target'[q]] # None
    <3>1. pc[q] \in Placed
      BY <2>1, <2>2 DEF Placed, Removing
    <3>2. target[q] # victim[p]
      BY <2>1, <3>1, VictimNoTarget, PlacedTarget DEF Removing
    <3> QED
      BY <2>1, <3>1, <3>2, PlacedTarget
  <2> QED
    BY <2>2
<1>6. CASE Tick \/ UNCHANGED vars
  BY <1>6 DEF Tick, vars
<1> QED
  BY <1>1, <1>2, <1>3, <1>4, <1>5, <1>6 DEF Next, Step, Early, Ending

\* Only a run itself touches the artifact and the sidecar it is sealing:
\* a run with its target would hold the lock it holds, and what is removed
\* is older.
LEMMA OwnFiles ==
    ASSUME IInv, RemovalInv, [Next]_vars, NEW p \in Procs, pc[p] \in Placed,
           ~OpenSidecar(p), ~WriteSidecar(p)
    PROVE  /\ artifact'[target[p]] = artifact[target[p]]
           /\ sidecar'[target[p]] = sidecar[target[p]]
<1> USE DEF IInv, TypeOK, Goto, files, locals, history
<1>1. target[p] \in Names /\ target[p] # None
  BY PlacedTarget
<1>2. ASSUME NEW q \in Procs, Early(q) PROVE UNCHANGED <<artifact, sidecar>>
  BY <1>2, EarlyEffect
<1>3. ASSUME NEW q \in Procs, Ending(q) PROVE UNCHANGED <<artifact, sidecar>>
  BY <1>3, EndingEffect
<1>4. ASSUME NEW q \in Procs, q # p, pc[q] \in Placed \union {"dumped"}
      PROVE  target[q] # target[p]
  BY <1>1, <1>4, TargetOwner
<1>5. ASSUME NEW q \in Procs, Publish(q)
      PROVE  artifact'[target[p]] = artifact[target[p]] /\ sidecar' = sidecar
  <2>1. q # p /\ pc[q] = "dumped"
    BY <1>5 DEF Publish, Placed, Removing
  <2>2. target[q] # target[p]
    BY <1>4, <2>1
  <2> QED
    BY <1>1, <1>5, <2>2 DEF Publish
<1>6. ASSUME NEW q \in Procs, OpenSidecar(q) \/ WriteSidecar(q)
      PROVE  sidecar'[target[p]] = sidecar[target[p]] /\ artifact' = artifact
  <2>1. q # p /\ pc[q] \in {"hashed", "sealing"}
    BY <1>6 DEF OpenSidecar, WriteSidecar
  <2>2. target[q] # target[p]
    BY <1>4, <2>1 DEF Placed
  <2> QED
    BY <1>1, <1>6, <2>2 DEF OpenSidecar, WriteSidecar
<1>7. ASSUME NEW q \in Procs, RemoveArtifact(q) \/ RemoveSidecar(q)
      PROVE  /\ artifact'[target[p]] = artifact[target[p]]
             /\ sidecar'[target[p]] = sidecar[target[p]]
  <2>1. victim[q] # target[p]
    BY <1>1, <1>7, VictimNoTarget DEF RemoveArtifact, RemoveSidecar, Removing
  <2> QED
    BY <1>1, <1>7, <2>1 DEF RemoveArtifact, RemoveSidecar
<1>8. ASSUME NEW q \in Procs,
             \/ HashArtifact(q) \/ WriteMetadata(q) \/ ListDirectory(q) \/ Examine(q)
             \/ RemoveMetadata(q)
      PROVE  UNCHANGED <<artifact, sidecar>>
  BY <1>8 DEF HashArtifact, WriteMetadata, ListDirectory, Examine, RemoveMetadata
<1>9. Tick \/ UNCHANGED vars => UNCHANGED <<artifact, sidecar>>
  BY DEF Tick, vars
<1> QED
  BY <1>2, <1>3, <1>5, <1>6, <1>7, <1>8, <1>9 DEF Next, Step, Early, Ending

\* How a process gets to where the sidecars depend on it.
LEMMA Arrivals ==
    ASSUME IInv, [Next]_vars, NEW p \in Procs
    PROVE  /\ pc'[p] \in Placed => target'[p] = target[p]
           /\ pc'[p] = "hashed" => HashArtifact(p) \/ (pc[p] = "hashed" /\ digest'[p] = digest[p])
           /\ pc'[p] = "sealing" => OpenSidecar(p) \/ (pc[p] = "sealing" /\ digest'[p] = digest[p])
           /\ pc'[p] = "sealed" => WriteSidecar(p) \/ (pc[p] = "sealed" /\ digest'[p] = digest[p])
           /\ pc'[p] \in {"described", "cleaning"} \union Removing /\ Config[p].checksum
                => pc[p] \in {"sealed", "described", "cleaning"} \union Removing
<1> USE DEF IInv, TypeOK, Goto, files, locals, history, Placed, Removing
<1>1. ASSUME NEW q \in Procs, Early(q) \/ Ending(q), q # p
      PROVE  pc'[p] = pc[p] /\ target'[p] = target[p] /\ digest'[p] = digest[p]
  BY <1>1, EarlyEffect, EndingEffect
<1>2. CASE Early(p)
  BY <1>2, EarlyEffect
<1>3. CASE Ending(p)
  BY <1>3, EndingEffect
<1>4. ASSUME NEW q \in Procs,
             \/ Publish(q) \/ HashArtifact(q) \/ OpenSidecar(q) \/ WriteSidecar(q)
             \/ WriteMetadata(q) \/ ListDirectory(q) \/ Examine(q) \/ RemoveArtifact(q)
             \/ RemoveSidecar(q) \/ RemoveMetadata(q),
             q # p
      PROVE  pc'[p] = pc[p] /\ target'[p] = target[p] /\ digest'[p] = digest[p]
  BY <1>4 DEF Publish, HashArtifact, OpenSidecar, WriteSidecar, WriteMetadata, ListDirectory,
              Examine, RemoveArtifact, RemoveSidecar, RemoveMetadata
<1>5. CASE Publish(p) \/ HashArtifact(p) \/ OpenSidecar(p) \/ WriteSidecar(p)
  <2>1. CASE Publish(p)
    BY <2>1 DEF Publish
  <2>2. CASE HashArtifact(p)
    <3>1. pc'[p] = "hashed" /\ target' = target
      BY <2>2 DEF HashArtifact
    <3> QED
      BY <2>2, <3>1
  <2>3. CASE OpenSidecar(p)
    BY <2>3 DEF OpenSidecar
  <2>4. CASE WriteSidecar(p)
    BY <2>4 DEF WriteSidecar
  <2> QED
    BY <1>5, <2>1, <2>2, <2>3, <2>4
<1>6. CASE WriteMetadata(p) \/ ListDirectory(p)
  BY <1>6 DEF WriteMetadata, ListDirectory, SealedAt, DescribedAt
<1>7. CASE Examine(p) \/ RemoveArtifact(p) \/ RemoveSidecar(p) \/ RemoveMetadata(p)
  BY <1>7 DEF Examine, RemoveArtifact, RemoveSidecar, RemoveMetadata
<1>8. CASE Tick \/ UNCHANGED vars
  BY <1>8 DEF Tick, vars
<1> QED
  BY <1>1, <1>2, <1>3, <1>4, <1>5, <1>6, <1>7, <1>8 DEF Next, Step, Early, Ending

\* Every step keeps the checksum in hand true and the open sidecar empty.
LEMMA NextDigest ==
    ASSUME IInv, RemovalInv, DigestInv, [Next]_vars
    PROVE  DigestInv'
<1>1. SUFFICES ASSUME NEW p \in Procs, pc'[p] \in {"hashed", "sealing"}
               PROVE  /\ digest'[p] = artifact'[target'[p]]
                      /\ pc'[p] = "sealing" => sidecar'[target'[p]] = Torn
  BY DEF DigestInv
<1>2. target'[p] = target[p]
  BY <1>1, Arrivals DEF Placed
<1>3. CASE HashArtifact(p)
  BY <1>1, <1>2, <1>3 DEF HashArtifact, Goto, files, IInv, TypeOK
<1>4. CASE OpenSidecar(p)
  <2>1. target[p] \in Names
    BY <1>4, PlacedTarget DEF OpenSidecar, Goto, Placed
  <2> QED
    BY <1>2, <1>4, <2>1 DEF OpenSidecar, Goto, locals, DigestInv, IInv, TypeOK
<1>5. CASE pc'[p] = pc[p] /\ digest'[p] = digest[p]
  <2>1. /\ artifact'[target[p]] = artifact[target[p]]
        /\ sidecar'[target[p]] = sidecar[target[p]]
    BY <1>1, <1>5, OwnFiles DEF Placed, OpenSidecar, WriteSidecar, Goto, IInv, TypeOK
  <2> QED
    BY <1>1, <1>2, <1>5, <2>1 DEF DigestInv
<1> QED
  BY <1>1, <1>3, <1>4, <1>5, Arrivals

\* Every step keeps what is sealed sealed as long as its run is there.
LEMMA NextSealed ==
    ASSUME IInv, RemovalInv, DigestInv, SealedInv, [Next]_vars
    PROVE  SealedInv'
<1>1. SUFFICES ASSUME NEW p \in Procs, ~ShortWrites, Config[p].checksum,
                      pc'[p] \in {"sealed", "described", "cleaning"} \union Removing
               PROVE  sidecar'[target'[p]] = artifact'[target'[p]]
  BY DEF SealedInv
<1>2. target'[p] = target[p]
  BY <1>1, Arrivals DEF Placed
<1>3. CASE WriteSidecar(p)
  <2>1. target[p] \in Names /\ pc[p] = "sealing"
    BY <1>3, PlacedTarget DEF WriteSidecar, Goto, Placed
  <2> QED
    BY <1>1, <1>2, <1>3, <2>1 DEF WriteSidecar, DigestInv, IInv, TypeOK
<1>4. CASE ~WriteSidecar(p)
  <2>1. pc[p] \in {"sealed", "described", "cleaning"} \union Removing
    BY <1>1, <1>4, Arrivals
  <2>2. target[p] \in Names /\ sidecar[target[p]] = artifact[target[p]]
    BY <1>1, <2>1, PlacedTarget DEF SealedInv, Placed
  <2>3. /\ artifact'[target[p]] = artifact[target[p]]
        /\ sidecar'[target[p]] = sidecar[target[p]]
    <3>1. pc[p] \in Placed /\ ~OpenSidecar(p)
      BY <2>1 DEF Placed, Removing, OpenSidecar, Goto
    <3> QED
      BY <1>4, <3>1, OwnFiles
  <2> QED
    BY <1>2, <2>2, <2>3
<1> QED
  BY <1>3, <1>4

\* Every step keeps the orphans excused.
LEMMA NextOrphan ==
    ASSUME IInv, RemovalInv, PresentInv, OrphanInv, [Next]_vars
    PROVE  OrphanInv'
<1> USE NullAssumption DEF IInv, TypeOK, Goto, files, locals, history
<1>1. SUFFICES ASSUME NEW n \in Names, artifact'[n] = None
               PROVE  /\ sidecar'[n] # None => SideExcused(n)'
                      /\ meta'[n] # None => MetaExcused(n)'
  BY DEF OrphanInv
<1>2. artifact[n] = None => /\ sidecar[n] # None => SideExcused(n)
                            /\ meta[n] # None => MetaExcused(n)
  BY DEF OrphanInv
<1> USE DEF SideExcused, MetaExcused
<1>3. ASSUME NEW p \in Procs, Early(p)
      PROVE  (sidecar'[n] # None => SideExcused(n)') /\ (meta'[n] # None => MetaExcused(n)')
  BY <1>1, <1>2, <1>3, EarlyEffect
<1>4. ASSUME NEW p \in Procs, Ending(p)
      PROVE  (sidecar'[n] # None => SideExcused(n)') /\ (meta'[n] # None => MetaExcused(n)')
  <2>1. /\ UNCHANGED <<artifact, sidecar, meta>> /\ cut \subseteq cut'
        /\ \A q \in Procs \ {p} : pc'[q] = pc[q] /\ victim'[q] = victim[q]
        /\ pc[p] \in {"removingSidecar", "removingMeta"} => victim[p] \in cut'
    BY <1>4, EndingEffect DEF CutShort
  <2> QED
    BY <1>1, <1>2, <2>1
<1>5. ASSUME NEW p \in Procs, Publish(p)
      PROVE  (sidecar'[n] # None => SideExcused(n)') /\ (meta'[n] # None => MetaExcused(n)')
  <2>1. /\ artifact' = [artifact EXCEPT ![target[p]] = tmp[target[p]]]
        /\ tmp[target[p]] # None
        /\ UNCHANGED <<sidecar, meta, victim, cut>>
        /\ pc[p] = "dumped" /\ pc' = [pc EXCEPT ![p] = "published"]
    BY <1>5 DEF Publish
  <2>2. artifact[n] = None
    BY <1>1, <2>1
  <2> QED
    BY <1>2, <2>1, <2>2
<1>6. ASSUME NEW p \in Procs, OpenSidecar(p) \/ WriteSidecar(p) \/ WriteMetadata(p)
      PROVE  (sidecar'[n] # None => SideExcused(n)') /\ (meta'[n] # None => MetaExcused(n)')
  <2>1. /\ pc[p] \in {"published", "hashed", "sealing", "sealed"} /\ UNCHANGED <<artifact, victim>>
        /\ \A q \in Procs \ {p} : pc'[q] = pc[q]
    BY <1>6 DEF OpenSidecar, WriteSidecar, WriteMetadata, SealedAt
  <2>2. target[p] # n
    BY <1>1, <2>1 DEF PresentInv, Placed
  <2>3. sidecar'[n] = sidecar[n] /\ meta'[n] = meta[n]
    BY <1>6, <2>2 DEF OpenSidecar, WriteSidecar, WriteMetadata
  <2>4. n \in cut => n \in cut'
    BY <1>6, <2>2 DEF OpenSidecar, WriteSidecar, WriteMetadata
  <2> QED
    BY <1>1, <1>2, <2>1, <2>3, <2>4
<1>7. ASSUME NEW p \in Procs, HashArtifact(p) \/ ListDirectory(p) \/ Examine(p)
      PROVE  (sidecar'[n] # None => SideExcused(n)') /\ (meta'[n] # None => MetaExcused(n)')
  <2>1. /\ UNCHANGED <<artifact, sidecar, meta, cut>>
        /\ pc[p] \notin {"removingSidecar", "removingMeta"}
        /\ \A q \in Procs \ {p} : pc'[q] = pc[q] /\ victim'[q] = victim[q]
    BY <1>7 DEF HashArtifact, ListDirectory, Examine, SealedAt, DescribedAt
  <2> QED
    BY <1>1, <1>2, <2>1
<1>8. ASSUME NEW p \in Procs, RemoveArtifact(p)
      PROVE  (sidecar'[n] # None => SideExcused(n)') /\ (meta'[n] # None => MetaExcused(n)')
  <2>1. /\ pc[p] = "removing" /\ pc' = [pc EXCEPT ![p] = "removingSidecar"]
        /\ artifact' = [artifact EXCEPT ![victim[p]] = None]
        /\ UNCHANGED <<sidecar, meta, victim, cut>>
    BY <1>8 DEF RemoveArtifact
  <2>2. CASE n = victim[p]
    BY <2>1, <2>2
  <2>3. CASE n # victim[p]
    BY <1>1, <1>2, <2>1, <2>3
  <2> QED
    BY <2>2, <2>3
<1>9. ASSUME NEW p \in Procs, RemoveSidecar(p)
      PROVE  (sidecar'[n] # None => SideExcused(n)') /\ (meta'[n] # None => MetaExcused(n)')
  <2>1. /\ pc[p] = "removingSidecar" /\ pc' = [pc EXCEPT ![p] = "removingMeta"]
        /\ UNCHANGED <<artifact, meta, victim>> /\ cut \subseteq cut'
        /\ \/ sidecar' = [sidecar EXCEPT ![victim[p]] = None]
           \/ sidecar' = sidecar /\ victim[p] \in cut'
    BY <1>9 DEF RemoveSidecar, Fault, CutShort
  <2> QED
    BY <1>1, <1>2, <2>1
<1>10. ASSUME NEW p \in Procs, RemoveMetadata(p)
       PROVE  (sidecar'[n] # None => SideExcused(n)') /\ (meta'[n] # None => MetaExcused(n)')
  <2>1. /\ pc[p] = "removingMeta" /\ pc' = [pc EXCEPT ![p] = "cleaning"]
        /\ victim' = [victim EXCEPT ![p] = None]
        /\ UNCHANGED <<artifact, sidecar>> /\ cut \subseteq cut'
        /\ \/ meta' = [meta EXCEPT ![victim[p]] = None]
           \/ meta' = meta /\ victim[p] \in cut'
    BY <1>10 DEF RemoveMetadata, Fault, CutShort
  <2> QED
    BY <1>1, <1>2, <2>1
<1>11. CASE Tick \/ UNCHANGED vars
  BY <1>1, <1>2, <1>11 DEF Tick, vars
<1> QED
  BY <1>3, <1>4, <1>5, <1>6, <1>7, <1>8, <1>9, <1>10, <1>11 DEF Next, Step, Early, Ending

\* Every step keeps the mismatches excused.
LEMMA NextMismatch ==
    ASSUME IInv, RemovalInv, DigestInv, MismatchOnlyUnsealed, [Next]_vars
    PROVE  MismatchOnlyUnsealed'
<1> USE NullAssumption DEF IInv, TypeOK, Goto, files, locals, history
<1>1. SUFFICES ASSUME NEW n \in Names, artifact'[n] \in Data, sidecar'[n] \in Data,
                      sidecar'[n] # artifact'[n],
                      \A p \in Procs : Config[p].series = n[1] => Config[p].checksum
               PROVE  MismatchExcused(n)'
  BY DEF MismatchOnlyUnsealed, MismatchExcused
<1>2. artifact[n] = artifact'[n] /\ sidecar[n] = sidecar'[n] => MismatchExcused(n)
  BY <1>1 DEF MismatchOnlyUnsealed, MismatchExcused
<1>3. \A p \in Procs : target[p] = n /\ pc[p] \in {"published", "hashed"} => Config[p].checksum
  BY <1>1, PlacedTarget DEF Placed
<1> USE DEF MismatchExcused
<1>4. ASSUME NEW p \in Procs, Early(p) PROVE MismatchExcused(n)'
  BY <1>2, <1>4, EarlyEffect
<1>5. ASSUME NEW p \in Procs, Ending(p) PROVE MismatchExcused(n)'
  <2>1. /\ UNCHANGED <<artifact, sidecar>> /\ cut \subseteq cut'
        /\ \A q \in Procs \ {p} : pc'[q] = pc[q] /\ target'[q] = target[q]
        /\ \/ Return(p)
           \/ pc[p] \notin {"published", "hashed"}
           \/ cut' = cut \union CutShort(p)
    BY <1>5, EndingEffect
  <2>2. ASSUME target[p] = n, pc[p] \in {"published", "hashed"} PROVE n \in cut'
    <3>1. ~Return(p)
      BY <1>3, <2>2 DEF Return, DescribedAt, SealedAt
    <3> QED
      BY <2>1, <2>2, <3>1 DEF CutShort
  <2> QED
    BY <1>2, <2>1, <2>2
<1>6. ASSUME NEW p \in Procs, Publish(p) PROVE MismatchExcused(n)'
  <2>1. /\ artifact' = [artifact EXCEPT ![target[p]] = tmp[target[p]]]
        /\ UNCHANGED <<sidecar, target, cut>>
        /\ pc[p] = "dumped" /\ pc' = [pc EXCEPT ![p] = "published"]
    BY <1>6 DEF Publish
  <2>2. CASE n = target[p]
    BY <2>1, <2>2
  <2>3. CASE n # target[p]
    BY <1>2, <2>1, <2>3
  <2> QED
    BY <2>2, <2>3
<1>7. ASSUME NEW p \in Procs, HashArtifact(p) PROVE MismatchExcused(n)'
  <2>1. /\ UNCHANGED <<artifact, sidecar, target, cut>>
        /\ pc' = [pc EXCEPT ![p] = "hashed"]
    BY <1>7 DEF HashArtifact
  <2> QED
    BY <1>2, <2>1
<1>8. ASSUME NEW p \in Procs, OpenSidecar(p) PROVE MismatchExcused(n)'
  <2>1. /\ sidecar' = [sidecar EXCEPT ![target[p]] = Torn]
        /\ UNCHANGED <<artifact, target, cut>>
        /\ pc[p] = "hashed" /\ pc' = [pc EXCEPT ![p] = "sealing"]
    BY <1>8 DEF OpenSidecar
  <2>2. n # target[p]
    BY <1>1, <2>1
  <2> QED
    BY <1>2, <2>1, <2>2
<1>9. ASSUME NEW p \in Procs, WriteSidecar(p) PROVE MismatchExcused(n)'
  <2>1. /\ sidecar' = [sidecar EXCEPT ![target[p]] = digest[p]] \/ sidecar' = sidecar
        /\ UNCHANGED <<artifact, target>> /\ cut' = cut \ {target[p]}
        /\ pc[p] = "sealing" /\ pc' = [pc EXCEPT ![p] = "sealed"]
    BY <1>9 DEF WriteSidecar
  <2>2. digest[p] = artifact[target[p]] /\ sidecar[target[p]] = Torn
    BY <2>1 DEF DigestInv
  <2>3. n # target[p]
    BY <1>1, <2>1, <2>2
  <2> QED
    BY <1>2, <2>1, <2>3
<1>10. ASSUME NEW p \in Procs, WriteMetadata(p) \/ ListDirectory(p) PROVE MismatchExcused(n)'
  <2>1. /\ UNCHANGED <<artifact, sidecar, target, cut>>
        /\ \A q \in Procs \ {p} : pc'[q] = pc[q]
    BY <1>10 DEF WriteMetadata, ListDirectory
  <2>2. ~(target[p] = n /\ pc[p] \in {"published", "hashed"})
    BY <1>3, <1>10 DEF WriteMetadata, ListDirectory, SealedAt, DescribedAt
  <2> QED
    BY <1>2, <2>1, <2>2
<1>11. ASSUME NEW p \in Procs, Examine(p) \/ RemoveMetadata(p) PROVE MismatchExcused(n)'
  <2>1. /\ UNCHANGED <<artifact, sidecar, target>> /\ cut \subseteq cut'
        /\ pc[p] \in {"cleaning", "removingMeta"}
        /\ \A q \in Procs \ {p} : pc'[q] = pc[q]
    BY <1>11 DEF Examine, RemoveMetadata, Fault
  <2> QED
    BY <1>2, <2>1
<1>12. ASSUME NEW p \in Procs, RemoveArtifact(p) \/ RemoveSidecar(p) PROVE MismatchExcused(n)'
  <2>1. /\ target' = target /\ cut \subseteq cut' /\ pc[p] \in {"removing", "removingSidecar"}
        /\ \A q \in Procs \ {p} : pc'[q] = pc[q]
    BY <1>12 DEF RemoveArtifact, RemoveSidecar, Fault
  <2>2. artifact'[n] \in {artifact[n], None} /\ sidecar'[n] \in {sidecar[n], None}
    BY <1>12 DEF RemoveArtifact, RemoveSidecar
  <2>3. artifact'[n] = artifact[n] /\ sidecar'[n] = sidecar[n]
    BY <1>1, <2>2
  <2> QED
    BY <1>2, <2>1, <2>3
<1>13. CASE Tick \/ UNCHANGED vars
  BY <1>2, <1>13 DEF Tick, vars
<1> QED
  BY <1>4, <1>5, <1>6, <1>7, <1>8, <1>9, <1>10, <1>11, <1>12, <1>13
     DEF Next, Step, Early, Ending

\* Who changes a sidecar, and to what.
LEMMA SidecarMoves ==
    ASSUME IInv, DigestInv, [Next]_vars, NEW n \in Names
    PROVE  \/ sidecar'[n] \in {sidecar[n], None}
           \/ \E p \in Procs : OpenSidecar(p) /\ target[p] = n /\ sidecar'[n] = Torn
           \/ \E p \in Procs : WriteSidecar(p) /\ target[p] = n /\ sidecar'[n] = artifact[n]
<1> USE DEF IInv, TypeOK, Goto, files, locals, history
<1>1. ASSUME NEW p \in Procs, Early(p) \/ Ending(p) PROVE sidecar' = sidecar
  BY <1>1, EarlyEffect, EndingEffect
<1>2. ASSUME NEW p \in Procs,
             \/ Publish(p) \/ HashArtifact(p) \/ WriteMetadata(p) \/ ListDirectory(p)
             \/ Examine(p) \/ RemoveArtifact(p) \/ RemoveMetadata(p)
      PROVE  sidecar' = sidecar
  BY <1>2 DEF Publish, HashArtifact, WriteMetadata, ListDirectory, Examine, RemoveArtifact,
              RemoveMetadata
<1>3. ASSUME NEW p \in Procs, RemoveSidecar(p) PROVE sidecar'[n] \in {sidecar[n], None}
  BY <1>3 DEF RemoveSidecar
<1>4. ASSUME NEW p \in Procs, OpenSidecar(p)
      PROVE  sidecar'[n] = sidecar[n] \/ (target[p] = n /\ sidecar'[n] = Torn)
  BY <1>4 DEF OpenSidecar
<1>5. ASSUME NEW p \in Procs, WriteSidecar(p)
      PROVE  sidecar'[n] = sidecar[n] \/ (target[p] = n /\ sidecar'[n] = artifact[n])
  <2>1. digest[p] = artifact[target[p]]
    BY <1>5 DEF WriteSidecar, DigestInv
  <2> QED
    BY <1>5, <2>1 DEF WriteSidecar
<1>6. CASE Tick \/ UNCHANGED vars
  BY <1>6 DEF Tick, vars
<1> QED
  BY <1>1, <1>2, <1>3, <1>4, <1>5, <1>6 DEF Next, Step, Early, Ending

\* Every step leaves it to the runs with checksums to write one.
LEMMA NextMeant ==
    ASSUME IInv, PresentInv, DigestInv, MeantInv, [Next]_vars
    PROVE  MeantInv'
<1>1. ASSUME NEW p \in Procs, pc'[p] \in {"hashed", "sealing"} PROVE Config[p].checksum
  BY <1>1, Arrivals DEF HashArtifact, OpenSidecar, Goto, MeantInv
<1>2. ASSUME NEW p \in Procs, pc'[p] = "sealed" PROVE digest'[p] # None
  <2>1. CASE WriteSidecar(p)
    BY <2>1 DEF WriteSidecar, Goto, locals, DigestInv, PresentInv, Placed
  <2>2. CASE ~WriteSidecar(p)
    BY <1>2, <2>2, Arrivals DEF MeantInv
  <2> QED
    BY <2>1, <2>2
<1>3. ASSUME NEW n \in Names, sidecar'[n] # None
      PROVE  \E p \in Procs : Config[p].series = n[1] /\ Config[p].checksum
  <2>1. CASE sidecar'[n] = sidecar[n]
    BY <1>3, <2>1 DEF MeantInv
  <2>2. ASSUME NEW p \in Procs, OpenSidecar(p) \/ WriteSidecar(p), target[p] = n
        PROVE  Config[p].series = n[1] /\ Config[p].checksum
    <3>1. pc[p] \in {"hashed", "sealing"}
      BY <2>2 DEF OpenSidecar, WriteSidecar, Goto
    <3> QED
      BY <2>2, <3>1, PlacedTarget DEF MeantInv, Placed
  <2> QED
    BY <1>3, <2>1, <2>2, SidecarMoves
<1> QED
  BY <1>1, <1>2, <1>3 DEF MeantInv

\* Every step keeps the empty sidecars excused.
LEMMA NextTorn ==
    ASSUME IInv, DigestInv, TornInv, [Next]_vars
    PROVE  TornInv'
<1> USE DEF IInv, TypeOK, Goto, files, locals, history
<1>1. SUFFICES ASSUME NEW n \in Names, sidecar'[n] = Torn, ~ShortWrites
               PROVE  n \in cut' \/ \E p \in Procs : target'[p] = n /\ pc'[p] = "sealing"
  BY DEF TornInv, TornExcused
<1>2. CASE \E p \in Procs : OpenSidecar(p) /\ target[p] = n
  BY <1>2 DEF OpenSidecar
<1>3. ASSUME NEW p \in Procs, WriteSidecar(p), target[p] = n PROVE FALSE
  <2>1. sidecar' = [sidecar EXCEPT ![n] = artifact[n]]
    BY <1>1, <1>3 DEF WriteSidecar, DigestInv
  <2> QED
    BY <1>1, <2>1 DEF WholeInv
<1>4. CASE /\ ~\E p \in Procs : OpenSidecar(p) /\ target[p] = n
           /\ ~\E p \in Procs : WriteSidecar(p) /\ target[p] = n
  <2>1. sidecar[n] = Torn
    BY <1>1, <1>4, SidecarMoves, NullAssumption
  <2>2. n \in cut => n \in cut'
    <3>1. ASSUME NEW p \in Procs, WriteSidecar(p) PROVE n \in cut => n \in cut'
      BY <1>4, <3>1 DEF WriteSidecar
    <3>2. ASSUME NEW p \in Procs, Early(p) \/ Ending(p) PROVE n \in cut => n \in cut'
      BY <3>2, EarlyEffect, EndingEffect
    <3>3. ASSUME NEW p \in Procs,
                 \/ Publish(p) \/ HashArtifact(p) \/ OpenSidecar(p) \/ WriteMetadata(p)
                 \/ ListDirectory(p) \/ Examine(p) \/ RemoveArtifact(p) \/ RemoveSidecar(p)
                 \/ RemoveMetadata(p)
          PROVE  cut \subseteq cut'
      BY <3>3 DEF Publish, HashArtifact, OpenSidecar, WriteMetadata, ListDirectory, Examine,
                  RemoveArtifact, RemoveSidecar, RemoveMetadata, Fault
    <3>4. Tick \/ UNCHANGED vars => cut' = cut
      BY DEF Tick, vars
    <3> QED
      BY <3>1, <3>2, <3>3, <3>4 DEF Next, Step, Early, Ending
  <2>3. ASSUME NEW p \in Procs, target[p] = n, pc[p] = "sealing"
        PROVE  n \in cut' \/ (target'[p] = n /\ pc'[p] = "sealing")
    <3>1. ASSUME NEW q \in Procs, q # p, Early(q) \/ Ending(q)
          PROVE  pc'[p] = pc[p] /\ target'[p] = target[p]
      BY <3>1, EarlyEffect, EndingEffect
    <3>2. ~Early(p)
      BY <2>3, EarlyEffect
    <3>3. CASE Ending(p)
      <4>1. ~Return(p)
        BY <2>3 DEF Return, DescribedAt, SealedAt
      <4>2. cut' = cut \union CutShort(p)
        BY <2>3, <3>3, <4>1, EndingEffect
      <4> QED
        BY <2>3, <4>2 DEF CutShort
    <3>4. ASSUME NEW q \in Procs,
                 \/ Publish(q) \/ HashArtifact(q) \/ OpenSidecar(q) \/ WriteSidecar(q)
                 \/ WriteMetadata(q) \/ ListDirectory(q) \/ Examine(q) \/ RemoveArtifact(q)
                 \/ RemoveSidecar(q) \/ RemoveMetadata(q)
          PROVE  pc'[p] = pc[p] /\ target'[p] = target[p]
      <4>1. q # p
        BY <1>3, <2>3, <3>4 DEF Publish, HashArtifact, OpenSidecar, WriteMetadata,
           ListDirectory, Examine, RemoveArtifact, RemoveSidecar, RemoveMetadata, SealedAt,
           DescribedAt
      <4>2. CASE Publish(q) \/ HashArtifact(q) \/ OpenSidecar(q) \/ WriteSidecar(q)
        BY <4>1, <4>2 DEF Publish, HashArtifact, OpenSidecar, WriteSidecar
      <4>3. CASE WriteMetadata(q) \/ ListDirectory(q) \/ Examine(q)
        BY <4>1, <4>3 DEF WriteMetadata, ListDirectory, Examine
      <4>4. CASE RemoveArtifact(q) \/ RemoveSidecar(q) \/ RemoveMetadata(q)
        BY <4>1, <4>4 DEF RemoveArtifact, RemoveSidecar, RemoveMetadata
      <4> QED
        BY <3>4, <4>2, <4>3, <4>4
    <3>5. Tick \/ UNCHANGED vars => UNCHANGED <<pc, target>>
      BY DEF Tick, vars
    <3> QED
      BY <2>3, <3>1, <3>2, <3>3, <3>4, <3>5 DEF Next, Step, Early, Ending
  <2> QED
    BY <1>1, <2>1, <2>2, <2>3 DEF TornInv, TornExcused
<1> QED
  BY <1>2, <1>3, <1>4

\* Initially nobody runs and there is no file.
LEMMA InitSide == Init => SideInv
BY NullAssumption
   DEF Init, SideInv, RemovalInv, PresentInv, DigestInv, SealedInv, OrphanInv,
       MismatchOnlyUnsealed, MeantInv, TornInv, Placed, Removing

\* Every step keeps the invariant of the sidecars.
LEMMA SideInductive == IInv /\ SideInv /\ [Next]_vars => SideInv'
BY NextRemoval, NextPresent, NextDigest, NextSealed, NextOrphan, NextMismatch, NextMeant, NextTorn
   DEF SideInv

\* The inductive invariant of the sidecars holds of every behaviour.
THEOREM SideInvariance == Spec => []SideInv
BY Invariance, InitSide, SideInductive, PTL DEF Spec

\* A sidecar without its artifact is being removed, or its removal was cut
\* short by a crash or failed: cleanup itself leaves none behind.
THEOREM OrphansAlways == Spec => []OrphansOnlyFromCut
<1>1. OrphanInv => OrphansOnlyFromCut
  BY DEF OrphanInv, OrphansOnlyFromCut, SideExcused, MetaExcused
<1> QED
  BY SideInvariance, <1>1, PTL DEF SideInv

\* verify condemns a whole backup only where a second run of the same second
\* is between its two writes, was cut short there, or writes no checksum.
THEOREM MismatchAlways == Spec => []MismatchOnlyUnsealed
BY SideInvariance, PTL DEF SideInv

\* As long as writes to a sidecar do not fail silently, a run with checksums
\* that returns leaves its artifact in place with the sidecar verify accepts.
THEOREM SealedReturn ==
    ASSUME ~ShortWrites
    PROVE  Spec => ReturnsSealed
<1>1. IInv /\ SideInv /\ [Next]_vars
        => [\A p \in Procs : Return(p) /\ Config[p].checksum => Sealed(target[p])]_vars
  <2> SUFFICES ASSUME IInv, SideInv, NEW p \in Procs, Return(p), Config[p].checksum
               PROVE  Sealed(target[p])
    OBVIOUS
  <2>1. pc[p] \in {"sealed", "described", "cleaning"}
    BY DEF Return, DescribedAt, SealedAt
  <2> QED
    BY <2>1 DEF SideInv, SealedInv, PresentInv, Placed, Sealed
<1> QED
  BY Invariance, SideInvariance, <1>1, PTL DEF Spec, ReturnsSealed

-----------------------------------------------------------------------------
(***************************************************************************)
(* Each lock file is a FileLock.                                           *)
(***************************************************************************)

Flock(l) == INSTANCE FileLock WITH Runs <- Procs, owner <- lock[l]

\* A run's lock is taken when nobody has it and given back at its end: what
\* BackupController shows of the descriptors behind it.
THEOREM LockKept ==
    ASSUME NEW l \in LockFiles
    PROVE  Spec => Flock(l)!Init /\ [][Flock(l)!Next]_(lock[l])
<1>1. Init => Flock(l)!Init
  BY DEF Init, Flock!Init
<1>2. IInv /\ [Next]_vars => [Flock(l)!Next]_(lock[l])
  <2> SUFFICES ASSUME IInv, [Next]_vars, lock'[l] # lock[l]
               PROVE  \E p \in Procs : \/ lock[l] = None /\ lock'[l] = p
                                       \/ lock[l] = p /\ lock'[l] = None
    BY DEF Flock!Next, Flock!Acquire, Flock!Release
  <2>1. PICK p \in Procs : Store!Acquire(p) \/ Store!Release(p)
    BY StepRefines DEF Store!Next, Store!vars, Store!Drop, Store!Put, Store!Tick
  <2>2. lock' = [lock EXCEPT ![LockFile(p)] = lock'[LockFile(p)]] /\ LockFile(p) \in LockFiles
    BY <2>1, ConfigAssumption
       DEF Store!Acquire, Store!Release, LockFile, IInv, TypeOK, Configs
  <2>3. LockFile(p) = l
    BY <2>2 DEF IInv, TypeOK
  <2> QED
    BY <2>1, <2>3 DEF Store!Acquire, Store!Release, Store!Holds, LockFile, IInv, TypeOK
<1> QED
  BY <1>1, <1>2, Invariance, PTL DEF Spec

=============================================================================
