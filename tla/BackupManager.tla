---------------------------- MODULE BackupManager ----------------------------
(***************************************************************************)
(* BackupManager::runOnce and runLoop (src/core/backup_manager.cpp): the   *)
(* processes that write artifacts into a backup directory.                 *)
(*                                                                         *)
(* A process is anything that calls runOnce again and again: the agent's   *)
(* loop, a systemd timer, a scheduled run of the CLI, a run the GUI        *)
(* starts.  Each has a configuration of its own; all of them write to one  *)
(* directory.  Every system call another process could observe between is  *)
(* a step of its own; a process may throw or die at any of them.           *)
(*                                                                         *)
(* An artifact name is a series (the source's prefix and extension) and    *)
(* the time stamp of the run.  One tick of the clock stands both for the   *)
(* second a stamp distinguishes and for the unit retention counts in:      *)
(* what matters is only which runs share a stamp and which artifacts are   *)
(* older than retention.  The content of a file is a member of Data, Torn  *)
(* (written in part, or empty) or None (no such file); the checksum of a   *)
(* content is that content, i.e. SHA-256 does not collide.                 *)
(***************************************************************************)
EXTENDS Naturals, FiniteSets

CONSTANTS
    Procs,        \* the processes that run backups
    LockFiles,    \* lock file paths (LOCK_FILE)
    Series,       \* artifact prefixes and extensions
    Data,         \* what a complete dump may contain
    None,         \* no process, no name, no file
    Torn,         \* the content of a file written in part
    Config,       \* the configuration of each process
    MaxTime,      \* bound: the clock stops here
    MaxRun,       \* bound: a run lasts at most this many ticks
    MaxFaults,    \* bound: so many exceptions, crashes and failed removals
    ShortWrites   \* whether a write to a sidecar may silently fail

Configs == [enabled: BOOLEAN, lockFile: LockFiles, series: Series,
            checksum: BOOLEAN, metadata: BOOLEAN,
            cleanup: BOOLEAN, retention: Nat]

Names == Series \X (0 .. MaxTime)
Contents == Data \union {Torn, None}

ASSUME ConfigAssumption == Config \in [Procs -> Configs]
ASSUME BoundAssumption == MaxTime \in Nat /\ MaxRun \in Nat /\ MaxFaults \in Nat
ASSUME NullAssumption ==
    /\ None \notin Procs /\ None \notin Names /\ None \notin Data
    /\ Torn \notin Data /\ Torn # None
\* Two configurations that produce the same artifact names name the same
\* lock file: the GUI writes one path into every job, the agent has one
\* configuration.
ASSUME SeriesLockAssumption ==
    \A p, q \in Procs : Config[p].series = Config[q].series
                            => Config[p].lockFile = Config[q].lockFile
\* A run does not outlast the retention of any process (a day at the least).
ASSUME RetentionAssumption ==
    \A p \in Procs : Config[p].retention = 0 \/ Config[p].retention >= MaxRun

VARIABLES
    now,       \* the system clock
    lock,      \* who holds each lock file's flock
    artifact,  \* the files under a final name
    mtime,     \* their last write times
    tmp,       \* the files under a final name followed by .tmp
    sidecar,   \* the .sha256 files, by artifact name
    meta,      \* the .meta.json files, by artifact name
    pc,        \* the point of runOnce each process has reached
    target,    \* finalFile, once chosen
    written,   \* when a run last wrote to its temporary file
    digest,    \* the checksum a run has computed
    pending,   \* directory entries its cleanup has still to examine
    victim,    \* the expired artifact its cleanup is removing
    cut,       \* history: artifacts whose sealing or removal was cut short, or
               \* whose sidecars could not be removed
    faults     \* how many exceptions, crashes and failed removals there were

files == <<artifact, mtime, tmp, sidecar, meta>>
locals == <<target, written, digest, pending, victim>>
history == <<cut, faults>>
vars == <<now, lock, files, pc, locals, history>>

Points == {"idle", "locked", "dumping", "writing", "dumped", "published",
           "hashed", "sealing", "sealed", "described", "cleaning",
           "removing", "removingSidecar", "removingMeta", "orphaned"}

LockFile(p) == Config[p].lockFile

-----------------------------------------------------------------------------
Init ==
    /\ now = 0
    /\ lock = [l \in LockFiles |-> None]
    /\ artifact = [n \in Names |-> None]
    /\ mtime = [n \in Names |-> 0]
    /\ tmp = [n \in Names |-> None]
    /\ sidecar = [n \in Names |-> None]
    /\ meta = [n \in Names |-> None]
    /\ pc = [p \in Procs |-> "idle"]
    /\ target = [p \in Procs |-> None]
    /\ written = [p \in Procs |-> 0]
    /\ digest = [p \in Procs |-> None]
    /\ pending = [p \in Procs |-> {}]
    /\ victim = [p \in Procs |-> None]
    /\ cut = {}
    /\ faults = 0

Goto(p, from, to) ==
    /\ pc[p] = from
    /\ pc' = [pc EXCEPT ![p] = to]

\* ~FileLock(), by a return, by an exception, or by the kernel when the
\* last process that has the lock file open dies: the flock goes, and the
\* run's locals with it.
Leave(p) ==
    /\ pc' = [pc EXCEPT ![p] = "idle"]
    /\ lock' = [lock EXCEPT ![LockFile(p)] = None]
    /\ target' = [target EXCEPT ![p] = None]
    /\ written' = [written EXCEPT ![p] = 0]
    /\ digest' = [digest EXCEPT ![p] = None]
    /\ pending' = [pending EXCEPT ![p] = {}]
    /\ victim' = [victim EXCEPT ![p] = None]

\* The artifact that is without the sidecar it should have, or whose
\* sidecars may stay behind, if something goes wrong now.
CutShort(p) ==
    CASE pc[p] \in {"published", "hashed", "sealing"} -> {target[p]}
      [] pc[p] \in {"removingSidecar", "removingMeta"} -> {victim[p]}
      [] OTHER -> {}

\* Something goes wrong.
Fault(p) ==
    /\ faults < MaxFaults
    /\ faults' = faults + 1
    /\ cut' = cut \union CutShort(p)

-----------------------------------------------------------------------------
(***************************************************************************)
(* The lock and the dump.                                                  *)
(***************************************************************************)

\* Mutant: the result of flock is not looked at.
TryLockIgnored(p) ==
    /\ Config[p].enabled
    /\ Goto(p, "idle", "locked")
    /\ lock' = [lock EXCEPT ![LockFile(p)] = p]
    /\ UNCHANGED <<now, files, locals, history>>

\* FileLock's non-blocking flock succeeds.  A disabled configuration, a
\* lock file that cannot be opened and a lock already held all end the run
\* before it has changed anything: they are stuttering steps.
TryLock(p) ==
    /\ Config[p].enabled
    /\ lock[LockFile(p)] = None
    /\ Goto(p, "idle", "locked")
    /\ lock' = [lock EXCEPT ![LockFile(p)] = p]
    /\ UNCHANGED <<now, files, locals, history>>

\* Mutant: the stamp is rounded up.
PrepareAhead(p) ==
    LET n == <<Config[p].series, now + 1>> IN
    /\ Goto(p, "locked", "dumping")
    /\ target' = [target EXCEPT ![p] = n]
    /\ UNCHANGED <<now, lock, files, written, digest, pending, victim, history>>

\* createBackupFileName, then removeFileIfExists(temporaryFile).
Prepare(p) ==
    LET n == <<Config[p].series, now>> IN
    /\ Goto(p, "locked", "dumping")
    /\ target' = [target EXCEPT ![p] = n]
    /\ tmp' = [tmp EXCEPT ![n] = None]
    /\ UNCHANGED <<now, lock, artifact, mtime, sidecar, meta, written, digest,
                   pending, victim, history>>

\* createBackup opens the temporary file and starts to write it.
StartDump(p) ==
    /\ Goto(p, "dumping", "writing")
    /\ tmp' = [tmp EXCEPT ![target[p]] = Torn]
    /\ written' = [written EXCEPT ![p] = now]
    /\ UNCHANGED <<now, lock, artifact, mtime, sidecar, meta, target, digest,
                   pending, victim, history>>

\* createBackup returns: every writer and validator of it exited with 0.
EndDump(p) ==
    /\ Goto(p, "writing", "dumped")
    /\ \E d \in Data : tmp' = [tmp EXCEPT ![target[p]] = d]
    /\ written' = [written EXCEPT ![p] = now]
    /\ UNCHANGED <<now, lock, artifact, mtime, sidecar, meta, target, digest,
                   pending, victim, history>>

\* rename(artifact.path, finalFile) replaces whatever bore the name.
Publish(p) ==
    /\ Goto(p, "dumped", "published")
    /\ tmp[target[p]] # None
    /\ artifact' = [artifact EXCEPT ![target[p]] = tmp[target[p]]]
    /\ mtime' = [mtime EXCEPT ![target[p]] = written[p]]
    /\ tmp' = [tmp EXCEPT ![target[p]] = None]
    /\ UNCHANGED <<now, lock, sidecar, meta, locals, history>>

-----------------------------------------------------------------------------
(***************************************************************************)
(* The sidecars.  The point at which a run is through with one depends on  *)
(* which of them its configuration and its source ask for.                 *)
(***************************************************************************)
\* Mutant: the end of the run does not wait for the sidecar.
SealedAtOnce(p) == "published"

SealedAt(p) == IF Config[p].checksum THEN "sealed" ELSE "published"
DescribedAt(p) == IF Config[p].metadata THEN "described" ELSE SealedAt(p)
Cleans(p) == Config[p].cleanup /\ Config[p].retention # 0

\* sha256File(artifact); it throws when the artifact cannot be read.
HashArtifact(p) ==
    /\ Config[p].checksum
    /\ Goto(p, "published", "hashed")
    /\ artifact[target[p]] # None
    /\ digest' = [digest EXCEPT ![p] = artifact[target[p]]]
    /\ UNCHANGED <<now, lock, files, target, written, pending, victim,
                   history>>

\* Mutant: a sidecar that exists already is kept.
OpenSidecarOnce(p) ==
    /\ Goto(p, "hashed", IF sidecar[target[p]] = None THEN "sealing" ELSE "sealed")
    /\ sidecar' = [sidecar EXCEPT ![target[p]] = IF @ = None THEN Torn ELSE @]
    /\ UNCHANGED <<now, lock, artifact, mtime, tmp, meta, locals, history>>

\* ofstream { sidecar, trunc } leaves an empty sidecar under the final name.
OpenSidecar(p) ==
    /\ Goto(p, "hashed", "sealing")
    /\ sidecar' = [sidecar EXCEPT ![target[p]] = Torn]
    /\ UNCHANGED <<now, lock, artifact, mtime, tmp, meta, locals, history>>

\* file << checksum; file.close().  The state of the stream is not looked
\* at: a write that fails (a full disk) leaves the sidecar as it is.
WriteSidecar(p) ==
    /\ Goto(p, "sealing", "sealed")
    /\ \/ sidecar' = [sidecar EXCEPT ![target[p]] = digest[p]]
       \/ ShortWrites /\ UNCHANGED sidecar
    /\ cut' = cut \ {target[p]}
    /\ UNCHANGED faults
    /\ UNCHANGED <<now, lock, artifact, mtime, tmp, meta, locals>>

\* writeMetadataSidecar, for a source that sets metadata.present.  Nothing
\* reads this file, so its truncation and its write are one step; it records
\* the checksum, computed here when the sidecar did not ask for it.
WriteMetadata(p) ==
    /\ Config[p].metadata
    /\ Goto(p, SealedAt(p), "described")
    /\ artifact[target[p]] # None
    /\ LET sum == IF digest[p] = None THEN artifact[target[p]] ELSE digest[p]
       IN  \/ meta' = [meta EXCEPT ![target[p]] = sum]
           \/ ShortWrites /\ meta' = [meta EXCEPT ![target[p]] = Torn]
    /\ UNCHANGED <<now, lock, artifact, mtime, tmp, sidecar, locals, history>>

-----------------------------------------------------------------------------
(***************************************************************************)
(* cleanupOldBackups.                                                      *)
(***************************************************************************)

\* directory_iterator: the artifacts present when the scan begins.  Files
\* ending in .tmp, .sha256 or .meta.json are never examined.
ListDirectory(p) ==
    /\ Cleans(p)
    /\ Goto(p, DescribedAt(p), "cleaning")
    /\ pending' = [pending EXCEPT ![p] = {n \in Names : artifact[n] # None}]
    /\ UNCHANGED <<now, lock, files, target, written, digest, victim,
                   history>>

\* Mutant: an artifact expires on the last day it must be kept.
ExpiredEarly(p, n) == artifact[n] # None /\ now - mtime[n] >= Config[p].retention

Expired(p, n) == artifact[n] # None /\ now - mtime[n] > Config[p].retention

\* Mutant: age is counted from the stamp in the name.
ExamineByStamp(p) ==
    /\ pc[p] = "cleaning"
    /\ \E n \in pending[p] :
        /\ pending' = [pending EXCEPT ![p] = @ \ {n}]
        /\ IF artifact[n] # None /\ now - n[2] > Config[p].retention
           THEN /\ victim' = [victim EXCEPT ![p] = n]
                /\ pc' = [pc EXCEPT ![p] = "removing"]
           ELSE UNCHANGED <<victim, pc>>
    /\ UNCHANGED <<now, lock, files, target, written, digest, history>>

\* Mutant: an entry that is young is examined again.
ExamineAgain(p) ==
    /\ pc[p] = "cleaning"
    /\ \E n \in pending[p] :
        IF Expired(p, n)
        THEN /\ victim' = [victim EXCEPT ![p] = n]
             /\ pc' = [pc EXCEPT ![p] = "removing"]
             /\ pending' = [pending EXCEPT ![p] = @ \ {n}]
        ELSE UNCHANGED <<victim, pc, pending>>
    /\ UNCHANGED <<now, lock, files, target, written, digest, history>>

\* One entry of the scan: it is old, or it stays.  last_write_time throws
\* when the entry has vanished, unless the scan no longer meets it.
Examine(p) ==
    /\ pc[p] = "cleaning"
    /\ \E n \in pending[p] :
        /\ pending' = [pending EXCEPT ![p] = @ \ {n}]
        /\ IF Expired(p, n)
           THEN /\ victim' = [victim EXCEPT ![p] = n]
                /\ pc' = [pc EXCEPT ![p] = "removing"]
           ELSE UNCHANGED <<victim, pc>>
    /\ UNCHANGED <<now, lock, files, target, written, digest, history>>

\* remove(path)
RemoveArtifact(p) ==
    /\ Goto(p, "removing", "removingSidecar")
    /\ artifact' = [artifact EXCEPT ![victim[p]] = None]
    /\ mtime' = [mtime EXCEPT ![victim[p]] = 0]
    /\ UNCHANGED <<now, lock, tmp, sidecar, meta, locals, history>>

\* Mutant: only the artifact is removed.
RemoveSidecarNot(p) ==
    /\ Goto(p, "removingSidecar", "removingMeta")
    /\ UNCHANGED <<now, lock, files, locals, history>>

\* removeFileIfExists(path + ".sha256"): nobody looks at its error code, and
\* what cannot be removed stays.
RemoveSidecar(p) ==
    /\ Goto(p, "removingSidecar", "removingMeta")
    /\ \/ sidecar' = [sidecar EXCEPT ![victim[p]] = None] /\ UNCHANGED history
       \/ Fault(p) /\ UNCHANGED sidecar
    /\ UNCHANGED <<now, lock, artifact, mtime, tmp, meta, locals>>

\* removeFileIfExists(path + ".meta.json"), likewise, and on to the next entry
RemoveMetadata(p) ==
    /\ Goto(p, "removingMeta", "cleaning")
    /\ \/ meta' = [meta EXCEPT ![victim[p]] = None] /\ UNCHANGED history
       \/ Fault(p) /\ UNCHANGED meta
    /\ victim' = [victim EXCEPT ![p] = None]
    /\ UNCHANGED <<now, lock, artifact, mtime, tmp, sidecar,
                   target, written, digest, pending>>

-----------------------------------------------------------------------------
(***************************************************************************)
(* The ends of a run, and the clock.                                       *)
(***************************************************************************)

\* runOnce returns.
Return(p) ==
    /\ IF Cleans(p) THEN pc[p] = "cleaning" /\ pending[p] = {}
                    ELSE pc[p] = DescribedAt(p)
    /\ Leave(p)
    /\ UNCHANGED <<now, files, history>>

\* An exception out of runOnce.  Truncating a sidecar, writing it and
\* removing the sidecars of a victim report no error.
Throw(p) ==
    /\ pc[p] \in Points \ {"idle", "sealing", "removingSidecar", "removingMeta",
                          "orphaned"}
    /\ Fault(p)
    /\ Leave(p)
    /\ UNCHANGED <<now, files>>

\* createBackup returns an artifact of size 0: it is removed and runOnce throws.
EmptyDump(p) ==
    /\ pc[p] = "writing"
    /\ tmp' = [tmp EXCEPT ![target[p]] = None]
    /\ Fault(p)
    /\ Leave(p)
    /\ UNCHANGED <<now, artifact, mtime, sidecar, meta>>

\* Mutant: the lock file is opened with O_CLOEXEC.
OrphanUnlocked(p) ==
    /\ Goto(p, "writing", "orphaned")
    /\ lock' = [lock EXCEPT ![LockFile(p)] = None]
    /\ Fault(p)
    /\ UNCHANGED <<now, files, locals>>

\* The process alone is killed, while its children write the dump.  They
\* have inherited the lock file's descriptor, which is opened without
\* O_CLOEXEC, and so the flock: it is theirs until the last of them ends.
Orphan(p) ==
    /\ Goto(p, "writing", "orphaned")
    /\ Fault(p)
    /\ UNCHANGED <<now, lock, files, locals>>

\* They end, with the dump complete or not; nobody publishes it.
OrphansEnd(p) ==
    /\ pc[p] = "orphaned"
    /\ \E d \in Data \union {Torn} : tmp' = [tmp EXCEPT ![target[p]] = d]
    /\ Leave(p)
    /\ UNCHANGED <<now, artifact, mtime, sidecar, meta, history>>

\* The process is killed with its children, or the machine goes down.
Crash(p) ==
    /\ pc[p] # "idle"
    /\ Fault(p)
    /\ Leave(p)
    /\ UNCHANGED <<now, files>>

\* Time passes, but no run outlasts MaxRun.
Tick ==
    /\ now < MaxTime
    /\ \A p \in Procs : target[p] # None => now < target[p][2] + MaxRun
    /\ now' = now + 1
    /\ UNCHANGED <<lock, files, pc, locals, history>>

-----------------------------------------------------------------------------
\* The steps a run takes by itself until it has left runOnce.
Step(p) ==
    \/ Prepare(p) \/ StartDump(p) \/ EndDump(p) \/ EmptyDump(p) \/ Publish(p)
    \/ HashArtifact(p) \/ OpenSidecar(p) \/ WriteSidecar(p) \/ WriteMetadata(p)
    \/ ListDirectory(p) \/ Examine(p) \/ RemoveArtifact(p) \/ RemoveSidecar(p)
    \/ RemoveMetadata(p) \/ Return(p) \/ Throw(p) \/ OrphansEnd(p)

Next ==
    \/ \E p \in Procs : TryLock(p) \/ Step(p) \/ Orphan(p) \/ Crash(p)
    \/ Tick

\* A run that has begun is scheduled until it ends: its children terminate
\* and the operating system does not suspend it for ever.
Spec == Init /\ [][Next]_vars /\ \A p \in Procs : WF_vars(Step(p))

-----------------------------------------------------------------------------
(***************************************************************************)
(* Properties.                                                             *)
(***************************************************************************)

\* The values the variables take.
TypeOK ==
    /\ now \in 0 .. MaxTime
    /\ lock \in [LockFiles -> Procs \union {None}]
    /\ artifact \in [Names -> Contents] /\ mtime \in [Names -> 0 .. MaxTime]
    /\ tmp \in [Names -> Contents]
    /\ sidecar \in [Names -> Contents] /\ meta \in [Names -> Contents]
    /\ pc \in [Procs -> Points]
    /\ target \in [Procs -> Names \union {None}]
    /\ written \in [Procs -> 0 .. MaxTime]
    /\ digest \in [Procs -> Contents]
    /\ pending \in [Procs -> SUBSET Names]
    /\ victim \in [Procs -> Names \union {None}]
    /\ cut \in SUBSET Names /\ faults \in 0 .. MaxFaults

\* LOCK_FILE does what the README says it is for: no two processes that
\* name the same lock file are inside runOnce at once, whatever crashes and
\* exceptions ended the runs before, and none is there while the children
\* of a killed one still write.
OneRunPerLock ==
    \A p, q \in Procs : p # q /\ LockFile(p) = LockFile(q)
                            => pc[p] = "idle" \/ pc[q] = "idle"

\* Nobody ever sees a partial or empty file under a final name, even after
\* a run was killed in the middle of its dump and the next one, in the same
\* second, took up the same temporary file.
PublishedWhole == \A n \in Names : artifact[n] # Torn

Sealed(n) == artifact[n] # None /\ sidecar[n] = artifact[n]

\* A complete sidecar contradicts a complete artifact, so that verify
\* condemns a good backup, only between the two writes of a second run of
\* the same second, or when that run was cut short there, or when it was
\* configured to write no checksum and left the sidecar of the first.
MismatchOnlyUnsealed ==
    \A n \in Names :
        artifact[n] \in Data /\ sidecar[n] \in Data /\ sidecar[n] # artifact[n]
            => \/ n \in cut
               \/ \E p \in Procs : target[p] = n /\ pc[p] \in {"published", "hashed"}
               \/ \E p \in Procs : Config[p].series = n[1] /\ ~Config[p].checksum

\* A run whose configuration asks for checksums and that returns leaves its
\* artifact in place with the sidecar that verify will accept.
ReturnsSealed ==
    [][\A p \in Procs :
        Return(p) /\ Config[p].checksum => Sealed(target[p])]_vars

\* cleanupOldBackups may only lose an artifact past the retention of the
\* process that removes it, although the age is read some steps before the
\* removal and other processes publish in between.
ExpireOnlyOld ==
    [][\A n \in Names :
        artifact[n] # None /\ artifact'[n] = None
            => \E p \in Procs : victim[p] = n /\ Expired(p, n)]_vars

\* A checksum or metadata sidecar without its artifact is one that is being
\* removed, or that stays for ever, since cleanup never looks at it again:
\* because of a crash in the middle of the removal, or because it could not
\* be removed.  A cleanup that meets neither leaves none.
OrphansOnlyFromCut ==
    \A n \in Names :
        artifact[n] = None /\ (sidecar[n] # None \/ meta[n] # None)
            => n \in cut \/ \E p \in Procs : victim[p] = n

\* A run that has taken the lock ends, however much its cleanup finds to do.
RunEnds == \A p \in Procs : pc[p] # "idle" ~> pc[p] = "idle"

\* The directory the processes share is an ArtifactStore: the temporary
\* files, the sidecars and the points of runOnce can be forgotten.
Store == INSTANCE ArtifactStore WITH
    Writers <- Procs,
    Locks <- LockFiles,
    LockOf <- [p \in Procs |-> Config[p].lockFile],
    NamesOf <- [p \in Procs |-> {n \in Names : n[1] = Config[p].series}],
    KeepFor <- [p \in Procs |-> Config[p].retention],
    holder <- lock,
    store <- artifact,
    born <- mtime

\* Every behaviour of the processes, crashes included, is one of the store:
\* a backup appears complete and at once, under the lock of its job, and no
\* other way; and every lock taken is released.
ImplementsStore == Store!Spec

=============================================================================
