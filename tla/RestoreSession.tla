---------------------------- MODULE RestoreSession ----------------------------
(***************************************************************************)
(* BackupManager::verify and BackupManager::restore, with the sources they *)
(* call (filesystem, service configuration, SQLite, database server), by a *)
(* process that reads the directory BackupManager's processes write.       *)
(*                                                                         *)
(* A session takes no lock.  It asks the file system whether a file exists *)
(* and opens it later, and in between a run may publish, seal or remove    *)
(* what it looks at.  A file once open keeps its content, so to read one   *)
(* is a single step.  A file at rest may be damaged.  The destination is   *)
(* what was last written to it, None when it is empty.                     *)
(***************************************************************************)
EXTENDS BackupManager

CONSTANTS
    Readers,     \* the processes that verify and restore
    Sources,     \* "files", "service", "sqlite" or "server"
    Checked,     \* the readers' checksumEnabled
    Structured,  \* whether the artifacts are compressed or archives
    Rotten,      \* a damaged content whose structure is sound
    Foreign      \* what the destination held before

ASSUME ReaderAssumption ==
    /\ Sources \subseteq {"files", "service", "sqlite", "server"}
    /\ Checked \in BOOLEAN /\ Structured \in BOOLEAN
    /\ Rotten \notin Data \union {None, Torn}

Requests == [verb : {"verify", "restore"}, name : Names]
\* The source a configuration selects, and RestoreOptions.
Options == [source : Sources, overwrite : BOOLEAN, dryRun : BOOLEAN]

VARIABLES
    at,        \* the point of verify or restore each reader has reached
    request,   \* the verb and the archive
    options,   \* what restore was told, from the point where it matters
    expected,  \* the checksum read from the sidecar
    verdict,   \* what verify said
    dest,      \* what the destination holds
    rot,       \* history: what each damaged artifact held when it was whole
    rotten,    \* history: the session began with a damaged, sealed artifact
    unsettled  \* history: a run was at work on the artifact meanwhile

session == <<at, request, options, expected, verdict, dest>>
observed == <<rot, rotten, unsettled>>
allVars == <<vars, session, observed>>

RestoreInit ==
    /\ Init
    /\ at = [r \in Readers |-> "idle"]
    /\ request = [r \in Readers |-> None]
    /\ options = [r \in Readers |-> None]
    /\ expected = [r \in Readers |-> None]
    /\ verdict = [r \in Readers |-> "none"]
    /\ dest \in {None, Foreign}
    /\ rot = [n \in Names |-> None]
    /\ rotten = [r \in Readers |-> FALSE]
    /\ unsettled = [r \in Readers |-> FALSE]

\* No run has published, sealed or removed part of n and has still to finish.
Settled(n) ==
    /\ n \notin cut
    /\ \A p \in Procs : ~ \/ target[p] = n /\ pc[p] \in {"published", "hashed", "sealing"}
                          \/ victim[p] = n

Damaged(n) == rot[n] # None

Archive(r) == artifact[request[r].name]
Sidecar(r) == sidecar[request[r].name]

-----------------------------------------------------------------------------
\* The steps of a session.  Each keeps the destination unless it says so.

Proceed(r, to) ==
    /\ at' = [at EXCEPT ![r] = to]
    /\ UNCHANGED <<request, verdict, rotten, unsettled>>

Goes(r, to) == Proceed(r, to) /\ UNCHANGED options

\* The process exits; nothing of it is left but its exit code.
End(r, outcome) ==
    /\ at' = [at EXCEPT ![r] = "idle"]
    /\ request' = [request EXCEPT ![r] = None]
    /\ options' = [options EXCEPT ![r] = None]
    /\ expected' = [expected EXCEPT ![r] = None]
    /\ verdict' = [verdict EXCEPT ![r] = outcome]
    /\ rotten' = [rotten EXCEPT ![r] = FALSE]
    /\ unsettled' = [unsettled EXCEPT ![r] = FALSE]

\* verify has passed the archive; a restore that asked for it goes on.
Pass(r) ==
    \/ /\ request[r].verb = "verify"
       /\ End(r, "ok")
    \/ /\ request[r].verb = "restore"
       /\ Goes(r, "source")
       /\ expected' = [expected EXCEPT ![r] = None]

\* The CLI parses its arguments and calls verify or restore.  Both read the
\* options as late as in Restore, where they are chosen.  The history notes
\* what the session has to deal with.
Start(r) ==
    /\ at[r] = "idle"
    /\ \E q \in Requests :
        /\ artifact[q.name] # None
        /\ request' = [request EXCEPT ![r] = q]
        /\ at' = [at EXCEPT ![r] = CASE q.verb = "verify" -> "archive"
                                     [] q.verb = "restore" /\ Checked -> "ask"
                                     [] q.verb = "restore" /\ ~Checked -> "source"]
        /\ rotten' = [rotten EXCEPT ![r] = Damaged(q.name) /\ sidecar[q.name] \in Data]
        /\ unsettled' = [unsettled EXCEPT ![r] = ~Settled(q.name)]
    /\ verdict' = [verdict EXCEPT ![r] = "none"]
    /\ UNCHANGED <<options, expected, dest, rot>>

\* Mutant: restore does not ask verify.
AskSidecarNot(r) ==
    /\ at[r] = "ask"
    /\ Goes(r, "source")
    /\ UNCHANGED <<expected, dest>>

\* restore looks for a sidecar; without one it warns and goes on.
AskSidecar(r) ==
    /\ at[r] = "ask"
    /\ Goes(r, IF Sidecar(r) = None THEN "source" ELSE "archive")
    /\ UNCHANGED <<expected, dest>>

\* verify looks for the archive.
FindArchive(r) ==
    /\ at[r] = "archive"
    /\ IF Archive(r) = None
       THEN End(r, "alarm")
       ELSE Goes(r, "sidecar") /\ UNCHANGED expected
    /\ UNCHANGED dest

\* verify looks for the sidecar, again if restore did; without one it
\* verifies the structure alone.
FindSidecar(r) ==
    /\ at[r] = "sidecar"
    /\ Goes(r, IF Sidecar(r) = None THEN "structure" ELSE "read")
    /\ UNCHANGED <<expected, dest>>

\* sidecarFile >> expected: nothing is read from a sidecar that is gone.
ReadSidecar(r) ==
    /\ at[r] = "read"
    /\ Goes(r, "hash")
    /\ expected' = [expected EXCEPT ![r] = IF Sidecar(r) = None THEN Torn ELSE Sidecar(r)]
    /\ UNCHANGED dest

\* Mutant: the comparison is between the sidecar and itself.
HashArchiveNot(r) ==
    /\ at[r] = "hash"
    /\ Goes(r, "structure")
    /\ UNCHANGED <<expected, dest>>

\* Torn sidecars hold no checksum, not even that of a torn archive.
Matches(r) == Archive(r) = expected[r] /\ Archive(r) # Torn

\* sha256File(archive) throws when the archive is gone.
HashArchive(r) ==
    /\ at[r] = "hash"
    /\ \/ /\ Archive(r) = None
          /\ End(r, "none")
       \/ /\ Archive(r) # None /\ ~Matches(r)
          /\ End(r, "alarm")
       \/ /\ Archive(r) # None /\ Matches(r)
          /\ Goes(r, "structure")
          /\ UNCHANGED expected
    /\ UNCHANGED dest

\* tar or gzip reads the whole file; a plain SQL dump only has to be there.
MayPass(r) == Archive(r) # None /\ (Structured => Archive(r) # Torn)

\* source->verify.  A torn plain dump may or may not have a size.
VerifyStructure(r) ==
    /\ at[r] = "structure"
    /\ \/ MayPass(r) /\ Pass(r)
       \/ /\ Archive(r) \in {None, Torn}
          /\ End(r, "alarm")
    /\ UNCHANGED dest

-----------------------------------------------------------------------------
\* Mutant: a service restore into an empty directory is not a dry run.
ListsEager(o) == o.source \in {"files", "service"} /\ o.dryRun

\* Mutant: overwrite outweighs a dry run.
ListsUnlessForced(o) == o.source \in {"files", "service"} /\ ~o.overwrite /\ (o.dryRun \/ o.source = "service")

\* A filesystem or service restore that only lists: a service restore does
\* unless it is told to overwrite.
Lists(o) ==
    \/ o.source \in {"files", "service"} /\ o.dryRun
    \/ o.source = "service" /\ ~o.overwrite

\* A database restore that only prints what it would do.  Whether dryRun was
\* asked for plays no part.
Prints(o) == o.source \in {"sqlite", "server"} /\ ~o.overwrite

\* A destination that is not empty needs overwrite.  SQLite and server
\* restores do not look at theirs.
Refuses(o) == o.source \in {"files", "service"} /\ ~o.overwrite /\ dest # None

\* source->restore up to the point where it writes: it throws, it has only
\* shown what it would do, or it goes on.
Restore(r) ==
    /\ at[r] = "source"
    /\ \E o \in Options :
        \/ /\ Archive(r) = None \/ Lists(o) \/ Prints(o) \/ Refuses(o)
           /\ End(r, "none")
        \/ /\ Archive(r) # None /\ ~Lists(o) /\ ~Prints(o) /\ ~Refuses(o)
           /\ Proceed(r, "extract")
           /\ options' = [options EXCEPT ![r] = o]
           /\ UNCHANGED expected
    /\ UNCHANGED dest

\* tar, or the database client, reads the archive to its end; or it fails
\* with a part of it written, as it must when a structured archive is torn.
\* An archive that is gone by now leaves the destination alone.
Extract(r) ==
    /\ at[r] = "extract"
    /\ End(r, "none")
    /\ \/ /\ Archive(r) # None /\ (Structured => Archive(r) # Torn)
          /\ dest' = Archive(r)
       \/ /\ Archive(r) # None
          /\ dest' = Torn
       \/ /\ Archive(r) = None
          /\ UNCHANGED dest

Reads(r) ==
    \/ AskSidecar(r) \/ FindArchive(r) \/ FindSidecar(r) \/ ReadSidecar(r)
    \/ HashArchive(r) \/ VerifyStructure(r) \/ Restore(r) \/ Extract(r)

\* An artifact at rest is damaged on the disk; bound: one at a time.
Damage ==
    /\ \A m \in Names : ~Damaged(m)
    /\ \E n \in Names, c \in {Torn, Rotten} :
        /\ artifact[n] \in Data
        /\ Settled(n)
        /\ artifact' = [artifact EXCEPT ![n] = c]
        /\ rot' = [rot EXCEPT ![n] = artifact[n]]
        /\ UNCHANGED <<now, lock, mtime, tmp, sidecar, meta, pc, locals, history>>

\* A session meets an artifact a run is at work on.
Meets ==
    unsettled' = [r \in Readers |->
        at[r] # "idle" /\ (unsettled[r] \/ ~Settled(request[r].name)')]

RestoreNext ==
    \/ Next /\ UNCHANGED <<session, rotten>> /\ Meets
            /\ rot' = [n \in Names |-> IF artifact'[n] = artifact[n] THEN rot[n] ELSE None]
    \/ Damage /\ UNCHANGED <<session, rotten, unsettled>>
    \/ \E r \in Readers :
        \/ Start(r) /\ UNCHANGED vars
        \/ Reads(r) /\ UNCHANGED <<vars, rot>>

RestoreSpec == RestoreInit /\ [][RestoreNext]_allVars

-----------------------------------------------------------------------------
(***************************************************************************)
(* Properties.                                                             *)
(***************************************************************************)

\* A session cries alarm only over an artifact that was damaged, or that a
\* run was publishing, sealing or removing meanwhile, or was cut short on.
AlarmFounded ==
    [][\A r \in Readers :
        verdict[r] = "none" /\ verdict'[r] = "alarm"
            => Damaged(request[r].name) \/ unsettled[r]]_allVars

\* verify does not pass an artifact that was damaged before it began and has
\* its sidecar, whatever the runs do to other artifacts.
DamageFound ==
    [][\A r \in Readers :
        verdict[r] = "none" /\ verdict'[r] = "ok"
            => ~rotten[r] \/ unsettled[r]]_allVars

\* "restore refuses to proceed on mismatch": nothing of an artifact that was
\* damaged before the session began reaches the destination.
RefusesDamaged ==
    [][\A r \in Readers :
        at[r] = "extract" /\ dest' # dest => ~rotten[r] \/ unsettled[r]]_allVars

\* A destination is changed only by a session that was told to overwrite, or
\* by a filesystem restore that found it empty.
Confirmed ==
    [][dest' # dest => \E r \in Readers :
        /\ at[r] = "extract"
        /\ options[r].overwrite \/ (options[r].source = "files" /\ dest = None)]_allVars

\* "Validate and report actions without writing anything": a dry run leaves
\* the destination as it was.
DryRunInert ==
    [][\A r \in Readers :
        at[r] = "extract" /\ options[r].dryRun => dest' = dest]_allVars

=============================================================================
