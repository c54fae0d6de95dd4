# Vaultium in TLA+

Vaultium (this repository, C++20 with a Qt GUI) makes, verifies, restores,
schedules and downloads backups of databases, files and service
configurations. These modules model the parts of it in which several
processes, a crash or a dropped connection decide whether a backup is there
when it is needed; TLC checks them on small instances, and TLAPS proves all of
the safety properties of the passing runs for every value of the constants.

Paths such as `src/core/backup_manager.cpp` are paths of the repository.
`PROJECT.json` maps every definition to the lines it stands for.

## 1. Inventory

One binary, `vaultium`, is everything but the GUI: the agent is its run loop,
a schedule's trigger executes `vaultium schedule run`, and the GUI starts it
as a child process for each thing it does. So Vaultium's concurrency is that
of *processes* over shared files, with hardly a thread in it, and its only
synchronisation is one `flock`.

| Component | State | Operations | Meets |
|---|---|---|---|
| `BackupManager` runs, agent | the backup directory: artifacts, `.tmp`, `.sha256`, `.meta.json`; the lock file | `runOnce`, `runLoop`, `cleanupOldBackups` | other runs of the same or other jobs, readers, the disk |
| `BackupManager` verify, restore | the restore destination | `verify`, `restore` | runs, without taking the lock |
| Backup sources and engines | none (a SQLite staging directory) | `createBackup`, `verify`, `restore` | child processes |
| Process runner | children, pipe ends, inherited descriptors | `runDumpThroughGzip`, `runGunzipIntoProcess`, `runProcessToFile`, `runProcessWithStdin` | `fork`, `exec`, `waitpid`, kills |
| Configuration | none | parse, validate | |
| Schedule records and triggers | `.schedule` files; launchd, systemd, cron | save, set-enabled, repair, remove, run | the run a trigger starts, elevation |
| Cron expressions | none | match, next run, generated calendars | launchd, systemd, cron |
| Remote backup, SSH client, provisioning | a connection; a file on the server and one here | connect, provision, execute, download, remove | the server, the network, other runs of the job |
| GUI `BackupController` | busy, plan, cancelled, the child process | start, cancel, signals of the child; rename and delete in the history | the engine's process |
| GUI schedules | a queue of verbs | enqueue, startNext | the engine's process |
| GUI discovery, wizard | outstanding requests, caches, the selection | send, dispatch, setTarget, stop | the session process |
| GUI servers, jobs, settings | lists saved whole; a test that runs | save, edit, test | the engine's process |
| SHA-256, inventory, catalogue, logger, other screens | none | | |

The behaviours that are hard, and the property that says each goes well:

* **Runs beside runs.** Agent, timer, schedule and GUI may start one job at one
  moment; two jobs with locks of their own may clean one directory. One run
  per lock (`OneRunPerLock`), a published file is always whole
  (`PublishedWhole`), cleanup loses only what is past retention
  (`ExpireOnlyOld`), a run that returns leaves a sealed artifact
  (`ReturnsSealed`).
* **Crashes and exceptions** at every system call: what they may leave behind
  (`MismatchOnlyUnsealed`, `OrphansOnlyFromCut`), and that the next run still
  gets its lock (`ImplementsStore`, `RunEnds`).
* **Readers without a lock**: what `verify` may say and what may reach a
  destination while files are replaced (`AlarmFounded`, `DamageFound`,
  `RefusesDamaged`, `Confirmed`, `DryRunInert`).
* **Records without a lock**: a run saves the copy it loaded when it began
  (`InStep`, `StoppedStays`, `RemovedStaysRemoved`).
* **A server elsewhere**: failed dumps, commands that hang, broken connections,
  orphaned commands, silence (`Delivered`, `RemovedDelivered`, `LeftMeant`,
  `RunEnds`).
* **Children that outlive their parent**: a cancelled engine is killed alone;
  `dump | gzip` keeps its pipe, its file and the lock (`OneWriter`,
  `ExitTrue`, `ChildrenEnd`).
* **Signals of a child process** that cross what the user does next: a plan, a
  cancellation and a failed launch (`PlanKept`, `CancelMeant`, `BusyEnds`);
  answers of a session that has been replaced (`BusyCounts`, `CacheOfTarget`,
  `AlarmMeant`, `SettledDatabases`, `BusyEnds`).
* **One schedule in four notations**: the next run shown and the calendars of
  three service managers (`NextIsFirst`, `LaunchdAsShown`, `SystemdAsShown`,
  `CrontabAsShown`).

`PROJECT.json` lists each hazard at its line.

## 2. Modules

| Module | Models |
|---|---|
| `ArtifactStore` | abstract: what a backup directory promises |
| `FileLock` | abstract: what the runs of a job rely on in their lock file |
| `BackupManager` | `runOnce`, `runLoop`, the lock, cleanup; refines `ArtifactStore` |
| `BackupManagerProofs` | theorems about `BackupManager` and the refinement |
| `RestoreSession` | `verify` and `restore`; extends `BackupManager`, whose runs go on beside the sessions |
| `RestoreSessionProofs` | theorems about `RestoreSession` |
| `ScheduleStore` | a schedule's record, its triggers, the verbs and the run |
| `ScheduleStoreProofs` | theorems about `ScheduleStore` |
| `RemoteBackup` | `runRemoteBackup`, the SSH client, provisioning |
| `RemoteBackupProofs` | theorems about `RemoteBackup` |
| `ProcessPipeline` | an engine and the children it forks: pipes, descriptors, exit codes |
| `BackupController` | the GUI's controller; extends `ProcessPipeline`, whose engines it starts and kills |
| `BackupControllerProofs` | theorems about `BackupController` and its `ProcessPipeline` |
| `Cron` | cron expressions and the search for the next run |
| `CronProofs` | theorems about `Cron` |
| `Triggers` | the calendars for launchd, systemd and cron; extends `Cron` |
| `TriggersProofs` | theorems about `Triggers`; extends `CronProofs` |
| `DiscoverySession` | `InventoryViewModel`, its session process and the wizard |
| `DiscoverySessionProofs` | theorems about `DiscoverySession` |
| `MC*` | constants for TLC |

### BackupManager and ArtifactStore

One action per system call another process could observe between, in the
order of `runOnce`: `TryLock` (the flock), `Prepare` (name chosen, old `.tmp`
removed), `StartDump`, `EndDump`, `Publish` (the rename), `HashArtifact`,
`OpenSidecar` (truncates), `WriteSidecar`, `WriteMetadata`, then cleanup:
`ListDirectory`, `Examine`, `RemoveArtifact`, `RemoveSidecar`,
`RemoveMetadata`; `Return`. `Throw`, `EmptyDump` and `Crash` leave from
anywhere the code can. `Leave` is `~FileLock()`, which exceptions run as well.
The kernel frees the lock of a process that is killed only once nobody has its
descriptor any more, and the dump inherits it: a run killed while it dumps may
leave an `Orphan`, which writes the temporary file and holds the lock until
`OrphansEnd`. `ProcessPipeline` models the descriptors themselves. `runLoop` calls `runOnce` again: a process that is idle
may take the lock at any time.

Abstractions, each of which the properties cannot see through:

* a name is a series (prefix and extension) and a stamp. One tick is the second
  that distinguishes stamps *and* the unit retention counts: only which runs
  share a stamp, and which artifacts outlive retention, matters;
* a content is a member of `Data`, `Torn` or `None`. A checksum is the content
  it was computed from: SHA-256 does not collide;
* a run that finds its lock taken or cannot open it changes nothing and is a
  stuttering step.

The assumptions: `SeriesLockAssumption` (two configurations with the same
artifact names share a lock file: the GUI writes one path into every job, the
agent has one configuration); `RetentionAssumption` (no run outlasts the
retention, which is a day at the least; it bounds a run by `MaxRun` ticks, the guard of
`Tick`); the rest say what kind of thing a constant is. `cut` and `faults` are
history, read by properties and by the bound only. `RemoveSidecar` and
`RemoveMetadata` may fail without notice, as `removeFileIfExists` ignores its
error: the file stays, the failure counts among the faults and `cut` remembers
the name. The removal of the artifact itself throws when it fails, which is
`Throw`.

`ArtifactStore` knows names, backups, their age and who holds a lock. The
mapping keeps `artifact`, `mtime` and `lock` and forgets temporary files,
sidecars and program points. `FileLock` is one lock by itself. `BackupManager`
has it as a variable, `ProcessPipeline` as descriptors, and both are proved to
implement it.

### RestoreSession

Each `exists` and each `open` of a session is a step, so that what was asked
may be out of date when it is used; the content of an open file does not
change. `Damage` is a disk that spoils one artifact at rest. The options of a
restore are chosen at `Restore`, the first step that reads them. The
decisions of the sources are the operators `Lists`, `Prints` and `Refuses`.
`rot`, `rotten` and `unsettled` are history, so that a property can excuse
what a run at work on the very artifact may cause; `rot` remembers what a
damaged artifact held. Files renamed or deleted
by the GUI are not modelled here.

### ScheduleStore

One schedule; `Admin` is the administrator's current verb (the GUI queues
verbs and runs one at a time), `Runs` are processes the trigger starts. A
verb loads a copy, and later writes *that*. A record is saved in two steps,
`Truncate` and `Write`, with `Blank` between them. Removing the user's trigger
is taken to succeed, since nobody checks; the system's needs elevation, which may be
refused. `InStep` asks, of a schedule that is on, for a trigger in the scope its
record names, and of one that is off for no trigger at all; a schedule whose
scope was changed may keep the trigger of the former scope beside the new one,
which the code does not remove and no property denies. `disturbed` is history: it excuses `InStep` for what a run
crossing a verb, a refusal or a kill does. A run in the system's
scope may not find the user's `HOME`: such a run does not begin.

### RemoteBackup

A client is a process that runs `runRemoteBackup` once and again; its command
on the server is a process of its own, which survives the connection and the
client. `Begin` names the file, `Connect`, `Provision`, `Execute` (the file
on the server is opened), `Await` (the exit status, 0 when none was
received), `Open`, `Read`, `Remove`; `Throw`, `Crash`; and the environment:
`Dump`, `Hang`, `Disturb`, `Tick`. `Hang` strikes a command that is running over
a live connection, be it the dump, one of the provisioning or the removal: `hung`
holds its client, whose step then waits, since `SshClient::execute` reads on
until the channel ends. It can go on only by the connection breaking, which
throws, or by being killed; the dump on the server hangs on all the same. A remote run takes no lock: two runs of one
second share both files, which `crossed` notes and the properties excuse, as
the stamp is the only thing that tells runs apart.

What goes wrong is counted by `faults`. Two of these things the code cannot
notice: a signal that ends the remote shell (libssh2 then reports the exit
status 0) and a full local disk (nobody looks at the stream). They happen in the
model, `unnoticed` remembers the names they struck, and `Delivered` and
`RemovedDelivered` excuse those names and no others; no document of the
repository promises better. Three switches are constants: `Pipefail` (of the five
commands only the MySQL one enables it; tar and an uncompressed dump need none),
`Silences`, a server that stops to answer, and `Hangs`, a command that never
ends.
libssh2 itself gives up on some waits after a minute; the model takes the
waits it does not give up on. The credentials file that provisioning uploads, and
the staging directory of the SQLite command, are left out.

### ProcessPipeline and BackupController

A slot is an engine with its children. `fds` says which of the three processes
holds which descriptor, and everything else follows from it: a reader ends when
no writer is left, a writer gets SIGPIPE when no reader is, the lock is free
when nobody holds it (`Locking`) or when the engine frees it for all (`Exit`,
that is `~FileLock()`). The engine's program counter is `point`: `Exec`,
`TakeLock` or `Skip`, or `OpenRestore` or `OpenImport`; `ForkFirst` and
`ForkLast`, or `ForkOnly`; `WaitFirst`, `WaitSecond`; and after a backup, where
`VALIDATE_GZIP` asks for it, `WaitCheck` of one more child, `gzip -t`, which
inherits the lock as the others do. `Fail` is any system call that throws. `dup2`, `close` and
`execv` of a child are one step with its fork, and so are the parent's closes
with the last fork: no other process waits for what is about to be closed but
for those steps themselves. A dump is `Size` blocks and a pipe holds
`Capacity`.

`BackupController` has one action for a thing the user does (`Run`, `RunPlan`,
`Cancel`) and one for each way the end of the engine is handled
(`FinishCancelled`, `Advance`, `Finish`, `FailedToStart`); between the end of a
process and its handler anything else may happen. `Reap` empties a slot. The
wizard compiles plans of up to three backups; the instance has one of two.
`step` and `meant` are history, of what the user meant; `stale` remembers the
two flags a launch that failed leaves behind, which is the disagreement
described in section 5.

### Cron and Triggers

`localtime_r` is the constant `Clock`, any function from minutes to the five
fields, so that leap years and changes of the clock are an instance's, and the
theorems hold for all. The search is a state machine, one `Advance` a minute.
A field is a sequence of parts (`star`, `number`, `range`, `junk`, each with a
step), which is what `parseField` tells apart.

`Triggers` computes, with the code's own operators (`Matrix`, `NamedDay`,
`Date`), what each service manager is given. The rows for launchd are the five
calls of the code's `add`, each of which multiplies the rows by the values of a
restricted field, in ascending order. How the manager reads it is the
external part: launchd joins Day and Weekday by OR, systemd by AND, cron by OR
unless one of them begins with an asterisk. Ranges and steps in a systemd
calendar are left aside, since a systemd calendar writes them differently.

### DiscoverySession

The session's `inbox` and `outbox` are its standard input and output. Handlers
run to their end but for `stopSession`, which waits up to two seconds and
delivers signals meanwhile: that is `stopping`, during which `Dispatch` goes on.
A question is asked only when its answer is not cached (`Load`, `Listed`), also by
the rest of `scan` once the old session is gone (`Scanned`): what that session
answered while it was being stopped is found in the caches and not asked for
again, until a later scan forgets it or the listing is refreshed.
A question is its kind; an answer carries its kind but no server and no session,
as in the code. `cache` remembers which server an answer came from, which the
code does not. `late` and `chosen` are history, for the two cases in which the
code cannot tell old answers from new ones.

## 3. Runs

Every run is exhaustive. Those marked ✗ state what a document of the
repository says, and TLC refutes it.

| Run | Instance | Shows |
|---|---|---|
| `same_job` | agent loop and timer, one lock, 2 dumps, 3 instants, 2 faults, removals that fail among them | mutual exclusion, whole artifacts, sidecars that contradict only where a run was cut short, is between two writes or writes no checksum, orphans only where a removal failed or was cut short, every run ends, and the refinement of `ArtifactStore` with its liveness |
| `two_jobs` | a checksummed database job and a service job with metadata, two locks, one directory | no cleanup takes what the other still needs; a run that returns has sealed its artifact |
| `full_disk` ✗ | as `same_job`, writes of sidecars may fail | a run returns over an empty sidecar |
| `restore` | a process that backs up and cleans, a session, one damaged artifact; file and service sources | alarms are founded, damage is found and not restored, only confirmed sessions write |
| `dry_run` ✗ | the same with the database sources | a dry run imports the dump |
| `schedules` | the GUI's verbs, a run, one kill | record, triggers (in the record's scope) and wish agree unless disturbed; removed triggers stay away |
| `removed` ✗ | the same | a run in flight brings a removed record back |
| `remote` | a scheduled run that removes its file, a manual one that provisions and keeps it, 2 instants, 2 faults, silence and hanging commands among them | success means a whole local backup, but for what the code cannot notice; nothing is removed before it is delivered; nothing is left that should not be; runs end unless their server falls silent or their command hangs |
| `remote_pipe` ✗ | as `remote`, `Pipefail` off | a failed PostgreSQL dump is delivered as a success |
| `controller` | 2 slots, dumps of 2 blocks through a pipe of 1, a plan of a compressed and a plain backup, restores and other commands | a cancellation strikes the operation it was meant for; plans go on only after success; 0 means the stream arrived; one writer of a temporary file; neither the controller nor a child waits for ever |
| `cron` | 277 expressions and 4 dates, asked at 14 instants, a calendar of 26 days, search window of 24 minutes | the next run is the first match; where the three calendars agree with it |
| `discovery` | 2 servers, 2 engines, 5 requests | the indicator counts and goes out; errors and databases belong to what is on display, and so do caches but for answers that came while the old session was stopped |

Why the bounds are enough. Every property speaks of one artifact, one record
or one file and of the processes at work on it; two processes are the
smallest number that can race, and a third could only repeat what one of
them did earlier, since every process starts again from idle. Two contents
tell "renewed" from "unchanged". With three instants there is one to
publish in, one at which the artifact is exactly as old as retention and one at
which it is past it; with two, runs share a stamp or do not. Two faults are one
to leave something behind and one to strike the run that meets it. `two_jobs`
has no faults: those are the question of `same_job`, and
`ReturnsSealed` and `ExpireOnlyOld` are about runs that do return.

In `controller`, two slots are the engine that runs and one that was killed
whose children are still there, which is all that can share a lock; a stream of
two blocks over a pipe of one makes a writer wait for its reader, and a file be
written in part. In `cron`, minutes have two seconds, hours two minutes, days
two hours, weeks three days and years two months of which the second has 3 days
instead of 2 in every third year: the search crosses the end of an hour, a day,
a month and a year, begins on and off a whole minute, and the window ends before
the next leap day. 24 minutes are the length of
a leap year of the instance, as 366 days are; `NextIsFirst` is proved for every
calendar and horizon.
In `discovery`, five requests are a scan, a selection, a second scan while an answer
is on its way and a selection made twice.

Deadlock is checked in every run but three, whose systems may stop: a search
that is done (`cron`), a user who has asked all he may (`discovery`), and two
clients of a server that has fallen silent or whose commands hang (`remote`).

Each property has a mutant, an operator beside the original whose comment
begins "Mutant:", which changes the code as a plausible slip would and which
the property catches.

Fairness. A run that has begun goes on (`WF(Step(p))`): the operating system
schedules it, and its children (dump, tar, gzip) terminate; nothing in the code
times them out. Nothing is fair about beginning a run, crashing or the clock.
For `RemoteBackup` a command on the server goes on as well (`WF(Dump(c))`), but
not one that has hung, for which `Dump` is disabled: nothing in the code ends the
wait for it. A silent link, and a hung command behind a link that is up, are
excused in `RunEnds` itself, by name; a hung command whose connection breaks is
not. In `BackupController` the event loop turns
(`WF(Handle)`), the kernel schedules each engine and each child, a dump
produces and a reader consumes; clicks and faults are nobody's duty, and
neither is a kill. In `DiscoverySession` the session and the event loop go on;
a session that runs and never answers is outside of it, since no timeout ends
the wait for it.

## 4. Proofs

A theorem holds for every value of the constants that satisfies the modules'
assumptions: for any number of processes, readers, clients and slots, any
contents, bounds and calendars. Each module of proofs has an inductive
invariant, `IInv` unless said otherwise, as none of the safety properties is
inductive alone; TLC checked each of them on the instances of section 3
before it was proved. What depends on a configuration says so as an assumption
of the theorem. The constants' assumptions are those of section 2 and these,
which keep apart what the code keeps apart: `None`, `Torn` and `Rotten` are no
contents, `None` and `Blank` no schedules, a day of the week is a number
below `Week`, and the range of a field is a pair of integers.

**`BackupManagerProofs`**

* `Invariance`. `LockInv`: who is inside `runOnce`
  holds its flock (two holders of one lock are then equal, which is
  `MutualExclusion`). `TargetInv`: a run writes names of its own series, hence,
  by `SeriesLockAssumption`, names nobody else writes at the time. `WholeInv`: a
  finished dump is whole, which needs that no other run truncates the temporary
  file, i.e. the two before. `AgeInv`: an artifact is no older than its stamp,
  and a run no older than `MaxRun`. `VictimInv`: what a cleanup is about to
  remove is expired by its *name*, so that a run that renews it meanwhile
  would have to be older than `MaxRun`: this carries the age, read some steps
  before, over to the removal.
* `TypeCorrect`, `MutualExclusion`, `WholeAlways` follow; `RetentionKept` is
  the action property `ExpireOnlyOld`, from `VictimInv` and the step.
* `SideInvariance`, on top of it, is about the sidecars. `RemovalInv`: whatever
  a cleanup is removing, at whichever of its three files it is, is older than
  every target, so the two never meet, and whether its removals succeed does not
  matter to that. `PresentInv`: a published target stays
  where it is until its run returns. `DigestInv`: the checksum a run has
  computed is still its artifact's. `SealedInv`: what it has written is in the
  sidecar. `OrphanInv`: who is answerable for a sidecar without an artifact.
  `MeantInv`: only a configuration with checksums writes one. `TornInv`: an empty
  sidecar is being written, or that was cut short.
* `OrphansAlways`, `MismatchAlways`; `SealedReturn` is the action property
  `ReturnsSealed`, assuming `~ShortWrites`, without which it is false
  (`full_disk`).
* `StoreRefined`: the initial states and steps are those of `ArtifactStore`
  under the mapping of `Store`. `LockKept`: each lock file is a `FileLock`, since
  the steps of the store are.

**`RestoreSessionProofs`** (invariants `RInv`, `HealedInv`, `AlarmInv`)

* `Invariance`, of `RInv`. `RotInv`: what is damaged holds no complete dump until
  it is replaced, and did before. `SettledInv`: a session that has met no run at
  work looks at an artifact nobody is replacing. `RottenInv`: such a session of an
  artifact that was damaged and sealed finds it so at each of its steps, and
  never gets past the comparison of checksums. `GuardInv`: what is about to write
  has passed the guards of its source. `AloneInv`: who found the destination empty
  finds it so when it writes, if nobody else restores.
* `DamageAlways`; `RefusalAlways`, assuming `Checked` (checksums are on);
  `ConfirmedAlways`, assuming one session at the most, or no filesystem sources;
  `DryRunAlways`, assuming sources that are files or services. Each of the last
  two is false without its assumption: of two filesystem restores that both found
  the destination empty the second writes over the first, as nothing locks a
  destination, and the databases import on a dry run (`dry_run`).
* `RunsUndisturbed`. `Damage` makes the invariants of `BackupManagerProofs` false,
  as an artifact may then hold what nobody wrote. They hold of `healed`, the
  artifacts with what `rot` remembers put back: `Whole` is `BackupManagerProofs`
  with `healed` for `artifact`, and every step of a run is a step of `Whole`,
  every other step leaves `Whole` alone. A run looks at the content of an
  artifact only between its rename and its sidecar, and `ApartInv` says that it
  has not been damaged by then: `Damage` strikes what is settled. Elsewhere runs
  ask only whether a file exists, which damage does not change. Hence
  `HealedInvariance` (`IInv` and `SideInv` of healed artifacts) and
  `StoreUndisturbed` (the directory, healed, is an `ArtifactStore`), without a
  second proof of either.
* `AlarmAlways`, assuming `~ShortWrites` and that jobs of one series agree on
  checksums. `AlarmInvariance`: a session that has met no run finds what it found
  before, archive, sidecar and checksum. What it finds of an undamaged artifact
  follows from `HealedInv` (`AtRest`): the archive is a whole dump by
  `PublishedWhole`; its sidecar is absent or agrees, by `MismatchOnlyUnsealed`,
  `TornInv` and `MeantInv`. It is false without either assumption: a sidecar
  written short condemns its artifact (`full_disk`), and so does the sidecar of an
  earlier run of the same second whose job writes one, when the later one's does
  not. The code does not enforce the second: each job chooses for itself whether
  it writes checksums, and the theorem is about directories whose jobs agree.

**`ScheduleStoreProofs`**, for any number of runs and kills

* `Invariance`: `TypeOK`, `CopyInv` (what a process is about to save is a
  schedule), `RunsRun` (runs never come to install), `AdminInv` (a verb that
  has still to install has not been noted as having removed, and between the
  two removals the user's trigger stays away) and `StoppedStays`.
* `TypeCorrect`, `StoppedAlways`: once a verb has removed every trigger none
  comes back, because only the administrator's verbs install.
* `StepInvariance`: as long as nothing is `disturbed`, either a verb changes
  the schedule alone and its stage explains how far record, triggers and wish
  have come (`VerbInv`), or there are only runs (`QuietInv`): then each copy
  that may still be written agrees with the record, its scope, the wish and every
  other copy, and triggers are missing only where a run is turning its one-time
  schedule off. `InStepAlways` is what is left of it when nobody is at work.
  `RemovedUndisturbed`: the disagreement of `removed` needs a run that crosses a
  verb, a refusal or a kill.

**`RemoteBackupProofs`**

* `Invariance`: `ShellInv` (how far a client and its command can be apart),
  `ClaimInv` (who shares a name has crossed it; who writes a file no client
  names any more is the command of a run that failed), `LeftMeant`, `CopyInv`
  (what has been read is what the server has) and, where `Pipefail` is on,
  `SoundInv` (a file that a client goes on to open is a whole dump) and
  `Delivered`.
* `TypeCorrect`, `LeftAlways`, `RemovedAlways`; `DeliveredAlways` assumes
  `Pipefail`, without which it is false (`remote_pipe`). `RemovedDelivered`
  needs no such assumption: a torn file may be removed.

**`BackupControllerProofs`**, for any number of slots, any size of a dump,
capacity of a pipe and plans

* `Invariance`. Of each slot (`SlotInv`): what the engine and each child may
  have open at each point, so that a child that has the output has the lock's
  descriptor; which children can be there; that no block is lost or made up
  (what was sent is in the pipe or has arrived); `Streamed`: the first child
  holds the write end while it has something to send, so that the second cannot
  take the end of the pipe for the end of the stream. Across slots, `LockExcl`:
  one engine with its children has the flock, also when the engine is dead. Of
  the controller, `ControlInv`: what busy, plan, index and cancelled stand for,
  and what a failed launch leaves of them.
* `TypeCorrect`, `ExitAlways`, `OneWriterAlways`, `CancelAlways`, and the action
  property `PlanAlways`. `ExitTrue` and `OneWriter` are properties of
  `ProcessPipeline`, proved here of the engines the controller starts and kills.
* `LockMade`: the engine of whose processes one has the lock's descriptor is the
  owner of a `FileLock`. A step takes the lock only when nobody has the
  descriptor (`TakeLock`); forks, exits, `LOCK_UN` and kills only ever take
  descriptors away from an engine or spread them among its own processes. With
  `LockKept` this joins the two views of the lock, that of `BackupManager`, whose
  `Orphan` keeps it, and that of the descriptors, which say why.

**`DiscoverySessionProofs`**

* `Invariance`: `CountInv` (what is in the pipes has been counted),
  `ServesInv` (a session that nobody stops talks to the target), `DiedInv`, and
  `SelectedInv`: the last question about databases under way is about the engine
  selected, or none is and its answer has come, unless a scan or a failure
  overtook the selection. The order of the pipes carries it: an earlier
  engine's answer may be shown, and is then overwritten.
* `TypeCorrect`, `BusyTrue`, `CacheAlways`, `AlarmAlways`, `SettledAlways`.
  `CacheAlways` excepts what was answered while the old session was stopped for as
  long as it stays cached;
  without the exception it is false, as section 5 says.

**`CronProofs` and `TriggersProofs`**, for every calendar, every range of the
fields, every expression and every instant

* `Invariance`: `TypeOK` with `SearchInv` (the candidate is the first minute
  plus the minutes passed, and none of those matched) and `NextIsFirst`, which
  says nothing of a search that has not ended and hence needs `SearchInv` to be
  inductive. The two arithmetic lemmas show that `(from / 60 + 1) * 60` is the
  first minute strictly after `from` and that the window is the horizon's.
* `TypeCorrect`; `NextShown`: what is shown is the first match, and a dash only
  if no minute of the window matches.
* `CrontabAlways`, `SystemdAlways`: from `NextShown` and a lemma for each
  notation that a minute fires under it exactly if the expression matches; for
  systemd that is `7 % 7` being the Sunday both mean. One-time schedules need
  `OnceShown`, that the run shown is the date.
* `LaunchdAlways`. `Expanded`: one call of `add` makes the rows cover a minute
  exactly if they did and the field matches. The k-th row of the product comes
  from a row and a value by the quotient and the remainder of k, and each such
  pair has its k; that every value of a field has a place in the ascending list
  is the one thing that would need induction, and comes instead from counting:
  the map from values to places is injective between finite sets of equal size.
  `MatrixExpanded` is five uses of it, `LaunchdMatches` then the OR of Day and
  Weekday, and `LaunchdDate` the one row of a one-time schedule.

Only model-checked, and why:

* liveness (`RunEnds`, `BusyEnds`, `ChildrenEnd`, the fairness of
  `ArtifactStore`): it rests on fairness and `ENABLED`, which TLAPS does not
  support as used here;
* the disagreements of section 5, which are counterexamples.

## 5. Where code and documents disagree

* `full_disk`: `writeChecksumSidecar` (`src/core/backup_manager.cpp:289`) does not
  look at its stream; a run reports success over an empty sidecar, which
  condemns a good artifact.
* `dry_run`: `DatabaseBackupSource::restore` (`src/core/database_backup_source.cpp:149`)
  never reads `dryRun`.
* `removed`: a run saves the schedule it loaded (`src/cli/cli_app.cpp:464`) and so
  recreates one removed meanwhile.
* `remote_pipe`: the remote PostgreSQL command (`src/remote/remote_client.cpp:197`)
  has no pipefail.

Met while modelling, without a run of their own; the properties of the passing
runs name each as the exception they make:

* `REMOTE_COMMAND_TIMEOUT_SECONDS` ("Timeout for remote process execution",
  `src/README.md:246`) is parsed (`src/core/backup_config.cpp:306`), must be
  positive, and is read by nothing: the loop of `SshClient::execute`
  (`src/remote/ssh_client.cpp:468`) has no deadline, so a command that hangs over
  a live connection holds its run for ever (`RunEnds`, `Hang`).
* `REMOTE_CONNECT_TIMEOUT_SECONDS` ("Timeout for SSH handshake and
  authentication", `src/README.md:245`) is stored (`src/remote/remote_client.cpp:431`)
  and never read; a server that falls silent holds a run for ever (`RunEnds`).
* When the engine of the GUI cannot be started, `m_planActive` and
  `m_cancelled` survive it (`src/gui/backup_controller.cpp:51`): the next operation
  that succeeds goes on with the old plan, or is reported as cancelled
  (`PlanKept`, `CancelMeant`).
* A crontab line `0 0 */2 * 1`, a systemd calendar of a day list or of two
  restricted days, a launchd calendar of more than 366 rows and one-time
  schedules beyond a year fire at other times than the next run shown
  (`CrontabAsShown`, `SystemdAsShown`, `LaunchdAsShown`).
* `setTarget` "starts a fresh discovery session"
  (`src/gui/inventory_view_model.h:33`), but clears the caches before it stops the
  old session (`src/gui/inventory_view_model.cpp:87`, `:66`), whose last answers
  fill them again. The loaders ask nothing that is cached (`:111`, `:134`), so the
  new server is never asked and the former one's answer stays on offer
  (`CacheOfTarget`, `late`).
* A scan keeps the databases selected on the former server
  (`src/gui/qml/BackupWizard.qml:190`, `SettledDatabases`).

## 6. Plan

Built first, because a backup lost or torn is the worst that can happen:
`ArtifactStore`, `BackupManager` and its proofs; `RestoreSession`;
`ScheduleStore` and its proofs; `RemoteBackup`; `ProcessPipeline` with
`BackupController`; `Cron` with its proofs, `Triggers`; `DiscoverySession`; then
the proofs of the sidecars, of `InStep` and of the five components that had
none; last `LaunchdAsShown`, `AlarmFounded` and the refinements of `FileLock`. All
of this is done. What could come next:

1. `Confirmed` for any number of filesystem sessions that do not overlap; the
   assumption of one session is stronger than it need be.
2. A refinement of the engine by what the controller relies on: an operation
   that starts, may be cancelled, and ends once, but for a launch that fails.

Not modelled, though stateful: the queue of `ScheduleViewModel` and the test of
`ServersViewModel`, which share one hazard (a process that cannot be started
leaves both waiting; hazard at `src/gui/schedule_view_model.cpp:15`); the history's
renames and deletes; the configurations the wizard writes to fixed paths; a scheduled
run that was skipped over a taken lock and is recorded as completed.

Not to be modelled: parsing of configurations and arguments, JSON output, SHA-256's
rounds, inventory queries, the logger and QML, which keep no state another
part could find in disorder, and which the repository's tests exercise directly;
the keychain and the service managers, which are the operating system's.
