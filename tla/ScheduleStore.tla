---------------------------- MODULE ScheduleStore ----------------------------
(***************************************************************************)
(* One schedule: its record (src/core/scheduler.cpp), its trigger in the   *)
(* operating system and the processes of `vaultium schedule <verb>`        *)
(* (src/cli/cli_app.cpp) that change them.                                 *)
(*                                                                         *)
(* The administrator's verbs come one at a time: the GUI queues them       *)
(* (src/gui/schedule_view_model.cpp), or one person types them.  The       *)
(* trigger starts runs beside them.  Nothing locks the record: every verb  *)
(* works on the copy it loaded.  A record is saved by truncating its file  *)
(* and writing it; Blank is the file between the two, which parses as a    *)
(* schedule without an id.  A trigger lives in the user's scope or in the  *)
(* system's, where removing or installing it asks for elevation.           *)
(***************************************************************************)
EXTENDS Naturals

CONSTANTS
    Admin,       \* the process of the administrator's current verb
    Runs,        \* the processes the trigger starts
    None,        \* no file, nothing loaded
    Blank,       \* a truncated record
    UserCron,    \* whether the user's triggers are lines of a crontab
    MaxCrashes   \* bound: this many processes are killed

ASSUME ProcessAssumption == Admin \notin Runs
ASSUME LimitAssumption == UserCron \in BOOLEAN /\ MaxCrashes \in Nat

Processes == Runs \union {Admin}
Scopes == {"user", "system"}
Schedule == [once : BOOLEAN, enabled : BOOLEAN, scope : Scopes,
             lastStatus : {"pending", "completed", "failed"}]

ASSUME NothingAssumption == None # Blank /\ None \notin Schedule /\ Blank \notin Schedule

VARIABLES
    record,     \* the .schedule file
    trigger,    \* the scopes in which a trigger is installed
    pc,         \* what each process does next
    verb,       \* the verb it executes
    copy,       \* the schedule it loaded or built
    wish,       \* history: "absent", "off" or "on", as last asked for
    disturbed,  \* history: a run crossed a verb, elevation was refused, or
                \* a process was killed
    stopped,    \* history: the last verb removed every trigger
    crashes     \* how many processes were killed

files == <<record, trigger>>
procs == <<pc, verb, copy>>
history == <<wish, disturbed, stopped, crashes>>
vars == <<files, procs, history>>

Init ==
    /\ record = None
    /\ trigger = {}
    /\ pc = [p \in Processes |-> "idle"]
    /\ verb = [p \in Processes |-> "none"]
    /\ copy = [p \in Processes |-> None]
    /\ wish = "absent"
    /\ disturbed = FALSE
    /\ stopped = FALSE
    /\ crashes = 0

Idle(p) == pc[p] = "idle"

Begin(p, v, c, first) ==
    /\ Idle(p)
    /\ pc' = [pc EXCEPT ![p] = first]
    /\ verb' = [verb EXCEPT ![p] = v]
    /\ copy' = [copy EXCEPT ![p] = c]
    /\ UNCHANGED <<files, crashes>>

Goto(p, from, to) ==
    /\ pc[p] = from
    /\ pc' = [pc EXCEPT ![p] = to]
    /\ verb' = [verb EXCEPT ![p] = IF to = "idle" THEN "none" ELSE @]

\* The process goes on with the copy it has, and ends without one.
Proceed(p, from, to) ==
    /\ Goto(p, from, to)
    /\ copy' = [copy EXCEPT ![p] = IF to = "idle" THEN None ELSE @]

-----------------------------------------------------------------------------
(***************************************************************************)
(* The verbs begin.  Each but remove loads the record.                     *)
(***************************************************************************)

\* An administrator's verb starts.  One that rewrites or removes the record
\* while no run is in flight wipes out what disturbed it before.
Asks(w, anew) ==
    /\ wish' = w
    /\ disturbed' = IF \A r \in Runs : Idle(r) THEN disturbed /\ ~anew ELSE TRUE
    /\ stopped' = FALSE

\* What follows a saved record, and what repair does.
TriggerStep(c) == IF c.enabled THEN "install" ELSE "uninstallUser"

\* save: the fields the flags name, over those of the record if it has one.
\* A one-time schedule that is off has no next run and is not accepted.
BeginSave ==
    \E s \in Schedule :
        /\ s.once => s.enabled
        /\ s.lastStatus = IF record \in Schedule THEN record.lastStatus ELSE "pending"
        /\ Begin(Admin, "save", s, "truncate")
        /\ Asks(IF s.enabled THEN "on" ELSE "off", TRUE)

\* set-enabled of a blank record sets the flag of a schedule without an id.
BeginSetEnabled ==
    /\ record # None
    /\ \E b \in BOOLEAN :
        /\ IF record = Blank
           THEN Begin(Admin, "set-enabled", Blank, "strayTrigger")
           ELSE Begin(Admin, "set-enabled", [record EXCEPT !.enabled = b], "truncate")
        /\ Asks(IF b THEN "on" ELSE "off", FALSE)

BeginRepair ==
    /\ record # None
    /\ Begin(Admin, "repair", record,
             IF record = Blank THEN "strayTrigger" ELSE TriggerStep(record))
    /\ Asks(wish, FALSE)

\* remove does not load the record.
BeginRemove ==
    /\ Begin(Admin, "remove", None, "uninstallUser")
    /\ Asks("absent", TRUE)

\* run, by the trigger or as a verb of the administrator.  It does not ask
\* whether the schedule is enabled.
BeginRun(p) ==
    /\ p \in Runs => trigger # {}
    /\ record # None
    /\ Begin(p, "run", record, "backup")
    /\ disturbed' = (disturbed \/ (p \in Runs /\ verb[Admin] \notin {"none", "run"}))
    /\ UNCHANGED <<wish, stopped>>

-----------------------------------------------------------------------------
(***************************************************************************)
(* A run.                                                                  *)
(***************************************************************************)

\* Mutant: a run notes that it is at work, in a word the list does not know.
BackupWorking(p) ==
    /\ copy[p] # Blank
    /\ Goto(p, "backup", "truncate")
    /\ copy' = [copy EXCEPT ![p] = [@ EXCEPT !.lastStatus = "running"]]
    /\ UNCHANGED <<files, history>>

\* What a run makes of its schedule: a one-time schedule turns itself off.
Ran(c, s) == [c EXCEPT !.lastStatus = s, !.enabled = @ /\ ~c.once]

\* The backup succeeds or fails.  A schedule without an id has no backup to
\* make, and is saved elsewhere.
Backup(p) ==
    /\ \/ /\ copy[p] = Blank
          /\ Proceed(p, "backup", "idle")
       \/ /\ copy[p] # Blank
          /\ Goto(p, "backup", IF copy[p].once THEN "uninstallUser" ELSE "truncate")
          /\ \E s \in {"completed", "failed"} : copy' = [copy EXCEPT ![p] = Ran(@, s)]
    /\ UNCHANGED <<files, history>>

-----------------------------------------------------------------------------
(***************************************************************************)
(* The record and the trigger.                                             *)
(***************************************************************************)

\* ofstream { path, trunc }
Truncate(p) ==
    /\ Proceed(p, "truncate", "write")
    /\ record' = Blank
    /\ UNCHANGED <<trigger, history>>

\* Mutant: a run saves the schedule as it was loaded, still enabled.
WriteLoaded(p) ==
    /\ Proceed(p, "write", IF verb[p] = "run" THEN "idle" ELSE TriggerStep(copy[p]))
    /\ record' = [copy[p] EXCEPT !.enabled = @ \/ verb[p] = "run"]
    /\ UNCHANGED <<trigger, history>>

\* file << serializeSchedule(schedule)
Write(p) ==
    /\ Proceed(p, "write", IF verb[p] = "run" THEN "idle" ELSE TriggerStep(copy[p]))
    /\ record' = copy[p]
    /\ wish' = IF verb[p] = "run" /\ copy[p].once THEN "off" ELSE wish
    /\ UNCHANGED <<trigger, disturbed, stopped, crashes>>

\* installTrigger, in the scope of the schedule and nowhere else; it may
\* fail or be refused, and the verb reports that.
Install(p) ==
    /\ Proceed(p, "install", "idle")
    /\ \/ /\ trigger' = trigger \union {copy[p].scope}
          /\ UNCHANGED disturbed
       \/ /\ UNCHANGED trigger
          /\ disturbed' = TRUE
    /\ UNCHANGED <<record, wish, stopped, crashes>>

\* uninstallTrigger: the user's timer and crontab lines, whose removal
\* nobody checks, and after them the system's.
UninstallUser(p) ==
    /\ Proceed(p, "uninstallUser", "uninstallSystem")
    /\ trigger' = trigger \ {"user"}
    /\ UNCHANGED <<record, history>>

\* What a process does when the triggers are gone.
AfterUninstall(p) ==
    CASE verb[p] = "run" -> "truncate"
      [] verb[p] = "remove" -> "removeRecord"
      [] OTHER -> "idle"

\* Mutant: only a system schedule has its system trigger removed.
UninstallSystemByScope(p) ==
    /\ Proceed(p, "uninstallSystem", AfterUninstall(p))
    /\ trigger' = IF copy[p] # None /\ copy[p].scope = "user" THEN trigger
                  ELSE trigger \ {"system"}
    /\ stopped' = (stopped \/ p = Admin)
    /\ UNCHANGED <<record, wish, disturbed, crashes>>

\* The system's timer, if it is there.  Elevation may be refused, and the
\* verb reports success all the same.
UninstallSystem(p) ==
    /\ Proceed(p, "uninstallSystem", AfterUninstall(p))
    /\ \/ /\ trigger' = trigger \ {"system"}
          /\ stopped' = (stopped \/ (p = Admin /\ verb[p] # "run"))
          /\ UNCHANGED disturbed
       \/ /\ "system" \in trigger
          /\ UNCHANGED <<trigger, stopped>>
          /\ disturbed' = TRUE
    /\ UNCHANGED <<record, wish, crashes>>

\* removeSchedule
RemoveRecord(p) ==
    /\ Proceed(p, "removeRecord", "idle")
    /\ record' = None
    /\ UNCHANGED <<trigger, history>>

\* set-enabled or repair of a schedule without an id: its crontab marker is
\* a prefix of every other, so that all lines of the crontab go.
StrayTrigger(p) ==
    /\ Proceed(p, "strayTrigger", "idle")
    /\ trigger' = IF UserCron THEN trigger \ {"user"} ELSE trigger
    /\ UNCHANGED <<record, history>>

\* A process is killed: by a signal, or by launchd when a run unloads the
\* job it belongs to.
Crash(p) ==
    /\ ~Idle(p)
    /\ crashes < MaxCrashes
    /\ crashes' = crashes + 1
    /\ Proceed(p, pc[p], "idle")
    /\ disturbed' = TRUE
    /\ UNCHANGED <<files, wish, stopped>>

-----------------------------------------------------------------------------
Step(p) ==
    \/ Backup(p) \/ Truncate(p) \/ Write(p) \/ Install(p) \/ UninstallUser(p)
    \/ UninstallSystem(p) \/ RemoveRecord(p) \/ StrayTrigger(p)

Next ==
    \/ BeginSave \/ BeginSetEnabled \/ BeginRepair \/ BeginRemove
    \/ \E p \in Processes : BeginRun(p) \/ Step(p) \/ Crash(p)

Spec == Init /\ [][Next]_vars /\ \A p \in Processes : WF_vars(Step(p))

-----------------------------------------------------------------------------
(***************************************************************************)
(* Properties.                                                             *)
(***************************************************************************)

\* The values the variables take.
TypeOK ==
    /\ record \in Schedule \union {None, Blank}
    /\ trigger \subseteq Scopes
    /\ pc \in [Processes -> {"idle", "backup", "truncate", "write", "install",
                             "uninstallUser", "uninstallSystem", "removeRecord",
                             "strayTrigger"}]
    /\ verb \in [Processes -> {"none", "run", "save", "set-enabled", "repair",
                               "remove"}]
    /\ copy \in [Processes -> Schedule \union {None, Blank}]
    /\ wish \in {"absent", "off", "on"}
    /\ disturbed \in BOOLEAN /\ stopped \in BOOLEAN /\ crashes \in 0 .. MaxCrashes

\* When nothing is in flight, the record and the triggers say what was last
\* asked for, and a one-time schedule that has run is off: a schedule that is
\* on has a trigger in the scope its record names, one that is off has none
\* in any.  Unless a run crossed a verb, elevation was refused or a process
\* was killed since the record was last saved or removed in peace.  A second
\* trigger, in the scope the schedule had before, stays: nothing removes it
\* while the schedule is on.
InStep ==
    (\A p \in Processes : Idle(p)) /\ ~disturbed =>
        /\ wish = "absent" <=> record = None
        /\ record # None => record # Blank /\ record.enabled = (wish = "on")
        /\ IF wish = "on" THEN record.scope \in trigger ELSE trigger = {}

\* "disable/delete removed the trigger": once a verb has removed every
\* trigger, no run that is still in flight and no crash brings one back, in
\* whichever scope the schedule was installed before.
StoppedStays == stopped => trigger = {}

\* "Deletes a schedule": a schedule stays deleted until one is saved again.
RemovedStaysRemoved == wish = "absent" /\ Idle(Admin) => record = None

=============================================================================
