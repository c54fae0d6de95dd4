------------------------- MODULE ScheduleStoreProofs -------------------------
(***************************************************************************)
(* What holds of ScheduleStore for any number of runs and of crashes.      *)
(***************************************************************************)
EXTENDS ScheduleStore, TLAPS

-----------------------------------------------------------------------------
\* Runs only run, and only the administrator's verbs come to install.
RunsRun ==
    \A r \in Runs :
        /\ verb[r] \in {"none", "run"}
        /\ pc[r] \notin {"install", "removeRecord", "strayTrigger"}
        /\ verb[r] = "none" => pc[r] = "idle"

\* What an administrator's verb still has to install or remove, it has not
\* been noted as removed; between the two removals the user's trigger stays
\* away.
AdminInv ==
    /\ verb[Admin] = "none" => pc[Admin] = "idle"
    /\ verb[Admin] \notin {"none", "run"} => ~stopped \/ pc[Admin] = "removeRecord"
    /\ pc[Admin] \in {"install", "strayTrigger"} => verb[Admin] # "run"
    /\ pc[Admin] = "removeRecord" => verb[Admin] = "remove"
    /\ pc[Admin] = "uninstallSystem" => "user" \notin trigger

\* The copy a process is about to save is a schedule.
CopyInv ==
    \A p \in Processes :
        /\ pc[p] \in {"truncate", "write", "install"} => copy[p] \in Schedule
        /\ pc[p] = "backup" => verb[p] = "run" /\ copy[p] \in Schedule \union {Blank}
        /\ verb[p] = "run" /\ pc[p] \in {"uninstallUser", "uninstallSystem"}
            => copy[p] \in Schedule

IInv == TypeOK /\ CopyInv /\ RunsRun /\ AdminInv /\ StoppedStays

-----------------------------------------------------------------------------
(***************************************************************************)
(* The invariant behind InStep, for as long as nothing is disturbed.       *)
(***************************************************************************)

\* A verb that changes the schedule is in flight.
Changing == verb[Admin] \notin {"none", "run"}

\* Such a verb is alone, and heads for what was asked for: the record it has
\* written says so, and what it does to the triggers will.
VerbInv ==
    /\ \A r \in Runs : Idle(r)
    /\ verb[Admin] = "remove" =>
        /\ wish = "absent"
        /\ pc[Admin] \in {"uninstallUser", "uninstallSystem", "removeRecord"}
        /\ pc[Admin] = "removeRecord" => trigger = {}
    /\ verb[Admin] # "remove" =>
        /\ wish # "absent"
        /\ copy[Admin] \in Schedule /\ (copy[Admin].enabled <=> wish = "on")
        /\ \/ pc[Admin] \in {"truncate", "write"}
           \/ pc[Admin] = "install" /\ record = copy[Admin] /\ wish = "on"
           \/ pc[Admin] \in {"uninstallUser", "uninstallSystem"}
                /\ record = copy[Admin] /\ wish = "off"

\* A run of a one-time schedule is about to turn it off.
TurningOff(p) ==
    pc[p] \in {"uninstallSystem", "truncate", "write"} /\ copy[p].once

\* What a run in flight has loaded, or is about to write, agrees with the
\* record, with the other runs and with what was asked for.
InFlight(p) == ~Idle(p) /\ copy[p] # Blank
Agrees(p) ==
    /\ record \in Schedule => record.once = copy[p].once /\ record.scope = copy[p].scope
    /\ \A q \in Processes : InFlight(q) => /\ copy[q].once = copy[p].once
                                          /\ copy[q].scope = copy[p].scope
    /\ wish = "on" => copy[p].scope \in trigger \/ \E q \in Processes : TurningOff(q)
    /\ ~copy[p].once => (copy[p].enabled <=> wish = "on")
    /\ copy[p].once /\ pc[p] # "backup" => ~copy[p].enabled
    /\ copy[p].once /\ pc[p] \in {"truncate", "write"} => trigger = {}
    /\ pc[p] = "uninstallUser" => copy[p].once
    /\ pc[p] = "uninstallSystem" => copy[p].once /\ "user" \notin trigger

\* Otherwise there are only runs, of one schedule, and only one that turns
\* its schedule off has taken the triggers ahead of the record.
QuietInv ==
    /\ wish = "absent" <=> record = None
    /\ wish = "absent" => \A p \in Processes : Idle(p)
    /\ record = Blank => \E p \in Processes : pc[p] = "write"
    /\ record \in Schedule => (record.enabled <=> wish = "on")
    /\ wish # "on" => trigger = {}
    /\ record \in Schedule /\ wish = "on" =>
        record.scope \in trigger \/ \E p \in Processes : TurningOff(p)
    /\ \A p \in Processes : InFlight(p) => Agrees(p)

StepInv == ~disturbed => IF Changing THEN VerbInv ELSE QuietInv

-----------------------------------------------------------------------------
\* The copies the verbs and a run make of a schedule are schedules.
LEMMA Copies ==
    ASSUME NEW s \in Schedule, NEW b \in BOOLEAN, NEW t \in {"completed", "failed"}
    PROVE  /\ [s EXCEPT !.enabled = b] \in Schedule
           /\ Ran(s, t) \in Schedule
BY DEF Schedule, Ran

\* Every step keeps the types.
LEMMA NextType ==
    ASSUME TypeOK, CopyInv, [Next]_vars
    PROVE  TypeOK'
<1> USE ProcessAssumption, NothingAssumption, LimitAssumption
        DEF Processes, Idle, Begin, Goto, Proceed, files, procs, history, TypeOK, Scopes, CopyInv
<1>1. ASSUME BeginSave PROVE TypeOK'
  <2>1. PICK c \in Schedule : /\ Begin(Admin, "save", c, "truncate")
                             /\ Asks(IF c.enabled THEN "on" ELSE "off", TRUE)
    BY <1>1 DEF BeginSave
  <2> QED
    BY <2>1 DEF Asks
<1>2. ASSUME BeginSetEnabled PROVE TypeOK'
  <2>1. PICK b \in BOOLEAN :
          IF record = Blank
          THEN Begin(Admin, "set-enabled", Blank, "strayTrigger")
          ELSE Begin(Admin, "set-enabled", [record EXCEPT !.enabled = b], "truncate")
    BY <1>2 DEF BeginSetEnabled
  <2>2. record # Blank => [record EXCEPT !.enabled = b] \in Schedule
    BY <1>2, Copies DEF BeginSetEnabled
  <2>3. /\ wish' \in {"on", "off"} /\ disturbed' \in BOOLEAN /\ stopped' \in BOOLEAN
    BY <1>2 DEF BeginSetEnabled, Asks
  <2> QED
    BY <2>1, <2>2, <2>3
<1>3. ASSUME BeginRepair PROVE TypeOK'
  BY <1>3 DEF BeginRepair, Asks, TriggerStep
<1>4. ASSUME BeginRemove PROVE TypeOK'
  BY <1>4 DEF BeginRemove, Asks
<1>5. ASSUME NEW p \in Processes, BeginRun(p) PROVE TypeOK'
  BY <1>5 DEF BeginRun
<1>6. ASSUME NEW p \in Processes, Backup(p) PROVE TypeOK'
  <2>1. CASE copy[p] = Blank
    BY <1>6, <2>1 DEF Backup
  <2>2. CASE copy[p] # Blank
    <3>1. PICK t \in {"completed", "failed"} :
            /\ Goto(p, "backup", IF copy[p].once THEN "uninstallUser" ELSE "truncate")
            /\ copy' = [copy EXCEPT ![p] = Ran(@, t)]
      BY <1>6, <2>2 DEF Backup
    <3>2. copy[p] \in Schedule /\ verb[p] = "run"
      BY <2>2, <3>1
    <3>3. Ran(copy[p], t) \in Schedule
      BY <3>2, Copies
    <3> QED
      BY <1>6, <3>1, <3>2, <3>3 DEF Backup
  <2> QED
    BY <2>1, <2>2
<1>7. ASSUME NEW p \in Processes, Truncate(p) PROVE TypeOK'
  BY <1>7 DEF Truncate
<1>8. ASSUME NEW p \in Processes, Write(p) PROVE TypeOK'
  BY <1>8 DEF Write, TriggerStep
<1>9. ASSUME NEW p \in Processes, Install(p) PROVE TypeOK'
  BY <1>9 DEF Install, Schedule
<1>10. ASSUME NEW p \in Processes, UninstallUser(p) PROVE TypeOK'
  BY <1>10 DEF UninstallUser
<1>11. ASSUME NEW p \in Processes, UninstallSystem(p) PROVE TypeOK'
  BY <1>11 DEF UninstallSystem, AfterUninstall
<1>12. ASSUME NEW p \in Processes, RemoveRecord(p) PROVE TypeOK'
  BY <1>12 DEF RemoveRecord
<1>13. ASSUME NEW p \in Processes, StrayTrigger(p) PROVE TypeOK'
  BY <1>13 DEF StrayTrigger
<1>14. ASSUME NEW p \in Processes, Crash(p) PROVE TypeOK'
  BY <1>14 DEF Crash
<1>15. CASE UNCHANGED vars
  BY <1>15 DEF vars
<1> QED
  BY <1>1, <1>2, <1>3, <1>4, <1>5, <1>6, <1>7, <1>8, <1>9, <1>10, <1>11, <1>12, <1>13, <1>14, <1>15 DEF Next, Step

\* A process that has loaded a schedule keeps it until it ends.
LEMMA NextCopy ==
    ASSUME TypeOK, CopyInv, [Next]_vars
    PROVE  CopyInv'
<1> USE ProcessAssumption, NothingAssumption, LimitAssumption
        DEF Processes, Idle, Begin, Goto, Proceed, files, procs, history, TypeOK, CopyInv
<1>1. ASSUME BeginSave PROVE CopyInv'
  BY <1>1 DEF BeginSave, Asks
<1>2. ASSUME BeginSetEnabled PROVE CopyInv'
  <2>1. PICK b \in BOOLEAN :
          IF record = Blank
          THEN Begin(Admin, "set-enabled", Blank, "strayTrigger")
          ELSE Begin(Admin, "set-enabled", [record EXCEPT !.enabled = b], "truncate")
    BY <1>2 DEF BeginSetEnabled
  <2>2. record # Blank => [record EXCEPT !.enabled = b] \in Schedule
    BY <1>2, Copies DEF BeginSetEnabled
  <2> QED
    BY <2>1, <2>2
<1>3. ASSUME BeginRepair PROVE CopyInv'
  BY <1>3 DEF BeginRepair, Asks, TriggerStep
<1>4. ASSUME BeginRemove PROVE CopyInv'
  BY <1>4 DEF BeginRemove, Asks
<1>5. ASSUME NEW p \in Processes, BeginRun(p) PROVE CopyInv'
  BY <1>5 DEF BeginRun
<1>6. ASSUME NEW p \in Processes, Backup(p) PROVE CopyInv'
  <2>1. CASE copy[p] = Blank
    BY <1>6, <2>1 DEF Backup
  <2>2. CASE copy[p] # Blank
    <3>1. PICK t \in {"completed", "failed"} :
            /\ Goto(p, "backup", IF copy[p].once THEN "uninstallUser" ELSE "truncate")
            /\ copy' = [copy EXCEPT ![p] = Ran(@, t)]
      BY <1>6, <2>2 DEF Backup
    <3>2. copy[p] \in Schedule /\ verb[p] = "run"
      BY <2>2, <3>1
    <3>3. Ran(copy[p], t) \in Schedule
      BY <3>2, Copies
    <3> QED
      BY <1>6, <3>1, <3>2, <3>3 DEF Backup
  <2> QED
    BY <2>1, <2>2
<1>7. ASSUME NEW p \in Processes, Truncate(p) PROVE CopyInv'
  BY <1>7 DEF Truncate
<1>8. ASSUME NEW p \in Processes, Write(p) PROVE CopyInv'
  BY <1>8 DEF Write, TriggerStep
<1>9. ASSUME NEW p \in Processes, Install(p) PROVE CopyInv'
  BY <1>9 DEF Install
<1>10. ASSUME NEW p \in Processes, UninstallUser(p) PROVE CopyInv'
  BY <1>10 DEF UninstallUser
<1>11. ASSUME NEW p \in Processes, UninstallSystem(p) PROVE CopyInv'
  BY <1>11 DEF UninstallSystem, AfterUninstall
<1>12. ASSUME NEW p \in Processes, RemoveRecord(p) PROVE CopyInv'
  BY <1>12 DEF RemoveRecord
<1>13. ASSUME NEW p \in Processes, StrayTrigger(p) PROVE CopyInv'
  BY <1>13 DEF StrayTrigger
<1>14. ASSUME NEW p \in Processes, Crash(p) PROVE CopyInv'
  BY <1>14 DEF Crash
<1>15. CASE UNCHANGED vars
  BY <1>15 DEF vars
<1> QED
  BY <1>1, <1>2, <1>3, <1>4, <1>5, <1>6, <1>7, <1>8, <1>9, <1>10, <1>11, <1>12, <1>13, <1>14, <1>15 DEF Next, Step

\* No step makes a run install a trigger.
LEMMA NextRuns ==
    ASSUME TypeOK, RunsRun, [Next]_vars
    PROVE  RunsRun'
<1> USE ProcessAssumption, NothingAssumption, LimitAssumption
        DEF Processes, Idle, Begin, Goto, Proceed, files, procs, history, TypeOK, RunsRun
<1>1. ASSUME BeginSave PROVE RunsRun'
  BY <1>1 DEF BeginSave, Asks
<1>2. ASSUME BeginSetEnabled PROVE RunsRun'
  BY <1>2 DEF BeginSetEnabled, Asks
<1>3. ASSUME BeginRepair PROVE RunsRun'
  BY <1>3 DEF BeginRepair, Asks, TriggerStep
<1>4. ASSUME BeginRemove PROVE RunsRun'
  BY <1>4 DEF BeginRemove, Asks
<1>5. ASSUME NEW p \in Processes, BeginRun(p) PROVE RunsRun'
  BY <1>5 DEF BeginRun
<1>6. ASSUME NEW p \in Processes, Backup(p) PROVE RunsRun'
  BY <1>6 DEF Backup
<1>7. ASSUME NEW p \in Processes, Truncate(p) PROVE RunsRun'
  BY <1>7 DEF Truncate
<1>8. ASSUME NEW p \in Processes, Write(p) PROVE RunsRun'
  BY <1>8 DEF Write, TriggerStep
<1>9. ASSUME NEW p \in Processes, Install(p) PROVE RunsRun'
  BY <1>9 DEF Install
<1>10. ASSUME NEW p \in Processes, UninstallUser(p) PROVE RunsRun'
  BY <1>10 DEF UninstallUser
<1>11. ASSUME NEW p \in Processes, UninstallSystem(p) PROVE RunsRun'
  BY <1>11 DEF UninstallSystem, AfterUninstall
<1>12. ASSUME NEW p \in Processes, RemoveRecord(p) PROVE RunsRun'
  BY <1>12 DEF RemoveRecord
<1>13. ASSUME NEW p \in Processes, StrayTrigger(p) PROVE RunsRun'
  BY <1>13 DEF StrayTrigger
<1>14. ASSUME NEW p \in Processes, Crash(p) PROVE RunsRun'
  BY <1>14 DEF Crash
<1>15. CASE UNCHANGED vars
  BY <1>15 DEF vars
<1> QED
  BY <1>1, <1>2, <1>3, <1>4, <1>5, <1>6, <1>7, <1>8, <1>9, <1>10, <1>11, <1>12, <1>13, <1>14, <1>15 DEF Next, Step

\* No step brings back a trigger the administrator's verb has removed.
LEMMA NextStopped ==
    ASSUME TypeOK, RunsRun, AdminInv, StoppedStays, [Next]_vars
    PROVE  (AdminInv /\ StoppedStays)'
<1> USE ProcessAssumption, NothingAssumption, LimitAssumption
        DEF Processes, Idle, Begin, Goto, Proceed, files, procs, history, TypeOK, RunsRun, AdminInv, StoppedStays
<1>1. ASSUME BeginSave PROVE (AdminInv /\ StoppedStays)'
  BY <1>1 DEF BeginSave, Asks
<1>2. ASSUME BeginSetEnabled PROVE (AdminInv /\ StoppedStays)'
  BY <1>2 DEF BeginSetEnabled, Asks
<1>3. ASSUME BeginRepair PROVE (AdminInv /\ StoppedStays)'
  BY <1>3 DEF BeginRepair, Asks, TriggerStep
<1>4. ASSUME BeginRemove PROVE (AdminInv /\ StoppedStays)'
  BY <1>4 DEF BeginRemove, Asks
<1>5. ASSUME NEW p \in Processes, BeginRun(p) PROVE (AdminInv /\ StoppedStays)'
  BY <1>5 DEF BeginRun
<1>6. ASSUME NEW p \in Processes, Backup(p) PROVE (AdminInv /\ StoppedStays)'
  BY <1>6 DEF Backup
<1>7. ASSUME NEW p \in Processes, Truncate(p) PROVE (AdminInv /\ StoppedStays)'
  BY <1>7 DEF Truncate
<1>8. ASSUME NEW p \in Processes, Write(p) PROVE (AdminInv /\ StoppedStays)'
  BY <1>8 DEF Write, TriggerStep
<1>9. ASSUME NEW p \in Processes, Install(p) PROVE (AdminInv /\ StoppedStays)'
  BY <1>9 DEF Install
<1>10. ASSUME NEW p \in Processes, UninstallUser(p) PROVE (AdminInv /\ StoppedStays)'
  BY <1>10 DEF UninstallUser
<1>11. ASSUME NEW p \in Processes, UninstallSystem(p) PROVE (AdminInv /\ StoppedStays)'
  <2>1. UNCHANGED record /\ (p = Admin => "user" \notin trigger) /\ pc[p] = "uninstallSystem"
    BY <1>11 DEF UninstallSystem
  <2>2. StoppedStays'
    BY <1>11, <2>1 DEF UninstallSystem, Scopes
  <2>3. AdminInv'
    <3>1. CASE p = Admin
      BY <1>11, <3>1, <2>1 DEF UninstallSystem, AfterUninstall
    <3>2. CASE p # Admin
      BY <1>11, <3>2 DEF UninstallSystem, AfterUninstall
    <3> QED
      BY <3>1, <3>2
  <2> QED
    BY <2>2, <2>3
<1>12. ASSUME NEW p \in Processes, RemoveRecord(p) PROVE (AdminInv /\ StoppedStays)'
  BY <1>12 DEF RemoveRecord
<1>13. ASSUME NEW p \in Processes, StrayTrigger(p) PROVE (AdminInv /\ StoppedStays)'
  BY <1>13 DEF StrayTrigger
<1>14. ASSUME NEW p \in Processes, Crash(p) PROVE (AdminInv /\ StoppedStays)'
  BY <1>14 DEF Crash
<1>15. CASE UNCHANGED vars
  BY <1>15 DEF vars
<1> QED
  BY <1>1, <1>2, <1>3, <1>4, <1>5, <1>6, <1>7, <1>8, <1>9, <1>10, <1>11, <1>12, <1>13, <1>14, <1>15 DEF Next, Step

-----------------------------------------------------------------------------
(***************************************************************************)
(* The record and the triggers in step.                                    *)
(***************************************************************************)

\* Who is not idle while no verb is changing the schedule is a run, and has
\* a schedule to save.
LEMMA OnlyRuns ==
    ASSUME IInv, ~Changing, NEW p \in Processes, ~Idle(p)
    PROVE  /\ verb[p] = "run"
           /\ pc[p] \in {"backup", "truncate", "write", "uninstallUser", "uninstallSystem"}
           /\ pc[p] # "backup" => copy[p] \in Schedule /\ copy[p] # Blank
           /\ copy[p] # Blank => copy[p] \in Schedule
<1>1. verb[p] = "run"
  BY DEF IInv, Changing, RunsRun, AdminInv, Idle, Processes
<1>2. pc[p] \in {"backup", "truncate", "write", "uninstallUser", "uninstallSystem"}
  BY <1>1 DEF IInv, TypeOK, RunsRun, AdminInv, Idle, Processes
<1>3. copy[p] \in Schedule \/ (pc[p] = "backup" /\ copy[p] = Blank)
  BY <1>1, <1>2 DEF IInv, CopyInv
<1> QED
  BY <1>1, <1>2, <1>3, NothingAssumption

\* A verb that changes the schedule takes it to where it was asked to be.
LEMMA VerbSteps ==
    ASSUME IInv, Changing, VerbInv, NEW p \in Processes, Step(p), ~disturbed'
    PROVE  IF Changing' THEN VerbInv' ELSE QuietInv'
<1> USE ProcessAssumption, NothingAssumption
        DEF Processes, Idle, Goto, Proceed, files, procs, history, TypeOK
<1>1. p = Admin /\ pc[Admin] # "idle" /\ TypeOK
  BY DEF VerbInv, Step, Backup, Truncate, Write, Install, UninstallUser, UninstallSystem,
         RemoveRecord, StrayTrigger, IInv
<1>2. \A r \in Runs : pc'[r] = "idle"
  BY <1>1 DEF VerbInv, Step, Backup, Truncate, Write, Install, UninstallUser, UninstallSystem,
         RemoveRecord, StrayTrigger
<1>3. verb[Admin] \in {"save", "set-enabled", "repair", "remove"}
  BY <1>1 DEF Changing
<1>4. CASE verb[Admin] = "remove"
  <2>1. CASE UninstallUser(Admin)
    BY <1>1, <1>2, <1>4, <2>1 DEF UninstallUser, VerbInv, Changing
  <2>2. CASE UninstallSystem(Admin)
    <3>1. pc'[Admin] = "removeRecord" /\ verb'[Admin] = "remove" /\ wish' = wish
      BY <1>1, <1>4, <2>2 DEF UninstallSystem, AfterUninstall
    <3>2. trigger' = {}
      BY <1>1, <2>2 DEF UninstallSystem, IInv, AdminInv, Scopes
    <3> QED
      BY <1>2, <1>4, <3>1, <3>2 DEF VerbInv, Changing
  <2>3. CASE RemoveRecord(Admin)
    <3>1. pc'[Admin] = "idle" /\ verb'[Admin] = "none" /\ record' = None
          /\ UNCHANGED <<wish, trigger>> /\ wish = "absent" /\ trigger = {}
      BY <1>1, <1>4, <2>3 DEF RemoveRecord, VerbInv
    <3> QED
      BY <1>2, <3>1 DEF QuietInv, InFlight, Changing
  <2> QED
    BY <1>1, <1>4, <2>1, <2>2, <2>3 DEF VerbInv, Step, Backup, Truncate, Write, Install, StrayTrigger
<1>5. CASE verb[Admin] # "remove"
  <2>1. wish \in {"on", "off"} /\ copy[Admin] \in Schedule /\ (copy[Admin].enabled <=> wish = "on")
    BY <1>1, <1>5 DEF VerbInv
  <2>2. CASE Truncate(Admin)
    BY <1>1, <1>2, <1>3, <1>5, <2>1, <2>2 DEF Truncate, VerbInv, Changing
  <2>3. CASE Write(Admin)
    <3>1. /\ pc'[Admin] = TriggerStep(copy[Admin]) /\ record' = copy[Admin]
          /\ verb'[Admin] = verb[Admin] /\ copy'[Admin] = copy[Admin] /\ wish' = wish
      BY <1>1, <1>3, <2>3 DEF Write, TriggerStep
    <3> QED
      BY <1>2, <1>3, <1>5, <2>1, <3>1 DEF VerbInv, Changing, TriggerStep
  <2>4. CASE Install(Admin)
    <3>1. /\ pc'[Admin] = "idle" /\ verb'[Admin] = "none" /\ copy[Admin].scope \in trigger'
          /\ UNCHANGED <<record, wish>> /\ record = copy[Admin] /\ wish = "on"
      BY <1>1, <1>5, <2>4 DEF Install, VerbInv
    <3> QED
      BY <1>2, <2>1, <3>1 DEF QuietInv, InFlight, Changing
  <2>5. CASE UninstallUser(Admin)
    BY <1>1, <1>2, <1>3, <1>5, <2>1, <2>5 DEF UninstallUser, VerbInv, Changing
  <2>6. CASE UninstallSystem(Admin)
    <3>1. /\ pc'[Admin] = "idle" /\ verb'[Admin] = "none" /\ UNCHANGED <<record, wish>>
          /\ record = copy[Admin] /\ wish = "off"
      BY <1>1, <1>3, <1>5, <2>6 DEF UninstallSystem, AfterUninstall, VerbInv
    <3>2. trigger' = {}
      BY <1>1, <2>6 DEF UninstallSystem, IInv, AdminInv, Scopes
    <3> QED
      BY <1>2, <2>1, <3>1, <3>2 DEF QuietInv, InFlight, Changing
  <2> QED
    BY <1>1, <1>5, <2>2, <2>3, <2>4, <2>5, <2>6
       DEF VerbInv, Step, Backup, RemoveRecord, StrayTrigger
<1> QED
  BY <1>4, <1>5

\* A run takes the schedule where its record says, or turns it off.
LEMMA QuietSteps ==
    ASSUME IInv, ~Changing, QuietInv, NEW p \in Processes, Step(p), ~disturbed'
    PROVE  QuietInv'
<1> USE NothingAssumption DEF Idle, Goto, Proceed, files, procs, history, TypeOK
<1>1. pc[p] # "idle" /\ TypeOK
  BY DEF Step, Backup, Truncate, Write, Install, UninstallUser, UninstallSystem,
         RemoveRecord, StrayTrigger, IInv
<1>2. /\ verb[p] = "run"
      /\ pc[p] \in {"backup", "truncate", "write", "uninstallUser", "uninstallSystem"}
      /\ pc[p] # "backup" => InFlight(p) /\ copy[p] \in Schedule
      /\ copy[p] # Blank => copy[p] \in Schedule /\ InFlight(p)
  BY <1>1, OnlyRuns DEF InFlight
<1>3. wish # "absent" /\ record # None
  BY <1>1 DEF QuietInv
<1>4. InFlight(p) => Agrees(p)
  BY DEF QuietInv
<1>5. CASE Backup(p) /\ copy[p] = Blank
  <2>1. pc' = [pc EXCEPT ![p] = "idle"] /\ pc[p] = "backup"
        /\ copy' = [copy EXCEPT ![p] = None]
        /\ UNCHANGED <<record, trigger, wish>>
    BY <1>5 DEF Backup
  <2>2. \A q \in Processes : /\ InFlight(q)' => InFlight(q) /\ pc'[q] = pc[q] /\ copy'[q] = copy[q]
                             /\ pc[q] = "write" => pc'[q] = "write"
                             /\ TurningOff(q) => TurningOff(q)'
    BY <1>1, <2>1 DEF InFlight, TurningOff
  <2> QED
    BY <2>1, <2>2 DEF QuietInv, Agrees
<1>6. CASE Backup(p) /\ copy[p] # Blank
  <2>1. PICK t \in {"completed", "failed"} :
          /\ pc' = [pc EXCEPT ![p] = IF copy[p].once THEN "uninstallUser" ELSE "truncate"]
          /\ pc[p] = "backup"
          /\ copy' = [copy EXCEPT ![p] = Ran(copy[p], t)]
          /\ UNCHANGED <<record, trigger, wish>>
    BY <1>6 DEF Backup
  <2>2. /\ Ran(copy[p], t).once = copy[p].once
        /\ Ran(copy[p], t).scope = copy[p].scope
        /\ Ran(copy[p], t).enabled <=> copy[p].enabled /\ ~copy[p].once
    BY <1>2, <1>6 DEF Ran, Schedule
  <2>3. \A q \in Processes : /\ InFlight(q)' => InFlight(q)
                             /\ copy'[q].once = copy[q].once
                             /\ copy'[q].scope = copy[q].scope
                             /\ pc[q] = "write" => pc'[q] = "write"
                             /\ TurningOff(q) => TurningOff(q)'
                             /\ q # p => pc'[q] = pc[q] /\ copy'[q] = copy[q]
    BY <1>1, <1>2, <1>6, <2>1, <2>2 DEF InFlight, TurningOff
  <2>4. Agrees(p)'
    BY <1>1, <1>2, <1>4, <1>6, <2>1, <2>2, <2>3 DEF Agrees
  <2>5. ASSUME NEW q \in Processes, q # p, InFlight(q)' PROVE Agrees(q)'
    BY <2>1, <2>3, <2>5 DEF QuietInv, Agrees
  <2> QED
    BY <2>1, <2>3, <2>4, <2>5 DEF QuietInv
<1>7. CASE Truncate(p)
  <2>1. /\ pc' = [pc EXCEPT ![p] = "write"] /\ pc[p] = "truncate" /\ record' = Blank
        /\ copy' = copy /\ UNCHANGED <<trigger, wish>>
    BY <1>1, <1>7 DEF Truncate
  <2>2. \A q \in Processes : /\ InFlight(q)' <=> InFlight(q)
                             /\ q # p => pc'[q] = pc[q]
                             /\ TurningOff(q) => TurningOff(q)'
    BY <1>1, <2>1 DEF InFlight, TurningOff
  <2>3. pc'[p] = "write"
    BY <1>1, <2>1
  <2> QED
    BY <1>2, <1>3, <1>4, <2>1, <2>2, <2>3 DEF QuietInv, Agrees
<1>8. CASE Write(p)
  <2>1. /\ pc' = [pc EXCEPT ![p] = "idle"] /\ pc[p] = "write" /\ record' = copy[p]
        /\ copy' = [copy EXCEPT ![p] = None] /\ trigger' = trigger
        /\ wish' = IF copy[p].once THEN "off" ELSE wish
    BY <1>1, <1>2, <1>8 DEF Write
  <2>2. Agrees(p) /\ copy[p] \in Schedule
    BY <1>2, <1>4, <2>1
  <2>3. \A q \in Processes : /\ InFlight(q)' => InFlight(q) /\ q # p
                             /\ q # p => pc'[q] = pc[q] /\ copy'[q] = copy[q]
    BY <1>1, <2>1 DEF InFlight
  <2>4. wish' # "absent" /\ record' # None /\ record' # Blank
    BY <1>3, <2>1, <2>2
  <2>5. record'.enabled <=> wish' = "on"
    BY <2>1, <2>2 DEF Agrees
  <2>6. wish' # "on" => trigger' = {}
    BY <2>1, <2>2 DEF Agrees, QuietInv
  <2>7. wish' = "on" => /\ wish = "on" /\ ~copy[p].once
                        /\ \A q \in Processes : TurningOff(q) => TurningOff(q)'
    BY <1>3, <2>1, <2>3 DEF TurningOff
  <2>8. ASSUME NEW q \in Processes, InFlight(q)' PROVE Agrees(q)'
    BY <2>1, <2>2, <2>3, <2>7, <2>8 DEF QuietInv, Agrees
  <2>9. wish' = "on" => record'.scope \in trigger' \/ \E q \in Processes : TurningOff(q)'
    BY <2>1, <2>2, <2>7 DEF Agrees
  <2> QED
    BY <2>4, <2>5, <2>6, <2>8, <2>9 DEF QuietInv
<1>9. CASE UninstallUser(p)
  <2>1. /\ pc' = [pc EXCEPT ![p] = "uninstallSystem"] /\ pc[p] = "uninstallUser"
        /\ copy' = copy /\ trigger' = trigger \ {"user"} /\ UNCHANGED <<record, wish>>
    BY <1>1, <1>9 DEF UninstallUser
  <2>2. \A q \in Processes : /\ InFlight(q)' <=> InFlight(q)
                             /\ q # p => pc'[q] = pc[q]
                             /\ pc[q] = "write" => pc'[q] = "write"
    BY <1>1, <2>1 DEF InFlight
  <2>3. TurningOff(p)'
    BY <1>1, <1>2, <1>4, <2>1 DEF TurningOff, Agrees
  <2>4. pc'[p] = "uninstallSystem"
    BY <1>1, <2>1
  <2> QED
    BY <1>2, <1>4, <2>1, <2>2, <2>3, <2>4 DEF QuietInv, Agrees
<1>10. CASE UninstallSystem(p)
  <2>1. /\ pc' = [pc EXCEPT ![p] = "truncate"] /\ pc[p] = "uninstallSystem"
        /\ copy' = copy /\ trigger' = trigger \ {"system"} /\ UNCHANGED <<record, wish>>
    BY <1>1, <1>2, <1>10 DEF UninstallSystem, AfterUninstall
  <2>2. \A q \in Processes : /\ InFlight(q)' <=> InFlight(q)
                             /\ q # p => pc'[q] = pc[q]
                             /\ pc[q] = "write" => pc'[q] = "write"
    BY <1>1, <2>1 DEF InFlight
  <2>3. TurningOff(p)' /\ copy[p].once /\ trigger' = {}
    BY <1>1, <1>2, <1>4, <2>1 DEF TurningOff, Agrees, Scopes
  <2>4. pc'[p] = "truncate"
    BY <1>1, <2>1
  <2> QED
    BY <1>2, <1>4, <2>1, <2>2, <2>3, <2>4 DEF QuietInv, Agrees
<1> QED
  BY <1>2, <1>5, <1>6, <1>7, <1>8, <1>9, <1>10
     DEF Step, Install, RemoveRecord, StrayTrigger

\* A verb that begins in peace heads for what it asks for, even when it
\* wipes out what disturbed the schedule before.
LEMMA VerbBegins ==
    ASSUME IInv, StepInv, ~disturbed',
           BeginSave \/ BeginSetEnabled \/ BeginRepair \/ BeginRemove
    PROVE  Changing' /\ VerbInv'
<1> USE ProcessAssumption, NothingAssumption
        DEF Processes, Idle, Begin, Asks, files, TypeOK, Changing
<1>1. TypeOK /\ pc[Admin] = "idle" /\ (\A r \in Runs : pc[r] = "idle" /\ pc'[r] = "idle")
  BY DEF BeginSave, BeginSetEnabled, BeginRepair, BeginRemove, IInv
<1>2. ~disturbed /\ record # None => /\ record \in Schedule /\ wish # "absent"
                                     /\ record.enabled <=> wish = "on"
  <2>1. verb[Admin] \in {"none", "run"} \/ disturbed
    BY <1>1 DEF StepInv, VerbInv
  <2> QED
    BY <1>1, <2>1 DEF StepInv, QuietInv
<1>3. CASE BeginSave
  <2>1. PICK c \in Schedule : /\ Begin(Admin, "save", c, "truncate")
                              /\ wish' = IF c.enabled THEN "on" ELSE "off"
    BY <1>3 DEF BeginSave
  <2> QED
    BY <1>1, <2>1 DEF VerbInv
<1>4. CASE BeginSetEnabled
  <2>1. ~disturbed /\ record # None
    BY <1>1, <1>4 DEF BeginSetEnabled
  <2>2. PICK b \in BOOLEAN : /\ Begin(Admin, "set-enabled", [record EXCEPT !.enabled = b], "truncate")
                             /\ wish' = IF b THEN "on" ELSE "off"
    BY <1>2, <1>4, <2>1 DEF BeginSetEnabled
  <2>3. /\ [record EXCEPT !.enabled = b] \in Schedule
        /\ [record EXCEPT !.enabled = b].enabled = b
    BY <1>2, <2>1, Copies DEF Schedule
  <2> QED
    BY <1>1, <2>2, <2>3 DEF VerbInv
<1>5. CASE BeginRepair
  <2>1. ~disturbed /\ record # None
    BY <1>1, <1>5 DEF BeginRepair
  <2>2. Begin(Admin, "repair", record, TriggerStep(record)) /\ wish' = wish
    BY <1>2, <1>5, <2>1 DEF BeginRepair
  <2> QED
    BY <1>1, <1>2, <2>1, <2>2 DEF VerbInv, TriggerStep
<1>6. CASE BeginRemove
  BY <1>1, <1>6 DEF BeginRemove, VerbInv
<1> QED
  BY <1>3, <1>4, <1>5, <1>6

\* A run that begins in peace has loaded what was asked for.
LEMMA RunBegins ==
    ASSUME IInv, StepInv, ~disturbed', NEW p \in Processes, BeginRun(p)
    PROVE  ~Changing' /\ QuietInv'
<1> USE NothingAssumption DEF Idle, Begin, files, TypeOK
<1>1. /\ pc' = [pc EXCEPT ![p] = "backup"] /\ pc[p] = "idle" /\ copy' = [copy EXCEPT ![p] = record]
      /\ verb' = [verb EXCEPT ![p] = "run"]
      /\ record # None /\ UNCHANGED <<record, trigger, wish>> /\ TypeOK
  BY DEF BeginRun, IInv
<1>2. ~disturbed /\ ~Changing
  <2>1. ~disturbed /\ (p \in Runs => ~Changing)
    BY DEF BeginRun, Changing
  <2>2. p = Admin => ~Changing
    BY <1>1, <2>1 DEF StepInv, VerbInv
  <2> QED
    BY <2>1, <2>2 DEF Processes
<1>3. QuietInv
  BY <1>2 DEF StepInv
<1>4. ~Changing'
  BY <1>1, <1>2 DEF Changing, Processes
<1>5. \A q \in Processes : /\ q # p => (InFlight(q)' <=> InFlight(q)) /\ pc'[q] = pc[q]
                                       /\ copy'[q] = copy[q]
                           /\ pc[q] = "write" => pc'[q] = "write"
                           /\ TurningOff(q) => TurningOff(q)'
  BY <1>1 DEF InFlight, TurningOff
<1>6. pc'[p] = "backup" /\ copy'[p] = record
  BY <1>1
<1>7. wish # "absent" /\ (record # Blank => record \in Schedule)
  BY <1>1, <1>3 DEF QuietInv
<1>8. InFlight(p)' => Agrees(p)'
  BY <1>1, <1>3, <1>5, <1>6, <1>7 DEF QuietInv, Agrees, InFlight
<1>9. ASSUME NEW q \in Processes, q # p, InFlight(q)' PROVE Agrees(q)'
  <2>1. Agrees(q)
    BY <1>3, <1>5, <1>9 DEF QuietInv
  <2>2. record # Blank => record.once = copy[q].once /\ record.scope = copy[q].scope
    BY <1>7, <2>1 DEF Agrees
  <2>3. \A r \in Processes : InFlight(r)' => /\ copy'[r].once = copy'[q].once
                                            /\ copy'[r].scope = copy'[q].scope
    BY <1>5, <1>6, <1>9, <2>1, <2>2 DEF Agrees, InFlight
  <2> QED
    BY <1>1, <1>5, <1>9, <2>1, <2>3 DEF Agrees
<1> QED
  BY <1>1, <1>3, <1>4, <1>5, <1>7, <1>8, <1>9 DEF QuietInv

\* Every step in peace keeps the record and the triggers in step.
LEMMA NextStep ==
    ASSUME IInv, StepInv, [Next]_vars
    PROVE  StepInv'
<1> SUFFICES ASSUME ~disturbed' PROVE IF Changing' THEN VerbInv' ELSE QuietInv'
  BY DEF StepInv
<1>1. CASE BeginSave \/ BeginSetEnabled \/ BeginRepair \/ BeginRemove
  BY <1>1, VerbBegins
<1>2. CASE \E p \in Processes : BeginRun(p)
  BY <1>2, RunBegins
<1>3. ASSUME NEW p \in Processes, Step(p)
      PROVE  IF Changing' THEN VerbInv' ELSE QuietInv'
  <2>1. ~disturbed
    BY <1>3 DEF Step, Backup, Truncate, Write, Install, UninstallUser, UninstallSystem,
                RemoveRecord, StrayTrigger, history
  <2>2. CASE Changing
    BY <1>3, <2>1, <2>2, VerbSteps DEF StepInv
  <2>3. CASE ~Changing
    <3>1. QuietInv'
      BY <1>3, <2>1, <2>3, QuietSteps DEF StepInv
    <3>2. ~Changing'
      BY <1>3, <2>3 DEF Changing, Step, Backup, Truncate, Write, Install, UninstallUser,
           UninstallSystem, RemoveRecord, StrayTrigger, Proceed, Goto, IInv, TypeOK, Processes
    <3> QED
      BY <3>1, <3>2
  <2> QED
    BY <2>2, <2>3
<1>4. ASSUME NEW p \in Processes, Crash(p) PROVE FALSE
  BY <1>4 DEF Crash
<1>5. CASE UNCHANGED vars
  BY <1>5 DEF vars, files, procs, history, StepInv, Changing, VerbInv, QuietInv, Agrees,
              InFlight, TurningOff, Idle
<1> QED
  BY <1>1, <1>2, <1>3, <1>4, <1>5 DEF Next

-----------------------------------------------------------------------------
\* The inductive invariant holds of every reachable state.
THEOREM Invariance == Spec => []IInv
<1>1. ASSUME Init PROVE IInv
  <2>1. TypeOK
    <3>1. record = None /\ trigger \subseteq Scopes
      BY <1>1 DEF Init
    <3>2. /\ pc = [p \in Processes |-> "idle"]
          /\ verb = [p \in Processes |-> "none"]
          /\ copy = [p \in Processes |-> None]
      BY <1>1 DEF Init
    <3>3. wish = "absent" /\ disturbed \in BOOLEAN /\ stopped \in BOOLEAN
      BY <1>1 DEF Init
    <3>4. crashes \in 0 .. MaxCrashes
      BY <1>1, LimitAssumption DEF Init
    <3> QED
      BY <3>1, <3>2, <3>3, <3>4 DEF TypeOK
  <2>2. CopyInv
    BY <1>1 DEF Init, CopyInv
  <2>3. RunsRun /\ AdminInv /\ StoppedStays
    BY <1>1 DEF Init, RunsRun, AdminInv, StoppedStays, Processes
  <2> QED
    BY <2>1, <2>2, <2>3 DEF IInv
<1>2. IInv /\ [Next]_vars => IInv'
  BY NextType, NextCopy, NextRuns, NextStopped DEF IInv
<1> QED
  BY <1>1, <1>2, PTL DEF Spec

\* Every variable keeps its type.
THEOREM TypeCorrect == Spec => []TypeOK
<1>1. IInv => TypeOK
  BY DEF IInv
<1> QED
  BY <1>1, Invariance, PTL

\* Once a verb of the administrator has removed every trigger, none comes
\* back before the next verb, however many runs are still in flight.
THEOREM StoppedAlways == Spec => []StoppedStays
<1>1. IInv => StoppedStays
  BY DEF IInv
<1> QED
  BY <1>1, Invariance, PTL

\* The record and the triggers stay in step, for any number of runs at once.
THEOREM StepInvariance == Spec => []StepInv
<1>1. Init => StepInv
  BY NothingAssumption DEF Init, StepInv, Changing, QuietInv, InFlight, Idle, Processes
<1> QED
  BY Invariance, NextStep, <1>1, PTL DEF Spec

\* When nothing is in flight and nothing has disturbed the schedule, its
\* record and its triggers say what was last asked for.
THEOREM InStepAlways == Spec => []InStep
<1>1. IInv /\ StepInv => InStep
  <2> SUFFICES ASSUME IInv, StepInv, \A p \in Processes : Idle(p), ~disturbed
               PROVE  /\ wish = "absent" <=> record = None
                      /\ record # None => record # Blank /\ record.enabled = (wish = "on")
                      /\ IF wish = "on" THEN record.scope \in trigger ELSE trigger = {}
    BY DEF InStep
  <2>1. QuietInv
    BY DEF StepInv, VerbInv, Idle, Processes
  <2>2. \A p \in Processes : pc[p] # "write" /\ ~TurningOff(p)
    BY DEF Idle, TurningOff
  <2>3. record # None => record \in Schedule /\ record.enabled \in BOOLEAN
    BY <2>1, <2>2 DEF QuietInv, IInv, TypeOK, Schedule
  <2> QED
    BY <2>1, <2>2, <2>3, NothingAssumption DEF QuietInv
<1> QED
  BY Invariance, StepInvariance, <1>1, PTL

\* A schedule that was removed stays removed, unless a run crossed a verb,
\* elevation was refused or a process was killed: what brings a removed
\* record back is one of these, as the copy a run has loaded.
THEOREM RemovedUndisturbed == Spec => [](~disturbed => RemovedStaysRemoved)
<1>1. StepInv => (~disturbed => RemovedStaysRemoved)
  BY DEF StepInv, VerbInv, QuietInv, Changing, RemovedStaysRemoved, Idle
<1> QED
  BY <1>1, StepInvariance, PTL

=============================================================================
