--------------------------- MODULE BackupController ---------------------------
(***************************************************************************)
(* BackupController (src/gui/backup_controller.cpp): the object through    *)
(* which the GUI runs one engine at a time, alone or as the steps of a     *)
(* plan, and cancels it.  Its handlers run in the GUI's event loop, each   *)
(* to its end; the engine and its children are processes of their own      *)
(* (ProcessPipeline), whose end the loop hears of some time later.         *)
(*                                                                         *)
(* QProcess::state() is NotRunning exactly when `current` is None: between *)
(* Starting and Running the controller does not distinguish.               *)
(***************************************************************************)
EXTENDS ProcessPipeline, Sequences

CONSTANTS
    Asked,  \* the operations the user asks for
    Plans   \* the plans: the wizard makes them of one to three backups

ASSUME AskedAssumption == Asked \subseteq Kinds
ASSUME PlanAssumption == Plans \subseteq Seq(Kinds) \ {<<>>}

VARIABLES
    current,    \* the engine m_process stands for
    busy,       \* m_busy
    cancelled,  \* m_cancelled
    active,     \* m_planActive
    plan,       \* m_plan, <<>> when no plan is active
    index,      \* m_planIndex, counted from 1, 0 when no plan is active
    step,       \* history: the step of the plan that runs, or 0
    meant,      \* history: the user has cancelled the operation that runs
    stale       \* history: flags a failed launch has left set

cvars == <<current, busy, cancelled, active, plan, index>>
history == <<step, meant, stale>>
vars == <<pvars, cvars, history>>

Init ==
    /\ PInit
    /\ current = None /\ busy = FALSE /\ cancelled = FALSE
    /\ active = FALSE /\ plan = <<>> /\ index = 0
    /\ step = 0 /\ meant = FALSE /\ stale = {}

-----------------------------------------------------------------------------
(***************************************************************************)
(* The user.                                                               *)
(***************************************************************************)

\* Mutant: a part of the plan survives it.
EndPlanKeeping == active' = FALSE /\ plan' = <<>> /\ UNCHANGED index

\* m_planActive goes, and the rest of the plan can be forgotten.
EndPlan == active' = FALSE /\ plan' = <<>> /\ index' = 0

\* A slot for the next engine; which one makes no difference.
Vacant(r) == r = CHOOSE s \in Slots : point[s] = "free"

\* Nothing is left of the engine of a slot, nor of its children.
Gone(r) == point[r] = "exited" /\ \A c \in Children : ~Alive(r, c)

\* startCli, once it is known that the controller is not busy.
Launch(r, k, s) ==
    /\ kind' = [kind EXCEPT ![r] = k]
    /\ point' = [point EXCEPT ![r] = "spawned"]
    /\ code' = [code EXCEPT ![r] = "none"]
    /\ child' = [child EXCEPT ![r] = [c \in Children |-> "none"]]
    /\ sent' = [sent EXCEPT ![r] = 0]
    /\ pipe' = [pipe EXCEPT ![r] = 0]
    /\ arrived' = [arrived EXCEPT ![r] = None]
    /\ current' = r /\ busy' = TRUE /\ step' = s /\ meant' = FALSE
    /\ UNCHANGED fds

\* run, verifyArtifact, restoreArtifact, testRemoteConnection.
Run ==
    /\ ~busy
    /\ \E r \in Slots, k \in Asked :
        point[r] = "free" /\ Vacant(r) /\ Launch(r, k, 0)
    /\ UNCHANGED <<cancelled, active, plan, index, stale>>

RunPlan ==
    /\ ~busy
    /\ \E r \in Slots, ks \in Plans :
        /\ point[r] = "free" /\ Vacant(r) /\ Launch(r, ks[1], 1)
        /\ plan' = ks
    /\ index' = 1 /\ active' = TRUE
    /\ stale' = stale \ {"plan"}
    /\ UNCHANGED cancelled

\* cancel: also when the engine has ended already and the event loop has
\* not heard of it, and then there is nobody to kill.
Cancel ==
    /\ current # None
    /\ EndPlan
    /\ cancelled' = TRUE /\ meant' = TRUE
    /\ stale' = stale \ {"plan"}
    /\ IF point[current] = "exited" THEN UNCHANGED <<point, code, fds>>
                                    ELSE Killed(current)
    /\ UNCHANGED <<kind, child, sent, pipe, arrived, current, busy, step>>

-----------------------------------------------------------------------------
(***************************************************************************)
(* The handlers of the process's signals.                                  *)
(***************************************************************************)

\* The engine has ended, and the event loop gets to know.
Ended == current # None /\ point[current] = "exited" /\ code[current] # "unlaunched"
Succeeded == code[current] = "ok"

\* Mutant: the flag stays set.
FinishCancelledKeeping ==
    /\ Ended /\ cancelled
    /\ EndPlan /\ busy' = FALSE
    /\ current' = None /\ step' = 0 /\ meant' = FALSE /\ stale' = {}
    /\ UNCHANGED <<pvars, cancelled>>

\* handleProcessFinished, of a cancelled operation, however it ended.
FinishCancelled ==
    /\ Ended /\ cancelled
    /\ EndPlan /\ cancelled' = FALSE /\ busy' = FALSE
    /\ current' = None /\ step' = 0 /\ meant' = FALSE /\ stale' = {}
    /\ UNCHANGED pvars

\* Mutant: a failed step does not end its plan.
MoreAnyway == active /\ index < Len(plan)

\* Steps remain, and this one succeeded.
More == active /\ Succeeded /\ index < Len(plan)

\* handleProcessFinished, when the plan goes on: the signal of the step
\* that ended, then run() of the next one.
Advance ==
    /\ Ended /\ ~cancelled /\ More
    /\ index' = index + 1
    /\ Gone(current) /\ Launch(current, plan[index + 1], index + 1)
    /\ UNCHANGED <<cancelled, active, plan, stale>>

\* handleProcessFinished, in every other case.
Finish ==
    /\ Ended /\ ~cancelled /\ ~More
    /\ EndPlan /\ busy' = FALSE /\ current' = None
    /\ step' = 0 /\ meant' = FALSE /\ stale' = stale \ {"plan"}
    /\ UNCHANGED <<pvars, cancelled>>

\* The handler of errorOccurred(FailedToStart), which no finished() follows:
\* the plan stays active and a cancellation pending.
FailedToStart ==
    /\ current # None /\ code[current] = "unlaunched"
    /\ busy' = FALSE /\ current' = None
    /\ step' = 0 /\ meant' = FALSE
    /\ stale' = (IF active THEN {"plan"} ELSE {})
                \union (IF cancelled THEN {"cancel"} ELSE {})
    /\ UNCHANGED <<pvars, cancelled, active, plan, index>>

\* A slot is empty again once nothing is left of its engine.
Reap(r) ==
    /\ r # current /\ Gone(r)
    /\ point' = [point EXCEPT ![r] = "free"]
    /\ kind' = [kind EXCEPT ![r] = "other"]
    /\ code' = [code EXCEPT ![r] = "none"]
    /\ child' = [child EXCEPT ![r] = [c \in Children |-> "none"]]
    /\ sent' = [sent EXCEPT ![r] = 0]
    /\ pipe' = [pipe EXCEPT ![r] = 0]
    /\ arrived' = [arrived EXCEPT ![r] = None]
    /\ UNCHANGED <<fds, cvars, history>>

-----------------------------------------------------------------------------
Handle == FinishCancelled \/ Advance \/ Finish \/ FailedToStart

\* The engine and its children, as the controller leaves them alone.
Engine(r) == EngineStep(r) /\ UNCHANGED <<cvars, history>>
Child(r) == ChildStep(r) /\ UNCHANGED <<cvars, history>>
Fault(r) == PipelineFault(r) /\ UNCHANGED <<cvars, history>>

Next ==
    \/ Run \/ RunPlan \/ Cancel \/ Handle
    \/ \E r \in Slots : Engine(r) \/ Child(r) \/ Fault(r) \/ Reap(r)

\* The event loop turns, processes are scheduled, a dump produces and a
\* reader consumes.  Nothing is fair about the user or about faults.
Spec ==
    /\ Init /\ [][Next]_vars
    /\ WF_vars(Handle)
    /\ \A r \in Slots : WF_vars(Engine(r)) /\ WF_vars(Child(r)) /\ WF_vars(Reap(r))

-----------------------------------------------------------------------------
(***************************************************************************)
(* Properties.                                                             *)
(***************************************************************************)

\* The values the variables take.
TypeOK ==
    /\ PTypeOK
    /\ current \in Slots \union {None}
    /\ {busy, cancelled, active, meant} \subseteq BOOLEAN
    /\ plan \in Plans \union {<<>>} /\ index \in 0 .. Len(plan)
    /\ step \in Nat /\ stale \subseteq {"plan", "cancel"}

\* An operation is handled as cancelled exactly when the user has cancelled
\* that one, except that a launch that failed after a click on Cancel hands
\* the cancellation on to the next operation.
CancelMeant ==
    current # None => (cancelled <=> meant \/ "cancel" \in stale)

\* "Advance a multi-source plan: continue while steps remain and succeed": a
\* later step starts only when the one before it has ended well.  A launch
\* that failed leaves its plan active, and whatever operation succeeds next is
\* taken for the step it could not start.
PlanKept ==
    [][step' > 1 /\ step' # step
        => code[current] = "ok" /\ (step' = step + 1 \/ "plan" \in stale)]_vars

\* The controller is free again: every operation and every plan ends, also
\* when its engine cannot be started, is cancelled or loses its children.
BusyEnds == busy ~> ~busy

=============================================================================
