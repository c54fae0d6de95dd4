--------------------------- MODULE DiscoverySession ---------------------------
(***************************************************************************)
(* InventoryViewModel (src/gui/inventory_view_model.cpp) and the wizard    *)
(* that listens to it (src/gui/qml/BackupWizard.qml): questions about one  *)
(* server, written to a session process that stays connected and answers   *)
(* each with a line, in order (src/cli/cli_app.cpp).  Answers say what     *)
(* they are about but not which server or session they come from.          *)
(*                                                                         *)
(* A handler of the GUI's event loop runs to its end, with one exception   *)
(* that matters: stopSession waits for the old process, and waiting        *)
(* delivers its signals.  That wait is the mode "stopping".                *)
(***************************************************************************)
EXTENDS Naturals, Sequences

CONSTANTS
    Servers,   \* the servers, this computer among them
    Engines,   \* the database engines the wizard offers
    None,      \* no server, nothing cached, no engine
    MaxAsked   \* bound: how often the user asks for something

ASSUME ServerAssumption == None \notin Servers \union Engines
ASSUME EngineAssumption == {"apps", "dir", "size"} \intersect Engines = {}
ASSUME BoundAssumption == MaxAsked \in Nat

\* What is asked: the applications (services and engines are asked for and
\* cached alike), the directory on display, the size of its entry, and the
\* databases of an engine, which are not cached.
Cached == {"apps", "dir", "size"}
Questions == Cached \union Engines

VARIABLES
    target,       \* m_configPath, that is, the server it names
    cache,        \* the server each cached answer came from
    outstanding,  \* m_outstanding
    stopping,     \* m_intentionalStop, while stopSession waits
    session,      \* the process: "none" and "over" are before and after it
    serves,       \* the server it talks to
    inbox,        \* questions it has not answered
    outbox,       \* answers nobody has read
    selected,     \* the wizard's selectedEngine
    shown,        \* the engine whose databases the wizard shows
    alarm,        \* the error the wizard shows
    died,         \* history: a session of this target ended by itself
    late,         \* history: what was cached while stopSession waited, and still is
    chosen,       \* history: no session has ended since the engine was chosen
    asked         \* how often the user has asked

view == <<target, cache, outstanding, stopping>>
process == <<session, serves, inbox, outbox>>
wizard == <<selected, shown, alarm>>
history == <<died, late, chosen, asked>>
vars == <<view, process, wizard, history>>

NothingCached == [k \in Cached |-> None]

Init ==
    /\ target = None /\ cache = NothingCached
    /\ outstanding = 0 /\ stopping = FALSE
    /\ session = "none" /\ serves = None /\ inbox = <<>> /\ outbox = <<>>
    /\ selected = None /\ shown = None /\ alarm = FALSE
    /\ died = FALSE /\ late = {} /\ chosen = FALSE /\ asked = 0

-----------------------------------------------------------------------------
(***************************************************************************)
(* startSession and send.                                                  *)
(***************************************************************************)

\* Mutant: a new session inherits the count of the old one.
StartCounting(t, ks) ==
    /\ session' = "starting" /\ serves' = t
    /\ inbox' = ks /\ outbox' = <<>>
    /\ outstanding' = outstanding + Len(ks)

\* startSession when no process is left, and the questions sent right after.
Start(t, ks) ==
    /\ session' = "starting" /\ serves' = t
    /\ inbox' = ks /\ outbox' = <<>>
    /\ outstanding' = Len(ks)

\* send, in a handler of the event loop: a session that is gone is started
\* again, one that has ended and is not known to have takes the question
\* and never answers.
Send(ks) ==
    IF session = "none"
    THEN Start(target, ks)
    ELSE /\ outstanding' = outstanding + Len(ks)
         /\ inbox' = IF session = "over" THEN inbox ELSE inbox \o ks
         /\ UNCHANGED <<session, serves, outbox>>

-----------------------------------------------------------------------------
(***************************************************************************)
(* The user.                                                               *)
(***************************************************************************)

Asks ==
    /\ ~stopping /\ asked < MaxAsked
    /\ asked' = asked + 1

\* loadApplications and its kind ask for nothing that is cached.
Load(c, k) == IF c[k] = None THEN <<k>> ELSE <<>>

\* browse: a listing that is cached is shown at once, and then the sizes of
\* its entries are asked for unless they are cached.
Listed(c) == IF c["dir"] = None THEN <<"dir">> ELSE Load(c, "size")

\* What scan asks a new session when c is cached.
Scanned(c) == Load(c, "apps") \o Listed(c)

\* Mutant: the caches stay.
ForgetNot == UNCHANGED <<cache, late>>

\* setTarget's clearing of the caches, before the session is restarted.
Forget == cache' = NothingCached /\ late' = {}

\* scan: setTarget, then the questions; the old session is stopped first.
Scan ==
    /\ Asks
    /\ \E t \in Servers :
        /\ target' = t
        /\ IF session = "none"
           THEN Start(t, Scanned(NothingCached)) /\ UNCHANGED stopping
           ELSE stopping' = TRUE /\ UNCHANGED <<process, outstanding>>
    /\ Forget
    /\ alarm' = FALSE /\ died' = FALSE /\ chosen' = FALSE
    /\ UNCHANGED <<selected, shown>>

\* The user goes to a directory.
Browse ==
    /\ Asks /\ target # None
    /\ IF Listed(cache) = <<>> THEN UNCHANGED <<process, outstanding>>
       ELSE Send(Listed(cache))
    /\ UNCHANGED <<target, cache, stopping, wizard, died, late, chosen>>

\* refreshDir: invalidate, then browse.
RefreshDir ==
    /\ Asks /\ target # None
    /\ cache' = [cache EXCEPT !["dir"] = None] /\ late' = late \ {"dir"}
    /\ Send(<<"dir">>)
    /\ UNCHANGED <<target, stopping, wizard, died, chosen>>

\* chooseEngine: another engine, or none when it was the chosen one.
ChooseEngine ==
    /\ Asks /\ target # None
    /\ \E e \in Engines :
        IF selected = e
        THEN selected' = None /\ UNCHANGED <<process, outstanding>>
        ELSE selected' = e /\ Send(<<e>>)
    /\ shown' = None /\ chosen' = TRUE
    /\ UNCHANGED <<target, cache, stopping, alarm, died, late>>

-----------------------------------------------------------------------------
(***************************************************************************)
(* The session process: it connects, answers in order, and may end.        *)
(***************************************************************************)

Connect ==
    /\ session = "starting"
    /\ session' = "running"
    /\ UNCHANGED <<view, serves, inbox, outbox, wizard, history>>

CannotStart ==
    /\ session = "starting"
    /\ session' = "unlaunched"
    /\ UNCHANGED <<view, serves, inbox, outbox, wizard, history>>

\* Mutant: the session answers what was asked last first.
AnswerLast ==
    /\ session = "running" /\ inbox # <<>>
    /\ outbox' = Append(outbox, inbox[Len(inbox)])
    /\ inbox' = SubSeq(inbox, 1, Len(inbox) - 1)
    /\ UNCHANGED <<view, session, serves, wizard, history>>

\* runInspectSession: one line for a question.
Answer ==
    /\ session = "running" /\ inbox # <<>>
    /\ outbox' = Append(outbox, Head(inbox))
    /\ inbox' = Tail(inbox)
    /\ UNCHANGED <<view, session, serves, wizard, history>>

\* The connection or the process fails: a code that is not 0, or a crash.
Die ==
    /\ session = "running"
    /\ session' = "over"
    /\ died' = TRUE
    /\ UNCHANGED <<view, serves, inbox, outbox, wizard, late, chosen, asked>>

\* stopSession's terminate and kill take effect.
Terminated ==
    /\ stopping /\ session \in {"starting", "running"}
    /\ session' = "over"
    /\ UNCHANGED <<view, serves, inbox, outbox, wizard, history>>

-----------------------------------------------------------------------------
(***************************************************************************)
(* The handlers of its signals.                                            *)
(***************************************************************************)

\* Mutant: an answer of any type counts as a list of databases.
ShowsAny(k) == k

\* onDatabasesReady takes the databases of any engine.
Shows(k) == IF k \in Engines THEN k ELSE shown

\* dispatchLine, for the next line, and what the wizard does with it: the
\* listing's sizes are asked for, from a session whose input stopSession may
\* have closed already.
Dispatch ==
    /\ outbox # <<>> /\ session # "none"
    /\ LET k == Head(outbox)
           more == IF k = "dir" /\ cache["size"] = None THEN 1 ELSE 0
       IN  /\ outstanding' = (IF outstanding = 0 THEN 0 ELSE outstanding - 1) + more
           /\ inbox' = IF more = 1 /\ ~stopping /\ session # "over"
                       THEN Append(inbox, "size") ELSE inbox
           /\ cache' = IF k \in Cached THEN [cache EXCEPT ![k] = serves] ELSE cache
           /\ shown' = Shows(k)
           /\ late' = IF stopping /\ k \in Cached THEN late \union {k} ELSE late \ {k}
    /\ outbox' = Tail(outbox)
    /\ UNCHANGED <<target, stopping, session, serves, selected, alarm, died, chosen, asked>>

\* A process that has ended has delivered all it wrote.
Over == session = "over" /\ outbox = <<>>

\* Mutant: the end of a session that was stopped is an error like another.
StoppedAlarming ==
    /\ Over /\ stopping
    /\ Start(target, Scanned(cache))
    /\ stopping' = FALSE /\ alarm' = TRUE
    /\ UNCHANGED <<target, cache, selected, shown, history>>

\* finished, while stopSession waits; then the rest of startSession and of
\* scan, which finds cached what the old session has answered meanwhile.
Stopped ==
    /\ Over /\ stopping
    /\ Start(target, Scanned(cache))
    /\ stopping' = FALSE
    /\ UNCHANGED <<target, cache, wizard, history>>

Gone == session' = "none" /\ serves' = None /\ inbox' = <<>> /\ outbox' = <<>>

\* Mutant: the count is left as it is.
FinishedKeeping ==
    /\ Over /\ ~stopping
    /\ Gone
    /\ alarm' = TRUE /\ chosen' = FALSE
    /\ UNCHANGED <<view, selected, shown, died, late, asked>>

\* finished, of a session nobody stopped.
Finished ==
    /\ Over /\ ~stopping
    /\ Gone
    /\ outstanding' = 0 /\ alarm' = TRUE /\ chosen' = FALSE
    /\ UNCHANGED <<target, cache, stopping, selected, shown, died, late, asked>>

\* errorOccurred(FailedToStart), also while stopSession waits.
FailedToStart ==
    /\ session = "unlaunched"
    /\ alarm' = TRUE /\ died' = TRUE /\ chosen' = FALSE
    /\ IF stopping THEN Start(target, Scanned(cache)) /\ stopping' = FALSE
       ELSE Gone /\ outstanding' = 0 /\ UNCHANGED stopping
    /\ UNCHANGED <<target, cache, selected, shown, late, asked>>

-----------------------------------------------------------------------------
User == Scan \/ Browse \/ RefreshDir \/ ChooseEngine
Process == Connect \/ Answer \/ Terminated
Handle == Dispatch \/ Stopped \/ Finished \/ FailedToStart

Next == User \/ Process \/ CannotStart \/ Die \/ Handle

\* The session gets on and the event loop turns; a server that stops to
\* answer is outside of this, since nothing in the code ends the wait for it.
Spec == Init /\ [][Next]_vars /\ WF_vars(Process) /\ WF_vars(Handle)

-----------------------------------------------------------------------------
(***************************************************************************)
(* Properties.                                                             *)
(***************************************************************************)

\* The values the variables take.
TypeOK ==
    /\ target \in Servers \union {None} /\ serves \in Servers \union {None}
    /\ cache \in [Cached -> Servers \union {None}]
    /\ outstanding \in Nat /\ asked \in 0 .. MaxAsked
    /\ {stopping, alarm, died, chosen} \subseteq BOOLEAN
    /\ session \in {"none", "starting", "running", "unlaunched", "over"}
    /\ inbox \in Seq(Questions) /\ outbox \in Seq(Questions)
    /\ selected \in Engines \union {None} /\ shown \in Engines \union {None}
    /\ late \subseteq Cached

\* The busy indicator tells the truth: it counts the questions of this
\* session that are not answered, whatever an earlier session still owed, and
\* without a session nothing is waited for.
BusyCounts ==
    /\ session \in {"starting", "running"} /\ ~stopping
         => outstanding = Len(inbox) + Len(outbox)
    /\ session = "none" => outstanding = 0

\* What is cached is the current server's: never another server's directory
\* is offered for a backup, except for answers of the old session that are
\* delivered while stopSession waits for it, after the caches were cleared.
\* Those stay: nobody asks the new session for what is cached.
CacheOfTarget == \A k \in Cached \ late : cache[k] \in {None, target}

\* An error is shown only when a session ended by itself or could not be
\* started since the scan, not because the wizard switched servers.
AlarmMeant == alarm => died

\* Once the answers are in, the databases shown are those of the engine
\* selected, however often the user changed the selection meanwhile and
\* although nobody compares the engine an answer is about.  A selection from
\* before a scan or a failure is out of it: scan leaves it standing, with
\* what the former server answered.
SettledDatabases ==
    outstanding = 0 /\ chosen /\ selected # None => shown = selected

\* The busy indicator goes out: no question is waited for that nobody will
\* answer any more, whatever became of the session it was written to.
BusyEnds == outstanding > 0 ~> outstanding = 0

=============================================================================
