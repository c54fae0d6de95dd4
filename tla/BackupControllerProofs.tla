----------------------- MODULE BackupControllerProofs -----------------------
(***************************************************************************)
(* What holds of BackupController and of the processes below it            *)
(* (ProcessPipeline) for any number of engines, any length of a dump, any  *)
(* capacity of a pipe and any plans.                                       *)
(***************************************************************************)
EXTENDS BackupController, SequenceTheorems, TLAPS

-----------------------------------------------------------------------------
(***************************************************************************)
(* The inductive invariant: each engine with its children.                 *)
(***************************************************************************)

\* What an engine has open once its pipe and its output are.
Opens(k) ==
    (IF Locks(k) THEN {"lock", "output"} ELSE {})
        \union (IF Piped(k) THEN {"read", "write"} ELSE {})

\* An engine that has not got so far, or has ended, holds nothing; one that
\* waits holds at most the lock.
EngineHolds(r) ==
    /\ point[r] \in {"free", "spawned", "loaded", "exited"} => fds[r].engine = {}
    /\ point[r] \in {"opened", "half"} => fds[r].engine = Opens(kind[r])
    /\ point[r] \in {"waitFirst", "waitSecond", "checking"} => fds[r].engine \subseteq {"lock"}

\* Nor does a child that is not there; and a child that writes the temporary
\* file has the lock's descriptor.
ChildHolds(r, c) ==
    /\ ~Alive(r, c) => fds[r][c] = {}
    /\ "output" \in fds[r][c] => "lock" \in fds[r][c]

\* Which children there can be, by the point the engine has reached.
Forked(r) ==
    /\ point[r] \in {"free", "spawned", "loaded", "opened"}
         => child[r].first = "none" /\ child[r].second = "none"
    /\ point[r] = "half" => Piped(kind[r]) /\ child[r].second = "none"
                            /\ "output" \notin fds[r].first
    /\ point[r] \in {"half", "waitFirst", "waitSecond", "checking"}
         => child[r].first # "none"
    /\ point[r] \in {"opened", "half", "waitFirst", "waitSecond", "checking"}
         => kind[r] # "other"
    /\ point[r] = "waitSecond" => Piped(kind[r]) /\ ~Alive(r, "first")
    /\ point[r] = "checking" => ~Alive(r, "second")
    /\ ~Piped(kind[r]) => ~Alive(r, "second")

\* No block is lost or made up: what the first child has produced is in the
\* pipe or has arrived, and nothing moves before the output is open.
Conserved(r) ==
    /\ point[r] \in {"free", "spawned", "loaded"} => arrived[r] = None
    /\ point[r] \in {"opened", "half", "waitFirst", "waitSecond", "checking"}
         => arrived[r] # None
    /\ arrived[r] = None
         => sent[r] = 0 /\ pipe[r] = 0 /\ ~Alive(r, "first") /\ ~Alive(r, "second")
    /\ arrived[r] # None => sent[r] = pipe[r] + arrived[r]
    /\ ~Piped(kind[r]) => pipe[r] = 0

\* What a child's end says of the stream.  The write end of the pipe is the
\* link between the two: while the first has something to send it holds it,
\* so that the second does not take the end of the pipe for the end of it.
Streamed(r) ==
    /\ child[r].first = "ok" => sent[r] = Size
    /\ Piped(kind[r]) /\ Alive(r, "first") => "write" \in fds[r].first \/ sent[r] = Size
    /\ child[r].second = "ok" => pipe[r] = 0 /\ (Alive(r, "first") => sent[r] = Size)
    /\ point[r] = "half" => child[r].second # "ok"
    /\ point[r] = "checking" => sent[r] = Size /\ pipe[r] = 0

\* An engine that has ended well has left no child and half a stream nowhere.
EndedWell(r) ==
    code[r] = "ok" =>
        /\ point[r] = "exited" /\ ~Alive(r, "first") /\ ~Alive(r, "second")
        /\ kind[r] # "other" => arrived[r] \in {Size, None}

SlotInv(r) ==
    /\ EngineHolds(r) /\ ChildHolds(r, "first") /\ ChildHolds(r, "second")
    /\ Forked(r) /\ Conserved(r) /\ Streamed(r) /\ EndedWell(r)

\* The flock of the job belongs to one engine and its children.
LockExcl == \A r, s \in Slots : Locking(r) /\ Locking(s) => r = s

-----------------------------------------------------------------------------
(***************************************************************************)
(* The inductive invariant: the controller.                                *)
(***************************************************************************)

\* The flags of the controller and what they stand for.  A plan that is
\* active while nothing runs is one a failed launch has left; otherwise the
\* step that runs is the one m_planIndex names.
ControlInv ==
    /\ busy <=> current # None
    /\ current = None => ~meant
    /\ cancelled <=> meant \/ "cancel" \in stale
    /\ ~active => plan = <<>> /\ index = 0
    /\ active /\ current = None => "plan" \in stale
    /\ active /\ current # None /\ "plan" \notin stale => step = index

IInv == TypeOK /\ (\A r \in Slots : SlotInv(r)) /\ LockExcl /\ ControlInv

-----------------------------------------------------------------------------
(***************************************************************************)
(* Type correctness of the processes.                                      *)
(***************************************************************************)

Processes == {"engine", "first", "second"}
FdsType == [Slots -> [Processes -> SUBSET Descriptors]]
ChildType == [Slots -> [Children -> {"none", "running", "ok", "failed"}]]

\* The three processes of a slot.
LEMMA ProcessesAre == {"engine"} \union Children = Processes
BY DEF Children, Processes

\* What an engine opens are descriptors.
LEMMA OpensWhat == \A k : Opens(k) \in SUBSET Descriptors
BY DEF Opens, Descriptors

\* Exit and Killed keep the descriptors what they are.
LEMMA ExitType ==
    ASSUME PTypeOK, NEW r \in Slots, NEW c \in {"ok", "failed", "unlaunched", "none"}, Exit(r, c)
    PROVE  /\ point' \in [Slots -> Points] /\ fds' \in FdsType
           /\ code' \in [Slots -> {"none", "ok", "failed", "killed", "unlaunched"}]
<1>1. point' \in [Slots -> Points]
  BY DEF Exit, PTypeOK, Points
<1>2. code' \in [Slots -> {"none", "ok", "failed", "killed", "unlaunched"}]
  BY DEF Exit, PTypeOK
<1>3. fds \in FdsType
  BY ProcessesAre DEF PTypeOK, FdsType
<1>4. DOMAIN fds[r] = Processes
  BY <1>3 DEF FdsType
<1> DEFINE held == [x \in DOMAIN fds[r] |-> IF x = "engine" THEN {} ELSE fds[r][x] \ {"lock"}]
<1>5. held \in [Processes -> SUBSET Descriptors]
  BY <1>3, <1>4 DEF FdsType
<1>6. fds' = [fds EXCEPT ![r] = held]
  BY Zenon DEF Exit
<1> HIDE DEF held
<1>7. fds' \in FdsType
  BY <1>3, <1>5, <1>6 DEF FdsType
<1> QED
  BY <1>1, <1>2, <1>7

\* A fork keeps the types.
LEMMA ForksType ==
    ASSUME PTypeOK, NEW r \in Slots, NEW c \in Children, Forks(r, c)
    PROVE  child' \in ChildType /\ fds' \in FdsType
<1>1. fds \in FdsType
  BY ProcessesAre DEF PTypeOK, FdsType
<1>2. child' \in ChildType
  BY DEF Forks, PTypeOK, ChildType
<1>3. c \in Processes /\ "engine" \in Processes
  BY DEF Children, Processes
<1> DEFINE handed == fds[r].engine \intersect Keeps(kind[r], c)
           kept == IF c = "first" /\ Piped(kind[r]) THEN fds[r].engine
                   ELSE fds[r].engine \intersect {"lock"}
<1>4. fds' = [fds EXCEPT ![r] = [[fds[r] EXCEPT ![c] = handed] EXCEPT !["engine"] = kept]]
  BY <1>1, <1>3 DEF Forks, FdsType, Processes, Children
<1>5. handed \in SUBSET Descriptors /\ kept \in SUBSET Descriptors
  BY <1>1, <1>3 DEF FdsType
<1> HIDE DEF handed, kept
<1>6. fds' \in FdsType
  BY <1>1, <1>3, <1>4, <1>5 DEF FdsType
<1> QED
  BY <1>2, <1>6

\* So does the end of the children.
LEMMA ConcludesType ==
    ASSUME PTypeOK, NEW r \in Slots, NEW c \in {"ok", "failed", "none"}, Concludes(r, c)
    PROVE  /\ point' \in [Slots -> Points] /\ fds' \in FdsType /\ child' \in ChildType
           /\ code' \in [Slots -> {"none", "ok", "failed", "killed", "unlaunched"}]
<1>1. CASE Check(r)
  <2>1. fds \in FdsType
    BY ProcessesAre DEF PTypeOK, FdsType
  <2>2. fds' \in FdsType
    BY <1>1, <2>1 DEF Check, FdsType, Processes
  <2>3. child' \in ChildType
    BY <1>1 DEF Check, ChildType, PTypeOK, Children
  <2> QED
    BY <1>1, <2>2, <2>3 DEF Check, PTypeOK, Points
<1>2. CASE (Exit(r, c) \/ Exit(r, "failed")) /\ UNCHANGED child
  BY <1>2, ExitType DEF PTypeOK, ChildType
<1> QED
  BY <1>1, <1>2 DEF Concludes

\* Each step of an engine keeps its slot's types.
LEMMA EngineType ==
    ASSUME PTypeOK, NEW r \in Slots, EngineStep(r)
    PROVE  PTypeOK'
<1> USE ProcessesAre DEF PTypeOK, FdsType, ChildType
<1>1. CASE Exec(r)
  BY <1>1 DEF Exec, Goto, Points
<1>2. CASE Other(r) \/ Skip(r)
  BY <1>2, ExitType DEF Other, Skip
<1>3. CASE TakeLock(r)
  <2>1. fds' \in FdsType
    BY <1>3 DEF TakeLock, Processes, Descriptors
  <2>2. arrived' \in [Slots -> 0 .. Size \union {None}]
    BY <1>3, SizeAssumption DEF TakeLock
  <2>3. point' \in [Slots -> Points]
    BY <1>3 DEF TakeLock, Goto, Points
  <2> QED
    BY <1>3, <2>1, <2>2, <2>3 DEF TakeLock
<1>4. CASE OpenRestore(r)
  <2>1. fds' \in FdsType
    BY <1>4 DEF OpenRestore, Processes, Descriptors
  <2>2. arrived' \in [Slots -> 0 .. Size \union {None}]
    BY <1>4, SizeAssumption DEF OpenRestore
  <2>3. point' \in [Slots -> Points]
    BY <1>4 DEF OpenRestore, Goto, Points
  <2> QED
    BY <1>4, <2>1, <2>2, <2>3 DEF OpenRestore
<1>5. CASE OpenImport(r)
  <2>2. arrived' \in [Slots -> 0 .. Size \union {None}]
    BY <1>5, SizeAssumption DEF OpenImport
  <2>3. point' \in [Slots -> Points]
    BY <1>5 DEF OpenImport, Goto, Points
  <2> QED
    BY <1>5, <2>2, <2>3 DEF OpenImport
<1>6. CASE ForkFirst(r) \/ ForkOnly(r) \/ ForkLast(r)
  <2>1. child' \in ChildType /\ fds' \in FdsType
    BY <1>6, ForksType DEF ForkFirst, ForkOnly, ForkLast, Children
  <2>2. point' \in [Slots -> Points]
    BY <1>6 DEF ForkFirst, ForkOnly, ForkLast, Goto, Points
  <2> QED
    BY <1>6, <2>1, <2>2 DEF ForkFirst, ForkOnly, ForkLast
<1>7. CASE WaitFirst(r)
  <2>1. child[r].first \in {"ok", "failed", "none"}
    BY <1>7 DEF WaitFirst, Alive, Children
  <2>2. CASE Piped(kind[r])
    BY <1>7, <2>2 DEF WaitFirst, Goto, Points
  <2>3. CASE ~Piped(kind[r])
    BY <1>7, <2>1, <2>3, ConcludesType DEF WaitFirst
  <2> QED
    BY <2>2, <2>3
<1>8. CASE WaitSecond(r)
  <2>1. PipeResult(r) \in {"ok", "failed", "none"}
    BY <1>8 DEF WaitSecond, Alive, Children, PipeResult
  <2> QED
    BY <1>8, <2>1, ConcludesType DEF WaitSecond
<1>9. CASE WaitCheck(r)
  <2>1. child[r].first \in {"ok", "failed", "none"}
    BY <1>9 DEF WaitCheck, Alive, Children
  <2> QED
    BY <1>9, <2>1, ExitType DEF WaitCheck
<1> QED
  BY <1>1, <1>2, <1>3, <1>4, <1>5, <1>6, <1>7, <1>8, <1>9 DEF EngineStep

\* What the children do to their descriptors is to close them.
LEMMA EndsType ==
    ASSUME PTypeOK, NEW r \in Slots, NEW c \in Children, NEW e \in {"ok", "failed"}, Ends(r, c, e)
    PROVE  child' \in ChildType /\ fds' \in FdsType
<1>1. fds \in FdsType /\ c \in Processes
  BY ProcessesAre DEF PTypeOK, FdsType
<1>2. fds' \in FdsType
  BY <1>1 DEF Ends, FdsType
<1> QED
  BY <1>2 DEF Ends, PTypeOK, ChildType

\* What has been sent bounds what has arrived.
LEMMA ChildType1 ==
    ASSUME PTypeOK, NEW r \in Slots, Conserved(r), ChildStep(r)
    PROVE  PTypeOK'
<1> USE ProcessesAre, SizeAssumption, SlotAssumption DEF PTypeOK, FdsType, ChildType
<1>1. CASE Send(r)
  <2>1. sent' \in [Slots -> 0 .. Size] /\ arrived[r] # None /\ arrived[r] \in 0 .. Size
    BY <1>1 DEF Send, Conserved, Alive
  <2>2. CASE Piped(kind[r])
    <3>1. pipe' \in [Slots -> 0 .. Capacity] /\ arrived' = arrived
      <4>1. /\ pipe' = [pipe EXCEPT ![r] = pipe[r] + 1]
            /\ pipe[r] < Capacity /\ arrived' = arrived
        BY <1>1, <2>2 DEF Send
      <4>2. pipe[r] + 1 \in 0 .. Capacity
        BY <4>1
      <4> QED
        BY <4>1, <4>2
    <3> QED
      BY <1>1, <2>1, <3>1 DEF Send
  <2>3. CASE ~Piped(kind[r])
    <3>1. arrived[r] < Size
      BY <1>1, <2>1, <2>3 DEF Send, Conserved
    <3>2. arrived' \in [Slots -> 0 .. Size \union {None}] /\ pipe' = pipe
      <4>1. arrived' = [arrived EXCEPT ![r] = arrived[r] + 1] /\ pipe' = pipe
        BY <1>1, <2>3 DEF Send
      <4>2. arrived[r] + 1 \in 0 .. Size
        BY <2>1, <3>1
      <4> QED
        BY <4>1, <4>2
    <3> QED
      BY <1>1, <2>1, <3>2 DEF Send
  <2> QED
    BY <2>2, <2>3
<1>2. CASE SendEnds(r)
  <2>1. child' \in ChildType /\ fds' \in FdsType
    BY <1>2, EndsType DEF SendEnds, Children
  <2> QED
    BY <1>2, <2>1 DEF SendEnds
<1>3. CASE Receive(r)
  <2>1. /\ arrived[r] # None /\ arrived[r] \in 0 .. Size
        /\ arrived[r] < Size
    BY <1>3 DEF Receive, Conserved, Alive
  <2>2. arrived' = [arrived EXCEPT ![r] = arrived[r] + 1] /\ arrived[r] + 1 \in 0 .. Size
    BY <1>3, <2>1 DEF Receive
  <2>3. arrived' \in [Slots -> 0 .. Size \union {None}]
    BY <2>2
  <2>4. pipe' \in [Slots -> 0 .. Capacity]
    BY <1>3 DEF Receive
  <2> QED
    BY <1>3, <2>3, <2>4 DEF Receive
<1>4. CASE ReceiveEnds(r)
  <2>1. child' \in ChildType /\ fds' \in FdsType
    BY <1>4, EndsType DEF ReceiveEnds, Children
  <2> QED
    BY <1>4, <2>1 DEF ReceiveEnds
<1> QED
  BY <1>1, <1>2, <1>3, <1>4 DEF ChildStep

\* So does each failure.
LEMMA FaultType ==
    ASSUME PTypeOK, NEW r \in Slots, PipelineFault(r)
    PROVE  PTypeOK'
<1> USE ProcessesAre DEF PTypeOK, FdsType, ChildType
<1>1. CASE ExecFail(r) \/ Fail(r)
  BY <1>1, ExitType DEF ExecFail, Fail
<1>2. ASSUME NEW c \in Children, ChildFails(r, c)
      PROVE  PTypeOK'
  <2>1. child' \in ChildType /\ fds' \in FdsType
    BY <1>2, EndsType DEF ChildFails
  <2> QED
    BY <1>2, <2>1 DEF ChildFails
<1> QED
  BY <1>1, <1>2 DEF PipelineFault

\* And so do the three things the controller does to a slot.
LEMMA LaunchType ==
    ASSUME PTypeOK, NEW r \in Slots, NEW k \in Kinds, NEW n, Launch(r, k, n)
    PROVE  PTypeOK'
<1>1. child' \in ChildType
  BY DEF Launch, PTypeOK, ChildType
<1>2. sent' \in [Slots -> 0 .. Size] /\ pipe' \in [Slots -> 0 .. Capacity]
  BY SizeAssumption DEF Launch, PTypeOK
<1> QED
  BY <1>1, <1>2 DEF Launch, PTypeOK, Points, ChildType

LEMMA ReapType ==
    ASSUME PTypeOK, NEW r \in Slots, Reap(r)
    PROVE  PTypeOK'
<1>1. child' \in ChildType
  BY DEF Reap, PTypeOK, ChildType
<1>2. sent' \in [Slots -> 0 .. Size] /\ pipe' \in [Slots -> 0 .. Capacity]
  BY SizeAssumption DEF Reap, PTypeOK
<1> QED
  BY <1>1, <1>2 DEF Reap, PTypeOK, Points, ChildType, Kinds

LEMMA CancelType ==
    ASSUME PTypeOK, current \in Slots \union {None}, Cancel
    PROVE  PTypeOK'
<1>1. CASE point[current] = "exited"
  BY <1>1 DEF Cancel, PTypeOK
<1>2. CASE point[current] # "exited"
  <2>1. current \in Slots /\ Killed(current)
    BY <1>2 DEF Cancel
  <2>2. fds' \in FdsType
    BY <2>1, ProcessesAre DEF Killed, FdsType, PTypeOK, Processes
  <2> QED
    BY <2>1, <2>2, ProcessesAre DEF Cancel, Killed, PTypeOK, Points, FdsType
<1> QED
  BY <1>1, <1>2

-----------------------------------------------------------------------------
(***************************************************************************)
(* What a step does to the slot it is a step of, and to the others.        *)
(***************************************************************************)

\* Nothing changes for a slot.
Same(s) ==
    /\ kind'[s] = kind[s] /\ point'[s] = point[s] /\ code'[s] = code[s]
    /\ child'[s] = child[s] /\ fds'[s] = fds[s]
    /\ sent'[s] = sent[s] /\ pipe'[s] = pipe[s] /\ arrived'[s] = arrived[s]

\* A slot that has not changed keeps its invariant and its lock.
LEMMA SameSlot ==
    ASSUME NEW s \in Slots, SlotInv(s), Same(s)
    PROVE  SlotInv(s)' /\ (Locking(s)' => Locking(s))
<1>1. Locking(s)' = Locking(s)
  BY DEF Same, Locking, Holders
<1>2. /\ EngineHolds(s)' = EngineHolds(s)
      /\ ChildHolds(s, "first")' = ChildHolds(s, "first")
      /\ ChildHolds(s, "second")' = ChildHolds(s, "second")
  BY DEF Same, EngineHolds, ChildHolds, Alive
<1>3. Forked(s)' /\ Conserved(s)' /\ Streamed(s)' /\ EndedWell(s)'
  BY DEF Same, SlotInv, Forked, Conserved, Streamed, EndedWell, Alive
<1> QED
  BY <1>1, <1>2, <1>3 DEF SlotInv

\* Who has the lock, spelt out for the three processes.
LEMMA LockingIs ==
    ASSUME NEW r \in Slots
    PROVE  Locking(r) <=> \/ "lock" \in fds[r].engine
                          \/ "lock" \in fds[r].first \/ "lock" \in fds[r].second
BY DEF Locking, Holders, Children

\* The same after the step.
LEMMA LockingIsNext ==
    ASSUME NEW r \in Slots
    PROVE  Locking(r)' <=> \/ "lock" \in fds'[r].engine
                           \/ "lock" \in fds'[r].first \/ "lock" \in fds'[r].second
BY DEF Locking, Holders, Children

\* Only the slot whose step it is changes.
LEMMA Others ==
    ASSUME PTypeOK, NEW r \in Slots, NEW s \in Slots, r # s,
           EngineStep(r) \/ ChildStep(r) \/ PipelineFault(r)
    PROVE  Same(s)
<1> USE DEF PTypeOK, Same, Exit, Goto, Forks, Check, Ends
<1>1. CASE EngineStep(r)
  <2>1. CASE Exec(r) \/ Other(r) \/ Skip(r)
    BY <2>1 DEF Exec, Other, Skip
  <2>2. CASE TakeLock(r) \/ OpenRestore(r) \/ OpenImport(r)
    BY <2>2 DEF TakeLock, OpenRestore, OpenImport
  <2>3. CASE ForkFirst(r) \/ ForkLast(r) \/ ForkOnly(r)
    BY <2>3 DEF ForkFirst, ForkLast, ForkOnly
  <2>4. CASE WaitFirst(r) \/ WaitSecond(r) \/ WaitCheck(r)
    BY <2>4 DEF WaitFirst, WaitSecond, WaitCheck, Concludes
  <2> QED
    BY <1>1, <2>1, <2>2, <2>3, <2>4 DEF EngineStep
<1>2. CASE ChildStep(r)
  BY <1>2 DEF ChildStep, Send, SendEnds, Receive, ReceiveEnds
<1>3. CASE PipelineFault(r)
  BY <1>3 DEF PipelineFault, ExecFail, Fail, ChildFails
<1> QED
  BY <1>1, <1>2, <1>3

\* An engine that ends leaves the lock and its own descriptors.
LEMMA ExitEffect ==
    ASSUME PTypeOK, NEW r \in Slots, NEW c, Exit(r, c)
    PROVE  /\ point'[r] = "exited" /\ code'[r] = c
           /\ fds'[r].engine = {} /\ fds'[r].first = fds[r].first \ {"lock"}
           /\ fds'[r].second = fds[r].second \ {"lock"}
BY ProcessesAre DEF Exit, PTypeOK, Processes

\* An engine may end whenever no child of it writes the temporary file.
LEMMA ExitInv ==
    ASSUME PTypeOK, NEW r \in Slots, SlotInv(r), NEW c, Exit(r, c),
           UNCHANGED <<kind, child, sent, pipe, arrived>>,
           "output" \notin fds[r].first, "output" \notin fds[r].second,
           c = "ok" => /\ ~Alive(r, "first") /\ ~Alive(r, "second")
                       /\ kind[r] # "other" => arrived[r] \in {Size, None}
    PROVE  SlotInv(r)' /\ (Locking(r)' => Locking(r))
<1>1. Locking(r)' => Locking(r)
  BY ExitEffect, LockingIs, LockingIsNext
<1>2. /\ EngineHolds(r)' /\ ChildHolds(r, "first")' /\ ChildHolds(r, "second")'
  BY ExitEffect DEF SlotInv, EngineHolds, ChildHolds, Alive
<1>3. Forked(r)' /\ Conserved(r)' /\ EndedWell(r)'
  BY ExitEffect DEF SlotInv, Forked, Conserved, EndedWell, Alive
<1>4. Streamed(r)'
  BY ExitEffect DEF SlotInv, Streamed, Alive
<1> QED
  BY <1>1, <1>2, <1>3, <1>4 DEF SlotInv

\* A fork gives the child some of what the engine has open.
LEMMA ForksEffect ==
    ASSUME PTypeOK, NEW r \in Slots, NEW c \in Children, Forks(r, c)
    PROVE  /\ child'[r][c] = "running"
           /\ fds'[r][c] = fds[r].engine \intersect Keeps(kind[r], c)
           /\ fds'[r].engine = IF c = "first" /\ Piped(kind[r]) THEN fds[r].engine
                               ELSE fds[r].engine \intersect {"lock"}
           /\ \A d \in Children \ {c} : child'[r][d] = child[r][d] /\ fds'[r][d] = fds[r][d]
BY ProcessesAre DEF Forks, PTypeOK, Processes, Children

\* A child that ends has nothing open any more.
LEMMA EndsEffect ==
    ASSUME PTypeOK, NEW r \in Slots, NEW c \in Children, NEW e, Ends(r, c, e)
    PROVE  /\ child'[r][c] = e /\ fds'[r][c] = {} /\ fds'[r].engine = fds[r].engine
           /\ \A d \in Children \ {c} : child'[r][d] = child[r][d] /\ fds'[r][d] = fds[r][d]
BY ProcessesAre DEF Ends, PTypeOK, Processes, Children

-----------------------------------------------------------------------------
(***************************************************************************)
(* The steps of an engine.                                                 *)
(***************************************************************************)

\* The children are through: the engine ends, or checks what they wrote.
LEMMA ConcludesInv ==
    ASSUME PTypeOK, NEW r \in Slots, SlotInv(r), NEW c, Concludes(r, c),
           point[r] \in {"waitFirst", "waitSecond"},
           ~Alive(r, "first"), ~Alive(r, "second"),
           c = "ok" => sent[r] = Size /\ pipe[r] = 0,
           UNCHANGED <<kind, sent, pipe, arrived>>
    PROVE  SlotInv(r)' /\ (Locking(r)' => Locking(r))
<1>1. fds[r].first = {} /\ fds[r].second = {}
  BY DEF SlotInv, ChildHolds
<1>2. c = "ok" => arrived[r] = Size
  BY SizeAssumption, SlotAssumption DEF SlotInv, Conserved, PTypeOK
<1>3. ASSUME NEW e, Exit(r, e), UNCHANGED child, e = c \/ e = "failed"
      PROVE  SlotInv(r)' /\ (Locking(r)' => Locking(r))
  <2>1. e = "ok" => arrived[r] \in {Size, None}
    BY <1>2, <1>3
  <2> QED
    BY <1>1, <1>3, <2>1, ExitInv
<1>4. CASE c = "ok" /\ Check(r)
  <2>1. /\ point'[r] = "checking" /\ child'[r].first = "running"
        /\ child'[r].second = child[r].second /\ code' = code
        /\ fds'[r].first = fds[r].engine \intersect {"lock"}
        /\ fds'[r].second = fds[r].second /\ fds'[r].engine = fds[r].engine
    BY <1>4, ProcessesAre DEF Check, PTypeOK, Children, Processes
  <2>2. Locking(r)' => Locking(r)
    BY <2>1, LockingIs, LockingIsNext
  <2>3. EngineHolds(r)' /\ ChildHolds(r, "first")' /\ ChildHolds(r, "second")'
    BY <1>1, <2>1 DEF SlotInv, EngineHolds, ChildHolds, Alive
  <2>4. Forked(r)' /\ EndedWell(r)'
    BY <2>1 DEF SlotInv, Forked, EndedWell, Alive
  <2>5. Conserved(r)' /\ Streamed(r)'
    BY <1>4, <2>1, SizeAssumption DEF SlotInv, Conserved, Streamed, Alive
  <2> QED
    BY <2>2, <2>3, <2>4, <2>5 DEF SlotInv
<1> QED
  BY <1>3, <1>4 DEF Concludes

\* A step of an engine keeps its slot's invariant, and only TakeLock takes.
LEMMA EngineInv ==
    ASSUME PTypeOK, NEW r \in Slots, SlotInv(r), EngineStep(r)
    PROVE  SlotInv(r)' /\ (TakeLock(r) \/ (Locking(r)' => Locking(r)))
<1>1. CASE Exec(r)
  <2>1. /\ point[r] = "spawned" /\ point'[r] = "loaded"
        /\ UNCHANGED <<kind, code, child, fds, sent, pipe, arrived>>
    BY <1>1 DEF Exec, Goto, PTypeOK
  <2> QED
    BY <2>1, LockingIs, LockingIsNext
       DEF SlotInv, EngineHolds, ChildHolds, Forked, Conserved, Streamed, EndedWell, Alive
<1>2. CASE Other(r) \/ Skip(r)
  <2>1. point[r] = "loaded" /\ UNCHANGED <<kind, child, sent, pipe, arrived>>
    BY <1>2 DEF Other, Skip
  <2>2. PICK c : Exit(r, c)
    BY <1>2 DEF Other, Skip
  <2>3. /\ "output" \notin fds[r].first /\ "output" \notin fds[r].second
        /\ ~Alive(r, "first") /\ ~Alive(r, "second") /\ arrived[r] = None
    BY <2>1 DEF SlotInv, Forked, ChildHolds, Conserved, Alive
  <2> QED
    BY <2>1, <2>2, <2>3, ExitInv
<1>3. CASE TakeLock(r) \/ OpenRestore(r) \/ OpenImport(r)
  <2>1. /\ point[r] = "loaded" /\ point'[r] = "opened" /\ arrived'[r] = 0
        /\ UNCHANGED <<kind, code, child, sent, pipe>>
    BY <1>3 DEF TakeLock, OpenRestore, OpenImport, Goto, PTypeOK
  <2>2. /\ fds'[r].engine = Opens(kind[r])
        /\ fds'[r].first = fds[r].first /\ fds'[r].second = fds[r].second
    <3>1. fds[r].engine = {}
      BY <2>1 DEF SlotInv, EngineHolds
    <3> QED
      BY <1>3, <3>1, ProcessesAre
         DEF TakeLock, OpenRestore, OpenImport, PTypeOK, Processes, Opens, Locks, Piped
  <2>3. kind[r] # "other"
    BY <1>3 DEF TakeLock, OpenRestore, OpenImport, Locks
  <2>4. EngineHolds(r)' /\ ChildHolds(r, "first")' /\ ChildHolds(r, "second")'
    BY <2>1, <2>2 DEF SlotInv, EngineHolds, ChildHolds, Alive
  <2>5. Forked(r)' /\ Streamed(r)' /\ EndedWell(r)'
    BY <2>1, <2>2, <2>3 DEF SlotInv, Forked, Streamed, EndedWell, Alive
  <2>6. Conserved(r)'
    BY <2>1, SlotAssumption, SizeAssumption DEF SlotInv, Conserved, Alive
  <2>7. TakeLock(r) \/ (Locking(r)' => Locking(r))
    <3>1. ~TakeLock(r) => "lock" \notin Opens(kind[r])
      BY <1>3 DEF OpenRestore, OpenImport, Opens, Locks, Piped
    <3> QED
      BY <2>2, <3>1, LockingIs, LockingIsNext
  <2> QED
    BY <2>4, <2>5, <2>6, <2>7 DEF SlotInv
<1>4. CASE ForkFirst(r)
  <2>1. /\ point[r] = "opened" /\ point'[r] = "half" /\ Piped(kind[r])
        /\ Forks(r, "first") /\ UNCHANGED <<kind, code, sent, pipe, arrived>>
    BY <1>4 DEF ForkFirst, Goto, PTypeOK
  <2>2. /\ fds[r].engine = Opens(kind[r]) /\ kind[r] # "other"
        /\ child[r].first = "none" /\ child[r].second = "none"
    BY <2>1 DEF SlotInv, EngineHolds, Forked
  <2>3. /\ child'[r].first = "running" /\ child'[r].second = "none"
        /\ fds'[r].engine = Opens(kind[r]) /\ fds'[r].second = fds[r].second
        /\ fds'[r].first = Opens(kind[r]) \intersect Keeps(kind[r], "first")
    BY <2>1, <2>2, ForksEffect DEF Children
  <2>4. /\ "write" \in fds'[r].first /\ "output" \notin fds'[r].first
        /\ "lock" \in fds'[r].first => "lock" \in Opens(kind[r])
    BY <2>1, <2>3 DEF Opens, Keeps
  <2>5. Locking(r)' => Locking(r)
    BY <2>2, <2>3, <2>4, LockingIs, LockingIsNext
  <2>6. EngineHolds(r)' /\ ChildHolds(r, "first")' /\ ChildHolds(r, "second")'
    BY <2>1, <2>2, <2>3, <2>4 DEF SlotInv, EngineHolds, ChildHolds, Alive
  <2>7. Forked(r)' /\ EndedWell(r)'
    BY <2>1, <2>2, <2>3, <2>4 DEF SlotInv, Forked, EndedWell, Alive
  <2>8. Conserved(r)' /\ Streamed(r)'
    BY <2>1, <2>2, <2>3, <2>4 DEF SlotInv, Conserved, Streamed, Alive
  <2> QED
    BY <2>5, <2>6, <2>7, <2>8 DEF SlotInv
<1>5. CASE ForkLast(r)
  <2>1. /\ point[r] = "half" /\ point'[r] = "waitFirst"
        /\ Forks(r, "second") /\ UNCHANGED <<kind, code, sent, pipe, arrived>>
    BY <1>5 DEF ForkLast, Goto, PTypeOK
  <2>2. /\ fds[r].engine = Opens(kind[r]) /\ kind[r] # "other" /\ Piped(kind[r])
        /\ child[r].first # "none" /\ child[r].second = "none"
    BY <2>1 DEF SlotInv, EngineHolds, Forked
  <2>3. /\ child'[r].first = child[r].first /\ child'[r].second = "running"
        /\ fds'[r].engine = Opens(kind[r]) \intersect {"lock"}
        /\ fds'[r].first = fds[r].first
        /\ fds'[r].second = Opens(kind[r]) \intersect Keeps(kind[r], "second")
    BY <2>1, <2>2, ForksEffect DEF Children
  <2>4. "output" \in fds'[r].second => "lock" \in fds'[r].second
    BY <2>1, <2>3 DEF Opens, Keeps, Locks
  <2>5. Locking(r)' => Locking(r)
    BY <2>2, <2>3, LockingIs, LockingIsNext
  <2>6. EngineHolds(r)' /\ ChildHolds(r, "first")' /\ ChildHolds(r, "second")'
    BY <2>1, <2>3, <2>4 DEF SlotInv, EngineHolds, ChildHolds, Alive
  <2>7. Forked(r)' /\ EndedWell(r)'
    BY <2>1, <2>2, <2>3 DEF SlotInv, Forked, EndedWell, Alive
  <2>8. Conserved(r)' /\ Streamed(r)'
    BY <2>1, <2>2, <2>3 DEF SlotInv, Conserved, Streamed, Alive
  <2> QED
    BY <2>5, <2>6, <2>7, <2>8 DEF SlotInv
<1>6. CASE ForkOnly(r)
  <2>1. /\ point[r] = "opened" /\ point'[r] = "waitFirst" /\ ~Piped(kind[r])
        /\ Forks(r, "first") /\ UNCHANGED <<kind, code, sent, pipe, arrived>>
    BY <1>6 DEF ForkOnly, Goto, PTypeOK
  <2>2. /\ fds[r].engine = Opens(kind[r]) /\ kind[r] # "other"
        /\ child[r].first = "none" /\ child[r].second = "none"
    BY <2>1 DEF SlotInv, EngineHolds, Forked
  <2>3. /\ child'[r].first = "running" /\ child'[r].second = "none"
        /\ fds'[r].engine = Opens(kind[r]) \intersect {"lock"}
        /\ fds'[r].second = fds[r].second
        /\ fds'[r].first = Opens(kind[r]) \intersect Keeps(kind[r], "first")
    BY <2>1, <2>2, ForksEffect DEF Children
  <2>4. "output" \in fds'[r].first => "lock" \in fds'[r].first
    BY <2>1, <2>3 DEF Opens, Keeps, Locks
  <2>5. Locking(r)' => Locking(r)
    BY <2>2, <2>3, LockingIs, LockingIsNext
  <2>6. EngineHolds(r)' /\ ChildHolds(r, "first")' /\ ChildHolds(r, "second")'
    BY <2>1, <2>2, <2>3, <2>4 DEF SlotInv, EngineHolds, ChildHolds, Alive
  <2>7. Forked(r)' /\ EndedWell(r)'
    BY <2>1, <2>2, <2>3 DEF SlotInv, Forked, EndedWell, Alive
  <2>8. Conserved(r)' /\ Streamed(r)'
    BY <2>1, <2>2, <2>3 DEF SlotInv, Conserved, Streamed, Alive
  <2> QED
    BY <2>5, <2>6, <2>7, <2>8 DEF SlotInv
<1>7. CASE WaitFirst(r)
  <2>1. CASE Piped(kind[r])
    <3>1. /\ point[r] = "waitFirst" /\ point'[r] = "waitSecond" /\ ~Alive(r, "first")
          /\ UNCHANGED <<kind, code, child, fds, sent, pipe, arrived>>
      BY <1>7, <2>1 DEF WaitFirst, Goto, PTypeOK
    <3> QED
      BY <2>1, <3>1, LockingIs, LockingIsNext
         DEF SlotInv, EngineHolds, ChildHolds, Forked, Conserved, Streamed, EndedWell, Alive
  <2>2. CASE ~Piped(kind[r])
    <3>1. /\ point[r] = "waitFirst" /\ Concludes(r, child[r].first)
          /\ ~Alive(r, "first") /\ UNCHANGED <<kind, sent, pipe, arrived>>
      BY <1>7, <2>2 DEF WaitFirst
    <3>2. /\ ~Alive(r, "second")
          /\ child[r].first = "ok" => sent[r] = Size /\ pipe[r] = 0
      BY <2>2 DEF SlotInv, Forked, Conserved, Streamed
    <3> QED
      BY <3>1, <3>2, ConcludesInv
  <2> QED
    BY <2>1, <2>2
<1>8. CASE WaitSecond(r)
  <2>1. /\ point[r] = "waitSecond" /\ Concludes(r, PipeResult(r))
        /\ ~Alive(r, "second") /\ UNCHANGED <<kind, sent, pipe, arrived>>
    BY <1>8 DEF WaitSecond
  <2>2. ~Alive(r, "first") /\ child[r].first # "none"
    BY <2>1 DEF SlotInv, Forked
  <2>3. PipeResult(r) = "ok" => child[r].first = "ok" /\ child[r].second = "ok"
    BY <2>2 DEF PipeResult, PTypeOK, Alive, Children
  <2>4. PipeResult(r) = "ok" => sent[r] = Size /\ pipe[r] = 0
    BY <2>3 DEF SlotInv, Streamed
  <2> QED
    BY <2>1, <2>2, <2>4, ConcludesInv
<1>9. CASE WaitCheck(r)
  <2>1. /\ point[r] = "checking" /\ Exit(r, child[r].first)
        /\ ~Alive(r, "first") /\ UNCHANGED <<kind, child, sent, pipe, arrived>>
    BY <1>9 DEF WaitCheck
  <2>2. ~Alive(r, "second") /\ sent[r] = Size /\ pipe[r] = 0 /\ arrived[r] # None
    BY <2>1 DEF SlotInv, Forked, Streamed, Conserved
  <2>3. arrived[r] = Size
    BY <2>2, SizeAssumption DEF SlotInv, Conserved, PTypeOK
  <2>4. "output" \notin fds[r].first /\ "output" \notin fds[r].second
    BY <2>1, <2>2 DEF SlotInv, ChildHolds
  <2> QED
    BY <2>1, <2>2, <2>3, <2>4, ExitInv
<1> QED
  BY <1>1, <1>2, <1>3, <1>4, <1>5, <1>6, <1>7, <1>8, <1>9 DEF EngineStep

-----------------------------------------------------------------------------
(***************************************************************************)
(* The steps of the children, and what may go wrong.                       *)
(***************************************************************************)

\* A child ends: it may have done its work, or there is nothing to say.
LEMMA EndsInv ==
    ASSUME PTypeOK, NEW r \in Slots, SlotInv(r), NEW c \in Children, NEW e \in {"ok", "failed"},
           Alive(r, c), Ends(r, c, e), UNCHANGED <<kind, point, code, sent, pipe, arrived>>,
           c = "first" /\ e = "ok" => sent[r] = Size,
           c = "second" /\ e = "ok" =>
                /\ pipe[r] = 0 /\ (Alive(r, "first") => sent[r] = Size)
    PROVE  SlotInv(r)' /\ (Locking(r)' => Locking(r))
<1>1. /\ point'[r] = point[r] /\ code'[r] = code[r] /\ kind'[r] = kind[r]
      /\ sent'[r] = sent[r] /\ pipe'[r] = pipe[r] /\ arrived'[r] = arrived[r]
  OBVIOUS
<1>2. CASE c = "first"
  <2>1. /\ child'[r].first = e /\ fds'[r].first = {} /\ fds'[r].engine = fds[r].engine
        /\ child'[r].second = child[r].second /\ fds'[r].second = fds[r].second
    BY <1>2, EndsEffect DEF Children
  <2>2. Locking(r)' => Locking(r)
    BY <2>1, LockingIs, LockingIsNext
  <2>3. EngineHolds(r)' /\ ChildHolds(r, "first")' /\ ChildHolds(r, "second")'
    BY <1>1, <2>1 DEF SlotInv, EngineHolds, ChildHolds, Alive
  <2>4. Forked(r)' /\ EndedWell(r)'
    BY <1>1, <1>2, <2>1 DEF SlotInv, Forked, EndedWell, Alive
  <2>5. Conserved(r)' /\ Streamed(r)'
    BY <1>1, <1>2, <2>1 DEF SlotInv, Conserved, Streamed, Alive
  <2> QED
    BY <2>2, <2>3, <2>4, <2>5 DEF SlotInv
<1>3. CASE c = "second"
  <2>1. /\ child'[r].second = e /\ fds'[r].second = {} /\ fds'[r].engine = fds[r].engine
        /\ child'[r].first = child[r].first /\ fds'[r].first = fds[r].first
    BY <1>3, EndsEffect DEF Children
  <2>2. Locking(r)' => Locking(r)
    BY <2>1, LockingIs, LockingIsNext
  <2>3. EngineHolds(r)' /\ ChildHolds(r, "first")' /\ ChildHolds(r, "second")'
    BY <1>1, <2>1 DEF SlotInv, EngineHolds, ChildHolds, Alive
  <2>4. Forked(r)' /\ EndedWell(r)'
    BY <1>1, <1>3, <2>1 DEF SlotInv, Forked, EndedWell, Alive
  <2>5. Conserved(r)' /\ Streamed(r)'
    BY <1>1, <1>3, <2>1 DEF SlotInv, Conserved, Streamed, Forked, Alive
  <2> QED
    BY <2>2, <2>3, <2>4, <2>5 DEF SlotInv
<1> QED
  BY <1>2, <1>3 DEF Children

\* Blocks move; who holds what does not.
LEMMA MoveInv ==
    ASSUME PTypeOK, NEW r \in Slots, SlotInv(r), UNCHANGED <<kind, point, code, child, fds>>,
           Conserved(r)', Alive(r, "first") \/ Alive(r, "second"),
           sent'[r] = sent[r] \/ (Alive(r, "first") /\ sent[r] < Size),
           sent[r] = Size => sent'[r] = Size,
           pipe[r] = 0 => pipe'[r] = 0 \/ (Alive(r, "first") /\ sent[r] < Size)
    PROVE  SlotInv(r)' /\ (Locking(r)' => Locking(r))
<1>1. Locking(r)' => Locking(r)
  BY LockingIs, LockingIsNext
<1>2. EngineHolds(r)' /\ ChildHolds(r, "first")' /\ ChildHolds(r, "second")' /\ Forked(r)'
  BY DEF SlotInv, EngineHolds, ChildHolds, Forked, Alive
<1>3. EndedWell(r)'
  BY DEF SlotInv, EndedWell, Alive
<1>4. Streamed(r)'
  BY SizeAssumption DEF SlotInv, Streamed, Forked, Alive, PTypeOK
<1> QED
  BY <1>1, <1>2, <1>3, <1>4 DEF SlotInv

\* A step of a child keeps its slot's invariant and takes no lock.
LEMMA ChildInv ==
    ASSUME PTypeOK, NEW r \in Slots, SlotInv(r), ChildStep(r)
    PROVE  SlotInv(r)' /\ (Locking(r)' => Locking(r))
<1>1. /\ sent[r] \in 0 .. Size /\ pipe[r] \in 0 .. Capacity
      /\ arrived[r] \in 0 .. Size \union {None}
      /\ None \notin 0 .. Size /\ Size \in Nat /\ Capacity \in Nat
  BY SizeAssumption, SlotAssumption DEF PTypeOK
<1>2. CASE Send(r)
  <2>1. /\ Alive(r, "first") /\ sent[r] < Size /\ sent'[r] = sent[r] + 1
        /\ UNCHANGED <<kind, point, code, child, fds>>
        /\ \/ Piped(kind[r]) /\ pipe'[r] = pipe[r] + 1 /\ arrived'[r] = arrived[r]
           \/ ~Piped(kind[r]) /\ pipe'[r] = pipe[r] /\ arrived'[r] = arrived[r] + 1
    BY <1>2 DEF Send, PTypeOK, Alive
  <2>2. arrived[r] # None /\ arrived[r] \in Nat
    BY <1>1, <2>1 DEF SlotInv, Conserved
  <2>3. arrived'[r] # None
    <3>1. CASE Piped(kind[r])
      BY <2>1, <2>2, <3>1
    <3>2. CASE ~Piped(kind[r])
      <4>1. arrived[r] + 1 \in 0 .. Size
        BY <1>1, <2>1, <2>2, <3>2 DEF SlotInv, Conserved
      <4> QED
        BY <1>1, <2>1, <3>2, <4>1
    <3> QED
      BY <3>1, <3>2
  <2>4. Conserved(r)'
    <3>1. sent'[r] = pipe'[r] + arrived'[r]
      BY <1>1, <2>1, <2>2 DEF SlotInv, Conserved
    <3> QED
      BY <2>1, <2>2, <2>3, <3>1 DEF SlotInv, Conserved, Alive
  <2> QED
    BY <1>1, <2>1, <2>4, MoveInv
<1>3. CASE Receive(r)
  <2>1. /\ Alive(r, "second") /\ pipe[r] > 0 /\ sent'[r] = sent[r]
        /\ pipe'[r] = pipe[r] - 1 /\ arrived'[r] = arrived[r] + 1
        /\ UNCHANGED <<kind, point, code, child, fds>>
    BY <1>3 DEF Receive, PTypeOK, Alive
  <2>2. /\ arrived[r] # None /\ arrived[r] \in Nat /\ arrived[r] + 1 \in 0 .. Size
        /\ Piped(kind[r])
    BY <1>1, <2>1 DEF SlotInv, Conserved
  <2>3. arrived'[r] # None
    BY <1>1, <2>1, <2>2
  <2>4. Conserved(r)'
    <3>1. sent'[r] = pipe'[r] + arrived'[r]
      BY <1>1, <2>1, <2>2 DEF SlotInv, Conserved
    <3> QED
      BY <2>1, <2>2, <2>3, <3>1 DEF SlotInv, Conserved, Alive
  <2> QED
    BY <1>1, <2>1, <2>4, MoveInv
<1>4. CASE SendEnds(r)
  <2>1. PICK e \in {"ok", "failed"} :
          Ends(r, "first", e) /\ (e = "ok" => sent[r] = Size)
    BY <1>4 DEF SendEnds
  <2>2. Alive(r, "first") /\ UNCHANGED <<kind, point, code, sent, pipe, arrived>>
    BY <1>4 DEF SendEnds, Alive
  <2> QED
    BY <2>1, <2>2, EndsInv DEF Children
<1>5. CASE ReceiveEnds(r)
  <2>1. /\ Ends(r, "second", "ok") /\ Alive(r, "second") /\ pipe[r] = 0
        /\ Holders(r, "write") = {}
        /\ UNCHANGED <<kind, point, code, sent, pipe, arrived>>
    BY <1>5 DEF ReceiveEnds, Alive
  <2>2. "write" \notin fds[r].first
    BY <2>1 DEF Holders, Children
  <2>3. Piped(kind[r])
    BY <2>1 DEF SlotInv, Forked
  <2>4. Alive(r, "first") => sent[r] = Size
    BY <2>2, <2>3 DEF SlotInv, Streamed
  <2> QED
    BY <2>1, <2>4, EndsInv DEF Children
<1> QED
  BY <1>2, <1>3, <1>4, <1>5 DEF ChildStep

\* Nor does a failure.
LEMMA FaultInv ==
    ASSUME PTypeOK, NEW r \in Slots, SlotInv(r), PipelineFault(r)
    PROVE  SlotInv(r)' /\ (Locking(r)' => Locking(r))
<1>1. CASE ExecFail(r) \/ Fail(r)
  <2>1. /\ point[r] \in {"spawned", "loaded", "opened", "half"}
        /\ UNCHANGED <<kind, child, sent, pipe, arrived>>
    BY <1>1 DEF ExecFail, Fail
  <2>2. PICK c \in {"unlaunched", "failed"} : Exit(r, c)
    BY <1>1 DEF ExecFail, Fail
  <2>3. "output" \notin fds[r].first /\ "output" \notin fds[r].second
    BY <2>1 DEF SlotInv, Forked, ChildHolds, Alive
  <2> QED
    BY <2>1, <2>2, <2>3, ExitInv
<1>2. ASSUME NEW c \in Children, ChildFails(r, c)
      PROVE  SlotInv(r)' /\ (Locking(r)' => Locking(r))
  BY <1>2, EndsInv DEF ChildFails
<1> QED
  BY <1>1, <1>2 DEF PipelineFault

-----------------------------------------------------------------------------
(***************************************************************************)
(* What the controller does to the engines.                                *)
(***************************************************************************)

\* Nothing of the slot holds anything.
Empty(r) ==
    /\ fds[r].engine = {} /\ fds[r].first = {} /\ fds[r].second = {}

\* A slot that is free, or whose processes are all gone, is empty.
LEMMA VacantEmpty ==
    ASSUME NEW r \in Slots, SlotInv(r), point[r] = "free" \/ Gone(r)
    PROVE  Empty(r)
BY DEF SlotInv, EngineHolds, ChildHolds, Forked, Gone, Empty, Alive, Children

\* A slot as Launch and Reap leave it.
LEMMA BlankInv ==
    ASSUME NEW r \in Slots, Empty(r), UNCHANGED fds,
           point'[r] \in {"free", "spawned"}, code'[r] = "none",
           child'[r] = [c \in Children |-> "none"],
           sent'[r] = 0, pipe'[r] = 0, arrived'[r] = None
    PROVE  SlotInv(r)' /\ (Locking(r)' => Locking(r))
<1>1. child'[r].first = "none" /\ child'[r].second = "none"
  BY DEF Children
<1>2. Locking(r)' => Locking(r)
  BY LockingIs, LockingIsNext
<1>3. EngineHolds(r)' /\ ChildHolds(r, "first")' /\ ChildHolds(r, "second")'
  BY DEF Empty, EngineHolds, ChildHolds
<1>4. Forked(r)' /\ Conserved(r)' /\ EndedWell(r)'
  BY <1>1 DEF Forked, Conserved, EndedWell, Alive
<1>5. Streamed(r)'
  BY <1>1 DEF Streamed, Alive
<1> QED
  BY <1>2, <1>3, <1>4, <1>5 DEF SlotInv

\* A new engine begins in an empty slot.
LEMMA LaunchInv ==
    ASSUME PTypeOK, NEW r \in Slots, NEW k, NEW n, Launch(r, k, n),
           point[r] = "free" \/ Gone(r), \A s \in Slots : SlotInv(s)
    PROVE  \A s \in Slots : SlotInv(s)' /\ (Locking(s)' => Locking(s))
<1>1. TAKE s \in Slots
<1>2. CASE s = r
  <2>1. Empty(r)
    BY VacantEmpty
  <2>2. /\ point'[r] = "spawned" /\ code'[r] = "none" /\ UNCHANGED fds
        /\ child'[r] = [c \in Children |-> "none"]
        /\ sent'[r] = 0 /\ pipe'[r] = 0 /\ arrived'[r] = None
    BY DEF Launch, PTypeOK
  <2> QED
    BY <1>2, <2>1, <2>2, BlankInv
<1>3. CASE s # r
  <2>1. Same(s)
    BY <1>3 DEF Launch, Same, PTypeOK
  <2> QED
    BY <2>1, SameSlot
<1> QED
  BY <1>2, <1>3

\* A slot is emptied when nothing is left in it.
LEMMA ReapInv ==
    ASSUME PTypeOK, NEW r \in Slots, Reap(r), \A s \in Slots : SlotInv(s)
    PROVE  \A s \in Slots : SlotInv(s)' /\ (Locking(s)' => Locking(s))
<1>1. TAKE s \in Slots
<1>2. CASE s = r
  <2>1. Empty(r)
    BY VacantEmpty DEF Reap
  <2>2. /\ point'[r] = "free" /\ code'[r] = "none" /\ UNCHANGED fds
        /\ child'[r] = [c \in Children |-> "none"]
        /\ sent'[r] = 0 /\ pipe'[r] = 0 /\ arrived'[r] = None
    BY DEF Reap, PTypeOK
  <2> QED
    BY <1>2, <2>1, <2>2, BlankInv
<1>3. CASE s # r
  <2>1. Same(s)
    BY <1>3 DEF Reap, Same, PTypeOK
  <2> QED
    BY <2>1, SameSlot
<1> QED
  BY <1>2, <1>3

\* Only the engine is killed: what its children hold stays theirs.
LEMMA CancelInv ==
    ASSUME PTypeOK, current \in Slots \union {None}, Cancel, \A s \in Slots : SlotInv(s)
    PROVE  \A s \in Slots : SlotInv(s)' /\ (Locking(s)' => Locking(s))
<1>1. TAKE s \in Slots
<1>2. UNCHANGED <<kind, child, sent, pipe, arrived>> /\ current \in Slots
  BY DEF Cancel
<1>3. CASE point[current] # "exited" /\ s = current
  <2>1. /\ point'[s] = "exited" /\ code'[s] = "killed" /\ fds'[s].engine = {}
        /\ fds'[s].first = fds[s].first /\ fds'[s].second = fds[s].second
    BY <1>2, <1>3, ProcessesAre DEF Cancel, Killed, PTypeOK, Processes
  <2>2. Locking(s)' => Locking(s)
    BY <2>1, LockingIs, LockingIsNext
  <2>3. EngineHolds(s)' /\ ChildHolds(s, "first")' /\ ChildHolds(s, "second")'
    BY <1>2, <2>1 DEF SlotInv, EngineHolds, ChildHolds, Alive
  <2>4. Forked(s)' /\ Conserved(s)' /\ EndedWell(s)'
    BY <1>2, <2>1 DEF SlotInv, Forked, Conserved, EndedWell, Alive
  <2>5. Streamed(s)'
    BY <1>2, <2>1 DEF SlotInv, Streamed, Alive
  <2> QED
    BY <2>2, <2>3, <2>4, <2>5 DEF SlotInv
<1>4. CASE point[current] = "exited" \/ s # current
  <2>1. Same(s)
    BY <1>2, <1>4 DEF Cancel, Killed, Same, PTypeOK
  <2> QED
    BY <2>1, SameSlot
<1> QED
  BY <1>3, <1>4

\* Handlers that start nothing leave the slots alone.
LEMMA HandleSame ==
    ASSUME UNCHANGED pvars, \A s \in Slots : SlotInv(s)
    PROVE  \A s \in Slots : SlotInv(s)' /\ (Locking(s)' => Locking(s))
<1>1. TAKE s \in Slots
<1>2. Same(s)
  BY DEF pvars, Same
<1> QED
  BY <1>2, SameSlot

\* A step takes the lock for no engine, or for one when no engine has it.
LockMoves ==
    \/ \A s \in Slots : Locking(s)' => Locking(s)
    \/ \E r \in Slots : (\A s \in Slots : ~Locking(s)) /\ \A s \in Slots \ {r} : ~Locking(s)'

\* Every step keeps every slot's invariant, and whoever takes the lock is
\* alone with it.
LEMMA NextSlots ==
    ASSUME TypeOK, \A s \in Slots : SlotInv(s), LockExcl, [Next]_vars
    PROVE  (\A s \in Slots : SlotInv(s)') /\ LockExcl' /\ LockMoves
<1>1. PTypeOK /\ current \in Slots \union {None}
  BY DEF TypeOK
<1>2. ASSUME \A s \in Slots : SlotInv(s)' /\ (Locking(s)' => Locking(s))
      PROVE  (\A s \in Slots : SlotInv(s)') /\ LockExcl' /\ LockMoves
  BY <1>2 DEF LockExcl, LockMoves
<1>3. CASE Run
  <2>1. PICK r \in Slots, k \in Asked : point[r] = "free" /\ Launch(r, k, 0)
    BY <1>3 DEF Run
  <2> QED
    BY <1>1, <1>2, <2>1, LaunchInv
<1>4. CASE RunPlan
  <2>1. PICK r \in Slots, ks \in Plans : point[r] = "free" /\ Launch(r, ks[1], 1)
    BY <1>4 DEF RunPlan
  <2> QED
    BY <1>1, <1>2, <2>1, LaunchInv
<1>5. CASE Cancel
  BY <1>1, <1>2, <1>5, CancelInv
<1>6. CASE Advance
  <2>1. current \in Slots /\ Gone(current) /\ Launch(current, plan[index + 1], index + 1)
    BY <1>1, <1>6 DEF Advance, Ended
  <2> QED
    BY <1>1, <1>2, <2>1, LaunchInv
<1>7. CASE FinishCancelled \/ Finish \/ FailedToStart \/ UNCHANGED vars
  <2>1. UNCHANGED pvars
    BY <1>7 DEF FinishCancelled, Finish, FailedToStart, vars
  <2> QED
    BY <1>2, <2>1, HandleSame
<1>8. ASSUME NEW r \in Slots, Reap(r)
      PROVE  (\A s \in Slots : SlotInv(s)') /\ LockExcl' /\ LockMoves
  BY <1>1, <1>2, <1>8, ReapInv
<1>9. ASSUME NEW r \in Slots, EngineStep(r) \/ ChildStep(r) \/ PipelineFault(r)
      PROVE  (\A s \in Slots : SlotInv(s)') /\ LockExcl' /\ LockMoves
  <2>1. \A s \in Slots \ {r} : SlotInv(s)' /\ (Locking(s)' => Locking(s))
    BY <1>1, <1>9, Others, SameSlot
  <2>2. SlotInv(r)' /\ (TakeLock(r) \/ (Locking(r)' => Locking(r)))
    BY <1>1, <1>9, EngineInv, ChildInv, FaultInv
  <2>3. CASE TakeLock(r)
    <3>1. \A s \in Slots \ {r} : ~Locking(s)'
      BY <2>1, <2>3 DEF TakeLock
    <3>2. \A s \in Slots : ~Locking(s)
      BY <2>3 DEF TakeLock
    <3> QED
      BY <2>1, <2>2, <3>1, <3>2 DEF LockExcl, LockMoves
  <2>4. CASE Locking(r)' => Locking(r)
    BY <1>2, <2>1, <2>2, <2>4
  <2> QED
    BY <2>2, <2>3, <2>4
<1> QED
  BY <1>3, <1>4, <1>5, <1>6, <1>7, <1>8, <1>9 DEF Next, Handle, Engine, Child, Fault

-----------------------------------------------------------------------------
(***************************************************************************)
(* The controller.                                                         *)
(***************************************************************************)

Flags == busy \in BOOLEAN /\ cancelled \in BOOLEAN /\ active \in BOOLEAN /\ meant \in BOOLEAN

ControlType ==
    /\ current \in Slots \union {None}
    /\ plan \in Plans \union {<<>>} /\ index \in 0 .. Len(plan)
    /\ step \in Nat /\ stale \subseteq {"plan", "cancel"}

\* TypeOK in parts that suit one prover each.
LEMMA TypeParts == TypeOK <=> PTypeOK /\ Flags /\ ControlType
BY DEF TypeOK, Flags, ControlType

\* The same after the step.
LEMMA TypePartsNext == TypeOK' <=> PTypeOK' /\ Flags' /\ ControlType'
BY DEF TypeOK, Flags, ControlType

\* A plan has a first step, and every step is a kind of operation.
LEMMA PlanIs ==
    ASSUME NEW ks \in Plans
    PROVE  ks \in Seq(Kinds) /\ Len(ks) \in Nat /\ Len(ks) > 0
BY PlanAssumption, LenProperties, EmptySeq

\* Every step keeps the types of the processes.
LEMMA NextProcesses ==
    ASSUME TypeOK, \A s \in Slots : SlotInv(s), [Next]_vars
    PROVE  PTypeOK'
<1>1. PTypeOK /\ ControlType
  BY TypeParts
<1>2. CASE Run
  <2>1. PICK r \in Slots, k \in Asked : Launch(r, k, 0)
    BY <1>2 DEF Run
  <2> QED
    BY <1>1, <2>1, AskedAssumption, LaunchType
<1>3. CASE RunPlan
  <2>1. PICK r \in Slots, ks \in Plans : Launch(r, ks[1], 1)
    BY <1>3 DEF RunPlan
  <2>2. ks[1] \in Kinds
    BY PlanIs, ElementOfSeq
  <2> QED
    BY <1>1, <2>1, <2>2, LaunchType
<1>4. CASE Cancel
  BY <1>1, <1>4, CancelType DEF ControlType
<1>5. CASE Advance
  <2>1. current \in Slots /\ Launch(current, plan[index + 1], index + 1) /\ index < Len(plan)
    BY <1>1, <1>5 DEF Advance, Ended, More, ControlType
  <2>2. plan \in Seq(Kinds) /\ index \in Nat /\ Len(plan) \in Nat
    <3>1. plan \in Plans
      BY <1>1, <2>1 DEF ControlType
    <3> QED
      BY <1>1, <3>1, PlanIs DEF ControlType
  <2>3. plan[index + 1] \in Kinds
    BY <2>1, <2>2, ElementOfSeq
  <2> QED
    BY <1>1, <2>1, <2>3, LaunchType
<1>6. CASE FinishCancelled \/ Finish \/ FailedToStart \/ UNCHANGED vars
  BY <1>1, <1>6 DEF FinishCancelled, Finish, FailedToStart, vars, pvars, PTypeOK
<1>7. ASSUME NEW r \in Slots, Reap(r) \/ EngineStep(r) \/ ChildStep(r) \/ PipelineFault(r)
      PROVE  PTypeOK'
  BY <1>1, <1>7, ReapType, EngineType, ChildType1, FaultType DEF SlotInv
<1> QED
  BY <1>2, <1>3, <1>4, <1>5, <1>6, <1>7 DEF Next, Handle, Engine, Child, Fault

\* The steps that are not the controller's leave it alone.
Elsewhere ==
    \/ \E r \in Slots : Engine(r) \/ Child(r) \/ Fault(r) \/ Reap(r)
    \/ UNCHANGED vars

\* What happens in the slots leaves the controller alone.
LEMMA ElsewhereSame == ASSUME Elsewhere PROVE UNCHANGED <<cvars, history>>
BY DEF Elsewhere, Engine, Child, Fault, Reap, vars

\* Every step keeps the flags Boolean.
LEMMA NextFlags ==
    ASSUME Flags, [Next]_vars
    PROVE  Flags'
<1>1. CASE Run \/ RunPlan \/ Cancel \/ Handle
  BY <1>1, Zenon DEF Flags, Run, RunPlan, Cancel, Handle, FinishCancelled, Advance, Finish,
     FailedToStart, Launch, EndPlan, history
<1>2. CASE Elsewhere
  BY <1>2, ElsewhereSame DEF Flags, cvars, history
<1> QED
  BY <1>1, <1>2 DEF Next, Elsewhere

\* Every step keeps the types of the controller.
LEMMA NextControlType ==
    ASSUME ControlType, [Next]_vars
    PROVE  ControlType'
<1>1. /\ index \in Nat /\ Len(plan) \in Nat /\ Len(<<>>) = 0
  BY PlanIs, LenProperties DEF ControlType
<1>2. CASE Run
  BY <1>2 DEF Run, Launch, ControlType
<1>3. CASE RunPlan
  <2>1. PICK r \in Slots, ks \in Plans : Launch(r, ks[1], 1) /\ plan' = ks
    BY <1>3 DEF RunPlan
  <2>2. Len(ks) \in Nat /\ Len(ks) > 0
    BY PlanIs
  <2> QED
    BY <1>3, <2>1, <2>2 DEF RunPlan, Launch, ControlType
<1>4. CASE Cancel
  BY <1>1, <1>4 DEF Cancel, EndPlan, ControlType
<1>5. CASE FinishCancelled
  BY <1>1, <1>5 DEF FinishCancelled, EndPlan, ControlType
<1>6. CASE Advance
  <2>1. current' = current /\ plan' = plan /\ stale' = stale /\ step' = index + 1
        /\ index' = index + 1 /\ index < Len(plan)
    BY <1>6 DEF Advance, Launch, More
  <2> QED
    BY <1>1, <2>1 DEF ControlType
<1>7. CASE Finish
  BY <1>1, <1>7 DEF Finish, EndPlan, ControlType
<1>8. CASE FailedToStart
  <2>1. stale' \subseteq {"plan", "cancel"}
    BY <1>8 DEF FailedToStart
  <2> QED
    BY <1>8, <2>1 DEF FailedToStart, ControlType
<1>9. CASE Elsewhere
  BY <1>9, ElsewhereSame DEF ControlType, cvars, history
<1> QED
  BY <1>2, <1>3, <1>4, <1>5, <1>6, <1>7, <1>8, <1>9 DEF Next, Handle, Elsewhere

\* Every step keeps what the flags stand for.
LEMMA NextControl ==
    ASSUME TypeOK, ControlInv, [Next]_vars
    PROVE  ControlInv'
<1>1. Flags /\ ControlType /\ index \in Nat
  BY TypeParts, PlanIs, LenProperties DEF ControlType
<1>2. CASE Run
  <2>1. PICK r \in Slots, k \in Asked : Launch(r, k, 0)
    BY <1>2 DEF Run
  <2>2. /\ current = None /\ current' # None /\ busy' = TRUE /\ meant' = FALSE /\ step' = 0
        /\ UNCHANGED <<cancelled, active, plan, index, stale>>
    BY <1>2, <2>1, SlotAssumption DEF Run, Launch, ControlInv
  <2> QED
    BY <2>2 DEF ControlInv
<1>3. CASE RunPlan
  <2>1. PICK r \in Slots, ks \in Plans : Launch(r, ks[1], 1)
    BY <1>3 DEF RunPlan
  <2>2. /\ current = None /\ current' # None /\ busy' = TRUE /\ meant' = FALSE /\ step' = 1
        /\ index' = 1 /\ active' = TRUE /\ stale' = stale \ {"plan"} /\ cancelled' = cancelled
    BY <1>3, <2>1, SlotAssumption DEF RunPlan, Launch, ControlInv
  <2> QED
    BY <2>2 DEF ControlInv
<1>4. CASE Cancel
  BY <1>4 DEF Cancel, EndPlan, ControlInv
<1>5. CASE FinishCancelled
  BY <1>5 DEF FinishCancelled, EndPlan, ControlInv
<1>6. CASE Advance
  <2>1. /\ current' = current /\ current # None /\ ~cancelled /\ active
        /\ busy' = TRUE /\ meant' = FALSE /\ step' = index + 1 /\ index' = index + 1
        /\ UNCHANGED <<cancelled, active, plan, stale>>
    BY <1>6 DEF Advance, Launch, More, Ended
  <2> QED
    BY <2>1 DEF ControlInv
<1>7. CASE Finish
  BY <1>7 DEF Finish, EndPlan, ControlInv
<1>8. CASE FailedToStart
  BY <1>8 DEF FailedToStart, ControlInv
<1>9. CASE Elsewhere
  BY <1>9, ElsewhereSame DEF ControlInv, cvars, history
<1> QED
  BY <1>2, <1>3, <1>4, <1>5, <1>6, <1>7, <1>8, <1>9 DEF Next, Handle, Elsewhere

-----------------------------------------------------------------------------
(***************************************************************************)
(* The theorems.                                                           *)
(***************************************************************************)

\* Initially there is no engine, and the controller is free.
LEMMA InitInv == Init => IInv
<1>1. SUFFICES ASSUME Init PROVE IInv
  OBVIOUS
<1>2. PTypeOK
  BY <1>1, SizeAssumption DEF Init, PInit, PTypeOK, Kinds, Points, Blank, Children
<1>3. Flags
  BY <1>1, Zenon DEF Init, Flags
<1>4. ControlType
  BY <1>1, LenProperties DEF Init, ControlType
<1>5. ASSUME NEW r \in Slots
      PROVE  SlotInv(r) /\ ~Locking(r)
  <2>1. /\ point[r] = "free" /\ code[r] = "none" /\ sent[r] = 0 /\ pipe[r] = 0
        /\ arrived[r] = None /\ child[r].first = "none" /\ child[r].second = "none"
        /\ fds[r].engine = {} /\ fds[r].first = {} /\ fds[r].second = {}
    BY <1>1, <1>5 DEF Init, PInit, Blank, Children
  <2>2. EngineHolds(r) /\ ChildHolds(r, "first") /\ ChildHolds(r, "second") /\ ~Locking(r)
    BY <2>1, LockingIs DEF EngineHolds, ChildHolds
  <2>3. Forked(r) /\ Conserved(r) /\ EndedWell(r) /\ Streamed(r)
    BY <2>1 DEF Forked, Conserved, EndedWell, Streamed, Alive
  <2> QED
    BY <2>2, <2>3 DEF SlotInv
<1>6. LockExcl
  BY <1>5 DEF LockExcl
<1>7. ControlInv
  BY <1>1 DEF Init, ControlInv
<1> QED
  BY <1>2, <1>3, <1>4, <1>5, <1>6, <1>7, TypeParts DEF IInv

\* Every step keeps the invariant.
LEMMA NextInv == IInv /\ [Next]_vars => IInv'
<1>1. SUFFICES ASSUME IInv, [Next]_vars PROVE IInv'
  OBVIOUS
<1>2. TypeOK /\ (\A r \in Slots : SlotInv(r)) /\ LockExcl /\ ControlInv
  BY <1>1 DEF IInv
<1>3. TypeOK'
  BY <1>1, <1>2, NextProcesses, NextFlags, NextControlType, TypeParts, TypePartsNext
<1>4. (\A r \in Slots : SlotInv(r)') /\ LockExcl'
  BY <1>1, <1>2, NextSlots
<1>5. ControlInv'
  BY <1>1, <1>2, NextControl
<1> QED
  BY <1>3, <1>4, <1>5 DEF IInv

\* The invariant holds in every state.
THEOREM Invariance == Spec => []IInv
BY InitInv, NextInv, PTL DEF Spec

\* The controller, the engines it starts and their children keep the types
\* of what they share.
THEOREM TypeCorrect == Spec => []TypeOK
<1>1. IInv => TypeOK
  BY DEF IInv
<1> QED
  BY <1>1, Invariance, PTL

\* runPipelineToFile and its like: exit code 0 means that the whole stream
\* has arrived, for any length of it and any capacity of the pipe.
THEOREM ExitAlways == Spec => []ExitTrue
<1>1. IInv => ExitTrue
  BY DEF IInv, SlotInv, EndedWell, ExitTrue
<1> QED
  BY <1>1, Invariance, PTL

\* The inherited lock keeps the children of one engine away from a file
\* while those of another, killed or not, may still write it.
THEOREM OneWriterAlways == Spec => []OneWriter
<1>1. ASSUME IInv PROVE OneWriter
  <2>1. SUFFICES ASSUME NEW r \in Slots, NEW s \in Slots, NEW c \in Children, NEW d \in Children,
                        "output" \in fds[r][c], "output" \in fds[s][d]
                 PROVE  r = s
    BY DEF OneWriter
  <2>2. "lock" \in fds[r][c] /\ "lock" \in fds[s][d]
    BY <1>1, <2>1 DEF IInv, SlotInv, ChildHolds, Children
  <2>3. Locking(r) /\ Locking(s)
    BY <2>2, LockingIs DEF Children
  <2> QED
    BY <1>1, <2>3 DEF IInv, LockExcl
<1> QED
  BY <1>1, Invariance, PTL

\* m_cancelled is the user's word on the operation that runs, but for a
\* launch that failed after it.
THEOREM CancelAlways == Spec => []CancelMeant
<1>1. IInv => CancelMeant
  BY DEF IInv, ControlInv, CancelMeant
<1> QED
  BY <1>1, Invariance, PTL

\* handleProcessFinished starts the steps of a plan one after the other, a
\* later one only after the one before it has ended well.
THEOREM PlanAlways == Spec => PlanKept
<1>1. ASSUME IInv, [Next]_vars, step' > 1, step' # step
      PROVE  code[current] = "ok" /\ (step' = step + 1 \/ "plan" \in stale)
  <2>1. ControlType /\ ControlInv
    BY <1>1, TypeParts DEF IInv
  <2>2. CASE Advance
    BY <1>1, <2>1, <2>2 DEF Advance, Launch, More, Succeeded, Ended, ControlInv
  <2>3. CASE Run \/ RunPlan \/ FinishCancelled \/ Finish \/ FailedToStart
    BY <1>1, <2>3 DEF Run, RunPlan, Launch, FinishCancelled, Finish, FailedToStart
  <2>4. CASE Cancel
    BY <1>1, <2>4 DEF Cancel
  <2>5. CASE Elsewhere
    BY <1>1, <2>5, ElsewhereSame DEF history
  <2> QED
    BY <1>1, <2>2, <2>3, <2>4, <2>5 DEF Next, Handle, Elsewhere
<1> QED
  BY <1>1, Invariance, PTL DEF Spec, PlanKept

-----------------------------------------------------------------------------
(***************************************************************************)
(* The lock that the descriptors make.                                     *)
(***************************************************************************)

\* Whose engine or children have the flock: what FileLock calls its owner.
Owner == IF \E s \in Slots : Locking(s) THEN CHOOSE s \in Slots : Locking(s) ELSE None
Flock == INSTANCE FileLock WITH Runs <- Slots, owner <- Owner

\* The owner is the engine that has the lock, if any has.
LEMMA OwnerIs ==
    ASSUME LockExcl
    PROVE  /\ \A s \in Slots : Locking(s) => Owner = s
           /\ (\A s \in Slots : ~Locking(s)) => Owner = None
           /\ Owner \in Slots => Locking(Owner)
           /\ Owner \in Slots \union {None}
<1>1. CASE \E s \in Slots : Locking(s)
  <2>1. Owner \in Slots /\ Locking(Owner)
    BY <1>1 DEF Owner
  <2> QED
    BY <1>1, <2>1 DEF LockExcl
<1>2. CASE \A s \in Slots : ~Locking(s)
  BY <1>2, SlotAssumption DEF Owner
<1> QED
  BY <1>1, <1>2

\* Every step of the engines, their children and the controller takes the
\* lock, gives it back or leaves it where it is.
LEMMA StepLocks ==
    ASSUME LockExcl, LockExcl', LockMoves
    PROVE  [Flock!Next]_Owner
<1>1. \A s \in Slots : Locking(s)' => Owner' = s
  BY DEF LockExcl, Owner
<1>2. (\A s \in Slots : ~Locking(s)') => Owner' = None
  BY DEF Owner
<1>3. CASE \A s \in Slots : Locking(s)' => Locking(s)
  BY <1>1, <1>2, <1>3, OwnerIs DEF Flock!Next, Flock!Release
<1>4. CASE \E r \in Slots : (\A s \in Slots : ~Locking(s)) /\ \A s \in Slots \ {r} : ~Locking(s)'
  BY <1>1, <1>2, <1>4, OwnerIs DEF Flock!Next, Flock!Acquire
<1> QED
  BY <1>3, <1>4 DEF LockMoves

\* A lock file's descriptors, inherited over fork and exec and closed by an
\* exit, an exception or a kill of any of the processes, make a lock: it is
\* one engine's until the last process of that engine has let go of it.
THEOREM LockMade == Spec => Flock!Init /\ [][Flock!Next]_Owner
<1>1. Init => Flock!Init
  <2> SUFFICES ASSUME Init PROVE Owner = None
    BY DEF Flock!Init
  <2>1. \A s \in Slots : ~Locking(s)
    BY LockingIs DEF Init, PInit, Blank, Children
  <2> QED
    BY <2>1 DEF Owner
<1>2. IInv /\ IInv' /\ [Next]_vars => [Flock!Next]_Owner
  BY NextSlots, StepLocks DEF IInv
<1> QED
  BY <1>1, <1>2, Invariance, PTL DEF Spec

=============================================================================
