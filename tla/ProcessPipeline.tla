--------------------------- MODULE ProcessPipeline ---------------------------
(***************************************************************************)
(* A `vaultium` process (an engine) and the children it forks              *)
(* (src/core/process_runner.cpp): `dump | gzip` and a plain dump for a     *)
(* backup, `gunzip | client` or a client for a restore.                    *)
(*                                                                         *)
(* What decides how they end is who holds which descriptor: a reader ends  *)
(* when nobody holds the write end any more, a writer is ended by SIGPIPE  *)
(* when nobody holds the read end, and the flock on the job's lock file    *)
(* is held as long as any process has inherited its descriptor.  A fork    *)
(* copies the descriptors, exec keeps them, exit and a kill close those    *)
(* of one process.                                                         *)
(*                                                                         *)
(* Engines of one lock file share Slots, the bound on how many of them,    *)
(* with the children they left, are there at once.  A stream is Size       *)
(* blocks long and a pipe holds Capacity of them.                          *)
(***************************************************************************)
EXTENDS Naturals, FiniteSets

CONSTANTS
    Slots,     \* bound: engines, with their children, present at once
    Size,      \* bound: blocks of a dump or an archive
    Capacity,  \* blocks a pipe holds
    None       \* no slot, no file

ASSUME SizeAssumption == Size \in Nat \ {0} /\ Capacity \in Nat \ {0}
ASSUME SlotAssumption == Slots # {} /\ None \notin Slots /\ None \notin 0 .. Size

\* What an engine is started for: a compressed or a plain backup (that of tar
\* opens the temporary file itself, after the fork), a restore of a compressed
\* or a plain dump, or a command that forks no child of its own that writes
\* (verify, remote-test, remote).
Kinds == {"backup", "plain", "restore", "import", "other"}
Locks(k) == k \in {"backup", "plain"}
Piped(k) == k \in {"backup", "restore"}

Children == {"first", "second"}
Descriptors == {"lock", "read", "write", "output"}

VARIABLES
    kind,     \* what the engine of each slot does
    point,    \* how far it is
    code,     \* how it ended
    child,    \* the state, then the exit status, of its children
    fds,      \* the descriptors each of the three processes holds
    sent,     \* blocks the first child has produced
    pipe,     \* blocks in the pipe
    arrived   \* blocks in the temporary file, or applied to the database

pvars == <<kind, point, code, child, fds, sent, pipe, arrived>>

Points == {"free", "spawned", "loaded", "opened", "half",
           "waitFirst", "waitSecond", "checking", "exited"}

Blank(p) == [x \in {"engine"} \union Children |-> p]

PInit ==
    /\ kind = [r \in Slots |-> "other"]
    /\ point = [r \in Slots |-> "free"]
    /\ code = [r \in Slots |-> "none"]
    /\ child = [r \in Slots |-> [c \in Children |-> "none"]]
    /\ fds = [r \in Slots |-> Blank({})]
    /\ sent = [r \in Slots |-> 0]
    /\ pipe = [r \in Slots |-> 0]
    /\ arrived = [r \in Slots |-> None]

Alive(r, c) == child[r][c] = "running"
Holders(r, d) == {x \in {"engine"} \union Children : d \in fds[r][x]}
\* The flock of the job is held through a descriptor of this engine's.
Locking(r) == Holders(r, "lock") # {}

Goto(r, from, to) ==
    /\ point[r] = from
    /\ point' = [point EXCEPT ![r] = to]

\* The engine ends by itself: ~FileLock() calls flock(LOCK_UN), which frees
\* the lock for every descriptor of it, and its descriptors are closed.
Exit(r, c) ==
    /\ point' = [point EXCEPT ![r] = "exited"]
    /\ code' = [code EXCEPT ![r] = c]
    /\ fds' = [fds EXCEPT ![r] = [x \in DOMAIN @ |->
                   IF x = "engine" THEN {} ELSE @[x] \ {"lock"}]]

-----------------------------------------------------------------------------
(***************************************************************************)
(* The engine.                                                             *)
(***************************************************************************)

\* It is executed, or cannot be (no such file, no more processes).
Exec(r) ==
    /\ Goto(r, "spawned", "loaded")
    /\ UNCHANGED <<kind, code, child, fds, sent, pipe, arrived>>

ExecFail(r) ==
    /\ point[r] = "spawned"
    /\ Exit(r, "unlaunched")
    /\ UNCHANGED <<kind, child, sent, pipe, arrived>>

\* A command without a pipeline ends, well or not.
Other(r) ==
    /\ point[r] = "loaded" /\ kind[r] = "other"
    /\ \E c \in {"ok", "failed"} : Exit(r, c)
    /\ UNCHANGED <<kind, child, sent, pipe, arrived>>

\* runOnce finds the lock taken: a warning, and the exit code 0.
Skip(r) ==
    /\ point[r] = "loaded" /\ Locks(kind[r])
    /\ \E s \in Slots : Locking(s)
    /\ Exit(r, "ok")
    /\ UNCHANGED <<kind, child, sent, pipe, arrived>>

\* The flock; then pipe(), and open() of the temporary file, which truncates
\* it.  Nobody else could tell the three calls apart.
TakeLock(r) ==
    /\ Locks(kind[r])
    /\ \A s \in Slots : ~Locking(s)
    /\ Goto(r, "loaded", "opened")
    /\ fds' = [fds EXCEPT ![r].engine = {"lock", "output"}
                   \union (IF Piped(kind[r]) THEN {"read", "write"} ELSE {})]
    /\ arrived' = [arrived EXCEPT ![r] = 0]
    /\ UNCHANGED <<kind, code, child, sent, pipe>>

\* A restore takes no lock, and its client writes to the database.
OpenRestore(r) ==
    /\ kind[r] = "restore"
    /\ Goto(r, "loaded", "opened")
    /\ fds' = [fds EXCEPT ![r].engine = {"read", "write"}]
    /\ arrived' = [arrived EXCEPT ![r] = 0]
    /\ UNCHANGED <<kind, code, child, sent, pipe>>

\* A plain dump is the client's standard input: no other process writes it.
OpenImport(r) ==
    /\ kind[r] = "import"
    /\ Goto(r, "loaded", "opened")
    /\ arrived' = [arrived EXCEPT ![r] = 0]
    /\ UNCHANGED <<kind, code, child, fds, sent, pipe>>

\* Mutant: the lock file is opened with O_CLOEXEC.
KeepsNoLock(k, c) ==
    IF ~Piped(k) THEN {"output"}
    ELSE IF c = "first" THEN {"write"}
    ELSE IF k = "backup" THEN {"read", "output"} ELSE {"read"}

\* What a child keeps open over exec: its end of the pipe or the output, and
\* the lock's descriptor, which nobody closes.
Keeps(k, c) ==
    {"lock"} \union (IF ~Piped(k) THEN {"output"}
                     ELSE IF c = "first" THEN {"write"}
                     ELSE IF k = "backup" THEN {"read", "output"} ELSE {"read"})

\* Mutant: the parent keeps the ends of the pipe.
ForksOpen(r, c) ==
    /\ child' = [child EXCEPT ![r][c] = "running"]
    /\ fds' = [fds EXCEPT ![r][c] = fds[r].engine \intersect Keeps(kind[r], c)]

\* fork(), and dup2, close and execv in the child: nobody waits for what a
\* child is about to close.  After the last fork the parent closes its own
\* copies of everything but the lock.
Forks(r, c) ==
    /\ child' = [child EXCEPT ![r][c] = "running"]
    /\ fds' = [fds EXCEPT ![r][c] = fds[r].engine \intersect Keeps(kind[r], c),
                          ![r].engine = IF c = "first" /\ Piped(kind[r]) THEN @
                                        ELSE @ \intersect {"lock"}]

\* The first of two forks.
ForkFirst(r) ==
    /\ Piped(kind[r])
    /\ Goto(r, "opened", "half")
    /\ Forks(r, "first")
    /\ UNCHANGED <<kind, code, sent, pipe, arrived>>

ForkLast(r) ==
    /\ Goto(r, "half", "waitFirst") /\ Forks(r, "second")
    /\ UNCHANGED <<kind, code, sent, pipe, arrived>>

\* The only fork, when there is no pipe.
ForkOnly(r) ==
    /\ ~Piped(kind[r])
    /\ Goto(r, "opened", "waitFirst") /\ Forks(r, "first")
    /\ UNCHANGED <<kind, code, sent, pipe, arrived>>

\* VALIDATE_GZIP: `gzip -t` reads the file and has nothing to send, hence
\* stands in the place of the first child, which has sent it all.
Check(r) ==
    /\ point' = [point EXCEPT ![r] = "checking"]
    /\ child' = [child EXCEPT ![r].first = "running"]
    /\ fds' = [fds EXCEPT ![r].first = fds[r].engine \intersect {"lock"}]
    /\ UNCHANGED code

\* The children have ended with this result.  Whatever is not 0 is an
\* exception, hence the exit code 1; a backup may yet be checked, or fail in
\* what follows the dump.
Concludes(r, status) ==
    \/ Exit(r, status) /\ UNCHANGED child
    \/ status = "ok" /\ Locks(kind[r]) /\ Check(r)
    \/ status = "ok" /\ Locks(kind[r]) /\ Exit(r, "failed") /\ UNCHANGED child

\* waitpid of the first child; without a pipe its status is the result.
WaitFirst(r) ==
    /\ point[r] = "waitFirst" /\ ~Alive(r, "first")
    /\ IF Piped(kind[r])
       THEN Goto(r, "waitFirst", "waitSecond") /\ UNCHANGED <<code, child, fds>>
       ELSE Concludes(r, child[r].first)
    /\ UNCHANGED <<kind, sent, pipe, arrived>>

\* Mutant: the status of the last child of the pipe is the pipe's, as in a
\* shell without pipefail.
PipeResultLast(r) == child[r].second

\* The first failure of the two is the pipe's.
PipeResult(r) == IF child[r].first = "failed" THEN "failed" ELSE child[r].second

\* waitpid of the second.
WaitSecond(r) ==
    /\ point[r] = "waitSecond" /\ ~Alive(r, "second")
    /\ Concludes(r, PipeResult(r))
    /\ UNCHANGED <<kind, sent, pipe, arrived>>

\* waitpid of `gzip -t`.
WaitCheck(r) ==
    /\ point[r] = "checking" /\ ~Alive(r, "first")
    /\ Exit(r, child[r].first)
    /\ UNCHANGED <<kind, child, sent, pipe, arrived>>

\* pipe, open or a fork fails: the ends are closed and an exception ends the
\* engine, without a word to a child it has forked already.
Fail(r) ==
    /\ kind[r] # "other"
    /\ \/ point[r] \in {"loaded", "opened"}
       \/ point[r] = "half" /\ Piped(kind[r])
    /\ Exit(r, "failed")
    /\ UNCHANGED <<kind, child, sent, pipe, arrived>>

\* SIGKILL to the engine alone.  Its children keep the descriptors they
\* inherited, the lock's among them.
Killed(r) ==
    /\ point' = [point EXCEPT ![r] = "exited"]
    /\ code' = [code EXCEPT ![r] = "killed"]
    /\ fds' = [fds EXCEPT ![r].engine = {}]

-----------------------------------------------------------------------------
(***************************************************************************)
(* The children.                                                           *)
(***************************************************************************)

Ends(r, c, status) ==
    /\ child' = [child EXCEPT ![r][c] = status]
    /\ fds' = [fds EXCEPT ![r][c] = {}]

\* The first child produces a block, into the pipe or into the file.
Send(r) ==
    /\ child[r].first = "running" /\ sent[r] < Size
    /\ sent' = [sent EXCEPT ![r] = @ + 1]
    /\ IF Piped(kind[r])
       THEN /\ pipe[r] < Capacity /\ Holders(r, "read") # {}
            /\ pipe' = [pipe EXCEPT ![r] = @ + 1]
            /\ UNCHANGED arrived
       ELSE /\ arrived' = [arrived EXCEPT ![r] = @ + 1]
            /\ UNCHANGED pipe
    /\ UNCHANGED <<kind, point, code, child, fds>>

\* It has produced everything, or nobody reads (SIGPIPE).
SendEnds(r) ==
    /\ child[r].first = "running"
    /\ \/ sent[r] = Size /\ Ends(r, "first", "ok")
       \/ /\ sent[r] < Size /\ Piped(kind[r]) /\ Holders(r, "read") = {}
          /\ Ends(r, "first", "failed")
    /\ UNCHANGED <<kind, point, code, sent, pipe, arrived>>

\* The second child consumes a block.
Receive(r) ==
    /\ child[r].second = "running" /\ pipe[r] > 0
    /\ pipe' = [pipe EXCEPT ![r] = @ - 1]
    /\ arrived' = [arrived EXCEPT ![r] = @ + 1]
    /\ UNCHANGED <<kind, point, code, child, fds, sent>>

\* It reads to the end of the pipe: nobody can write to it any more.
ReceiveEnds(r) ==
    /\ child[r].second = "running" /\ pipe[r] = 0 /\ Holders(r, "write") = {}
    /\ Ends(r, "second", "ok")
    /\ UNCHANGED <<kind, point, code, sent, pipe, arrived>>

\* A child fails, or cannot be executed and exits with 127.
ChildFails(r, c) ==
    /\ Alive(r, c)
    /\ Ends(r, c, "failed")
    /\ UNCHANGED <<kind, point, code, sent, pipe, arrived>>

-----------------------------------------------------------------------------
EngineStep(r) ==
    \/ Exec(r) \/ Other(r) \/ Skip(r) \/ TakeLock(r) \/ OpenRestore(r) \/ OpenImport(r)
    \/ ForkFirst(r) \/ ForkLast(r) \/ ForkOnly(r)
    \/ WaitFirst(r) \/ WaitSecond(r) \/ WaitCheck(r)

ChildStep(r) ==
    \/ Send(r) \/ SendEnds(r) \/ Receive(r) \/ ReceiveEnds(r)

\* What may go wrong is nobody's duty.
PipelineFault(r) ==
    ExecFail(r) \/ Fail(r) \/ \E c \in Children : ChildFails(r, c)

-----------------------------------------------------------------------------
PTypeOK ==
    /\ kind \in [Slots -> Kinds] /\ point \in [Slots -> Points]
    /\ code \in [Slots -> {"none", "ok", "failed", "killed", "unlaunched"}]
    /\ child \in [Slots -> [Children -> {"none", "running", "ok", "failed"}]]
    /\ fds \in [Slots -> [{"engine"} \union Children -> SUBSET Descriptors]]
    /\ sent \in [Slots -> 0 .. Size] /\ pipe \in [Slots -> 0 .. Capacity]
    /\ arrived \in [Slots -> 0 .. Size \union {None}]

\* An engine that exits with 0 has brought the whole stream to where it
\* belongs, whatever happened to which child in which order, unless it
\* skipped its work over a taken lock and touched nothing.
ExitTrue ==
    \A r \in Slots :
        code[r] = "ok" /\ kind[r] # "other" => arrived[r] \in {Size, None}

\* Two engines' children never write a temporary file at once, not even
\* when one engine was killed and its children go on: two runs of one second
\* would mix their dumps in one file.
OneWriter ==
    \A r, s \in Slots, c, d \in Children :
        /\ Alive(r, c) /\ "output" \in fds[r][c]
        /\ Alive(s, d) /\ "output" \in fds[s][d]
        => r = s

\* No child is left waiting for a pipe for ever: neither by a forgotten
\* descriptor nor by the death of its neighbour, its parent or both.
ChildrenEnd == \A r \in Slots : []<>(\A c \in Children : ~Alive(r, c))

=============================================================================
