----------------------------- MODULE RemoteBackup -----------------------------
(***************************************************************************)
(* runRemoteBackup (src/remote/remote_client.cpp) with the SSH client and  *)
(* the provisioning it calls: a process connects to a server, has a shell  *)
(* there dump into a file, downloads the file over SFTP and removes it     *)
(* from the server.                                                        *)
(*                                                                         *)
(* A remote run takes no lock.  Its file has the same name on both sides,  *)
(* which ends in the second the run began: two runs of one job and second  *)
(* share both files.  The shell on the server is a process of its own and  *)
(* goes on when the connection breaks or the client dies.                  *)
(*                                                                         *)
(* libssh2 reports the exit status 0 when it has received none: because    *)
(* the connection broke, or because a signal ended the shell.              *)
(***************************************************************************)
EXTENDS Naturals

CONSTANTS
    Clients,     \* the processes that run remote backups of one job
    Removers,    \* those with REMOTE_REMOVE_AFTER_DOWNLOAD
    Provisions,  \* those with REMOTE_PROVISION_ENABLED
    Data,        \* what a complete dump may contain
    None,
    Torn,        \* the content of a file written in part
    Pipefail,    \* whether a dump that fails fails the command
    Silences,    \* whether the server may stop to answer
    Hangs,       \* whether a command on the server may never end
    MaxTime,     \* bound: the clock stops here
    MaxFaults    \* bound: so many things go wrong

Names == 0 .. MaxTime
Contents == Data \union {Torn, None}

ASSUME ClientAssumption == Removers \subseteq Clients /\ Provisions \subseteq Clients
ASSUME NullAssumption == None \notin Names /\ None \notin Data /\ Torn \notin Data /\ Torn # None
ASSUME SwitchAssumption == Pipefail \in BOOLEAN /\ Silences \in BOOLEAN /\ Hangs \in BOOLEAN
ASSUME BoundAssumption == MaxTime \in Nat /\ MaxFaults \in Nat

VARIABLES
    now,       \* the second the clock shows
    server,    \* the files in REMOTE_SERVER_BACKUP_DIR
    local,     \* the files in REMOTE_DOWNLOAD_DIR
    pc,        \* the point of runRemoteBackup each client has reached
    name,      \* the name of its file
    link,      \* its connection
    seen,      \* what the file on the server held when it was opened
    hung,      \* those whose present command on the server never ends
    shell,     \* its command on the server: "none", "running" or the status
    output,    \* the file that command writes
    used,      \* history: the names of runs that have begun
    crossed,   \* history: those of more than one run
    reported,  \* history: those of runs that reported success
    kept,      \* history: those of runs that failed, or left their file as told or
               \* because it could not be removed
    unnoticed, \* history: the names of files a signal to the shell or a full local
               \* disk has cut, which nothing tells the client
    faults     \* how many things went wrong

files == <<server, local>>
locals == <<pc, name, link, seen, hung>>
remote == <<shell, output>>
history == <<used, crossed, reported, kept, unnoticed>>
vars == <<now, files, locals, remote, history, faults>>

Init ==
    /\ now = 0
    /\ server = [n \in Names |-> None]
    /\ local = [n \in Names |-> None]
    /\ pc = [c \in Clients |-> "idle"]
    /\ name = [c \in Clients |-> None]
    /\ link = [c \in Clients |-> "down"]
    /\ seen = [c \in Clients |-> None]
    /\ hung = {}
    /\ shell = [c \in Clients |-> "none"]
    /\ output = [c \in Clients |-> None]
    /\ used = {} /\ crossed = {} /\ reported = {} /\ kept = {} /\ unnoticed = {}
    /\ faults = 0

Goto(c, from, to) ==
    /\ pc[c] = from
    /\ pc' = [pc EXCEPT ![c] = to]

\* One more thing goes wrong.
Fault == faults < MaxFaults /\ faults' = faults + 1

\* runRemoteBackup is left, ~SshClient() closes the session.  A dump that
\* hangs goes on hanging.
Leave(c) ==
    /\ pc' = [pc EXCEPT ![c] = "idle"]
    /\ name' = [name EXCEPT ![c] = None]
    /\ link' = [link EXCEPT ![c] = "down"]
    /\ seen' = [seen EXCEPT ![c] = None]
    /\ hung' = IF shell[c] = "running" THEN hung ELSE hung \ {c}

Succeed(c) ==
    /\ Leave(c)
    /\ reported' = reported \union {name[c]}

Fail(c) ==
    /\ Leave(c)
    /\ kept' = kept \union {name[c]}
    /\ UNCHANGED <<used, crossed, reported, unnoticed>>

\* The session ends, and nobody reads the status of the command any more.
Abandon(c) ==
    /\ shell' = [shell EXCEPT ![c] = IF @ = "running" THEN @ ELSE "none"]
    /\ output' = [output EXCEPT ![c] = IF shell[c] = "running" THEN @ ELSE None]

-----------------------------------------------------------------------------
(***************************************************************************)
(* The client.                                                             *)
(***************************************************************************)

\* Mutant: the stamp is rounded up.
BeginAhead(c) ==
    /\ Goto(c, "idle", "connect")
    /\ shell[c] = "none"
    /\ name' = [name EXCEPT ![c] = now + 1]
    /\ used' = used \union {now}
    /\ UNCHANGED <<now, files, link, seen, hung, remote, crossed, reported, kept, unnoticed, faults>>

\* The file is named.  A client whose command still runs on the server is
\* not used again: the others stand for its next run.
Begin(c) ==
    /\ Goto(c, "idle", "connect")
    /\ shell[c] = "none"
    /\ name' = [name EXCEPT ![c] = now]
    /\ used' = used \union {now}
    /\ crossed' = IF now \in used THEN crossed \union {now} ELSE crossed
    /\ UNCHANGED <<now, files, link, seen, hung, remote, reported, kept, unnoticed, faults>>

\* connect: the socket, the handshake, the host key, the authentication.
Connect(c) ==
    /\ Goto(c, "connect", IF c \in Provisions THEN "provision" ELSE "execute")
    /\ link[c] = "down"
    /\ link' = [link EXCEPT ![c] = "up"]
    /\ UNCHANGED <<now, files, name, seen, hung, remote, history, faults>>

\* provisionRemoteServer: directories, credentials, checks of the tools; the
\* first that fails is an exception.  It leaves the backups alone.
Provision(c) ==
    /\ Goto(c, "provision", "execute")
    /\ link[c] = "up" /\ c \notin hung
    /\ UNCHANGED <<now, files, name, link, seen, hung, remote, history, faults>>

\* execute(remoteCommand): the shell opens, and empties, the file.
Execute(c) ==
    /\ Goto(c, "execute", "await")
    /\ link[c] = "up"
    /\ server' = [server EXCEPT ![name[c]] = Torn]
    /\ shell' = [shell EXCEPT ![c] = "running"]
    /\ output' = [output EXCEPT ![c] = name[c]]
    /\ UNCHANGED <<now, local, name, link, seen, hung, history, faults>>

\* Mutant: the exit code is not looked at.
AwaitUnchecked(c) ==
    /\ Goto(c, "await", "open")
    /\ link[c] = "broken" \/ (link[c] = "up" /\ shell[c] # "running")
    /\ Abandon(c)
    /\ UNCHANGED <<now, files, name, link, seen, hung, history, faults>>

\* Mutant: a connection that broke is waited for.
AwaitAgain(c) ==
    \/ pc[c] = "await" /\ link[c] = "broken" /\ UNCHANGED vars
    \/ /\ pc[c] = "await" /\ link[c] = "up" /\ shell[c] # "running"
       /\ \/ shell[c] = "ok" /\ Goto(c, "await", "open") /\ UNCHANGED <<name, link, seen, hung, history>>
          \/ shell[c] = "failed" /\ Fail(c)
       /\ Abandon(c)
       /\ UNCHANGED <<now, files, faults>>

\* execute returns: the output has ended, by the end of the command or of
\* the connection.
Await(c) ==
    /\ pc[c] = "await"
    /\ \/ /\ link[c] = "broken" \/ (link[c] = "up" /\ shell[c] = "ok")
          /\ Goto(c, "await", "open")
          /\ UNCHANGED <<name, link, seen, hung, history>>
       \/ /\ link[c] = "up" /\ shell[c] = "failed"
          /\ Fail(c)
    /\ Abandon(c)
    /\ UNCHANGED <<now, files, faults>>

\* downloadFile opens the file on the server and empties the local one.
Open(c) ==
    /\ Goto(c, "open", "read")
    /\ link[c] = "up"
    /\ server[name[c]] # None
    /\ seen' = [seen EXCEPT ![c] = server[name[c]]]
    /\ local' = [local EXCEPT ![name[c]] = Torn]
    /\ UNCHANGED <<now, server, name, link, hung, remote, history, faults>>

\* What the client reads: the file it opened, also after its removal, unless
\* another run has emptied it meanwhile.
Received(c) == IF server[name[c]] \in {seen[c], None} THEN seen[c] ELSE Torn

\* Mutant: what is left of the file after the first block is not read.
ReadBlock(c) ==
    /\ Goto(c, "read", "remove")
    /\ link[c] = "up"
    /\ UNCHANGED <<now, files, name, link, seen, hung, remote, history, faults>>

\* The file is read to its end and written.  Nobody asks whether the writes
\* succeeded, nor compares the sizes: on a full disk the run goes on.
Read(c) ==
    /\ Goto(c, "read", "remove")
    /\ link[c] = "up"
    /\ \/ /\ local' = [local EXCEPT ![name[c]] = Received(c)]
          /\ UNCHANGED <<unnoticed, faults>>
       \/ /\ Fault
          /\ unnoticed' = unnoticed \union {name[c]}
          /\ UNCHANGED local
    /\ UNCHANGED <<now, server, name, link, seen, hung, remote, used, crossed, reported, kept>>

\* Mutant: the option is taken the wrong way round.
RemoveNot(c) ==
    /\ pc[c] = "remove"
    /\ link[c] = "up"
    /\ server' = IF c \in Removers THEN server ELSE [server EXCEPT ![name[c]] = None]
    /\ kept' = IF c \in Removers THEN kept ELSE kept \union {name[c]}
    /\ Succeed(c)
    /\ UNCHANGED <<now, local, remote, used, crossed, unnoticed, faults>>

\* removeRemoteFile; rm may be refused, which is only warned about, and is
\* taken to have succeeded when its status is lost.  The run reports success.
Remove(c) ==
    /\ pc[c] = "remove"
    /\ \/ /\ c \notin Removers
          /\ kept' = kept \union {name[c]}
          /\ UNCHANGED <<server, faults>>
       \/ /\ c \in Removers /\ link[c] = "up" /\ c \notin hung
          /\ server' = [server EXCEPT ![name[c]] = None]
          /\ UNCHANGED <<kept, faults>>
       \/ /\ c \in Removers /\ link[c] = "up" /\ c \notin hung
          /\ Fault
          /\ kept' = kept \union {name[c]}
          /\ UNCHANGED server
    /\ Succeed(c)
    /\ UNCHANGED <<now, local, remote, used, crossed, unnoticed>>

\* An exception: the connection is broken, the file is not there or comes out
\* empty, or anything else.  While a command runs or hangs only a broken poll
\* throws, and a client that removes nothing has nothing left to fail.
Throw(c) ==
    /\ pc[c] \notin {"idle", "await"} /\ link[c] # "silent"
    /\ pc[c] = "remove" => c \in Removers
    /\ c \in hung => link[c] = "broken"
    /\ \/ /\ \/ link[c] = "broken"
             \/ pc[c] = "open" /\ server[name[c]] = None
             \/ pc[c] = "read" /\ Received(c) = Torn
          /\ UNCHANGED faults
       \/ Fault
    /\ Fail(c)
    /\ Abandon(c)
    /\ UNCHANGED <<now, files>>

-----------------------------------------------------------------------------
(***************************************************************************)
(* The server, the network and the clock.                                  *)
(***************************************************************************)

\* The command is through; when nobody is left to be told, it is forgotten.
\* A client that waits for it is.
Told(c) == pc[c] = "await" /\ link[c] # "broken"

Ended(c, status) ==
    /\ shell' = [shell EXCEPT ![c] = IF Told(c) THEN status ELSE "none"]
    /\ output' = [output EXCEPT ![c] = None]

\* The dump completes, is tested and chmodded; or it fails, which a pipe
\* without pipefail hides; or a signal ends the shell.
Dump(c) ==
    /\ shell[c] = "running" /\ c \notin hung
    /\ \/ /\ \E d \in Data : server' = [server EXCEPT ![output[c]] = d]
          /\ Ended(c, "ok")
          /\ UNCHANGED <<unnoticed, faults>>
       \/ /\ Fault
          /\ Ended(c, IF Pipefail THEN "failed" ELSE "ok")
          /\ UNCHANGED <<server, unnoticed>>
       \/ /\ Fault
          /\ Ended(c, "ok")
          /\ unnoticed' = unnoticed \union {output[c]}
          /\ UNCHANGED server
    /\ UNCHANGED <<now, local, locals, used, crossed, reported, kept>>

\* The client is killed; the command goes on.
Crash(c) ==
    /\ pc[c] # "idle"
    /\ Fault
    /\ Fail(c)
    /\ Abandon(c)
    /\ UNCHANGED <<now, files>>

\* The connection is reset, or the server stops to answer.
Disturb(c) ==
    /\ pc[c] # "idle" /\ link[c] \in {"up", "down"}
    /\ Fault
    /\ \/ link[c] = "up" /\ link' = [link EXCEPT ![c] = "broken"]
       \/ Silences /\ link' = [link EXCEPT ![c] = "silent"]
    /\ UNCHANGED <<now, files, pc, name, seen, hung, remote, history>>

\* A command never ends: the dump, a command of the provisioning or the rm.
\* Its client reads on as long as the connection is there.
Hang(c) ==
    /\ Hangs /\ c \notin hung
    /\ shell[c] = "running" \/ pc[c] = "provision" \/ (pc[c] = "remove" /\ c \in Removers)
    /\ pc[c] # "idle" => link[c] = "up"
    /\ Fault
    /\ hung' = hung \union {c}
    /\ UNCHANGED <<now, files, pc, name, link, seen, remote, history>>

Tick ==
    /\ now < MaxTime
    /\ now' = now + 1
    /\ UNCHANGED <<files, locals, remote, history, faults>>

-----------------------------------------------------------------------------
Step(c) ==
    \/ Connect(c) \/ Provision(c) \/ Execute(c) \/ Await(c) \/ Open(c)
    \/ Read(c) \/ Remove(c) \/ Throw(c)

Next ==
    \/ \E c \in Clients : Begin(c) \/ Step(c) \/ Dump(c) \/ Crash(c) \/ Disturb(c) \/ Hang(c)
    \/ Tick

\* A client that can go on does, and commands on the server end that do not
\* hang.
Spec == Init /\ [][Next]_vars /\ \A c \in Clients : WF_vars(Step(c)) /\ WF_vars(Dump(c))

-----------------------------------------------------------------------------
(***************************************************************************)
(* Properties.                                                             *)
(***************************************************************************)

\* The values the variables take.
TypeOK ==
    /\ now \in Names
    /\ server \in [Names -> Contents] /\ local \in [Names -> Contents]
    /\ pc \in [Clients -> {"idle", "connect", "provision", "execute", "await",
                           "open", "read", "remove"}]
    /\ name \in [Clients -> Names \union {None}]
    /\ link \in [Clients -> {"down", "up", "broken", "silent"}]
    /\ seen \in [Clients -> Contents]
    /\ hung \subseteq Clients
    /\ shell \in [Clients -> {"none", "running", "ok", "failed"}]
    /\ output \in [Clients -> Names \union {None}]
    /\ used \subseteq Names /\ crossed \subseteq Names
    /\ reported \subseteq Names /\ kept \subseteq Names /\ unnoticed \subseteq Names
    /\ faults \in 0 .. MaxFaults

\* A file two runs share by the second they began in, or that was cut
\* without anybody being told.
Excused(n) == n \in crossed \union unnoticed

\* A run that reports success has delivered a complete backup, and it stays
\* complete: neither a failed dump, a broken connection, another run nor an
\* orphaned command can have torn it.  Only a killed shell and a full local
\* disk, which the code does not notice, are excused, and a shared name.
Delivered == \A n \in reported : local[n] \in Data \/ Excused(n)

\* The server's copy of a complete backup is removed only once the local
\* one is complete, so that at every moment one of them can be restored.
RemovedDelivered ==
    [][\A n \in Names :
        server[n] \in Data /\ server'[n] = None
            => local[n] = server[n] \/ Excused(n)]_vars

\* What a remover leaves on the server belongs to a run still at work, or to
\* one that failed, was refused the removal, or was not to remove it.
LeftMeant ==
    \A n \in Names :
        server[n] # None =>
            \/ n \in kept \union crossed
            \/ \E c \in Clients : name[c] = n

\* A remote run ends, whatever breaks on its way, unless its server falls
\* silent, or a command on it hangs while the connection lasts.  Nothing ends
\* it then, as REMOTE_CONNECT_TIMEOUT_SECONDS and REMOTE_COMMAND_TIMEOUT_SECONDS
\* are parsed and never used.
RunEnds ==
    \A c \in Clients :
        pc[c] # "idle" ~> pc[c] = "idle" \/ link[c] = "silent" \/ (c \in hung /\ link[c] = "up")

=============================================================================
