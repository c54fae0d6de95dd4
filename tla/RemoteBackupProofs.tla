-------------------------- MODULE RemoteBackupProofs --------------------------
(***************************************************************************)
(* Proofs about RemoteBackup, for any number of clients, moments and       *)
(* faults, and any content of a dump.                                      *)
(***************************************************************************)
EXTENDS RemoteBackup, TLAPS

-----------------------------------------------------------------------------
(***************************************************************************)
(* The inductive invariant.                                                *)
(***************************************************************************)

\* How the point a client has reached and the command it has started on the
\* server go together.
ShellInv ==
    \A c \in Clients :
        /\ pc[c] = "idle" <=> name[c] = None
        /\ shell[c] = "running" <=> output[c] # None
        /\ shell[c] \in {"ok", "failed"} => pc[c] = "await"
        /\ pc[c] \in {"connect", "provision", "execute", "read", "remove"} => shell[c] = "none"
        /\ pc[c] = "open" /\ link[c] # "broken" => shell[c] = "none"
        /\ name[c] # None /\ output[c] # None => output[c] = name[c]

\* A client may touch the file it has named and its command the file it
\* writes, which outlives the client's interest in it.
Claims(c, n) == name[c] = n \/ output[c] = n

\* Whoever shares a name, with a run at work or with one that has reported
\* success, has crossed it; and who writes a file no client names any more
\* is the command of a run that failed.
ClaimInv ==
    \A c \in Clients, n \in Names :
        /\ Claims(c, n) \/ n \in reported => n \in used
        /\ \A d \in Clients \ {c} : Claims(c, n) /\ Claims(d, n) => n \in crossed
        /\ n \in reported /\ Claims(c, n) => n \in crossed
        /\ output[c] = n /\ name[c] # n => n \in kept

\* What a client has read is what the server has.
CopyInv ==
    \A c \in Clients : ~Excused(name[c]) =>
        /\ pc[c] = "read" => server[name[c]] = seen[c]
        /\ pc[c] = "remove" => local[name[c]] = server[name[c]]

\* A file that a client goes on to open, or has opened, is a whole dump.
SoundInv ==
    \A c \in Clients : ~Excused(name[c]) =>
        /\ pc[c] = "await" /\ shell[c] = "ok" => server[name[c]] \in Data
        /\ pc[c] = "open" /\ link[c] # "broken" => server[name[c]] \in Data
        /\ pc[c] = "read" => seen[c] \in Data
        /\ pc[c] = "remove" => local[name[c]] \in Data

IInv ==
    TypeOK /\ ShellInv /\ ClaimInv /\ LeftMeant /\ CopyInv /\ (Pipefail => SoundInv /\ Delivered)

-----------------------------------------------------------------------------
(***************************************************************************)
(* Type correctness.                                                       *)
(***************************************************************************)

\* A client that is left, and one that nobody waits for, keep the types.
LEMMA FailType ==
    ASSUME TypeOK, NEW c \in Clients, pc[c] # "idle", name[c] # None, Fail(c), Abandon(c),
           UNCHANGED <<now, files>>, faults' \in 0 .. MaxFaults
    PROVE  TypeOK'
<1> USE DEF TypeOK, files
<1>1. /\ pc' = [pc EXCEPT ![c] = "idle"] /\ name' = [name EXCEPT ![c] = None]
      /\ link' = [link EXCEPT ![c] = "down"] /\ seen' = [seen EXCEPT ![c] = None]
      /\ kept' = kept \union {name[c]} /\ hung' \subseteq Clients
      /\ UNCHANGED <<used, crossed, reported, unnoticed>>
  BY DEF Fail, Leave
<1>2. /\ shell' \in [Clients -> {"none", "running", "ok", "failed"}]
      /\ output' \in [Clients -> Names \union {None}]
  BY DEF Abandon
<1> QED
  BY <1>1, <1>2 DEF Contents

\* Faults are counted up to the bound.
LEMMA FaultType == ASSUME TypeOK, Fault PROVE faults' \in 0 .. MaxFaults
BY BoundAssumption DEF TypeOK, Fault

\* What the client reads is the content of a file.
LEMMA ReceivedType ==
    ASSUME TypeOK, NEW c \in Clients
    PROVE  Received(c) \in Contents
BY DEF TypeOK, Received, Contents

\* Every step keeps the types.
LEMMA NextType ==
    ASSUME TypeOK, ShellInv, [Next]_vars
    PROVE  TypeOK'
<1> USE DEF TypeOK, Goto, files, locals, remote, history
<1>1. ASSUME NEW c \in Clients, pc[c] # "idle"
      PROVE  name[c] \in Names /\ name[c] # None
  BY <1>1 DEF ShellInv
<1>2. ASSUME NEW c \in Clients, Begin(c) PROVE TypeOK'
  BY <1>2 DEF Begin
<1>3. ASSUME NEW c \in Clients, Connect(c) PROVE TypeOK'
  BY <1>3 DEF Connect
<1>4. ASSUME NEW c \in Clients, Provision(c) PROVE TypeOK'
  BY <1>4 DEF Provision
<1>5. ASSUME NEW c \in Clients, Execute(c) PROVE TypeOK'
  BY <1>1, <1>5 DEF Execute, Contents
<1>6. ASSUME NEW c \in Clients, Await(c) PROVE TypeOK'
  <2>1. CASE Goto(c, "await", "open") /\ UNCHANGED <<name, link, seen, hung, history>>
    <3>1. /\ shell' \in [Clients -> {"none", "running", "ok", "failed"}]
          /\ output' \in [Clients -> Names \union {None}]
      BY <1>6 DEF Await, Abandon
    <3>2. pc' = [pc EXCEPT ![c] = "open"] /\ UNCHANGED <<now, server, local, faults>>
      BY <1>6, <2>1 DEF Await
    <3> QED
      BY <2>1, <3>1, <3>2
  <2>2. CASE Fail(c)
    BY <1>1, <1>6, <2>2, FailType DEF Await
  <2> QED
    BY <1>6, <2>1, <2>2 DEF Await
<1>7. ASSUME NEW c \in Clients, Open(c) PROVE TypeOK'
  BY <1>1, <1>7 DEF Open, Contents
<1>8. ASSUME NEW c \in Clients, Read(c) PROVE TypeOK'
  <2>1. name[c] \in Names /\ Received(c) \in Contents
    BY <1>1, <1>8, ReceivedType DEF Read
  <2>2. /\ UNCHANGED <<now, server, name, link, seen, hung, remote, used, crossed, reported, kept>>
        /\ pc' = [pc EXCEPT ![c] = "remove"]
    BY <1>8 DEF Read
  <2>3. \/ local' = [local EXCEPT ![name[c]] = Received(c)] /\ UNCHANGED <<unnoticed, faults>>
        \/ Fault /\ unnoticed' = unnoticed \union {name[c]} /\ UNCHANGED local
    BY <1>8 DEF Read
  <2> QED
    BY <2>1, <2>2, <2>3, FaultType
<1>9. ASSUME NEW c \in Clients, Remove(c) PROVE TypeOK'
  <2>1. name[c] \in Names
    BY <1>1, <1>9 DEF Remove
  <2>2. /\ pc' = [pc EXCEPT ![c] = "idle"] /\ name' = [name EXCEPT ![c] = None]
        /\ link' = [link EXCEPT ![c] = "down"] /\ seen' = [seen EXCEPT ![c] = None]
        /\ reported' = reported \union {name[c]} /\ hung' \subseteq Clients
        /\ UNCHANGED <<now, local, remote, used, crossed, unnoticed>>
    BY <1>9 DEF Remove, Succeed, Leave
  <2>3. kept' \in {kept, kept \union {name[c]}} /\ (faults' = faults \/ Fault)
        /\ server' \in {server, [server EXCEPT ![name[c]] = None]}
    BY <1>9 DEF Remove
  <2>4. server' \in [Names -> Contents] /\ kept' \subseteq Names
    BY <2>1, <2>3 DEF Contents
  <2> QED
    BY <2>1, <2>2, <2>3, <2>4, FaultType DEF Contents
<1>10. ASSUME NEW c \in Clients, Throw(c) \/ Crash(c) PROVE TypeOK'
  <2>1. pc[c] # "idle" /\ Fail(c) /\ Abandon(c) /\ UNCHANGED <<now, files>>
        /\ (faults' = faults \/ Fault)
    BY <1>10 DEF Throw, Crash
  <2> QED
    BY <1>1, <2>1, FailType, FaultType
<1>11. ASSUME NEW c \in Clients, Dump(c) PROVE TypeOK'
  <2>1. output[c] \in Names
    BY <1>11 DEF Dump, ShellInv
  <2>2. /\ UNCHANGED <<now, local, locals, used, crossed, reported, kept>>
        /\ (faults' = faults \/ Fault)
        /\ unnoticed' \in {unnoticed, unnoticed \union {output[c]}}
        /\ server' = server \/ \E d \in Data : server' = [server EXCEPT ![output[c]] = d]
    BY <1>11 DEF Dump
  <2>3. /\ shell' \in [Clients -> {"none", "running", "ok", "failed"}]
        /\ output' \in [Clients -> Names \union {None}]
    BY <1>11 DEF Dump, Ended
  <2>4. server' \in [Names -> Contents]
    BY <2>1, <2>2 DEF Contents
  <2> QED
    BY <2>1, <2>2, <2>3, <2>4, FaultType
<1>12. ASSUME NEW c \in Clients, Disturb(c) PROVE TypeOK'
  BY <1>12, FaultType DEF Disturb
<1>13. ASSUME NEW c \in Clients, Hang(c) PROVE TypeOK'
  BY <1>13, FaultType DEF Hang
<1>14. CASE Tick
  BY <1>14, BoundAssumption DEF Tick, Names
<1>15. CASE UNCHANGED vars
  BY <1>15 DEF vars
<1> QED
  BY <1>2, <1>3, <1>4, <1>5, <1>6, <1>7, <1>8, <1>9, <1>10, <1>11, <1>12, <1>13, <1>14, <1>15
     DEF Next, Step

-----------------------------------------------------------------------------
(***************************************************************************)
(* What the step of one client leaves to the others.                       *)
(***************************************************************************)

\* What a client can do, with its command and its connection.
Moves(c) == Begin(c) \/ Step(c) \/ Dump(c) \/ Crash(c) \/ Disturb(c) \/ Hang(c)

\* One client's step moves neither another nor its command.
LEMMA Others ==
    ASSUME TypeOK, NEW c \in Clients, Moves(c), NEW d \in Clients \ {c}
    PROVE  /\ pc'[d] = pc[d] /\ name'[d] = name[d] /\ link'[d] = link[d]
           /\ seen'[d] = seen[d] /\ shell'[d] = shell[d] /\ output'[d] = output[d]
<1> USE DEF TypeOK, Goto, files, locals, remote, history, Fail, Leave, Abandon
<1>1. CASE Begin(c) \/ Connect(c) \/ Provision(c) \/ Execute(c)
  BY <1>1 DEF Begin, Connect, Provision, Execute
<1>2. CASE Await(c)
  BY <1>2 DEF Await
<1>3. CASE Open(c) \/ Read(c)
  BY <1>3 DEF Open, Read
<1>4. CASE Remove(c)
  BY <1>4 DEF Remove, Succeed
<1>5. CASE Throw(c) \/ Crash(c)
  BY <1>5 DEF Throw, Crash
<1>6. CASE Dump(c)
  BY <1>6 DEF Dump, Ended
<1>7. CASE Disturb(c) \/ Hang(c)
  BY <1>7 DEF Disturb, Hang
<1> QED
  BY <1>1, <1>2, <1>3, <1>4, <1>5, <1>6, <1>7 DEF Moves, Step

\* Every step keeps the client and its command in step.
LEMMA NextShell ==
    ASSUME TypeOK, ShellInv, [Next]_vars
    PROVE  ShellInv'
<1> DEFINE Fits(c) ==
        /\ pc[c] = "idle" <=> name[c] = None
        /\ shell[c] = "running" <=> output[c] # None
        /\ shell[c] \in {"ok", "failed"} => pc[c] = "await"
        /\ pc[c] \in {"connect", "provision", "execute", "read", "remove"} => shell[c] = "none"
        /\ pc[c] = "open" /\ link[c] # "broken" => shell[c] = "none"
        /\ name[c] # None /\ output[c] # None => output[c] = name[c]
<1>1. \A c \in Clients : Fits(c)
  BY DEF ShellInv
<1>2. ASSUME NEW c \in Clients, Moves(c), Fits(c)' PROVE ShellInv'
  BY <1>1, <1>2, Others DEF ShellInv
<1> USE NullAssumption DEF TypeOK, Goto, files, locals, remote, history
<1>3. ASSUME NEW c \in Clients, Begin(c) \/ Connect(c) \/ Provision(c) PROVE Fits(c)'
  BY <1>1, <1>3 DEF Begin, Connect, Provision
<1>4. ASSUME NEW c \in Clients, Execute(c) PROVE Fits(c)'
  BY <1>1, <1>4 DEF Execute
<1>5. ASSUME NEW c \in Clients, Open(c) \/ Read(c) PROVE Fits(c)'
  BY <1>1, <1>5 DEF Open, Read
<1>6. ASSUME NEW c \in Clients, Remove(c) PROVE Fits(c)'
  BY <1>1, <1>6 DEF Remove, Succeed, Leave
<1>7. ASSUME NEW c \in Clients, Fail(c), Abandon(c) PROVE Fits(c)'
  <2>1. pc'[c] = "idle" /\ name'[c] = None
    BY <1>7 DEF Fail, Leave
  <2>2. /\ shell'[c] = (IF shell[c] = "running" THEN "running" ELSE "none")
        /\ output'[c] = (IF shell[c] = "running" THEN output[c] ELSE None)
    BY <1>7 DEF Abandon
  <2> QED
    BY <1>1, <2>1, <2>2
<1>8. ASSUME NEW c \in Clients, Await(c) PROVE Fits(c)'
  <2>1. CASE Fail(c)
    BY <1>7, <1>8, <2>1 DEF Await
  <2>2. CASE /\ link[c] = "broken" \/ (link[c] = "up" /\ shell[c] = "ok")
             /\ Goto(c, "await", "open") /\ UNCHANGED <<name, link>>
    <3>1. /\ shell'[c] = (IF shell[c] = "running" THEN "running" ELSE "none")
          /\ output'[c] = (IF shell[c] = "running" THEN output[c] ELSE None)
      BY <1>8 DEF Await, Abandon
    <3>2. pc[c] = "await" /\ pc'[c] = "open" /\ UNCHANGED <<name, link>>
      BY <2>2
    <3> QED
      BY <1>1, <2>2, <3>1, <3>2
  <2> QED
    BY <1>8, <2>1, <2>2 DEF Await
<1>9. ASSUME NEW c \in Clients, Dump(c) PROVE Fits(c)'
  <2>1. /\ output'[c] = None /\ UNCHANGED <<pc, name, link>> /\ shell[c] = "running"
        /\ shell'[c] = "none" \/ (Told(c) /\ shell'[c] \in {"ok", "failed"})
    BY <1>9 DEF Dump, Ended
  <2> QED
    BY <1>1, <2>1 DEF Told
<1>10. ASSUME NEW c \in Clients, Disturb(c) PROVE Fits(c)'
  <2>1. UNCHANGED <<pc, name, shell, output>> /\ link'[c] \in {"broken", "silent"}
        /\ link[c] # "broken"
    BY <1>10 DEF Disturb
  <2> QED
    BY <1>1, <2>1
<1>11. ASSUME NEW c \in Clients, Hang(c) PROVE Fits(c)'
  <2>1. UNCHANGED <<pc, name, link, shell, output>>
    BY <1>11 DEF Hang
  <2> QED
    BY <1>1, <2>1
<1>12. CASE Tick \/ UNCHANGED vars
  BY <1>12 DEF Tick, vars, ShellInv
<1> QED
  BY <1>2, <1>3, <1>4, <1>5, <1>6, <1>7, <1>8, <1>9, <1>10, <1>11, <1>12
     DEF Next, Step, Moves, Throw, Crash

-----------------------------------------------------------------------------
(***************************************************************************)
(* Who claims which name.                                                  *)
(***************************************************************************)

\* A step of a client claims at most the current second, reports at most the
\* name it gives up, and leaves its command only a name it has kept.
LEMMA MoveClaims ==
    ASSUME TypeOK, ShellInv, NEW c \in Clients, Moves(c)
    PROVE  /\ used \subseteq used' /\ crossed \subseteq crossed'
           /\ kept \subseteq kept' /\ unnoticed \subseteq unnoticed'
           /\ \A n \in Names : Claims(c, n)' =>
                \/ Claims(c, n)
                \/ n = now /\ n \in used' /\ (n \in used => n \in crossed')
           /\ \/ reported' = reported
              \/ /\ reported' = reported \union {name[c]}
                 /\ name'[c] = None /\ output'[c] = None
           /\ output'[c] # None /\ name'[c] # output'[c] =>
                \/ output'[c] \in kept'
                \/ output'[c] = output[c] /\ name[c] # output[c]
<1> USE NullAssumption DEF TypeOK, Goto, files, locals, remote, history, Claims
<1>1. CASE Begin(c)
  <2>1. /\ name' = [name EXCEPT ![c] = now] /\ used' = used \union {now}
        /\ crossed' = IF now \in used THEN crossed \union {now} ELSE crossed
        /\ UNCHANGED <<output, reported, kept, unnoticed>>
    BY <1>1 DEF Begin
  <2>2. output[c] = None
    BY <1>1 DEF Begin, ShellInv
  <2> QED
    BY <2>1, <2>2
<1>2. CASE Connect(c) \/ Provision(c) \/ Disturb(c) \/ Hang(c)
  <2>1. UNCHANGED <<name, output, used, crossed, reported, kept, unnoticed>>
    BY <1>2 DEF Connect, Provision, Disturb, Hang
  <2> QED
    BY <2>1
<1>3. CASE Execute(c)
  <2>1. /\ output' = [output EXCEPT ![c] = name[c]]
        /\ UNCHANGED <<name, used, crossed, reported, kept, unnoticed>>
    BY <1>3 DEF Execute
  <2> QED
    BY <2>1
<1>4. ASSUME Fail(c), Abandon(c)
      PROVE  /\ UNCHANGED <<used, crossed, reported, unnoticed>> /\ kept' = kept \union {name[c]}
             /\ name'[c] = None /\ output'[c] \in {output[c], None}
  BY <1>4 DEF Fail, Leave, Abandon
<1>5. CASE Throw(c) \/ Crash(c) \/ (Await(c) /\ Fail(c))
  <2>1. Fail(c) /\ Abandon(c)
    BY <1>5 DEF Throw, Crash, Await
  <2>2. output[c] # None /\ name[c] # None => output[c] = name[c]
    BY DEF ShellInv
  <2>3. pc[c] # "idle" => name[c] # None
    BY DEF ShellInv
  <2> QED
    BY <1>4, <2>1, <2>2, <2>3
<1>6. CASE Await(c) /\ UNCHANGED <<name, link, seen, hung, history>>
  <2>1. UNCHANGED <<name, used, crossed, reported, kept, unnoticed>>
        /\ output'[c] \in {output[c], None}
    BY <1>6 DEF Await, Abandon
  <2> QED
    BY <2>1
<1>7. CASE Open(c)
  <2>1. UNCHANGED <<name, output, used, crossed, reported, kept, unnoticed>>
    BY <1>7 DEF Open
  <2> QED
    BY <2>1
<1>8. CASE Read(c)
  <2>1. UNCHANGED <<name, output, used, crossed, reported, kept>> /\ unnoticed \subseteq unnoticed'
    BY <1>8 DEF Read
  <2> QED
    BY <2>1
<1>9. CASE Remove(c)
  <2>1. /\ UNCHANGED <<output, used, crossed, unnoticed>> /\ kept \subseteq kept'
        /\ reported' = reported \union {name[c]} /\ name'[c] = None
    BY <1>9 DEF Remove, Succeed, Leave
  <2>2. output[c] = None
    BY <1>9 DEF Remove, ShellInv
  <2> QED
    BY <2>1, <2>2
<1>10. CASE Dump(c)
  <2>1. UNCHANGED <<name, used, crossed, reported, kept>> /\ unnoticed \subseteq unnoticed'
        /\ output'[c] = None
    BY <1>10 DEF Dump, Ended
  <2> QED
    BY <2>1
<1>11. Await(c) => Fail(c) \/ UNCHANGED <<name, link, seen, hung, history>>
  BY DEF Await
<1> QED
  BY <1>1, <1>2, <1>3, <1>5, <1>6, <1>7, <1>8, <1>9, <1>10, <1>11 DEF Moves, Step

\* Every step keeps the claims apart, or crosses the name.
LEMMA NextClaim ==
    ASSUME TypeOK, ShellInv, ClaimInv, [Next]_vars
    PROVE  ClaimInv'
<1>1. ASSUME NEW e \in Clients, Moves(e) PROVE ClaimInv'
  <2>1. SUFFICES ASSUME NEW c \in Clients, NEW n \in Names
                 PROVE  /\ Claims(c, n)' \/ n \in reported' => n \in used'
                        /\ \A d \in Clients \ {c} :
                              Claims(c, n)' /\ Claims(d, n)' => n \in crossed'
                        /\ n \in reported' /\ Claims(c, n)' => n \in crossed'
                        /\ output'[c] = n /\ name'[c] # n => n \in kept'
    BY DEF ClaimInv
  <2>2. /\ used \subseteq used' /\ crossed \subseteq crossed' /\ kept \subseteq kept'
        /\ Claims(e, n)' => \/ Claims(e, n)
                            \/ n = now /\ n \in used' /\ (n \in used => n \in crossed')
        /\ \/ reported' = reported
           \/ reported' = reported \union {name[e]} /\ name'[e] = None /\ output'[e] = None
    BY <1>1, MoveClaims
  <2>3. \A d \in Clients \ {e} : Claims(d, n)' <=> Claims(d, n)
    BY <1>1, Others DEF Claims
  <2>4. /\ \A d \in Clients : Claims(d, n) \/ n \in reported => n \in used
        /\ \A d \in Clients : n \in reported /\ Claims(d, n) => n \in crossed
        /\ \A d, f \in Clients : d # f /\ Claims(d, n) /\ Claims(f, n) => n \in crossed
    BY DEF ClaimInv
  <2>5. n \in reported' => n \in reported \/ (Claims(e, n) /\ ~Claims(e, n)')
    BY <2>2, NullAssumption DEF Claims
  <2>6. Claims(c, n)' \/ n \in reported' => n \in used'
    BY <2>2, <2>3, <2>4, <2>5
  <2>7. ASSUME NEW d \in Clients \ {c}, Claims(c, n)', Claims(d, n)' PROVE n \in crossed'
    <3>1. CASE c = e
      BY <2>2, <2>3, <2>4, <2>7, <3>1
    <3>2. CASE d = e
      BY <2>2, <2>3, <2>4, <2>7, <3>2
    <3>3. CASE c # e /\ d # e
      BY <2>2, <2>3, <2>4, <2>7, <3>3
    <3> QED
      BY <3>1, <3>2, <3>3
  <2>8. n \in reported' /\ Claims(c, n)' => n \in crossed'
    BY <2>2, <2>3, <2>4, <2>5
  <2>9. output'[c] = n /\ name'[c] # n => n \in kept'
    <3>1. output[c] = n /\ name[c] # n => n \in kept
      BY DEF ClaimInv
    <3>2. CASE c = e
      BY <1>1, <2>2, <3>1, <3>2, MoveClaims, NullAssumption
    <3>3. CASE c # e
      BY <1>1, <2>2, <3>1, <3>3, Others
    <3> QED
      BY <3>2, <3>3
  <2> QED
    BY <2>6, <2>7, <2>8, <2>9
<1>2. CASE Tick \/ UNCHANGED vars
  BY <1>2 DEF Tick, vars, locals, remote, history, ClaimInv, Claims
<1> QED
  BY <1>1, <1>2 DEF Next, Moves

-----------------------------------------------------------------------------
(***************************************************************************)
(* Who touches which file.                                                 *)
(***************************************************************************)

\* A file on the server changes by the command that writes it, or by the
\* client that starts that command or removes the file; a local one by the
\* client that downloads it.
LEMMA FileSteps ==
    ASSUME TypeOK, ShellInv, NEW c \in Clients, Moves(c), NEW n \in Names
    PROVE  /\ \/ server'[n] = server[n]
              \/ (Execute(c) \/ Remove(c)) /\ name[c] = n
              \/ Dump(c) /\ output[c] = n
           /\ local'[n] = local[n] \/ ((Open(c) \/ Read(c)) /\ name[c] = n)
<1> USE DEF TypeOK, Goto, files, locals, remote, history
<1>1. CASE Begin(c) \/ Connect(c) \/ Provision(c) \/ Await(c)
           \/ Throw(c) \/ Crash(c) \/ Disturb(c) \/ Hang(c)
  BY <1>1 DEF Begin, Connect, Provision, Await, Throw, Crash, Disturb, Hang
<1>2. CASE Execute(c)
  <2>1. server' = [server EXCEPT ![name[c]] = Torn] /\ local' = local
    BY <1>2 DEF Execute
  <2> QED
    BY <1>2, <2>1
<1>3. CASE Open(c)
  <2>1. local' = [local EXCEPT ![name[c]] = Torn] /\ server' = server
    BY <1>3 DEF Open
  <2> QED
    BY <1>3, <2>1
<1>4. CASE Read(c)
  <2>1. local' \in {local, [local EXCEPT ![name[c]] = Received(c)]} /\ server' = server
    BY <1>4 DEF Read
  <2> QED
    BY <1>4, <2>1
<1>5. CASE Remove(c)
  <2>1. server' \in {server, [server EXCEPT ![name[c]] = None]} /\ local' = local
    BY <1>5 DEF Remove
  <2> QED
    BY <1>5, <2>1
<1>6. CASE Dump(c)
  <2>1. /\ local' = local
        /\ server' = server \/ \E d \in Data : server' = [server EXCEPT ![output[c]] = d]
    BY <1>6 DEF Dump
  <2> QED
    BY <1>6, <2>1
<1> QED
  BY <1>1, <1>2, <1>3, <1>4, <1>5, <1>6 DEF Moves, Step

\* A file whose name is not crossed is touched by the client that claims it.
LEMMA Unshared ==
    ASSUME TypeOK, ShellInv, ClaimInv, NEW c \in Clients, NEW e \in Clients \ {c}, Moves(e),
           NEW n \in Names, Claims(c, n), n \notin crossed
    PROVE  server'[n] = server[n] /\ local'[n] = local[n]
<1>1. ~Claims(e, n)
  BY DEF ClaimInv
<1> QED
  BY <1>1, FileSteps DEF Claims

\* A client gives up its name by removing the file, or by keeping it.
LEMMA GivenUp ==
    ASSUME TypeOK, ShellInv, NEW c \in Clients, Moves(c), name[c] # None, name'[c] # name[c]
    PROVE  name[c] \in kept' \/ server'[name[c]] = None
<1> USE DEF TypeOK, Goto, files, locals, remote, history
<1>1. ~Begin(c)
  BY DEF Begin, ShellInv
<1>2. CASE Fail(c)
  BY <1>2 DEF Fail
<1>3. CASE Remove(c)
  <2>1. name[c] \in Names
    OBVIOUS
  <2> QED
    BY <1>3, <2>1 DEF Remove
<1>4. CASE Connect(c) \/ Provision(c) \/ Execute(c) \/ Open(c)
           \/ Read(c) \/ Dump(c) \/ Disturb(c) \/ Hang(c)
  BY <1>4 DEF Connect, Provision, Execute, Open, Read, Dump, Disturb, Hang
<1>5. Await(c) /\ ~Fail(c) => UNCHANGED name
  BY DEF Await
<1> QED
  BY <1>1, <1>2, <1>3, <1>4, <1>5 DEF Moves, Step, Throw, Crash

\* Every step keeps what is left on the server accounted for.
LEMMA NextLeft ==
    ASSUME TypeOK, ShellInv, ClaimInv, LeftMeant, [Next]_vars
    PROVE  LeftMeant'
<1>1. ASSUME NEW e \in Clients, Moves(e) PROVE LeftMeant'
  <2>1. SUFFICES ASSUME NEW n \in Names, server'[n] # None
                 PROVE  n \in kept' \union crossed' \/ \E c \in Clients : name'[c] = n
    BY DEF LeftMeant
  <2>2. kept \subseteq kept' /\ crossed \subseteq crossed'
    BY <1>1, MoveClaims
  <2>3. ASSUME NEW c \in Clients, name[c] = n, name'[c] # n PROVE n \in kept'
    <3>1. c = e
      BY <1>1, <2>3, Others
    <3> QED
      BY <1>1, <2>1, <2>3, <3>1, GivenUp, NullAssumption
  <2>4. CASE server'[n] = server[n]
    BY <2>1, <2>2, <2>3, <2>4 DEF LeftMeant
  <2>5. CASE (Execute(e) \/ Remove(e)) /\ name[e] = n
    BY <2>3, <2>5
  <2>6. CASE Dump(e) /\ output[e] = n
    BY <2>2, <2>3, <2>6 DEF ClaimInv
  <2> QED
    BY <1>1, <2>4, <2>5, <2>6, FileSteps
<1>2. CASE Tick \/ UNCHANGED vars
  BY <1>2 DEF Tick, vars, files, locals, remote, history, LeftMeant
<1> QED
  BY <1>1, <1>2 DEF Next, Moves

-----------------------------------------------------------------------------
(***************************************************************************)
(* What is read, and what is delivered.                                    *)
(***************************************************************************)

\* Whoever excuses a name is there to stay.
LEMMA StillExcused ==
    ASSUME TypeOK, ShellInv, [Next]_vars
    PROVE  \A n : Excused(n) => Excused(n)'
<1>1. crossed \subseteq crossed' /\ unnoticed \subseteq unnoticed'
  BY MoveClaims DEF Next, Moves, Tick, vars, history
<1> QED
  BY <1>1 DEF Excused

\* A client at work keeps its name until it leaves.
LEMMA SameName ==
    ASSUME TypeOK, ShellInv, NEW c \in Clients, Moves(c),
           pc'[c] \in {"await", "open", "read", "remove"}
    PROVE  name'[c] = name[c] /\ name[c] \in Names
<1> USE DEF TypeOK, Goto, files, locals, remote, history
<1>1. ~Begin(c) /\ ~Connect(c) /\ ~Provision(c)
  BY DEF Begin, Connect, Provision
<1>2. CASE Fail(c) \/ Remove(c)
  BY <1>2 DEF Fail, Remove, Succeed, Leave
<1>3. CASE Execute(c) \/ Open(c) \/ Read(c) \/ Dump(c) \/ Disturb(c) \/ Hang(c)
  <2>1. name' = name /\ pc[c] # "idle"
    <3>1. CASE Execute(c) \/ Open(c) \/ Read(c)
      BY <3>1 DEF Execute, Open, Read
    <3>2. CASE Dump(c) \/ Disturb(c) \/ Hang(c)
      BY <3>2 DEF Dump, Disturb, Hang
    <3> QED
      BY <1>3, <3>1, <3>2
  <2> QED
    BY <2>1 DEF ShellInv
<1>4. CASE Await(c) /\ ~Fail(c)
  <2>1. name' = name /\ pc[c] = "await"
    BY <1>4 DEF Await
  <2> QED
    BY <2>1 DEF ShellInv
<1> QED
  BY <1>1, <1>2, <1>3, <1>4 DEF Moves, Step, Throw, Crash

\* The steps that lead a client to where it has a file open, or read.
LEMMA Reading ==
    ASSUME TypeOK, ShellInv, NEW c \in Clients, Moves(c)
    PROVE  /\ pc'[c] = "read" => \/ Open(c)
                                 \/ pc[c] = "read" /\ seen' = seen /\ UNCHANGED files
           /\ pc'[c] = "remove" => \/ Read(c)
                                   \/ pc[c] = "remove" /\ UNCHANGED files
<1> USE DEF TypeOK, Goto, locals, remote, history
<1>1. CASE Begin(c) \/ Connect(c) \/ Provision(c) \/ Execute(c)
  BY <1>1 DEF Begin, Connect, Provision, Execute
<1>2. CASE Fail(c) \/ Remove(c)
  BY <1>2 DEF Fail, Remove, Succeed, Leave
<1>3. CASE Await(c) /\ ~Fail(c)
  BY <1>3 DEF Await
<1>4. CASE Open(c)
  <2>1. pc'[c] = "read"
    BY <1>4 DEF Open
  <2> QED
    BY <1>4, <2>1
<1>5. CASE Read(c)
  <2>1. pc'[c] = "remove"
    BY <1>5 DEF Read
  <2> QED
    BY <1>5, <2>1
<1>6. CASE Dump(c)
  BY <1>6 DEF Dump, ShellInv
<1>7. CASE Disturb(c) \/ Hang(c)
  BY <1>7 DEF Disturb, Hang
<1> QED
  BY <1>1, <1>2, <1>3, <1>4, <1>5, <1>6, <1>7 DEF Moves, Step, Throw, Crash

\* Every step keeps what has been read equal to what was there.
LEMMA NextCopy ==
    ASSUME TypeOK, ShellInv, ClaimInv, CopyInv, [Next]_vars
    PROVE  CopyInv'
<1>1. ASSUME NEW e \in Clients, Moves(e) PROVE CopyInv'
  <2>1. SUFFICES ASSUME NEW c \in Clients, ~Excused(name[c])', pc'[c] \in {"read", "remove"}
                 PROVE  /\ pc'[c] = "read" => server'[name'[c]] = seen'[c]
                        /\ pc'[c] = "remove" => local'[name'[c]] = server'[name'[c]]
    BY DEF CopyInv
  <2>2. name'[c] = name[c] /\ name[c] \in Names
    <3>1. CASE c = e
      BY <1>1, <2>1, <3>1, SameName
    <3>2. CASE c # e
      BY <1>1, <2>1, <3>2, Others DEF ShellInv, TypeOK
    <3> QED
      BY <3>1, <3>2
  <2>3. ~Excused(name[c])
    BY <2>1, <2>2, StillExcused
  <2>4. CASE c # e
    <3>1. server'[name[c]] = server[name[c]] /\ local'[name[c]] = local[name[c]]
      BY <1>1, <2>2, <2>3, <2>4, Unshared DEF Claims, Excused
    <3>2. pc'[c] = pc[c] /\ seen'[c] = seen[c]
      BY <1>1, <2>4, Others
    <3> QED
      BY <2>2, <2>3, <3>1, <3>2 DEF CopyInv
  <2>5. CASE c = e
    <3>1. CASE Open(c)
      BY <2>2, <3>1 DEF Open, Goto, TypeOK
    <3>2. CASE Read(c)
      <4>1. pc[c] = "read" /\ server' = server /\ name[c] \notin unnoticed'
        BY <2>1, <2>2, <3>2 DEF Read, Goto, Excused
      <4>2. local' = [local EXCEPT ![name[c]] = Received(c)]
        BY <3>2, <4>1 DEF Read
      <4>3. Received(c) = server[name[c]]
        BY <2>3, <4>1 DEF Received, CopyInv
      <4>4. pc'[c] = "remove"
        BY <3>2 DEF Read, Goto, TypeOK
      <4> QED
        BY <2>2, <4>1, <4>2, <4>3, <4>4 DEF TypeOK
    <3>3. CASE pc[c] = pc'[c] /\ UNCHANGED files /\ (pc[c] = "read" => seen' = seen)
      BY <2>2, <2>3, <3>3 DEF CopyInv, files
    <3> QED
      BY <1>1, <2>1, <2>5, <3>1, <3>2, <3>3, Reading
  <2> QED
    BY <2>4, <2>5
<1>2. CASE Tick \/ UNCHANGED vars
  BY <1>2 DEF Tick, vars, files, locals, history, CopyInv, Excused
<1> QED
  BY <1>1, <1>2 DEF Next, Moves

\* The steps that lead a client to a file it will open.
LEMMA Waiting ==
    ASSUME TypeOK, ShellInv, NEW c \in Clients, Moves(c)
    PROVE  /\ pc'[c] = "await" /\ shell'[c] = "ok" =>
                \/ Dump(c)
                \/ pc[c] = "await" /\ shell[c] = "ok" /\ UNCHANGED files
           /\ pc'[c] = "open" /\ link'[c] # "broken" =>
                /\ UNCHANGED files
                /\ \/ pc[c] = "await" /\ shell[c] = "ok"
                   \/ pc[c] = "open" /\ link[c] # "broken"
<1> USE DEF TypeOK, Goto, locals, remote, history
<1>1. CASE Begin(c) \/ Connect(c) \/ Provision(c)
  BY <1>1 DEF Begin, Connect, Provision
<1>2. CASE Execute(c)
  BY <1>2 DEF Execute
<1>3. CASE Fail(c) \/ Remove(c)
  BY <1>3 DEF Fail, Remove, Succeed, Leave
<1>4. CASE Await(c) /\ ~Fail(c)
  BY <1>4 DEF Await
<1>5. CASE Open(c) \/ Read(c)
  BY <1>5 DEF Open, Read
<1>6. CASE Dump(c)
  <2>1. UNCHANGED <<pc, link>> /\ shell[c] = "running"
    BY <1>6 DEF Dump
  <2> QED
    BY <1>6, <2>1 DEF ShellInv
<1>7. CASE Disturb(c)
  <2>1. UNCHANGED <<pc, shell, files>> /\ link[c] # "broken"
    BY <1>7 DEF Disturb
  <2> QED
    BY <2>1
<1>8. CASE Hang(c)
  BY <1>8 DEF Hang
<1> QED
  BY <1>1, <1>2, <1>3, <1>4, <1>5, <1>6, <1>7, <1>8 DEF Moves, Step, Throw, Crash

\* With pipefail, a command that ends well has written a whole dump, or a
\* signal has ended it.
LEMMA DumpSound ==
    ASSUME TypeOK, ShellInv, Pipefail, NEW c \in Clients, Dump(c), shell'[c] = "ok"
    PROVE  server'[output[c]] \in Data \/ output[c] \in unnoticed'
<1>1. output[c] \in Names
  BY DEF Dump, ShellInv, TypeOK
<1>2. CASE \E d \in Data : server' = [server EXCEPT ![output[c]] = d]
  BY <1>1, <1>2 DEF TypeOK
<1>3. CASE Ended(c, "failed")
  BY <1>3 DEF Ended, TypeOK
<1>4. CASE unnoticed' = unnoticed \union {output[c]}
  BY <1>4
<1> QED
  BY <1>2, <1>3, <1>4 DEF Dump

\* Every step keeps a file that is going to be opened, or has been, whole.
LEMMA NextSound ==
    ASSUME TypeOK, ShellInv, ClaimInv, CopyInv, SoundInv, Pipefail, [Next]_vars
    PROVE  SoundInv'
<1>1. ASSUME NEW e \in Clients, Moves(e) PROVE SoundInv'
  <2>1. SUFFICES ASSUME NEW c \in Clients, ~Excused(name[c])',
                        pc'[c] \in {"await", "open", "read", "remove"}
                 PROVE  /\ pc'[c] = "await" /\ shell'[c] = "ok" => server'[name'[c]] \in Data
                        /\ pc'[c] = "open" /\ link'[c] # "broken" => server'[name'[c]] \in Data
                        /\ pc'[c] = "read" => seen'[c] \in Data
                        /\ pc'[c] = "remove" => local'[name'[c]] \in Data
    BY DEF SoundInv
  <2>2. name'[c] = name[c] /\ name[c] \in Names
    <3>1. CASE c = e
      BY <1>1, <2>1, <3>1, SameName
    <3>2. CASE c # e
      BY <1>1, <2>1, <3>2, Others DEF ShellInv, TypeOK
    <3> QED
      BY <3>1, <3>2
  <2>3. ~Excused(name[c])
    BY <2>1, <2>2, StillExcused
  <2>4. CASE c # e
    <3>1. server'[name[c]] = server[name[c]] /\ local'[name[c]] = local[name[c]]
      BY <1>1, <2>2, <2>3, <2>4, Unshared DEF Claims, Excused
    <3>2. /\ pc'[c] = pc[c] /\ seen'[c] = seen[c] /\ shell'[c] = shell[c]
          /\ link'[c] = link[c]
      BY <1>1, <2>4, Others
    <3> QED
      BY <2>2, <2>3, <3>1, <3>2 DEF SoundInv
  <2>5. CASE c = e
    <3>1. ASSUME pc'[c] = "await", shell'[c] = "ok" PROVE server'[name'[c]] \in Data
      <4>1. CASE Dump(c)
        <5>1. output[c] = name[c]
          BY <2>2, <4>1, NullAssumption DEF Dump, ShellInv
        <5>2. name[c] \notin unnoticed'
          BY <2>1, <2>2 DEF Excused
        <5> QED
          BY <2>2, <3>1, <4>1, <5>1, <5>2, DumpSound
      <4>2. CASE pc[c] = "await" /\ shell[c] = "ok" /\ UNCHANGED files
        BY <2>2, <2>3, <4>2 DEF SoundInv, files
      <4> QED
        BY <1>1, <2>5, <3>1, <4>1, <4>2, Waiting
    <3>2. ASSUME pc'[c] = "open", link'[c] # "broken" PROVE server'[name'[c]] \in Data
      BY <1>1, <2>2, <2>3, <2>5, <3>2, Waiting DEF SoundInv, files
    <3>3. ASSUME pc'[c] = "read" PROVE seen'[c] \in Data
      <4>1. CASE Open(c)
        BY <2>2, <2>3, <4>1 DEF Open, Goto, SoundInv, TypeOK
      <4>2. CASE pc[c] = "read" /\ seen' = seen
        BY <2>3, <4>2 DEF SoundInv
      <4> QED
        BY <1>1, <2>5, <3>3, <4>1, <4>2, Reading
    <3>4. ASSUME pc'[c] = "remove" PROVE local'[name'[c]] \in Data
      <4>1. CASE Read(c)
        <5>1. pc[c] = "read" /\ name[c] \notin unnoticed'
          BY <2>1, <2>2, <4>1 DEF Read, Goto, Excused
        <5>2. local' = [local EXCEPT ![name[c]] = Received(c)]
          BY <4>1, <5>1 DEF Read
        <5>3. Received(c) \in Data
          BY <2>3, <5>1 DEF Received, CopyInv, SoundInv
        <5> QED
          BY <2>2, <5>2, <5>3 DEF TypeOK
      <4>2. CASE pc[c] = "remove" /\ UNCHANGED files
        BY <2>2, <2>3, <4>2 DEF SoundInv, files
      <4> QED
        BY <1>1, <2>5, <3>4, <4>1, <4>2, Reading
    <3> QED
      BY <3>1, <3>2, <3>3, <3>4
  <2> QED
    BY <2>4, <2>5
<1>2. CASE Tick \/ UNCHANGED vars
  BY <1>2 DEF Tick, vars, files, locals, remote, history, SoundInv, Excused
<1> QED
  BY <1>1, <1>2 DEF Next, Moves

\* Every step keeps what has been delivered whole.
LEMMA NextDelivered ==
    ASSUME TypeOK, ShellInv, ClaimInv, SoundInv, Delivered, [Next]_vars
    PROVE  Delivered'
<1>1. ASSUME NEW e \in Clients, Moves(e) PROVE Delivered'
  <2>1. SUFFICES ASSUME NEW n \in reported', ~Excused(n)'
                 PROVE  local'[n] \in Data
    BY DEF Delivered
  <2>2. ~Excused(n)
    BY <2>1, StillExcused
  <2>3. CASE n \in reported
    <3>1. n \in Names /\ local[n] \in Data
      BY <2>2, <2>3 DEF Delivered, TypeOK
    <3>2. ~Claims(e, n)
      BY <2>2, <2>3, <3>1 DEF ClaimInv, Excused
    <3> QED
      BY <1>1, <3>1, <3>2, FileSteps DEF Claims
  <2>4. CASE n \notin reported
    <3>1. Remove(e) /\ n = name[e]
      <4>1. n = name[e] /\ reported' # reported
        BY <1>1, <2>1, <2>4, MoveClaims
      <4>2. reported' # reported => Remove(e)
        BY <1>1 DEF Moves, Step, Begin, Connect, Provision, Execute, Await, Open, Read, Throw,
                    Crash, Dump, Disturb, Hang, Fail, history
      <4> QED
        BY <4>1, <4>2
    <3>2. pc[e] = "remove" /\ local' = local
      BY <3>1 DEF Remove
    <3> QED
      BY <2>2, <3>1, <3>2 DEF SoundInv
  <2> QED
    BY <2>3, <2>4
<1>2. CASE Tick \/ UNCHANGED vars
  BY <1>2 DEF Tick, vars, files, history, Delivered, Excused
<1> QED
  BY <1>1, <1>2 DEF Next, Moves

-----------------------------------------------------------------------------
(***************************************************************************)
(* The theorems.                                                           *)
(***************************************************************************)

\* Initially nobody runs and there is no file.
LEMMA InitInv == Init => IInv
BY NullAssumption, BoundAssumption
   DEF Init, IInv, TypeOK, ShellInv, ClaimInv, Claims, LeftMeant, CopyInv, SoundInv,
       Delivered, Names, Contents

\* The inductive invariant holds of every behaviour.
THEOREM Invariance == Spec => []IInv
<1>1. IInv /\ [Next]_vars => IInv'
  BY NextType, NextShell, NextClaim, NextLeft, NextCopy, NextSound, NextDelivered DEF IInv
<1> QED
  BY InitInv, <1>1, PTL DEF Spec

\* The variables keep their types.
THEOREM TypeCorrect == Spec => []TypeOK
BY Invariance, PTL DEF IInv

\* With pipefail in the remote command, a run that reports success has
\* delivered a complete backup, which stays complete, unless its name was
\* shared or the file was cut without anybody being told.
THEOREM DeliveredAlways ==
    ASSUME Pipefail
    PROVE  Spec => []Delivered
<1>1. IInv => Delivered
  BY DEF IInv
<1> QED
  BY Invariance, <1>1, PTL

\* What a remover leaves on the server belongs to a run at work, or to one
\* that failed or kept its file.
THEOREM LeftAlways == Spec => []LeftMeant
BY Invariance, PTL DEF IInv

\* A complete backup leaves the server only once the local copy equals it,
\* whether or not the command told of its failures.
THEOREM RemovedAlways == Spec => RemovedDelivered
<1>1. IInv /\ [Next]_vars
        => [\A n \in Names : server[n] \in Data /\ server'[n] = None
                => local[n] = server[n] \/ Excused(n)]_vars
  <2> SUFFICES ASSUME IInv, [Next]_vars, NEW n \in Names, server[n] \in Data, server'[n] = None
               PROVE  local[n] = server[n] \/ Excused(n)
    OBVIOUS
  <2>1. PICK e \in Clients : Moves(e)
    BY NullAssumption DEF Next, Moves, Tick, vars, files
  <2>2. server'[n] # server[n]
    BY NullAssumption
  <2>3. ~Execute(e)
    <3>1. SUFFICES ASSUME Execute(e), name[e] = n PROVE FALSE
      BY <2>1, <2>2, FileSteps DEF IInv, Execute, Dump, Goto, ShellInv
    <3> QED
      BY <3>1, NullAssumption DEF Execute, IInv, TypeOK
  <2>4. ~Dump(e)
    <3>1. SUFFICES ASSUME Dump(e), output[e] = n PROVE FALSE
      BY <2>1, <2>2, <2>3, FileSteps DEF IInv, Remove, Dump, ShellInv
    <3> QED
      BY <2>2, <3>1, NullAssumption DEF Dump, IInv, TypeOK
  <2>5. Remove(e) /\ name[e] = n
    BY <2>1, <2>2, <2>3, <2>4, FileSteps DEF IInv
  <2> QED
    BY <2>5 DEF Remove, IInv, CopyInv
<1> QED
  BY Invariance, <1>1, PTL DEF Spec, RemovedDelivered

=============================================================================
