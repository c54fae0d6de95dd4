------------------------- MODULE RestoreSessionProofs -------------------------
(***************************************************************************)
(* Proofs about RestoreSession, for any number of readers beside any       *)
(* number of processes that write the directory.                           *)
(***************************************************************************)
EXTENDS RestoreSession, TLAPS

-----------------------------------------------------------------------------
(***************************************************************************)
(* The inductive invariant.                                                *)
(***************************************************************************)

Stages == {"idle", "ask", "archive", "sidecar", "read", "hash", "structure",
           "source", "extract"}

\* The values a session's variables take; of the directory it matters only
\* which files and which processes there are.
SessionType ==
    /\ artifact = [n \in Names |-> artifact[n]] /\ sidecar = [n \in Names |-> sidecar[n]]
    /\ pc = [p \in Procs |-> pc[p]]
    /\ at \in [Readers -> Stages]
    /\ request \in [Readers -> Requests \union {None}]
    /\ options \in [Readers -> Options \union {None}]
    /\ expected = [r \in Readers |-> expected[r]]
    /\ verdict \in [Readers -> {"none", "ok", "alarm"}]
    /\ rotten \in [Readers -> BOOLEAN] /\ unsettled \in [Readers -> BOOLEAN]
    /\ \A r \in Readers : at[r] # "idle" => request[r] \in Requests

\* What is damaged holds no complete dump; it did before.
RotInv ==
    /\ rot = [n \in Names |-> rot[n]]
    /\ \A n \in Names : Damaged(n) => rot[n] \in Data /\ artifact[n] \in {Torn, Rotten}

\* A session that has met no run at work looks at an artifact at rest.
SettledInv ==
    \A r \in Readers : at[r] # "idle" /\ ~unsettled[r] => Settled(request[r].name)

\* Such a session of a damaged and sealed artifact still finds it so, and
\* has not got past the comparison.
RottenInv ==
    \A r \in Readers : at[r] # "idle" /\ ~unsettled[r] /\ rotten[r] =>
        /\ Damaged(request[r].name) /\ sidecar[request[r].name] \in Data
        /\ at[r] = "hash" => expected[r] \in Data
        /\ at[r] # "structure"
        /\ Checked => at[r] \notin {"source", "extract"}

\* What is about to be written has passed the guards of its source.
GuardInv ==
    \A r \in Readers : at[r] = "extract" =>
        options[r] \in Options /\ ~Lists(options[r]) /\ ~Prints(options[r])

\* A filesystem session without overwrite has found the destination empty,
\* and it still is when nobody else writes there.
AloneInv ==
    (\A r, s \in Readers : r = s) =>
        \A r \in Readers : at[r] = "extract" => ~Refuses(options[r])

RInv == SessionType /\ RotInv /\ SettledInv /\ RottenInv /\ GuardInv /\ AloneInv

-----------------------------------------------------------------------------
(***************************************************************************)
(* What the writing processes leave to a session.                          *)
(***************************************************************************)

\* The steps of the writing processes that touch no artifact and no sidecar.
Apart(p) ==
    \/ TryLock(p) \/ Prepare(p) \/ StartDump(p) \/ EndDump(p) \/ HashArtifact(p)
    \/ WriteMetadata(p) \/ ListDirectory(p) \/ Examine(p) \/ RemoveMetadata(p)
    \/ Orphan(p) \/ EmptyDump(p) \/ Return(p) \/ Throw(p) \/ OrphansEnd(p) \/ Crash(p)

\* And such a step leaves both alone.
LEMMA ApartEffect ==
    ASSUME pc = [p \in Procs |-> pc[p]], NEW p \in Procs, Apart(p)
    PROVE  UNCHANGED <<artifact, sidecar>> /\ pc' = [q \in Procs |-> pc'[q]]
<1> USE DEF files, Goto, Leave
<1>1. CASE TryLock(p) \/ Prepare(p) \/ StartDump(p) \/ EndDump(p) \/ HashArtifact(p) \/ WriteMetadata(p)
  BY <1>1 DEF TryLock, Prepare, StartDump, EndDump, HashArtifact, WriteMetadata
<1>2. CASE ListDirectory(p) \/ Examine(p) \/ RemoveMetadata(p) \/ Orphan(p)
  BY <1>2 DEF ListDirectory, Examine, RemoveMetadata, Orphan
<1>3. CASE EmptyDump(p) \/ Return(p) \/ Throw(p) \/ OrphansEnd(p) \/ Crash(p)
  BY <1>3 DEF EmptyDump, Return, Throw, OrphansEnd, Crash
<1> QED
  BY <1>1, <1>2, <1>3 DEF Apart

\* The directory and the processes keep their shape.
LEMMA DirectoryShape ==
    ASSUME SessionType, Next
    PROVE  /\ artifact' = [n \in Names |-> artifact'[n]]
           /\ sidecar' = [n \in Names |-> sidecar'[n]]
           /\ pc' = [p \in Procs |-> pc'[p]]
<1> USE DEF SessionType
<1>1. ASSUME NEW p \in Procs, Apart(p)
      PROVE  UNCHANGED <<artifact, sidecar>> /\ pc' = [q \in Procs |-> pc'[q]]
  BY <1>1, ApartEffect
<1>2. ASSUME NEW p \in Procs, Publish(p) \/ OpenSidecar(p) \/ WriteSidecar(p)
      PROVE  /\ artifact' = [n \in Names |-> artifact'[n]]
             /\ sidecar' = [n \in Names |-> sidecar'[n]]
             /\ pc' = [q \in Procs |-> pc'[q]]
  BY <1>2 DEF Publish, OpenSidecar, WriteSidecar, Goto
<1>3. ASSUME NEW p \in Procs, RemoveArtifact(p) \/ RemoveSidecar(p)
      PROVE  /\ artifact' = [n \in Names |-> artifact'[n]]
             /\ sidecar' = [n \in Names |-> sidecar'[n]]
             /\ pc' = [q \in Procs |-> pc'[q]]
  BY <1>3 DEF RemoveArtifact, RemoveSidecar, Goto
<1>4. Tick => UNCHANGED <<artifact, sidecar, pc>>
  BY DEF Tick, files
<1> QED
  BY <1>1, <1>2, <1>3, <1>4 DEF Next, Step, Apart

\* What is settled before and after a step of the writers has not been
\* touched by it.
LEMMA SettledSame ==
    ASSUME SessionType, Next, NEW n \in Names, Settled(n), Settled(n)'
    PROVE  artifact'[n] = artifact[n] /\ sidecar'[n] = sidecar[n]
<1> USE DEF SessionType, Settled
<1>1. ASSUME NEW p \in Procs, Apart(p) PROVE UNCHANGED <<artifact, sidecar>>
  BY <1>1, ApartEffect
<1>2. ASSUME NEW p \in Procs, Publish(p) PROVE artifact'[n] = artifact[n] /\ sidecar' = sidecar
  <2>1. /\ artifact' = [artifact EXCEPT ![target[p]] = tmp[target[p]]]
        /\ pc' = [pc EXCEPT ![p] = "published"] /\ UNCHANGED <<target, sidecar>>
    BY <1>2 DEF Publish, Goto, locals
  <2>2. pc'[p] = "published"
    BY <2>1
  <2>3. target[p] # n
    BY <2>1, <2>2
  <2> QED
    BY <2>1, <2>3
<1>3. ASSUME NEW p \in Procs, OpenSidecar(p) \/ WriteSidecar(p)
      PROVE  artifact' = artifact /\ sidecar'[n] = sidecar[n]
  <2>1. pc[p] \in {"hashed", "sealing"} /\ artifact' = artifact
        /\ \/ sidecar' = sidecar
           \/ \E c : sidecar' = [sidecar EXCEPT ![target[p]] = c]
    BY <1>3 DEF OpenSidecar, WriteSidecar, Goto
  <2> QED
    BY <2>1
<1>4. ASSUME NEW p \in Procs, RemoveArtifact(p) \/ RemoveSidecar(p)
      PROVE  artifact'[n] = artifact[n] /\ sidecar'[n] = sidecar[n]
  BY <1>4 DEF RemoveArtifact, RemoveSidecar
<1>5. Tick => UNCHANGED <<artifact, sidecar>>
  BY DEF Tick, files
<1> QED
  BY <1>1, <1>2, <1>3, <1>4, <1>5 DEF Next, Step, Apart

\* A step of the writers.
LEMMA NextWriters ==
    ASSUME RInv, Next, UNCHANGED <<session, rotten>>, Meets,
           rot' = [n \in Names |-> IF artifact'[n] = artifact[n] THEN rot[n] ELSE None]
    PROVE  RInv'
<1> USE DEF RInv, session
<1>1. \A r \in Readers : unsettled'[r] =
          (at[r] # "idle" /\ (unsettled[r] \/ ~Settled(request[r].name)'))
  BY DEF Meets
<1>2. SessionType'
  <2>1. unsettled' \in [Readers -> BOOLEAN]
    BY DEF Meets
  <2> QED
    BY <2>1, DirectoryShape DEF SessionType
<1>3. RotInv'
  BY DEF RotInv, Damaged
<1>4. SettledInv'
  BY <1>1 DEF SettledInv
<1>5. RottenInv'
  <2> SUFFICES ASSUME NEW r \in Readers, at[r] # "idle", ~unsettled'[r], rotten[r]
               PROVE  /\ Damaged(request[r].name)' /\ sidecar'[request[r].name] \in Data
                      /\ at[r] = "hash" => expected[r] \in Data
                      /\ at[r] # "structure"
                      /\ Checked => at[r] \notin {"source", "extract"}
    BY DEF RottenInv
  <2>1. ~unsettled[r] /\ Settled(request[r].name)'
    BY <1>1
  <2>2. Settled(request[r].name) /\ request[r].name \in Names
    BY <2>1 DEF SettledInv, SessionType, Requests
  <2>3. artifact'[request[r].name] = artifact[request[r].name]
        /\ sidecar'[request[r].name] = sidecar[request[r].name]
    <3>1. \A n \in Names : Settled(n) /\ Settled(n)' =>
              artifact'[n] = artifact[n] /\ sidecar'[n] = sidecar[n]
      BY SettledSame
    <3> QED
      BY <2>1, <2>2, <3>1 DEF Settled
  <2> QED
    BY <2>1, <2>2, <2>3 DEF RottenInv, Damaged
<1>6. GuardInv' /\ AloneInv'
  BY DEF GuardInv, AloneInv, Refuses
<1> QED
  BY <1>2, <1>3, <1>4, <1>5, <1>6

\* Damage to an artifact at rest.
LEMMA NextDamage ==
    ASSUME RInv, Damage, UNCHANGED <<session, rotten, unsettled>>
    PROVE  RInv'
<1> USE DEF RInv, session
<1>1. PICK n \in Names, c \in {Torn, Rotten} :
          /\ artifact' = [artifact EXCEPT ![n] = c] /\ rot' = [rot EXCEPT ![n] = artifact[n]]
          /\ artifact[n] \in Data /\ \A m \in Names : rot[m] = None
          /\ UNCHANGED <<sidecar, pc, target, victim, cut>>
  BY DEF Damage, Damaged, locals, history
<1>2. SessionType'
  BY <1>1 DEF SessionType
<1>3. RotInv'
  BY <1>1 DEF RotInv, Damaged, SessionType
<1>4. SettledInv'
  BY <1>1 DEF SettledInv, Settled
<1>5. RottenInv'
  BY <1>1 DEF RottenInv, Damaged, SessionType, Requests
<1>6. GuardInv' /\ AloneInv'
  BY DEF GuardInv, AloneInv, Refuses
<1> QED
  BY <1>2, <1>3, <1>4, <1>5, <1>6

-----------------------------------------------------------------------------
(***************************************************************************)
(* The steps of the sessions.                                              *)
(***************************************************************************)

\* What one session does leaves the others alone.
LEMMA OtherSessions ==
    ASSUME SessionType, NEW r \in Readers, Start(r) \/ Reads(r), NEW s \in Readers \ {r}
    PROVE  /\ at'[s] = at[s] /\ request'[s] = request[s] /\ options'[s] = options[s]
           /\ expected'[s] = expected[s] /\ verdict'[s] = verdict[s]
           /\ rotten'[s] = rotten[s] /\ unsettled'[s] = unsettled[s]
<1> USE DEF SessionType, End, Goes, Proceed
<1>1. CASE Start(r)
  BY <1>1 DEF Start
<1>2. CASE AskSidecar(r) \/ FindArchive(r) \/ FindSidecar(r) \/ ReadSidecar(r)
  BY <1>2 DEF AskSidecar, FindArchive, FindSidecar, ReadSidecar
<1>3. CASE HashArchive(r)
  BY <1>3 DEF HashArchive
<1>4. CASE VerifyStructure(r)
  BY <1>4 DEF VerifyStructure, Pass
<1>5. CASE Restore(r) \/ Extract(r)
  BY <1>5 DEF Restore, Extract
<1> QED
  BY <1>1, <1>2, <1>3, <1>4, <1>5 DEF Reads

\* A session that ends has its variables as at first.
LEMMA EndType ==
    ASSUME SessionType, NEW r \in Readers, NEW o \in {"none", "ok", "alarm"}, End(r, o),
           UNCHANGED vars
    PROVE  SessionType' /\ at'[r] = "idle"
BY DEF SessionType, End, vars, files, Stages

\* A session that goes on keeps the types.
LEMMA ProceedType ==
    ASSUME SessionType, NEW r \in Readers, NEW to \in Stages, at[r] # "idle", Proceed(r, to),
           options' \in [Readers -> Options \union {None}],
           expected' = [s \in Readers |-> expected'[s]], UNCHANGED vars
    PROVE  SessionType' /\ at'[r] = to
BY DEF SessionType, Proceed, vars, files

\* A session begins.
LEMMA NextStart ==
    ASSUME RInv, NEW r \in Readers, Start(r), UNCHANGED vars
    PROVE  RInv'
<1> USE DEF RInv
<1>1. PICK q \in Requests :
          /\ request' = [request EXCEPT ![r] = q]
          /\ at' = [at EXCEPT ![r] = CASE q.verb = "verify" -> "archive"
                                       [] q.verb = "restore" /\ Checked -> "ask"
                                       [] q.verb = "restore" /\ ~Checked -> "source"]
          /\ rotten' = [rotten EXCEPT ![r] = Damaged(q.name) /\ sidecar[q.name] \in Data]
          /\ unsettled' = [unsettled EXCEPT ![r] = ~Settled(q.name)]
  BY DEF Start
<1>2. /\ verdict' = [verdict EXCEPT ![r] = "none"] /\ UNCHANGED <<options, expected, dest, rot>>
      /\ UNCHANGED <<artifact, sidecar, pc, target, victim, cut>>
  BY DEF Start, vars, files, locals, history
<1>3. /\ at'[r] \in {"archive", "ask", "source"} /\ (at'[r] = "source" => ~Checked)
      /\ request'[r] = q
      /\ rotten'[r] = (Damaged(q.name) /\ sidecar[q.name] \in Data)
      /\ unsettled'[r] = ~Settled(q.name)
  BY <1>1 DEF SessionType, Requests
<1>4. SessionType'
  <2>1. at' \in [Readers -> Stages]
    BY <1>1, <1>3 DEF SessionType, Stages
  <2>2. rotten' \in [Readers -> BOOLEAN] /\ unsettled' \in [Readers -> BOOLEAN]
    BY <1>1 DEF SessionType
  <2>3. request' \in [Readers -> Requests \union {None}]
    BY <1>1 DEF SessionType
  <2>4. \A s \in Readers : at'[s] # "idle" => request'[s] \in Requests
    BY <1>1, <1>3 DEF SessionType
  <2> QED
    BY <1>2, <2>1, <2>2, <2>3, <2>4 DEF SessionType
<1>5. \A s \in Readers \ {r} :
          /\ at'[s] = at[s] /\ request'[s] = request[s] /\ options'[s] = options[s]
          /\ rotten'[s] = rotten[s] /\ unsettled'[s] = unsettled[s]
  BY OtherSessions
<1>6. SettledInv'
  <2>1. ASSUME NEW s \in Readers, at'[s] # "idle", ~unsettled'[s]
        PROVE  Settled(request'[s].name)
    <3>1. CASE s = r
      BY <1>3, <2>1, <3>1
    <3>2. CASE s # r
      BY <1>5, <2>1, <3>2 DEF SettledInv
    <3> QED
      BY <3>1, <3>2
  <2> QED
    BY <1>2, <2>1 DEF SettledInv, Settled
<1>7. RottenInv'
  <2> SUFFICES ASSUME NEW s \in Readers, at'[s] # "idle", ~unsettled'[s], rotten'[s]
               PROVE  /\ rot[request'[s].name] # None /\ sidecar[request'[s].name] \in Data
                      /\ at'[s] = "hash" => expected[s] \in Data
                      /\ at'[s] # "structure"
                      /\ Checked => at'[s] \notin {"source", "extract"}
    BY <1>2 DEF RottenInv, Damaged
  <2>1. CASE s = r
    BY <1>3, <2>1 DEF Damaged
  <2>2. CASE s # r
    BY <1>5, <2>2 DEF RottenInv, Damaged
  <2> QED
    BY <2>1, <2>2
<1>8. RotInv' /\ GuardInv' /\ AloneInv'
  BY <1>2, <1>3, <1>5 DEF RotInv, Damaged, GuardInv, AloneInv, Refuses
<1> QED
  BY <1>4, <1>6, <1>7, <1>8

\* A session ends, or goes on where its invariant allows.
LEMMA NextReads ==
    ASSUME RInv, NEW r \in Readers, Reads(r), UNCHANGED <<vars, rot>>
    PROVE  RInv'
<1> USE DEF RInv
<1>1. /\ UNCHANGED <<artifact, sidecar, pc, target, victim, cut, rot>> /\ UNCHANGED vars
      /\ at[r] # "idle"
  BY DEF vars, files, locals, history, Reads, AskSidecar, FindArchive, FindSidecar, ReadSidecar,
         HashArchive, VerifyStructure, Restore, Extract
<1>2. \A s \in Readers \ {r} :
          /\ at'[s] = at[s] /\ request'[s] = request[s] /\ options'[s] = options[s]
          /\ expected'[s] = expected[s]
          /\ rotten'[s] = rotten[s] /\ unsettled'[s] = unsettled[s]
  BY OtherSessions
<1>3. \/ \E o \in {"none", "ok", "alarm"} : End(r, o)
      \/ /\ \E to \in Stages : Proceed(r, to)
         /\ options' \in [Readers -> Options \union {None}]
         /\ expected' = [s \in Readers |-> expected'[s]]
  <2>1. CASE AskSidecar(r) \/ FindSidecar(r) \/ ReadSidecar(r)
    BY <2>1 DEF AskSidecar, FindSidecar, ReadSidecar, Goes, SessionType, Stages
  <2>2. CASE FindArchive(r) \/ HashArchive(r)
    BY <2>2 DEF FindArchive, HashArchive, Goes, SessionType, Stages
  <2>3. CASE VerifyStructure(r)
    BY <2>3 DEF VerifyStructure, Pass, Goes, SessionType, Stages
  <2>4. CASE Restore(r)
    BY <2>4 DEF Restore, SessionType, Stages
  <2>5. CASE Extract(r)
    BY <2>5 DEF Extract
  <2> QED
    BY <2>1, <2>2, <2>3, <2>4, <2>5 DEF Reads
<1>4. SessionType'
  BY <1>1, <1>3, EndType, ProceedType
<1>5. \/ at'[r] = "idle"
      \/ /\ request'[r] = request[r] /\ rotten'[r] = rotten[r] /\ unsettled'[r] = unsettled[r]
  BY <1>1, <1>3, EndType DEF Proceed
<1>6. SettledInv'
  <2>1. \A n : Settled(n)' <=> Settled(n)
    BY <1>1 DEF Settled
  <2> QED
    BY <1>1, <1>2, <1>5, <2>1 DEF SettledInv, Settled
<1>7. RottenInv'
  <2> DEFINE n == request[r].name
  <2>1. SUFFICES ASSUME at'[r] # "idle", ~unsettled[r], rotten[r]
                 PROVE  /\ Damaged(n) /\ sidecar[n] \in Data
                        /\ at'[r] = "hash" => expected'[r] \in Data
                        /\ at'[r] # "structure"
                        /\ Checked => at'[r] \notin {"source", "extract"}
    BY <1>1, <1>2, <1>5 DEF RottenInv, Damaged
  <2>2. /\ Damaged(n) /\ sidecar[n] \in Data /\ artifact[n] \in {Torn, Rotten}
        /\ at[r] = "hash" => expected[r] \in Data
        /\ at[r] # "structure"
        /\ Checked => at[r] \notin {"source", "extract"}
    BY <1>1, <2>1 DEF RottenInv, RotInv, SessionType, Requests
  <2>3. artifact[n] \notin Data /\ sidecar[n] # None
    BY <2>2, NullAssumption, ReaderAssumption
  <2>4. at'[r] = "hash" => expected'[r] \in Data
    <3>1. CASE ReadSidecar(r)
      BY <2>2, <2>3, <3>1 DEF ReadSidecar, Sidecar, SessionType
    <3>2. CASE ~ReadSidecar(r)
      BY <2>1, <3>2 DEF Reads, AskSidecar, FindArchive, FindSidecar, HashArchive,
           VerifyStructure, Pass, Restore, Extract, Goes, Proceed, End, SessionType
    <3> QED
      BY <3>1, <3>2
  <2>5. at'[r] # "structure" /\ (Checked => at'[r] \notin {"source", "extract"})
    <3>1. CASE AskSidecar(r) \/ FindArchive(r) \/ FindSidecar(r) \/ ReadSidecar(r)
      BY <2>1, <2>3, <3>1 DEF AskSidecar, FindArchive, FindSidecar, ReadSidecar, Sidecar,
           Goes, Proceed, End, SessionType
    <3>2. CASE HashArchive(r)
      <4>1. expected[r] \in Data /\ ~Matches(r)
        BY <2>2, <2>3, <3>2 DEF HashArchive, Matches, Archive
      <4> QED
        BY <2>1, <3>2, <4>1 DEF HashArchive, End, SessionType
    <3>3. CASE VerifyStructure(r)
      BY <2>2, <3>3 DEF VerifyStructure
    <3>4. CASE Restore(r) \/ Extract(r)
      BY <2>1, <2>2, <3>4 DEF Restore, Extract, Proceed, End, SessionType
    <3> QED
      BY <3>1, <3>2, <3>3, <3>4 DEF Reads
  <2> QED
    BY <2>2, <2>4, <2>5
<1>8. at'[r] = "extract" => /\ options'[r] \in Options
                            /\ ~Lists(options'[r]) /\ ~Prints(options'[r])
                            /\ ~Refuses(options'[r]) /\ dest' = dest
  <2>1. CASE Restore(r)
    <3>1. dest' = dest
      BY <2>1 DEF Restore
    <3>2. PICK o \in Options :
            \/ End(r, "none")
            \/ /\ ~Lists(o) /\ ~Prints(o) /\ ~Refuses(o)
               /\ options' = [options EXCEPT ![r] = o]
      BY <2>1 DEF Restore
    <3>3. CASE End(r, "none")
      BY <3>3 DEF End, SessionType
    <3> QED
      BY <3>1, <3>2, <3>3 DEF SessionType
  <2>2. CASE ~Restore(r)
    BY <2>2 DEF Reads, AskSidecar, FindArchive, FindSidecar, ReadSidecar, HashArchive,
         VerifyStructure, Pass, Extract, Goes, Proceed, End, SessionType
  <2> QED
    BY <2>1, <2>2
<1>9. GuardInv'
  BY <1>2, <1>8 DEF GuardInv
<1>10. AloneInv'
  BY <1>8 DEF AloneInv, Refuses
<1>11. RotInv'
  BY <1>1 DEF RotInv, Damaged
<1> QED
  BY <1>4, <1>6, <1>7, <1>9, <1>10, <1>11

-----------------------------------------------------------------------------
(***************************************************************************)
(* The runs do not notice the damage.                                      *)
(***************************************************************************)

\* The artifacts as they would be had nothing damaged them, and the processes
\* that write them as they would run then.
healed == [n \in Names |-> IF Damaged(n) THEN rot[n] ELSE artifact[n]]
Whole == INSTANCE BackupManagerProofs WITH artifact <- healed

\* No run reads what is damaged of what it has published.
ApartInv ==
    \A p \in Procs : pc[p] \in {"published", "hashed", "sealing"} => ~Damaged(target[p])

HealedInv == Whole!IInv /\ Whole!SideInv /\ ApartInv

\* What a name and a configuration is does not depend on the artifacts.
LEMMA SameConstants == Whole!Names = Names /\ Whole!Configs = Configs
BY DEF Names, Whole!Names, Configs, Whole!Configs

\* The invariants of the processes, of healed artifacts.
LEMMA WholeStep ==
    ASSUME Whole!IInv, Whole!SideInv, [Whole!Next]_(Whole!vars)
    PROVE  Whole!IInv' /\ Whole!SideInv'
<1>1. Whole!IInv /\ [Whole!Next]_(Whole!vars) => Whole!IInv'
  BY Whole!Inductive, ConfigAssumption, BoundAssumption, NullAssumption, SeriesLockAssumption,
     RetentionAssumption, SameConstants
<1>2. Whole!IInv /\ Whole!SideInv /\ [Whole!Next]_(Whole!vars) => Whole!SideInv'
  BY Whole!SideInductive, ConfigAssumption, BoundAssumption, NullAssumption,
     SeriesLockAssumption, RetentionAssumption, SameConstants
<1> QED
  BY <1>1, <1>2

\* Healing neither brings an artifact back nor removes one.
LEMMA HealedIs ==
    ASSUME RInv, NEW n \in Names
    PROVE  /\ healed[n] # None <=> artifact[n] # None
           /\ ~Damaged(n) => healed[n] = artifact[n]
BY NullAssumption, ReaderAssumption DEF healed, RInv, RotInv

\* What moves no artifact leaves the damage alone.
LEMMA Unmoved ==
    ASSUME RInv, UNCHANGED artifact,
           rot' = [n \in Names |-> IF artifact'[n] = artifact[n] THEN rot[n] ELSE None]
    PROVE  UNCHANGED <<rot, healed>>
BY DEF RInv, RotInv, healed, Damaged

\* What goes wrong looks at no artifact.
LEMMA FaultSame == ASSUME NEW p \in Procs PROVE Fault(p) <=> Whole!Fault(p)
BY DEF Fault, Whole!Fault, CutShort, Whole!CutShort

\* The steps that neither read nor move an artifact.
LEMMA BlindSteps ==
    ASSUME NEW p \in Procs, UNCHANGED healed
    PROVE  /\ TryLock(p) => Whole!TryLock(p)
           /\ Prepare(p) => Whole!Prepare(p)
           /\ StartDump(p) => Whole!StartDump(p)
           /\ EndDump(p) => Whole!EndDump(p)
           /\ OpenSidecar(p) => Whole!OpenSidecar(p)
           /\ WriteSidecar(p) => Whole!WriteSidecar(p)
           /\ RemoveSidecar(p) => Whole!RemoveSidecar(p)
           /\ RemoveMetadata(p) => Whole!RemoveMetadata(p)
<1> USE DEF files, locals, history, Goto, LockFile,
            Whole!files, Whole!locals, Whole!history, Whole!Goto, Whole!LockFile
<1>1. (TryLock(p) => Whole!TryLock(p)) /\ (Prepare(p) => Whole!Prepare(p))
  BY DEF TryLock, Whole!TryLock, Prepare, Whole!Prepare
<1>2. (StartDump(p) => Whole!StartDump(p)) /\ (EndDump(p) => Whole!EndDump(p))
  BY DEF StartDump, Whole!StartDump, EndDump, Whole!EndDump
<1>3. (OpenSidecar(p) => Whole!OpenSidecar(p)) /\ (WriteSidecar(p) => Whole!WriteSidecar(p))
  BY DEF OpenSidecar, Whole!OpenSidecar, WriteSidecar, Whole!WriteSidecar
<1>4. RemoveSidecar(p) => Whole!RemoveSidecar(p)
  BY FaultSame DEF RemoveSidecar, Whole!RemoveSidecar
<1>5. RemoveMetadata(p) => Whole!RemoveMetadata(p)
  BY FaultSame DEF RemoveMetadata, Whole!RemoveMetadata
<1> QED
  BY <1>1, <1>2, <1>3, <1>4, <1>5

\* The ends of a run do not read one either.
LEMMA EndSteps ==
    ASSUME NEW p \in Procs, UNCHANGED healed
    PROVE  /\ Return(p) => Whole!Return(p)
           /\ Throw(p) => Whole!Throw(p)
           /\ EmptyDump(p) => Whole!EmptyDump(p)
           /\ Orphan(p) => Whole!Orphan(p)
           /\ OrphansEnd(p) => Whole!OrphansEnd(p)
           /\ Crash(p) => Whole!Crash(p)
<1> USE DEF files, locals, history, Goto, LockFile,
            Whole!files, Whole!locals, Whole!history, Whole!Goto, Whole!LockFile
<1>1. Leave(p) <=> Whole!Leave(p)
  BY DEF Leave, Whole!Leave
<1>2. Fault(p) <=> Whole!Fault(p)
  BY FaultSame
<1>3. Return(p) => Whole!Return(p)
  BY <1>1 DEF Return, Whole!Return, Cleans, Whole!Cleans, DescribedAt, Whole!DescribedAt,
     SealedAt, Whole!SealedAt
<1>4. Throw(p) => Whole!Throw(p)
  BY <1>1, <1>2 DEF Throw, Whole!Throw, Points, Whole!Points
<1>5. (EmptyDump(p) => Whole!EmptyDump(p)) /\ (OrphansEnd(p) => Whole!OrphansEnd(p))
  BY <1>1, <1>2 DEF EmptyDump, Whole!EmptyDump, OrphansEnd, Whole!OrphansEnd
<1>6. (Orphan(p) => Whole!Orphan(p)) /\ (Crash(p) => Whole!Crash(p))
  BY <1>1, <1>2 DEF Orphan, Whole!Orphan, Crash, Whole!Crash
<1> QED
  BY <1>3, <1>4, <1>5, <1>6

\* What the invariant says of a process and its target.
LEMMA HealedFacts ==
    ASSUME HealedInv, NEW p \in Procs
    PROVE  /\ pending[p] \in SUBSET Names
           /\ pc[p] \notin {"idle", "locked"} => target[p] \in Names
           /\ pc[p] = "removing" => victim[p] \in Names
           /\ pc[p] = "dumped" /\ tmp[target[p]] # None => tmp[target[p]] \in Data
           /\ pc[p] = "sealed" => digest[p] # None
<1> USE SameConstants DEF HealedInv, Whole!IInv
<1>1. pending[p] \in SUBSET Names
  BY DEF Whole!TypeOK
<1>2. pc[p] \notin {"idle", "locked"} => target[p] \in Names
  BY DEF Whole!TargetInv
<1>3. pc[p] = "removing" => victim[p] \in Names
  BY DEF Whole!VictimInv
<1>4. pc[p] = "dumped" /\ tmp[target[p]] # None => tmp[target[p]] \in Data
  BY <1>2 DEF Whole!TypeOK, Whole!WholeInv, Whole!Contents
<1>5. pc[p] = "sealed" => digest[p] # None
  BY DEF Whole!SideInv, Whole!MeantInv
<1> QED
  BY <1>1, <1>2, <1>3, <1>4, <1>5

\* The steps that read an artifact.
LEMMA SeeingSteps ==
    ASSUME RInv, HealedInv, NEW p \in Procs, UNCHANGED healed
    PROVE  /\ HashArtifact(p) => Whole!HashArtifact(p)
           /\ WriteMetadata(p) => Whole!WriteMetadata(p)
           /\ ListDirectory(p) => Whole!ListDirectory(p)
           /\ Examine(p) => Whole!Examine(p)
<1> USE DEF files, locals, history, Goto,
            Whole!files, Whole!locals, Whole!history, Whole!Goto
<1>1. HashArtifact(p) => Whole!HashArtifact(p)
  <2> SUFFICES ASSUME HashArtifact(p) PROVE Whole!HashArtifact(p)
    OBVIOUS
  <2>1. pc[p] = "published" /\ target[p] \in Names
    BY HealedFacts DEF HashArtifact
  <2>2. healed[target[p]] = artifact[target[p]]
    BY <2>1, HealedIs DEF HealedInv, ApartInv
  <2> QED
    BY <2>2 DEF HashArtifact, Whole!HashArtifact
<1>2. WriteMetadata(p) => Whole!WriteMetadata(p)
  <2> SUFFICES ASSUME WriteMetadata(p) PROVE Whole!WriteMetadata(p)
    OBVIOUS
  <2>1. pc[p] \in {"published", "sealed"} /\ target[p] \in Names
    BY HealedFacts DEF WriteMetadata, SealedAt
  <2>2. healed[target[p]] # None
    BY <2>1, HealedIs DEF WriteMetadata
  <2>3. digest[p] = None => healed[target[p]] = artifact[target[p]]
    BY <2>1, HealedFacts, HealedIs DEF HealedInv, ApartInv
  <2>4. (IF digest[p] = None THEN artifact[target[p]] ELSE digest[p])
        = IF digest[p] = None THEN healed[target[p]] ELSE digest[p]
    BY <2>3
  <2> QED
    BY <2>2, <2>4 DEF WriteMetadata, Whole!WriteMetadata, SealedAt, Whole!SealedAt
<1>3. ListDirectory(p) => Whole!ListDirectory(p)
  <2>1. {n \in Names : artifact[n] # None} = {n \in Whole!Names : healed[n] # None}
    BY HealedIs, SameConstants
  <2> QED
    BY <2>1 DEF ListDirectory, Whole!ListDirectory, Cleans, Whole!Cleans, DescribedAt,
       Whole!DescribedAt, SealedAt, Whole!SealedAt
<1>4. Examine(p) => Whole!Examine(p)
  <2>1. \A n \in pending[p] : Expired(p, n) <=> Whole!Expired(p, n)
    BY HealedFacts, HealedIs DEF Expired, Whole!Expired
  <2> QED
    BY <2>1 DEF Examine, Whole!Examine
<1> QED
  BY <1>1, <1>2, <1>3, <1>4

\* The steps that move one.
LEMMA PublishHealed ==
    ASSUME RInv, HealedInv, NEW p \in Procs, Publish(p),
           rot' = [n \in Names |-> IF artifact'[n] = artifact[n] THEN rot[n] ELSE None]
    PROVE  Whole!Publish(p) /\ ~Damaged(target[p])'
<1> DEFINE t == target[p]
<1>1. t \in Names /\ tmp[t] \in Data
  BY HealedFacts DEF Publish, Goto
<1>2. artifact' = [artifact EXCEPT ![t] = tmp[t]] /\ target' = target
  BY DEF Publish, locals
<1>3. artifact'[t] = tmp[t] /\ \A n \in Names \ {t} : artifact'[n] = artifact[n]
  BY <1>1, <1>2 DEF RInv, SessionType
<1>4. rot'[t] = None /\ \A n \in Names \ {t} : rot'[n] = rot[n]
  BY <1>1, <1>3, NullAssumption, ReaderAssumption DEF RInv, RotInv, Damaged
<1>5. healed' = [healed EXCEPT ![t] = tmp[t]]
  <2>1. \A n \in Names : healed'[n] = IF n = t THEN tmp[t] ELSE healed[n]
    BY <1>1, <1>3, <1>4 DEF healed, Damaged
  <2>2. healed' = [n \in Names |-> healed'[n]] /\ healed = [n \in Names |-> healed[n]]
    BY DEF healed
  <2> QED
    BY <1>1, <2>1, <2>2
<1> HIDE DEF t
<1>6. Whole!Publish(p)
  BY <1>5 DEF t, Publish, Whole!Publish, Goto, Whole!Goto, locals, Whole!locals, history,
     Whole!history
<1> QED
  BY <1>2, <1>4, <1>6 DEF t, Damaged

\* Cleanup removes what is damaged like any other.
LEMMA RemoveHealed ==
    ASSUME RInv, HealedInv, NEW p \in Procs, RemoveArtifact(p),
           rot' = [n \in Names |-> IF artifact'[n] = artifact[n] THEN rot[n] ELSE None]
    PROVE  Whole!RemoveArtifact(p)
<1> DEFINE v == victim[p]
<1>1. v \in Names
  BY HealedFacts DEF RemoveArtifact, Goto
<1>2. artifact' = [artifact EXCEPT ![v] = None]
  BY DEF RemoveArtifact
<1>3. artifact'[v] = None /\ \A n \in Names \ {v} : artifact'[n] = artifact[n]
  BY <1>1, <1>2 DEF RInv, SessionType
<1>4. rot'[v] = None /\ \A n \in Names \ {v} : rot'[n] = rot[n]
  BY <1>1, <1>3, NullAssumption, ReaderAssumption DEF RInv, RotInv, Damaged
<1>5. healed' = [healed EXCEPT ![v] = None]
  <2>1. \A n \in Names : healed'[n] = IF n = v THEN None ELSE healed[n]
    BY <1>1, <1>3, <1>4 DEF healed, Damaged
  <2>2. healed' = [n \in Names |-> healed'[n]] /\ healed = [n \in Names |-> healed[n]]
    BY DEF healed
  <2> QED
    BY <1>1, <2>1, <2>2
<1> HIDE DEF v
<1> QED
  BY <1>5 DEF v, RemoveArtifact, Whole!RemoveArtifact, Goto, Whole!Goto, locals, Whole!locals,
     history, Whole!history

\* Every step of the processes is one of theirs beside healed artifacts.
LEMMA NextHealed ==
    ASSUME RInv, HealedInv, Next,
           rot' = [n \in Names |-> IF artifact'[n] = artifact[n] THEN rot[n] ELSE None]
    PROVE  Whole!Next
<1> USE DEF Whole!Next, Whole!Step
<1>1. ASSUME NEW p \in Procs,
             TryLock(p) \/ Prepare(p) \/ StartDump(p) \/ EndDump(p) \/ OpenSidecar(p)
             \/ WriteSidecar(p) \/ RemoveSidecar(p) \/ RemoveMetadata(p)
      PROVE  Whole!Next
  <2>1. UNCHANGED artifact
    BY <1>1 DEF TryLock, Prepare, StartDump, EndDump, OpenSidecar, WriteSidecar, RemoveSidecar,
       RemoveMetadata, files
  <2>2. UNCHANGED healed
    BY <2>1, Unmoved
  <2> QED
    BY <1>1, <2>2, BlindSteps
<1>2. ASSUME NEW p \in Procs,
             Return(p) \/ Throw(p) \/ EmptyDump(p) \/ Orphan(p) \/ OrphansEnd(p) \/ Crash(p)
      PROVE  Whole!Next
  <2>1. UNCHANGED artifact
    BY <1>2 DEF Return, Throw, EmptyDump, Orphan, OrphansEnd, Crash, files
  <2>2. UNCHANGED healed
    BY <2>1, Unmoved
  <2> QED
    BY <1>2, <2>2, EndSteps
<1>3. ASSUME NEW p \in Procs,
             HashArtifact(p) \/ WriteMetadata(p) \/ ListDirectory(p) \/ Examine(p)
      PROVE  Whole!Next
  <2>1. UNCHANGED artifact
    BY <1>3 DEF HashArtifact, WriteMetadata, ListDirectory, Examine, files
  <2>2. UNCHANGED healed
    BY <2>1, Unmoved
  <2> QED
    BY <1>3, <2>2, SeeingSteps
<1>4. CASE Tick
  <2>1. UNCHANGED healed
    BY <1>4, Unmoved DEF Tick, files
  <2>2. Whole!Tick
    BY <1>4, <2>1 DEF Tick, Whole!Tick, files, locals, history, Whole!files, Whole!locals,
       Whole!history
  <2> QED
    BY <2>2
<1> QED
  BY <1>1, <1>2, <1>3, <1>4, PublishHealed, RemoveHealed DEF Next, Step

\* Who has just published, or has still to read what it published, has been
\* there before or publishes now.
LEMMA ApartMoves ==
    ASSUME HealedInv, RInv, Next, NEW p \in Procs,
           pc'[p] \in {"published", "hashed", "sealing"}, ~Publish(p)
    PROVE  pc[p] \in {"published", "hashed", "sealing"} /\ target'[p] = target[p]
<1> USE DEF Goto, locals
<1>1. pc = [q \in Procs |-> pc[q]] /\ target = [q \in Procs |-> target[q]]
  BY DEF RInv, SessionType, HealedInv, Whole!IInv, Whole!TypeOK
<1>2. ASSUME NEW q \in Procs, TryLock(q) \/ Prepare(q) \/ StartDump(q) \/ EndDump(q) \/ Publish(q)
      PROVE  pc[p] = pc'[p] /\ target'[p] = target[p]
  BY <1>1, <1>2 DEF TryLock, Prepare, StartDump, EndDump, Publish
<1>3. ASSUME NEW q \in Procs, HashArtifact(q) \/ OpenSidecar(q) \/ WriteSidecar(q) \/ WriteMetadata(q)
      PROVE  pc[p] \in {"published", "hashed", "sealing"} /\ target'[p] = target[p]
  BY <1>1, <1>3 DEF HashArtifact, OpenSidecar, WriteSidecar, WriteMetadata
<1>4. ASSUME NEW q \in Procs, ListDirectory(q) \/ Examine(q) \/ RemoveArtifact(q)
                               \/ RemoveSidecar(q) \/ RemoveMetadata(q)
      PROVE  pc[p] = pc'[p] /\ target'[p] = target[p]
  BY <1>1, <1>4 DEF ListDirectory, Examine, RemoveArtifact, RemoveSidecar, RemoveMetadata
<1>5. ASSUME NEW q \in Procs, Return(q) \/ Throw(q) \/ EmptyDump(q) \/ OrphansEnd(q) \/ Crash(q)
                               \/ Orphan(q)
      PROVE  pc[p] = pc'[p] /\ target'[p] = target[p]
  BY <1>1, <1>5 DEF Return, Throw, EmptyDump, OrphansEnd, Crash, Orphan, Leave
<1>6. CASE Tick
  BY <1>6 DEF Tick
<1> QED
  BY <1>2, <1>3, <1>4, <1>5, <1>6 DEF Next, Step

\* A step of the processes, of healed artifacts.
LEMMA WritersHealed ==
    ASSUME RInv, HealedInv, Next,
           rot' = [n \in Names |-> IF artifact'[n] = artifact[n] THEN rot[n] ELSE None]
    PROVE  Whole!Next /\ HealedInv'
<1>1. Whole!Next
  BY NextHealed
<1>2. Whole!IInv' /\ Whole!SideInv'
  BY <1>1, WholeStep DEF HealedInv
<1>3. ASSUME NEW p \in Procs, pc'[p] \in {"published", "hashed", "sealing"}
      PROVE  ~Damaged(target[p])'
  <2>1. CASE Publish(p)
    BY <2>1, PublishHealed
  <2>2. CASE ~Publish(p)
    <3>1. pc[p] \in {"published", "hashed", "sealing"} /\ target'[p] = target[p]
      BY <1>3, <2>2, ApartMoves
    <3>2. ~Damaged(target[p]) /\ target[p] \in Names
      BY <3>1, HealedFacts DEF HealedInv, ApartInv
    <3>3. rot[target[p]] = None
      BY <3>2 DEF Damaged
    <3>4. rot'[target[p]] = None
      BY <3>2, <3>3
    <3>5. rot'[target'[p]] = None
      BY <3>1, <3>4
    <3> QED
      BY <3>5 DEF Damaged
  <2> QED
    BY <2>1, <2>2
<1> QED
  BY <1>1, <1>2, <1>3 DEF HealedInv, ApartInv

\* Damage is undone by healing.
LEMMA DamageHealed ==
    ASSUME RInv, HealedInv, Damage
    PROVE  UNCHANGED Whole!vars /\ HealedInv'
<1>1. PICK n \in Names, c \in {Torn, Rotten} :
          /\ artifact[n] \in Data /\ Settled(n) /\ \A m \in Names : ~Damaged(m)
          /\ artifact' = [artifact EXCEPT ![n] = c]
          /\ rot' = [rot EXCEPT ![n] = artifact[n]]
          /\ UNCHANGED <<now, lock, mtime, tmp, sidecar, meta, pc, locals, history>>
  BY DEF Damage
<1>2. rot'[n] = artifact[n] /\ rot'[n] # None
      /\ \A m \in Names \ {n} : rot'[m] = rot[m] /\ artifact'[m] = artifact[m]
  BY <1>1, NullAssumption DEF RInv, RotInv, SessionType
<1>3. \A m \in Names : healed'[m] = healed[m]
  BY <1>1, <1>2 DEF healed, Damaged
<1>4. UNCHANGED healed
  <2>1. healed' = [m \in Names |-> healed'[m]] /\ healed = [m \in Names |-> healed[m]]
    BY DEF healed
  <2> QED
    BY <1>3, <2>1
<1>5. UNCHANGED Whole!vars
  BY <1>1, <1>4 DEF Whole!vars, Whole!files, Whole!locals, Whole!history, locals, history
<1>6. Whole!IInv' /\ Whole!SideInv'
  BY <1>5, WholeStep DEF HealedInv
<1>7. ApartInv'
  <2> SUFFICES ASSUME NEW p \in Procs, pc[p] \in {"published", "hashed", "sealing"}
               PROVE  rot'[target[p]] = None
    BY <1>1 DEF ApartInv, Damaged, locals
  <2>1. target[p] # n
    BY <1>1 DEF Settled
  <2>2. target[p] \in Names
    BY HealedFacts
  <2>3. rot[target[p]] = None
    BY <1>1, <2>2 DEF Damaged
  <2> QED
    BY <1>2, <2>1, <2>2, <2>3
<1> QED
  BY <1>5, <1>6, <1>7 DEF HealedInv

\* Every step, of a session or of the disk too, is one of the processes' or
\* none, of healed artifacts.
LEMMA StepHealed ==
    ASSUME RInv, HealedInv, [RestoreNext]_allVars
    PROVE  [Whole!Next]_(Whole!vars) /\ HealedInv'
<1>1. ASSUME UNCHANGED <<vars, rot>>
      PROVE  UNCHANGED Whole!vars /\ HealedInv'
  <2>1. UNCHANGED healed
    BY <1>1 DEF healed, Damaged, vars, files
  <2>2. UNCHANGED Whole!vars
    BY <1>1, <2>1 DEF Whole!vars, Whole!files, Whole!locals, Whole!history, vars, files, locals, history
  <2>3. ApartInv'
    BY <1>1 DEF HealedInv, ApartInv, Damaged, vars, locals
  <2> QED
    BY <2>2, <2>3, WholeStep DEF HealedInv
<1>2. ASSUME NEW r \in Readers, Start(r), UNCHANGED vars
      PROVE  UNCHANGED <<vars, rot>>
  BY <1>2 DEF Start
<1> QED
  BY <1>1, <1>2, WritersHealed, DamageHealed DEF RestoreNext, allVars, observed

\* Initially nothing is there, healed or not.
LEMMA InitHealed == RestoreInit => Whole!Init /\ HealedInv
<1> SUFFICES ASSUME RestoreInit PROVE Whole!Init /\ HealedInv
  OBVIOUS
<1>1. healed = [n \in Names |-> None]
  BY DEF RestoreInit, Init, healed, Damaged
<1>2. Whole!Init
  BY <1>1, SameConstants DEF RestoreInit, Init, Whole!Init
<1>3. Whole!IInv /\ Whole!SideInv
  BY <1>2, Whole!InitInv, Whole!InitSide, ConfigAssumption, BoundAssumption, NullAssumption,
     SeriesLockAssumption, RetentionAssumption, SameConstants
<1>4. ApartInv
  BY DEF RestoreInit, Init, ApartInv
<1> QED
  BY <1>2, <1>3, <1>4 DEF HealedInv

-----------------------------------------------------------------------------
(***************************************************************************)
(* A session whose artifact is at rest.                                    *)
(***************************************************************************)

\* It finds what it found before: the archive, the sidecar, the checksum.
AlarmInv ==
    \A r \in Readers : at[r] # "idle" /\ ~unsettled[r] =>
        /\ Archive(r) # None
        /\ at[r] \in {"read", "hash"} => Sidecar(r) # None
        /\ at[r] = "hash" => expected[r] = Sidecar(r)

\* The runs leave it alone while it is settled.
LEMMA AlarmWriters ==
    ASSUME RInv, AlarmInv, Next, UNCHANGED session, Meets
    PROVE  AlarmInv'
<1> SUFFICES ASSUME NEW r \in Readers, at'[r] # "idle", ~unsettled'[r]
             PROVE  /\ Archive(r)' # None
                    /\ at'[r] \in {"read", "hash"} => Sidecar(r)' # None
                    /\ at'[r] = "hash" => expected'[r] = Sidecar(r)'
  BY DEF AlarmInv
<1>1. at' = at /\ request' = request /\ expected' = expected
  BY DEF session
<1> DEFINE n == request[r].name
<1>2. ~unsettled[r] /\ Settled(n)'
  BY <1>1 DEF Meets
<1>3. Settled(n) /\ n \in Names
  BY <1>1, <1>2 DEF RInv, SettledInv, SessionType, Requests
<1>4. artifact'[n] = artifact[n] /\ sidecar'[n] = sidecar[n]
  <2>1. \A m \in Names : Settled(m) /\ Settled(m)' =>
            artifact'[m] = artifact[m] /\ sidecar'[m] = sidecar[m]
    BY SettledSame DEF RInv
  <2> QED
    BY <1>1, <1>2, <1>3, <2>1 DEF Settled
<1> QED
  BY <1>1, <1>2, <1>4 DEF AlarmInv, Archive, Sidecar

\* A damaged archive is still there.
LEMMA AlarmDamage ==
    ASSUME RInv, AlarmInv, Damage, UNCHANGED <<session, unsettled>>
    PROVE  AlarmInv'
<1>1. PICK n \in Names, c \in {Torn, Rotten} : artifact' = [artifact EXCEPT ![n] = c]
  BY DEF Damage
<1>2. sidecar' = sidecar /\ at' = at /\ request' = request /\ expected' = expected
  BY DEF Damage, session
<1>3. \A m \in Names : artifact[m] # None => artifact'[m] # None
  BY <1>1, NullAssumption, ReaderAssumption DEF RInv, SessionType
<1>4. \A r \in Readers : at[r] # "idle" => request[r].name \in Names
  BY DEF RInv, SessionType, Requests
<1> QED
  BY <1>2, <1>3, <1>4 DEF AlarmInv, Archive, Sidecar

\* A session's own steps.
LEMMA AlarmSessions ==
    ASSUME RInv, AlarmInv, NEW r \in Readers, Start(r) \/ Reads(r), UNCHANGED vars
    PROVE  AlarmInv'
<1>1. \A s \in Readers \ {r} :
          /\ at'[s] = at[s] /\ request'[s] = request[s] /\ expected'[s] = expected[s]
          /\ unsettled'[s] = unsettled[s]
  BY OtherSessions DEF RInv
<1>2. artifact' = artifact /\ sidecar' = sidecar
  BY DEF vars, files
<1> SUFFICES ASSUME at'[r] # "idle", ~unsettled'[r]
             PROVE  /\ Archive(r)' # None
                    /\ at'[r] \in {"read", "hash"} => Sidecar(r)' # None
                    /\ at'[r] = "hash" => expected'[r] = Sidecar(r)'
  BY <1>1, <1>2 DEF AlarmInv, Archive, Sidecar
<1>3. CASE Start(r)
  <2>1. PICK q \in Requests :
          /\ artifact[q.name] # None /\ request' = [request EXCEPT ![r] = q]
          /\ at' = [at EXCEPT ![r] = CASE q.verb = "verify" -> "archive"
                                       [] q.verb = "restore" /\ Checked -> "ask"
                                       [] q.verb = "restore" /\ ~Checked -> "source"]
    BY <1>3 DEF Start
  <2>2. at'[r] \in {"archive", "ask", "source"} /\ request'[r] = q
    BY <2>1, ReaderAssumption DEF RInv, SessionType, Requests
  <2> QED
    BY <1>2, <2>1, <2>2 DEF Archive
<1>4. CASE Reads(r)
  <2>1. at[r] # "idle"
    BY <1>4 DEF Reads, AskSidecar, FindArchive, FindSidecar, ReadSidecar, HashArchive,
       VerifyStructure, Restore, Extract
  <2>2. CASE FindSidecar(r) \/ ReadSidecar(r) \/ AskSidecar(r)
    <3>1. request' = request /\ unsettled' = unsettled
      BY <2>2 DEF FindSidecar, ReadSidecar, AskSidecar, Goes, Proceed
    <3>2. Archive(r) # None /\ (at[r] = "read" => Sidecar(r) # None)
      BY <2>1, <3>1 DEF AlarmInv
    <3>3. CASE FindSidecar(r) \/ AskSidecar(r)
      <4>1. at' = [at EXCEPT ![r] = IF FindSidecar(r)
                                    THEN IF Sidecar(r) = None THEN "structure" ELSE "read"
                                    ELSE IF Sidecar(r) = None THEN "source" ELSE "archive"]
        BY <3>3 DEF FindSidecar, AskSidecar, Goes, Proceed
      <4>2. at'[r] = "read" => Sidecar(r) # None
        BY <4>1 DEF RInv, SessionType
      <4>3. at'[r] # "hash"
        BY <4>1 DEF RInv, SessionType
      <4> QED
        BY <1>2, <3>1, <3>2, <4>2, <4>3 DEF Archive, Sidecar
    <3>4. CASE ReadSidecar(r)
      <4>1. at[r] = "read" /\ expected'[r] = Sidecar(r)
        BY <3>2, <3>4 DEF ReadSidecar, RInv, SessionType
      <4> QED
        BY <1>2, <3>1, <3>2, <4>1 DEF Archive, Sidecar
    <3> QED
      BY <2>2, <3>3, <3>4
  <2>3. CASE FindArchive(r) \/ HashArchive(r) \/ VerifyStructure(r) \/ Restore(r) \/ Extract(r)
    <3>1. request'[r] = request[r] /\ unsettled'[r] = unsettled[r]
          /\ at'[r] \in {"sidecar", "structure", "source", "extract"}
      BY <2>3 DEF FindArchive, HashArchive, VerifyStructure, Pass, Restore, Extract, End, Goes,
         Proceed, RInv, SessionType
    <3> QED
      BY <1>2, <2>1, <3>1 DEF AlarmInv, Archive
  <2> QED
    BY <1>4, <2>2, <2>3 DEF Reads
<1> QED
  BY <1>3, <1>4

\* Every step keeps what such a session has found.
LEMMA NextAlarm == RInv /\ AlarmInv /\ [RestoreNext]_allVars => AlarmInv'
<1> SUFFICES ASSUME RInv, AlarmInv, [RestoreNext]_allVars PROVE AlarmInv'
  OBVIOUS
<1>1. CASE UNCHANGED allVars
  BY <1>1 DEF allVars, session, observed, vars, files, AlarmInv, Archive, Sidecar
<1> QED
  BY <1>1, AlarmWriters, AlarmDamage, AlarmSessions DEF RestoreNext

\* What a session may find of an artifact at rest that nothing has damaged:
\* a whole dump, and its checksum or no sidecar.
LEMMA AtRest ==
    ASSUME ~ShortWrites,
           \A p, q \in Procs : Config[p].series = Config[q].series
                                   => Config[p].checksum = Config[q].checksum,
           RInv, HealedInv, NEW n \in Names, Settled(n), ~Damaged(n), artifact[n] # None
    PROVE  artifact[n] \in Data /\ sidecar[n] \in {None, artifact[n]}
<1>1. healed[n] = artifact[n]
  BY HealedIs
<1>2. artifact[n] \in Data
  BY <1>1, SameConstants DEF HealedInv, Whole!IInv, Whole!TypeOK, Whole!WholeInv, Whole!Contents
<1>3. sidecar[n] \in Data \union {Torn, None}
  BY SameConstants DEF HealedInv, Whole!IInv, Whole!TypeOK, Whole!Contents
<1>4. sidecar[n] # Torn
  BY SameConstants DEF HealedInv, Whole!SideInv, Whole!TornInv, Whole!TornExcused, Settled
<1>5. ASSUME sidecar[n] \in Data, sidecar[n] # artifact[n]
      PROVE  FALSE
  <2>1. PICK p \in Procs : Config[p].series = n[1] /\ ~Config[p].checksum
    BY <1>1, <1>2, <1>5, SameConstants
       DEF HealedInv, Whole!SideInv, Whole!MismatchOnlyUnsealed, Settled
  <2>2. sidecar[n] # None
    BY <1>5, NullAssumption
  <2>3. PICK q \in Procs : Config[q].series = n[1] /\ Config[q].checksum
    BY <2>2, SameConstants DEF HealedInv, Whole!SideInv, Whole!MeantInv
  <2> QED
    BY <2>1, <2>3
<1> QED
  BY <1>2, <1>3, <1>4, <1>5

-----------------------------------------------------------------------------
(***************************************************************************)
(* The theorems.                                                           *)
(***************************************************************************)

\* Initially there is no session and nothing is damaged.
LEMMA InitInv == RestoreInit => RInv
BY DEF RestoreInit, Init, RInv, SessionType, RotInv, Damaged, SettledInv, RottenInv, GuardInv,
       AloneInv, Stages

\* Every step keeps the invariant.
LEMMA NextInv == RInv /\ [RestoreNext]_allVars => RInv'
<1> SUFFICES ASSUME RInv, [RestoreNext]_allVars PROVE RInv'
  OBVIOUS
<1>1. CASE UNCHANGED allVars
  BY <1>1 DEF allVars, session, observed, vars, files, locals, history, RInv, SessionType, RotInv,
     Damaged, SettledInv, Settled, RottenInv, GuardInv, AloneInv, Refuses
<1> QED
  BY <1>1, NextWriters, NextDamage, NextStart, NextReads DEF RestoreNext

\* The inductive invariant holds of every behaviour.
THEOREM Invariance == RestoreSpec => []RInv
BY InitInv, NextInv, PTL DEF RestoreSpec

\* Who changes a verdict or the destination is a session that reads.
LEMMA SessionMoves ==
    ASSUME RInv, [RestoreNext]_allVars
    PROVE  \/ UNCHANGED <<verdict, dest>>
           \/ \E r \in Readers :
                /\ Start(r) \/ Reads(r)
                /\ \A s \in Readers \ {r} : verdict'[s] = verdict[s]
<1>1. ASSUME NEW r \in Readers, Start(r) \/ Reads(r)
      PROVE  \A s \in Readers \ {r} : verdict'[s] = verdict[s]
  BY <1>1, OtherSessions DEF RInv
<1> QED
  BY <1>1 DEF RestoreNext, allVars, session

\* Only extraction writes to the destination.
LEMMA OnlyExtract ==
    ASSUME RInv, [RestoreNext]_allVars, dest' # dest
    PROVE  \E r \in Readers : Extract(r)
BY SessionMoves DEF Start, Reads, AskSidecar, FindArchive, FindSidecar, ReadSidecar,
   HashArchive, VerifyStructure, Restore

\* verify passes no artifact that was damaged before it began and has its
\* sidecar, whatever the runs, the cleanup and other sessions do meanwhile,
\* unless a run is at work on that very artifact.
THEOREM DamageAlways == RestoreSpec => DamageFound
<1>1. RInv /\ [RestoreNext]_allVars
        => [\A r \in Readers : verdict[r] = "none" /\ verdict'[r] = "ok"
                => ~rotten[r] \/ unsettled[r]]_allVars
  <2> SUFFICES ASSUME RInv, [RestoreNext]_allVars, NEW r \in Readers,
                      verdict[r] = "none", verdict'[r] = "ok"
               PROVE  ~rotten[r] \/ unsettled[r]
    OBVIOUS
  <2>1. Start(r) \/ Reads(r)
    BY SessionMoves
  <2>2. ~(Start(r) \/ AskSidecar(r) \/ FindArchive(r) \/ FindSidecar(r) \/ ReadSidecar(r)
            \/ HashArchive(r) \/ Restore(r) \/ Extract(r))
    BY DEF Start, AskSidecar, FindArchive, FindSidecar, ReadSidecar, HashArchive, Restore,
           Extract, Goes, Proceed, End, RInv, SessionType
  <2>3. at[r] = "structure"
    BY <2>1, <2>2 DEF Reads, VerifyStructure
  <2> QED
    BY <2>3 DEF RInv, RottenInv
<1> QED
  BY Invariance, <1>1, PTL DEF RestoreSpec, DamageFound

\* With checksums on, nothing of an artifact that was damaged before a
\* restore began, and has its sidecar, reaches the destination.
THEOREM RefusalAlways ==
    ASSUME Checked
    PROVE  RestoreSpec => RefusesDamaged
<1>1. RInv /\ [RestoreNext]_allVars
        => [\A r \in Readers : at[r] = "extract" /\ dest' # dest
                => ~rotten[r] \/ unsettled[r]]_allVars
  BY DEF RInv, RottenInv
<1> QED
  BY Invariance, <1>1, PTL DEF RestoreSpec, RefusesDamaged

\* The destination is changed only by a session told to overwrite, or by a
\* filesystem restore that found it empty.  Of two filesystem restores at
\* once the second may write over what the first has just extracted.
THEOREM ConfirmedAlways ==
    ASSUME "files" \notin Sources \/ \A r, s \in Readers : r = s
    PROVE  RestoreSpec => Confirmed
<1>1. RInv /\ [RestoreNext]_allVars
        => [dest' # dest => \E r \in Readers :
              /\ at[r] = "extract"
              /\ options[r].overwrite \/ (options[r].source = "files" /\ dest = None)]_allVars
  <2> SUFFICES ASSUME RInv, [RestoreNext]_allVars, dest' # dest
               PROVE  \E r \in Readers :
                        /\ at[r] = "extract"
                        /\ options[r].overwrite \/ (options[r].source = "files" /\ dest = None)
    OBVIOUS
  <2>1. PICK r \in Readers : Extract(r)
    BY OnlyExtract
  <2>2. at[r] = "extract" /\ ("files" \in Sources => ~Refuses(options[r]))
    BY <2>1 DEF Extract, RInv, AloneInv
  <2>3. options[r] \in Options /\ ~Lists(options[r]) /\ ~Prints(options[r])
    BY <2>2 DEF RInv, GuardInv
  <2> QED
    BY <2>2, <2>3, ReaderAssumption DEF Options, Lists, Prints, Refuses
<1> QED
  BY Invariance, <1>1, PTL DEF RestoreSpec, Confirmed

\* A dry run of a filesystem or a service restore writes nothing, and none
\* is ever at the point where another could write for it.
THEOREM DryRunAlways ==
    ASSUME Sources \subseteq {"files", "service"}
    PROVE  RestoreSpec => DryRunInert
<1>1. RInv /\ [RestoreNext]_allVars
        => [\A r \in Readers : at[r] = "extract" /\ options[r].dryRun => dest' = dest]_allVars
  BY DEF RInv, GuardInv, Options, Lists
<1> QED
  BY Invariance, <1>1, PTL DEF RestoreSpec, DryRunInert

\* Every behaviour of runs, sessions and the disk is one of the runs alone,
\* of the artifacts as they would be had none been damaged: no run notices
\* a session, and none reads what is damaged of what it published.
THEOREM RunsUndisturbed == RestoreSpec => Whole!Init /\ [][Whole!Next]_(Whole!vars)
BY Invariance, InitHealed, StepHealed, PTL DEF RestoreSpec

\* The invariants of the runs hold of healed artifacts in every behaviour.
THEOREM HealedInvariance == RestoreSpec => []HealedInv
BY Invariance, InitHealed, StepHealed, PTL DEF RestoreSpec

\* Whatever sessions read and the disk damages, the directory is the store
\* the runs promise, but for what is damaged.
THEOREM StoreUndisturbed ==
    RestoreSpec => Whole!Store!Init /\ [][Whole!Store!Next]_(Whole!Store!vars)
<1>1. Whole!Init => Whole!Store!Init
  BY DEF Whole!Init, Whole!Store!Init
<1>2. RInv /\ HealedInv /\ [RestoreNext]_allVars => [Whole!Store!Next]_(Whole!Store!vars)
  BY StepHealed, Whole!StepRefines, ConfigAssumption, BoundAssumption, NullAssumption,
     SeriesLockAssumption, RetentionAssumption, SameConstants DEF HealedInv
<1> QED
  BY Invariance, HealedInvariance, InitHealed, <1>1, <1>2, PTL DEF RestoreSpec

\* A session whose artifact is at rest is never surprised by it.
THEOREM AlarmInvariance == RestoreSpec => []AlarmInv
<1>1. RestoreInit => AlarmInv
  BY DEF RestoreInit, AlarmInv
<1> QED
  BY Invariance, <1>1, NextAlarm, PTL DEF RestoreSpec

\* Where sidecars are not written short and the jobs of a series agree on
\* checksums, a session cries alarm only over an artifact that is damaged,
\* or that a run was at work on meanwhile.
THEOREM AlarmAlways ==
    ASSUME ~ShortWrites,
           \A p, q \in Procs : Config[p].series = Config[q].series
                                   => Config[p].checksum = Config[q].checksum
    PROVE  RestoreSpec => AlarmFounded
<1>1. RInv /\ HealedInv /\ AlarmInv /\ [RestoreNext]_allVars
        => [\A r \in Readers : verdict[r] = "none" /\ verdict'[r] = "alarm"
                => Damaged(request[r].name) \/ unsettled[r]]_allVars
  <2> SUFFICES ASSUME RInv, HealedInv, AlarmInv, [RestoreNext]_allVars, NEW r \in Readers,
                      verdict[r] = "none", verdict'[r] = "alarm",
                      ~Damaged(request[r].name), ~unsettled[r]
               PROVE  FALSE
    OBVIOUS
  <2>1. Start(r) \/ Reads(r)
    BY SessionMoves
  <2>2. ~(Start(r) \/ AskSidecar(r) \/ FindSidecar(r) \/ ReadSidecar(r) \/ Restore(r) \/ Extract(r))
    BY DEF Start, AskSidecar, FindSidecar, ReadSidecar, Restore, Extract, Goes, Proceed, End, RInv,
       SessionType
  <2>3. FindArchive(r) \/ HashArchive(r) \/ VerifyStructure(r)
    BY <2>1, <2>2 DEF Reads
  <2>4. /\ at[r] # "idle" /\ Archive(r) # None
        /\ at[r] = "hash" => expected[r] = Sidecar(r) /\ Sidecar(r) # None
    BY <2>3 DEF FindArchive, HashArchive, VerifyStructure, AlarmInv
  <2>5. request[r].name \in Names /\ Settled(request[r].name)
    BY <2>4 DEF RInv, SessionType, SettledInv, Requests
  <2>6. Archive(r) \in Data /\ Sidecar(r) \in {None, Archive(r)}
    BY <2>4, <2>5, AtRest DEF Archive, Sidecar
  <2>7. Archive(r) \notin {None, Torn}
    BY <2>6, NullAssumption
  <2>8. CASE FindArchive(r)
    BY <2>7, <2>8 DEF FindArchive, Goes, Proceed, RInv, SessionType
  <2>9. CASE HashArchive(r)
    <3>1. Matches(r)
      BY <2>4, <2>6, <2>7, <2>9 DEF HashArchive, Matches
    <3> QED
      BY <2>7, <2>9, <3>1 DEF HashArchive, Goes, Proceed
  <2>10. CASE VerifyStructure(r)
    BY <2>7, <2>10 DEF VerifyStructure, Pass, Goes, Proceed, End, RInv, SessionType
  <2> QED
    BY <2>3, <2>8, <2>9, <2>10
<1> QED
  BY Invariance, HealedInvariance, AlarmInvariance, <1>1, PTL DEF RestoreSpec, AlarmFounded

=============================================================================
