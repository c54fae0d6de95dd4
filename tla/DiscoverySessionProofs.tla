----------------------- MODULE DiscoverySessionProofs -----------------------
(***************************************************************************)
(* What holds of DiscoverySession for any servers, any engines and however *)
(* often the user asks.                                                    *)
(***************************************************************************)
EXTENDS DiscoverySession, SequenceTheorems, TLAPS

-----------------------------------------------------------------------------
(***************************************************************************)
(* The inductive invariant.                                                *)
(***************************************************************************)

\* What is written to the session or waits to be read has been counted, also
\* when the session can no longer be started; one that has ended may have
\* taken questions that are counted and never answered.
CountInv ==
    /\ session \in {"starting", "running", "unlaunched"} /\ ~stopping
         => outstanding = Len(inbox) + Len(outbox)
    /\ session = "over" /\ ~stopping => outstanding >= Len(inbox) + Len(outbox)
    /\ session = "none" => outstanding = 0

\* A session that nobody stops talks to the target.
ServesInv == session # "none" /\ ~stopping => serves = target

\* A session that has ended although nobody stopped it has died.
DiedInv == session = "over" /\ ~stopping => died

\* No database question is in the sequence of questions.
NoEngine(s) == \A i \in 1 .. Len(s) : s[i] \notin Engines

\* The last database question of the sequence is about the engine.
LastEngine(s, e) ==
    \E i \in 1 .. Len(s) :
        s[i] = e /\ \A j \in 1 .. Len(s) : j > i => s[j] \notin Engines

\* The last database answer to come, or the last that came, is about e.
Settles(e) ==
    \/ LastEngine(inbox, e)
    \/ NoEngine(inbox) /\ LastEngine(outbox, e)
    \/ NoEngine(inbox) /\ NoEngine(outbox) /\ shown = e

\* A selection that no end of a session has overtaken will be settled by what
\* is under way, or is waited for in vain.
SelectedInv ==
    /\ stopping => ~chosen
    /\ chosen /\ selected # None =>
         /\ session # "none"
         /\ \/ Settles(selected)
            \/ session = "over" /\ outstanding > Len(inbox) + Len(outbox)

IInv ==
    TypeOK /\ CountInv /\ ServesInv /\ CacheOfTarget /\ DiedInv /\ AlarmMeant
    /\ SelectedInv

-----------------------------------------------------------------------------
(***************************************************************************)
(* Type correctness.                                                       *)
(***************************************************************************)

\* The kinds of questions that are asked.
LEMMA QuestionsKnown ==
    /\ \A c : Scanned(c) \in Seq(Questions)
    /\ \A q \in Questions : <<q>> \in Seq(Questions) /\ Len(<<q>>) = 1
    /\ <<>> \in Seq(Questions)
    /\ \A e \in Engines : e \in Questions
    /\ {"apps", "dir", "size"} \subseteq Questions
<1>1. \A q \in Questions : <<q>> \in Seq(Questions) /\ Len(<<q>>) = 1
  OBVIOUS
<1>2. {"apps", "dir", "size"} \subseteq Questions /\ \A e \in Engines : e \in Questions
  BY DEF Questions, Cached
<1>3. <<>> \in Seq(Questions)
  OBVIOUS
<1>4. ASSUME NEW c PROVE Scanned(c) \in Seq(Questions)
  <2>1. /\ <<"apps">> \in Seq(Questions) /\ <<"dir">> \in Seq(Questions)
        /\ <<"size">> \in Seq(Questions)
    BY <1>1, <1>2
  <2>2. Listed(c) \in {<<"dir">>, <<"size">>, <<>>}
    BY Zenon DEF Listed, Load
  <2>3. PICK a \in {<<"apps">>, <<>>} : Scanned(c) = a \o Listed(c)
    BY Zenon DEF Scanned, Load
  <2> HIDE DEF Listed
  <2>4. a \in Seq(Questions) /\ Listed(c) \in Seq(Questions)
    BY <1>3, <2>1, <2>2, Zenon
  <2> QED
    BY <2>3, <2>4, ConcatProperties
<1> QED
  BY <1>1, <1>2, <1>3, <1>4

\* browse asks for a listing, for its sizes, or for nothing.
LEMMA BrowseAsks ==
    ASSUME Browse
    PROVE  Send(<<"dir">>) \/ Send(<<"size">>) \/ UNCHANGED <<process, outstanding>>
<1>1. Listed(cache) \in {<<"dir">>, <<"size">>, <<>>}
  BY Zenon DEF Listed, Load
<1>2. Listed(cache) = <<>> \/ Send(Listed(cache)) \/ UNCHANGED <<process, outstanding>>
  BY Zenon DEF Browse
<1>3. Listed(cache) = <<>> => UNCHANGED <<process, outstanding>>
  BY Zenon DEF Browse
<1> QED
  BY <1>1, <1>2, <1>3, Zenon

\* Flags and the rest are proved apart.
Flags ==
    /\ stopping \in BOOLEAN /\ alarm \in BOOLEAN
    /\ died \in BOOLEAN /\ chosen \in BOOLEAN

SessionType ==
    /\ session \in {"none", "starting", "running", "unlaunched", "over"}
    /\ serves \in Servers \union {None}
    /\ inbox \in Seq(Questions) /\ outbox \in Seq(Questions)
    /\ outstanding \in Nat

ViewType ==
    /\ target \in Servers \union {None}
    /\ cache \in [Cached -> Servers \union {None}]
    /\ asked \in 0 .. MaxAsked
    /\ selected \in Engines \union {None} /\ shown \in Engines \union {None}
    /\ late \subseteq Cached

\* TypeOK in parts that suit one prover each.
LEMMA TypeParts == TypeOK <=> Flags /\ SessionType /\ ViewType
BY DEF TypeOK, Flags, SessionType, ViewType

\* The same after the step.
LEMMA TypePartsNext == TypeOK' <=> Flags' /\ SessionType' /\ ViewType'
BY DEF TypeOK, Flags, SessionType, ViewType

\* The flags stay flags.
LEMMA NextFlags ==
    ASSUME Flags, [Next]_vars
    PROVE  Flags'
<1>1. CASE Next
  BY <1>1, Zenon DEF Flags, Next, User, Process, Handle, Scan, Browse, RefreshDir,
     ChooseEngine, Connect, CannotStart, Answer, Die, Terminated, Dispatch, Stopped,
     Finished, FailedToStart, view, wizard, history, Asks
<1>2. CASE UNCHANGED vars
  BY <1>2 DEF Flags, vars, view, wizard, history
<1> QED
  BY <1>1, <1>2

\* A session that is started or asked keeps the types.
LEMMA StartType ==
    ASSUME SessionType, NEW t \in Servers \union {None}, NEW ks \in Seq(Questions), Start(t, ks)
    PROVE  SessionType'
BY QuestionsKnown DEF SessionType, Start

\* Sending keeps the types.
LEMMA SendType ==
    ASSUME SessionType, ViewType, NEW ks \in Seq(Questions), Send(ks)
    PROVE  SessionType'
<1>1. CASE session = "none"
  BY <1>1, StartType DEF Send, ViewType
<1>2. CASE session # "none"
  <2>1. inbox \o ks \in Seq(Questions) /\ Len(ks) \in Nat
    BY ConcatProperties DEF SessionType
  <2>2. /\ outstanding' = outstanding + Len(ks)
        /\ inbox' = IF session = "over" THEN inbox ELSE inbox \o ks
        /\ UNCHANGED <<session, serves, outbox>>
    BY <1>2 DEF Send
  <2> QED
    BY <2>1, <2>2 DEF SessionType
<1> QED
  BY <1>1, <1>2

\* Every step keeps the session's types.
LEMMA NextSession ==
    ASSUME SessionType, ViewType, [Next]_vars
    PROVE  SessionType'
<1> USE DEF process
<1>1. CASE Scan
  <2>1. PICK t \in Servers :
          /\ target' = t
          /\ IF session = "none"
             THEN Start(t, Scanned(NothingCached)) /\ UNCHANGED stopping
             ELSE stopping' = TRUE /\ UNCHANGED <<process, outstanding>>
    BY <1>1 DEF Scan
  <2>2. CASE session = "none"
    BY <2>1, <2>2, StartType, QuestionsKnown
  <2>3. CASE session # "none"
    BY <2>1, <2>3 DEF SessionType
  <2> QED
    BY <2>2, <2>3
<1>2. CASE Browse
  <2>1. CASE Send(<<"dir">>)
    BY <2>1, SendType, QuestionsKnown
  <2>2. CASE Send(<<"size">>)
    BY <2>2, SendType, QuestionsKnown
  <2>3. CASE UNCHANGED <<process, outstanding>>
    BY <2>3 DEF SessionType
  <2> QED
    BY <1>2, <2>1, <2>2, <2>3, BrowseAsks
<1>3. CASE RefreshDir
  BY <1>3, SendType, QuestionsKnown DEF RefreshDir
<1>4. CASE ChooseEngine
  <2>1. PICK e \in Engines :
          IF selected = e
          THEN selected' = None /\ UNCHANGED <<process, outstanding>>
          ELSE selected' = e /\ Send(<<e>>)
    BY <1>4 DEF ChooseEngine
  <2>2. CASE Send(<<e>>)
    BY <2>2, SendType, QuestionsKnown
  <2>3. CASE UNCHANGED <<process, outstanding>>
    BY <2>3 DEF SessionType
  <2> QED
    BY <2>1, <2>2, <2>3
<1>5. CASE Connect \/ CannotStart \/ Die \/ Terminated
  BY <1>5 DEF Connect, CannotStart, Die, Terminated, view, SessionType
<1>6. CASE Answer
  <2>1. /\ Head(inbox) \in Questions /\ Tail(inbox) \in Seq(Questions)
        /\ Append(outbox, Head(inbox)) \in Seq(Questions)
    BY <1>6, HeadTailProperties, AppendProperties DEF Answer, SessionType
  <2> QED
    BY <1>6, <2>1 DEF Answer, SessionType, view
<1>7. CASE Dispatch
  <2> DEFINE k == Head(outbox)
             more == IF k = "dir" /\ cache["size"] = None THEN 1 ELSE 0
  <2>1. Tail(outbox) \in Seq(Questions) /\ more \in {0, 1}
    BY <1>7, HeadTailProperties DEF Dispatch, SessionType
  <2>2. /\ outstanding' = (IF outstanding = 0 THEN 0 ELSE outstanding - 1) + more
        /\ inbox' = IF more = 1 /\ ~stopping /\ session # "over"
                    THEN Append(inbox, "size") ELSE inbox
        /\ outbox' = Tail(outbox)
        /\ UNCHANGED <<session, serves>>
    BY <1>7 DEF Dispatch
  <2> HIDE DEF k, more
  <2>3. outstanding' \in Nat
    BY <2>1, <2>2 DEF SessionType
  <2>4. Append(inbox, "size") \in Seq(Questions)
    BY AppendProperties, QuestionsKnown DEF SessionType
  <2>5. inbox' \in Seq(Questions)
    BY <2>2, <2>4 DEF SessionType
  <2> QED
    BY <2>1, <2>2, <2>3, <2>5 DEF SessionType
<1>8. CASE Stopped
  BY <1>8, StartType, QuestionsKnown DEF Stopped, ViewType
<1>9. CASE Finished
  BY <1>9, QuestionsKnown DEF Finished, Gone, SessionType
<1>10. CASE FailedToStart
  <2>1. CASE stopping
    BY <1>10, <2>1, StartType, QuestionsKnown DEF FailedToStart, ViewType
  <2>2. CASE ~stopping
    BY <1>10, <2>2, QuestionsKnown DEF FailedToStart, Gone, SessionType
  <2> QED
    BY <2>1, <2>2
<1>11. CASE UNCHANGED vars
  BY <1>11 DEF vars, view, SessionType
<1> QED
  BY <1>1, <1>2, <1>3, <1>4, <1>5, <1>6, <1>7, <1>8, <1>9, <1>10, <1>11
     DEF Next, User, Process, Handle

\* Every step keeps the types of what is on display and cached.
LEMMA NextView ==
    ASSUME SessionType, ViewType, [Next]_vars
    PROVE  ViewType'
<1> USE DEF Asks, ViewType
<1>1. CASE Scan
  BY <1>1, BoundAssumption DEF Scan, Forget, NothingCached
<1>2. CASE Browse
  BY <1>2, BoundAssumption DEF Browse, wizard
<1>3. CASE RefreshDir
  <2>1. cache' \in [Cached -> Servers \union {None}]
    BY <1>3 DEF RefreshDir
  <2>2. asked' \in 0 .. MaxAsked
    BY <1>3, BoundAssumption DEF RefreshDir
  <2> QED
    BY <1>3, <2>1, <2>2 DEF RefreshDir, wizard
<1>4. CASE ChooseEngine
  BY <1>4, BoundAssumption DEF ChooseEngine
<1>5. CASE Connect \/ CannotStart \/ Die \/ Terminated \/ Answer
  BY <1>5 DEF Connect, CannotStart, Die, Terminated, Answer, view, wizard, history
<1>6. CASE Dispatch
  <2> DEFINE k == Head(outbox)
  <2>1. /\ cache' = IF k \in Cached THEN [cache EXCEPT ![k] = serves] ELSE cache
        /\ shown' = IF k \in Engines THEN k ELSE shown
        /\ late' = IF stopping /\ k \in Cached THEN late \union {k} ELSE late \ {k}
        /\ UNCHANGED <<target, selected, asked>>
    BY <1>6 DEF Dispatch, Shows
  <2> HIDE DEF k
  <2>2. late' \subseteq Cached
    BY <2>1, Zenon
  <2>3. cache' \in [Cached -> Servers \union {None}]
    BY <2>1 DEF SessionType
  <2> QED
    BY <2>1, <2>2, <2>3
<1>7. CASE Stopped
  BY <1>7 DEF Stopped, wizard, history
<1>8. CASE Finished
  BY <1>8 DEF Finished
<1>9. CASE FailedToStart
  BY <1>9 DEF FailedToStart
<1>10. CASE UNCHANGED vars
  BY <1>10 DEF vars, view, wizard, history
<1> QED
  BY <1>1, <1>2, <1>3, <1>4, <1>5, <1>6, <1>7, <1>8, <1>9, <1>10
     DEF Next, User, Process, Handle

\* Every step keeps the types.
LEMMA NextType ==
    ASSUME TypeOK, [Next]_vars
    PROVE  TypeOK'
BY NextFlags, NextSession, NextView, TypeParts, TypePartsNext

-----------------------------------------------------------------------------
(***************************************************************************)
(* The count.                                                              *)
(***************************************************************************)

\* A new session counts the questions it is started with.
LEMMA StartCount ==
    ASSUME NEW t, NEW ks \in Seq(Questions), Start(t, ks)
    PROVE  session' = "starting" /\ outstanding' = Len(inbox') + Len(outbox')
BY QuestionsKnown DEF Start

\* What is sent is counted.
LEMMA SendCount ==
    ASSUME SessionType, CountInv, ~stopping, ~stopping', NEW ks \in Seq(Questions), Send(ks)
    PROVE  CountInv'
<1>1. CASE session = "none"
  BY <1>1, StartCount DEF Send, CountInv
<1>2. CASE session # "none"
  <2>1. Len(inbox \o ks) = Len(inbox) + Len(ks) /\ Len(ks) \in Nat
    BY ConcatProperties DEF SessionType
  <2>2. /\ outstanding' = outstanding + Len(ks)
        /\ inbox' = IF session = "over" THEN inbox ELSE inbox \o ks
        /\ UNCHANGED <<session, serves, outbox>>
    BY <1>2 DEF Send
  <2>3. Len(inbox) \in Nat /\ Len(outbox) \in Nat /\ outstanding \in Nat
    BY LenProperties DEF SessionType
  <2>4. CASE session = "over"
    BY <2>1, <2>2, <2>3, <2>4 DEF CountInv
  <2>5. CASE session # "over"
    <3>1. Len(inbox') = Len(inbox) + Len(ks) /\ outbox' = outbox /\ session' = session
      BY <2>1, <2>2, <2>5
    <3>2. session \in {"starting", "running", "unlaunched"}
      BY <1>2, <2>5 DEF SessionType
    <3>3. outstanding = Len(inbox) + Len(outbox)
      BY <3>2 DEF CountInv
    <3>4. outstanding' = Len(inbox') + Len(outbox')
      BY <2>1, <2>2, <2>3, <3>1, <3>3
    <3> QED
      BY <3>1, <3>2, <3>4 DEF CountInv
  <2> QED
    BY <2>4, <2>5
<1> QED
  BY <1>1, <1>2

\* Every step keeps the count.
LEMMA NextCount ==
    ASSUME Flags, SessionType, CountInv, [Next]_vars
    PROVE  CountInv'
<1> USE DEF process, Asks
<1>1. CASE Scan
  <2>1. PICK t \in Servers :
          IF session = "none"
          THEN Start(t, Scanned(NothingCached)) /\ UNCHANGED stopping
          ELSE stopping' = TRUE /\ UNCHANGED <<process, outstanding>>
    BY <1>1 DEF Scan
  <2>2. CASE session = "none"
    BY <2>1, <2>2, StartCount, QuestionsKnown DEF CountInv
  <2>3. CASE session # "none"
    BY <2>1, <2>3 DEF CountInv
  <2> QED
    BY <2>2, <2>3
<1>2. CASE Browse
  <2>1. ~stopping /\ ~stopping'
    BY <1>2 DEF Browse
  <2>2. CASE Send(<<"dir">>)
    BY <2>1, <2>2, SendCount, QuestionsKnown
  <2>3. CASE Send(<<"size">>)
    BY <2>1, <2>3, SendCount, QuestionsKnown
  <2>4. CASE UNCHANGED <<process, outstanding>>
    BY <2>1, <2>4 DEF CountInv
  <2> QED
    BY <1>2, <2>2, <2>3, <2>4, BrowseAsks
<1>3. CASE RefreshDir
  <2>1. ~stopping /\ ~stopping' /\ Send(<<"dir">>)
    BY <1>3 DEF RefreshDir
  <2> QED
    BY <2>1, SendCount, QuestionsKnown
<1>4. CASE ChooseEngine
  <2>1. PICK e \in Engines :
          IF selected = e
          THEN selected' = None /\ UNCHANGED <<process, outstanding>>
          ELSE selected' = e /\ Send(<<e>>)
    BY <1>4 DEF ChooseEngine
  <2>2. ~stopping /\ ~stopping'
    BY <1>4 DEF ChooseEngine
  <2>3. CASE Send(<<e>>)
    BY <2>2, <2>3, SendCount, QuestionsKnown
  <2>4. CASE UNCHANGED <<process, outstanding>>
    BY <2>2, <2>4 DEF CountInv
  <2> QED
    BY <2>1, <2>3, <2>4
<1>5. CASE Connect \/ CannotStart
  BY <1>5 DEF Connect, CannotStart, view, CountInv
<1>6. CASE Die
  BY <1>6, LenProperties DEF Die, view, CountInv, SessionType
<1>7. CASE Terminated
  BY <1>7 DEF Terminated, view, CountInv
<1>8. CASE Answer
  <2>1. /\ Len(Tail(inbox)) = Len(inbox) - 1
        /\ Len(Append(outbox, Head(inbox))) = Len(outbox) + 1
        /\ Len(inbox) \in Nat /\ Len(outbox) \in Nat
    BY <1>8, HeadTailProperties, AppendProperties, LenProperties DEF Answer, SessionType
  <2> QED
    BY <1>8, <2>1 DEF Answer, CountInv, view
<1>9. CASE Dispatch
  <2> DEFINE k == Head(outbox)
             more == IF k = "dir" /\ cache["size"] = None THEN 1 ELSE 0
  <2>1. more \in {0, 1} /\ outbox # <<>>
    BY <1>9 DEF Dispatch
  <2>2. /\ outstanding' = (IF outstanding = 0 THEN 0 ELSE outstanding - 1) + more
        /\ inbox' = IF more = 1 /\ ~stopping /\ session # "over"
                    THEN Append(inbox, "size") ELSE inbox
        /\ outbox' = Tail(outbox)
        /\ UNCHANGED <<stopping, session>> /\ session # "none"
    BY <1>9 DEF Dispatch
  <2> HIDE DEF k, more
  <2>3. /\ Len(Tail(outbox)) = Len(outbox) - 1 /\ Len(outbox) > 0
        /\ Len(Append(inbox, "size")) = Len(inbox) + 1
        /\ Len(inbox) \in Nat /\ Len(outbox) \in Nat
    BY <2>1, HeadTailProperties, AppendProperties, LenProperties, EmptySeq,
       QuestionsKnown DEF SessionType
  <2> QED
    BY <2>1, <2>2, <2>3 DEF CountInv, SessionType
<1>10. CASE Stopped
  BY <1>10, StartCount, QuestionsKnown DEF Stopped, CountInv
<1>11. CASE Finished
  BY <1>11 DEF Finished, Gone, CountInv
<1>12. CASE FailedToStart
  <2>1. CASE stopping
    BY <1>12, <2>1, StartCount, QuestionsKnown DEF FailedToStart, CountInv
  <2>2. CASE ~stopping
    BY <1>12, <2>2 DEF FailedToStart, Gone, CountInv
  <2> QED
    BY <2>1, <2>2
<1>13. CASE UNCHANGED vars
  BY <1>13 DEF vars, view, CountInv
<1> QED
  BY <1>1, <1>2, <1>3, <1>4, <1>5, <1>6, <1>7, <1>8, <1>9, <1>10, <1>11, <1>12, <1>13
     DEF Next, User, Process, Handle

-----------------------------------------------------------------------------
(***************************************************************************)
(* The cache and the error.                                                *)
(***************************************************************************)

\* A question is put to a session of the target.
LEMMA SendServes ==
    ASSUME ServesInv, ~stopping, UNCHANGED <<stopping, target>>, NEW ks, Send(ks)
    PROVE  ServesInv'
BY DEF ServesInv, Send, Start

\* Every step keeps the session with the target, and the cache the target's.
LEMMA NextServes ==
    ASSUME SessionType, ViewType, ServesInv, CacheOfTarget, [Next]_vars
    PROVE  ServesInv' /\ CacheOfTarget'
<1> USE DEF process, Asks
<1>1. CASE Scan
  <2>1. PICK t \in Servers :
          /\ target' = t
          /\ IF session = "none"
             THEN Start(t, Scanned(NothingCached)) /\ UNCHANGED stopping
             ELSE stopping' = TRUE /\ UNCHANGED <<process, outstanding>>
    BY <1>1 DEF Scan
  <2>2. ServesInv'
    BY <2>1 DEF ServesInv, Start
  <2>3. CacheOfTarget'
    BY <1>1 DEF Scan, Forget, NothingCached, CacheOfTarget
  <2> QED
    BY <2>2, <2>3
<1>2. CASE Browse
  <2>1. ServesInv'
    <3>1. ~stopping /\ UNCHANGED <<stopping, target>>
      BY <1>2 DEF Browse
    <3>2. CASE UNCHANGED <<process, outstanding>>
      BY <3>1, <3>2 DEF ServesInv
    <3> QED
      BY <1>2, <3>1, <3>2, BrowseAsks, SendServes
  <2> QED
    BY <1>2, <2>1 DEF Browse, CacheOfTarget
<1>3. CASE RefreshDir
  <2>1. ServesInv'
    BY <1>3, SendServes DEF RefreshDir
  <2>2. /\ cache' = [cache EXCEPT !["dir"] = None] /\ late' = late \ {"dir"}
        /\ target' = target
    BY <1>3 DEF RefreshDir
  <2>3. CacheOfTarget'
    BY <2>2 DEF CacheOfTarget, ViewType
  <2> QED
    BY <2>1, <2>3
<1>4. CASE ChooseEngine
  <2>1. PICK e \in Engines :
          IF selected = e
          THEN selected' = None /\ UNCHANGED <<process, outstanding>>
          ELSE selected' = e /\ Send(<<e>>)
    BY <1>4 DEF ChooseEngine
  <2>2. ~stopping /\ UNCHANGED <<stopping, target, cache, late>>
    BY <1>4 DEF ChooseEngine
  <2>3. ServesInv'
    BY <2>1, <2>2, SendServes DEF ServesInv
  <2> QED
    BY <2>2, <2>3 DEF CacheOfTarget
<1>5. CASE Connect \/ CannotStart \/ Die \/ Terminated \/ Answer
  BY <1>5 DEF Connect, CannotStart, Die, Terminated, Answer, view, history, ServesInv,
     CacheOfTarget
<1>6. CASE Dispatch
  <2> DEFINE k == Head(outbox)
  <2>1. /\ cache' = IF k \in Cached THEN [cache EXCEPT ![k] = serves] ELSE cache
        /\ late' = IF stopping /\ k \in Cached THEN late \union {k} ELSE late \ {k}
        /\ UNCHANGED <<target, stopping, session, serves>>
        /\ session # "none"
    BY <1>6 DEF Dispatch
  <2> HIDE DEF k
  <2>2. ServesInv'
    BY <2>1 DEF ServesInv
  <2>3. ASSUME NEW q \in Cached, q \notin late'
        PROVE  cache'[q] \in {None, target'}
    <3>1. CASE q = k
      BY <2>1, <2>3, <3>1 DEF ServesInv, ViewType
    <3>2. CASE q # k
      BY <2>1, <2>3, <3>2 DEF CacheOfTarget, ViewType
    <3> QED
      BY <3>1, <3>2
  <2>4. CacheOfTarget'
    BY <2>3 DEF CacheOfTarget
  <2> QED
    BY <2>2, <2>4
<1>7. CASE Stopped
  BY <1>7 DEF Stopped, Start, history, ServesInv, CacheOfTarget
<1>8. CASE Finished
  BY <1>8 DEF Finished, Gone, ServesInv, CacheOfTarget
<1>9. CASE FailedToStart
  BY <1>9 DEF FailedToStart, Gone, Start, ServesInv, CacheOfTarget
<1>10. CASE UNCHANGED vars
  BY <1>10 DEF vars, view, history, ServesInv, CacheOfTarget
<1> QED
  BY <1>1, <1>2, <1>3, <1>4, <1>5, <1>6, <1>7, <1>8, <1>9, <1>10
     DEF Next, User, Process, Handle

\* Every step keeps the error with a death.
LEMMA NextDied ==
    ASSUME Flags, DiedInv, AlarmMeant, [Next]_vars
    PROVE  DiedInv' /\ AlarmMeant'
<1> USE DEF DiedInv, AlarmMeant, process, wizard, history
<1>1. CASE Scan
  BY <1>1 DEF Scan, Start
<1>2. CASE Browse \/ RefreshDir \/ ChooseEngine
  <2>1. UNCHANGED <<stopping, alarm, died>> /\ (session' = "over" => session = "over")
    BY <1>2 DEF Browse, RefreshDir, ChooseEngine, Send, Start
  <2> QED
    BY <2>1
<1>3. CASE Connect \/ CannotStart \/ Answer \/ Terminated
  BY <1>3 DEF Connect, CannotStart, Answer, Terminated, view
<1>4. CASE Die
  BY <1>4 DEF Die
<1>5. CASE Dispatch
  BY <1>5 DEF Dispatch
<1>6. CASE Stopped
  BY <1>6 DEF Stopped, Start
<1>7. CASE Finished
  BY <1>7 DEF Finished, Over, Gone
<1>8. CASE FailedToStart
  BY <1>8 DEF FailedToStart
<1>9. CASE UNCHANGED vars
  BY <1>9 DEF vars, view
<1> QED
  BY <1>1, <1>2, <1>3, <1>4, <1>5, <1>6, <1>7, <1>8, <1>9
     DEF Next, User, Process, Handle

-----------------------------------------------------------------------------
(***************************************************************************)
(* The selection.                                                          *)
(***************************************************************************)

\* A question asked last decides; one that is no engine's changes nothing.
LEMMA AskedLast ==
    ASSUME NEW s \in Seq(Questions), NEW k \in Questions
    PROVE  /\ s \o <<k>> = Append(s, k)
           /\ k \in Engines => LastEngine(Append(s, k), k)
           /\ k \notin Engines /\ NoEngine(s) => NoEngine(Append(s, k))
           /\ \A e \in Engines : k \notin Engines /\ LastEngine(s, e)
                                   => LastEngine(Append(s, k), e)
<1>1. /\ Append(s, k) \in Seq(Questions) /\ Len(s) \in Nat
      /\ Len(Append(s, k)) = Len(s) + 1 /\ Append(s, k)[Len(s) + 1] = k
      /\ \A i \in 1 .. Len(s) : Append(s, k)[i] = s[i]
  BY AppendProperties, LenProperties
<1>2. s \o <<k>> = Append(s, k)
  OBVIOUS
<1>3. k \in Engines => LastEngine(Append(s, k), k)
  BY <1>1 DEF LastEngine
<1>4. k \notin Engines /\ NoEngine(s) => NoEngine(Append(s, k))
  BY <1>1 DEF NoEngine
<1>5. ASSUME NEW e \in Engines, k \notin Engines, LastEngine(s, e)
      PROVE  LastEngine(Append(s, k), e)
  <2>1. PICK i \in 1 .. Len(s) :
          s[i] = e /\ \A j \in 1 .. Len(s) : j > i => s[j] \notin Engines
    BY <1>5 DEF LastEngine
  <2>2. i \in 1 .. Len(Append(s, k)) /\ Append(s, k)[i] = e
    BY <1>1, <2>1
  <2>3. \A j \in 1 .. Len(Append(s, k)) : j > i => Append(s, k)[j] \notin Engines
    BY <1>1, <1>5, <2>1
  <2> QED
    BY <2>2, <2>3 DEF LastEngine
<1> QED
  BY <1>2, <1>3, <1>4, <1>5

\* The first question leaves: it decided, or what decides is still there.
LEMMA FirstLeaves ==
    ASSUME NEW s \in Seq(Questions), s # <<>>
    PROVE  /\ NoEngine(s) => NoEngine(Tail(s)) /\ Head(s) \notin Engines
           /\ \A e \in Engines : LastEngine(s, e) =>
                \/ LastEngine(Tail(s), e)
                \/ NoEngine(Tail(s)) /\ Head(s) = e
<1>1. /\ Head(s) = s[1] /\ Len(s) \in Nat /\ Len(s) > 0 /\ Len(Tail(s)) = Len(s) - 1
      /\ \A i \in 1 .. Len(Tail(s)) : Tail(s)[i] = s[i + 1]
  BY HeadTailProperties, LenProperties, EmptySeq
<1>2. NoEngine(s) => NoEngine(Tail(s)) /\ Head(s) \notin Engines
  BY <1>1 DEF NoEngine
<1>3. ASSUME NEW e \in Engines, LastEngine(s, e)
      PROVE  \/ LastEngine(Tail(s), e)
             \/ NoEngine(Tail(s)) /\ Head(s) = e
  <2>1. PICK i \in 1 .. Len(s) :
          s[i] = e /\ \A j \in 1 .. Len(s) : j > i => s[j] \notin Engines
    BY <1>3 DEF LastEngine
  <2>2. CASE i = 1
    BY <1>1, <2>1, <2>2 DEF NoEngine
  <2>3. CASE i > 1
    <3>1. i - 1 \in 1 .. Len(Tail(s)) /\ Tail(s)[i - 1] = e
      BY <1>1, <2>1, <2>3
    <3>2. \A j \in 1 .. Len(Tail(s)) : j > i - 1 => Tail(s)[j] \notin Engines
      BY <1>1, <2>1
    <3> QED
      BY <3>1, <3>2 DEF LastEngine
  <2> QED
    BY <2>1, <2>2, <2>3
<1> QED
  BY <1>2, <1>3

\* Where nothing is asked no engine is.
LEMMA NoneAsked ==
    NoEngine(<<>>) /\ \A e : ~LastEngine(<<>>, e)
BY DEF NoEngine, LastEngine

\* A question that is no engine's leaves what settles.
LEMMA SendSelected ==
    ASSUME SessionType, Flags, ViewType, SelectedInv, CountInv,
           UNCHANGED <<stopping, chosen, selected, shown>>,
           NEW q \in Questions, q \notin Engines, Send(<<q>>)
    PROVE  SelectedInv'
<1>1. SUFFICES ASSUME chosen, selected # None
               PROVE  /\ session' # "none"
                      /\ \/ Settles(selected)'
                         \/ session' = "over" /\ outstanding' > Len(inbox') + Len(outbox')
  BY DEF SelectedInv
<1>2. /\ outstanding' = outstanding + Len(<<q>>)
      /\ inbox' = IF session = "over" THEN inbox ELSE inbox \o <<q>>
      /\ UNCHANGED <<session, serves, outbox>>
  BY <1>1 DEF SelectedInv, Send
<1>3. selected \in Engines /\ Len(<<q>>) = 1
  BY <1>1 DEF ViewType
<1>4. CASE Settles(selected)
  <2>1. inbox' = inbox \/ inbox' = Append(inbox, q)
    BY <1>2, AskedLast DEF SessionType
  <2>2. /\ NoEngine(inbox) => NoEngine(inbox')
        /\ LastEngine(inbox, selected) => LastEngine(inbox', selected)
    <3>1. /\ NoEngine(inbox) => NoEngine(Append(inbox, q))
          /\ LastEngine(inbox, selected) => LastEngine(Append(inbox, q), selected)
      BY <1>3, AskedLast DEF SessionType
    <3> QED
      BY <2>1, <3>1
  <2>3. selected' = selected /\ shown' = shown /\ outbox' = outbox
    BY <1>2
  <2>4. Settles(selected)'
    BY <1>4, <2>2, <2>3 DEF Settles
  <2>5. session # "none"
    BY <1>1 DEF SelectedInv
  <2> QED
    BY <1>2, <2>4, <2>5
<1>5. CASE session = "over" /\ outstanding > Len(inbox) + Len(outbox)
  BY <1>2, <1>3, <1>5, LenProperties DEF SessionType
<1> QED
  BY <1>1, <1>4, <1>5 DEF SelectedInv

\* Every step keeps what settles the selection.
LEMMA NextSelected ==
    ASSUME Flags, SessionType, ViewType, CountInv, SelectedInv, [Next]_vars
    PROVE  SelectedInv'
<1> USE DEF process, Asks
<1>1. CASE Scan \/ Finished \/ FailedToStart
  BY <1>1 DEF Scan, Finished, FailedToStart, SelectedInv
<1>2. CASE Browse \/ RefreshDir
  <2>1. UNCHANGED <<stopping, chosen, selected, shown>>
    BY <1>2 DEF Browse, RefreshDir, wizard
  <2>2. "dir" \in Questions \ Engines /\ "size" \in Questions \ Engines
    BY QuestionsKnown, EngineAssumption
  <2>3. CASE UNCHANGED <<process, outstanding>>
    BY <2>1, <2>3 DEF SelectedInv, Settles
  <2> QED
    BY <1>2, <2>1, <2>2, <2>3, BrowseAsks, SendSelected DEF RefreshDir
<1>3. CASE ChooseEngine
  <2>1. PICK e \in Engines :
          IF selected = e
          THEN selected' = None /\ UNCHANGED <<process, outstanding>>
          ELSE selected' = e /\ Send(<<e>>)
    BY <1>3 DEF ChooseEngine
  <2>2. ~stopping /\ ~stopping'
    BY <1>3 DEF ChooseEngine
  <2>3. CASE selected = e
    BY <2>1, <2>2, <2>3 DEF SelectedInv
  <2>4. CASE selected # e
    <3>1. selected' = e /\ Send(<<e>>) /\ e \in Questions /\ Len(<<e>>) = 1
      BY <2>1, <2>4, QuestionsKnown
    <3>2. CASE session = "none"
      <4>1. inbox' = <<e>> /\ session' = "starting"
        BY <3>1, <3>2 DEF Send, Start
      <4>2. LastEngine(<<e>>, e)
        BY DEF LastEngine
      <4> QED
        BY <2>2, <3>1, <4>1, <4>2 DEF SelectedInv, Settles
    <3>3. CASE session = "over"
      BY <2>2, <3>1, <3>3, LenProperties DEF Send, SelectedInv, CountInv, SessionType
    <3>4. CASE session \notin {"none", "over"}
      <4>1. LastEngine(inbox \o <<e>>, e)
        BY <3>1, AskedLast DEF SessionType
      <4>2. inbox' = inbox \o <<e>> /\ session' = session
        BY <3>1, <3>4 DEF Send
      <4> QED
        BY <2>2, <3>1, <3>4, <4>1, <4>2 DEF SelectedInv, Settles
    <3> QED
      BY <3>2, <3>3, <3>4
  <2> QED
    BY <2>3, <2>4
<1>4. CASE Connect \/ CannotStart
  BY <1>4 DEF Connect, CannotStart, view, wizard, history, SelectedInv, Settles
<1>5. CASE Die
  BY <1>5 DEF Die, view, wizard, SelectedInv, Settles
<1>6. CASE Terminated \/ Stopped
  BY <1>6 DEF Terminated, Stopped, view, wizard, history, SelectedInv
<1>7. CASE Answer
  <2> DEFINE k == Head(inbox)
  <2>1. /\ session = "running" /\ inbox # <<>> /\ k \in Questions
        /\ outbox' = Append(outbox, k) /\ inbox' = Tail(inbox)
        /\ UNCHANGED <<session, stopping, chosen, selected, shown>>
    BY <1>7, HeadTailProperties DEF Answer, view, wizard, history, SessionType
  <2>2. SUFFICES ASSUME chosen, selected # None
                 PROVE  Settles(selected)'
    BY <2>1 DEF SelectedInv
  <2>3. selected \in Engines /\ Settles(selected)
    BY <2>1, <2>2 DEF SelectedInv, ViewType
  <2>4. CASE LastEngine(inbox, selected)
    BY <2>1, <2>3, <2>4, FirstLeaves, AskedLast DEF Settles, SessionType
  <2>5. CASE NoEngine(inbox)
    BY <2>1, <2>3, <2>5, FirstLeaves, AskedLast DEF Settles, SessionType
  <2> QED
    BY <2>3, <2>4, <2>5 DEF Settles
<1>8. CASE Dispatch
  <2> DEFINE k == Head(outbox)
             more == IF k = "dir" /\ cache["size"] = None THEN 1 ELSE 0
  <2>1. /\ outbox # <<>> /\ session # "none"
        /\ outstanding' = (IF outstanding = 0 THEN 0 ELSE outstanding - 1) + more
        /\ inbox' = IF more = 1 /\ ~stopping /\ session # "over"
                    THEN Append(inbox, "size") ELSE inbox
        /\ shown' = IF k \in Engines THEN k ELSE shown
        /\ outbox' = Tail(outbox)
        /\ UNCHANGED <<stopping, session, selected, chosen>>
    BY <1>8 DEF Dispatch, Shows
  <2>2. more \in {0, 1}
    OBVIOUS
  <2> HIDE DEF k, more
  <2>3. SUFFICES ASSUME chosen, selected # None
                 PROVE  \/ Settles(selected)'
                        \/ session' = "over" /\ outstanding' > Len(inbox') + Len(outbox')
    BY <2>1 DEF SelectedInv
  <2>4. selected \in Engines
    BY <2>3 DEF ViewType
  <2>5. inbox' = inbox \/ inbox' = Append(inbox, "size")
    BY <2>1
  <2>6. "size" \in Questions \ Engines
    BY QuestionsKnown, EngineAssumption
  <2>7. /\ NoEngine(inbox) => NoEngine(inbox')
        /\ LastEngine(inbox, selected) => LastEngine(inbox', selected)
    BY <2>4, <2>5, <2>6, AskedLast DEF SessionType
  <2>8. CASE LastEngine(inbox, selected)
    BY <2>1, <2>7, <2>8 DEF Settles
  <2>9. CASE NoEngine(inbox) /\ LastEngine(outbox, selected)
    BY <2>1, <2>4, <2>7, <2>9, FirstLeaves DEF Settles, SessionType, k
  <2>10. CASE NoEngine(inbox) /\ NoEngine(outbox) /\ shown = selected
    BY <2>1, <2>4, <2>7, <2>10, FirstLeaves DEF Settles, SessionType, k
  <2>11. CASE session = "over" /\ outstanding > Len(inbox) + Len(outbox)
    <3>1. /\ Len(Tail(outbox)) = Len(outbox) - 1 /\ Len(outbox) > 0
          /\ Len(inbox) \in Nat /\ Len(outbox) \in Nat
      BY <2>1, HeadTailProperties, LenProperties, EmptySeq DEF SessionType
    <3>2. inbox' = inbox
      BY <2>1, <2>11
    <3> QED
      BY <2>1, <2>2, <2>11, <3>1, <3>2 DEF SessionType
  <2> QED
    BY <2>3, <2>8, <2>9, <2>10, <2>11 DEF SelectedInv, Settles
<1>9. CASE UNCHANGED vars
  BY <1>9 DEF vars, view, wizard, history, SelectedInv, Settles
<1> QED
  BY <1>1, <1>2, <1>3, <1>4, <1>5, <1>6, <1>7, <1>8, <1>9
     DEF Next, User, Process, Handle

-----------------------------------------------------------------------------
(***************************************************************************)
(* The theorems.                                                           *)
(***************************************************************************)

\* Initially there is no session.
LEMMA InitInv == Init => IInv
<1>1. SUFFICES ASSUME Init PROVE IInv
  OBVIOUS
<1>2. Flags
  BY <1>1, Zenon DEF Init, Flags
<1>3. SessionType /\ ViewType
  BY <1>1, BoundAssumption DEF Init, NothingCached, SessionType, ViewType
<1>4. TypeOK
  BY <1>2, <1>3, TypeParts
<1>5. CountInv /\ ServesInv /\ DiedInv
  BY <1>1 DEF Init, CountInv, ServesInv, DiedInv
<1>6. CacheOfTarget
  BY <1>1 DEF Init, NothingCached, CacheOfTarget
<1>7. AlarmMeant /\ SelectedInv
  BY <1>1, Zenon DEF Init, AlarmMeant, SelectedInv
<1> QED
  BY <1>4, <1>5, <1>6, <1>7 DEF IInv

\* Every step keeps the invariant.
LEMMA NextInv == IInv /\ [Next]_vars => IInv'
<1>1. SUFFICES ASSUME IInv, [Next]_vars PROVE IInv'
  OBVIOUS
<1>2. Flags /\ SessionType /\ ViewType
  BY <1>1, TypeParts DEF IInv
<1>3. TypeOK' /\ CountInv'
  BY <1>1, <1>2, NextType, NextCount DEF IInv
<1>4. ServesInv' /\ CacheOfTarget'
  BY <1>1, <1>2, NextServes DEF IInv
<1>5. DiedInv' /\ AlarmMeant'
  BY <1>1, <1>2, NextDied DEF IInv
<1>6. SelectedInv'
  BY <1>1, <1>2, NextSelected DEF IInv
<1> QED
  BY <1>3, <1>4, <1>5, <1>6 DEF IInv

\* The invariant holds in every state.
THEOREM Invariance == Spec => []IInv
BY InitInv, NextInv, PTL DEF Spec

\* The handlers of the view model and of the wizard keep the types of what
\* they share.
THEOREM TypeCorrect == Spec => []TypeOK
<1>1. IInv => TypeOK
  BY DEF IInv
<1> QED
  BY <1>1, Invariance, PTL

\* The busy indicator counts the questions of this session that have no
\* answer, through every restart, failure and late answer.
THEOREM BusyTrue == Spec => []BusyCounts
<1>1. IInv => BusyCounts
  BY DEF IInv, CountInv, BusyCounts
<1> QED
  BY <1>1, Invariance, PTL

\* What setTarget and dispatchLine leave in the caches is the target's,
\* but for what arrived while stopSession waited.
THEOREM CacheAlways == Spec => []CacheOfTarget
<1>1. IInv => CacheOfTarget
  BY DEF IInv
<1> QED
  BY <1>1, Invariance, PTL

\* m_intentionalStop keeps the end of a session that was stopped from being
\* shown as an error.
THEOREM AlarmAlways == Spec => []AlarmMeant
<1>1. IInv => AlarmMeant
  BY DEF IInv
<1> QED
  BY <1>1, Invariance, PTL

\* Since answers come in order, the last list of databases is the selected
\* engine's, although onDatabasesReady takes any.
THEOREM SettledAlways == Spec => []SettledDatabases
<1>1. ASSUME IInv PROVE SettledDatabases
  <2>1. SUFFICES ASSUME outstanding = 0, chosen, selected # None PROVE shown = selected
    BY DEF SettledDatabases
  <2>2. Flags /\ SessionType /\ ViewType
    BY <1>1, TypeParts DEF IInv
  <2>3. session # "none" /\ ~stopping
    BY <1>1, <2>1 DEF IInv, SelectedInv
  <2>4. Len(inbox) \in Nat /\ Len(outbox) \in Nat /\ Len(inbox) + Len(outbox) <= 0
    BY <1>1, <2>1, <2>2, <2>3, LenProperties DEF IInv, CountInv, SessionType
  <2>5. inbox = <<>> /\ outbox = <<>>
    BY <2>2, <2>4, EmptySeq DEF SessionType
  <2>6. Settles(selected)
    BY <1>1, <2>1, <2>4 DEF IInv, SelectedInv
  <2> QED
    BY <2>5, <2>6, NoneAsked DEF Settles
<1> QED
  BY <1>1, Invariance, PTL

=============================================================================
