------------------------------ MODULE CronProofs ------------------------------
(***************************************************************************)
(* Theorems about Cron: whatever the calendar, the ranges of the fields,   *)
(* the expression and the instant, the next run shown is the first minute  *)
(* after the instant that matches, and a dash only if none does.           *)
(***************************************************************************)
EXTENDS Cron, TLAPS

\* The search has passed over the minutes up to the candidate, in order,
\* and none of them matched.
SearchInv ==
    /\ phase = "start" => i = 0
    /\ phase = "search" =>
        /\ schedule.kind = "cron" /\ Valid(schedule.expr)
        /\ candidate = First + i
        /\ \A t \in First .. candidate - 1 : ~Matches(schedule.expr, Clock[t])

\* The inductive invariant.
IInv == TypeOK /\ SearchInv /\ NextIsFirst

\* The quotient and the remainder of seconds by minutes.
LEMMA Division ==
    ASSUME NEW s \in Nat
    PROVE  /\ s \div Sixty \in Nat
           /\ Sixty * (s \div Sixty) <= s
           /\ s < Sixty * (s \div Sixty) + Sixty
  <1>1. Sixty \in Nat /\ Sixty > 0
    BY SearchAssumption
  <1> QED
    BY <1>1, Z3

\* The minutes after an instant begin with the first candidate.
LEMMA AfterFirst ==
    ASSUME NEW s \in Nat, NEW t \in Int
    PROVE  t * Sixty > s <=> t >= s \div Sixty + 1
  <1> DEFINE q == s \div Sixty
  <1>1. q \in Nat /\ Sixty * q <= s /\ s < Sixty * q + Sixty
    BY Division
  <1>2. Sixty \in Nat /\ Sixty > 0
    BY SearchAssumption
  <1> HIDE DEF q
  <1>3. CASE t >= q + 1
    <2>1. t * Sixty >= (q + 1) * Sixty
      BY <1>1, <1>2, <1>3, Z3
    <2>2. (q + 1) * Sixty = Sixty * q + Sixty
      BY <1>1, <1>2, Z3
    <2> QED
      BY <1>1, <1>2, <1>3, <2>1, <2>2, Z3 DEF q
  <1>4. CASE t <= q
    <2>1. t * Sixty <= Sixty * q
      BY <1>1, <1>2, <1>4, Z3
    <2> QED
      BY <1>1, <1>2, <1>4, <2>1, Z3 DEF q
  <1> QED
    BY <1>1, <1>3, <1>4 DEF q

-----------------------------------------------------------------------------
\* The first candidate, and the window in terms of it.
LEMMA Candidates ==
    ASSUME from \in Starts
    PROVE  /\ First \in Nat
           /\ \A k \in 0 .. Horizon : First + k \in Minutes
           /\ \A k \in 0 .. Horizon - 1 : First + k \in After(from)
           /\ \A t \in After(from) : t \in First .. First + Horizon - 1
  <1> DEFINE q == from \div Sixty
  <1>1. from \in Nat /\ Horizon \in Nat /\ Sixty \in Nat
    BY SearchAssumption
  <1>2. q \in Nat /\ First = q + 1
    BY <1>1, Division DEF First
  <1>3. \A k \in 0 .. Horizon : First + k \in Minutes
    BY ClockAssumption DEF First
  <1>4. Minutes \subseteq Int
    BY ClockAssumption
  <1>5. \A t \in Int : t * Sixty > from <=> t >= First
    BY <1>1, AfterFirst DEF First
  <1> HIDE DEF q
  <1>6. ASSUME NEW k \in 0 .. Horizon - 1
        PROVE  First + k \in After(from)
    <2>1. First + k \in Minutes /\ First + k \in Int /\ First + k >= First
      BY <1>1, <1>2, <1>3
    <2>2. (First + k) - q <= Horizon
      BY <1>1, <1>2
    <2>3. (First + k) * Sixty > from
      BY <2>1, <1>5
    <2> QED
      BY <2>1, <2>2, <2>3 DEF After, q
  <1>7. ASSUME NEW t \in After(from)
        PROVE  t \in First .. First + Horizon - 1
    <2>1. t \in Int /\ t * Sixty > from /\ t - q <= Horizon
      BY <1>4 DEF After, q
    <2> QED
      BY <1>1, <1>2, <1>5, <2>1
  <1> QED
    BY <1>1, <1>2, <1>3, <1>6, <1>7

\* Initially the candidate is the first minute.
LEMMA InitInv == Init => IInv
  BY SearchAssumption DEF Init, IInv, TypeOK, SearchInv, NextIsFirst

\* Every step keeps the invariant.
LEMMA NextInv == IInv /\ [Next]_vars => IInv'
  <1> SUFFICES ASSUME IInv, [Next]_vars
               PROVE  IInv'
    OBVIOUS
  <1>1. Horizon \in Nat /\ from \in Starts /\ i \in 0 .. Horizon
    BY SearchAssumption DEF IInv, TypeOK
  <1>2. First \in Nat
    BY <1>1, Candidates
  <1> USE DEF IInv, Give
  <1>3. CASE Once
    <2>1. TypeOK'
      BY <1>3, DateAssumption DEF Once, TypeOK, Schedules
    <2> QED
      BY <1>3, <2>1 DEF Once, SearchInv, NextIsFirst
  <1>4. CASE Reject
    BY <1>4 DEF Reject, TypeOK, SearchInv, NextIsFirst
  <1>5. CASE Search
    <2>1. TypeOK'
      BY <1>2, <1>5 DEF Search, TypeOK
    <2>2. First' = First /\ candidate' = First' + i'
      BY <1>2, <1>5 DEF Search, SearchInv, First
    <2>3. SearchInv'
      BY <1>2, <1>5, <2>2 DEF Search, SearchInv
    <2> QED
      BY <1>5, <2>1, <2>3 DEF Search, NextIsFirst
  <1>6. CASE Found
    <2>1. candidate = First + i /\ i \in 0 .. Horizon - 1 /\ candidate \in Int
      BY <1>1, <1>2, <1>6 DEF Found, SearchInv
    <2>2. candidate \in After(from)
      BY <1>1, <2>1, Candidates
    <2>3. TypeOK'
      BY <1>6, <2>1 DEF Found, TypeOK
    <2>4. ASSUME NEW t \in After(from), Matches(schedule.expr, Clock[t])
          PROVE  candidate <= t
      <3>1. t \in First .. First + Horizon - 1
        BY <1>1, Candidates
      <3>2. ~(t \in First .. candidate - 1)
        BY <1>6, <2>4 DEF Found, SearchInv
      <3> QED
        BY <1>1, <1>2, <2>1, <3>1, <3>2
    <2>5. NextIsFirst'
      BY <1>6, <2>2, <2>4 DEF Found, NextIsFirst, After
    <2> QED
      BY <1>6, <2>3, <2>5 DEF Found, SearchInv
  <1>7. CASE Advance
    <2>1. /\ candidate = First + i /\ candidate' = First + i'
          /\ i' \in 0 .. Horizon /\ First' = First /\ candidate' \in Nat
      BY <1>1, <1>2, <1>7 DEF Advance, SearchInv, First
    <2>2. TypeOK'
      BY <1>7, <2>1 DEF Advance, TypeOK
    <2>3. ASSUME NEW t \in First .. candidate' - 1
          PROVE  ~Matches(schedule.expr, Clock[t])
      <3>1. t \in First .. candidate - 1 \/ t = candidate
        BY <1>1, <1>2, <1>7, <2>1 DEF Advance
      <3> QED
        BY <1>7, <3>1 DEF Advance, SearchInv
    <2>4. SearchInv'
      BY <1>7, <2>1, <2>3 DEF Advance, SearchInv
    <2> QED
      BY <1>7, <2>2, <2>4 DEF Advance, NextIsFirst
  <1>8. CASE GiveUp
    <2>1. candidate = First + Horizon
      BY <1>1, <1>2, <1>8 DEF GiveUp, SearchInv
    <2>2. \A t \in After(from) : ~Matches(schedule.expr, Clock[t])
      BY <1>1, <1>2, <1>8, <2>1, Candidates DEF GiveUp, SearchInv
    <2>3. TypeOK'
      BY <1>8 DEF GiveUp, TypeOK
    <2>4. NextIsFirst'
      BY <1>8, <2>2 DEF GiveUp, NextIsFirst, After
    <2> QED
      BY <1>8, <2>3, <2>4 DEF GiveUp, SearchInv
  <1>9. CASE UNCHANGED vars
    BY <1>9 DEF vars, TypeOK, SearchInv, NextIsFirst, After, First
  <1> QED
    BY <1>3, <1>4, <1>5, <1>6, <1>7, <1>8, <1>9 DEF Next

\* The inductive invariant holds in every reachable state.
THEOREM Invariance == Spec => []IInv
  BY InitInv, NextInv, PTL DEF Spec

\* Every variable keeps its type: the search stays within its window.
THEOREM TypeCorrect == Spec => []TypeOK
  <1>1. IInv => TypeOK
    BY DEF IInv
  <1> QED
    BY <1>1, Invariance, PTL

\* What nextCronTime returns is the first minute after the instant that
\* matches the expression, for every calendar, leap years and changes of the
\* clock included; nothing is returned only if none of the window matches.
THEOREM NextShown == Spec => []NextIsFirst
  <1>1. IInv => NextIsFirst
    BY DEF IInv
  <1> QED
    BY <1>1, Invariance, PTL

=============================================================================
