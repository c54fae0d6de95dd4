---------------------------- MODULE TriggersProofs ----------------------------
(***************************************************************************)
(* Theorems about Triggers: whatever the calendar, the expression and the  *)
(* instant, the triggers of launchd, systemd and cron fire at the next run *)
(* shown, for the expressions their notations can say.                     *)
(*                                                                         *)
(* A trigger that fires at the minutes an expression matches fires first   *)
(* at the next run, whatever the notation (FirstOfMatches); what remains   *)
(* of each notation is a lemma about a single minute.                      *)
(***************************************************************************)
EXTENDS Triggers, CronProofs, FiniteSetTheorems

-----------------------------------------------------------------------------
(***************************************************************************)
(* The next run of a one-time schedule.                                    *)
(***************************************************************************)

\* Its date, or a dash once that is past.
OnceInv ==
    phase = "done" /\ schedule.kind = "once" =>
        result = IF schedule.at * Sixty > from THEN schedule.at ELSE Never

\* The next run of a one-time schedule is its date while that is ahead.
THEOREM OnceShown == Spec => []OnceInv
  <1>1. Init => OnceInv
    BY DEF Init, OnceInv
  <1>2. TypeOK /\ SearchInv /\ OnceInv /\ [Next]_vars => OnceInv'
    <2> SUFFICES ASSUME TypeOK, SearchInv, OnceInv, [Next]_vars
                 PROVE  OnceInv'
      OBVIOUS
    <2> USE DEF OnceInv, Give
    <2>1. CASE Once
      BY <2>1 DEF Once
    <2>2. CASE Reject
      BY <2>2 DEF Reject
    <2>3. CASE Search
      BY <2>3 DEF Search
    <2>4. CASE Found
      BY <2>4 DEF Found, SearchInv
    <2>5. CASE Advance
      BY <2>5 DEF Advance
    <2>6. CASE GiveUp
      BY <2>6 DEF GiveUp, SearchInv
    <2>7. CASE UNCHANGED vars
      BY <2>7 DEF vars
    <2> QED
      BY <2>1, <2>2, <2>3, <2>4, <2>5, <2>6, <2>7 DEF Next
  <1>3. IInv => TypeOK /\ SearchInv
    BY DEF IInv
  <1> QED
    BY <1>1, <1>2, <1>3, Invariance, PTL DEF Spec

-----------------------------------------------------------------------------
(***************************************************************************)
(* The first of a set of minutes.                                          *)
(***************************************************************************)

\* A minute of the set that none precedes is its minimum.
LEMMA MinIs ==
    ASSUME NEW S \in SUBSET Int, NEW r \in S, \A t \in S : r <= t
    PROVE  Min(S) = r
  <1>1. \A x \in S : (\A t \in S : x <= t) => x = r
    OBVIOUS
  <1> QED
    BY <1>1 DEF Min

\* The first of the minutes an expression matches is the next run.
LEMMA FirstOfMatches ==
    ASSUME TypeOK, NextIsFirst, Expression,
           NEW S, S = {t \in After(from) : Matches(schedule.expr, Clock[t])}
    PROVE  (IF S = {} THEN Never ELSE Min(S)) = result
  <1>1. S \in SUBSET Int
    BY ClockAssumption DEF After
  <1>2. IF S = {} THEN result = Never ELSE result \in S /\ \A t \in S : result <= t
    BY DEF NextIsFirst, Expression
  <1>3. CASE S # {}
    BY <1>1, <1>2, <1>3, MinIs
  <1> QED
    BY <1>2, <1>3

\* The first of some minutes after the instant is the next run of a one-time
\* schedule if they begin with its date.
LEMMA FirstIsDate ==
    ASSUME TypeOK, OnceInv, Ahead,
           NEW S \in SUBSET After(from), schedule.at \in S,
           \A t \in S : ~(t < schedule.at)
    PROVE  (IF S = {} THEN Never ELSE Min(S)) = result
  <1>1. S \in SUBSET Int
    BY ClockAssumption DEF After
  <1>2. schedule.at = result
    BY DEF OnceInv, Ahead, After
  <1>3. schedule.at \in Int /\ S \subseteq Int
    BY <1>1
  <1>4. \A t \in S : schedule.at <= t
    <2> DEFINE d == schedule.at
    <2>1. d \in Int /\ \A t \in S : t \in Int /\ ~(t < d)
      BY <1>3
    <2> HIDE DEF d
    <2>2. \A t \in S : d <= t
      BY <2>1
    <2> QED
      BY <2>2 DEF d
  <1> QED
    BY <1>1, <1>2, <1>4, MinIs

-----------------------------------------------------------------------------
(***************************************************************************)
(* cron.                                                                   *)
(***************************************************************************)

\* cron's line fires at the minutes the expression matches: the fields it
\* takes for unrestricted are the bare asterisks, or both days are alike.
LEMMA CrontabMatches ==
    ASSUME NEW s, s.kind = "cron", NEW t,
           \A f \in {"dom", "dow"} : LET field == FieldOf(s.expr, f)
             IN  Wildcard(field) \/ field[1].form # "star"
                 \/ Wildcard(FieldOf(s.expr, IF f = "dom" THEN "dow" ELSE "dom"))
    PROVE  CrontabFires(s, t) <=> Matches(s.expr, Clock[t])
  <1> DEFINE dom == FieldOf(s.expr, "dom")
             dow == FieldOf(s.expr, "dow")
  <1>1. Wildcard(dom) \/ dom[1].form # "star" \/ Wildcard(dow)
    OBVIOUS
  <1>2. Wildcard(dow) \/ dow[1].form # "star" \/ Wildcard(dom)
    OBVIOUS
  <1>3. Wildcard(dom) => dom[1].form = "star"
    BY DEF Wildcard, Star
  <1>4. Wildcard(dow) => dow[1].form = "star"
    BY DEF Wildcard, Star
  <1>5. CrontabFires(s, t) <=>
          /\ Hit(s.expr, "minute", Clock[t])
          /\ Hit(s.expr, "hour", Clock[t])
          /\ Hit(s.expr, "month", Clock[t])
          /\ IF dom[1].form # "star" /\ dow[1].form # "star"
             THEN Hit(s.expr, "dom", Clock[t]) \/ Hit(s.expr, "dow", Clock[t])
             ELSE Hit(s.expr, "dom", Clock[t]) /\ Hit(s.expr, "dow", Clock[t])
    BY DEF CrontabFires
  <1>6. Matches(s.expr, Clock[t]) <=>
          /\ Hit(s.expr, "minute", Clock[t])
          /\ Hit(s.expr, "hour", Clock[t])
          /\ Hit(s.expr, "month", Clock[t])
          /\ IF ~Wildcard(dom) /\ ~Wildcard(dow)
             THEN Hit(s.expr, "dom", Clock[t]) \/ Hit(s.expr, "dow", Clock[t])
             ELSE Hit(s.expr, "dom", Clock[t]) /\ Hit(s.expr, "dow", Clock[t])
    BY DEF Matches
  <1> QED
    BY <1>1, <1>2, <1>3, <1>4, <1>5, <1>6

\* cron's line of a one-time schedule fires on its date, and before it only
\* on a day of the same date.
LEMMA CrontabDate ==
    ASSUME NEW s, s.kind = "once", NEW t
    PROVE  CrontabFires(s, t) <=> Date(t) = Date(s.at)
  <1> DEFINE fs == Fields \ {"dow"}
  <1>1. Date(t) = [f \in fs |-> Clock[t][f]] /\ Date(s.at) = [f \in fs |-> Clock[s.at][f]]
    BY DEF Date
  <1>2. CrontabFires(s, t) <=> \A f \in fs : Clock[s.at][f] = Clock[t][f]
    BY <1>1 DEF CrontabFires
  <1> QED
    BY <1>1, <1>2

-----------------------------------------------------------------------------
(***************************************************************************)
(* systemd.                                                                *)
(***************************************************************************)

\* A number modulo the week, from 0 to the week: the week itself is day 0.
LEMMA Weekday ==
    ASSUME NEW a \in 0 .. Week
    PROVE  a % Week = IF a = Week THEN 0 ELSE a
  <1>1. Week \in Nat /\ Week > 0
    BY WeekAssumption
  <1> QED
    BY <1>1, Z3

\* The day a single number names is the one the expression means by it.
LEMMA NamedIsMeant ==
    ASSUME NEW p \in Part, p.form = "number", ValidField("dow", <<p>>)
    PROVE  NamedDay(<<p>>) = ValuesOf("dow", <<p>>)
  <1>1. p.a \in Int /\ p.step \in Int /\ p.step > 0
    BY DEF Part, ValidField
  <1>2. Steps(p, Ranges["dow"][1], Ranges["dow"][2]) = {p.a}
    <2>1. 0 % p.step = 0
      BY <1>1, Z3
    <2>2. p.a - p.a = 0 /\ p.a .. p.a = {p.a}
      BY <1>1
    <2>3. Steps(p, Ranges["dow"][1], Ranges["dow"][2])
          = {v \in p.a .. p.a : (v - p.a) % p.step = 0}
      BY DEF Steps
    <2> QED
      BY <2>1, <2>2, <2>3
  <1>3. ValuesOf("dow", <<p>>) = {Sunday("dow", p.a)}
    BY <1>2 DEF ValuesOf
  <1>4. Sunday("dow", p.a) \in 0 .. Week - 1
    BY <1>3, WeekAssumption DEF ValidField
  <1>5. p.a \in 0 .. Week /\ Sunday("dow", p.a) = IF p.a = Week THEN 0 ELSE p.a
    BY <1>1, <1>4, WeekAssumption DEF Sunday
  <1>6. NamedDay(<<p>>) = {p.a % Week}
    BY DEF NamedDay, Wildcard, Star
  <1> QED
    BY <1>3, <1>5, <1>6, Weekday

\* systemd's timer fires at the minutes the expression matches, if it is of
\* plain fields, one day at most is restricted and one part names the day.
LEMMA SystemdMatches ==
    ASSUME NEW s, s.kind = "cron", Valid(s.expr), s.expr \in Exprs, NEW t,
           \A f \in Fields : Plain(FieldOf(s.expr, f)),
           \E f \in {"dom", "dow"} : Wildcard(FieldOf(s.expr, f)),
           Len(FieldOf(s.expr, "dow")) = 1
    PROVE  SystemdFires(s, t) <=> Matches(s.expr, Clock[t])
  <1> DEFINE m == Clock[t]
             dow == FieldOf(s.expr, "dow")
  <1>1. Matches(s.expr, m) <=> \A f \in Fields : Hit(s.expr, f, m)
    BY DEF Matches, Fields
  <1>2. dow \in Seq(Part) \ {<<>>} /\ dow = <<dow[1]>> /\ dow[1] \in Part
    <2>1. \E k \in 1 .. 5 : Order[k] = "dow"
      BY DEF Order
    <2>2. PICK k \in 1 .. 5 : dow = s.expr[k]
      BY <2>1 DEF FieldOf
    <2>3. DOMAIN s.expr = 1 .. 5
      BY DEF Valid
    <2>4. dow \in Seq(Part) \ {<<>>}
      BY <2>2, <2>3, ExprAssumption
    <2> QED
      BY <2>4
  <1>3. CASE Wildcard(dow)
    <2>1. NamedDay(dow) = {}
      BY <1>3 DEF NamedDay
    <2> QED
      BY <1>1, <1>3, <2>1 DEF SystemdFires, Hit, Fields
  <1>4. CASE ~Wildcard(dow)
    <2>1. dow[1].form = "number"
      <3>1. 1 \in DOMAIN dow
        BY <1>2
      <3> QED
        BY <1>4, <3>1 DEF Plain, Fields
    <2>2. ValidField("dow", dow)
      BY DEF Valid, Fields
    <2>3. NamedDay(dow) = ValuesOf("dow", dow)
      BY <1>2, <2>1, <2>2, NamedIsMeant
    <2>4. ValuesOf("dow", dow) # {}
      BY <2>2 DEF ValidField
    <2>5. Hit(s.expr, "dow", m) <=> m["dow"] \in NamedDay(dow)
      BY <1>4, <2>3 DEF Hit
    <2>6. SystemdFires(s, t) <=>
            /\ \A f \in Fields \ {"dow"} : Hit(s.expr, f, m)
            /\ NamedDay(dow) # {} => m["dow"] \in NamedDay(dow)
      BY DEF SystemdFires
    <2> QED
      BY <1>1, <2>3, <2>4, <2>5, <2>6 DEF Fields
  <1> QED
    BY <1>3, <1>4

-----------------------------------------------------------------------------
(***************************************************************************)
(* launchd.  The rows of a matrix that is not cut are all the ways to      *)
(* choose a value for each restricted field.                               *)
(***************************************************************************)

\* The number of smaller values tells the values apart.
LEMMA Rank ==
    ASSUME NEW S \in SUBSET Int, IsFiniteSet(S)
    PROVE  /\ \A v \in S : Cardinality({w \in S : w < v}) \in 0 .. Cardinality(S) - 1
           /\ \A u, v \in S : u < v =>
                  Cardinality({w \in S : w < u}) < Cardinality({w \in S : w < v})
  <1> DEFINE below(v) == {w \in S : w < v}
  <1>1. \A v \in S : IsFiniteSet(below(v)) /\ Cardinality(below(v)) \in Nat
    <2>1. \A v \in S : below(v) \in SUBSET S
      OBVIOUS
    <2> QED
      BY <2>1, FS_Subset, FS_CardinalityType
  <1>2. Cardinality(S) \in Nat
    BY FS_CardinalityType
  <1>3. ASSUME NEW v \in S PROVE Cardinality(below(v)) < Cardinality(S)
    <2>1. below(v) \in SUBSET S /\ v \in S /\ v \notin below(v)
      OBVIOUS
    <2>2. /\ Cardinality(below(v)) <= Cardinality(S)
          /\ Cardinality(S) # Cardinality(below(v))
      BY <2>1, FS_Subset
    <2> QED
      BY <1>1, <1>2, <2>2
  <1>4. ASSUME NEW u \in S, NEW v \in S, u < v
        PROVE  Cardinality(below(u)) < Cardinality(below(v))
    <2>1. below(u) \in SUBSET below(v) /\ u \in below(v) /\ u \notin below(u)
      <3>1. \A w \in S : w < u => w < v
        BY <1>4
      <3>2. ~(u < u)
        OBVIOUS
      <3> QED
        BY <1>4, <3>1, <3>2
    <2>2. /\ Cardinality(below(u)) <= Cardinality(below(v))
          /\ Cardinality(below(v)) # Cardinality(below(u))
      BY <1>1, <2>1, FS_Subset
    <2> QED
      BY <1>1, <2>2
  <1> QED
    BY <1>1, <1>2, <1>3, <1>4

\* A sorted list has every value of the set, and no other.
LEMMA AscendingLists ==
    ASSUME NEW S \in SUBSET Int, IsFiniteSet(S)
    PROVE  /\ Ascending(S) \in Seq(S)
           /\ \A v \in S : \E k \in 1 .. Len(Ascending(S)) : Ascending(S)[k] = v
  <1> DEFINE n == Cardinality(S)
             below(v) == {w \in S : w < v}
             rank == [v \in S |-> Cardinality(below(v)) + 1]
  <1>1. n \in Nat
    BY FS_CardinalityType
  <1>2. \A v \in S : Cardinality(below(v)) \in 0 .. n - 1
    BY Rank
  <1>3. \A u, v \in S : u < v => Cardinality(below(u)) < Cardinality(below(v))
    BY Rank
  <1>4. \A u, v \in S : Cardinality(below(u)) = Cardinality(below(v)) => u = v
    <2> SUFFICES ASSUME NEW u \in S, NEW v \in S, Cardinality(below(u)) = Cardinality(below(v)), u # v
                 PROVE  FALSE
      OBVIOUS
    <2>1. u < v \/ v < u
      OBVIOUS
    <2> QED
      BY <1>2, <1>3, <2>1
  <1>5. rank \in Injection(S, 1 .. n)
    <2>1. rank \in [S -> 1 .. n]
      BY <1>1, <1>2
    <2>2. \A u, v \in S : rank[u] = rank[v] => u = v
      BY <1>2, <1>4
    <2> QED
      BY <2>1, <2>2 DEF Injection, IsInjective
  <1>6. IsFiniteSet(1 .. n) /\ Cardinality(1 .. n) = n
    BY <1>1, FS_Interval
  <1>7. rank \in Surjection(S, 1 .. n)
    BY <1>5, <1>6, FS_Injection
  <1>8. \A k \in 1 .. n : \E v \in S : rank[v] = k
    BY <1>7 DEF Surjection
  <1>9. \A k \in 1 .. n : \E v \in S : Cardinality(below(v)) = k - 1
    BY <1>1, <1>2, <1>8
  <1>10. Ascending(S) = [k \in 1 .. n |-> CHOOSE v \in S : Cardinality(below(v)) = k - 1]
    BY DEF Ascending
  <1> HIDE DEF below, n, rank
  <1>11. \A k \in 1 .. n : Ascending(S)[k] \in S /\ Cardinality(below(Ascending(S)[k])) = k - 1
    BY <1>9, <1>10
  <1>12. Ascending(S) \in Seq(S) /\ Len(Ascending(S)) = n
    BY <1>1, <1>10, <1>11
  <1>13. ASSUME NEW v \in S
         PROVE  \E k \in 1 .. n : Ascending(S)[k] = v
    <2> DEFINE k == Cardinality(below(v)) + 1
    <2>1. k \in 1 .. n /\ Cardinality(below(v)) = k - 1
      BY <1>1, <1>2
    <2> HIDE DEF k
    <2>2. Ascending(S)[k] = v
      BY <1>4, <1>11, <2>1
    <2> QED
      BY <2>1, <2>2
  <1> QED
    BY <1>12, <1>13

\* The values a restricted field of a valid expression has are numbers.
LEMMA Values ==
    ASSUME NEW expr, NEW f \in Fields, Valid(expr)
    PROVE  /\ ValuesOf(f, FieldOf(expr, f)) \in SUBSET Int
           /\ IsFiniteSet(ValuesOf(f, FieldOf(expr, f)))
           /\ ValuesOf(f, FieldOf(expr, f)) # {}
  <1> DEFINE V == ValuesOf(f, FieldOf(expr, f))
             lo == Ranges[f][1]
             hi == Ranges[f][2]
  <1>1. V # {} /\ V \subseteq lo .. hi
    BY DEF Valid, ValidField
  <1>2. lo \in Int /\ hi \in Int
    BY RangeAssumption
  <1> HIDE DEF V, lo, hi
  <1>3. IsFiniteSet(lo .. hi) /\ V \in SUBSET (lo .. hi)
    BY <1>1, <1>2, FS_Interval
  <1>4. IsFiniteSet(V)
    BY <1>3, FS_Subset
  <1> QED
    BY <1>1, <1>2, <1>4 DEF V

\* The places of an expansion of l rows by n values, and what is at each.
Places(l, n) == 1 .. l * n
RowAt(k, n) == (k - 1) \div n + 1
ValueAt(k, n) == ((k - 1) % n) + 1

\* At every place there is a row and a value.
LEMMA PlaceIs ==
    ASSUME NEW l \in Nat, NEW n \in Nat, NEW k \in Places(l, n)
    PROVE  RowAt(k, n) \in 1 .. l /\ ValueAt(k, n) \in 1 .. n
  <1>1. n > 0
    <2>1. n = 0 => l * n = 0
      BY Z3
    <2> QED
      BY <2>1 DEF Places
  <1> DEFINE m == k - 1
             q == m \div n
             r == m % n
  <1>2. m \in Nat /\ m < l * n
    <2>1. l * n \in Nat
      BY Z3
    <2> QED
      BY <2>1 DEF Places
  <1> HIDE DEF m
  <1>3. q \in Nat /\ r \in 0 .. n - 1 /\ m = q * n + r
    BY <1>1, <1>2, Z3
  <1> HIDE DEF q, r
  <1>4. q < l
    <2> SUFFICES ASSUME q >= l PROVE FALSE
      BY <1>3
    <2>1. q * n >= l * n
      BY <1>1, <1>3, Z3
    <2>2. q * n \in Nat /\ l * n \in Nat
      BY <1>3, Z3
    <2> QED
      BY <1>2, <1>3, <2>1, <2>2
  <1>5. q + 1 \in 1 .. l /\ r + 1 \in 1 .. n
    BY <1>3, <1>4
  <1> QED
    BY <1>5 DEF q, r, m, RowAt, ValueAt

\* Every row has a place with every value.
LEMMA PlaceOf ==
    ASSUME NEW l \in Nat, NEW n \in Nat, NEW a \in 1 .. l, NEW b \in 1 .. n
    PROVE  \E k \in Places(l, n) : RowAt(k, n) = a /\ ValueAt(k, n) = b
  <1> DEFINE q == a - 1
             r == b - 1
             m == q * n + r
             k == m + 1
  <1>1. q \in 0 .. l - 1 /\ r \in 0 .. n - 1 /\ n > 0
    OBVIOUS
  <1> HIDE DEF q, r
  <1>2. q * n \in Nat /\ l * n \in Nat /\ q * n + n <= l * n
    <2>1. (q + 1) * n <= l * n
      BY <1>1, Z3
    <2>2. (q + 1) * n = q * n + n
      BY <1>1, Z3
    <2> QED
      BY <1>1, <2>1, <2>2, Z3
  <1>3. m \div n = q /\ m % n = r
    BY <1>1, Z3
  <1>4. k \in 1 .. l * n /\ k - 1 = m
    BY <1>1, <1>2
  <1> HIDE DEF m, k
  <1>5. (k - 1) \div n + 1 = a /\ ((k - 1) % n) + 1 = b
    BY <1>1, <1>3, <1>4 DEF q, r
  <1> QED
    BY <1>4, <1>5 DEF Places, RowAt, ValueAt

\* The ways to choose a value for each of some fields.
FieldChoices(expr, F) ==
    {c \in [F -> Int] : \A f \in F : c[f] \in ValuesOf(f, FieldOf(expr, f))}

\* Rows that are choices, and among which every choice is.
Covers(rows, expr, F) ==
    /\ rows \in Seq(FieldChoices(expr, F))
    /\ \A c \in FieldChoices(expr, F) : \E k \in DOMAIN rows : rows[k] = c

Restricted(expr, F) == {f \in F : ~Wildcard(FieldOf(expr, f))}

\* The matrix after the dimensions F: cut, or every choice for those of
\* them that are restricted.
Expanded(acc, expr, F) == acc.cut \/ Covers(acc.rows, expr, Restricted(expr, F))

\* One more field makes of every choice all those that have a value for it.
LEMMA ExpandCovers ==
    ASSUME NEW expr, NEW F, NEW rows, Covers(rows, expr, F), NEW f, f \notin F,
           NEW values \in Seq(ValuesOf(f, FieldOf(expr, f))),
           ValuesOf(f, FieldOf(expr, f)) \in SUBSET Int,
           \A v \in ValuesOf(f, FieldOf(expr, f)) : \E k \in 1 .. Len(values) : values[k] = v
    PROVE  Covers(Expand(rows, f, values), expr, F \union {f})
  <1> DEFINE V == ValuesOf(f, FieldOf(expr, f))
             G == F \union {f}
             l == Len(rows)
             n == Len(values)
             new == Expand(rows, f, values)
             row(k) == rows[RowAt(k, n)]
             value(k) == values[ValueAt(k, n)]
  <1>1. l \in Nat /\ n \in Nat /\ DOMAIN rows = 1 .. l
        /\ \A a \in 1 .. l : rows[a] \in FieldChoices(expr, F)
        /\ \A b \in 1 .. n : values[b] \in V
    BY DEF Covers
  <1> HIDE DEF l, n
  <1>2. \A k \in Places(l, n) : RowAt(k, n) \in 1 .. l /\ ValueAt(k, n) \in 1 .. n
    BY <1>1, PlaceIs
  <1>3. \A a \in 1 .. l, b \in 1 .. n :
            \E k \in Places(l, n) : RowAt(k, n) = a /\ ValueAt(k, n) = b
    BY <1>1, PlaceOf
  <1>4. new = [k \in Places(l, n) |-> With(row(k), f, value(k))]
    BY DEF Expand, l, n, Places, RowAt, ValueAt
  <1>5. \A c \in FieldChoices(expr, F), v \in V :
            With(c, f, v) = [g \in G |-> IF g = f THEN v ELSE c[g]]
    BY DEF FieldChoices, With
  <1>6. \A c \in FieldChoices(expr, F), v \in V : With(c, f, v) \in FieldChoices(expr, G)
    <2> SUFFICES ASSUME NEW c \in FieldChoices(expr, F), NEW v \in V
                 PROVE  With(c, f, v) \in FieldChoices(expr, G)
      OBVIOUS
    <2>1. With(c, f, v) = [g \in G |-> IF g = f THEN v ELSE c[g]]
      BY <1>5
    <2>2. \A g \in F : c[g] \in Int /\ c[g] \in ValuesOf(g, FieldOf(expr, g))
      BY DEF FieldChoices
    <2> QED
      BY <2>1, <2>2 DEF FieldChoices
  <1> HIDE DEF V, new, G
  <1>7. new \in Seq(FieldChoices(expr, G)) /\ DOMAIN new = Places(l, n)
    <2>1. l * n \in Nat
      BY <1>1, Z3
    <2>2. \A k \in Places(l, n) : row(k) \in FieldChoices(expr, F) /\ value(k) \in V
      BY <1>1, <1>2
    <2>3. \A k \in Places(l, n) : With(row(k), f, value(k)) \in FieldChoices(expr, G)
      BY <1>6, <2>2
    <2> DEFINE entry(k) == With(row(k), f, value(k))
               m == l * n
    <2>4. new = [k \in 1 .. m |-> entry(k)] /\ \A k \in 1 .. m : entry(k) \in FieldChoices(expr, G)
      BY <1>4, <2>3 DEF Places
    <2> HIDE DEF entry, m
    <2>5. m \in Nat
      BY <2>1 DEF m
    <2>6. new \in Seq(FieldChoices(expr, G)) /\ DOMAIN new = 1 .. m
      BY <2>4, <2>5
    <2> QED
      BY <2>6 DEF m, Places
  <1>8. ASSUME NEW c \in FieldChoices(expr, G)
        PROVE  \E k \in DOMAIN new : new[k] = c
    <2> DEFINE c0 == [g \in F |-> c[g]]
    <2>1. c \in [G -> Int] /\ \A g \in G : c[g] \in ValuesOf(g, FieldOf(expr, g))
      BY DEF FieldChoices
    <2>2. c0 \in FieldChoices(expr, F) /\ c[f] \in V
      BY <2>1 DEF FieldChoices, G, V
    <2>3. PICK a \in 1 .. l : rows[a] = c0
      BY <1>1, <2>2 DEF Covers
    <2>4. PICK b \in 1 .. n : values[b] = c[f]
      BY <2>2 DEF V, n
    <2>5. PICK k \in Places(l, n) : RowAt(k, n) = a /\ ValueAt(k, n) = b
      BY <1>3
    <2>6. new[k] = With(c0, f, c[f])
      BY <1>4, <2>3, <2>4, <2>5
    <2>7. With(c0, f, c[f]) = [g \in G |-> IF g = f THEN c[f] ELSE c0[g]]
      BY <1>5, <2>2
    <2>8. With(c0, f, c[f]) = c
      BY <2>1, <2>7 DEF G
    <2> QED
      BY <1>7, <2>5, <2>6, <2>8
  <1> QED
    BY <1>7, <1>8 DEF Covers, new, G

\* A dimension keeps the matrix complete, unless it cuts it.
LEMMA WithFieldExpanded ==
    ASSUME NEW expr, Valid(expr), NEW F \in SUBSET Fields, NEW acc, Expanded(acc, expr, F),
           NEW f \in Fields \ F
    PROVE  Expanded(WithField(expr, acc, f), expr, F \union {f})
  <1> DEFINE V == ValuesOf(f, FieldOf(expr, f))
             rows == Expand(acc.rows, f, Ascending(V))
             R == Restricted(expr, F)
  <1>1. CASE acc.cut
    BY <1>1 DEF Expanded, WithField
  <1>2. CASE ~acc.cut /\ Wildcard(FieldOf(expr, f))
    <2>1. Restricted(expr, F \union {f}) = R
      BY <1>2 DEF Restricted
    <2>2. WithField(expr, acc, f) = acc
      BY <1>2 DEF WithField
    <2> QED
      BY <2>1, <2>2 DEF Expanded
  <1>3. CASE ~acc.cut /\ ~Wildcard(FieldOf(expr, f))
    <2>1. Restricted(expr, F \union {f}) = R \union {f} /\ f \notin R
      BY <1>3 DEF Restricted
    <2>2. V \in SUBSET Int /\ IsFiniteSet(V)
      BY Values
    <2>3. /\ Ascending(V) \in Seq(V)
          /\ \A v \in V : \E k \in 1 .. Len(Ascending(V)) : Ascending(V)[k] = v
      BY <2>2, AscendingLists
    <2>4. Covers(acc.rows, expr, R)
      BY <1>3 DEF Expanded
    <2>5. Covers(rows, expr, R \union {f})
      BY <2>1, <2>2, <2>3, <2>4, ExpandCovers
    <2>6. WithField(expr, acc, f) = IF Len(rows) > RowLimit
              THEN [rows |-> SubSeq(rows, 1, RowLimit + 1), cut |-> TRUE]
              ELSE [rows |-> rows, cut |-> FALSE]
      BY <1>3 DEF WithField
    <2> HIDE DEF rows, V, R
    <2>7. WithField(expr, acc, f).cut \/ WithField(expr, acc, f).rows = rows
      BY <2>6
    <2> QED
      BY <2>1, <2>5, <2>7 DEF Expanded
  <1> QED
    BY <1>1, <1>2, <1>3

\* The matrix of a valid expression is cut, or complete.
LEMMA MatrixExpanded ==
    ASSUME NEW expr, Valid(expr)
    PROVE  Expanded(Matrix(expr), expr, Fields)
  <1> DEFINE a0 == [rows |-> << <<>> >>, cut |-> FALSE]
             a1 == WithField(expr, a0, "minute")
             a2 == WithField(expr, a1, "hour")
             a3 == WithField(expr, a2, "dom")
             a4 == WithField(expr, a3, "month")
             a5 == WithField(expr, a4, "dow")
  <1>1. Expanded(a0, expr, {})
    <2>1. Restricted(expr, {}) = {}
      BY DEF Restricted
    <2>2. <<>> \in FieldChoices(expr, {}) /\ \A c \in FieldChoices(expr, {}) : c = <<>>
      BY DEF FieldChoices
    <2>3. Covers(<< <<>> >>, expr, {})
      BY <2>2 DEF Covers
    <2> QED
      BY <2>1, <2>3 DEF Expanded
  <1>2. Matrix(expr) = a5
    BY DEF Matrix
  <1> HIDE DEF a0
  <1>3. Expanded(a1, expr, {"minute"})
    BY <1>1, WithFieldExpanded DEF Fields
  <1> HIDE DEF a1
  <1>4. Expanded(a2, expr, {"minute", "hour"})
    BY <1>3, WithFieldExpanded DEF Fields
  <1> HIDE DEF a2
  <1>5. Expanded(a3, expr, {"minute", "hour", "dom"})
    BY <1>4, WithFieldExpanded DEF Fields
  <1> HIDE DEF a3
  <1>6. Expanded(a4, expr, {"minute", "hour", "dom", "month"})
    BY <1>5, WithFieldExpanded DEF Fields
  <1> HIDE DEF a4
  <1>7. Expanded(a5, expr, {"minute", "hour", "dom", "month", "dow"})
    BY <1>6, WithFieldExpanded DEF Fields
  <1> QED
    BY <1>2, <1>7 DEF Fields

\* A calendar that is not cut fires at the minutes the expression matches.
LEMMA LaunchdMatches ==
    ASSUME NEW s, s.kind = "cron", Valid(s.expr), ~Matrix(s.expr).cut, NEW t
    PROVE  LaunchdFires(s, t) <=> Matches(s.expr, Clock[t])
  <1> DEFINE m == Clock[t]
             rows == Matrix(s.expr).rows
             V(f) == ValuesOf(f, FieldOf(s.expr, f))
             R == Restricted(s.expr, Fields)
  <1>1. Covers(rows, s.expr, R)
    BY MatrixExpanded DEF Expanded
  <1>2. LaunchdFires(s, t) <=> \E k \in DOMAIN rows : RowFires(rows[k], m)
    BY DEF LaunchdFires
  <1>3. \A f \in Fields : f \in R <=> ~Wildcard(FieldOf(s.expr, f))
    BY DEF Restricted
  <1>4. \A f \in Fields : V(f) \in SUBSET Int /\ V(f) # {}
    BY Values
  <1>5. \A f \in Fields : Hit(s.expr, f, m) <=> (f \in R => m[f] \in V(f))
    BY <1>3 DEF Hit
  <1>6. Matches(s.expr, m) <=>
          /\ \A f \in {"minute", "hour", "month"} : Hit(s.expr, f, m)
          /\ IF "dom" \in R /\ "dow" \in R
             THEN Hit(s.expr, "dom", m) \/ Hit(s.expr, "dow", m)
             ELSE Hit(s.expr, "dom", m) /\ Hit(s.expr, "dow", m)
    BY <1>3 DEF Matches, Fields
  <1> HIDE DEF m, rows, V, R
  <1>7. ASSUME NEW k \in DOMAIN rows, RowFires(rows[k], m)
        PROVE  Matches(s.expr, m)
    <2> DEFINE row == rows[k]
    <2>1. DOMAIN row = R /\ \A f \in R : row[f] \in V(f)
      BY <1>1 DEF Covers, FieldChoices, V
    <2>2. /\ \A f \in {"minute", "hour", "month"} \intersect R : row[f] = m[f]
          /\ {"dom", "dow"} \intersect R # {} =>
                \/ "dom" \in R /\ row["dom"] = m["dom"]
                \/ "dow" \in R /\ row["dow"] = m["dow"]
      BY <1>7, <2>1 DEF RowFires
    <2> HIDE DEF row
    <2>3. \A f \in {"minute", "hour", "month"} : Hit(s.expr, f, m)
      BY <1>5, <2>1, <2>2 DEF Fields
    <2> QED
      BY <1>5, <1>6, <2>1, <2>2, <2>3 DEF Fields
  <1>8. ASSUME Matches(s.expr, m)
        PROVE  \E k \in DOMAIN rows : RowFires(rows[k], m)
    <2> DEFINE c == [f \in R |-> IF m[f] \in V(f) THEN m[f] ELSE CHOOSE v \in V(f) : TRUE]
    <2>1. R \subseteq Fields
      BY DEF R, Restricted
    <2>2. \A f \in R : c[f] \in V(f)
      BY <1>4, <2>1
    <2>3. c \in FieldChoices(s.expr, R)
      BY <1>4, <2>1, <2>2 DEF FieldChoices, V
    <2>4. PICK k \in DOMAIN rows : rows[k] = c
      BY <1>1, <2>3 DEF Covers
    <2>5. \A f \in R : Hit(s.expr, f, m) => c[f] = m[f]
      BY <1>5, <2>1
    <2>6. DOMAIN c = R
      OBVIOUS
    <2> HIDE DEF c
    <2>7. RowFires(c, m)
      BY <1>6, <1>8, <2>5, <2>6 DEF RowFires
    <2> QED
      BY <2>4, <2>7
  <1> QED
    BY <1>2, <1>7, <1>8 DEF m

\* The calendar of a date fires on it.
LEMMA LaunchdDate ==
    ASSUME NEW s, s.kind = "once", NEW t
    PROVE  LaunchdFires(s, t) <=> Date(t) = Date(s.at)
  <1> DEFINE fs == {"minute", "hour", "dom", "month"}
             m == Clock[t]
             row == Date(s.at)
  <1>1. Date(t) = [f \in fs |-> m[f]] /\ row = [f \in fs |-> Clock[s.at][f]]
    BY DEF Date, Fields
  <1>2. LaunchdFires(s, t) <=> RowFires(row, m)
    BY DEF LaunchdFires
  <1>3. RowFires(row, m) <=> \A f \in fs : row[f] = m[f]
    <2>1. DOMAIN row = fs
      BY <1>1
    <2> HIDE DEF row, m
    <2> QED
      BY <2>1 DEF RowFires
  <1> QED
    BY <1>1, <1>2, <1>3

-----------------------------------------------------------------------------
(***************************************************************************)
(* The triggers and the record.                                            *)
(***************************************************************************)

\* What the record of a valid cron schedule is about.
LEMMA ExpressionIs ==
    ASSUME TypeOK, Expression
    PROVE  schedule.kind = "cron" /\ Valid(schedule.expr) /\ schedule.expr \in Exprs
  BY DEF TypeOK, Expression, Schedules

\* launchd starts the job at the time the record shows, for every expression
\* whose calendar is not cut, days that are alternatives included, and for
\* every date less than a year ahead.
THEOREM LaunchdAlways == Spec => []LaunchdAsShown
  <1>1. TypeOK /\ NextIsFirst /\ OnceInv => LaunchdAsShown
    <2> SUFFICES ASSUME TypeOK, NextIsFirst, OnceInv
                 PROVE  LaunchdAsShown
      OBVIOUS
    <2> DEFINE S == {t \in After(from) : LaunchdFires(schedule, t)}
    <2>1. FirstFire(LaunchdFires) = IF S = {} THEN Never ELSE Min(S)
      BY DEF FirstFire
    <2>2. ASSUME Expression, ~Matrix(schedule.expr).cut
          PROVE  FirstFire(LaunchdFires) = result
      <3>1. S = {t \in After(from) : Matches(schedule.expr, Clock[t])}
        BY <2>2, ExpressionIs, LaunchdMatches
      <3> QED
        BY <2>1, <2>2, <3>1, FirstOfMatches
    <2>3. ASSUME ThisYear
          PROVE  FirstFire(LaunchdFires) = result
      <3>1. Ahead /\ schedule.kind = "once" /\ schedule.at \in After(from)
        BY <2>3 DEF ThisYear, Ahead
      <3>2. \A t : LaunchdFires(schedule, t) <=> Date(t) = Date(schedule.at)
        BY <3>1, LaunchdDate
      <3>3. schedule.at \in S /\ \A t \in S : ~(t < schedule.at)
        BY <2>3, <3>1, <3>2 DEF ThisYear
      <3> QED
        BY <2>1, <3>1, <3>3, FirstIsDate
    <2> QED
      BY <2>2, <2>3 DEF LaunchdAsShown
  <1>2. IInv => TypeOK /\ NextIsFirst
    BY DEF IInv
  <1> QED
    BY <1>1, <1>2, Invariance, OnceShown, PTL

\* cron runs the job at the time the record shows, for every expression but
\* those whose days are both restricted, one of them by a field that begins
\* with an asterisk, and for every date less than a year ahead.
THEOREM CrontabAlways == Spec => []CrontabAsShown
  <1>1. TypeOK /\ NextIsFirst /\ OnceInv => CrontabAsShown
    <2> SUFFICES ASSUME TypeOK, NextIsFirst, OnceInv
                 PROVE  CrontabAsShown
      OBVIOUS
    <2> DEFINE S == {t \in After(from) : CrontabFires(schedule, t)}
    <2>1. FirstFire(CrontabFires) = IF S = {} THEN Never ELSE Min(S)
      BY DEF FirstFire
    <2>2. ASSUME Expression,
                 \A f \in {"dom", "dow"} : LET field == FieldOf(schedule.expr, f)
                   IN  Wildcard(field) \/ field[1].form # "star"
                       \/ Wildcard(FieldOf(schedule.expr,
                                           IF f = "dom" THEN "dow" ELSE "dom"))
          PROVE  FirstFire(CrontabFires) = result
      <3>1. S = {t \in After(from) : Matches(schedule.expr, Clock[t])}
        BY <2>2, ExpressionIs, CrontabMatches
      <3> QED
        BY <2>1, <2>2, <3>1, FirstOfMatches
    <2>3. ASSUME ThisYear
          PROVE  FirstFire(CrontabFires) = result
      <3>1. Ahead /\ schedule.kind = "once" /\ schedule.at \in After(from)
        BY <2>3 DEF ThisYear, Ahead
      <3>2. \A t : CrontabFires(schedule, t) <=> Date(t) = Date(schedule.at)
        BY <3>1, CrontabDate
      <3>3. schedule.at \in S /\ \A t \in S : ~(t < schedule.at)
        BY <2>3, <3>1, <3>2 DEF ThisYear
      <3> QED
        BY <2>1, <3>1, <3>3, FirstIsDate
    <2> QED
      BY <2>2, <2>3 DEF CrontabAsShown
  <1>2. IInv => TypeOK /\ NextIsFirst
    BY DEF IInv
  <1> QED
    BY <1>1, <1>2, Invariance, OnceShown, PTL

\* systemd runs the job at the time the record shows, for every list of
\* numbers that restricts one kind of day at most and names one day of the
\* week at most, and for every date ahead: 0 and 7 name the same day to both.
THEOREM SystemdAlways == Spec => []SystemdAsShown
  <1>1. TypeOK /\ NextIsFirst /\ OnceInv => SystemdAsShown
    <2> SUFFICES ASSUME TypeOK, NextIsFirst, OnceInv
                 PROVE  SystemdAsShown
      OBVIOUS
    <2> DEFINE S == {t \in After(from) : SystemdFires(schedule, t)}
    <2>1. FirstFire(SystemdFires) = IF S = {} THEN Never ELSE Min(S)
      BY DEF FirstFire
    <2>2. ASSUME Expression,
                 \A f \in Fields : Plain(FieldOf(schedule.expr, f)),
                 \E f \in {"dom", "dow"} : Wildcard(FieldOf(schedule.expr, f)),
                 Len(FieldOf(schedule.expr, "dow")) = 1
          PROVE  FirstFire(SystemdFires) = result
      <3>1. S = {t \in After(from) : Matches(schedule.expr, Clock[t])}
        BY <2>2, ExpressionIs, SystemdMatches
      <3> QED
        BY <2>1, <2>2, <3>1, FirstOfMatches
    <2>3. ASSUME Ahead
          PROVE  FirstFire(SystemdFires) = result
      <3>1. schedule.kind = "once" /\ schedule.at \in After(from)
        BY <2>3 DEF Ahead
      <3>2. S = {schedule.at}
        BY <3>1 DEF SystemdFires
      <3>3. schedule.at \in Int
        BY <3>1, ClockAssumption DEF After
      <3> QED
        BY <2>1, <2>3, <3>1, <3>2, <3>3, FirstIsDate
    <2> QED
      BY <2>2, <2>3 DEF SystemdAsShown
  <1>2. IInv => TypeOK /\ NextIsFirst
    BY DEF IInv
  <1> QED
    BY <1>1, <1>2, Invariance, OnceShown, PTL

=============================================================================
