------------------------------- MODULE Triggers -------------------------------
(***************************************************************************)
(* The calendars a schedule's trigger is given (src/core/scheduler.cpp:    *)
(* calendarMatrix, generateLaunchdPlist, generateSystemdTimer,             *)
(* generateCrontabLine) beside the next run the record shows (Cron).  The  *)
(* trigger and the next run are computed separately, from one schedule, by *)
(* code that knows three notations; they should name the same minute.      *)
(*                                                                         *)
(* How launchd, systemd and cron read their calendars is not in the        *)
(* repository: launchd starts a job whose Day or Weekday matches when it   *)
(* has both, systemd one whose day of the week and date both do, and cron  *)
(* takes a field that begins with an asterisk for unrestricted.            *)
(***************************************************************************)
EXTENDS Cron, FiniteSetsExt, SequencesExt

CONSTANTS
    RowLimit   \* rows of a launchd calendar before it is cut: 366

ASSUME LimitAssumption == RowLimit \in Nat \ {0}

-----------------------------------------------------------------------------
(***************************************************************************)
(* launchd: rows of fields and their values.                               *)
(***************************************************************************)

\* The values of a field, sorted and each once.
Ascending(S) ==
    [k \in 1 .. Cardinality(S) |-> CHOOSE v \in S : Cardinality({w \in S : w < v}) = k - 1]

\* A row with one more field.
With(row, f, v) ==
    [g \in DOMAIN row \union {f} |-> IF g = f THEN v ELSE row[g]]

\* Every row, once for every value of the field, in order.
Expand(rows, f, values) ==
    LET n == Len(values)
    IN  [k \in 1 .. Len(rows) * n |->
            With(rows[(k - 1) \div n + 1], f, values[((k - 1) % n) + 1])]

\* Mutant: a wildcard is a dimension like the others, of its lowest value.
WithFieldAlways(expr, acc, f) ==
    LET rows == Expand(acc.rows, f,
                       IF Wildcard(FieldOf(expr, f)) THEN <<Ranges[f][1]>>
                       ELSE Ascending(ValuesOf(f, FieldOf(expr, f))))
    IN  IF acc.cut THEN acc
        ELSE IF Len(rows) > RowLimit
        THEN [rows |-> SubSeq(rows, 1, RowLimit + 1), cut |-> TRUE]
        ELSE [rows |-> rows, cut |-> FALSE]

\* One dimension of calendarMatrix.  A wildcard is omitted; with more rows
\* than the limit the matrix is returned as it is, the rows expanded so far
\* without the fields still to come, the others dropped.
WithField(expr, acc, f) ==
    LET rows == Expand(acc.rows, f, Ascending(ValuesOf(f, FieldOf(expr, f))))
    IN  IF acc.cut \/ Wildcard(FieldOf(expr, f)) THEN acc
        ELSE IF Len(rows) > RowLimit
        THEN [rows |-> SubSeq(rows, 1, RowLimit + 1), cut |-> TRUE]
        ELSE [rows |-> rows, cut |-> FALSE]

\* calendarMatrix of a cron schedule, one dimension after the other.
Matrix(expr) ==
    LET add(acc, f) == WithField(expr, acc, f)
        none == [rows |-> << <<>> >>, cut |-> FALSE]
    IN  add(add(add(add(add(none, "minute"), "hour"), "dom"), "month"), "dow")

\* The fields of the moment at which a one-time schedule is due: no year is
\* among those launchd and cron know.
Date(at) == [f \in Fields \ {"dow"} |-> Clock[at][f]]

RowFires(row, m) ==
    LET day(f) == f \in DOMAIN row /\ row[f] = m[f]
    IN  /\ \A f \in {"minute", "hour", "month"} \intersect DOMAIN row : row[f] = m[f]
        /\ {"dom", "dow"} \intersect DOMAIN row # {} => day("dom") \/ day("dow")

\* generateLaunchdPlist
LaunchdFires(s, t) ==
    IF s.kind = "once" THEN RowFires(Date(s.at), Clock[t])
    ELSE LET rows == Matrix(s.expr).rows
         IN  \E k \in DOMAIN rows : RowFires(rows[k], Clock[t])

-----------------------------------------------------------------------------
(***************************************************************************)
(* systemd: the fields as they stand, the day of the week as a name.       *)
(***************************************************************************)

\* A list of numbers means the same to systemd; ranges, steps and a list
\* with an asterisk are left aside.
Plain(field) == Wildcard(field) \/ \A k \in DOMAIN field :
                    field[k].form = "number" /\ ~field[k].slash

\* Mutant: the number is looked up without the modulo.
NamedDayAsIs(field) ==
    LET p == field[1]
    IN  IF Wildcard(field) \/ p.form = "star" \/ p.a >= Week THEN {} ELSE {p.a}

\* The name the day of the week becomes: that of the first number of the
\* field, whatever follows it.
NamedDay(field) ==
    LET p == field[1]
    IN  IF Wildcard(field) \/ p.form = "star" THEN {} ELSE {p.a % Week}

\* generateSystemdTimer
SystemdFires(s, t) ==
    IF s.kind = "once" THEN t = s.at
    ELSE LET m == Clock[t]
             days == NamedDay(FieldOf(s.expr, "dow"))
         IN  /\ \A f \in Fields \ {"dow"} : Hit(s.expr, f, m)
             /\ days # {} => m["dow"] \in days

-----------------------------------------------------------------------------
(***************************************************************************)
(* cron: the expression itself.                                            *)
(***************************************************************************)

\* generateCrontabLine
CrontabFires(s, t) ==
    LET m == Clock[t]
        restricted(f) == FieldOf(s.expr, f)[1].form # "star"
        hit(f) == Hit(s.expr, f, m)
    IN  IF s.kind = "once"
        THEN LET date == Date(s.at)
             IN  \A f \in DOMAIN date : date[f] = m[f]
        ELSE /\ hit("minute") /\ hit("hour") /\ hit("month")
             /\ IF restricted("dom") /\ restricted("dow")
                THEN hit("dom") \/ hit("dow") ELSE hit("dom") /\ hit("dow")

-----------------------------------------------------------------------------
(***************************************************************************)
(* Properties.                                                             *)
(***************************************************************************)

\* The first time a trigger fires after the instant, within the window.
FirstFire(Fires(_, _)) ==
    LET hits == {t \in After(from) : Fires(schedule, t)}
    IN  IF hits = {} THEN Never ELSE Min(hits)

Expression == phase = "done" /\ schedule.kind = "cron" /\ Valid(schedule.expr)

\* A one-time schedule whose date is still ahead, and one by less than a year:
\* without a year in the calendar, the same date comes first.
Ahead == phase = "done" /\ schedule.kind = "once" /\ schedule.at \in After(from)
ThisYear ==
    Ahead /\ \A t \in After(from) : t < schedule.at => Date(t) # Date(schedule.at)

\* launchd starts the job at the time shown, for every expression whose
\* calendar is not cut: also for those whose days are alternatives.
LaunchdAsShown ==
    /\ Expression /\ ~Matrix(schedule.expr).cut => FirstFire(LaunchdFires) = result
    /\ ThisYear => FirstFire(LaunchdFires) = result

\* systemd does for every list of numbers, if not both days are restricted
\* and only one day of the week is named.
SystemdAsShown ==
    /\ Expression
       /\ (\A f \in Fields : Plain(FieldOf(schedule.expr, f)))
       /\ (\E f \in {"dom", "dow"} : Wildcard(FieldOf(schedule.expr, f)))
       /\ Len(FieldOf(schedule.expr, "dow")) = 1
       => FirstFire(SystemdFires) = result
    /\ Ahead => FirstFire(SystemdFires) = result

\* cron does unless both days are restricted, one of them by a field that
\* begins with an asterisk.
CrontabAsShown ==
    /\ Expression
       /\ (\A f \in {"dom", "dow"} : LET field == FieldOf(schedule.expr, f)
             IN  Wildcard(field) \/ field[1].form # "star"
                 \/ Wildcard(FieldOf(schedule.expr, IF f = "dom" THEN "dow" ELSE "dom")))
       => FirstFire(CrontabFires) = result
    /\ ThisYear => FirstFire(CrontabFires) = result

=============================================================================
