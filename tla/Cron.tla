--------------------------------- MODULE Cron ---------------------------------
(***************************************************************************)
(* Cron expressions and the next run (src/core/scheduler.cpp: parseField,  *)
(* parseCron, matchesCron, nextCronTime, computeNextRun).                  *)
(*                                                                         *)
(* The search for the next run is a state machine, one step per minute it  *)
(* looks at.  localtime_r is the constant Clock, any function from minutes *)
(* to the fields of a moment: the calendar, its leap years and its changes *)
(* of the clock are the instance's, and so are the ranges of the fields.   *)
(*                                                                         *)
(* An expression is a sequence of fields, a field a sequence of the parts  *)
(* between its commas.  A part has a form ("star", "number", "range" or    *)
(* "junk", on which stoi throws), two numbers and a step, 1 if it has none.*)
(***************************************************************************)
EXTENDS Integers, Sequences, FiniteSets

CONSTANTS
    Exprs,     \* the cron expressions of schedules
    Onces,     \* the dates of one-time schedules, in minutes
    Starts,    \* the instants, in seconds, at which a next run is asked for
    Sixty,     \* seconds of a minute
    Horizon,   \* minutes the search looks at: those of 366 days
    Clock,     \* the fields of every minute
    Ranges,    \* the lowest and the highest value of every field
    Week,      \* days of a week, and the other name of day 0
    Never      \* no next run: the time 0, shown as a dash

Fields == {"minute", "hour", "dom", "month", "dow"}
Order == <<"minute", "hour", "dom", "month", "dow">>
Minutes == DOMAIN Clock

ASSUME SearchAssumption == Sixty \in Nat \ {0} /\ Horizon \in Nat /\ Starts \subseteq Nat
ASSUME NeverAssumption == Never \notin Int
ASSUME DateAssumption == Onces \subseteq Int
ASSUME RangeAssumption == \A f \in Fields : Ranges[f] \in Int \X Int
ASSUME WeekAssumption == Week \in Nat \ {0} /\ Ranges["dow"] = <<0, Week - 1>>
ASSUME ClockAssumption ==
    /\ Minutes \subseteq Int
    /\ \A s \in Starts, k \in 0 .. Horizon : s \div Sixty + 1 + k \in Minutes

-----------------------------------------------------------------------------
(***************************************************************************)
(* parseField and parseCron.                                               *)
(***************************************************************************)

\* What is between two commas.
Part == [form : {"star", "number", "range", "junk"}, a : Int, b : Int,
         step : Int, slash : BOOLEAN]

\* An expression has any number of fields, and a field one part or more.
ASSUME ExprAssumption ==
    \A expr \in Exprs : \A k \in DOMAIN expr : expr[k] \in Seq(Part) \ {<<>>}

Star == [form |-> "star", a |-> 0, b |-> 0, step |-> 1, slash |-> FALSE]

\* The values of a part, before those of the field are merged.
Steps(p, lo, hi) ==
    LET a == IF p.form = "star" THEN lo ELSE p.a
        b == CASE p.form = "star" -> hi [] p.form = "number" -> p.a [] OTHER -> p.b
    IN  {v \in a .. b : (v - a) % p.step = 0}

\* A day 7 of the week is Sunday, 0.
Sunday(f, v) == IF f = "dow" /\ v = Week THEN 0 ELSE v

ValuesOf(f, field) ==
    UNION {{Sunday(f, v) : v \in Steps(field[i], Ranges[f][1], Ranges[f][2])}
           : i \in DOMAIN field}

\* An empty part, a step that is not positive, a number stoi cannot read or
\* a value out of range spoils the field, and so does having no value at all.
ValidField(f, field) ==
    /\ \A i \in DOMAIN field : field[i].form # "junk" /\ field[i].step > 0
    /\ ValuesOf(f, field) # {}
    /\ ValuesOf(f, field) \subseteq Ranges[f][1] .. Ranges[f][2]

\* Only a bare asterisk leaves a field unrestricted: */1 does not.
Wildcard(field) == field = <<Star>>

FieldOf(expr, f) == expr[CHOOSE i \in 1 .. 5 : Order[i] = f]

\* parseCron, isValidCron
Valid(expr) ==
    /\ Len(expr) = 5
    /\ \A f \in Fields : ValidField(f, FieldOf(expr, f))

\* CronField::matches
Hit(expr, f, m) ==
    Wildcard(FieldOf(expr, f)) \/ m[f] \in ValuesOf(f, FieldOf(expr, f))

\* Mutant: the days are joined as the other fields are.
MatchesAll(expr, m) == \A f \in Fields : Hit(expr, f, m)

\* matchesCron: days of the month and of the week that are both restricted
\* are alternatives.
Matches(expr, m) ==
    LET restricted(f) == ~Wildcard(FieldOf(expr, f))
    IN  /\ \A f \in {"minute", "hour", "month"} : Hit(expr, f, m)
        /\ IF restricted("dom") /\ restricted("dow")
           THEN Hit(expr, "dom", m) \/ Hit(expr, "dow", m)
           ELSE Hit(expr, "dom", m) /\ Hit(expr, "dow", m)

-----------------------------------------------------------------------------
(***************************************************************************)
(* nextCronTime, as computeNextRun calls it.                               *)
(***************************************************************************)

\* A schedule: its cron expression, or the date of a one-time one.
Schedules == [kind : {"cron"}, expr : Exprs] \union [kind : {"once"}, at : Onces]

VARIABLES
    schedule,   \* the schedule
    from,       \* the instant asked about
    i,          \* minutes looked at
    candidate,  \* the minute looked at
    result,     \* the next run, in minutes, or Never
    phase       \* "start", "search" or "done"

vars == <<schedule, from, i, candidate, result, phase>>

Init ==
    /\ schedule \in Schedules /\ from \in Starts
    /\ i = 0 /\ candidate = 0
    /\ result = Never /\ phase = "start"

Give(r) == result' = r /\ phase' = "done"

\* A one-time schedule is compared with the instant itself.
Once ==
    /\ phase = "start" /\ schedule.kind = "once"
    /\ Give(IF schedule.at * Sixty > from THEN schedule.at ELSE Never)
    /\ UNCHANGED <<schedule, from, i, candidate>>

Reject ==
    /\ phase = "start" /\ schedule.kind = "cron" /\ ~Valid(schedule.expr)
    /\ Give(Never)
    /\ UNCHANGED <<schedule, from, i, candidate>>

\* Mutant: the minute that has begun is a candidate.
FirstNow == from \div Sixty

\* The next whole minute strictly after the instant.
First == from \div Sixty + 1

Search ==
    /\ phase = "start" /\ schedule.kind = "cron" /\ Valid(schedule.expr)
    /\ candidate' = First /\ phase' = "search"
    /\ UNCHANGED <<schedule, from, i, result>>

Found ==
    /\ phase = "search" /\ i < Horizon
    /\ Matches(schedule.expr, Clock[candidate])
    /\ Give(candidate)
    /\ UNCHANGED <<schedule, from, i, candidate>>

\* Mutant: the last minute of the window is followed by another one.
AdvanceOnceMore ==
    /\ phase = "search" /\ i <= Horizon
    /\ ~Matches(schedule.expr, Clock[candidate])
    /\ i' = i + 1 /\ candidate' = candidate + 1
    /\ UNCHANGED <<schedule, from, result, phase>>

Advance ==
    /\ phase = "search" /\ i < Horizon
    /\ ~Matches(schedule.expr, Clock[candidate])
    /\ i' = i + 1 /\ candidate' = candidate + 1
    /\ UNCHANGED <<schedule, from, result, phase>>

GiveUp ==
    /\ phase = "search" /\ i >= Horizon
    /\ Give(Never)
    /\ UNCHANGED <<schedule, from, i, candidate>>

Next == Once \/ Reject \/ Search \/ Found \/ Advance \/ GiveUp

Spec == Init /\ [][Next]_vars

-----------------------------------------------------------------------------
(***************************************************************************)
(* Properties.                                                             *)
(***************************************************************************)

\* The values the variables take.
TypeOK ==
    /\ schedule \in Schedules /\ from \in Starts
    /\ i \in 0 .. Horizon /\ candidate \in Nat
    /\ result \in Int \union {Never}
    /\ phase \in {"start", "search", "done"}

\* The minutes after an instant, as many as the search looks at.
After(s) == {t \in Minutes : t * Sixty > s /\ t - s \div Sixty <= Horizon}

\* What is shown as the next run of a cron schedule is the first minute that
\* matches after the instant, and a dash only if no minute of 366 days does.
NextIsFirst ==
    phase = "done" /\ schedule.kind = "cron" /\ Valid(schedule.expr) =>
        LET hits == {t \in After(from) : Matches(schedule.expr, Clock[t])}
        IN  IF hits = {} THEN result = Never
            ELSE result \in hits /\ \A t \in hits : result <= t

=============================================================================
