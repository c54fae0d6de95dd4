------------------------------ MODULE MCTriggers ------------------------------
(***************************************************************************)
(* A small calendar: two minutes of two seconds, two hours, weeks of three *)
(* days, and years of two months of 3 and 2 days, of which every third     *)
(* year's second month has 3, as February has 29.                          *)
(***************************************************************************)
EXTENDS Triggers

MonthLengths == <<3, 2, 3, 2, 3, 3, 3, 2, 3, 2>>

\* The days of these years, each its month and its day of the month.
Days == FoldLeft(LAMBDA ds, k : ds \o [d \in 1 .. MonthLengths[k] |-> <<((k - 1) % 2) + 1, d>>],
                 <<>>, [k \in DOMAIN MonthLengths |-> k])

MCClock ==
    [t \in 0 .. 4 * Len(Days) - 1 |->
        [minute |-> t % 2, hour |-> (t \div 2) % 2,
         dom |-> Days[t \div 4 + 1][2], month |-> Days[t \div 4 + 1][1],
         dow |-> (t \div 4) % 3]]

MCRanges == [minute |-> <<0, 1>>, hour |-> <<0, 1>>, dom |-> <<1, 3>>,
             month |-> <<1, 2>>, dow |-> <<0, 2>>]

Number(n) == [form |-> "number", a |-> n, b |-> n, step |-> 1, slash |-> FALSE]
Interval(x, y) == [form |-> "range", a |-> x, b |-> y, step |-> 1, slash |-> FALSE]
Every(s) == [Star EXCEPT !.step = s, !.slash = TRUE]
Junk == [Star EXCEPT !.form = "junk"]

MCRegular ==
    LET times == {<<Number(m)>> : m \in 0 .. 1} \X {<<Number(h)>> : h \in 0 .. 1}
    IN  {t \o << <<Star>>, <<Star>>, <<Star>> >> : t \in times}
        \union {t \o << <<Star>>, <<Star>>, <<Number(d)>> >> : t \in times, d \in 0 .. 3}
        \union {t \o << <<Number(d)>>, <<Star>>, <<Star>> >> : t \in times, d \in 1 .. 3}

MCRaw ==
    {<<Star>>, <<Number(1)>>, <<Every(2)>>} \X {<<Star>>, <<Number(0), Number(1)>>}
    \X {<<Star>>, <<Number(3)>>, <<Every(2)>>, <<Interval(1, 2)>>}
    \X {<<Star>>, <<Number(2)>>}
    \X {<<Star>>, <<Number(1)>>, <<Number(0), Number(2)>>, <<Interval(2, 3)>>, <<Every(1)>>}

MCInvalid ==
    LET s == <<Star>>
    IN  {<<s, s, s, s>>, <<s, s, <<Number(4)>>, s, s>>, <<<<Every(0)>>, s, s, s, s>>,
         <<s, <<Junk>>, s, s, s>>, <<s, s, s, s, <<Interval(2, 1)>> >>}

MCExprs == MCRegular \union MCRaw \union MCInvalid
MCOnces == {0, 9, 30, 57}
MCStarts == {0, 1, 4, 7, 10, 16, 18, 23, 30, 39, 41, 44, 52, 60}
=============================================================================
