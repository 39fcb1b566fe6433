--------------------------- MODULE OfficialDudect ---------------------------
(* One run of the official dudect backend: ctkat/native/                     *)
(* official_dudect_adapter.c over the vendored dudect.h.  A calibration      *)
(* trace gives the crop thresholds; the rows of the analysis trace are       *)
(* pushed, one after the other, to the uncropped test, to the crops they fit *)
(* and to the second-order test; three loops then pick the winner, decide    *)
(* whether there was enough and report which tests were eligible.            *)
(*                                                                           *)
(* Welch's statistic of a test is arbitrary, or undefined (NaN).             *)
EXTENDS Integers, Sequences, SequencesExt

CONSTANTS Discard,          \* first rows left out (10)
          Enough,           \* DUDECT_ENOUGH_MEASUREMENTS (10000)
          Which,            \* the percentiles, in hundredths, ascending
          Cycles,           \* cycle differences of a row
          Calibrations,     \* calibration traces
          MaxRows,          \* bound: rows of the analysis trace
          Scores, NaN       \* values of |t|; t_threshold_moderate is 10

Crops == DOMAIN Which
Tests == 0 .. Len(Which) + 1
SecondOrder == Len(Which) + 1

\* Assumed of the parameters.
DudectAssumption ==
    /\ Discard \in Nat /\ Enough \in Nat \ {0} /\ MaxRows \in Nat
    /\ Which \in Seq(0 .. 99) /\ \A i \in Crops : \A j \in 1 .. i : Which[j] <= Which[i]
    /\ Cycles \subseteq Int /\ Scores \subseteq Nat /\ NaN \notin Scores

VARIABLES args,     \* [thresholds]: percentiles[]
          locals,   \* [rows, n]: rows consumed, and n[clazz] of every test
          out       \* [ret, status, t]: exit code, status, the statistics

vars == <<args, locals, out>>

\* prepare_percentiles, over the trace and the trailing zero of its buffer.
Thresholds(calibration) ==
    LET sorted == SortSeq(Append(calibration, 0), <) IN
    [i \in Crops |-> sorted[(Len(sorted) * Which[i]) \div 100 + 1]]

Init ==
    /\ \E c \in Calibrations : args = [thresholds |-> Thresholds(c)]
    /\ locals = [rows |-> 0, n |-> [i \in Tests |-> [class \in {0, 1} |-> 0]]]
    /\ out = [ret |-> "none", status |-> "none", t |-> [i \in Tests |-> NaN]]

\* A trace is empty, cut short or malformed, or there is no memory: all of it
\* before the first row.
Fails ==
    /\ out.ret = "none" /\ locals.rows = 0
    /\ out' = [out EXCEPT !.ret = "exit 2"]
    /\ UNCHANGED <<args, locals>>

\* The tests a row is pushed to; the second-order one sees the count with the
\* row in it.
Pushed(class, difference) ==
    {0} \cup {i \in Crops : difference < args.thresholds[i]}
        \cup (IF locals.n[0][0] + (1 - class) > Enough THEN {SecondOrder} ELSE {})

\* update_statistics, one row.
Row(class, difference) ==
    /\ out.ret = "none" /\ locals.rows < MaxRows
    /\ LET to == IF locals.rows < Discard \/ difference < 0 THEN {} ELSE Pushed(class, difference) IN
       locals' = [rows |-> locals.rows + 1,
                  n |-> [i \in Tests |->
                            IF i \in to THEN [locals.n[i] EXCEPT ![class] = @ + 1] ELSE locals.n[i]]]
    /\ UNCHANGED <<args, out>>

\* The winner of max_test: the first of the largest scores above zero, and the
\* uncropped test if there is none.
Winner(t) ==
    LET asked == {i \in Tests : locals.n[i][0] > Enough /\ t[i] # NaN /\ t[i] > 0} IN
    IF asked = {} THEN 0
    ELSE CHOOSE i \in asked : \A j \in asked : t[j] < t[i] \/ (t[j] = t[i] /\ i <= j)

\* The limit itself is let in, which max_test does not.
HasEnoughAtLimit(n) == \E i \in Tests : n[i][0] >= Enough /\ n[i][1] >= 2

\* The loop that sets `enough`.
HasEnough(n) == \E i \in Tests : n[i][0] > Enough /\ n[i][1] >= 2

Eligible(i) == locals.n[i][0] > Enough /\ locals.n[i][1] >= 2 /\ out.t[i] # NaN

Exceeds(x) == x # NaN /\ x > 10

\* The rest of main: a statistic needs two rows of each class, in t_compute as
\* in the loop that prints it (0 / 0).
Report ==
    /\ out.ret = "none" /\ locals.rows > 0
    /\ LET defined == {i \in Tests : \A class \in {0, 1} : locals.n[i][class] >= 2} IN
       \E score \in [defined -> Scores \cup {NaN}] :
           LET t == [i \in Tests |-> IF i \in defined THEN score[i] ELSE NaN] IN
           out' = [ret |-> "exit 0", t |-> t,
                   status |-> IF ~HasEnough(locals.n) THEN "INSUFFICIENT"
                              ELSE IF Exceeds(t[Winner(t)]) THEN "FAIL" ELSE "PASS"]
    /\ UNCHANGED <<args, locals>>

Next ==
    \/ Fails
    \/ \E class \in {0, 1}, difference \in Cycles : Row(class, difference)
    \/ Report

Spec == Init /\ [][Next]_vars

-----------------------------------------------------------------------------
TypeOK ==
    /\ locals.rows \in 0 .. MaxRows
    /\ \A i \in Tests, class \in {0, 1} : locals.n[i][class] \in 0 .. locals.rows
    /\ out.ret \in {"none", "exit 0", "exit 2"}
    /\ out.status \in {"none", "INSUFFICIENT", "PASS", "FAIL"}

\* The status agrees with the tests printed under it, which another loop
\* judges: it is FAIL exactly if an eligible test exceeds the threshold, and
\* INSUFFICIENT exactly if the uncropped test alone had too few rows, since no
\* crop and no second-order test can have more.
StatusMatchesTests ==
    out.ret = "exit 0" =>
        /\ out.status = "FAIL" <=> \E i \in Tests : Eligible(i) /\ Exceeds(out.t[i])
        /\ out.status = "INSUFFICIENT" <=> locals.n[0][0] <= Enough \/ locals.n[0][1] < 2
=============================================================================
