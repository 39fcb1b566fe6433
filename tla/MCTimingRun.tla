---------------------------- MODULE MCTimingRun ----------------------------
(* Small instances of TimingRun for TLC. *)
EXTENDS TimingRun

Rows(c0, c1) == [c \in Classes |-> IF c = 0 THEN c0 ELSE c1]

CleanTrace ==
    [good |-> Rows(50, 50), clock |-> Rows(0, 0), moved |-> Rows(0, 0),
     unmarked |-> Rows(0, 0), broken |-> 0, says |-> 100, setup |-> TRUE, seeded |-> TRUE, input |-> TRUE]

\* What a generic harness prints, or one whose metadata line was cut away.
NoLine == [CleanTrace EXCEPT !.says = None, !.setup = FALSE, !.seeded = FALSE, !.input = FALSE]

\* No line, and then one row short or a class with too few rows; one row short;
\* one unreadable; one lost to a migration that only the processor numbers show,
\* which is tolerated; two lost; one lost of a small class; a line that confirms
\* neither the seeding nor the input; and a line whose number of rows was cut.
AllTraces ==
    {CleanTrace, NoLine,
     [NoLine EXCEPT !.good = Rows(49, 50)],
     [NoLine EXCEPT !.good = Rows(99, 1)],
     [CleanTrace EXCEPT !.good = Rows(49, 50)],
     [CleanTrace EXCEPT !.good = Rows(49, 50), !.broken = 1],
     [CleanTrace EXCEPT !.good = Rows(49, 50), !.unmarked = Rows(1, 0)],
     [CleanTrace EXCEPT !.good = Rows(49, 49), !.clock = Rows(1, 0), !.moved = Rows(0, 1)],
     [CleanTrace EXCEPT !.good = Rows(9, 90), !.clock = Rows(1, 0)],
     [CleanTrace EXCEPT !.seeded = FALSE, !.input = FALSE],
     [CleanTrace EXCEPT !.says = 10]}

Plan(template, official, repeats, aaMax, power, host, rivals) ==
    [template |-> template, official |-> official, repeats |-> repeats,
     aaMax |-> aaMax, power |-> power, host |-> host, rivals |-> rivals]

\* power is ceil(target_power * repeats) for a target_power above one half.
AllPlans ==
    {Plan("generic", TRUE, 1, 0, 1, FALSE, <<"other", "third">>),
     Plan("generic", FALSE, 1, 0, 1, FALSE, <<"other">>),
     Plan("kem", TRUE, 3, 1, 2, FALSE, <<>>),
     Plan("kem", TRUE, 1, 0, 1, FALSE, <<"other">>),
     Plan("kem", FALSE, 1, 0, 1, FALSE, <<>>),
     Plan("sign", TRUE, 2, 0, 2, FALSE, <<>>),
     Plan("sign", TRUE, 1, 0, 1, TRUE, <<>>)}

OtherBuilds == {"other", "third"}
=============================================================================
