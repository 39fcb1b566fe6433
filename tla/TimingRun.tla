----------------------------- MODULE TimingRun -----------------------------
(***************************************************************************)
(* One timing harness from its source to its result: ctkat/cli.py          *)
(* (_do_dudect, _run_v2_harness_protocol, _set_timing_validity),           *)
(* ctkat/timing_build_provenance.py and ctkat/dudect_runner.py.            *)
(*                                                                         *)
(* The source and the binary of a harness lie in a directory that other    *)
(* commands share.  Each replaces them whole, by renaming; plan.rivals are *)
(* the builds the others publish, in this order.                           *)
(*                                                                         *)
(* A trace is what one process printed: for each class the rows that are   *)
(* good, those with an impossible clock, those that name a migration and   *)
(* those whose processor numbers alone show one; the rows no parser takes; *)
(* and the metadata line: the number of rows it announces (None when there *)
(* is no such number) and three facts.                                     *)
(***************************************************************************)
EXTENDS Verdict, Sequences, FiniteSets

CONSTANTS
    Plans,      \* the harness configurations considered
    Traces,     \* what a process may print
    Asked,      \* the rows every process is asked for
    Own,        \* the build of this command
    Theirs,     \* the builds of the others
    MaxOdd,     \* bound on the kinds of odd traces one run meets
    None

Classes == {0, 1}

TraceType ==
    [good : [Classes -> Nat], clock : [Classes -> Nat], moved : [Classes -> Nat],
     unmarked : [Classes -> Nat], broken : Nat,
     says : Nat \cup {None}, setup : BOOLEAN, seeded : BOOLEAN, input : BOOLEAN]

Printed(t) ==
    t.good[0] + t.good[1] + t.clock[0] + t.clock[1] + t.moved[0] + t.moved[1]
        + t.unmarked[0] + t.unmarked[1] + t.broken

\* Whether the environment found before the command started is to be rejected.
Hosts == BOOLEAN

\* power is required_positive_detections.
PlanType ==
    [template : {"generic", "kem", "sign"}, official : BOOLEAN, repeats : Nat \ {0},
     aaMax : Nat, power : Nat, host : Hosts, rivals : Seq(Theirs)]

\* A harness announces the number it was asked for.  Another one is the rest of
\* a line that was cut, after all the rows.
ASSUME TimingRunConstants ==
    /\ Plans \subseteq PlanType
    /\ Traces \subseteq TraceType
    /\ \A t \in Traces : t.says \notin {None, Asked} => Printed(t) = Asked
    /\ Asked \in Nat
    /\ Own \notin Theirs /\ None \notin Theirs \cup {Own} /\ None \notin Traces
    /\ MaxOdd \in Nat

VARIABLES
    plan,       \* the configuration of the harness
    pc,         \* the next step of the command
    source,     \* the published source, named by the build it belongs to
    binary,     \* the published binary
    rival,      \* how many renames the others have done
    seal,       \* the build provenance captured before the first sample
    step,       \* the physical processes that are accounted
    proc,       \* the build the running process was started from, and its trace
    seen,       \* the accepted traces, with their parts and the builds that ran
    stats,      \* the payloads of the controls and targets, counted
    result      \* the entry of this harness in the results

vars == <<plan, pc, source, binary, rival, seal, step, proc, seen, stats, result>>

published == <<source, binary, rival>>

Protocol == plan.template \in {"kem", "sign"}

\* The processes of one repeat: the pinned backend calibrates first, and only
\* the protocol has controls.  Each positive control is one of three effects;
\* only the largest is asked about afterwards.
Roles == <<"calibration", "target", "aa", "placebo", "small", "middle", "largest">>

FirstRole == IF plan.official THEN 1 ELSE 2
LastRole  == IF Protocol THEN 7 ELSE 2
Turns     == LastRole - FirstRole + 1

Repeats == IF Protocol THEN plan.repeats ELSE 1

Role == Roles[FirstRole + (step % Turns)]

LastStep == step + 1 = Repeats * Turns

\* What the analysis of a target may find.  The pinned backend passes a
\* statistic that does not exist (every time alike: 0/0); its |t| is read
\* back as infinite.
Outcomes == IF plan.official THEN {"PASS", "UNDEFINED", "FAIL", "INSUFFICIENT"}
                             ELSE {"PASS", "WARNING", "FAIL"}

StatusOf(o) == IF o = "UNDEFINED" THEN "PASS" ELSE o

Init ==
    /\ plan \in Plans
    /\ pc = "render"
    /\ source = None /\ binary = None /\ rival = 0
    /\ seal = [source |-> None, binary |-> None]
    /\ step = 0
    /\ proc = [build |-> None, trace |-> None]
    /\ seen = {}
    /\ stats = [aa |-> 0, placebo |-> 0, detected |-> 0, outcomes |-> {}]
    /\ result = NotMeasured

-----------------------------------------------------------------------------
(* The other commands: a source, then the binary compiled from it.         *)

RivalBuild == plan.rivals[1 + rival \div 2]

RivalSource ==
    /\ rival < 2 * Len(plan.rivals) /\ rival % 2 = 0
    /\ source' = RivalBuild
    /\ rival' = rival + 1
    /\ UNCHANGED <<plan, pc, binary, seal, step, proc, seen, stats, result>>

RivalBinary ==
    /\ rival % 2 = 1
    /\ binary' = RivalBuild
    /\ rival' = rival + 1
    /\ UNCHANGED <<plan, pc, source, seal, step, proc, seen, stats, result>>

-----------------------------------------------------------------------------
(* Build and seal                                                          *)

measurement == <<step, proc, seen, stats>>

\* The command ends without a result for any harness: rendering, compiling, the
\* binary contract, capturing the seal or writing it failed.
Abort ==
    /\ pc \in {"render", "compile", "contract", "captureBinary", "writeSeal"}
    /\ pc' = "aborted"
    /\ UNCHANGED <<plan, published, seal, measurement, result>>

Render ==
    /\ pc = "render"
    /\ source' = Own
    /\ pc' = "compile"
    /\ UNCHANGED <<plan, binary, rival, seal, measurement, result>>

\* The compiler reads a private copy of the source and writes a private file.
Compile ==
    /\ pc = "compile"
    /\ binary' = Own
    /\ pc' = "contract"
    /\ UNCHANGED <<plan, source, rival, seal, measurement, result>>

CaptureSource ==
    /\ pc = "contract"
    /\ seal' = [seal EXCEPT !.source = source]
    /\ pc' = "captureBinary"
    /\ UNCHANGED <<plan, published, measurement, result>>

CaptureBinary ==
    /\ pc = "captureBinary"
    /\ seal' = [seal EXCEPT !.binary = binary]
    /\ pc' = "writeSeal"
    /\ UNCHANGED <<plan, published, measurement, result>>

\* A mutant of Sealed: the sealed files are still there.
SealedPaths == source # None /\ binary # None

Sealed == source = seal.source /\ binary = seal.binary

WriteSeal ==
    /\ pc = "writeSeal"
    /\ pc' = IF Sealed THEN "before" ELSE "aborted"
    /\ UNCHANGED <<plan, published, seal, measurement, result>>

-----------------------------------------------------------------------------
(* One process between two checks of the seal                              *)

\* _error_welch: a process that cannot be accounted is the whole result.
Error ==
    /\ result' = [status |-> "ERROR", validity |-> "error"]
    /\ pc' = "done"
    /\ proc' = [build |-> None, trace |-> None]

CheckBefore ==
    /\ pc = "before"
    /\ IF Sealed THEN pc' = "start" /\ UNCHANGED <<proc, result>> ELSE Error
    /\ UNCHANGED <<plan, published, seal, step, seen, stats>>

Start ==
    /\ pc = "start"
    /\ proc' = [build |-> binary, trace |-> None]
    /\ pc' = "running"
    /\ UNCHANGED <<plan, published, seal, step, seen, stats, result>>

\* A timeout, a crash, too much output or none, a header nobody knows.
ProcessFails ==
    /\ pc = "running"
    /\ Error
    /\ UNCHANGED <<plan, published, seal, step, seen, stats>>

Clean(t) ==
    /\ t.good[0] + t.good[1] = Asked /\ t.broken = 0
    /\ \A c \in Classes : t.clock[c] = 0 /\ t.moved[c] = 0 /\ t.unmarked[c] = 0
    /\ IF Protocol THEN t.says = Asked /\ t.setup /\ t.seeded /\ t.input ELSE t.says = None

Part == IF Role = "target" THEN "target" ELSE "other"

OddAfter(t) ==
    Clean(t) \/ Cardinality({<<x.part, x.trace>> : x \in {y \in seen : ~Clean(y.trace)}}
                                \cup {<<Part, t>>}) <= MaxOdd

\* A generic harness prints no processor numbers and no metadata line.
ProcessPrints(t) ==
    /\ pc = "running"
    /\ Protocol \/ (t.says = None /\ \A c \in Classes : t.moved[c] = 0 /\ t.unmarked[c] = 0)
    /\ OddAfter(t)
    /\ proc' = [proc EXCEPT !.trace = t]
    /\ pc' = "after"
    /\ UNCHANGED <<plan, published, seal, step, seen, stats, result>>

-----------------------------------------------------------------------------
(* Rows: parse_timing_csv, and what _set_timing_validity makes of them.    *)

\* The rows announced count before those of the configuration.
Parse(t) ==
    [expected  |-> IF t.says # None THEN t.says ELSE Asked,
     kept      |-> t.good,
     dropped   |-> [c \in Classes |-> t.clock[c] + t.moved[c] + t.unmarked[c]],
     malformed |-> t.broken,
     raw       |-> Printed(t)]

Corrupted(s) ==
    \/ s.raw # s.expected
    \/ s.malformed # 0
    \/ s.raw # s.kept[0] + s.kept[1] + s.dropped[0] + s.dropped[1] + s.malformed

Difference(a, b) == IF a > b THEN a - b ELSE b - a

\* More than 1% of all rows dropped, or more than 5% of one class and a gap
\* of more than 5% between the classes.
Filtered(s) ==
    LET rows(c) == s.kept[c] + s.dropped[c]
        gap     == Difference(s.dropped[0] * rows(1), s.dropped[1] * rows(0))
    IN  \/ 100 * (s.dropped[0] + s.dropped[1]) > s.raw
        \/ /\ rows(0) > 0 /\ rows(1) > 0
           /\ \E c \in Classes : 20 * s.dropped[c] > rows(c)
           /\ 20 * gap > rows(0) * rows(1)

\* Two rows of each class, and for signatures no broken row.
Accepted(s) ==
    /\ Role # "calibration" => \A c \in Classes : s.kept[c] >= 2
    /\ plan.template = "sign" => s.malformed = 0

-----------------------------------------------------------------------------
(* Accounting a process, and the result                                    *)

Reject ==
    /\ pc = "after"
    /\ ~Sealed \/ ~Accepted(Parse(proc.trace))
    /\ Error
    /\ UNCHANGED <<plan, published, seal, step, seen, stats>>

AnalysisFails ==
    /\ pc = "after"
    /\ Sealed /\ Accepted(Parse(proc.trace))
    /\ Role = "target" /\ plan.official
    /\ Error
    /\ UNCHANGED <<plan, published, seal, step, seen, stats>>

\* What the statistics may say of the rows of a process.
Findings ==
    IF Role = "target" THEN Outcomes
    ELSE IF Role \in {"aa", "placebo", "largest"} THEN {"quiet", "alarm"}
    ELSE {"ignored"}

Counted(f) ==
    LET one(r) == IF Role = r /\ f = "alarm" THEN 1 ELSE 0 IN
    [aa       |-> stats.aa + one("aa"),
     placebo  |-> stats.placebo + one("placebo"),
     detected |-> stats.detected + one("largest"),
     outcomes |-> IF Role = "target" THEN stats.outcomes \cup {f} ELSE stats.outcomes]

Account(f) ==
    /\ pc = "after"
    /\ Sealed /\ Accepted(Parse(proc.trace))
    /\ seen' = seen \cup {[part |-> Part, build |-> proc.build, trace |-> proc.trace]}
    /\ stats' = Counted(f)
    /\ step' = step + 1
    /\ pc' = IF LastStep THEN "conclude" ELSE "before"
    /\ UNCHANGED <<plan, published, seal, proc, result>>

\* A mutant of Inconsistent: repeats need not agree.
TooFewRows == "INSUFFICIENT" \in stats.outcomes

Inconsistent ==
    \/ Cardinality({StatusOf(o) : o \in stats.outcomes}) > 1
    \/ "INSUFFICIENT" \in stats.outcomes

\* Mutants of Validity: an unusable host is asked about before a corrupted
\* trace; the controls are asked about without their budgets; the raw status is
\* not asked about.
ValidityHostFirst(status) ==
    IF plan.host \/ \E x \in seen : Filtered(Parse(x.trace)) THEN "environment-rejected"
    ELSE IF \E x \in seen : Corrupted(Parse(x.trace)) THEN "error"
    ELSE "insufficient-power"

ValidityUnpowered(status) ==
    IF \E x \in seen : Corrupted(Parse(x.trace)) THEN "error"
    ELSE IF plan.host \/ \E x \in seen : Filtered(Parse(x.trace)) THEN "environment-rejected"
    ELSE IF status = "INSUFFICIENT" \/ ~plan.official \/ ~Protocol THEN "insufficient-power"
    ELSE IF stats.aa > plan.aaMax \/ stats.placebo > 0 THEN "confounded"
    ELSE "valid"

ValidityOfControls(status) ==
    IF \E x \in seen : Corrupted(Parse(x.trace)) THEN "error"
    ELSE IF plan.host \/ \E x \in seen : Filtered(Parse(x.trace)) THEN "environment-rejected"
    ELSE IF ~plan.official \/ ~Protocol THEN "insufficient-power"
    ELSE IF stats.aa > plan.aaMax \/ stats.placebo > 0 THEN "confounded"
    ELSE "insufficient-power"

\* The score of questions of _set_timing_validity, in its order.
Validity(status) ==
    IF \E x \in seen : Corrupted(Parse(x.trace)) THEN "error"
    ELSE IF plan.host \/ \E x \in seen : Filtered(Parse(x.trace)) THEN "environment-rejected"
    ELSE IF status = "INSUFFICIENT" \/ ~plan.official \/ ~Protocol THEN "insufficient-power"
    ELSE IF \E x \in seen : ~x.trace.setup THEN "confounded"
    ELSE IF plan.repeats < 3 THEN "insufficient-power"
    ELSE IF stats.aa > plan.aaMax \/ stats.placebo > 0 THEN "confounded"
    ELSE IF stats.detected < plan.power \/ Inconsistent THEN "insufficient-power"
    ELSE IF \E x \in seen : x.part = "target" /\ ~x.trace.seeded THEN "confounded"
    ELSE IF plan.template = "kem" /\ \E x \in seen : ~x.trace.input THEN "error"
    ELSE "valid"

\* The repeat with the largest |t| speaks for all of them.  A repeat with too
\* few rows may have any |t|, an undefined one has the largest of all.
Winners ==
    LET order == <<"PASS", "WARNING", "FAIL">>
        beaten(o) == \E i, j \in 1 .. 3 : i < j /\ o = order[i] /\ order[j] \in stats.outcomes
    IN  {StatusOf(o) : o \in {w \in stats.outcomes : ~beaten(w)}}

Conclude ==
    /\ pc = "conclude"
    /\ \E status \in Winners : result' = [status |-> status, validity |-> Validity(status)]
    /\ pc' = "done"
    /\ UNCHANGED <<plan, published, seal, measurement>>

-----------------------------------------------------------------------------

Build == Abort \/ Render \/ Compile \/ CaptureSource \/ CaptureBinary \/ WriteSeal

Process ==
    \/ CheckBefore
    \/ Start
    \/ ProcessFails
    \/ \E t \in Traces : ProcessPrints(t)
    \/ Reject
    \/ AnalysisFails
    \/ \E f \in Findings : Account(f)

Next == RivalSource \/ RivalBinary \/ Build \/ Process \/ Conclude

Spec == Init /\ [][Next]_vars

-----------------------------------------------------------------------------
(* Properties                                                              *)

Builds == {Own} \cup Theirs

TypeOK ==
    /\ plan.template \in {"generic", "kem", "sign"}
    /\ pc \in {"render", "compile", "contract", "captureBinary", "writeSeal", "before",
               "start", "running", "after", "conclude", "done", "aborted"}
    /\ source \in Builds \cup {None} /\ binary \in Builds \cup {None}
    /\ rival \in 0 .. 2 * Len(plan.rivals)
    /\ seal \in [source : Builds \cup {None}, binary : Builds \cup {None}]
    /\ step \in 0 .. Repeats * Turns
    /\ proc.build \in Builds \cup {None} /\ (proc.trace = None \/ proc.trace \in Traces)
    /\ pc = "after" => proc.build # None /\ proc.trace # None
    /\ pc \in {"before", "start", "running", "after"} => step < Repeats * Turns
    /\ seen \subseteq [part : {"target", "other"}, build : Builds, trace : Traces]
    /\ stats.aa \in 0 .. Repeats /\ stats.placebo \in 0 .. Repeats
    /\ stats.detected \in 0 .. Repeats /\ stats.outcomes \subseteq Outcomes
    /\ result \in TimingResults \cup {NotMeasured}

Decided == result \notin {NotMeasured, [status |-> "ERROR", validity |-> "error"]}

\* No command publishes a build that has been replaced before: the seal names a
\* build by its contents.
NeverBack ==
    \A i, j \in 1 .. Len(plan.rivals) : plan.rivals[i] = plan.rivals[j] => i = j

\* Every row that reached a result came from the binary the seal names, however
\* the other commands replaced the files between two processes or during one.
\* Only contents that went and came back while a process started would pass.
MeasuredWhatWasSealed ==
    NeverBack => \A x \in seen : x.build = seal.binary

\* The process printed as many rows as it was asked for.
FullLength(t) == Printed(t) = Asked

\* Every row a process was asked for is there and has a number, and at most
\* one in a hundred was lost to the clock or to a migration.
Complete(t) ==
    LET lost == Asked - (t.good[0] + t.good[1])
    IN  FullLength(t) /\ t.broken = 0 /\ 100 * lost <= Asked

\* "valid" is said only of a harness of the pinned backend on an accepted host
\* that was repeated three times, with every trace of every role complete and
\* set up alike, the A/A alarms within their budget, no placebo alarm, the
\* largest effect found often enough and all repeats of one opinion.
ValidIsControlled ==
    result.validity = "valid" =>
        /\ Protocol /\ plan.official /\ ~plan.host /\ plan.repeats >= 3
        /\ stats.aa <= plan.aaMax /\ stats.placebo = 0 /\ stats.detected >= plan.power
        /\ \A o \in stats.outcomes : StatusOf(o) = result.status
        /\ \A x \in seen : Complete(x.trace) /\ x.trace.setup
        /\ \A x \in seen : x.part = "target" => x.trace.seeded
        /\ plan.template = "kem" => \A x \in seen : x.trace.input

\* A trace with rows missing or unreadable, of any role and at any repeat, makes
\* the result an error: no other question of the cascade can soften it.
CorruptionIsError ==
    Decided /\ (\E x \in seen : x.trace.broken > 0 \/ ~FullLength(x.trace))
        => result.validity = "error"

\* A repeat that failed cannot be cleared by the repeats that passed, neither by
\* the one that speaks for them nor in the matrix of the combined verdict.
FailedRepeatNeverClears ==
    "FAIL" \in stats.outcomes => Combine("PASS", DecisionStatus(result), "PASS") # "CLEAN"
        \/ result = NotMeasured
=============================================================================
