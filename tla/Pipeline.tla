------------------------------ MODULE Pipeline ------------------------------
(***************************************************************************)
(* The commands `ctkat run`, `ctkat ct` and `ctkat dudect` (ctkat/cli.py)  *)
(* over one configuration and one output directory.  `run` chains build,   *)
(* KAT, the Valgrind stage, the timing stage and the combined verdict;     *)
(* `ct` and `dudect` run one stage each with an exit rule of their own.    *)
(* The stages keep their results in memory until they write a report; the  *)
(* reports of earlier commands stay in the directory, and any command may  *)
(* be killed at any point.                                                 *)
(***************************************************************************)
EXTENDS Verdict

CONSTANTS
    N,              \* the number of harness names of the configuration
    Manual,         \* the ct harnesses that are prebuilt binaries
    Configs,        \* the configurations considered
    TimingOutcomes, \* the results the timing stage may reach for a harness
    None

Harnesses == 1..N      \* in the order the configuration lists them

\* A stage section is absent (None; also `dudect.enabled: false`) or lists
\* the harnesses of the stage.  sentinel is what ct.require_sentinel and the
\* groups of ct.sentinel_pattern ask of a prebuilt binary: nothing, that it
\* prints some sentinel, or one that names the harness.
Sentinels == {"off", "presence", "name"}

ConfigType ==
    [kat : BOOLEAN, ct : (SUBSET Harnesses) \cup {None},
     timing : (SUBSET Harnesses) \cup {None}, sentinel : Sentinels]

ASSUME PipelineAssumption ==
    /\ N \in Nat
    /\ Manual \subseteq Harnesses
    /\ Configs \subseteq ConfigType
    /\ TimingOutcomes \subseteq TimingResults

VARIABLES
    config,         \* the parsed ctkat.yaml
    cmd,            \* the command running, or run last
    forced,         \* --continue-on-kat-fail
    pc,             \* its next stage
    kat,            \* kat_status
    ct,             \* ct_results, "NONE" for a harness that has none
    clean,          \* history: the harnesses Valgrind really saw run clean
    tim,            \* dud_results, NotMeasured for a harness that has none
    todo,           \* the harnesses the stage's loop has still to visit
    csv,            \* ctkat_verdict.csv: its rows, and who wrote it
    findings,       \* the structural findings report
    timing,         \* the timing reports
    exit            \* the exit code, "" while the command runs

vars == <<config, cmd, forced, pc, kat, ct, clean, tim, todo, csv, findings,
          timing, exit>>
results == <<kat, ct, clean, tim>>
files   == <<csv, findings, timing>>

\* A file is absent, left by an earlier command, cut short or written by
\* this command.
FileStates == {"absent", "old", "torn", "current"}
Stages == {"build", "kat", "ct", "valgrind", "timing", "measure", "verdict"}
NoCsv == [state |-> "absent", rows |-> [h \in {} |-> "CLEAN"], kat |-> "NONE"]

CtNames     == IF config.ct = None THEN {} ELSE config.ct
TimingNames == IF config.timing = None THEN {} ELSE config.timing
Names       == CtNames \cup TimingNames
Staged      == config.ct # None \/ config.timing # None

\* The loops visit the harnesses in the order of the configuration.
IsNext(h) == h \in todo /\ \A g \in todo : h <= g

Init ==
    /\ config \in Configs
    /\ cmd = "none" /\ forced = FALSE /\ pc = "done"
    /\ kat = "NONE"
    /\ ct  = [h \in Harnesses |-> "NONE"]
    /\ clean = {}
    /\ tim = [h \in Harnesses |-> NotMeasured]
    /\ todo = {}
    /\ csv = NoCsv /\ findings = "absent" /\ timing = "absent"
    /\ exit = "0"

-----------------------------------------------------------------------------
(* Starting a command: nothing of an earlier command is removed.           *)

Aged(state) == IF state \in {"current", "torn"} THEN "old" ELSE state

Begin(c, first) ==
    /\ pc = "done"
    /\ cmd' = c
    /\ pc' = first
    /\ kat' = "NONE"
    /\ ct'  = [h \in Harnesses |-> "NONE"]
    /\ clean' = {}
    /\ tim' = [h \in Harnesses |-> NotMeasured]
    /\ todo' = {}
    /\ csv' = [csv EXCEPT !.state = Aged(@)]
    /\ findings' = Aged(findings)
    /\ timing' = Aged(timing)
    /\ exit' = ""
    /\ UNCHANGED config

BeginRun == \E f \in BOOLEAN : forced' = f /\ Begin("run", "build")

BeginCt == forced' = FALSE /\ Begin("ct", "ct")

BeginDudect == forced' = FALSE /\ Begin("dudect", "timing")

Finish(code) == pc' = "done" /\ exit' = code

Continue(next) == pc' = next /\ UNCHANGED exit

-----------------------------------------------------------------------------
(* build and KAT                                                           *)

BuildFails ==
    /\ pc = "build"
    /\ Finish("1")
    /\ UNCHANGED <<config, cmd, forced, results, todo, files>>

BuildPasses ==
    /\ pc = "build"
    /\ Continue("kat")
    /\ UNCHANGED <<config, cmd, forced, results, todo, files>>

\* A configuration without a kat section goes on with kat_status NONE.
SkipKat ==
    /\ pc = "kat" /\ ~config.kat
    /\ Continue("ct")
    /\ UNCHANGED <<config, cmd, forced, results, todo, files>>

RunKat ==
    /\ pc = "kat" /\ config.kat
    /\ \E status \in {"PASS", "FAIL"} :
          /\ kat' = status
          /\ IF status = "FAIL" /\ ~forced THEN Finish("1") ELSE Continue("ct")
    /\ UNCHANGED <<config, cmd, forced, ct, clean, tim, todo, files>>

-----------------------------------------------------------------------------
(* The Valgrind stage                                                      *)

SkipCt ==
    /\ pc = "ct" /\ cmd = "run" /\ config.ct = None
    /\ Continue("timing")
    /\ UNCHANGED <<config, cmd, forced, results, todo, files>>

\* An empty harness list is refused; the `ct` command needs the section.
RefuseCt ==
    /\ pc = "ct"
    /\ config.ct = {} \/ (cmd = "ct" /\ config.ct = None)
    /\ Finish("2")
    /\ UNCHANGED <<config, cmd, forced, results, todo, files>>

\* Generating the template harnesses: a missing compiler exits 2, a failed
\* compilation exits 1.
GenerateAborts ==
    /\ pc = "ct" /\ CtNames \ Manual # {}
    /\ \E code \in {"1", "2"} : Finish(code)
    /\ UNCHANGED <<config, cmd, forced, results, todo, files>>

Generate ==
    /\ pc = "ct" /\ CtNames # {}
    /\ Continue("valgrind")
    /\ todo' = CtNames
    /\ UNCHANGED <<config, cmd, forced, results, files>>

\* What a prebuilt binary printed: no sentinel, one of another harness, this one's.
Printed == {"none", "other", "this"}

\* A prebuilt binary has said that it ran the harness.
Announced(printed) ==
    CASE config.sentinel = "off"      -> TRUE
      [] config.sentinel = "presence" -> printed # "none"
      [] config.sentinel = "name"     -> printed = "this"

\* A mutant of CtStatus: it reports in the vocabulary of the verdict.
CtStatusAsVerdict(h, run, printed) ==
    IF h \in Manual /\ ~Announced(printed) THEN "INCONCLUSIVE"
    ELSE ClassifyValgrind(run)

\* The status of one harness.
CtStatus(h, run, printed) ==
    IF h \in Manual /\ ~Announced(printed) THEN "ERROR"
    ELSE ClassifyValgrind(run)

\* What a PASS stands for: Valgrind ended well, its log is there and holds no
\* finding, and a manual binary printed the sentinel the configuration asks for.
CleanRun(h, run, printed) ==
    /\ run = [rc |-> "0", log |-> "text", findings |-> FALSE]
    /\ h \in Manual /\ config.sentinel # "off" => printed # "none"
    /\ h \in Manual /\ config.sentinel = "name" => printed # "other"

CheckHarness(h) ==
    /\ pc = "valgrind" /\ IsNext(h)
    /\ \E run \in ValgrindRuns, printed \in Printed :
          /\ ct' = [ct EXCEPT ![h] = CtStatus(h, run, printed)]
          /\ clean' = IF CleanRun(h, run, printed) THEN clean \cup {h} ELSE clean
    /\ todo' = todo \ {h}
    /\ UNCHANGED <<config, cmd, forced, pc, kat, tim, files, exit>>

CtExit ==
    IF \E h \in CtNames : ct[h] \in {"FAIL", "ERROR"} THEN "2" ELSE "0"

\* A mutant of EmitFindings: no report when there is nothing to list.
EmitFindingsIfAny ==
    /\ pc = "valgrind" /\ todo = {}
    /\ findings' = IF \E h \in CtNames : ct[h] = "FAIL" THEN "current" ELSE findings
    /\ IF cmd = "run" THEN Continue("timing") ELSE Finish(CtExit)
    /\ UNCHANGED <<config, cmd, forced, results, todo, csv, timing>>

EmitFindings ==
    /\ pc = "valgrind" /\ todo = {}
    /\ findings' = "current"
    /\ IF cmd = "run" THEN Continue("timing") ELSE Finish(CtExit)
    /\ UNCHANGED <<config, cmd, forced, results, todo, csv, timing>>

-----------------------------------------------------------------------------
(* The timing stage                                                        *)

SkipTiming ==
    /\ pc = "timing" /\ cmd = "run" /\ config.timing = None
    /\ Continue("verdict")
    /\ UNCHANGED <<config, cmd, forced, results, todo, files>>

\* `run` refuses an empty list before the stage, `dudect` a missing section.
RefuseTiming ==
    /\ pc = "timing"
    /\ \/ cmd = "run" /\ config.timing = {}
       \/ cmd = "dudect" /\ config.timing = None
    /\ Finish("2")
    /\ UNCHANGED <<config, cmd, forced, results, todo, files>>

\* The official backend's adapter may be unavailable, before any harness.
PrepareTiming ==
    /\ pc = "timing" /\ config.timing # None
    /\ cmd = "run" => config.timing # {}
    /\ \/ Continue("measure") /\ todo' = config.timing
       \/ Finish("2") /\ UNCHANGED todo
    /\ UNCHANGED <<config, cmd, forced, results, files>>

MeasureHarness(h) ==
    /\ pc = "measure" /\ IsNext(h)
    /\ \E r \in TimingOutcomes : tim' = [tim EXCEPT ![h] = r]
    /\ todo' = todo \ {h}
    /\ UNCHANGED <<config, cmd, forced, pc, kat, ct, clean, files, exit>>

\* A harness that cannot be generated, sealed or matched to its binary
\* contract ends the whole command: the results of the harnesses measured
\* before it are not reported.
MeasureAborts ==
    /\ pc = "measure" /\ todo # {}
    /\ \E code \in {"1", "2"} : Finish(code)
    /\ UNCHANGED <<config, cmd, forced, results, todo, files>>

\* The exit rule of `dudect`: an ERROR, a result that is not valid, a FAIL
\* and a WARNING are four ways not to pass, and no harness is the fifth.
TimingExit ==
    IF \/ TimingNames = {}
       \/ \E h \in TimingNames :
             tim[h].validity # "valid" \/ tim[h].status \in {"ERROR", "FAIL", "WARNING"}
    THEN "2" ELSE "0"

EmitTiming ==
    /\ pc = "measure" /\ todo = {}
    /\ timing' = "current"
    /\ IF cmd = "run" THEN Continue("verdict") ELSE Finish(TimingExit)
    /\ UNCHANGED <<config, cmd, forced, results, todo, csv, findings>>

-----------------------------------------------------------------------------
(* The combined verdict                                                    *)

\* The pair the matrix is asked with for a harness.
Pair(h) == <<ct[h], DecisionStatus(tim[h])>>

VerdictOf(h) == Combine(ct[h], DecisionStatus(tim[h]), kat)

\* A mutant of Judged: only the harnesses of both stages get a row.
JudgedByBoth == CtNames \cap TimingNames

\* The rows of _compute_verdicts: the harnesses of the ct stage, then the other ones.
Judged == IF Staged THEN Names ELSE {}

Row(h) == IF h \in CtNames THEN h ELSE h + N

\* What a write of the rows can leave when it is cut short.
Prefixes == {S \in SUBSET Judged :
                \A h \in S, g \in Judged : Row(g) < Row(h) => g \in S}

VerdictFile(state, S) == [state |-> state, rows |-> [h \in S |-> VerdictOf(h)], kat |-> kat]

\* A mutant of RunExit: an incomplete analysis does not gate.
RunExitIgnoringInconclusive ==
    IF \/ \E h \in CtNames : ct[h] = "FAIL"
       \/ \E h \in TimingNames : tim[h].status \in {"FAIL", "WARNING"}
    THEN "2" ELSE "0"

\* The exit rule of `run`.
RunExit ==
    IF \/ \E h \in CtNames : ct[h] = "FAIL"
       \/ \E h \in TimingNames : tim[h].status \in {"FAIL", "WARNING"}
       \/ \E h \in Judged : VerdictOf(h) = "INCONCLUSIVE"
    THEN "2" ELSE "0"

Conclude ==
    /\ pc = "verdict"
    /\ csv' = IF Judged = {} THEN csv ELSE VerdictFile("current", Judged)
    /\ Finish(RunExit)
    /\ UNCHANGED <<config, cmd, forced, results, todo, findings, timing>>

-----------------------------------------------------------------------------
(* Killing a command, between two steps or while it writes a report        *)

Kill ==
    /\ pc # "done"
    /\ Finish("killed")
    /\ UNCHANGED <<config, cmd, forced, results, todo, files>>

KillWriting ==
    /\ \/ /\ pc = "valgrind" /\ todo = {}
          /\ findings' = "torn" /\ UNCHANGED <<csv, timing>>
       \/ /\ pc = "measure" /\ todo = {}
          /\ timing' = "torn" /\ UNCHANGED <<csv, findings>>
       \/ /\ pc = "verdict" /\ Judged # {}
          /\ \E S \in Prefixes : csv' = VerdictFile("torn", S)
          /\ UNCHANGED <<findings, timing>>
    /\ Finish("killed")
    /\ UNCHANGED <<config, cmd, forced, results, todo>>

Next ==
    \/ BeginRun \/ BeginCt \/ BeginDudect
    \/ BuildFails \/ BuildPasses \/ SkipKat \/ RunKat
    \/ SkipCt \/ RefuseCt \/ GenerateAborts \/ Generate
    \/ \E h \in Harnesses : CheckHarness(h)
    \/ EmitFindings
    \/ SkipTiming \/ RefuseTiming \/ PrepareTiming
    \/ \E h \in Harnesses : MeasureHarness(h)
    \/ MeasureAborts \/ EmitTiming
    \/ Conclude
    \/ Kill \/ KillWriting

Spec == Init /\ [][Next]_vars

-----------------------------------------------------------------------------
(* Properties                                                              *)

TypeOK ==
    /\ config \in Configs
    /\ cmd \in {"none", "run", "ct", "dudect"}
    /\ forced \in BOOLEAN
    /\ pc \in Stages \cup {"done"}
    /\ kat \in KatStatuses
    /\ ct \in [Harnesses -> CtStatuses]
    /\ clean \subseteq Harnesses
    /\ tim \in [Harnesses -> TimingOutcomes \cup {NotMeasured}]
    /\ todo \subseteq Harnesses
    /\ csv = [state |-> csv.state, rows |-> csv.rows, kat |-> csv.kat]
    /\ csv.state \in FileStates
    /\ csv.kat \in KatStatuses
    /\ DOMAIN csv.rows \subseteq Harnesses
    /\ \A h \in DOMAIN csv.rows : csv.rows[h] \in Verdicts
    /\ findings \in FileStates
    /\ timing \in FileStates
    /\ exit \in {"", "0", "1", "2", "killed"}

\* The rows of ctkat_verdict.csv were written by the command that ran last.
Fresh == csv.state \in {"current", "torn"}

\* A CLEAN row of the last run is backed by every stage the harness is
\* configured for: the KAT did not fail, Valgrind completed without a
\* finding, the timing result passed and is interpretable, and at least one
\* of the two stages looked at the harness.  Also when the run was killed
\* half way through the file.
CleanRowsAreBacked ==
    Fresh =>
        \A h \in DOMAIN csv.rows :
            csv.rows[h] = "CLEAN" =>
                /\ kat # "FAIL"
                /\ h \in Names
                /\ h \in CtNames => h \in clean
                /\ h \in TimingNames => tim[h] = [status |-> "PASS", validity |-> "valid"]

\* `ctkat run` exits 0 only behind a complete verdict file of its own: with a
\* stage configured, it has a row for every configured harness, all CLEAN.
ExitZeroIsAllClean ==
    (pc = "done" /\ cmd = "run" /\ exit = "0" /\ Staged) =>
        /\ csv.state = "current"
        /\ DOMAIN csv.rows = Names
        /\ \A h \in Names : csv.rows[h] = "CLEAN"

\* The two ways to gate agree (cli.py, "keep both paths in sync"): a run
\* that reached its verdict exits 0 exactly when `ct` and `dudect` would
\* exit 0 on the same results and the KAT did not fail.
GatesAgree ==
    (pc = "done" /\ cmd = "run" /\ csv.state = "current") =>
        (exit = "0" <=>
            /\ kat # "FAIL"
            /\ config.ct # None => CtExit = "0"
            /\ config.timing # None => TimingExit = "0")

\* The matrix raises on a pair it does not know; the verdict stage never
\* asks it with one, whatever the two stages reported.
MatrixIsTotal ==
    pc = "verdict" => \A h \in Judged : kat = "FAIL" \/ Pair(h) \in MatrixKeys

\* The verdict file is written last: when its rows are this command's, so
\* are the reports of the stages they summarise.
VerdictComesLast ==
    Fresh => /\ config.ct # None => findings = "current"
             /\ config.timing # None => timing = "current"

\* README: a run forced past a failed KAT is INCONCLUSIVE and gates.  A
\* configuration with neither ct nor dudect has no verdict to carry it.
KatFailGates ==
    (pc = "done" /\ cmd = "run" /\ kat = "FAIL") => exit # "0"

\* cli.py: "the ERROR flows through _compute_verdicts -> INCONCLUSIVE so the
\* verdict CSV reflects "couldn't verify"".  A run that ends before its
\* verdict leaves the rows of an earlier one.
ErrorReachesTheCsv ==
    (pc = "done" /\ cmd = "run" /\ exit # "killed") =>
        \A h \in DOMAIN csv.rows :
            (ct[h] = "ERROR" \/ tim[h].status = "ERROR") => csv.rows[h] # "CLEAN"
=============================================================================
