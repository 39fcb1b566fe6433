------------------------------- MODULE Screen -------------------------------
(***************************************************************************)
(* `ctkat screen` (ctkat/cli.py): build, KAT, Valgrind on the primary      *)
(* build, the compiler matrix, the asm scan, timing and the evidence-v2    *)
(* summary, whose fold decides the exit code.                              *)
(*                                                                         *)
(* A key names a harness, a compiler and an optimisation level.  A         *)
(* measurement m is a record of what the stages left in memory: ct (the    *)
(* primary runs), rows (the matrix), ok (the compilers whose asm scan went *)
(* through), cands (the keys where a division was found) and timing.       *)
(***************************************************************************)
EXTENDS Evidence, Verdict

CONSTANTS
    Plans,          \* the configurations considered
    TimingOutcomes, \* the results the timing stage may reach for a harness
    Gcc,            \* the compiler of the primary build
    DefaultOpts     \* the -O levels every asm scan covers

\* Configuration and options name at least one compiler for the matrix and for
\* the scan, and one level; a harness is a template or a binary.  base[h] is the
\* -O level of the primary build of h, of its own cflags or of ct.cflags.
ASSUME ScreenConstants ==
    /\ \A p \in Plans :
          /\ p.templates \cap p.manuals = {}
          /\ p.matrixCCs # {} /\ p.asmCCs # {} /\ p.opts # {}
          /\ p.triage \in [p.templates \cup p.manuals \cup p.timed -> Triages \cup {None}]
    /\ TimingOutcomes \subseteq TimingResults
    /\ None \notin Triages /\ None \notin VerdictClasses

VARIABLES
    plan,           \* ctkat.yaml, triage.yaml and the options
    pc,             \* the next stage
    kat,            \* kat_status
    m,              \* the measurement so far
    summary,        \* screen_summary: the overall state of each harness, or None
    exit            \* the exit code, "" while the command runs

vars == <<plan, pc, kat, m, summary, exit>>

\* A plan's harnesses: the templates with sources, the other ct harnesses,
\* and those of dudect, which has `enabled`.  triage[h] is None for a harness
\* that triage.yaml does not mention.
CtHarnesses == plan.templates \cup plan.manuals
Harnesses   == CtHarnesses \cup plan.timed

MatrixCells == [h : plan.templates, cc : plan.matrixCCs, opt : plan.opts]
AsmOpts(h)  == {plan.base[h]} \cup DefaultOpts \cup plan.opts
AsmKeys     == UNION {[h : {h}, cc : plan.asmCCs, opt : AsmOpts(h)] : h \in plan.templates}

\* One Valgrind run, as ClassifyValgrind judges it.
CtOutcomes ==
    {[status |-> "PASS", funcs |-> "none"], [status |-> "ERROR", funcs |-> "none"]}
        \cup [status : {"FAIL"}, funcs : FuncClasses]

Nothing == [x \in {} |-> None]

Init ==
    /\ plan \in Plans
    /\ pc = "preflight"
    /\ kat = "NONE"
    /\ m = [ct |-> Nothing, rows |-> Nothing, ok |-> {}, cands |-> {}, timing |-> Nothing]
    /\ summary = None
    /\ exit = ""

-----------------------------------------------------------------------------
(* The stages                                                              *)

Finish(code) == pc' = "done" /\ exit' = code

Continue(next) == pc' = next /\ UNCHANGED exit

\* A plan without a ct harness, or without one of the tools its stages need.
Refuse ==
    /\ pc = "preflight"
    /\ Finish("2")
    /\ UNCHANGED <<plan, kat, m, summary>>

Preflight ==
    /\ pc = "preflight" /\ CtHarnesses # {}
    /\ Continue("build")
    /\ UNCHANGED <<plan, kat, m, summary>>

Build ==
    /\ pc = "build"
    /\ Finish("1") \/ Continue("kat")
    /\ UNCHANGED <<plan, kat, m, summary>>

Kat ==
    /\ pc = "kat"
    /\ kat' \in IF plan.kat THEN {"PASS", "FAIL"} ELSE {"NONE"}
    /\ IF kat' = "FAIL" /\ ~plan.forced THEN Finish("1") ELSE Continue("generate")
    /\ UNCHANGED <<plan, m, summary>>

\* Harness generation may abort, with 1 for a failed build of a harness and
\* 2 for a missing compiler.
Generate ==
    /\ pc = "generate"
    /\ \/ plan.templates # {} /\ \E code \in {"1", "2"} : Finish(code)
       \/ Continue("ct")
    /\ UNCHANGED <<plan, kat, m, summary>>

Ct ==
    /\ pc = "ct"
    /\ \E results \in [CtHarnesses -> CtOutcomes] : m' = [m EXCEPT !.ct = results]
    /\ Continue("matrix")
    /\ UNCHANGED <<plan, kat, summary>>

\* A cell that does not build is a row of its own: the sweep never stops.
CtMatrix ==
    /\ pc = "matrix"
    /\ \E rows \in [MatrixCells -> CtOutcomes] : m' = [m EXCEPT !.rows = rows]
    /\ Continue("asm")
    /\ UNCHANGED <<plan, kat, summary>>

\* Its templates are rendered anew, and one that cannot be ends the command.
MatrixAborts ==
    /\ pc = "matrix" /\ plan.templates # {}
    /\ Finish("1")
    /\ UNCHANGED <<plan, kat, m, summary>>

\* A mutant of ScannedKeys: what a compiler found before its scan failed stays.
TouchedKeys(ok) == AsmKeys

\* A scan that fails for one harness fails its compiler for all of them, and
\* what it had found by then is dropped.
ScannedKeys(ok) == {k \in AsmKeys : k.cc \in ok}

AsmScan ==
    /\ pc = "asm"
    /\ \E ok \in SUBSET (IF plan.templates = {} THEN {} ELSE plan.asmCCs) :
          \E cands \in SUBSET ScannedKeys(ok) :
             m' = [m EXCEPT !.ok = ok, !.cands = cands]
    /\ Continue("timing")
    /\ UNCHANGED <<plan, kat, summary>>

TimingRuns == plan.dudect /\ plan.timed # {}

SkipTiming ==
    /\ pc = "timing" /\ ~TimingRuns
    /\ Continue("summary")
    /\ UNCHANGED <<plan, kat, m, summary>>

\* A harness that cannot be prepared ends the command before any report.
TimingAborts ==
    /\ pc = "timing" /\ TimingRuns
    /\ \E code \in {"1", "2"} : Finish(code)
    /\ UNCHANGED <<plan, kat, m, summary>>

MeasureTiming ==
    /\ pc = "timing" /\ TimingRuns
    /\ \E results \in [plan.timed -> TimingOutcomes] :
          m' = [m EXCEPT !.timing = results]
    /\ Continue("summary")
    /\ UNCHANGED <<plan, kat, summary>>

-----------------------------------------------------------------------------
(* The cells of a harness under a measurement                              *)

\* A mutant of AsmStatus: a failed scan counts as one never asked for.
AsmStatusOfScanned(cc, mm) == IF cc \in mm.ok THEN "PASS" ELSE "NOT_RUN"

AsmStatus(cc, mm) ==
    IF cc \in mm.ok THEN "PASS"
    ELSE IF cc \in plan.asmCCs THEN "ERROR" ELSE "NOT_RUN"

Cell(h, cc, opt, outcome, asm, mm) ==
    [ct |-> outcome.status, funcs |-> outcome.funcs, asm |-> asm,
     div |-> [h |-> h, cc |-> cc, opt |-> opt] \in mm.cands]

OfMatrix(h, mm) ==
    {Cell(h, k.cc, k.opt, mm.rows[k], AsmStatus(k.cc, mm), mm) :
        k \in {x \in DOMAIN mm.rows : x.h = h}}

\* Asm coverage wider than the matrix makes no structural claim.
OfAsmOnly(h, mm) ==
    {Cell(h, k.cc, k.opt, [status |-> "NA", funcs |-> "none"], AsmStatus(k.cc, mm), mm) :
        k \in {x \in AsmKeys : x.h = h /\ x \notin DOMAIN mm.rows}}

\* The primary run has a cell that finds no division.  A manual binary has
\* no source to scan.
PrimaryCell(h, mm) ==
    [ct |-> mm.ct[h].status, funcs |-> mm.ct[h].funcs,
     asm |-> IF h \in plan.templates THEN AsmStatus(Gcc, mm) ELSE "NOT_RUN",
     div |-> FALSE]

\* A passing primary run is left out beside matrix rows.
OfPrimary(h, mm) ==
    IF \/ h \notin CtHarnesses
       \/ h \in plan.templates /\ mm.ct[h].status = "PASS" /\ mm.rows # Nothing
    THEN {} ELSE {PrimaryCell(h, mm)}

Cells(h, mm) == OfMatrix(h, mm) \cup OfAsmOnly(h, mm) \cup OfPrimary(h, mm)

TimingOf(h, mm) == IF h \in DOMAIN mm.timing THEN mm.timing[h] ELSE NotMeasured

Correctness(status) ==
    IF status = "PASS" THEN "pass" ELSE IF status = "FAIL" THEN "fail" ELSE "not-run"

EvidenceFrom(h, cells, mm) ==
    EvidenceOf(Correctness(kat), cells, TimingOf(h, mm), plan.triage[h])

Rating(h, mm) == Fold(EvidenceFrom(h, Cells(h, mm), mm))

\* The summary of h raises, and screen with it.
Raises(h, mm) ==
    LET cells == Cells(h, mm)
        class == Class(cells, plan.triage[h])
    IN  ReviewRefused(class, Basis(class, cells, plan.triage[h]),
                      EvidenceFrom(h, cells, mm).attribution, plan.triage[h])

SummaryRaises ==
    /\ pc = "summary"
    /\ \E h \in Harnesses : Raises(h, m)
    /\ Finish("1")
    /\ UNCHANGED <<plan, kat, m, summary>>

Summarize ==
    /\ pc = "summary"
    /\ \A h \in Harnesses : ~Raises(h, m)
    /\ summary' = [h \in Harnesses |-> Rating(h, m)]
    /\ Finish(IF kat # "FAIL" /\ \A h \in Harnesses : summary'[h] = "no-finding-observed"
              THEN "0" ELSE "2")
    /\ UNCHANGED <<plan, kat, m>>

Next ==
    \/ Refuse \/ Preflight \/ Build \/ Kat \/ Generate \/ Ct \/ CtMatrix \/ MatrixAborts
    \/ AsmScan
    \/ SkipTiming \/ TimingAborts \/ MeasureTiming \/ SummaryRaises \/ Summarize

Spec == Init /\ [][Next]_vars

-----------------------------------------------------------------------------
(* Properties                                                              *)

\* The variables have their types; a division is only known where a scan went
\* through (candidates of a failed compiler are not kept), and the summary
\* rates every harness.
TypeOK ==
    /\ plan \in Plans
    /\ pc \in {"preflight", "build", "kat", "generate", "ct", "matrix", "asm", "timing",
               "summary", "done"}
    /\ kat \in KatStatuses
    /\ m.ct = Nothing \/ m.ct \in [CtHarnesses -> CtOutcomes]
    /\ m.rows = Nothing \/ m.rows \in [MatrixCells -> CtOutcomes]
    /\ m.ok \subseteq plan.asmCCs
    /\ m.cands \subseteq AsmKeys /\ \A k \in m.cands : k.cc \in m.ok
    /\ m.timing = Nothing \/ m.timing \in [plan.timed -> TimingOutcomes]
    /\ summary = None \/ summary \in [Harnesses -> Overalls]
    /\ exit \in {"", "0", "1", "2"}

Reviewed(h) == plan.triage[h] # None /\ plan.triage[h].review = "reviewed"

\* A leak-free run, or a finding a reviewer has accepted: either the registry
\* knows every leak site (a finding without a frame names none) or the triage
\* entry says so.
Accounted(h, outcome) ==
    \/ outcome.status = "PASS"
    \/ outcome.status = "FAIL" /\ Reviewed(h)
       /\ (outcome.funcs # "other" \/ plan.triage[h].verdict = "accepted-variable-time")

\* Exit 0 (cli.py's default-deny) stands for a complete measurement: the KAT
\* passed; every primary and every matrix run passed or is an accepted finding;
\* every compiler of the matrix and of the scan was scanned for a template, and
\* a binary without sources has been reviewed; a division has been attributed
\* to public data by a reviewer; the timing that ran is valid and quiet.
ClearedMeansMeasured ==
    exit = "0" =>
        /\ kat = "PASS"
        /\ \A h \in CtHarnesses : Accounted(h, m.ct[h])
        /\ \A k \in MatrixCells : Accounted(k.h, m.rows[k])
        /\ plan.templates # {} => (plan.matrixCCs \subseteq m.ok /\ plan.asmCCs = m.ok)
        /\ \A h \in plan.manuals : Reviewed(h)
        /\ \A k \in m.cands : Reviewed(k.h) /\ plan.triage[k.h].varlat = "public"
        /\ \A h \in DOMAIN m.timing : m.timing[h] = [status |-> "PASS", validity |-> "valid"]

\* Builds of one harness that disagree, or a valid timing signal.
ConfirmedRisk(h) ==
    \/ TimingOf(h, m) = [status |-> "FAIL", validity |-> "valid"]
    \/ /\ plan.triage[h] = None \/ plan.triage[h].verdict = None
       /\ {"PASS", "FAIL"} \subseteq StatusesOf(Cells(h, m))

\* A confirmed risk is never hidden by an unrelated tool failure, a review or
\* an incomplete build: unless the artifact fails its KAT it is the rating.
RiskNotHidden ==
    summary # None /\ kat # "FAIL" =>
        \A h \in Harnesses : ConfirmedRisk(h) => summary[h] = "risk-detected"

\* The measurements that differ from mm in one worse outcome: a run that breaks
\* or leaks at a site the registry does not know, a compiler whose scan breaks,
\* one more division.  (A leak at registered sites is a class of its own.)
WorseOutcomes == {[status |-> "ERROR", funcs |-> "none"], [status |-> "FAIL", funcs |-> "other"]}

WorsePrimary(mm) ==
    {[mm EXCEPT !.ct[h] = o] :
        h \in {x \in CtHarnesses : mm.ct[x].status = "PASS"}, o \in WorseOutcomes}

WorseBuild(mm) ==
    {[mm EXCEPT !.rows[k] = o] :
        k \in {x \in MatrixCells : mm.rows[x].status = "PASS"}, o \in WorseOutcomes}

WorseScan(mm) ==
    {[mm EXCEPT !.ok = @ \ {cc}, !.cands = {k \in @ : k.cc # cc}] : cc \in mm.ok}

MoreDivisions(mm) == {[mm EXCEPT !.cands = @ \cup {k}] : k \in ScannedKeys(mm.ok)}

Worse(mm) == WorsePrimary(mm) \cup WorseBuild(mm) \cup WorseScan(mm) \cup MoreDivisions(mm)

\* Classification, review and fold are monotone as a whole: no worse outcome
\* clears a harness that the better outcome left uncleared.
WorseNeverClears ==
    pc = "summary" =>
        \A h \in {x \in Harnesses : ~Raises(x, m)} :
            Rating(h, m) # "no-finding-observed" =>
                \A mm \in Worse(m) :
                    Raises(h, mm) \/ Rating(h, mm) # "no-finding-observed"

\* The record the summary builds from cells, timing and triage is never one
\* EvidenceV2 refuses: the only failure of the summary is the review request.
EvidenceIsConsistent ==
    pc = "summary" =>
        \A h \in Harnesses :
            ~Raises(h, m) => Consistent(EvidenceFrom(h, Cells(h, m), m), plan.triage[h])

\* The command's documentation (cli.py:3402-3404) gives 1 to a build or KAT
\* hard failure and 2 to everything else that is not cleared: a screen that has
\* measured everything ends with 0 or 2 and a summary.
MeasuredIsReported ==
    pc = "done" /\ m.rows # Nothing /\ (TimingRuns => m.timing # Nothing)
        => exit \in {"0", "2"} /\ summary # None

\* The comment on the cell that is left out (cli.py:3588): a successful primary
\* run is redundant with its matrix cells, so with its cell a cleared harness
\* would still be cleared.
PrimaryIsRedundant ==
    exit = "0" =>
        \A h \in CtHarnesses :
            summary[h] = Fold(EvidenceFrom(h, Cells(h, m) \cup {PrimaryCell(h, m)}, m))
=============================================================================
