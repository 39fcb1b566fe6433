---------------------------- MODULE ScreenProofs ----------------------------
(***************************************************************************)
(* What `ctkat screen` may say, for every set of harnesses, compilers and  *)
(* levels, every triage entry and every outcome of every stage.            *)
(***************************************************************************)
EXTENDS Screen, TLAPS

\* What the stages have left behind, and how the summary was made of it.
Measured ==
    /\ m.ct \in [CtHarnesses -> CtOutcomes]
    /\ m.rows \in [MatrixCells -> CtOutcomes]

Reported ==
    /\ Measured
    /\ summary = [h \in Harnesses |-> Rating(h, m)]
    /\ \A h \in Harnesses : ~Raises(h, m)
    /\ exit = "0" =>
           kat # "FAIL" /\ \A h \in Harnesses : Rating(h, m) = "no-finding-observed"

Stages ==
    /\ m = [ct |-> m.ct, rows |-> m.rows, ok |-> m.ok, cands |-> m.cands, timing |-> m.timing]
    /\ pc \in {"matrix", "asm", "timing", "summary"} => m.ct \in [CtHarnesses -> CtOutcomes]
    /\ pc \in {"asm", "timing", "summary"} => m.rows \in [MatrixCells -> CtOutcomes]
    /\ pc # "done" => summary = None /\ exit = ""
    /\ exit = "0" \/ summary # None => Reported
    /\ (pc \in {"preflight", "done"} /\ exit # "0") \/ CtHarnesses # {}

IInv == TypeOK /\ Stages

LEMMA RatingType == \A h, mm : Rating(h, mm) \in Overalls
BY DEF Rating, Fold, Overalls

LEMMA InitIInv == Init => IInv
<1> SUFFICES ASSUME Init PROVE IInv
  OBVIOUS
<1>1. m = [ct |-> Nothing, rows |-> Nothing, ok |-> {}, cands |-> {}, timing |-> Nothing]
  BY DEF Init
<1>2. TypeOK
  <2>1. m.ct = Nothing /\ m.rows = Nothing /\ m.ok = {} /\ m.cands = {} /\ m.timing = Nothing
    BY <1>1
  <2>2. plan \in Plans /\ pc = "preflight" /\ kat = "NONE" /\ summary = None /\ exit = ""
    BY DEF Init
  <2> QED BY <2>1, <2>2 DEF TypeOK, KatStatuses
<1>3. m = [ct |-> m.ct, rows |-> m.rows, ok |-> m.ok, cands |-> m.cands, timing |-> m.timing]
  BY <1>1
<1>4. Stages
  BY <1>3 DEF Init, Stages
<1> QED BY <1>2, <1>4 DEF IInv

\* Nothing a stage leaves alone changes what is derived from it.
LEMMA SamePlan ==
    ASSUME plan' = plan
    PROVE  /\ CtHarnesses' = CtHarnesses /\ Harnesses' = Harnesses
           /\ MatrixCells' = MatrixCells /\ AsmKeys' = AsmKeys
           /\ TimingRuns' = TimingRuns /\ \A ok : ScannedKeys(ok)' = ScannedKeys(ok)
BY DEF CtHarnesses, Harnesses, MatrixCells, AsmKeys, AsmOpts, TimingRuns, ScannedKeys

\* A stage that finishes without a summary, or continues without measuring.
LEMMA QuietStep ==
    ASSUME IInv, UNCHANGED <<plan, m, summary>>, kat' \in KatStatuses,
           pc # "done", pc = "preflight" /\ pc' # "done" => CtHarnesses # {},
           \/ pc' = "done" /\ exit' \in {"1", "2"}
           \/ /\ exit' = exit
              /\ <<pc, pc'>> \in {<<"preflight", "build">>, <<"build", "kat">>, <<"kat", "generate">>,
                                  <<"generate", "ct">>, <<"timing", "summary">>}
    PROVE  IInv'
<1>1. TypeOK'
  BY SamePlan DEF IInv, TypeOK
<1>2. pc' \in {"done", "build", "kat", "generate", "ct", "summary"}
      /\ (pc' = "summary" => pc = "timing") /\ summary' = None /\ exit' # "0"
      /\ (pc' # "done" => exit' = "")
  BY DEF IInv, Stages
<1>3. Stages'
  BY <1>2, SamePlan DEF IInv, Stages
<1> QED BY <1>1, <1>3 DEF IInv

\* A stage that measures, and leaves the rest of the measurement.
LEMMA CtStep ==
    ASSUME IInv, Ct
    PROVE  IInv'
<1>1. PICK results \in [CtHarnesses -> CtOutcomes] : m' = [m EXCEPT !.ct = results]
  BY DEF Ct
<1>2. m' = [ct |-> results, rows |-> m.rows, ok |-> m.ok, cands |-> m.cands, timing |-> m.timing]
  BY <1>1 DEF IInv, Stages
<1>3. UNCHANGED <<plan, kat, summary, exit>> /\ pc = "ct" /\ pc' = "matrix"
  BY DEF Ct, Continue
<1>4. TypeOK'
  BY <1>2, <1>3, SamePlan DEF IInv, TypeOK
<1>5. Stages'
  BY <1>2, <1>3, SamePlan DEF IInv, Stages
<1> QED BY <1>4, <1>5 DEF IInv

LEMMA MatrixStep ==
    ASSUME IInv, CtMatrix
    PROVE  IInv'
<1>1. PICK rows \in [MatrixCells -> CtOutcomes] : m' = [m EXCEPT !.rows = rows]
  BY DEF CtMatrix
<1>2. m' = [ct |-> m.ct, rows |-> rows, ok |-> m.ok, cands |-> m.cands, timing |-> m.timing]
  BY <1>1 DEF IInv, Stages
<1>3. UNCHANGED <<plan, kat, summary, exit>> /\ pc = "matrix" /\ pc' = "asm"
  BY DEF CtMatrix, Continue
<1>4. TypeOK'
  BY <1>2, <1>3, SamePlan DEF IInv, TypeOK
<1>5. Stages'
  BY <1>2, <1>3, SamePlan DEF IInv, Stages
<1> QED BY <1>4, <1>5 DEF IInv

LEMMA AsmStep ==
    ASSUME IInv, AsmScan
    PROVE  IInv'
<1>1. PICK ok \in SUBSET (IF plan.templates = {} THEN {} ELSE plan.asmCCs) :
          \E cands \in SUBSET ScannedKeys(ok) : m' = [m EXCEPT !.ok = ok, !.cands = cands]
  BY DEF AsmScan
<1>2. PICK cands \in SUBSET ScannedKeys(ok) : m' = [m EXCEPT !.ok = ok, !.cands = cands]
  BY <1>1
<1>3. m' = [ct |-> m.ct, rows |-> m.rows, ok |-> ok, cands |-> cands, timing |-> m.timing]
  BY <1>2 DEF IInv, Stages
<1>4. UNCHANGED <<plan, kat, summary, exit>> /\ pc = "asm" /\ pc' = "timing"
  BY DEF AsmScan, Continue
<1>5. ok \subseteq plan.asmCCs /\ cands \subseteq AsmKeys /\ \A k \in cands : k.cc \in ok
  BY <1>1, <1>2 DEF ScannedKeys
<1>6. TypeOK'
  BY <1>3, <1>4, <1>5, SamePlan DEF IInv, TypeOK
<1>7. Stages'
  BY <1>3, <1>4, SamePlan DEF IInv, Stages
<1> QED BY <1>6, <1>7 DEF IInv

LEMMA TimingStep ==
    ASSUME IInv, MeasureTiming
    PROVE  IInv'
<1>1. PICK results \in [plan.timed -> TimingOutcomes] : m' = [m EXCEPT !.timing = results]
  BY DEF MeasureTiming
<1>2. m' = [ct |-> m.ct, rows |-> m.rows, ok |-> m.ok, cands |-> m.cands, timing |-> results]
  BY <1>1 DEF IInv, Stages
<1>3. UNCHANGED <<plan, kat, summary, exit>> /\ pc = "timing" /\ pc' = "summary"
  BY DEF MeasureTiming, Continue
<1>4. TypeOK'
  BY <1>2, <1>3, SamePlan DEF IInv, TypeOK
<1>5. Stages'
  BY <1>2, <1>3, SamePlan DEF IInv, Stages
<1> QED BY <1>4, <1>5 DEF IInv

\* The cells and the rating are made of the plan, the KAT and the measurement.
LEMMA SameRating ==
    ASSUME plan' = plan, kat' = kat, m' = m
    PROVE  /\ \A h : Rating(h, m)' = Rating(h, m) /\ Raises(h, m)' = Raises(h, m)
           /\ Measured' = Measured
<1>1. \A h, mm : Cells(h, mm)' = Cells(h, mm)
  BY SamePlan DEF Cells, OfMatrix, OfAsmOnly, OfPrimary, PrimaryCell, Cell, AsmStatus
<1>2. \A h, cells, mm : EvidenceFrom(h, cells, mm)' = EvidenceFrom(h, cells, mm)
  BY DEF EvidenceFrom, TimingOf
<1> QED BY <1>1, <1>2, SamePlan DEF Rating, Raises, Measured

LEMMA SummaryStep ==
    ASSUME IInv, Summarize
    PROVE  IInv'
<1>1. UNCHANGED <<plan, kat, m>> /\ pc = "summary" /\ pc' = "done" /\ exit' \in {"0", "2"}
      /\ summary' = [h \in Harnesses |-> Rating(h, m)]
      /\ (exit' = "0" =>
              kat # "FAIL" /\ \A h \in Harnesses : summary'[h] = "no-finding-observed")
      /\ \A h \in Harnesses : ~Raises(h, m)
  BY DEF Summarize, Finish
<1>2. TypeOK'
  BY <1>1, SamePlan, RatingType DEF IInv, TypeOK
<1>3. Reported'
  BY <1>1, SamePlan, SameRating DEF IInv, Stages, Reported, Measured
<1>4. Stages'
  BY <1>1, <1>3, SamePlan DEF IInv, Stages
<1> QED BY <1>2, <1>4 DEF IInv

LEMMA StepIInv ==
    ASSUME IInv, [Next]_vars
    PROVE  IInv'
<1>1. CASE Refuse \/ Preflight \/ Build \/ Kat \/ Generate \/ MatrixAborts \/ SkipTiming
           \/ TimingAborts \/ SummaryRaises
  <2>1. kat \in KatStatuses
    BY DEF IInv, TypeOK
  <2> QED BY <1>1, <2>1, QuietStep
          DEF Refuse, Preflight, Build, Kat, Generate, MatrixAborts, SkipTiming, TimingAborts,
              SummaryRaises, Finish, Continue, KatStatuses
<1>2. CASE Ct \/ CtMatrix \/ AsmScan \/ MeasureTiming \/ Summarize
  BY <1>2, CtStep, MatrixStep, AsmStep, TimingStep, SummaryStep
<1>3. CASE UNCHANGED vars
  BY <1>3, SamePlan, SameRating DEF vars, IInv, TypeOK, Stages, Reported
<1> QED BY <1>1, <1>2, <1>3 DEF Next

\* The invariant of the whole command.
THEOREM ScreenInductive == Spec => []IInv
<1>1. Init => IInv
  BY InitIInv
<1>2. IInv /\ [Next]_vars => IInv'
  BY StepIInv
<1> QED BY <1>1, <1>2, PTL DEF Spec

\* TypeOK: divisions are kept only of compilers whose scan went through, and
\* every harness is rated.
THEOREM ScreenTyped == Spec => []TypeOK
<1>1. IInv => TypeOK
  BY DEF IInv
<1> QED BY <1>1, ScreenInductive, PTL

-----------------------------------------------------------------------------
(* The record of a harness and its rating                                  *)

ClassOf(h, cells)   == Class(cells, plan.triage[h])
BasisOf(h, cells)   == Basis(ClassOf(h, cells), cells, plan.triage[h])
AttribOf(h, cells)  == Attribution(Asm(cells), Varlat(plan.triage[h]))
ReviewOf(h, cells)  == Review(ClassOf(h, cells), BasisOf(h, cells), AttribOf(h, cells),
                              plan.triage[h])
Needed(h, cells)    == ReviewNeeded(ClassOf(h, cells), BasisOf(h, cells), AttribOf(h, cells))

LEMMA EvidenceFields ==
    ASSUME NEW h, NEW cells, NEW mm
    PROVE  EvidenceFrom(h, cells, mm) =
               [correctness |-> Correctness(kat),
                structural  |-> Structural(StatusesOf(cells)),
                asm         |-> Asm(cells),
                attribution |-> AttribOf(h, cells),
                validity    |-> Timing(TimingOf(h, mm)).validity,
                signal      |-> Timing(TimingOf(h, mm)).signal,
                review      |-> ReviewOf(h, cells),
                class       |-> ClassOf(h, cells)]
BY DEF EvidenceFrom, EvidenceOf, ClassOf, BasisOf, AttribOf, ReviewOf

LEMMA RaisesIs ==
    ASSUME NEW h, NEW mm
    PROVE  Raises(h, mm) <=>
               /\ plan.triage[h] # None /\ plan.triage[h].review = "not-needed"
               /\ Needed(h, Cells(h, mm))
<1>1. EvidenceFrom(h, Cells(h, mm), mm).attribution = AttribOf(h, Cells(h, mm))
  BY EvidenceFields
<1> QED BY <1>1 DEF Raises, ReviewRefused, Needed, ClassOf, BasisOf

\* A record clears exactly when no question of the fold is answered.
LEMMA Clearing ==
    ASSUME NEW e
    PROVE  Fold(e) = "no-finding-observed" <=>
               /\ e.correctness \notin {"fail", "not-run"}
               /\ ~Risk(e) /\ ~ToolError(e) /\ ~Incomplete(e)
               /\ ~Unresolved(e) /\ ~NothingRan(e)
BY DEF Fold

\* What plan.triage may hold.
LEMMA TriageShape ==
    ASSUME plan \in Plans, NEW h \in Harnesses, plan.triage[h] # None
    PROVE  plan.triage[h] \in Triages
BY ScreenConstants DEF Harnesses, CtHarnesses

\* Whoever clears a harness that needs a review has reviewed it.
LEMMA ReviewedWhenNeeded ==
    ASSUME plan \in Plans, NEW h \in Harnesses, NEW mm, ~Raises(h, mm),
           Rating(h, mm) = "no-finding-observed",
           Needed(h, Cells(h, mm))
    PROVE  Reviewed(h) /\ ReviewOf(h, Cells(h, mm)) = "reviewed"
<1> DEFINE r == ReviewOf(h, Cells(h, mm))
<1>1. r \notin {"pending", "disputed", "expired"}
  <2>1. ~Unresolved(EvidenceFrom(h, Cells(h, mm), mm))
    BY Clearing DEF Rating
  <2>2. EvidenceFrom(h, Cells(h, mm), mm).review = r
    BY EvidenceFields
  <2> QED BY <2>1, <2>2 DEF Unresolved
<1>2. plan.triage[h] # None
  BY <1>1 DEF ReviewOf, Review, Needed
<1>3. r = plan.triage[h].review /\ r # "not-needed"
  BY <1>2, RaisesIs DEF ReviewOf, Review
<1>4. plan.triage[h].review \in {"not-needed", "pending", "reviewed", "disputed", "expired"}
  BY <1>2, TriageShape DEF Triages
<1> QED BY <1>1, <1>2, <1>3, <1>4 DEF Reviewed

\* The facts about the layers of a cleared harness.
LEMMA ClearedLayers ==
    ASSUME NEW h, NEW mm, Rating(h, mm) = "no-finding-observed"
    PROVE  /\ Correctness(kat) = "pass"
           /\ Structural(StatusesOf(Cells(h, mm))) \notin {"error", "incomplete"}
           /\ Structural(StatusesOf(Cells(h, mm))) = "finding" =>
                  ClassOf(h, Cells(h, mm)) = "accepted-variable-time"
           /\ Asm(Cells(h, mm)) \notin {"error", "incomplete"}
           /\ AttribOf(h, Cells(h, mm)) # "unresolved"
           /\ AttribOf(h, Cells(h, mm)) \in {"secret-risk", "mixed"} =>
                  ReviewOf(h, Cells(h, mm)) # "reviewed"
           /\ Timing(TimingOf(h, mm)).validity \notin
                  {"error", "confounded", "insufficient-power", "environment-rejected"}
           /\ Timing(TimingOf(h, mm)).validity = "valid" =>
                  Timing(TimingOf(h, mm)).signal \notin {"signal", "warning", "not-interpretable"}
<1> DEFINE e == EvidenceFrom(h, Cells(h, mm), mm)
<1>1. /\ e.correctness \notin {"fail", "not-run"}
      /\ ~Risk(e) /\ ~ToolError(e) /\ ~Incomplete(e) /\ ~Unresolved(e)
  BY Clearing DEF Rating
<1>2. /\ e.correctness = Correctness(kat) /\ e.structural = Structural(StatusesOf(Cells(h, mm)))
      /\ e.asm = Asm(Cells(h, mm)) /\ e.attribution = AttribOf(h, Cells(h, mm))
      /\ e.validity = Timing(TimingOf(h, mm)).validity
      /\ e.signal = Timing(TimingOf(h, mm)).signal
      /\ e.review = ReviewOf(h, Cells(h, mm)) /\ e.class = ClassOf(h, Cells(h, mm))
  BY EvidenceFields
<1> HIDE DEF e
<1>3. Correctness(kat) = "pass"
  BY <1>1, <1>2 DEF Correctness
<1> QED BY <1>1, <1>2, <1>3 DEF Risk, ToolError, Incomplete, Unresolved

\* An asm layer that is settled has scanned all cells or none.
LEMMA AsmSettled ==
    ASSUME NEW cells, Asm(cells) \notin {"error", "incomplete"}
    PROVE  \/ Asm(cells) = "not-run" /\ \A c \in cells : c.asm = "NOT_RUN"
           \/ /\ cells # {} /\ \A c \in cells : c.asm = "PASS"
              /\ Asm(cells) = IF \E c \in cells : c.div THEN "candidate" ELSE "no-candidate"
BY DEF Asm

LEMMA AsmOfScanned ==
    ASSUME NEW cells, cells # {}, \A c \in cells : c.asm = "PASS"
    PROVE  Asm(cells) = IF \E c \in cells : c.div THEN "candidate" ELSE "no-candidate"
BY DEF Asm

\* One failed build taints the structural layer, whatever the others say.
LEMMA StructuralSettled ==
    ASSUME NEW cells, Structural(StatusesOf(cells)) \notin {"error", "incomplete"}, NEW c \in cells
    PROVE  /\ c.ct # "ERROR"
           /\ c.ct = "FAIL" => Structural(StatusesOf(cells)) = "finding"
<1>1. c.ct \in StatusesOf(cells)
  BY DEF StatusesOf
<1> QED BY <1>1 DEF Structural

\* EvidenceIsConsistent: whatever cells, timing and triage meet.
THEOREM EvidenceAlwaysConsistent == Spec => []EvidenceIsConsistent
<1>1. ASSUME IInv, NEW h \in Harnesses, ~Raises(h, m)
      PROVE  Consistent(EvidenceFrom(h, Cells(h, m), m), plan.triage[h])
  <2> DEFINE e == EvidenceFrom(h, Cells(h, m), m)
             tr == plan.triage[h]
  <2>1. /\ e.asm = Asm(Cells(h, m)) /\ e.attribution = Attribution(e.asm, Varlat(tr))
        /\ e.validity = Timing(TimingOf(h, m)).validity
        /\ e.signal = Timing(TimingOf(h, m)).signal
        /\ e.review = ReviewOf(h, Cells(h, m))
    BY EvidenceFields DEF AttribOf
  <2>2. tr = None \/ tr \in Triages
    BY <1>1, TriageShape DEF IInv, TypeOK
  <2>3. e.review = IF tr # None THEN tr.review
                   ELSE IF Needed(h, Cells(h, m)) THEN "pending" ELSE "not-needed"
    BY <2>1 DEF ReviewOf, Review, Needed
  <2>4. TimingOf(h, m) \in TimingResults \cup {NotMeasured}
    BY <1>1, ScreenConstants DEF IInv, TypeOK, TimingOf, Nothing
  <2>5. e.validity = "not-run" <=> e.signal = "not-run"
    <3>1. \A r \in TimingResults :
              /\ Timing(r).validity # "not-run" /\ Timing(r).signal # "not-run"
      BY DEF Timing, Signal, TimingResults, AllValidities
    <3>2. Timing(NotMeasured).validity = "not-run" /\ Timing(NotMeasured).signal = "not-run"
      BY DEF Timing, NotMeasured
    <3> QED BY <2>1, <2>4, <3>1, <3>2
  <2>6. Varlat(tr) \in {"public", "secret-risk", "mixed", "none", "untriaged"}
    BY <2>2 DEF Varlat, Triages
  <2>7. /\ e.asm \in {"no-candidate", "not-run"} => e.attribution = "not-applicable"
        /\ e.asm = "candidate" => e.attribution # "not-applicable"
    BY <2>1, <2>6 DEF Attribution
  <2>8. /\ e.review \in {"reviewed", "disputed", "expired"} => (tr # None /\ tr.id)
        /\ e.review = "not-needed" => (tr = None \/ ~tr.id)
    BY <2>2, <2>3 DEF Triages
  <2> HIDE DEF e, tr
  <2>9. Consistent(e, tr)
    BY <2>5, <2>7, <2>8 DEF Consistent
  <2> QED BY <2>9 DEF e, tr
<1>2. IInv => EvidenceIsConsistent
  BY <1>1 DEF EvidenceIsConsistent
<1> QED BY <1>2, ScreenInductive, PTL

\* RiskNotHidden: the fold asks about a confirmed risk before everything but a
\* failed KAT.
THEOREM RiskNeverHidden == Spec => []RiskNotHidden
<1>1. ASSUME IInv, summary # None, kat # "FAIL", NEW h \in Harnesses, ConfirmedRisk(h)
      PROVE  summary[h] = "risk-detected"
  <2> DEFINE e == EvidenceFrom(h, Cells(h, m), m)
  <2>1. summary[h] = Fold(e)
    BY <1>1 DEF IInv, Stages, Reported, Rating
  <2>2. e.correctness # "fail"
    BY <1>1, EvidenceFields DEF Correctness
  <2>3. Risk(e)
    <3>1. CASE TimingOf(h, m) = [status |-> "FAIL", validity |-> "valid"]
      <4>1. Timing(TimingOf(h, m)) = [validity |-> "valid", signal |-> "signal"]
        BY <3>1 DEF Timing, Signal
      <4>2. e.validity = "valid" /\ e.signal = "signal"
        BY <4>1, EvidenceFields
      <4> QED BY <4>2 DEF Risk
    <3>2. CASE /\ plan.triage[h] = None \/ plan.triage[h].verdict = None
               /\ {"PASS", "FAIL"} \subseteq StatusesOf(Cells(h, m))
      <4>1. ClassOf(h, Cells(h, m)) = "build-sensitive-ct"
        BY <3>2 DEF ClassOf, Class, AutoClass
      <4>2. e.class = "build-sensitive-ct"
        BY <4>1, EvidenceFields
      <4> QED BY <4>2 DEF Risk
    <3> QED BY <1>1, <3>1, <3>2 DEF ConfirmedRisk
  <2> QED BY <2>1, <2>2, <2>3 DEF Fold
<1>2. IInv => RiskNotHidden
  BY <1>1 DEF RiskNotHidden
<1> QED BY <1>2, ScreenInductive, PTL

-----------------------------------------------------------------------------
(* What a cleared harness has behind it                                    *)

Measurement(mm) ==
    /\ mm.ct \in [CtHarnesses -> CtOutcomes]
    /\ mm.rows \in [MatrixCells -> CtOutcomes]
    /\ mm.ok \subseteq plan.asmCCs

\* mm lets the summary rate h, and clears it.
Clears(h, mm) == ~Raises(h, mm) /\ Rating(h, mm) = "no-finding-observed"

\* Every run of the matrix has its cell.
LEMMA MatrixCell ==
    ASSUME NEW mm, Measurement(mm), NEW k \in MatrixCells
    PROVE  Cell(k.h, k.cc, k.opt, mm.rows[k], AsmStatus(k.cc, mm), mm) \in Cells(k.h, mm)
BY DEF Measurement, Cells, OfMatrix

\* So has every compiler and level of the scan, in the matrix or beside it.
LEMMA ScanCell ==
    ASSUME NEW mm, NEW k \in AsmKeys
    PROVE  \E c \in Cells(k.h, mm) :
               c.asm = AsmStatus(k.cc, mm) /\ (c.div <=> k \in mm.cands)
<1>1. k = [h |-> k.h, cc |-> k.cc, opt |-> k.opt]
  <2>1. PICK h \in plan.templates : k \in [h : {h}, cc : plan.asmCCs, opt : AsmOpts(h)]
    BY DEF AsmKeys
  <2> QED BY <2>1
<1>2. CASE k \in DOMAIN mm.rows
  <2> DEFINE c == Cell(k.h, k.cc, k.opt, mm.rows[k], AsmStatus(k.cc, mm), mm)
  <2>1. c \in Cells(k.h, mm)
    BY <1>2 DEF Cells, OfMatrix
  <2>2. c.asm = AsmStatus(k.cc, mm) /\ (c.div <=> k \in mm.cands)
    BY <1>1 DEF Cell
  <2> QED BY <2>1, <2>2
<1>3. CASE k \notin DOMAIN mm.rows
  <2> DEFINE c == Cell(k.h, k.cc, k.opt, [status |-> "NA", funcs |-> "none"],
                       AsmStatus(k.cc, mm), mm)
  <2>1. c \in Cells(k.h, mm)
    BY <1>3 DEF Cells, OfAsmOnly
  <2>2. c.asm = AsmStatus(k.cc, mm) /\ (c.div <=> k \in mm.cands)
    BY <1>1 DEF Cell
  <2> QED BY <2>1, <2>2
<1> QED BY <1>2, <1>3

\* The cell of the primary run is there unless that run passed.
LEMMA PrimaryThere ==
    ASSUME NEW mm, NEW h \in CtHarnesses, h \notin plan.templates \/ mm.ct[h].status # "PASS"
    PROVE  PrimaryCell(h, mm) \in Cells(h, mm)
BY DEF Cells, OfPrimary

\* A build that failed has been accepted, one that broke clears nothing.
LEMMA AccountedCell ==
    ASSUME plan \in Plans, NEW h \in Harnesses, NEW mm, Clears(h, mm), NEW c \in Cells(h, mm)
    PROVE  /\ c.ct # "ERROR"
           /\ c.ct = "FAIL" =>
                  /\ Reviewed(h) /\ ReviewOf(h, Cells(h, mm)) = "reviewed"
                  /\ ClassOf(h, Cells(h, mm)) = "accepted-variable-time"
                  /\ c.funcs # "other" \/ plan.triage[h].verdict = "accepted-variable-time"
<1> DEFINE cells == Cells(h, mm)
<1>1. /\ Structural(StatusesOf(cells)) \notin {"error", "incomplete"}
      /\ Structural(StatusesOf(cells)) = "finding" =>
             ClassOf(h, cells) = "accepted-variable-time"
  BY ClearedLayers DEF Clears
<1>2. c.ct # "ERROR" /\ (c.ct = "FAIL" => Structural(StatusesOf(cells)) = "finding")
  BY <1>1, StructuralSettled
<1>3. ASSUME c.ct = "FAIL"
      PROVE  ClassOf(h, cells) = "accepted-variable-time"
  BY <1>1, <1>2, <1>3
<1>4. ASSUME c.ct = "FAIL"
      PROVE  Reviewed(h) /\ ReviewOf(h, cells) = "reviewed"
  <2>1. Needed(h, cells)
    BY <1>3, <1>4 DEF Needed, ReviewNeeded
  <2> QED BY <2>1, ReviewedWhenNeeded DEF Clears
<1>5. ASSUME c.ct = "FAIL"
      PROVE  c.funcs # "other" \/ plan.triage[h].verdict = "accepted-variable-time"
  <2>1. CASE plan.triage[h] # None /\ plan.triage[h].verdict # None
    BY <1>3, <1>5, <2>1 DEF ClassOf, Class
  <2>2. CASE ~(plan.triage[h] # None /\ plan.triage[h].verdict # None)
    <3>1. AutoClass(cells, Varlat(plan.triage[h])) = "accepted-variable-time"
      BY <1>3, <1>5, <2>2 DEF ClassOf, Class
    <3>2. OnlyRegistered(cells)
      BY <3>1 DEF AutoClass
    <3> QED BY <3>2 DEF OnlyRegistered
  <2> QED BY <2>1, <2>2
<1> QED BY <1>2, <1>3, <1>4, <1>5

\* A cell no scan covered needs a reviewer's word.
LEMMA UnscannedReviewed ==
    ASSUME plan \in Plans, NEW h \in Harnesses, NEW mm, Clears(h, mm),
           NEW c \in Cells(h, mm), c.asm # "PASS"
    PROVE  Reviewed(h)
<1> DEFINE cells == Cells(h, mm)
           auto  == AutoClass(cells, Varlat(plan.triage[h]))
<1>1. ClassOf(h, cells) # "build-sensitive-ct"
  <2>1. ~Risk(EvidenceFrom(h, cells, mm))
    BY Clearing DEF Clears, Rating
  <2>2. EvidenceFrom(h, cells, mm).class = ClassOf(h, cells)
    BY EvidenceFields
  <2> QED BY <2>1, <2>2 DEF Risk
<1>2. auto \in {"build-sensitive-ct", "accepted-variable-time", "needs-analysis",
                "varlat-secret-risk", "tool-problem", "ct-clean-asm-incomplete"}
  BY DEF AutoClass
<1>3. Needed(h, cells)
  <2>1. CASE plan.triage[h] # None /\ plan.triage[h].verdict # None
    <3>1. BasisOf(h, cells) \in {"stop", "review"}
      BY <2>1 DEF BasisOf, Basis
    <3> QED BY <3>1 DEF Needed, ReviewNeeded
  <2>2. CASE ~(plan.triage[h] # None /\ plan.triage[h].verdict # None)
    <3>1. ClassOf(h, cells) = auto
      BY <2>2 DEF ClassOf, Class
    <3>2. CASE auto \in {"tool-problem", "ct-clean-asm-incomplete"}
      <4>1. BasisOf(h, cells) = "stop"
        BY <3>1, <3>2 DEF BasisOf, Basis, StopClasses
      <4> QED BY <4>1 DEF Needed, ReviewNeeded
    <3>3. CASE auto \in {"accepted-variable-time", "needs-analysis", "varlat-secret-risk"}
      BY <3>1, <3>3 DEF Needed, ReviewNeeded
    <3> QED BY <1>1, <1>2, <3>1, <3>2, <3>3
  <2> QED BY <2>1, <2>2
<1> QED BY <1>3, ReviewedWhenNeeded DEF Clears

\* A division that was found has been attributed to public data.
LEMMA DivisionReviewed ==
    ASSUME plan \in Plans, NEW h \in Harnesses, NEW mm, Clears(h, mm),
           NEW c \in Cells(h, mm), c.div, c.asm = "PASS"
    PROVE  /\ Reviewed(h) /\ ReviewOf(h, Cells(h, mm)) = "reviewed"
           /\ plan.triage[h].varlat = "public"
<1> DEFINE cells == Cells(h, mm)
<1>1. Asm(cells) = "candidate"
  <2>1. Asm(cells) \notin {"error", "incomplete"}
    BY ClearedLayers DEF Clears
  <2> QED BY <2>1, AsmSettled
<1>2. AttribOf(h, cells) = "unresolved" \/ AttribOf(h, cells) = Varlat(plan.triage[h])
  BY <1>1 DEF AttribOf, Attribution
<1>3. AttribOf(h, cells) # "unresolved"
  BY ClearedLayers DEF Clears
<1>4. Varlat(plan.triage[h]) \in {"public", "secret-risk", "mixed", "none", "untriaged"}
  BY TriageShape DEF Varlat, Triages
<1>5. AttribOf(h, cells) \in {"public", "secret-risk", "mixed"}
  BY <1>1, <1>3, <1>4 DEF AttribOf, Attribution
<1>6. Needed(h, cells)
  BY <1>5 DEF Needed, ReviewNeeded
<1>7. Reviewed(h) /\ ReviewOf(h, cells) = "reviewed"
  BY <1>6, ReviewedWhenNeeded DEF Clears
<1>8. AttribOf(h, cells) \notin {"secret-risk", "mixed"}
  BY <1>7, ClearedLayers DEF Clears
<1> QED BY <1>2, <1>3, <1>5, <1>7, <1>8 DEF Reviewed, Varlat

\* For a template every compiler has been scanned.
LEMMA AllScanned ==
    ASSUME plan \in Plans, NEW h \in plan.templates, NEW mm, Measurement(mm), Clears(h, mm)
    PROVE  plan.asmCCs \subseteq mm.ok /\ plan.matrixCCs \subseteq mm.ok
<1> DEFINE cells == Cells(h, mm)
<1>1. Asm(cells) \notin {"error", "incomplete"}
  BY ClearedLayers DEF Clears
<1>2. \A cc \in plan.asmCCs : \E c \in cells : c.asm = AsmStatus(cc, mm)
  <2> SUFFICES ASSUME NEW cc \in plan.asmCCs
               PROVE  \E c \in cells : c.asm = AsmStatus(cc, mm)
    OBVIOUS
  <2> DEFINE k == [h |-> h, cc |-> cc, opt |-> plan.base[h]]
  <2>1. k \in AsmKeys /\ k.h = h /\ k.cc = cc
    BY DEF AsmKeys, AsmOpts
  <2> HIDE DEF k
  <2> QED BY <2>1, ScanCell
<1>3. \A c \in cells : c.asm = "PASS"
  <2>1. PICK cc \in plan.asmCCs : TRUE
    BY ScreenConstants
  <2>2. AsmStatus(cc, mm) # "NOT_RUN"
    BY <2>1 DEF AsmStatus
  <2> QED BY <1>1, <1>2, <2>1, <2>2, AsmSettled
<1>4. plan.asmCCs \subseteq mm.ok
  BY <1>2, <1>3 DEF AsmStatus
<1>5. ASSUME NEW cc \in plan.matrixCCs
      PROVE  cc \in mm.ok
  <2>1. PICK opt \in plan.opts : TRUE
    BY ScreenConstants
  <2> DEFINE k == [h |-> h, cc |-> cc, opt |-> opt]
  <2>2. k \in MatrixCells /\ k.h = h /\ k.cc = cc
    BY <2>1 DEF MatrixCells
  <2> DEFINE c == Cell(k.h, k.cc, k.opt, mm.rows[k], AsmStatus(k.cc, mm), mm)
  <2> HIDE DEF k
  <2>3. c \in cells
    BY <2>2, MatrixCell
  <2>4. c.asm = AsmStatus(cc, mm)
    BY <2>2 DEF Cell
  <2> QED BY <1>3, <2>3, <2>4 DEF AsmStatus
<1> QED BY <1>4, <1>5

\* ClearedMeansMeasured: exit 0 stands for a complete measurement, for every
\* plan and every outcome of every stage.
THEOREM ClearedIsMeasured == Spec => []ClearedMeansMeasured
<1>1. ASSUME IInv, exit = "0"
      PROVE  ClearedMeansMeasured
  <2>1. plan \in Plans /\ Measurement(m) /\ \A h \in Harnesses : Clears(h, m)
    BY <1>1 DEF IInv, TypeOK, Stages, Reported, Measured, Measurement, Clears
  <2>2. CtHarnesses = plan.templates \cup plan.manuals /\ CtHarnesses \subseteq Harnesses
    BY DEF CtHarnesses, Harnesses
  <2>3. ASSUME NEW h \in CtHarnesses
        PROVE  Accounted(h, m.ct[h]) /\ kat = "PASS"
    <3>1. Correctness(kat) = "pass"
      BY <2>1, <2>2, <2>3, ClearedLayers DEF Clears
    <3>2. m.ct[h] \in CtOutcomes /\ m.ct[h].status \in {"PASS", "FAIL", "ERROR"}
      BY <2>1, <2>3 DEF Measurement, CtOutcomes
    <3>3. CASE m.ct[h].status # "PASS"
      <4>1. PrimaryCell(h, m) \in Cells(h, m)
        BY <2>3, <3>3, PrimaryThere
      <4>2. PrimaryCell(h, m).ct = m.ct[h].status /\ PrimaryCell(h, m).funcs = m.ct[h].funcs
        BY DEF PrimaryCell
      <4> QED BY <2>1, <2>2, <2>3, <3>1, <3>2, <3>3, <4>1, <4>2, AccountedCell
              DEF Accounted, Correctness
    <3> QED BY <3>1, <3>3 DEF Accounted, Correctness
  <2>4. ASSUME NEW k \in MatrixCells
        PROVE  Accounted(k.h, m.rows[k])
    <3> DEFINE c == Cell(k.h, k.cc, k.opt, m.rows[k], AsmStatus(k.cc, m), m)
    <3>1. k.h \in plan.templates
      BY DEF MatrixCells
    <3>2. c \in Cells(k.h, m)
      BY <2>1, MatrixCell
    <3>3. c.ct = m.rows[k].status /\ c.funcs = m.rows[k].funcs
      BY DEF Cell
    <3>4. m.rows[k].status \in {"PASS", "FAIL", "ERROR"}
      BY <2>1 DEF Measurement, CtOutcomes
    <3> HIDE DEF c
    <3> QED BY <2>1, <2>2, <3>1, <3>2, <3>3, <3>4, AccountedCell DEF Accounted
  <2>5. plan.templates # {} => (plan.matrixCCs \subseteq m.ok /\ plan.asmCCs = m.ok)
    BY <2>1, <2>2, AllScanned DEF Measurement
  <2>6. ASSUME NEW h \in plan.manuals
        PROVE  Reviewed(h)
    <3>1. h \notin plan.templates /\ h \in CtHarnesses
      BY <2>1, <2>2, ScreenConstants
    <3>2. PrimaryCell(h, m) \in Cells(h, m)
      BY <3>1, PrimaryThere
    <3>3. PrimaryCell(h, m).asm # "PASS"
      BY <3>1 DEF PrimaryCell
    <3> QED BY <2>1, <2>2, <3>1, <3>2, <3>3, UnscannedReviewed
  <2>7. ASSUME NEW k \in m.cands
        PROVE  Reviewed(k.h) /\ plan.triage[k.h].varlat = "public"
    <3>1. k \in AsmKeys /\ k.cc \in m.ok /\ k.h \in plan.templates
      BY <1>1 DEF IInv, TypeOK, AsmKeys
    <3>2. PICK c \in Cells(k.h, m) : c.asm = AsmStatus(k.cc, m) /\ (c.div <=> k \in m.cands)
      BY <3>1, ScanCell
    <3>3. c.asm = "PASS" /\ c.div
      BY <3>1, <3>2 DEF AsmStatus
    <3> QED BY <2>1, <2>2, <3>1, <3>3, DivisionReviewed
  <2>8. ASSUME NEW h \in DOMAIN m.timing
        PROVE  m.timing[h] = [status |-> "PASS", validity |-> "valid"]
    <3>1. h \in plan.timed /\ m.timing[h] \in TimingResults /\ TimingOf(h, m) = m.timing[h]
      BY <1>1, ScreenConstants DEF IInv, TypeOK, Nothing, TimingOf
    <3>2. h \in Harnesses
      BY <3>1 DEF Harnesses
    <3>3. /\ Timing(m.timing[h]).validity \notin
                 {"error", "confounded", "insufficient-power", "environment-rejected"}
          /\ Timing(m.timing[h]).validity = "valid" =>
                 Timing(m.timing[h]).signal \notin {"signal", "warning", "not-interpretable"}
      BY <2>1, <3>1, <3>2, ClearedLayers DEF Clears
    <3>4. \A r \in TimingResults :
              \/ r = [status |-> "PASS", validity |-> "valid"]
              \/ Timing(r).validity \in
                     {"error", "confounded", "insufficient-power", "environment-rejected"}
              \/ /\ Timing(r).validity = "valid"
                 /\ Timing(r).signal \in {"signal", "warning", "not-interpretable"}
      <4> SUFFICES ASSUME NEW r \in TimingResults
                   PROVE  \/ r = [status |-> "PASS", validity |-> "valid"]
                          \/ Timing(r).validity \in {"error", "confounded",
                                 "insufficient-power", "environment-rejected"}
                          \/ /\ Timing(r).validity = "valid"
                             /\ Timing(r).signal \in {"signal", "warning", "not-interpretable"}
        OBVIOUS
      <4>1. CASE r.status \in {"ERROR", "INSUFFICIENT"}
        BY <4>1 DEF TimingResults, Timing, Signal
      <4>2. CASE r \in [status : {"PASS", "WARNING", "FAIL"}, validity : AllValidities]
        <5>1. Timing(r) = [validity |-> r.validity, signal |-> Signal(r.status)]
          BY <4>2 DEF AllValidities, Timing
        <5>2. r = [status |-> r.status, validity |-> r.validity]
          BY <4>2
        <5> QED BY <4>2, <5>1, <5>2 DEF AllValidities, Signal
      <4> QED BY <4>1, <4>2 DEF TimingResults
    <3> QED BY <3>1, <3>3, <3>4
  <2>9. kat = "PASS"
    <3>1. CtHarnesses # {}
      BY <1>1 DEF IInv, Stages
    <3> QED BY <2>3, <3>1
  <2> QED BY <2>3, <2>4, <2>5, <2>6, <2>7, <2>8, <2>9 DEF ClearedMeansMeasured
<1>2. IInv => ClearedMeansMeasured
  BY <1>1 DEF ClearedMeansMeasured
<1> QED BY <1>2, ScreenInductive, PTL

-----------------------------------------------------------------------------
(* A worse outcome never clears                                            *)

\* The cells of the matrix and of the scan, one by one.
MatrixOf(h, k, mm) == Cell(h, k.cc, k.opt, mm.rows[k], AsmStatus(k.cc, mm), mm)

ScanOf(h, k, mm) ==
    Cell(h, k.cc, k.opt, [status |-> "NA", funcs |-> "none"], AsmStatus(k.cc, mm), mm)

\* Every cell under mm has one under n that was made for the same key.
Carried(h, mm, n) ==
    /\ \A c \in OfMatrix(h, mm) : \E k :
           c = MatrixOf(h, k, mm) /\ MatrixOf(h, k, n) \in OfMatrix(h, n)
    /\ \A c \in OfAsmOnly(h, mm) : \E k :
           c = ScanOf(h, k, mm) /\ ScanOf(h, k, n) \in OfAsmOnly(h, n)

LEMMA CellsCarry ==
    ASSUME NEW h, NEW mm, NEW n, DOMAIN mm.rows = DOMAIN n.rows
    PROVE  Carried(h, mm, n)
<1>1. ASSUME NEW c \in OfMatrix(h, mm)
      PROVE  \E k : c = MatrixOf(h, k, mm) /\ MatrixOf(h, k, n) \in OfMatrix(h, n)
  BY DEF OfMatrix, MatrixOf
<1>2. ASSUME NEW c \in OfAsmOnly(h, mm)
      PROVE  \E k : c = ScanOf(h, k, mm) /\ ScanOf(h, k, n) \in OfAsmOnly(h, n)
  <2>1. PICK k \in AsmKeys : k.h = h /\ k \notin DOMAIN mm.rows /\ c = ScanOf(h, k, mm)
    BY DEF OfAsmOnly, ScanOf
  <2>2. ScanOf(h, k, n) \in OfAsmOnly(h, n)
    BY <2>1 DEF OfAsmOnly, ScanOf
  <2> QED BY <2>1, <2>2
<1> QED BY <1>1, <1>2 DEF Carried

\* What holds of the cells of every key holds of all cells.
LEMMA SameCells ==
    ASSUME NEW h, NEW mm, NEW n, DOMAIN mm.rows = DOMAIN n.rows,
           \A k : MatrixOf(h, k, mm) = MatrixOf(h, k, n),
           \A k : ScanOf(h, k, mm) = ScanOf(h, k, n)
    PROVE  OfMatrix(h, mm) = OfMatrix(h, n) /\ OfAsmOnly(h, mm) = OfAsmOnly(h, n)
<1>1. Carried(h, mm, n) /\ Carried(h, n, mm)
  BY CellsCarry
<1>2. OfMatrix(h, mm) \subseteq OfMatrix(h, n) /\ OfMatrix(h, n) \subseteq OfMatrix(h, mm)
  BY <1>1 DEF Carried
<1>3. OfAsmOnly(h, mm) \subseteq OfAsmOnly(h, n) /\ OfAsmOnly(h, n) \subseteq OfAsmOnly(h, mm)
  BY <1>1 DEF Carried
<1> QED BY <1>2, <1>3

\* Cells that differ in nothing but the divisions found.
Like(c, d) == c.ct = d.ct /\ c.funcs = d.funcs /\ c.asm = d.asm

LEMMA CellsAlike ==
    ASSUME NEW h, NEW mm, NEW n, DOMAIN mm.rows = DOMAIN n.rows,
           \A k : Like(MatrixOf(h, k, mm), MatrixOf(h, k, n)),
           \A k : Like(ScanOf(h, k, mm), ScanOf(h, k, n))
    PROVE  /\ \A c \in OfMatrix(h, mm) : \E d \in OfMatrix(h, n) : Like(c, d)
           /\ \A c \in OfAsmOnly(h, mm) : \E d \in OfAsmOnly(h, n) : Like(c, d)
<1>1. Carried(h, mm, n)
  BY CellsCarry
<1>2. \A c \in OfMatrix(h, mm) : \E d \in OfMatrix(h, n) : Like(c, d)
  BY <1>1 DEF Carried
<1>3. \A c \in OfAsmOnly(h, mm) : \E d \in OfAsmOnly(h, n) : Like(c, d)
  BY <1>1 DEF Carried
<1> QED BY <1>2, <1>3

\* The rating looks at the cells and the timing, and at nothing else of mm.
LEMMA SameCellsSameRating ==
    ASSUME NEW h, NEW mm, Cells(h, mm) = Cells(h, m), mm.timing = m.timing
    PROVE  Rating(h, mm) = Rating(h, m)
BY DEF Rating, EvidenceFrom, TimingOf

\* The asm layer of fewer or other cells that were all scanned alike.
LEMMA AsmAlike ==
    ASSUME NEW A, NEW B, A # {}, Asm(B) \notin {"error", "incomplete"},
           \A c \in A : \E d \in B : c.asm = d.asm /\ (c.div <=> d.div),
           \A d \in B : d.div => \E c \in A : c.div
    PROVE  Asm(A) = Asm(B)
<1>1. CASE Asm(B) = "not-run" /\ \A d \in B : d.asm = "NOT_RUN"
  <2>1. \A c \in A : c.asm = "NOT_RUN"
    BY <1>1
  <2> QED BY <1>1, <2>1 DEF Asm
<1>2. CASE /\ B # {} /\ \A d \in B : d.asm = "PASS"
           /\ Asm(B) = IF \E d \in B : d.div THEN "candidate" ELSE "no-candidate"
  <2>1. \A c \in A : c.asm = "PASS"
    BY <1>2
  <2>2. (\E c \in A : c.div) <=> (\E d \in B : d.div)
    OBVIOUS
  <2>3. Asm(A) = IF \E c \in A : c.div THEN "candidate" ELSE "no-candidate"
    BY <2>1, AsmOfScanned
  <2> QED BY <1>2, <2>2, <2>3
<1> QED BY <1>1, <1>2, AsmSettled

LEMMA StructuralClean ==
    ASSUME NEW cells, \A c \in cells : c.ct # "ERROR", \E c \in cells : c.ct # "NA"
    PROVE  Structural(StatusesOf(cells)) \in {"finding", "no-finding"}
<1>1. "ERROR" \notin StatusesOf(cells) /\ StatusesOf(cells) \ {"NA"} # {}
  BY DEF StatusesOf
<1> QED BY <1>1 DEF Structural

\* The cells under m are those under mm, some of them passing, or some left out.
Softer(h, mm) ==
    /\ \A c \in Cells(h, m) : \E d \in Cells(h, mm) :
           c.asm = d.asm /\ (c.div <=> d.div) /\ c.ct \in {"PASS", d.ct}
    /\ \A d \in Cells(h, mm) : d.div => \E c \in Cells(h, m) : c.div
    /\ \E c \in Cells(h, m) : c.ct # "NA"

\* A harness that is cleared over an accepted finding w is cleared when the
\* builds of w pass, too.
LEMMA Softened ==
    ASSUME plan \in Plans, NEW h \in Harnesses, NEW mm, Clears(h, mm), mm.timing = m.timing,
           NEW w \in Cells(h, mm), w.ct = "FAIL", w.funcs = "other", Softer(h, mm)
    PROVE  Rating(h, m) = "no-finding-observed"
<1> DEFINE e == EvidenceFrom(h, Cells(h, m), m)
           f == EvidenceFrom(h, Cells(h, mm), mm)
<1>1. /\ Reviewed(h) /\ ReviewOf(h, Cells(h, mm)) = "reviewed"
      /\ plan.triage[h].verdict = "accepted-variable-time"
  BY AccountedCell
<1>2. plan.triage[h] # None /\ plan.triage[h].verdict # None
  BY <1>1, ScreenConstants DEF Reviewed, VerdictClasses
<1>3. /\ ClassOf(h, Cells(h, m)) = "accepted-variable-time"
      /\ ClassOf(h, Cells(h, mm)) = "accepted-variable-time"
  BY <1>1, <1>2 DEF ClassOf, Class
<1>4. Asm(Cells(h, m)) = Asm(Cells(h, mm))
  <2>1. Asm(Cells(h, mm)) \notin {"error", "incomplete"}
    BY ClearedLayers DEF Clears
  <2>2. Cells(h, m) # {}
    BY DEF Softer
  <2>3. /\ \A c \in Cells(h, m) : \E d \in Cells(h, mm) : c.asm = d.asm /\ (c.div <=> d.div)
        /\ \A d \in Cells(h, mm) : d.div => \E c \in Cells(h, m) : c.div
    BY DEF Softer
  <2> QED BY <2>1, <2>2, <2>3, AsmAlike
<1>5. ReviewOf(h, Cells(h, m)) = ReviewOf(h, Cells(h, mm))
  BY <1>2 DEF ReviewOf, Review
<1>6. Structural(StatusesOf(Cells(h, m))) \in {"finding", "no-finding"}
  <2>1. \A d \in Cells(h, mm) : d.ct # "ERROR"
    BY AccountedCell
  <2>2. (\A c \in Cells(h, m) : c.ct # "ERROR") /\ \E c \in Cells(h, m) : c.ct # "NA"
    BY <2>1 DEF Softer
  <2> QED BY <2>2, StructuralClean
<1>7. /\ e.correctness = f.correctness /\ e.asm = f.asm /\ e.attribution = f.attribution
      /\ e.validity = f.validity /\ e.signal = f.signal /\ e.review = f.review
      /\ e.class = f.class
      /\ e.structural \in {"finding", "no-finding"} /\ e.class = "accepted-variable-time"
  BY <1>3, <1>4, <1>5, <1>6, EvidenceFields DEF AttribOf, TimingOf
<1>8. /\ f.correctness \notin {"fail", "not-run"}
      /\ ~Risk(f) /\ ~ToolError(f) /\ ~Incomplete(f) /\ ~Unresolved(f)
  BY Clearing DEF Clears, Rating
<1> HIDE DEF e, f
<1>9. /\ e.correctness \notin {"fail", "not-run"}
      /\ ~Risk(e) /\ ~ToolError(e) /\ ~Incomplete(e) /\ ~Unresolved(e) /\ ~NothingRan(e)
  BY <1>7, <1>8 DEF Risk, ToolError, Incomplete, Unresolved, NothingRan
<1>10. Fold(e) = "no-finding-observed"
  BY <1>9, Clearing
<1> QED BY <1>10 DEF Rating, e

\* An outcome of the primary run that is worse.
LEMMA WorsePrimaryClears ==
    ASSUME IInv, Measurement(m), NEW h \in Harnesses, NEW g \in CtHarnesses, m.ct[g].status = "PASS",
           NEW o \in WorseOutcomes, NEW mm, mm = [m EXCEPT !.ct[g] = o], Clears(h, mm)
    PROVE  Rating(h, m) = "no-finding-observed"
<1>1. /\ mm.rows = m.rows /\ mm.ok = m.ok /\ mm.cands = m.cands /\ mm.timing = m.timing
      /\ mm.ct = [m.ct EXCEPT ![g] = o] /\ plan \in Plans
  BY DEF IInv, Stages, TypeOK
<1>2. OfMatrix(h, mm) = OfMatrix(h, m) /\ OfAsmOnly(h, mm) = OfAsmOnly(h, m)
  BY <1>1 DEF OfMatrix, OfAsmOnly, Cell, AsmStatus
<1>3. CASE g # h
  <2>1. h \in CtHarnesses => mm.ct[h] = m.ct[h]
    BY <1>1, <1>3 DEF Measurement
  <2>2. OfPrimary(h, mm) = OfPrimary(h, m)
    BY <1>1, <2>1 DEF OfPrimary, PrimaryCell, AsmStatus
  <2>3. Cells(h, mm) = Cells(h, m)
    BY <1>2, <2>2 DEF Cells
  <2> QED BY <1>1, <2>3, SameCellsSameRating DEF Clears
<1>4. CASE g = h
  <2> DEFINE p == PrimaryCell(h, m)
             w == PrimaryCell(h, mm)
  <2>1. mm.ct[h] = o /\ o.status # "PASS" /\ (o.status = "ERROR" \/ (o.status = "FAIL" /\ o.funcs = "other"))
    BY <1>1, <1>4 DEF Measurement, WorseOutcomes
  <2>2. w \in Cells(h, mm)
    BY <1>4, <2>1, PrimaryThere
  <2>3. /\ p.ct = "PASS" /\ p.asm = w.asm /\ p.div = FALSE /\ w.div = FALSE
        /\ w.ct = o.status /\ w.funcs = o.funcs
    BY <1>1, <1>4, <2>1 DEF PrimaryCell, AsmStatus
  <2>4. w.ct = "FAIL" /\ w.funcs = "other"
    BY <1>1, <2>1, <2>2, <2>3, AccountedCell
  <2>5. \A c \in Cells(h, m) : c \in Cells(h, mm) \/ c = p
    BY <1>2 DEF Cells, OfPrimary
  <2>6. \A d \in Cells(h, mm) : d \in Cells(h, m) \/ d = w
    BY <1>2 DEF Cells, OfPrimary
  <2>7. \E c \in Cells(h, m) : c.ct # "NA"
    <3>1. CASE p \in Cells(h, m)
      BY <2>3, <3>1
    <3>2. CASE p \notin Cells(h, m)
      <4>1. h \in plan.templates /\ m.rows # Nothing
        BY <1>4, <3>2 DEF Cells, OfPrimary
      <4>2. PICK k \in MatrixCells : TRUE
        BY <4>1 DEF Measurement, Nothing
      <4> DEFINE j == [h |-> h, cc |-> k.cc, opt |-> k.opt]
      <4>3. j \in MatrixCells /\ j.h = h
        BY <4>1, <4>2 DEF MatrixCells
      <4> HIDE DEF j
      <4>4. Cell(j.h, j.cc, j.opt, m.rows[j], AsmStatus(j.cc, m), m) \in Cells(h, m)
        BY <4>3, MatrixCell
      <4>5. m.rows[j].status # "NA"
        BY <4>3 DEF Measurement, CtOutcomes
      <4> QED BY <4>4, <4>5 DEF Cell
    <3> QED BY <3>1, <3>2
  <2> HIDE DEF p, w
  <2>8. \A c \in Cells(h, m) : \E d \in Cells(h, mm) :
            c.asm = d.asm /\ (c.div <=> d.div) /\ c.ct \in {"PASS", d.ct}
    BY <2>2, <2>3, <2>5
  <2>9. \A d \in Cells(h, mm) : d.div => \E c \in Cells(h, m) : c.div
    BY <2>3, <2>6
  <2>10. Softer(h, mm)
    BY <2>7, <2>8, <2>9 DEF Softer
  <2> QED BY <1>1, <2>2, <2>4, <2>10, Softened
<1> QED BY <1>3, <1>4

\* A worse outcome of one build of the matrix.
LEMMA WorseBuildClears ==
    ASSUME IInv, Measurement(m), NEW h \in Harnesses, NEW k \in MatrixCells,
           m.rows[k].status = "PASS",
           NEW o \in WorseOutcomes, NEW mm, mm = [m EXCEPT !.rows[k] = o], Clears(h, mm)
    PROVE  Rating(h, m) = "no-finding-observed"
<1>1. /\ mm.ct = m.ct /\ mm.ok = m.ok /\ mm.cands = m.cands /\ mm.timing = m.timing
      /\ mm.rows = [m.rows EXCEPT ![k] = o] /\ plan \in Plans
  BY DEF IInv, Stages, TypeOK
<1>2. /\ DOMAIN mm.rows = MatrixCells /\ DOMAIN m.rows = MatrixCells
      /\ \A x \in MatrixCells : mm.rows[x] = IF x = k THEN o ELSE m.rows[x]
  BY <1>1 DEF Measurement
<1>3. m.rows # Nothing /\ mm.rows # Nothing
  BY <1>2 DEF Nothing
<1>4. OfAsmOnly(h, mm) = OfAsmOnly(h, m) /\ OfPrimary(h, mm) = OfPrimary(h, m)
  <2>1. \A cc : AsmStatus(cc, mm) = AsmStatus(cc, m)
    BY <1>1 DEF AsmStatus
  <2>2. PrimaryCell(h, mm) = PrimaryCell(h, m)
    BY <1>1, <2>1 DEF PrimaryCell
  <2>3. OfPrimary(h, mm) = OfPrimary(h, m)
    BY <1>1, <1>3, <2>2 DEF OfPrimary
  <2>4. OfAsmOnly(h, mm) = OfAsmOnly(h, m)
    <3>1. \A x : ScanOf(h, x, mm) = ScanOf(h, x, m)
      BY <1>1, <2>1 DEF ScanOf, Cell
    <3>2. Carried(h, mm, m) /\ Carried(h, m, mm)
      BY <1>2, CellsCarry
    <3>3. OfAsmOnly(h, mm) \subseteq OfAsmOnly(h, m)
      BY <3>1, <3>2 DEF Carried
    <3>4. OfAsmOnly(h, m) \subseteq OfAsmOnly(h, mm)
      BY <3>1, <3>2 DEF Carried
    <3> QED BY <3>3, <3>4
  <2> QED BY <2>3, <2>4
<1> DEFINE Of(x, n) == Cell(h, x.cc, x.opt, n.rows[x], AsmStatus(x.cc, n), n)
           Mine     == {x \in MatrixCells : x.h = h}
<1>5. OfMatrix(h, mm) = {Of(x, mm) : x \in Mine} /\ OfMatrix(h, m) = {Of(x, m) : x \in Mine}
  BY <1>2 DEF OfMatrix
<1>6. \A x \in Mine : /\ x # k => Of(x, mm) = Of(x, m)
                      /\ Of(x, mm).asm = Of(x, m).asm /\ (Of(x, mm).div <=> Of(x, m).div)
                      /\ Of(x, m).ct = m.rows[x].status
  BY <1>1, <1>2 DEF Cell, AsmStatus
<1>7. CASE k.h # h
  <2>1. OfMatrix(h, mm) = OfMatrix(h, m)
    BY <1>5, <1>6, <1>7
  <2>2. Cells(h, mm) = Cells(h, m)
    BY <1>4, <2>1 DEF Cells
  <2> QED BY <1>1, <2>2, SameCellsSameRating DEF Clears
<1>8. CASE k.h = h
  <2>1. k \in Mine
    BY <1>8
  <2>2. Of(k, mm).ct = o.status /\ Of(k, mm).funcs = o.funcs
    BY <1>2 DEF Cell
  <2> HIDE DEF Of, Mine
  <2>3. Of(k, mm) \in Cells(h, mm) /\ Of(k, m) \in Cells(h, m)
    BY <1>5, <2>1 DEF Cells
  <2>4. Of(k, mm).ct = "FAIL" /\ Of(k, mm).funcs = "other"
    BY <1>1, <2>2, <2>3, AccountedCell DEF WorseOutcomes
  <2>5. \A c \in Cells(h, m) : c \in Cells(h, mm) \/ c = Of(k, m)
    BY <1>4, <1>5, <1>6 DEF Cells
  <2>6. \A d \in Cells(h, mm) : d \in Cells(h, m) \/ d = Of(k, mm)
    BY <1>4, <1>5, <1>6 DEF Cells
  <2>7. /\ Of(k, m).ct = "PASS" /\ Of(k, m).asm = Of(k, mm).asm
        /\ (Of(k, m).div <=> Of(k, mm).div)
    BY <1>6, <2>1
  <2>8. \A c \in Cells(h, m) : \E d \in Cells(h, mm) :
            c.asm = d.asm /\ (c.div <=> d.div) /\ c.ct \in {"PASS", d.ct}
    BY <2>3, <2>5, <2>7
  <2>9. \A d \in Cells(h, mm) : d.div => \E c \in Cells(h, m) : c.div
    BY <2>3, <2>6, <2>7
  <2>10. \E c \in Cells(h, m) : c.ct # "NA"
    BY <2>3, <2>7
  <2>11. Softer(h, mm)
    BY <2>8, <2>9, <2>10 DEF Softer
  <2> QED BY <1>1, <2>3, <2>4, <2>11, Softened
<1> QED BY <1>7, <1>8

\* A compiler whose scan breaks.
LEMMA WorseScanClears ==
    ASSUME IInv, Measurement(m), NEW h \in Harnesses, NEW cc \in m.ok, NEW mm,
           mm = [m EXCEPT !.ok = @ \ {cc}, !.cands = {k \in @ : k.cc # cc}], Clears(h, mm)
    PROVE  Rating(h, m) = "no-finding-observed"
<1>1. /\ mm.ct = m.ct /\ mm.rows = m.rows /\ mm.ok = m.ok \ {cc} /\ mm.timing = m.timing
      /\ plan \in Plans /\ cc \in plan.asmCCs
  BY DEF IInv, Stages, TypeOK
<1>2. h \notin plan.templates
  <2>1. Measurement(mm)
    BY <1>1 DEF Measurement
  <2> QED BY <1>1, <2>1, AllScanned
<1>3. /\ OfMatrix(h, mm) = OfMatrix(h, m) /\ OfAsmOnly(h, mm) = OfAsmOnly(h, m)
      /\ OfPrimary(h, mm) = OfPrimary(h, m)
  <2>1. \A x \in DOMAIN m.rows : x.h # h
    <3>1. DOMAIN m.rows = MatrixCells
      BY DEF Measurement
    <3> QED BY <1>2, <3>1 DEF MatrixCells
  <2>2. \A x \in AsmKeys : x.h # h
    BY <1>2 DEF AsmKeys
  <2>3. OfPrimary(h, mm) = OfPrimary(h, m)
    BY <1>1, <1>2 DEF OfPrimary, PrimaryCell
  <2>4. OfAsmOnly(h, mm) = {} /\ OfAsmOnly(h, m) = {}
    BY <2>2 DEF OfAsmOnly
  <2>5. OfMatrix(h, mm) = {} /\ OfMatrix(h, m) = {}
    BY <1>1, <2>1 DEF OfMatrix
  <2> QED BY <2>3, <2>4, <2>5
<1>4. Cells(h, mm) = Cells(h, m)
  BY <1>3 DEF Cells
<1> QED BY <1>1, <1>4, SameCellsSameRating DEF Clears

\* Such cells make the same structural layer.
LEMMA LikeCells ==
    ASSUME NEW A, NEW B, \A c \in A : \E d \in B : Like(c, d),
           \A d \in B : \E c \in A : Like(c, d)
    PROVE  /\ StatusesOf(A) = StatusesOf(B)
           /\ OnlyRegistered(A) <=> OnlyRegistered(B)
           /\ B # {} /\ (\A d \in B : d.asm = "PASS") => A # {} /\ \A c \in A : c.asm = "PASS"
<1>1. \A s : s \in StatusesOf(A) <=> s \in StatusesOf(B)
  BY DEF StatusesOf, Like
<1>2. OnlyRegistered(A) <=> OnlyRegistered(B)
  BY DEF OnlyRegistered, Like
<1>3. B # {} /\ (\A d \in B : d.asm = "PASS") => A # {} /\ \A c \in A : c.asm = "PASS"
  BY DEF Like
<1> QED BY <1>1, <1>2, <1>3

\* One more division at a place that was scanned.
LEMMA MoreDivisionsClears ==
    ASSUME IInv, Measurement(m), NEW h \in Harnesses, NEW k \in ScannedKeys(m.ok), NEW mm,
           mm = [m EXCEPT !.cands = @ \cup {k}], Clears(h, mm)
    PROVE  Rating(h, m) = "no-finding-observed"
<1>1. /\ mm.ct = m.ct /\ mm.rows = m.rows /\ mm.ok = m.ok /\ mm.timing = m.timing
      /\ mm.cands = m.cands \cup {k} /\ plan \in Plans
      /\ k \in AsmKeys /\ k.cc \in m.ok
  BY DEF IInv, Stages, TypeOK, ScannedKeys
<1>2. \A cc : AsmStatus(cc, mm) = AsmStatus(cc, m)
  BY <1>1 DEF AsmStatus
<1>3. OfPrimary(h, mm) = OfPrimary(h, m)
  BY <1>1, <1>2 DEF OfPrimary, PrimaryCell
<1>4. CASE k.h # h
  <2>2. OfMatrix(h, mm) = OfMatrix(h, m) /\ OfAsmOnly(h, mm) = OfAsmOnly(h, m)
    <3>1. \A x : MatrixOf(h, x, mm) = MatrixOf(h, x, m)
      BY <1>1, <1>2, <1>4 DEF MatrixOf, Cell
    <3>2. \A x : ScanOf(h, x, mm) = ScanOf(h, x, m)
      BY <1>1, <1>2, <1>4 DEF ScanOf, Cell
    <3>3. DOMAIN mm.rows = DOMAIN m.rows
      BY <1>1
    <3> QED BY <3>1, <3>2, <3>3, SameCells, Zenon
  <2>3. Cells(h, mm) = Cells(h, m)
    BY <1>3, <2>2 DEF Cells
  <2> QED BY <1>1, <2>3, SameCellsSameRating DEF Clears
<1>5. CASE k.h = h
  <2> DEFINE A == Cells(h, m)
             B == Cells(h, mm)
             e == EvidenceFrom(h, A, m)
             f == EvidenceFrom(h, B, mm)
  <2>1. PICK w \in B : w.asm = "PASS" /\ w.div
    <3>1. AsmStatus(k.cc, mm) = "PASS" /\ k \in mm.cands
      BY <1>1, <1>2 DEF AsmStatus
    <3> QED BY <1>1, <1>5, <3>1, ScanCell
  <2>2. /\ Reviewed(h) /\ ReviewOf(h, B) = "reviewed" /\ plan.triage[h].varlat = "public"
    BY <1>1, <2>1, DivisionReviewed
  <2>3. (\A c \in A : \E d \in B : Like(c, d)) /\ (\A d \in B : \E c \in A : Like(c, d))
    <3>1. \A x : /\ Like(MatrixOf(h, x, m), MatrixOf(h, x, mm))
                 /\ Like(MatrixOf(h, x, mm), MatrixOf(h, x, m))
                 /\ Like(ScanOf(h, x, m), ScanOf(h, x, mm))
                 /\ Like(ScanOf(h, x, mm), ScanOf(h, x, m))
      BY <1>1, <1>2 DEF Like, Cell, MatrixOf, ScanOf
    <3>2. /\ \A c \in OfMatrix(h, m) : \E d \in OfMatrix(h, mm) : Like(c, d)
          /\ \A c \in OfAsmOnly(h, m) : \E d \in OfAsmOnly(h, mm) : Like(c, d)
      <4>1. DOMAIN m.rows = DOMAIN mm.rows
        BY <1>1
      <4> QED BY <3>1, <4>1, CellsAlike, Zenon
    <3>3. /\ \A d \in OfMatrix(h, mm) : \E c \in OfMatrix(h, m) : Like(d, c)
          /\ \A d \in OfAsmOnly(h, mm) : \E c \in OfAsmOnly(h, m) : Like(d, c)
      <4>1. DOMAIN mm.rows = DOMAIN m.rows
        BY <1>1
      <4> QED BY <3>1, <4>1, CellsAlike, Zenon
    <3>5. \A c, d : Like(d, c) => Like(c, d)
      BY DEF Like
    <3>4. \A c \in OfPrimary(h, m) : Like(c, c)
      BY DEF Like
    <3> QED BY <1>3, <3>2, <3>3, <3>4, <3>5 DEF Cells
  <2>4. StatusesOf(A) = StatusesOf(B)
    BY <2>3, LikeCells
  <2>5. OnlyRegistered(A) <=> OnlyRegistered(B)
    BY <2>3, LikeCells
  <2>6. (\A c \in B : c.asm = "PASS") /\ (\A c \in A : c.asm = "PASS") /\ A # {}
    <3>1. Asm(B) \notin {"error", "incomplete"}
      BY ClearedLayers DEF Clears
    <3>2. \A c \in B : c.asm = "PASS"
      BY <2>1, <3>1, AsmSettled
    <3> QED BY <2>1, <2>3, <3>2, LikeCells
  <2>7. Asm(A) \in {"candidate", "no-candidate"}
    BY <2>6, AsmOfScanned
  <2>8. plan.triage[h] # None /\ Varlat(plan.triage[h]) = "public"
    BY <2>2 DEF Reviewed, Varlat
  <2>9. ClassOf(h, A) = ClassOf(h, B)
    <3>1. AutoClass(A, "public") = AutoClass(B, "public")
      BY <2>4, <2>5, <2>6 DEF AutoClass
    <3> QED BY <2>8, <3>1 DEF ClassOf, Class
  <2>10. AttribOf(h, A) \in {"public", "not-applicable"}
    BY <2>7, <2>8 DEF AttribOf, Attribution
  <2>11. ReviewOf(h, A) = "reviewed"
    BY <2>2, <2>8 DEF ReviewOf, Review
  <2>12. /\ e.correctness = f.correctness /\ e.structural = f.structural
         /\ e.validity = f.validity /\ e.signal = f.signal
         /\ e.class = f.class /\ e.review = "reviewed" /\ f.review = "reviewed"
         /\ e.asm \in {"candidate", "no-candidate"}
         /\ e.attribution \in {"public", "not-applicable"}
    BY <1>1, <2>2, <2>4, <2>7, <2>9, <2>10, <2>11, EvidenceFields DEF TimingOf
  <2>13. /\ f.correctness \notin {"fail", "not-run"}
         /\ ~Risk(f) /\ ~ToolError(f) /\ ~Incomplete(f) /\ ~Unresolved(f)
    BY Clearing DEF Clears, Rating
  <2> HIDE DEF e, f
  <2>14. /\ e.correctness \notin {"fail", "not-run"}
         /\ ~Risk(e) /\ ~ToolError(e) /\ ~Incomplete(e) /\ ~Unresolved(e) /\ ~NothingRan(e)
    BY <2>12, <2>13 DEF Risk, ToolError, Incomplete, Unresolved, NothingRan
  <2>15. Fold(e) = "no-finding-observed"
    BY <2>14, Clearing
  <2> QED BY <2>15 DEF Rating, e
<1> QED BY <1>4, <1>5

\* WorseNeverClears: classification, review and fold are monotone together,
\* for every number of harnesses, builds and compilers.
THEOREM WorseNeverCleared == Spec => []WorseNeverClears
<1>1. ASSUME IInv, pc = "summary", NEW h \in Harnesses, NEW mm \in Worse(m), Clears(h, mm)
      PROVE  Rating(h, m) = "no-finding-observed"
  <2>1. Measurement(m)
    BY <1>1 DEF IInv, TypeOK, Stages, Measurement
  <2>2. CASE mm \in WorsePrimary(m)
    <3>1. PICK g \in {x \in CtHarnesses : m.ct[x].status = "PASS"}, o \in WorseOutcomes :
              mm = [m EXCEPT !.ct[g] = o]
      BY <2>2 DEF WorsePrimary
    <3> QED BY <1>1, <2>1, <3>1, WorsePrimaryClears
  <2>3. CASE mm \in WorseBuild(m)
    <3>1. PICK k \in {x \in MatrixCells : m.rows[x].status = "PASS"}, o \in WorseOutcomes :
              mm = [m EXCEPT !.rows[k] = o]
      BY <2>3 DEF WorseBuild
    <3> QED BY <1>1, <2>1, <3>1, WorseBuildClears
  <2>4. CASE mm \in WorseScan(m)
    <3>1. PICK cc \in m.ok : mm = [m EXCEPT !.ok = @ \ {cc}, !.cands = {k \in @ : k.cc # cc}]
      BY <2>4 DEF WorseScan
    <3> QED BY <1>1, <2>1, <3>1, WorseScanClears
  <2>5. CASE mm \in MoreDivisions(m)
    <3>1. PICK k \in ScannedKeys(m.ok) : mm = [m EXCEPT !.cands = @ \cup {k}]
      BY <2>5 DEF MoreDivisions
    <3> QED BY <1>1, <2>1, <3>1, MoreDivisionsClears
  <2> QED BY <1>1, <2>2, <2>3, <2>4, <2>5 DEF Worse
<1>2. IInv => WorseNeverClears
  BY <1>1 DEF WorseNeverClears, Clears
<1> QED BY <1>2, ScreenInductive, PTL
=============================================================================
