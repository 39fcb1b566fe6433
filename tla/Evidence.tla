------------------------------ MODULE Evidence ------------------------------
(***************************************************************************)
(* Evidence schema v2 (ctkat/evidence.py) and the legacy verdict class     *)
(* (ctkat/verdict_class.py): how the build cells of one harness, its       *)
(* timing result and its triage entry become the layers of evidence, and   *)
(* how the layers fold into the one overall state a user acts on.          *)
(*                                                                         *)
(* A cell is one (compiler, optimisation level): its structural status, a  *)
(* class of its leak-site functions, its asm coverage and whether the asm  *)
(* scan found a division there.                                            *)
(***************************************************************************)
EXTENDS Naturals

CONSTANT None           \* an optional field that is not set

CellStatuses == {"PASS", "FAIL", "ERROR", "NA"}
FuncClasses  == {"none", "registered", "other"}
AsmStatuses  == {"PASS", "ERROR", "NOT_RUN"}

VerdictClasses ==
    {"robust", "ct-clean-untriaged", "ct-clean-asm-incomplete", "varlat-secret-risk",
     "build-sensitive-ct", "accepted-variable-time", "needs-analysis", "ct-leak",
     "tool-problem"}

StopClasses == {"ct-clean-untriaged", "ct-clean-asm-incomplete", "needs-analysis",
                "tool-problem"}

Overalls == {"no-finding-observed", "risk-detected", "needs-review", "inconclusive",
             "tool-error"}

\* What triage.yaml may say of a harness.
Triages ==
    {t \in [varlat  : {"public", "secret-risk", "mixed", "none", "untriaged"},
            verdict : VerdictClasses \cup {None},
            note    : BOOLEAN,
            review  : {"not-needed", "pending", "reviewed", "disputed", "expired"},
            id      : BOOLEAN] :
        /\ t.review \in {"reviewed", "disputed", "expired"} => t.id
        /\ t.review = "not-needed" =>
               ~t.id /\ ~t.note /\ t.verdict = None /\ t.varlat = "untriaged"}

-----------------------------------------------------------------------------
(* The layers                                                              *)

StatusesOf(cells) == {c.ct : c \in cells}

\* A mutant of Structural: the errors of some builds are dropped.
StructuralOfMeasured(statuses) ==
    LET attempted == statuses \ {"NA", "ERROR"} IN
    IF attempted = {} THEN "not-run"
    ELSE IF "FAIL" \in attempted THEN "finding" ELSE "no-finding"

Structural(statuses) ==
    LET attempted == statuses \ {"NA"} IN
    IF attempted = {} THEN "not-run"
    ELSE IF attempted = {"ERROR"} THEN "error"
    ELSE IF "ERROR" \in attempted THEN "incomplete"
    ELSE IF "FAIL" \in attempted THEN "finding" ELSE "no-finding"

Asm(cells) ==
    IF \A c \in cells : c.asm = "NOT_RUN" THEN "not-run"
    ELSE IF \A c \in cells : c.asm = "ERROR" THEN "error"
    ELSE IF \E c \in cells : c.asm # "PASS" THEN "incomplete"
    ELSE IF \E c \in cells : c.div THEN "candidate" ELSE "no-candidate"

\* A mutant of Attribution: the triage entry is taken whatever was scanned.
AttributionOfTriage(asm, varlat) ==
    IF varlat \in {"untriaged", "none"} THEN "unresolved" ELSE varlat

Attribution(asm, varlat) ==
    IF asm \in {"no-candidate", "not-run"} THEN "not-applicable"
    ELSE IF asm = "error" \/ varlat \in {"untriaged", "none"} THEN "unresolved"
    ELSE varlat

\* A raw timing status is interpreted with its validity, and taken for one
\* without power when it has none; one that did not complete has no signal.
Signal(status) ==
    IF status = "PASS" THEN "no-signal-observed"
    ELSE IF status = "WARNING" THEN "warning"
    ELSE IF status = "FAIL" THEN "signal" ELSE "not-interpretable"

Timing(r) ==
    IF r.status = "NONE" THEN [validity |-> "not-run", signal |-> "not-run"]
    ELSE IF r.status = "ERROR" THEN [validity |-> "error", signal |-> "not-interpretable"]
    ELSE [validity |-> IF r.validity = "" THEN "insufficient-power" ELSE r.validity,
          signal   |-> Signal(r.status)]

-----------------------------------------------------------------------------
(* The legacy class, its basis and the review state                        *)

OnlyRegistered(cells) ==
    /\ \E c \in cells : c.funcs # "none"
    /\ \A c \in cells : c.funcs # "other"

AutoClass(cells, varlat) ==
    LET statuses == StatusesOf(cells)
        only     == statuses \ {"ERROR", "NA"}
    IN
    IF {"PASS", "FAIL"} \subseteq statuses THEN "build-sensitive-ct"
    ELSE IF only = {"FAIL"}
         THEN IF OnlyRegistered(cells) THEN "accepted-variable-time" ELSE "needs-analysis"
    ELSE IF varlat = "secret-risk" THEN "varlat-secret-risk"
    ELSE IF only # {"PASS"} \/ "ERROR" \in statuses THEN "tool-problem"
    ELSE IF \E c \in cells : c.asm # "PASS" THEN "ct-clean-asm-incomplete"
    ELSE IF (\E c \in cells : c.div) /\ varlat \notin {"none", "public"}
         THEN "ct-clean-untriaged"
    ELSE "robust"

Varlat(triage)  == IF triage = None THEN "untriaged" ELSE triage.varlat

Class(cells, triage) ==
    IF triage # None /\ triage.verdict # None THEN triage.verdict
    ELSE AutoClass(cells, Varlat(triage))

Basis(class, cells, triage) ==
    IF class \in StopClasses THEN "stop"
    ELSE IF triage # None /\ (triage.verdict # None \/ triage.note) THEN "review"
    ELSE IF (\E c \in cells : c.div) /\ Varlat(triage) \in {"public", "secret-risk"}
         THEN "review" ELSE "auto"

ReviewNeeded(class, basis, attribution) ==
    \/ basis \in {"review", "stop"}
    \/ class \in {"accepted-variable-time", "needs-analysis", "ct-leak",
                  "varlat-secret-risk"}
    \/ attribution # "not-applicable"

\* A requested "not-needed" that contradicts the evidence raises.
ReviewRefused(class, basis, attribution, triage) ==
    /\ triage # None /\ triage.review = "not-needed"
    /\ ReviewNeeded(class, basis, attribution)

\* A mutant of Review: what is needed and not requested is taken as done.
ReviewPresumed(class, basis, attribution, triage) ==
    IF triage # None THEN triage.review ELSE "not-needed"

Review(class, basis, attribution, triage) ==
    IF triage # None THEN triage.review
    ELSE IF ReviewNeeded(class, basis, attribution) THEN "pending" ELSE "not-needed"

-----------------------------------------------------------------------------
(* The fold.  e is a record of the layers, the review and the class.       *)

Risk(e) ==
    \/ e.validity = "valid" /\ e.signal = "signal"
    \/ e.class = "build-sensitive-ct"
    \/ /\ e.review = "reviewed"
       /\ \/ e.class \in {"ct-leak", "varlat-secret-risk"}
          \/ e.attribution \in {"secret-risk", "mixed"}

ToolError(e) ==
    "error" \in {e.correctness, e.structural, e.asm, e.validity}

Incomplete(e) ==
    \/ "incomplete" \in {e.structural, e.asm}
    \/ e.validity \in {"confounded", "insufficient-power", "environment-rejected"}
    \/ e.validity = "valid" /\ e.signal = "not-interpretable"

\* Something a human has to decide, and has not.
Unresolved(e) ==
    \/ e.validity = "valid" /\ e.signal = "warning"
    \/ e.review \in {"pending", "disputed", "expired"}
    \/ e.attribution = "unresolved"
    \/ e.class \in {"needs-analysis", "ct-clean-untriaged"}
    \/ e.structural = "finding" /\ e.class # "accepted-variable-time"
    \/ /\ e.review # "reviewed"
       /\ \/ e.attribution # "not-applicable"
          \/ e.class \in {"accepted-variable-time", "ct-leak", "varlat-secret-risk"}

NothingRan(e) ==
    /\ e.structural = "not-run" /\ e.asm = "not-run" /\ e.validity = "not-run"

\* A mutant of Fold: a tool failure is reported before a confirmed risk.
FoldErrorsFirst(e) ==
    IF e.correctness = "fail" THEN "inconclusive"
    ELSE IF ToolError(e) THEN "tool-error"
    ELSE IF Risk(e) THEN "risk-detected"
    ELSE IF e.correctness = "not-run" \/ Incomplete(e) THEN "inconclusive"
    ELSE IF Unresolved(e) THEN "needs-review"
    ELSE IF NothingRan(e) THEN "inconclusive"
    ELSE "no-finding-observed"

\* The order of the questions is the point: risk before tool errors, tool
\* errors before what could clear, review before clearing.
Fold(e) ==
    IF e.correctness = "fail" THEN "inconclusive"
    ELSE IF Risk(e) THEN "risk-detected"
    ELSE IF ToolError(e) THEN "tool-error"
    ELSE IF e.correctness = "not-run" \/ Incomplete(e) THEN "inconclusive"
    ELSE IF Unresolved(e) THEN "needs-review"
    ELSE IF NothingRan(e) THEN "inconclusive"
    ELSE "no-finding-observed"

\* build_evidence: the record of one harness.
EvidenceOf(correctness, cells, timing, triage) ==
    LET class       == Class(cells, triage)
        asm         == Asm(cells)
        attribution == Attribution(asm, Varlat(triage))
    IN  [correctness |-> correctness,
         structural  |-> Structural(StatusesOf(cells)),
         asm         |-> asm,
         attribution |-> attribution,
         validity    |-> Timing(timing).validity,
         signal      |-> Timing(timing).signal,
         review      |-> Review(class, Basis(class, cells, triage), attribution, triage),
         class       |-> class]

\* What EvidenceV2 refuses to be constructed from, apart from the text of an ID.
Consistent(e, triage) ==
    /\ e.review \in {"reviewed", "disputed", "expired"} => (triage # None /\ triage.id)
    /\ e.review = "not-needed" => (triage = None \/ ~triage.id)
    /\ e.validity = "not-run" <=> e.signal = "not-run"
    /\ e.asm \in {"no-candidate", "not-run"} => e.attribution = "not-applicable"
    /\ e.asm = "candidate" => e.attribution # "not-applicable"
=============================================================================
