------------------------------ MODULE Verdict ------------------------------
(***************************************************************************)
(* The combined verdict of one harness (ctkat/verdict.py, and the folding  *)
(* of timing validity in ctkat/cli.py, _compute_verdicts), and the         *)
(* classification of one Valgrind run (ctkat/ct_runner.py).                *)
(***************************************************************************)
EXTENDS Naturals

CtStatuses     == {"PASS", "FAIL", "ERROR", "NONE"}
KatStatuses    == {"PASS", "FAIL", "NONE"}
Verdicts       == {"CLEAN", "STRUCTURAL_LEAK", "SUSPECT", "RISKY", "CRITICAL",
                   "INCONCLUSIVE"}
AllValidities  == {"valid", "confounded", "insufficient-power",
                   "environment-rejected", "error"}

\* The pairs of (valgrind, dudect) statuses the matrix has an entry for.
MatrixKeys ==
    ({"PASS", "FAIL", "NONE"} \X {"PASS", "WARNING", "FAIL", "NONE"})
        \cup ({"ERROR"} \X {"PASS", "WARNING", "FAIL", "ERROR", "NONE"})
        \cup ({"PASS", "FAIL", "NONE"} \X {"ERROR"})

\* Its entries.  "NONE" is a stage that did not run for the harness.
Matrix(ct, timing) ==
    IF ct = "ERROR" \/ timing = "ERROR" THEN "INCONCLUSIVE"
    ELSE IF timing = "FAIL"    THEN IF ct = "FAIL" THEN "CRITICAL" ELSE "RISKY"
    ELSE IF timing = "WARNING" THEN IF ct = "FAIL" THEN "RISKY" ELSE "SUSPECT"
    ELSE IF ct = "FAIL" THEN "STRUCTURAL_LEAK" ELSE "CLEAN"

\* A failed KAT is a precondition, not an axis of the matrix.
Combine(ct, timing, kat) ==
    IF kat = "FAIL" THEN "INCONCLUSIVE" ELSE Matrix(ct, timing)

-----------------------------------------------------------------------------
(* What a timing stage can say of a harness: a raw status and how far the  *)
(* target-level protocol allows it to be interpreted.                      *)

TimingResults ==
    [status : {"ERROR"}, validity : {"error"}]
        \cup [status   : {"INSUFFICIENT"},
              validity : {"insufficient-power", "environment-rejected", "error"}]
        \cup [status : {"PASS", "WARNING", "FAIL"}, validity : AllValidities]

NotMeasured == [status |-> "NONE", validity |-> ""]

\* A mutant of DecisionStatus: the raw status decides.
RawStatus(r) == r.status

\* The status the matrix is asked with: a result that is not valid can
\* neither clear nor convict the harness.
DecisionStatus(r) ==
    IF r.validity \in {"", "valid"} THEN r.status ELSE "ERROR"

-----------------------------------------------------------------------------
(* One Valgrind run: its exit code (124 and 127 stand for a timeout and a  *)
(* missing tool), the log it left, and whether the parser recognised at    *)
(* least one finding in it.                                                *)

ValgrindRuns ==
    [rc : {"0", "99", "other"}, log : {"absent", "oversized", "text"},
     findings : BOOLEAN]

\* A mutant of ClassifyValgrind: exit code 99 with nothing recognised passes.
ClassifyByFindings(run) ==
    IF run.rc = "other" \/ run.log # "text" THEN "ERROR"
    ELSE IF run.findings THEN "FAIL" ELSE "PASS"

ClassifyValgrind(run) ==
    IF \/ run.rc = "other"
       \/ run.log # "text"
       \/ run.rc = "99" /\ ~run.findings
    THEN "ERROR"
    ELSE IF run.findings THEN "FAIL" ELSE "PASS"
=============================================================================
