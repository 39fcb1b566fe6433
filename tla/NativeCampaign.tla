--------------------------- MODULE NativeCampaign ---------------------------
(***************************************************************************)
(* The native timing campaign runner                                       *)
(* (scripts/run_native_timing_campaign.py: execute_campaign, validate_run, *)
(* write_updates and the target attestation).                              *)
(*                                                                         *)
(* One behaviour is the life of ONE output root: a campaign is started in  *)
(* it, its process may be killed or interrupted at any point, and an       *)
(* operator may resume it any number of times.  A process measures the     *)
(* selected targets in manifest order and leaves five kinds of durable     *)
(* state: the five timing artifacts of a target, its attestation, the      *)
(* campaign report (header, status and the index of targets) and the CSV   *)
(* of corpus updates.  Each of those files is replaced by a write of its   *)
(* own, so a crash can separate any two of them.                           *)
(*                                                                         *)
(* A target is its position in the manifest.  An origin stands for         *)
(* everything a resume compares with the report: the host and boot         *)
(* fingerprint, the CT-KAT commit, the manifest hash and the execution     *)
(* profile.  A SHA-256 of a file is the content of the file.               *)
(***************************************************************************)
EXTENDS Naturals, FiniteSets

CONSTANTS
    Targets,       \* positions of the targets in the campaign manifest
    Origins,       \* frozen inputs a campaign may be started or resumed from
    Eligibilities, \* what preflight may say of the host: paper-eligible or not
    MaxFaults,     \* bound on kills, interrupts, failed and bad measurements
    MaxTries,      \* bound on the number of measurements of one target
    None,          \* an absent file, record, or value
    Partial        \* a report_dir with some of the five artifacts, not all

RunKinds == {"engineering", "pilot", "final"}

\* The five artifacts of one measurement, complete on disk.  "ok" is the
\* absence of errors in validate_target_artifacts, "valid" says that no
\* harness carries a blocker of its own, "resumed" that a --resume session
\* measured it.  "try" tells the measurements of one target apart.
Bundles == [try : Nat, origin : Origins, resumed : BOOLEAN,
            ok : BOOLEAN, valid : BOOLEAN]

Attestations == [origin : Origins, art : Bundles]
Rows         == [art : Bundles, eligible : BOOLEAN]
Records      == [complete : BOOLEAN, promo : BOOLEAN,
                 art : Bundles \cup {None}, seal : Attestations \cup {None}]
Headers      == [kind : RunKinds, origin : Origins, eligible : BOOLEAN]

ASSUME CampaignConstants ==
    /\ Targets \subseteq Nat
    /\ Eligibilities \subseteq BOOLEAN
    /\ MaxFaults \in Nat /\ MaxTries \in Nat
    /\ None \notin Bundles \cup Attestations \cup Rows \cup Records
                   \cup Headers \cup {Partial} \cup Targets
    /\ Partial \notin Bundles

VARIABLES
    \* campaign_report.json: one file, always replaced as a whole
    header,     \* run kind, origin and host eligibility, or None
    status,     \* its "status", "absent", or "torn" (only the .tmp is there)
    selected,   \* its "selected_targets"
    promoted,   \* its "paper_promotion_ready"
    index,      \* its "targets"
    \* the other files of the output root
    artifacts,  \* per target: None, Partial or a bundle
    attest,     \* per target: run_attestation.json or None
    csv,        \* per target: its rows in corpus_timing_updates.csv or None
    \* the runner process
    pc,         \* where it is in execute_campaign
    session,    \* what it was launched with, or None
    todo,       \* the targets its loop has not reached
    cur,        \* the target it works on, or None
    val,        \* per target, the artifacts it validated, or None
    seen,       \* the targets in its list of validations
    failed,     \* its "execution_failed"
    \* what its shell saw last
    exit,       \* how the last process ended, and over which targets
    refused,    \* the target a resume stopped at, or None
    faults, tries

report == <<header, status, selected, promoted, index>>
files  == <<artifacts, attest, csv>>
work   == <<todo, cur, val, seen, failed>>
ghosts == <<exit, refused, faults, tries>>
vars   == <<report, files, pc, session, work, ghosts>>

-----------------------------------------------------------------------------
(* Validation of what is on disk.                                          *)

Complete(b) == b \in Bundles /\ b.ok

\* A target is promotable when its own harnesses carry no blocker, the host
\* is paper-eligible and the run is a final one.
Promotable(b, kind, eligible) ==
    Complete(b) /\ b.valid /\ eligible /\ kind = "final"

\* The rows a validation contributes to the CSV.  They carry the blocker
\* "campaign host is engineering-only" when the host is not eligible.
RowsOf(b, eligible) ==
    IF b = None THEN None ELSE [art |-> b, eligible |-> eligible]

Attestation(b, origin) == [origin |-> origin, art |-> b]

Indexed(t) == index[t] # None
IndexedComplete(t) == Indexed(t) /\ index[t].complete

\* The checks validate_run makes of one target, against the report.
TargetRevalidates(t) ==
    LET b == artifacts[t]
    IN  /\ Complete(b)
        /\ attest[t] = Attestation(b, header.origin)
        /\ Indexed(t)
        /\ index[t].seal = attest[t]
        /\ index[t].art = b
        /\ index[t].complete
        /\ index[t].promo = Promotable(b, header.kind, header.eligible)
        /\ csv[t] = RowsOf(b, header.eligible)

\* The exit code of --validate-run over the targets S.
ValidateRun(S) ==
    LET promotable == \A t \in S :
                         Promotable(artifacts[t], header.kind, header.eligible)
    IN  IF \/ header = None
           \/ ~(S \subseteq selected)
           \/ \E t \in S : ~TargetRevalidates(t)
           \/ status # "complete"
           \/ promoted # promotable
        THEN 1
        ELSE IF header.kind = "final" /\ ~promotable THEN 2 ELSE 0

-----------------------------------------------------------------------------
(* The process.                                                            *)

Sessions == [kind : RunKinds, resume : BOOLEAN, keepGoing : BOOLEAN,
             eligible : BOOLEAN, origin : Origins]

Measuring == {"measuring", "emitting", "validating"}
Recording == {"attesting", "indexing", "merging"}
Closing   == {"closing", "publishing"}
Phases    == {"idle", "loop"} \cup Measuring \cup Recording \cup Closing

\* A process that starts, or is gone, has validated nothing.
Work(S) ==
    /\ todo' = S /\ cur' = None /\ val' = [t \in Targets |-> None]
    /\ seen' = {} /\ failed' = FALSE

Init ==
    /\ header = None /\ status = "absent" /\ selected = {}
    /\ promoted = FALSE /\ index = [t \in Targets |-> None]
    /\ artifacts = [t \in Targets |-> None]
    /\ attest = [t \in Targets |-> None]
    /\ csv = [t \in Targets |-> None]
    /\ pc = "idle" /\ session = None
    /\ todo = {} /\ cur = None /\ val = [t \in Targets |-> None]
    /\ seen = {} /\ failed = FALSE
    /\ exit = [code |-> "none", seen |-> {}, eligible |-> FALSE]
    /\ refused = None /\ faults = 0 /\ tries = [t \in Targets |-> 0]

StartSession(kind, resume, keep, eligible, origin, S) ==
    /\ pc' = "loop"
    /\ session' = [kind |-> kind, resume |-> resume, keepGoing |-> keep,
                   eligible |-> eligible, origin |-> origin]
    /\ Work(S)
    /\ refused' = None
    /\ exit' = [code |-> "none", seen |-> {}, eligible |-> FALSE]

EndSession(code, covered, eligible) ==
    /\ pc' = "idle"
    /\ session' = None
    /\ Work({})
    /\ exit' = [code |-> code, seen |-> covered, eligible |-> eligible]

Fault == faults < MaxFaults /\ faults' = faults + 1

\* Pilot and final runs need a paper-eligible host; a final run has passed
\* its premeasurement gate before it gets here.
HostAccepted(kind, eligible) == kind \in {"pilot", "final"} => eligible

\* --execute without --resume needs an empty output root.
LaunchFresh(kind, keep, eligible, origin, S) ==
    /\ pc = "idle"
    /\ status = "absent"
    /\ HostAccepted(kind, eligible)
    /\ header' = [kind |-> kind, origin |-> origin, eligible |-> eligible]
    /\ status' = "running"
    /\ selected' = S
    /\ promoted' = FALSE
    /\ index' = [t \in Targets |-> None]
    /\ StartSession(kind, FALSE, keep, eligible, origin, S)
    /\ UNCHANGED <<files, faults, tries>>

\* Killed while the first report is still in its temporary file: the root is
\* not empty any more and holds no report, so no launch is accepted in it.
LaunchTorn(kind, eligible) ==
    /\ pc = "idle"
    /\ status = "absent"
    /\ HostAccepted(kind, eligible)
    /\ Fault
    /\ status' = "torn"
    /\ exit' = [code |-> "killed", seen |-> {}, eligible |-> FALSE]
    /\ UNCHANGED <<header, selected, promoted, index, files, pc, session,
                   work, refused, tries>>

\* Mutants of LaunchResume: it forgets to compare the host or to turn final runs
\* away, or it also turns away a campaign with a failed target.
LaunchResumeAnywhere(kind, keep, eligible, origin, S) ==
    /\ pc = "idle" /\ header # None /\ kind # "final"
    /\ HostAccepted(kind, eligible) /\ header.kind = kind
    /\ status' = "running" /\ selected' = selected \cup S
    /\ StartSession(kind, TRUE, keep, eligible, origin, S)
    /\ UNCHANGED <<header, promoted, index, files, faults, tries>>

LaunchResumeFinal(kind, keep, eligible, origin, S) ==
    /\ pc = "idle" /\ header # None
    /\ HostAccepted(kind, eligible) /\ header.kind = kind /\ header.origin = origin
    /\ status' = "running" /\ selected' = selected \cup S
    /\ StartSession(kind, TRUE, keep, eligible, origin, S)
    /\ UNCHANGED <<header, promoted, index, files, faults, tries>>

LaunchResumeUnfailed(kind, keep, eligible, origin, S) ==
    /\ pc = "idle" /\ header # None /\ kind # "final" /\ status # "failed"
    /\ HostAccepted(kind, eligible) /\ header.kind = kind /\ header.origin = origin
    /\ status' = "running" /\ selected' = selected \cup S
    /\ StartSession(kind, TRUE, keep, eligible, origin, S)
    /\ UNCHANGED <<header, promoted, index, files, faults, tries>>

\* --execute --resume.
LaunchResume(kind, keep, eligible, origin, S) ==
    /\ pc = "idle"
    /\ header # None
    /\ kind # "final"
    /\ HostAccepted(kind, eligible)
    /\ header.kind = kind
    /\ header.origin = origin
    /\ status' = "running"
    /\ selected' = selected \cup S
    /\ StartSession(kind, TRUE, keep, eligible, origin, S)
    /\ UNCHANGED <<header, promoted, index, files, faults, tries>>

\* The targets are visited in manifest order.
NextTarget(t) ==
    /\ pc = "loop"
    /\ t \in todo
    /\ \A u \in todo : t <= u

\* Mutant of Existing: the sense of --resume is turned round.
ExistingWhenFresh(t) == ~session.resume /\ artifacts[t] \in Bundles

\* A resume only looks at a target whose five artifacts all exist.
Existing(t) == session.resume /\ artifacts[t] \in Bundles

\* The attestation and the index agree with complete artifacts.
Attested(t) ==
    /\ Complete(artifacts[t])
    /\ attest[t] = Attestation(artifacts[t], session.origin)
    /\ Indexed(t)
    /\ index[t].seal = attest[t]

\* Mutant of RecordOf: the hash of the attestation is left out.
RecordUnsealed(b, seal) ==
    [complete |-> Complete(b),
     promo    |-> Promotable(b, session.kind, session.eligible),
     art      |-> b,
     seal     |-> None]

RecordOf(b, seal) ==
    [complete |-> Complete(b),
     promo    |-> Promotable(b, session.kind, session.eligible),
     art      |-> b,
     seal     |-> seal]

\* A target measured by an earlier session is taken over as it is.
SkipTarget(t) ==
    /\ NextTarget(t)
    /\ Existing(t)
    /\ Attested(t)
    /\ index' = [index EXCEPT ![t] = RecordOf(artifacts[t], attest[t])]
    /\ todo' = todo \ {t}
    /\ seen' = seen \cup {t}
    /\ val' = [val EXCEPT ![t] = artifacts[t]]
    /\ UNCHANGED <<header, status, selected, promoted, files, pc, session,
                   cur, failed, ghosts>>

\* Existing artifacts that are corrupt, unattested or not in the index make
\* the resume raise CampaignError; the report stays "running".
RefuseTarget(t) ==
    /\ NextTarget(t)
    /\ Existing(t)
    /\ ~Attested(t)
    /\ refused' = t
    /\ EndSession("refused", {}, FALSE)
    /\ UNCHANGED <<report, files, faults, tries>>

ExecuteTarget(t) ==
    /\ NextTarget(t)
    /\ ~Existing(t)
    /\ pc' = "measuring"
    /\ todo' = todo \ {t}
    /\ cur' = t
    /\ UNCHANGED <<report, files, session, val, seen, failed, ghosts>>

\* _do_dudect has measured every harness and writes the first artifacts.
EmitFirst ==
    /\ pc = "measuring"
    /\ artifacts' = [artifacts EXCEPT ![cur] = Partial]
    /\ pc' = "emitting"
    /\ UNCHANGED <<report, attest, csv, session, work, ghosts>>

\* The backend report is the last of the five.
Emitted(ok, valid) ==
    /\ tries[cur] < MaxTries
    /\ tries' = [tries EXCEPT ![cur] = @ + 1]
    /\ artifacts' = [artifacts EXCEPT ![cur] =
                        [try |-> tries[cur] + 1, origin |-> session.origin,
                         resumed |-> session.resume,
                         ok |-> ok, valid |-> valid]]

\* The last artifact is written in place: whatever stops the process in that
\* write leaves five files, of which the last cannot be read.
Torn == pc = "emitting" /\ Emitted(FALSE, FALSE)

\* What a stopped measurement or validation leaves of the artifacts.
Stopped == Torn \/ UNCHANGED <<artifacts, tries>>

EmitLast(ok, valid) ==
    /\ pc = "emitting"
    /\ Emitted(ok, valid)
    /\ IF ok THEN UNCHANGED faults ELSE Fault
    /\ pc' = "validating"
    /\ UNCHANGED <<report, attest, csv, session, work, exit, refused>>

\* Mutant of Validate: the index is written without an attestation.
ValidateUnattested ==
    /\ pc = "validating"
    /\ val' = [val EXCEPT ![cur] = artifacts[cur]]
    /\ pc' = "indexing"
    /\ UNCHANGED <<report, files, session, todo, cur, seen, failed, ghosts>>

\* validate_target_artifacts returns; only complete targets are attested.
Validate ==
    /\ pc = "validating"
    /\ val' = [val EXCEPT ![cur] = artifacts[cur]]
    /\ pc' = IF Complete(artifacts[cur]) THEN "attesting" ELSE "indexing"
    /\ UNCHANGED <<report, files, session, todo, cur, seen, failed, ghosts>>

\* Any exception but KeyboardInterrupt, in the measurement or in the
\* validation, becomes an "execution failed" record without artifacts.
ExecutionFails ==
    /\ pc \in Measuring
    /\ Fault
    /\ Stopped
    /\ pc' = "indexing"
    /\ UNCHANGED <<report, attest, csv, session, work, exit, refused>>

WriteAttestation ==
    /\ pc = "attesting"
    /\ attest' = [attest EXCEPT ![cur] = Attestation(val[cur], session.origin)]
    /\ pc' = "indexing"
    /\ UNCHANGED <<report, artifacts, csv, session, work, ghosts>>

WriteRecord ==
    /\ pc = "indexing"
    /\ index' = [index EXCEPT ![cur] =
                    RecordOf(val[cur],
                             IF Complete(val[cur]) THEN attest[cur] ELSE None)]
    /\ pc' = "merging"
    /\ UNCHANGED <<header, status, selected, promoted, files, session, work,
                   ghosts>>

\* Mutant of MergeRows: the current target is not reset.
MergeRowsKeepingTarget ==
    /\ pc = "merging"
    /\ csv' = [csv EXCEPT ![cur] = RowsOf(val[cur], session.eligible)]
    /\ seen' = seen \cup {cur}
    /\ failed' = (failed \/ ~Complete(val[cur]))
    /\ todo' = IF Complete(val[cur]) \/ session.keepGoing THEN todo ELSE {}
    /\ pc' = "loop"
    /\ UNCHANGED <<report, artifacts, attest, session, cur, val, ghosts>>

\* write_updates([validation], merge=True), then on to the next target unless
\* this one failed and --continue-on-error is not given.
MergeRows ==
    /\ pc = "merging"
    /\ csv' = [csv EXCEPT ![cur] = RowsOf(val[cur], session.eligible)]
    /\ seen' = seen \cup {cur}
    /\ failed' = (failed \/ ~Complete(val[cur]))
    /\ todo' = IF Complete(val[cur]) \/ session.keepGoing THEN todo ELSE {}
    /\ cur' = None
    /\ pc' = "loop"
    /\ UNCHANGED <<report, artifacts, attest, session, val, ghosts>>

AllIndexedComplete == \A t \in selected : IndexedComplete(t)

\* Mutant of FinalStatus: only this session's failures count.
FinalStatusOfSession == IF failed THEN "failed" ELSE "complete"

FinalStatus ==
    IF failed THEN "failed"
    ELSE IF AllIndexedComplete THEN "complete" ELSE "partial"

LeaveLoop ==
    /\ pc = "loop"
    /\ todo = {}
    /\ pc' = "closing"
    /\ UNCHANGED <<report, files, session, work, ghosts>>

\* The last write of the report, over every target ever selected.
CloseReport ==
    /\ pc = "closing"
    /\ promoted' = (AllIndexedComplete /\ \A t \in selected : index[t].promo)
    /\ status' = FinalStatus
    /\ pc' = "publishing"
    /\ UNCHANGED <<header, selected, index, files, session, work, ghosts>>

ExitCode ==
    IF failed THEN "1"
    ELSE IF session.kind # "final"
         THEN IF AllIndexedComplete THEN "0" ELSE "1"
         ELSE IF promoted THEN "0" ELSE "2"

\* Mutant of PublishRows: the CSV is left to the merges of the loop.
PublishNothing ==
    /\ pc = "publishing"
    /\ EndSession(ExitCode, seen, session.eligible)
    /\ UNCHANGED <<report, files, refused, faults, tries>>

\* write_updates(validations, merge=resume) comes after the final report.
PublishRows ==
    /\ pc = "publishing"
    /\ csv' = [t \in Targets |->
                  IF t \in seen THEN RowsOf(val[t], session.eligible)
                  ELSE IF session.resume THEN csv[t] ELSE None]
    /\ EndSession(ExitCode, seen, session.eligible)
    /\ UNCHANGED <<report, artifacts, attest, refused, faults, tries>>

-----------------------------------------------------------------------------
(* What happens to the process, and the operator.                          *)

\* KeyboardInterrupt in the measurement or the validation of a target is
\* caught once, recorded as "interrupted" and raised again.
Interrupt ==
    /\ pc \in Measuring
    /\ Fault
    /\ Stopped
    /\ status' = "interrupted"
    /\ EndSession("interrupted", {}, FALSE)
    /\ UNCHANGED <<header, selected, promoted, index, attest, csv, refused>>

\* A kill, or an interrupt anywhere else: nothing more is written.
Kill ==
    /\ pc # "idle"
    /\ Fault
    /\ EndSession("killed", {}, FALSE)
    /\ UNCHANGED <<report, files, refused, tries>>

\* Killed inside the write of the last artifact.
KillTearing ==
    /\ Fault
    /\ Torn
    /\ EndSession("killed", {}, FALSE)
    /\ UNCHANGED <<report, attest, csv, refused>>

\* The operator's way out of a refused resume: remove the target's directory.
ClearTarget ==
    /\ pc = "idle"
    /\ refused # None
    /\ artifacts' = [artifacts EXCEPT ![refused] = None]
    /\ attest' = [attest EXCEPT ![refused] = None]
    /\ refused' = None
    /\ UNCHANGED <<report, csv, pc, session, work, exit, faults, tries>>

Launch ==
    \E kind \in RunKinds, e \in Eligibilities :
        \/ LaunchTorn(kind, e)
        \/ \E keep \in BOOLEAN, o \in Origins, S \in (SUBSET Targets) \ {{}} :
              \/ LaunchFresh(kind, keep, e, o, S)
              \/ LaunchResume(kind, keep, e, o, S)

Visit == \E t \in Targets : SkipTarget(t) \/ RefuseTarget(t) \/ ExecuteTarget(t)

Emit == EmitFirst \/ \E ok, valid \in BOOLEAN : EmitLast(ok, valid)

Record == Validate \/ WriteAttestation \/ WriteRecord \/ MergeRows

Close == LeaveLoop \/ CloseReport \/ PublishRows

Run == Visit \/ Emit \/ Record \/ Close

Next ==
    \/ Launch
    \/ Visit
    \/ Emit
    \/ Record
    \/ ExecutionFails
    \/ Close
    \/ Interrupt
    \/ Kill
    \/ KillTearing
    \/ ClearTarget

Spec == Init /\ [][Next]_vars

\* The operator resumes every selected target from the frozen inputs.
ResumeAll ==
    \E keep \in BOOLEAN, e \in Eligibilities :
        LaunchResume(header.kind, keep, e, header.origin, selected)

\* A process that is not killed goes on, a good measurement is among the
\* outcomes of a measurement, and the operator clears a refused target and
\* resumes the whole selection again and again.
FairSpec ==
    /\ Spec
    /\ WF_vars(Run)
    /\ SF_vars(ClearTarget)
    /\ SF_vars(header # None /\ status # "complete" /\ refused = None /\ ResumeAll)

-----------------------------------------------------------------------------
(* Properties.                                                             *)

TypeOK ==
    /\ header \in Headers \cup {None}
    /\ status \in {"absent", "torn", "running", "interrupted", "failed",
                   "partial", "complete"}
    /\ selected \in SUBSET Targets
    /\ promoted \in BOOLEAN
    /\ index \in [Targets -> Records \cup {None}]
    /\ artifacts \in [Targets -> Bundles \cup {None, Partial}]
    /\ attest \in [Targets -> Attestations \cup {None}]
    /\ csv \in [Targets -> Rows \cup {None}]
    /\ pc \in Phases
    /\ IF pc = "idle" THEN session = None ELSE session \in Sessions
    /\ todo \in SUBSET Targets
    /\ IF pc \in Measuring \cup Recording THEN cur \in Targets ELSE cur = None
    /\ val \in [Targets -> Bundles \cup {None}]
    /\ pc = "validating" => artifacts[cur] \in Bundles
    /\ pc = "attesting" => val[cur] \in Bundles
    /\ seen \in SUBSET Targets
    /\ failed \in BOOLEAN
    /\ exit \in [code : {"none", "0", "1", "2", "refused", "killed", "interrupted"},
                 seen : SUBSET Targets, eligible : BOOLEAN]
    /\ refused \in Targets \cup {None}
    /\ faults \in Nat
    /\ tries \in [Targets -> Nat]

\* A target the report calls complete is backed by what is on disk: five good
\* artifacts, an attestation of exactly those artifacts for this campaign, and
\* the hash of that attestation in the index (execute_campaign writes the
\* three files one after the other and may be killed between any two).
IndexBacked ==
    \A t \in Targets : IndexedComplete(t) =>
        /\ Complete(artifacts[t])
        /\ attest[t] = Attestation(artifacts[t], header.origin)
        /\ index[t].art = artifacts[t]
        /\ index[t].seal = attest[t]

\* No step rewrites or removes the artifacts of a target the report calls
\* complete, or takes the target back: a resume skips it whoever killed the
\* session before (scripts/run_native_timing_campaign.py:3600).
SealedNeverRewritten ==
    [][\A t \in Targets : IndexedComplete(t) =>
          IndexedComplete(t)' /\ artifacts'[t] = artifacts[t]]_vars

\* Complete evidence comes from one host and boot, one commit and one
\* manifest, however many sessions collected it.
OneOrigin ==
    \A t \in Targets : IndexedComplete(t) => artifacts[t].origin = header.origin

\* A campaign is ready for the paper only if it is a final run and every
\* selected target was measured by one uninterrupted session.
PromotionFromOneSession ==
    promoted => /\ header.kind = "final" /\ header.eligible
                /\ \A t \in selected : /\ Complete(artifacts[t])
                                       /\ artifacts[t].valid
                                       /\ ~artifacts[t].resumed

\* A resume never stops at a target whose completeness the report records.
CompleteNeverRefused == refused # None => ~IndexedComplete(refused)

\* When a session that visited every selected target on a host as eligible as
\* the one of the report exits 0, --validate-run of the campaign exits 0 too,
\* whatever the crashes before that session left behind.
ExitZeroRevalidates ==
    (exit.code = "0" /\ exit.seen = selected /\ exit.eligible = header.eligible)
        => ValidateRun(selected) = 0

\* What docs/measurement/README.md:224 says: exit 0 of an engineering or pilot
\* execution means that the artifacts of the campaign are complete, so
\* --validate-run, whose exit 1 is an integrity error, should agree.
ExitZeroMeansValid == exit.code = "0" => ValidateRun(selected) = 0

\* What docs/measurement/README.md:159 says: an interrupted engineering or
\* pilot run is continued with --resume.  At most a corrupt target stops it.
InterruptedRunResumes == refused # None => ~Complete(artifacts[refused])

\* The evidence of a target, as the ledger of the campaign has it.
SealedEvidence ==
    [t \in Targets |-> IF IndexedComplete(t) THEN index[t].art ELSE None]

Ledger == INSTANCE EvidenceLedger WITH
    Evidence <- Bundles, Unsealed <- None,
    sealed <- SealedEvidence, chosen <- selected,
    declared <- (status = "complete")

\* Every behaviour of the campaign is one of the ledger: evidence is sealed
\* once, and "complete" is only ever written over sealed targets.
KeepsLedger == Ledger!Spec

\* An engineering or pilot campaign becomes complete in spite of kills,
\* interrupts and failed targets, if its operator clears the targets a resume
\* stops at and keeps resuming the whole selection.
RecoveryCompletes ==
    (header # None /\ header.kind # "final") ~> (status = "complete")

=============================================================================
