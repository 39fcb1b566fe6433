# TLA+ models of CT-KAT

CT-KAT screens cryptographic C code for secret-dependent behaviour: it builds a
library, checks its known answers (KAT), runs generated harnesses under
Valgrind with poisoned secrets, sweeps compilers and optimisation levels, scans
the assembly for variable-latency instructions, measures timing with dudect,
and folds all of that into verdicts that a CI script or a paper relies on. A
false "clean" is the one thing it must not produce. The modules in this
directory model the parts of the program in which that promise is kept or
broken: who writes what when, what is read after it, what a stage that failed
leaves behind, and how partial evidence is folded.

Paths are relative to the repository (`ctkat/cli.py` is the command line,
`scripts/` the campaign and paper tooling).

## 1. Inventory

### Components and their state

| Component | Code | State | Operations | Model |
|---|---|---|---|---|
| Native timing campaign | `scripts/run_native_timing_campaign.py` | `campaign_report.json`; per target five timing artifacts and `run_attestation.json`; `corpus_timing_updates.csv` | execute, resume, validate-run, write-updates | `NativeCampaign`, `EvidenceLedger` |
| Commands `run`, `ct`, `dudect` | `ctkat/cli.py` | results in memory; `ctkat_verdict.csv`, findings and timing reports on disk | build, KAT, generate, Valgrind, measure, verdict, exit | `Pipeline` |
| Verdict matrix, Valgrind classification | `ctkat/verdict.py`, `ctkat/ct_runner.py`, `ctkat/valgrind_runner.py` | none (pure) | `combine`, `classify_valgrind_run` | `Verdict` |
| Evidence v2, legacy class, triage | `ctkat/evidence.py`, `ctkat/verdict_class.py`, `ctkat/triage.py` | none (pure) | layers, class, review, fold | `Evidence` |
| Command `screen` | `ctkat/cli.py` | results in memory; `screen_summary.*` | nine stages, cells, summary, exit | `Screen` |
| Timing protocol v2 and validity | `ctkat/cli.py:885-1803`, `ctkat/dudect_runner.py` | traces of calibration, target, A/A, placebo and positive-control processes | run a process, account a trace, decide validity | `TimingRun` |
| Build seal | `ctkat/timing_build_provenance.py`, `ctkat/harness_generator.py`, `ctkat/timing_harness_generator.py` | generated sources and binaries, the seal file | render, compile, seal, check, measure | `TimingRun` |
| Official dudect backend | `ctkat/native/official_dudect_adapter.c`, `ctkat/_vendor/dudect/dudect.h` | crop thresholds, counts and moments of 102 tests | read a trace, push a row, judge | `OfficialDudect`; its outcomes in `TimingRun` |
| `ct-matrix`, `asm-scan` | `ctkat/ct_matrix.py`, `ctkat/asm_scan.py` | rows, candidates | sweep, scan | their results in `Screen` |
| Control rehearsal, same-corpus baselines, artifact reproduction | `scripts/` | sealed reports | run controls, cells, stages | not modelled |
| Corpus, review and paper gates | `scripts/check_*.py` and others | none | validate checked-in artifacts | not modelled |
| Statistics, recomputation of the official report | `ctkat/statistics.py`, `ctkat/official_dudect_verify.py` | none | floating point | not modelled |
| Example corpus: SHAKE | `examples/pqc_mlkem768/common/fips202.c` | 25 words and a counter | absorb, finalize, squeeze | `Sponge` |
| Example corpus: ML-DSA | `examples/mldsa_native`, `examples/pqc_mldsa*` | the signature buffer, the nonce, polynomials | sign, sample, challenge, pack and unpack hints, round | `MldsaSign`, `Sampler`, `Challenge`, `HintCodec`, `MldsaRounding` |
| Example corpus: ML-KEM rounding | `examples/pqc_mlkem*`, `examples/kyberslash_operand_latency` | none | compress, decode, expand | `KyberRounding` |
| Example corpus: the rest | `examples/` | | Falcon, FN-DSA, SPHINCS+, number-theoretic transforms | not modelled |
| Parsers, inference, configuration, reports | rest of `ctkat/` | none | text processing | not modelled |

`PROJECT.json` lists every component with its sources and the reason for what
is left out.

### How they interact

`run` calls build, KAT, the Valgrind stage and the timing stage in this order,
in one process; each stage hands its results to the next in memory and writes
its report on the way. `ct` and `dudect` run one of the stages with an exit
rule of their own. `screen` chains the same stages with the compiler matrix and
the asm scan and sends everything through `verdict_class.summarize`, which asks
`evidence.build_evidence` for each harness. The campaign runner starts `ctkat
dudect` as a child process per target, validates the five artifacts the child
left, attests them, indexes them in its report and finally publishes rows for
the corpus table. Nothing is shared between processes except files: there are
no threads, locks or callbacks, so the concurrency that matters is a process
killed between two writes, an operator who starts the next one, and two
commands over one directory.

### What is hard

* Crashes between the writes that together make one piece of evidence
  (artifacts, attestation, index entry, CSV rows, final status).
* Resumes: which work is skipped, which refused, and whether two sessions on
  different hosts or commits can add up to one campaign.
* Files of an earlier command that look like results of this one.
* A stage that fails for one harness or one build while the others are fine.
* Three exit rules and two folds over the same results, written separately.
* Orders of questions: which of several reasons not to clear is reported, and
  whether a broken measurement can be asked about before a confirmed risk.
* Numeric edges of the timing protocol (drop rates, 64-bit seeds).
* In the C code: block boundaries, attempts given up half way in a buffer of
  the caller, counters of 16 bits, reciprocals in place of divisions, canonical
  encodings.

The hazards are listed with their lines in `PROJECT.json`, with the properties
that would catch them.

### What makes each component correct

* Campaign: evidence is sealed once, backed by what is on disk, from one host
  and commit; "complete" is only said over sealed targets; promotion to the
  paper needs one uninterrupted final session; a campaign can be completed in
  spite of crashes.
* Pipeline: CLEAN and exit 0 only behind stages that all ran and passed; the
  gates agree; the verdict file is never newer than what it summarises.
* Screen: exit 0 only over a complete measurement; a confirmed risk is never
  hidden; a worse outcome never clears.
* Timing protocol: a result is valid only if controls, power and accounting
  say so; a corrupted trace is an error whatever else was found; one failing
  repeat is never outvoted.
* Build seal: what was measured is what was sealed.
* Corpus: the subject of a measurement computes what it should, for any
  chunking, any rejected attempt and any boundary value; otherwise a KAT that
  passes says little about the runs that are measured.

## 2. Plan

1. `EvidenceLedger`, `NativeCampaign`, `NativeCampaignProofs`: done.
2. `Verdict`, `Pipeline`, `PipelineProofs`: done.
3. `Evidence`, `Screen`: done.
4. `TimingRun`: the phases of `_run_v2_harness_protocol`, the accounting of
   `parse_timing_csv`, the cascade of `_set_timing_validity`, and the build seal
   with other commands renaming files between any two steps: done.
5. The C routines `Sponge`, `MldsaSign`, `Sampler`, `Challenge`, `HintCodec`,
   `KyberRounding`, `MldsaRounding`, `OfficialDudect`, composed in
   `Routines`: done.
6. `NativeCampaignProofs`, `PipelineProofs`, `ScreenProofs`,
   `TimingRunProofs`, `StreamProofs` (sponge, samplers, challenge),
   `SignatureProofs` (signing, hint section), `RoundingProofs`,
   `RoutinesProofs` (official dudect, and the types of all routines): done.
   Section 6, "Only model-checked", says what no theorem states.
7. Left for later, should the code grow there: the commands `ct-matrix` and
   `asm-scan`, the control rehearsal and the baselines runner, the latter two as
   crash-and-resume machines that may share `EvidenceLedger`.

`Pipeline` and `Screen` use the operators of `Verdict`; `Screen` uses those of
`Evidence`; `NativeCampaign` instantiates `EvidenceLedger` with a refinement
mapping. `TimingRun` uses `Verdict` and ends in one of its `TimingResults`.
`Routines` instantiates the eight routines; a behaviour of it picks one and runs
it. The MC modules only define instances.

## 3. The modules

### NativeCampaign

One behaviour is the life of one output root. The variables are its files and
the runner process:

| Variables | Code |
|---|---|
| `header`, `status`, `selected`, `promoted`, `index` | the fields of `campaign_report.json`, always replaced as a whole |
| `artifacts`, `attest`, `csv` | the five artifacts of a target (one bundle), `run_attestation.json`, the rows of a target in the CSV |
| `pc`, `session`, `todo`, `cur`, `val`, `seen`, `failed` | where `execute_campaign` is and its locals |
| `exit`, `refused`, `faults`, `tries` | what the shell saw; bounds |

`LaunchFresh`, `LaunchResume` and `LaunchTorn` are the three ways in;
`SkipTarget`, `RefuseTarget` and `ExecuteTarget` what the loop does with a
target; `EmitFirst` and `EmitLast` the child writing its artifacts;
`Validate`, `WriteAttestation`, `WriteRecord`, `MergeRows`, `LeaveLoop`,
`CloseReport`, `PublishRows` the writes that follow, one durable write per
action; `ExecutionFails` a child that fails; `Interrupt`, `Kill` and
`KillTearing` the faults. The last artifact is written in place, so what stops
its writing, an exception, an interrupt or a kill, may leave all five with the
last one cut short (`Torn`). `ClearTarget` is the operator who removes the directory
of a refused target. A hash of a file is the content of the file, and an
"origin" is everything a resume compares with the report.

### EvidenceLedger

What a campaign promises, without processes or files: targets are chosen,
sealed once and never replaced, and the ledger is declared complete only while
all chosen targets are sealed. `KeepsLedger` says that `NativeCampaign`
implements it under `sealed <- SealedEvidence`, `chosen <- selected`,
`declared <- (status = "complete")`.

### Verdict and Pipeline

`Verdict` has the matrix, the KAT precondition, the folding of a timing
validity and the classification of a Valgrind run from its exit code (124 for a
timeout and 127 for a missing tool are "other"), its log and whether the parser
recognised a finding. `Pipeline` runs any sequence of `run`, `ct` and `dudect`
over one configuration and one output directory. Every stage is an action with
the guards and aborts of its function; the loops over harnesses go one harness
per step, so a kill (`Kill`, `KillWriting`) falls between any two of them, also
between two rows of the verdict file. A file is absent, old, torn or current.
The variable `clean` is history: the harnesses whose Valgrind run really was
clean, told apart from what the program concluded. A manual binary may be asked
for nothing, for some sentinel (a custom pattern without a group) or for one
with its name (`Sentinels`, `Announced`).

### Evidence and Screen

`Evidence` has the layers (`Structural`, `Asm`, `Attribution`, `Timing`), the
legacy class (`Class`), its basis, the review state and the fold. A cell keeps
its structural status, whether the registry knows its leak sites, its asm
coverage and whether a division was found. Questions of `fold_overall` that
give the same answer one after the other are one operator (`Unresolved`), the
order between different answers is the code's. `Screen` runs one `ctkat
screen`: preflight, build, KAT, generation, Valgrind, matrix, asm scan, timing,
summary, each with its aborts; then the cells of a harness are built as the
code builds them, including asm-only cells and the primary cell that is left
out next to matrix rows. The matrix and the scan are one step each: nothing
observes them half way, and the sweep never stops at a cell. Rendering the
templates again for the matrix may end the command (`MatrixAborts`). The level
of the primary build is one of each harness (`plan.base`), and the scan covers
it beside those of the matrix (`AsmOpts`). A timing row with an empty
validity is one of insufficient power, as in the code (`Timing`). Left out are templates without
sources and two matrix entries with the same optimisation level.

### TimingRun

One behaviour is one timing harness: its source is rendered, compiled and
sealed (`Render`, `Compile`, `CaptureSource`, `CaptureBinary`, `WriteSeal`),
then the physical processes of the protocol run one after the other
(`CheckBefore`, `Start`, `ProcessFails`, `ProcessPrints`, and after it `Reject`,
`AnalysisFails` or `Account`), and `Conclude` picks the most conservative repeat
and asks `Validity`, the cascade in the order of the code. `RivalSource` and
`RivalBinary` are other commands that rename their files over the shared ones
at any point. A file is the build it belongs to, so equal hashes are equal
builds. A trace is counters: rows of each class that are good, hit by an
impossible clock, marked as migrated or migrated by their processor numbers,
unreadable rows, the number of rows the metadata line announces, and whether it
confirms setup, seeding and input; the percentages are the code's at a budget of 100 rows. The statistic of
a target is one of its outcomes, the alarms of the controls are arbitrary.

How many rows there should be the code learns from the process itself: the
number in its metadata line, and only without one the number of the
configuration (`Parse`). `TimingRunConstants` assumes of a trace what the
templates do, which print rows and number from the same variable: a number other
than the one asked for is what is left of a line cut at the limit of the standard
error output, after all the rows were printed. A process that printed fewer rows
and announced exactly those would pass as complete.

`Abort` is every exit before the first process: rendering, compiling, the binary
contract, and capturing or writing the seal.

Abstracted: of the input contracts one axis is modelled (the KEM's); the two smaller positive effects are
measured and not asked about, as in the code; seeds and the binary contract are
part of the compilation.

### The C routines

Every routine is a small machine with the same three variables: `args` (what it
is called with), `locals` and `out` (what its caller sees). `Routines` lets a
behaviour pick one; its properties are those of the routine picked, and its
assumption `RoutinesAssumption` is the conjunction of theirs.

* `Sponge`: the incremental SHAKE interface in calls of any length beside the
  one-shot functions of the same file; the permutation is what it depends on.
  A call is an action that begins it and one action per round of its loop.
* `MldsaSign`: the entry points of mldsa-native, the loop of attempts and one
  attempt with every early exit; the caller's buffer as the scratch it is.
  The build without `MLD_CONFIG_REDUCE_RAM`.
* `Sampler`, `Challenge`: rejection sampling from a stream, scalar and four
  lanes at a time, and the shuffle of the challenge; a byte is its position.
  In `Sampler` a step is one candidate offered to one lane.
* `HintCodec`: the hint section, packed by the signer coefficient by
  coefficient and unpacked by the verifier row by row and byte by byte; it
  begins either with hints to pack or with any string of bytes.
* `KyberRounding`, `MldsaRounding`: the real arithmetic at the real constants.
* `OfficialDudect`: the adapter's `main` over the vendored `dudect.h`; Welch's
  statistic of a test is arbitrary, zero included, or undefined. Whatever makes
  it give up before the first row, unreadable traces or no memory, is `Fails`.

The loops of these three are steps, not folds: that is what the code does, and
it is what lets the theorems of section 6 speak of messages, streams and
sections of any length, since an induction over steps is one the provers have.

The corpus holds each scheme for several parameter sets, from the same
templates; the map names the lines of one of them.

## 4. What the runs check

| Run | Instance | Shows |
|---|---|---|
| `campaign` (`MCNativeCampaign.cfg`) | 2 targets, 2 origins, both eligibilities, 2 faults, 3 measurements per target | the safety properties and the refinement of the ledger |
| `campaign_recovery` (`RecoverNativeCampaign.cfg`) | 2 targets, 1 origin, 2 faults, 3 measurements | `RecoveryCompletes` under `FairSpec` |
| `campaign_interrupted` (`ResumeInterrupted.cfg`), `campaign_exit_zero` (`ExitZeroMeansValid.cfg`) | 1 fault | two statements of `docs/measurement/README.md` that the code does not keep (section 5) |
| `pipeline` (`MCPipeline.cfg`) | 2 harness names, one of them a manual binary, every configuration with stage lists among absent, empty, one and both | the verdict file, the exit codes and the reports agree |
| `kat_fail_ignored` (`KatFailIgnored.cfg`), `stale_verdict` (`StaleVerdict.cfg`) | one configuration each | two statements the code does not keep |
| `screen` (`MCScreen.cfg`) | one template under two compilers, with and without timing; a manual binary beside a timing-only harness; a scan narrower and wider than the matrix, with a primary build at a level of its own; no harness; all triage entries without a note and with an absent verdict, `robust` or `accepted-variable-time` | the properties of the screening |
| `screen_not_needed` (`ScreenNotNeeded.cfg`), `primary_not_redundant` (`PrimaryNotRedundant.cfg`) | subsets of the same plans | two statements the code does not keep |
| `timing` (`MCTimingRun.cfg`) | generic, kem and sign harnesses, pinned and experimental backend, one to three repeats, up to two rival builds, eleven kinds of traces (also without a metadata line, and with its number cut) with one odd one at any place | the properties of the timing measurement |
| `routines` (`MCRoutines.cfg`) | the eight routines, each over every small input | each does what its simple counterpart does |

The properties, in a sentence each:

* `IndexBacked`: a target the report calls complete has its artifacts, its
  attestation and matching hashes on disk, whatever was killed.
* `SealedNeverRewritten`: no step changes them again.
* `OneOrigin`, `PromotionFromOneSession`: evidence is never mixed.
* `CompleteNeverRefused`: a resume never stops at a target that is complete.
* `ExitZeroRevalidates`: after exit 0 over the whole selection and the same
  eligibility, `--validate-run` agrees.
* `KeepsLedger`, `RecoveryCompletes`: see above and section 6.
* `CleanRowsAreBacked`: a CLEAN row, also in a torn file, is backed by every
  configured stage. `ExitZeroIsAllClean`: exit 0 stands for a complete file of
  CLEAN rows. `GatesAgree`: `run` gates exactly when `ct`, `dudect` or the KAT
  would. `MatrixIsTotal`: the matrix is never asked with a pair it does not
  know. `VerdictComesLast`: the reports are never older than the verdict.
* `ClearedMeansMeasured`: exit 0 of `screen` means a passing KAT, every build
  cell passed or accepted by a reviewer, every compiler scanned, every division
  attributed to public data by a reviewer, valid and quiet timing.
  `RiskNotHidden`: builds that disagree, or a valid timing signal, are the
  rating whatever else failed. `WorseNeverClears`: replacing one outcome by a
  worse one never clears a harness. `EvidenceIsConsistent`: the record is never
  one its own constructor refuses.
* `MeasuredWhatWasSealed`: no row of another build reaches a result, although
  the check compares files only before and after a process.
  `ValidIsControlled`: "valid" stands for three repeats on an accepted host with
  every control within its budget and every trace complete.
  `CorruptionIsError`: a trace that lost rows ends in an error, whatever other
  question of the cascade would also apply. `FailedRepeatNeverClears`: a failing
  repeat never ends in CLEAN.
* `ChunksDoNotMatter`: SHAKE in pieces is SHAKE in one piece.
  `NoncesNeverReused`: no two masks of a signature, of one attempt or two, come
  from one nonce. `SuccessIsOneAttempt`, `FailureLeavesNothing`: a signature is
  the work of one attempt, an error returns nothing of any. `Terminates`:
  signing returns however often it rejects. `FirstAcceptedWin`,
  `EverySignStands`, `BytesReadOnce`: sampling neither skips, repeats nor
  overruns. `PackedDecodes`, `AcceptedIsCanonical`: hints survive the encoding
  and have one encoding only. `PatchKeepsTheValue`: the KyberSlash patches
  change no value, which for `poly_tomsg` is true only because of the reduction
  before it (of all coefficients from -3328 to 3328, one, -2497, would go
  wrong). `ExpandedIsNear`: compression loses at most half a step.
  `HintRecovers`: the verifier finds the signer's high part.
  `StatusMatchesTests`: the status of the official backend agrees with the tests
  printed under it.

### Why the bounds are enough

Two targets let a session die between them and a resume meet one complete and
one unfinished target; a third adds no file another target shares. Two faults
give a crash in a session that recovers from a crash; three measurements of a
target are the original, its repetition after a crash and one more. Two origins
are one that matches and one that does not. Two harness names let a stage list
leave one out and let the loop stop between them. In `screen` a harness is
rated independently of the others, so the plans vary one harness at a time; two
compilers and one optimisation level give two matrix cells that can agree,
disagree and fail, and asm cells inside and outside the matrix; where the matrix
and the scan are narrowed, the primary build has a second level. The theorems of
section 6 need none of these bounds.

In `timing` three repeats are the fewest of a valid result and let an allowance
of one be used and exceeded; a budget of 100 rows puts the limits of 1% and 5%
between whole rows; two rivals can replace the binary and replace it again, or
bring source and binary of different builds together. One odd trace at any
place is enough for a question of the cascade to be asked for the first time;
two never soften each other, since every question is about all traces.

In `routines` a rate of one to four bytes has messages that end before, on and
after a block, several blocks long; three coefficients and blocks that three
does and does not divide leave every remainder; three rows of five positions
with three hints have full, empty and overflowing sections, and all byte strings
are tried. The roundings run at the real constants: every coefficient between
-3400 and 3400 and the ends of `int16_t` for ML-KEM; for ML-DSA the
neighbourhood of every multiple of gamma2, where the high part or the hint can
change, with the extremes of the two corrections. Signing has the real shape of
all three parameter sets and three to six attempts, far from the wrap of the
nonce at 2^16. The theorems cover the rest: every coefficient, and every number
of attempts up to `MLD_NONCE_UB`.

`CHECK_DEADLOCK FALSE` is set where the system really stops: a finished
screening, timing run or routine, and a campaign whose bounds on faults and measurements are used up.

## 5. Where the code and its documents disagree

Each of these has a run whose counterexample is the behaviour described.

* An interrupted campaign is said to be resumable. A kill after the artifacts
  of a target and before its attestation leaves intact artifacts that the
  resume refuses, until the operator removes them.
* Exit 0 of an execution is said to mean valid artifacts. A resume of part of
  the selection after a crash can exit 0 while the published CSV lacks rows of
  another target, so `--validate-run` fails. The same happens without a crash
  when a resume runs on a host whose eligibility has changed, which is why
  `ExitZeroRevalidates` has both hypotheses.
* A KAT failure is said to end in INCONCLUSIVE when it is forced. A
  configuration with neither `ct` nor `dudect` computes no verdict, and the
  forced run exits 0.
* An ERROR is said to flow into the verdict file. If a later harness cannot be
  prepared the run ends before the verdict, and the CLEAN rows of an earlier
  run stay in place.
* `screen` documents exit 1 for build and KAT failures. A triage entry `review:
  not-needed` that today's evidence contradicts ends it with an uncaught error
  and exit 1 after everything was measured, without a summary.
* A passing primary run is said to be redundant with its matrix cells. Without
  gcc in the matrix and in the scan it is not: its cell would have kept the
  harness from being cleared.

Two remarks without a run, since no document says otherwise. A run that leaks
only at registered sites is a class of its own, decided before the triage
entry is looked at: a harness judged `secret-risk` by a reviewer without any
division found is a risk while its builds pass, and cleared when all of them
fail at registered sites. And a finding without any frame names no leak site,
so it is accepted beside a registered one. `WorseNeverClears` therefore takes a
leak at an unregistered site as the worse outcome.

Known divergences without a run, met while modelling the measurement:

* `capture_timing_build_provenance` says it captures exact build inputs and
  that binary and generated source are tied together. The two files are hashed
  one after the other: another command's rename in between seals the source of
  one build with the binary of another. `MeasuredWhatWasSealed` is therefore
  about the binary of the seal only. Headers in the include directories are not
  hashed, and the seal's temporary file has a fixed name.
* The check around a process compares hashes before and after it. A file
  replaced and put back in between is not seen; in the model equal bytes are
  the same build, so this does not show.
* The binary contract is verified before the seal and its hash is not compared
  with the seal's.
* `statistics.py` says that an undefined statistic must never read as "no
  leak". The pinned backend prints PASS for one, and reads its missing |t| as
  infinite, so that it outranks a finite FAIL of another repeat; what saves the
  result is the question whether all repeats agree (`FailedRepeatNeverClears`).

## 6. Fairness, and what is proved

### Fairness

Two properties need it. For `Terminates`, `WF` of the next step of signing: one
thread that waits for nothing. For `RecoveryCompletes`, `WF_vars(Run)`: a runner that is not killed
goes on, since it waits for nothing but a child that has a timeout. `SF` on
`ClearTarget` and on resuming the whole selection is the operator, who keeps
doing what the runner's messages ask for. Nothing is assumed about kills,
interrupts or bad measurements except that the bounds stop them: the property
says that no reachable state of the files is a dead end.

### Theorems

`NativeCampaignProofs`, from `CampaignConstants` alone (any set of targets and
origins, any bounds): `TypeCorrect`, `IndexBackedAlways`, `OneOriginAlways`,
`PromotionAlways`, `NeverRefusedAlways`, `NeverRewritten` and
`ImplementsLedger`. `IndexBacked` is not inductive: the write that completes an
index entry relies on the attestation and the artifacts written before it, and
a completed target must never be measured again. The invariant `IInv` adds what
the session knows (`SessionInv`: its origin is the report's, the targets it has
not reached are untouched), what it is in the middle of (`WorkInv`: the
artifacts it validated are the ones on disk, and attested before they are
indexed), and what a stored target implies (`EvidenceInv`). The proof has one
step per action. `ImplementsLedger` maps every step to `Choose`, `Seal`,
`Declare` or a stutter.

`ExitZeroAlways` (`ExitZeroRevalidates`) needs more than `IInv`, since exit 0 is
a statement about rows that were merged many steps before: what the session has
seen is recorded as it is now (`SeenInv`), the report it is about to publish
over has its final status and promotion (`ClosedInv`), and nothing runs after an
exit 0 (`GoneInv`).

`PipelineProofs`, from `PipelineAssumption` alone (any number of harnesses, any
set of configurations, any set of timing outcomes): `PipelineTyped`,
`CleanRowsAlwaysBacked`, `ExitZeroAlwaysClean`, `GatesAlwaysAgree`,
`MatrixAlwaysTotal`, `VerdictAlwaysLast`. A CLEAN row says something about
stages that ended long before it was written. `IInv` carries it: which command
can be in which stage (`Order`), what the stages passed so far have settled in
memory and on disk (`Progress`: every harness a loop has left has a result, a
PASS is a clean run, the reports are current), and what the rows of this
command are (`Ending`: exactly the verdicts of the results). `MatrixFacts` is
the lemma about the matrix everything rests on.

`ScreenProofs`, from `ScreenConstants` (a harness is a template or a binary, at
least one compiler and level is asked for): `ScreenTyped`,
`EvidenceAlwaysConsistent`, `RiskNeverHidden`, `ClearedIsMeasured`,
`WorseNeverCleared`, for every set of harnesses, compilers, levels, triage
entries and timing outcomes. `IInv` says what each stage has left (`Stages`) and
that the summary was made from it (`Reported`); the rest is about the pure
functions of `Evidence`. `WorseNeverCleared` goes through the ways in which a
measurement can be worse one by one: each layer is quiet after the change only
if it was before, the class and the review follow, and the fold clears only what
is quiet in every layer.

`TimingRunProofs`, from `TimingRunConstants` (any plans and builds of the
others, any budgets, any traces that announce their number of rows as section 3
says): `TimingTyped`, `CorruptionAlwaysError`,
`ValidAlwaysControlled`, `FailedNeverClears`, `SealedIsMeasured`. `IInv` has
what exists in which phase (`Order`), the counters of the controls bounded by
the processes that have passed (`Counts`), and the result as the answer of the
cascade (`Concluded`). A valid result needs the converse of `Counts`: a control
that was missed once can never be made up for, since every role comes once per
repeat. `SealedIsMeasured` rests on the order in which builds come (`Aging`): a
published file is never older than it was at an earlier look, so two equal looks
had nothing in between. That is true only if no build comes back after it was
replaced, which is the hypothesis `NeverBack` of the property itself and a known
limit of the check in the code (section 5).

The remaining four modules are about `Routines`, which keeps the parameters of
every routine as constants. Each first shows that a run of its routine is a
behaviour of the routine's own module (`SignRuns` and the like), and then
reasons there. None of them uses more than `RoutinesAssumption`, the
conjunction of what the routines assume of their own parameters.

`StreamProofs` has three parts.

* `Sponge`, from `SpongeAssumption` (any rates, any length of message and
  output): `SpongeTypeOK`, `ChunksNeverMatter`. `ChunksDoNotMatter` speaks only
  of bytes that were squeezed. The invariant `SpongeInv` says what they come
  from: while absorbing, block j of what was permuted is the j-th full block of
  the message, the rest of it is in the state, and the counter is its length
  (`Absorbing`); after the padding the blocks are those of the one-shot
  function and then empty ones, and bytes squeezed and bytes left add up to the
  blocks opened (`Squeezing`). The arithmetic is that of quotient and rest
  (`Cut`, `QuotientOf`); `OneShotLast` and `PaddedBlock` have the case where
  both bytes of the padding are the same one.
* `Sampler`, from `SamplerAssumption` (any kinds, polynomial and number of
  blocks): `SampleTypeOK`, `FirstAcceptedAlwaysWin`. The buffer is the stretch
  of the stream up to the last byte squeezed and begins with a fresh group
  (`BufferInOrder`), the position is between two candidates (`PosInBuffer`), a
  lane that is not full has been offered its stream from the start up to there
  (`NoneMissed`, `OfferedInOrder`), and holds what it took by rank
  (`AllRanked`). A lane that is full has skipped the rest of its stretch, which
  is why `NoneMissed` leaves it out.
* `Challenge`, from `ChallengeAssumption` (any size, weight and rate):
  `ChallengeTypeOK`, `BytesAlwaysReadOnce`, `SignsAlwaysStand`. The place in the
  block is a function of the number of bytes read (`Place`), and the signs put
  so far stand below the place of the shuffle, each once (`Shuffled`).

`SignatureProofs` has two parts.

* `MldsaSign`, from `SignAssumption` (any number of rows, any word, any limit of
  attempts up to `MLD_NONCE_UB`): `SignTypeOK`, `NoncesUnique`,
  `SuccessComplete`, `FailureClean`, `SigningAdvances`. The nonces of attempt n
  are the interval from l * n on, of length l, and the bound keeps the last of
  them, the spare lane of the four-way sampler included, below the wrap; `Sampled` says which
  attempt sampled what, `Written` which attempt the regions of the caller's
  buffer hold at each early exit. `SigningAdvances` is the safety half of
  `Terminates`: each step leads to a later attempt within the limit, to a later
  stage, or to a later row of the stage, so that no sequence of rejections is
  endless; that a call which has not returned has a next step is left to TLC.
* `HintCodec`, from `HintAssumption` (any number of rows, coefficients and
  slots, where a tally fits a byte): `HintTypeOK`, `PackedAlwaysDecodes`,
  `AcceptedAlwaysCanonical`. Both properties are about the end of two loops
  over the same bytes. `Recorded` says what the section holds when the signer
  stands at a coefficient: every hint before it in the slot of its number, the
  tallies of the rows before, zeros behind. `Collected` says it from the other
  side, of the hints the verifier has read so far, whatever the bytes are
  (`BetweenRows`, `WithinRow`: as many hints as bytes, none behind the last
  byte); that the bytes of a row ascend is what makes the next one a new hint
  (`LastHint`), so that number and slot stay the same. `FromPacked` joins the
  two: of a section that was packed, the verifier has read the signer's hints up
  to the byte it stands at (`HintsRead`), and every check passes
  (`SectionTallies`, `RowAscends`).

`RoutinesProofs`: for `OfficialDudect`, from `DudectAssumption` (any ascending
percentiles, any limit of rows, any scores), `DudectTypeOK` and
`StatusAlwaysMatches`. The loops that decide separately agree because no cropped
test has more rows than the uncropped one (`UncroppedHasMost`); that the maximum
of the tests exists is shown with the least counterexample. `EveryTypeOK` joins
the type invariants of the eight routines to that of `Routines`.

`RoundingProofs`: `KyberTypeOK`, `PatchAlwaysKeepsTheValue` and
`ExpandedAlwaysNear` for every coefficient of 16 bits (`KyberAssumption`);
`MldsaRoundingTypeOK` and `HintAlwaysRecovers` for every reduced w, every c * s2 within
beta and every c * t0, at all three parameter sets (`RoundingAssumption`). The
arithmetic of one site or parameter set is one lemma about numbers: the quotient
of the reduction is the nearest one, the reciprocal rounds as the division does,
a coefficient lies in the interval of its high part, the last one at 0.

### Only model-checked

* Liveness under fairness (`RecoveryCompletes`, `Terminates`): out of the
  prover's reach. Every other property of the passing runs is a theorem.
* The documented statements of section 5, which TLC refutes.

## 7. Not modelled

The values of the statistics; the text of logs, disassembly, C headers and
reports; the schema of `ctkat.yaml`; the JSON validators of checked-in
artifacts; the commands `ct-matrix` and `asm-scan` on their own and the
remaining `scripts/`, which run cells or stages one after the other and whose
crash behaviour is that of the campaign in the small.

Most lines of the repository are the schemes under test, several copies of
each: Falcon and FN-DSA (an emulation of floating point, and lattice reduction
over big integers), SPHINCS+, number-theoretic transforms and their assembly.
They are straight-line arithmetic over 256 to 1024 coefficients whose only
interesting question is whether the numbers are right; a model of them would be
the program again. What is modelled of the corpus is what has control flow,
state or an edge: sponge, rejection loops, attempts, encodings and roundings.
Counted by lines of C the models therefore cover little; the program this
repository is about is the Python under `ctkat/` and `scripts/`, which they
follow far more closely.
