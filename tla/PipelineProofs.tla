--------------------------- MODULE PipelineProofs ---------------------------
(***************************************************************************)
(* The invariants of Pipeline, for every number of harnesses, every set of *)
(* configurations and every set of timing outcomes.                        *)
(***************************************************************************)
EXTENDS Pipeline, TLAPS

Prepared(h) == h \notin CtNames \/ ct[h] # "NONE"
Measured(h) == h \notin TimingNames \/ tim[h] # NotMeasured

\* Which command can be in which stage.
Order ==
    /\ pc \in {"build", "kat", "verdict"} => cmd = "run"
    /\ pc \in {"ct", "valgrind"} => cmd \in {"run", "ct"}
    /\ pc \in {"timing", "measure"} => cmd \in {"run", "dudect"}
    /\ (pc \in {"measure", "verdict"} /\ cmd = "run" /\ config.timing # None)
           => TimingNames # {}
    /\ (pc \in {"valgrind", "timing", "measure", "verdict"} /\ cmd = "run" /\ config.ct # None)
           => CtNames # {}

\* What the stages passed so far have settled, in memory and on disk.
Progress ==
    /\ \A h \in Harnesses : ct[h] = "PASS" => h \in clean
    /\ \A h \in Harnesses : h \notin CtNames => ct[h] = "NONE"
    /\ \A h \in Harnesses : h \notin TimingNames => tim[h] = NotMeasured
    /\ pc = "valgrind" => todo \subseteq CtNames
    /\ pc = "measure" => todo \subseteq TimingNames
    /\ pc = "valgrind" => \A h \in Harnesses \ todo : Prepared(h)
    /\ (pc \in {"timing", "measure", "verdict"} /\ cmd = "run") =>
           /\ \A h \in Harnesses : Prepared(h)
           /\ config.ct # None => findings = "current"
    /\ pc = "measure" => \A h \in Harnesses \ todo : Measured(h)
    /\ pc = "verdict" =>
           /\ \A h \in Harnesses : Measured(h)
           /\ config.timing # None => timing = "current"

\* Rows of this command exist only once it has ended, and agree with what its
\* stages have settled.
Ending ==
    Fresh =>
        /\ pc = "done" /\ cmd = "run"
        /\ DOMAIN csv.rows \subseteq Names
        /\ \A h \in DOMAIN csv.rows : csv.rows[h] = VerdictOf(h)
        /\ \A h \in Harnesses : Prepared(h) /\ Measured(h)
        /\ config.ct # None => findings = "current"
        /\ config.timing # None => timing = "current"

IInv == TypeOK /\ Order /\ Progress /\ Ending /\ ExitZeroIsAllClean /\ GatesAgree

-----------------------------------------------------------------------------
(* The operators of the verdict                                            *)

\* The matrix answers with a verdict, and CLEAN only if neither side objects.
LEMMA MatrixFacts ==
    ASSUME NEW c \in CtStatuses, NEW d \in {"PASS", "WARNING", "FAIL", "ERROR", "NONE"},
           NEW k \in KatStatuses
    PROVE  /\ Combine(c, d, k) \in Verdicts
           /\ Combine(c, d, k) = "CLEAN" =>
                  k # "FAIL" /\ c \in {"PASS", "NONE"} /\ d \in {"PASS", "NONE"}
           /\ (k # "FAIL" /\ c \in {"PASS", "NONE"} /\ d \in {"PASS", "NONE"}) =>
                  Combine(c, d, k) = "CLEAN"
           /\ Combine(c, d, k) = "INCONCLUSIVE" <=> k = "FAIL" \/ c = "ERROR" \/ d = "ERROR"
<1>1. c \in {"PASS", "FAIL", "ERROR", "NONE"} /\ k \in {"PASS", "FAIL", "NONE"}
  BY DEF CtStatuses, KatStatuses
<1>2. Matrix(c, d) \in Verdicts
  BY <1>1 DEF Matrix, Verdicts
<1>3. Matrix(c, d) = "CLEAN" <=> c \in {"PASS", "NONE"} /\ d \in {"PASS", "NONE"}
  BY <1>1 DEF Matrix
<1>4. Matrix(c, d) = "INCONCLUSIVE" <=> c = "ERROR" \/ d = "ERROR"
  BY <1>1 DEF Matrix
<1>5. CASE k = "FAIL"
  BY <1>5 DEF Combine, Verdicts
<1>6. CASE k # "FAIL"
  BY <1>2, <1>3, <1>4, <1>6 DEF Combine
<1>7. QED
  BY <1>5, <1>6

LEMMA NotMeasuredFacts ==
    NotMeasured.status = "NONE" /\ NotMeasured.validity = ""
BY DEF NotMeasured

\* Every outcome asks the matrix with a status it knows; PASS only for a
\* passing, valid result.
LEMMA DecisionFacts ==
    ASSUME NEW r \in TimingOutcomes \cup {NotMeasured}
    PROVE  /\ DecisionStatus(r) \in {"PASS", "WARNING", "FAIL", "ERROR", "NONE"}
           /\ DecisionStatus(r) = "PASS" => r = [status |-> "PASS", validity |-> "valid"]
           /\ DecisionStatus(r) = "NONE" <=> r = NotMeasured
           /\ (r # NotMeasured /\ DecisionStatus(r) # "ERROR") => r.validity = "valid"
           /\ r.validity = "valid" => DecisionStatus(r) = r.status
           /\ r # NotMeasured /\ DecisionStatus(r) = "ERROR" =>
                  r.validity # "valid" \/ r.status = "ERROR"
<1>1. CASE r = NotMeasured
  BY <1>1 DEF NotMeasured, DecisionStatus
<1>2. CASE r \in TimingOutcomes
  <2>1. r \in TimingResults
    BY <1>2, PipelineAssumption
  <2>2. CASE r \in [status : {"ERROR"}, validity : {"error"}]
    <3>1. r.status = "ERROR" /\ r.validity = "error"
      BY <2>2
    <3>2. r # NotMeasured
      BY <3>1, NotMeasuredFacts
    <3>3. QED
      BY <3>1, <3>2 DEF DecisionStatus
  <2>3. CASE r \in [status : {"INSUFFICIENT"},
                    validity : {"insufficient-power", "environment-rejected", "error"}]
    <3>1. r.status = "INSUFFICIENT" /\ r.validity \notin {"", "valid"}
      BY <2>3
    <3>2. r # NotMeasured
      BY <3>1, NotMeasuredFacts
    <3>3. QED
      BY <3>1, <3>2 DEF DecisionStatus
  <2>4. CASE r \in [status : {"PASS", "WARNING", "FAIL"}, validity : AllValidities]
    <3>1. /\ r.status \in {"PASS", "WARNING", "FAIL"} /\ r.validity # ""
          /\ r = [status |-> r.status, validity |-> r.validity]
      BY <2>4 DEF AllValidities
    <3>2. r # NotMeasured
      BY <3>1, NotMeasuredFacts
    <3>3. QED
      BY <3>1, <3>2 DEF DecisionStatus
  <2>5. QED
    BY <2>1, <2>2, <2>3, <2>4 DEF TimingResults
<1>3. QED
  BY <1>1, <1>2

LEMMA OutcomeIsMeasured ==
    ASSUME NEW r \in TimingOutcomes
    PROVE  r # NotMeasured
<1>1. r \in TimingResults
  BY PipelineAssumption
<1>2. r.status # "NONE"
  BY <1>1 DEF TimingResults
<1>3. QED
  BY <1>2, NotMeasuredFacts

\* A Valgrind run gets one of three statuses, and PASS only if it was clean.
LEMMA CtStatusFacts ==
    ASSUME config.sentinel \in Sentinels,
           NEW h, NEW run \in ValgrindRuns, NEW s \in Printed
    PROVE  /\ CtStatus(h, run, s) \in {"PASS", "FAIL", "ERROR"}
           /\ CtStatus(h, run, s) = "PASS" => CleanRun(h, run, s)
BY DEF CtStatus, CleanRun, Announced, Sentinels, Printed, ClassifyValgrind, ValgrindRuns

\* The stages list harnesses of the configuration.
LEMMA NamesTyped ==
    ASSUME TypeOK
    PROVE  CtNames \subseteq Harnesses /\ TimingNames \subseteq Harnesses
<1>1. config \in ConfigType
  BY PipelineAssumption DEF TypeOK
<1>2. config.ct \in (SUBSET Harnesses) \cup {None} /\ config.timing \in (SUBSET Harnesses) \cup {None}
  BY <1>1 DEF ConfigType
<1>3. CtNames \subseteq Harnesses
  <2>1. CASE config.ct = None
    BY <2>1 DEF CtNames
  <2>2. CASE config.ct # None
    <3>1. config.ct \in SUBSET Harnesses
      BY <1>2, <2>2
    <3>2. CtNames = config.ct
      BY <2>2 DEF CtNames
    <3>3. QED
      BY <3>1, <3>2
  <2>3. QED
    BY <2>1, <2>2
<1>4. TimingNames \subseteq Harnesses
  <2>1. CASE config.timing = None
    BY <2>1 DEF TimingNames
  <2>2. CASE config.timing # None
    <3>1. config.timing \in SUBSET Harnesses
      BY <1>2, <2>2
    <3>2. TimingNames = config.timing
      BY <2>2 DEF TimingNames
    <3>3. QED
      BY <3>1, <3>2
  <2>3. QED
    BY <2>1, <2>2
<1>5. QED
  BY <1>3, <1>4

\* What the verdict of a harness says of its results.
LEMMA VerdictFacts ==
    ASSUME TypeOK, NEW h \in Harnesses
    PROVE  /\ VerdictOf(h) \in Verdicts
           /\ VerdictOf(h) = "INCONCLUSIVE" <=>
                  kat = "FAIL" \/ ct[h] = "ERROR" \/ DecisionStatus(tim[h]) = "ERROR"
           /\ VerdictOf(h) = "CLEAN" <=>
                  /\ kat # "FAIL" /\ ct[h] \in {"PASS", "NONE"}
                  /\ DecisionStatus(tim[h]) \in {"PASS", "NONE"}
<1>1. ct[h] \in CtStatuses /\ tim[h] \in TimingOutcomes \cup {NotMeasured} /\ kat \in KatStatuses
  BY DEF TypeOK
<1>2. DecisionStatus(tim[h]) \in {"PASS", "WARNING", "FAIL", "ERROR", "NONE"}
  BY <1>1, DecisionFacts
<1>3. QED
  BY <1>1, <1>2, MatrixFacts DEF VerdictOf

\* A harness with a CLEAN verdict is one no exit rule objects to.
LEMMA HarnessGate ==
    ASSUME TypeOK, NEW h \in Harnesses
    PROVE  /\ VerdictOf(h) = "CLEAN" <=>
                  /\ VerdictOf(h) # "INCONCLUSIVE" /\ ct[h] # "FAIL"
                  /\ tim[h].status \notin {"FAIL", "WARNING"}
           /\ tim[h] # NotMeasured =>
                  (DecisionStatus(tim[h]) \in {"PASS", "NONE"} <=>
                      /\ tim[h].validity = "valid"
                      /\ tim[h].status \notin {"ERROR", "FAIL", "WARNING"})
<1>1. /\ ct[h] \in {"PASS", "FAIL", "ERROR", "NONE"}
      /\ tim[h] \in TimingOutcomes \cup {NotMeasured}
  BY DEF TypeOK, CtStatuses
<1> DEFINE r == tim[h]
           d == DecisionStatus(r)
<1>2. /\ d \in {"PASS", "WARNING", "FAIL", "ERROR", "NONE"}
      /\ d = "PASS" => r.status = "PASS" /\ r.validity = "valid"
      /\ d = "NONE" <=> r = NotMeasured
      /\ (r # NotMeasured /\ d # "ERROR") => r.validity = "valid"
      /\ r.validity = "valid" => d = r.status
  BY <1>1, DecisionFacts
<1>3. /\ VerdictOf(h) = "INCONCLUSIVE" <=> kat = "FAIL" \/ ct[h] = "ERROR" \/ d = "ERROR"
      /\ VerdictOf(h) = "CLEAN" <=>
             kat # "FAIL" /\ ct[h] \in {"PASS", "NONE"} /\ d \in {"PASS", "NONE"}
  BY VerdictFacts
<1> HIDE DEF d, r
<1>4. r.status \notin {"FAIL", "WARNING"} /\ d # "ERROR" => d \in {"PASS", "NONE"}
  BY <1>2
<1>5. d \in {"PASS", "NONE"} => r.status \notin {"FAIL", "WARNING", "ERROR"}
  BY <1>2, NotMeasuredFacts
<1>6. r # NotMeasured =>
          (d \in {"PASS", "NONE"} <=>
              r.validity = "valid" /\ r.status \notin {"ERROR", "FAIL", "WARNING"})
  BY <1>2, <1>5
<1>7. VerdictOf(h) = "CLEAN" <=>
          /\ VerdictOf(h) # "INCONCLUSIVE" /\ ct[h] # "FAIL"
          /\ r.status \notin {"FAIL", "WARNING"}
  BY <1>1, <1>3, <1>4, <1>5
<1>8. QED
  BY <1>6, <1>7 DEF d, r

-----------------------------------------------------------------------------
THEOREM InitIInv == Init => IInv
<1> SUFFICES ASSUME Init PROVE IInv
  OBVIOUS
<1> USE DEF Init
<1>1. TypeOK
  <2>1. NotMeasured \in TimingOutcomes \cup {NotMeasured} /\ {} \subseteq Harnesses
    OBVIOUS
  <2>2. QED
    BY <2>1 DEF TypeOK, KatStatuses, CtStatuses, FileStates, NoCsv, Verdicts
<1>2. Order /\ Progress /\ Ending /\ ExitZeroIsAllClean /\ GatesAgree
  BY DEF Order, Progress, Ending, ExitZeroIsAllClean, GatesAgree, Fresh, NoCsv
<1>3. QED
  BY <1>1, <1>2 DEF IInv

-----------------------------------------------------------------------------
(* Each step preserves IInv                                                *)

\* A command starts: every row in the file becomes an earlier command's.
LEMMA BeginStep ==
    ASSUME IInv, BeginRun \/ BeginCt \/ BeginDudect
    PROVE  IInv'
<1>1. PICK c \in {"run", "ct", "dudect"}, first \in {"build", "ct", "timing"} :
          /\ Begin(c, first)
          /\ <<c, first>> \in {<<"run", "build">>, <<"ct", "ct">>, <<"dudect", "timing">>}
          /\ forced' \in BOOLEAN
  BY DEF BeginRun, BeginCt, BeginDudect
<1>2. /\ csv' = [state |-> Aged(csv.state), rows |-> csv.rows, kat |-> csv.kat]
      /\ ~Fresh'
  BY <1>1 DEF Begin, IInv, TypeOK, Fresh, Aged, FileStates
<1>3. TypeOK'
  BY <1>1, <1>2 DEF Begin, IInv, TypeOK, Aged, FileStates, Stages, KatStatuses, CtStatuses
<1>4. Order' /\ Progress' /\ Ending' /\ ExitZeroIsAllClean' /\ GatesAgree'
  BY <1>1, <1>2 DEF Begin, Order, Progress, Ending, ExitZeroIsAllClean, GatesAgree
<1>5. QED
  BY <1>3, <1>4 DEF IInv

\* A step that changes no file and no result of a stage, and moves on or
\* ends with a code other than "0".
LEMMA MoveStep ==
    ASSUME IInv, pc # "done",
           BuildFails \/ BuildPasses \/ SkipKat \/ SkipCt \/ RefuseCt \/ GenerateAborts
               \/ Generate \/ SkipTiming \/ RefuseTiming \/ PrepareTiming
               \/ MeasureAborts \/ Kill
    PROVE  IInv'
<1>1. ~Fresh /\ ~Fresh'
  BY DEF IInv, Ending, Fresh, BuildFails, BuildPasses, SkipKat, SkipCt, RefuseCt,
         GenerateAborts, Generate, SkipTiming, RefuseTiming, PrepareTiming,
         MeasureAborts, Kill, files
<1>2. UNCHANGED <<config, cmd, forced, kat, ct, clean, tim, csv, findings, timing>>
  BY DEF BuildFails, BuildPasses, SkipKat, SkipCt, RefuseCt,
         GenerateAborts, Generate, SkipTiming, RefuseTiming, PrepareTiming,
         MeasureAborts, Kill, files, results
<1>3. CtNames \subseteq Harnesses /\ TimingNames \subseteq Harnesses
  BY NamesTyped DEF IInv
<1>4. TypeOK'
  BY <1>2, <1>3 DEF IInv, TypeOK, BuildFails, BuildPasses, SkipKat, SkipCt, RefuseCt,
         GenerateAborts, Generate, SkipTiming, RefuseTiming, PrepareTiming,
         MeasureAborts, Kill, Finish, Continue, Stages, CtNames, TimingNames
<1>5. Order'
  BY <1>2 DEF IInv, Order, BuildFails, BuildPasses, SkipKat, SkipCt, RefuseCt,
         GenerateAborts, Generate, SkipTiming, RefuseTiming, PrepareTiming,
         MeasureAborts, Kill, Finish, Continue, CtNames, TimingNames
<1>6. Progress'
  BY <1>2 DEF IInv, Order, Progress, Prepared, Measured, BuildFails, BuildPasses, SkipKat,
         SkipCt, RefuseCt,
         GenerateAborts, Generate, SkipTiming, RefuseTiming, PrepareTiming,
         MeasureAborts, Kill, Finish, Continue, CtNames, TimingNames
<1>7. Ending' /\ GatesAgree'
  BY <1>1 DEF Ending, GatesAgree, Fresh
<1>8. ~(pc' = "done" /\ exit' = "0")
  BY DEF BuildFails, BuildPasses, SkipKat, SkipCt, RefuseCt,
         GenerateAborts, Generate, SkipTiming, RefuseTiming, PrepareTiming,
         MeasureAborts, Kill, Finish, Continue
<1>9. QED
  BY <1>4, <1>5, <1>6, <1>7, <1>8 DEF IInv, ExitZeroIsAllClean

\* The KAT sets its status before anything depends on it.
LEMMA KatStep ==
    ASSUME IInv, RunKat
    PROVE  IInv'
<1>1. ~Fresh /\ ~Fresh'
  BY DEF IInv, Ending, Fresh, RunKat, files
<1>2. TypeOK'
  BY DEF IInv, TypeOK, RunKat, Finish, Continue, Stages, KatStatuses, files
<1>3. Order' /\ Progress' /\ Ending' /\ GatesAgree' /\ ExitZeroIsAllClean'
  BY <1>1 DEF IInv, Order, Progress, Ending, GatesAgree, ExitZeroIsAllClean, Fresh,
              RunKat, Finish, Continue, files, Prepared, CtNames, TimingNames
<1>4. QED
  BY <1>2, <1>3 DEF IInv

\* The Valgrind loop settles the harness it visits.
LEMMA CheckStep ==
    ASSUME IInv, NEW h \in Harnesses, CheckHarness(h)
    PROVE  IInv'
<1>1. ~Fresh /\ ~Fresh'
  BY DEF IInv, Ending, Fresh, CheckHarness, files
<1>2. PICK run \in ValgrindRuns, s \in Printed :
          /\ ct' = [ct EXCEPT ![h] = CtStatus(h, run, s)]
          /\ clean' = IF CleanRun(h, run, s) THEN clean \cup {h} ELSE clean
  BY DEF CheckHarness
<1>0. config.sentinel \in Sentinels
  BY PipelineAssumption DEF IInv, TypeOK, ConfigType
<1>3. /\ ct' \in [Harnesses -> CtStatuses] /\ clean' \subseteq Harnesses
      /\ \A g \in Harnesses : g # h => ct'[g] = ct[g]
      /\ ct'[h] # "NONE"
      /\ \A g \in Harnesses : ct'[g] = "PASS" => g \in clean'
  BY <1>0, <1>2, CtStatusFacts DEF IInv, TypeOK, Progress, CtStatuses
<1>4. TypeOK'
  BY <1>3 DEF IInv, TypeOK, CheckHarness, files
<1>5. Order' /\ Ending' /\ GatesAgree' /\ ExitZeroIsAllClean'
  BY <1>1 DEF IInv, Order, Ending, GatesAgree, ExitZeroIsAllClean,
              Fresh, CheckHarness, files, CtNames, TimingNames
<1>6. Progress'
  <2>1. /\ pc = "valgrind" /\ h \in todo /\ todo' = todo \ {h}
        /\ UNCHANGED <<pc, cmd, tim, CtNames, TimingNames>>
    BY DEF CheckHarness, IsNext, CtNames, TimingNames
  <2>2. \A g \in Harnesses : g \notin CtNames => ct'[g] = "NONE"
    BY <1>3, <2>1 DEF IInv, Progress
  <2>3. \A g \in Harnesses \ todo' : Prepared(g)'
    BY <1>3, <2>1 DEF IInv, Progress, Prepared
  <2>4. QED
    BY <1>3, <2>1, <2>2, <2>3 DEF IInv, Progress
<1>7. QED
  BY <1>4, <1>5, <1>6 DEF IInv

\* The timing loop settles the harness it visits.
LEMMA MeasureStep ==
    ASSUME IInv, NEW h \in Harnesses, MeasureHarness(h)
    PROVE  IInv'
<1>1. ~Fresh /\ ~Fresh'
  BY DEF IInv, Ending, Fresh, MeasureHarness, files
<1>2. PICK r \in TimingOutcomes : tim' = [tim EXCEPT ![h] = r]
  BY DEF MeasureHarness
<1>3. r # NotMeasured
  BY OutcomeIsMeasured
<1>4. /\ tim' \in [Harnesses -> TimingOutcomes \cup {NotMeasured}]
      /\ \A g \in Harnesses : g # h => tim'[g] = tim[g]
      /\ tim'[h] # NotMeasured
  BY <1>2, <1>3 DEF IInv, TypeOK
<1>5. TypeOK'
  BY <1>4 DEF IInv, TypeOK, MeasureHarness, files
<1>6. Order' /\ Ending' /\ GatesAgree' /\ ExitZeroIsAllClean'
  BY <1>1 DEF IInv, Order, Ending, GatesAgree, ExitZeroIsAllClean,
         Fresh, MeasureHarness, files, CtNames, TimingNames
<1>7. Progress'
  <2>1. /\ pc = "measure" /\ h \in todo /\ todo' = todo \ {h}
        /\ UNCHANGED <<pc, cmd, ct, clean, findings, config, CtNames, TimingNames>>
    BY DEF MeasureHarness, IsNext, CtNames, TimingNames, files
  <2>2. \A g \in Harnesses : g \notin TimingNames => tim'[g] = NotMeasured
    BY <1>4, <2>1 DEF IInv, Progress
  <2>3. \A g \in Harnesses \ todo' : Measured(g)'
    BY <1>4, <2>1 DEF IInv, Progress, Measured
  <2>4. \A g \in Harnesses : Prepared(g)' <=> Prepared(g)
    BY <2>1 DEF Prepared
  <2>5. QED
    BY <2>1, <2>2, <2>3, <2>4 DEF IInv, Progress
<1>8. QED
  BY <1>5, <1>6, <1>7 DEF IInv

\* A stage writes its report and hands over, or ends its own command.
LEMMA EmitStep ==
    ASSUME IInv, EmitFindings \/ EmitTiming
    PROVE  IInv'
<1>1. ~Fresh /\ ~Fresh'
  BY DEF IInv, Ending, Fresh, EmitFindings, EmitTiming
<1>2. CtExit \in {"0", "2"} /\ TimingExit \in {"0", "2"}
  BY DEF CtExit, TimingExit
<1>3. TypeOK'
  BY <1>2 DEF IInv, TypeOK, EmitFindings, EmitTiming, Finish, Continue, Stages, FileStates,
         results
<1>4. Order' /\ Progress' /\ Ending' /\ GatesAgree' /\ ExitZeroIsAllClean'
  BY <1>1 DEF IInv, Order, Progress, Ending, GatesAgree, ExitZeroIsAllClean, Fresh,
         EmitFindings, EmitTiming, Finish, Continue, results, Prepared, Measured,
         CtNames, TimingNames, TypeOK
<1>5. QED
  BY <1>3, <1>4 DEF IInv

\* Rows written at the verdict stage say what the settled results say.
LEMMA FileWritten ==
    ASSUME IInv, pc = "verdict", pc' = "done", NEW S, S \subseteq Names,
           NEW state \in {"torn", "current"}, csv' = VerdictFile(state, S),
           UNCHANGED <<config, cmd, forced, kat, ct, clean, tim, todo, findings, timing>>,
           exit' \in {"0", "2", "killed"}
    PROVE  TypeOK' /\ Order' /\ Progress' /\ Ending'
<1>1. CtNames \subseteq Harnesses /\ TimingNames \subseteq Harnesses
  BY NamesTyped DEF IInv
<1>2. \A h \in Harnesses : VerdictOf(h) \in Verdicts
  BY VerdictFacts DEF IInv
<1>3. /\ csv'.state = state /\ csv'.kat = kat /\ DOMAIN csv'.rows = S
      /\ \A h \in S : csv'.rows[h] = VerdictOf(h)
      /\ csv' = [state |-> csv'.state, rows |-> csv'.rows, kat |-> csv'.kat]
  BY DEF VerdictFile
<1>4. S \subseteq Harnesses
  BY <1>1 DEF Names
<1>5. TypeOK'
  BY <1>2, <1>3, <1>4 DEF IInv, TypeOK, FileStates
<1>6. Order' /\ Progress'
  BY DEF IInv, Order, Progress, CtNames, TimingNames
<1>7. Ending'
  <2>1. \A h \in S : VerdictOf(h)' = VerdictOf(h)
    BY DEF VerdictOf
  <2>2. QED
    BY <1>3, <2>1 DEF IInv, Order, Progress, Ending, Prepared, Measured, CtNames,
       TimingNames, Names
<1>8. QED
  BY <1>5, <1>6, <1>7

\* A torn report; a torn verdict file holds rows of this command.
LEMMA KillWritingStep ==
    ASSUME IInv, KillWriting
    PROVE  IInv'
<1>1. CtNames \subseteq Harnesses /\ TimingNames \subseteq Harnesses
  BY NamesTyped DEF IInv
<1>2. UNCHANGED <<config, cmd, forced, kat, ct, clean, tim, todo>>
      /\ pc' = "done" /\ exit' = "killed"
  BY DEF KillWriting, Finish, results
<1>3. CASE csv' = csv
  <2>1. ~Fresh /\ ~Fresh'
    BY <1>3 DEF KillWriting, IInv, Ending, Fresh
  <2>2. findings' \in FileStates /\ timing' \in FileStates
    BY <1>3 DEF KillWriting, IInv, TypeOK, FileStates
  <2>3. TypeOK'
    BY <1>2, <1>3, <2>2 DEF IInv, TypeOK
  <2>4. QED
    BY <1>2, <2>1, <2>3 DEF IInv, Order, Progress, Ending, GatesAgree, ExitZeroIsAllClean,
       Fresh, CtNames, TimingNames
<1>4. CASE pc = "verdict" /\ \E S \in Prefixes : csv' = VerdictFile("torn", S)
  <2>1. PICK S \in Prefixes : csv' = VerdictFile("torn", S)
    BY <1>4
  <2>2. S \subseteq Names
    BY DEF Prefixes, Judged
  <2>3. UNCHANGED <<findings, timing>>
    BY <1>4 DEF KillWriting
  <2>4. TypeOK' /\ Order' /\ Progress' /\ Ending'
    BY <1>2, <1>4, <2>1, <2>2, <2>3, FileWritten
  <2>5. csv'.state = "torn"
    BY <2>1 DEF VerdictFile
  <2>6. QED
    BY <1>2, <2>4, <2>5 DEF IInv, GatesAgree, ExitZeroIsAllClean
<1>5. QED
  BY <1>3, <1>4 DEF KillWriting

\* The verdict is the last thing a run writes, from settled results.
LEMMA ConcludeStep ==
    ASSUME IInv, Conclude
    PROVE  IInv'
<1>1. UNCHANGED <<config, cmd, forced, kat, ct, clean, tim, todo, findings, timing>>
      /\ pc = "verdict" /\ pc' = "done" /\ exit' = RunExit /\ cmd = "run" /\ ~Fresh
  BY DEF Conclude, Finish, results, IInv, Order, Ending
<1>2. RunExit \in {"0", "2"}
  BY DEF RunExit
<1>3. CASE Judged = {}
  <2>1. csv' = csv /\ ~Fresh'
    BY <1>1, <1>3 DEF Conclude, Fresh
  <2>2. TypeOK'
    BY <1>1, <1>2, <2>1 DEF IInv, TypeOK
  <2>3. ~Staged'
    <3>1. SUFFICES ASSUME Staged PROVE FALSE
      BY <1>1 DEF Staged
    <3>2. Names = {}
      BY <1>3, <3>1 DEF Judged
    <3>3. QED
      BY <1>1, <3>1, <3>2 DEF IInv, Order, Progress, Names, Staged
  <2>4. QED
    BY <1>1, <2>1, <2>2, <2>3 DEF IInv, Order, Progress, Ending, GatesAgree, ExitZeroIsAllClean,
       Fresh, CtNames, TimingNames
<1>4. CASE Judged # {}
  <2>1. Staged /\ Judged = Names /\ csv' = VerdictFile("current", Names)
    BY <1>1, <1>4 DEF Conclude, Judged
  <2>2. TypeOK' /\ Order' /\ Progress' /\ Ending'
    BY <1>1, <1>2, <2>1, FileWritten
  <2>3. CtNames \subseteq Harnesses /\ TimingNames \subseteq Harnesses /\ Names \subseteq Harnesses
    BY NamesTyped DEF IInv, Names
  <2>4. RunExit = "0" <=> \A h \in Names : VerdictOf(h) = "CLEAN"
    <3>1. RunExit = "0" <=>
              \A h \in Names : /\ VerdictOf(h) # "INCONCLUSIVE" /\ ct[h] # "FAIL"
                              /\ tim[h].status \notin {"FAIL", "WARNING"}
      BY <2>1, <2>3, NotMeasuredFacts DEF RunExit, Names, IInv, Progress
    <3>2. QED
      BY <2>3, <3>1, HarnessGate DEF IInv
  <2>5. CtExit = "0" <=> \A h \in Names : ct[h] \in {"PASS", "NONE"}
    BY <2>3 DEF CtExit, Names, IInv, TypeOK, Progress, CtStatuses
  <2>6. config.timing # None =>
            (TimingExit = "0" <=>
                \A h \in Names : DecisionStatus(tim[h]) \in {"PASS", "NONE"})
    BY <1>1, <2>3, HarnessGate, NotMeasuredFacts
       DEF TimingExit, Names, IInv, Order, Progress, Measured, DecisionStatus
  <2>7. UNCHANGED <<CtNames, TimingNames, Names, Staged, CtExit, TimingExit>>
    BY <1>1 DEF CtNames, TimingNames, Names, Staged, CtExit, TimingExit
  <2>8. ExitZeroIsAllClean'
    BY <1>1, <2>1, <2>4, <2>7 DEF ExitZeroIsAllClean, VerdictFile
  <2>9. GatesAgree'
    <3>1. Names # {} /\ \A h \in Names : VerdictOf(h) = "CLEAN" <=>
                /\ kat # "FAIL" /\ ct[h] \in {"PASS", "NONE"}
                /\ DecisionStatus(tim[h]) \in {"PASS", "NONE"}
      BY <1>4, <2>1, <2>3, VerdictFacts DEF IInv
    <3>2. config.ct = None => \A h \in Names : ct[h] \in {"PASS", "NONE"}
      BY <2>3 DEF IInv, Progress, CtNames
    <3>3. config.timing = None =>
              \A h \in Names : DecisionStatus(tim[h]) \in {"PASS", "NONE"}
      BY <2>3, DecisionFacts DEF IInv, TypeOK, Progress, TimingNames
    <3>4. RunExit = "0" <=>
              /\ kat # "FAIL"
              /\ config.ct # None => CtExit = "0"
              /\ config.timing # None => TimingExit = "0"
      BY <2>4, <2>5, <2>6, <3>1, <3>2, <3>3
    <3>5. QED
      BY <1>1, <2>7, <3>4 DEF GatesAgree
  <2>10. QED
    BY <2>2, <2>8, <2>9 DEF IInv
<1>5. QED
  BY <1>3, <1>4

\* Every step of the commands preserves the invariant.
LEMMA StepIInv ==
    ASSUME IInv, [Next]_vars
    PROVE  IInv'
<1>1. CASE BeginRun \/ BeginCt \/ BeginDudect
  BY <1>1, BeginStep
<1>2. CASE BuildFails \/ BuildPasses \/ SkipKat \/ SkipCt \/ RefuseCt \/ GenerateAborts
               \/ Generate \/ SkipTiming \/ RefuseTiming \/ PrepareTiming
               \/ MeasureAborts \/ Kill
  <2>1. pc # "done"
    BY <1>2 DEF BuildFails, BuildPasses, SkipKat, SkipCt, RefuseCt, GenerateAborts,
       Generate, SkipTiming, RefuseTiming, PrepareTiming, MeasureAborts, Kill
  <2>2. QED
    BY <1>2, <2>1, MoveStep
<1>3. CASE RunKat
  BY <1>3, KatStep
<1>4. CASE \E h \in Harnesses : CheckHarness(h)
  BY <1>4, CheckStep
<1>5. CASE \E h \in Harnesses : MeasureHarness(h)
  BY <1>5, MeasureStep
<1>6. CASE EmitFindings \/ EmitTiming
  BY <1>6, EmitStep
<1>7. CASE Conclude
  BY <1>7, ConcludeStep
<1>8. CASE KillWriting
  BY <1>8, KillWritingStep
<1>9. CASE UNCHANGED vars
  <2>1. UNCHANGED <<CtNames, TimingNames, Names, Staged, CtExit, TimingExit, Fresh>>
    BY <1>9 DEF vars, Fresh, CtNames, TimingNames, Names, Staged, CtExit, TimingExit
  <2>2. \A h : UNCHANGED <<VerdictOf(h), Prepared(h), Measured(h)>>
    BY <1>9, <2>1 DEF vars, VerdictOf, Prepared, Measured
  <2>3. TypeOK' /\ Order'
    BY <1>9, <2>1 DEF vars, IInv, TypeOK, Order
  <2>4. Progress'
    BY <1>9, <2>1, <2>2 DEF vars, IInv, Progress
  <2>5. Ending'
    BY <1>9, <2>1, <2>2 DEF vars, IInv, Ending
  <2>6. ExitZeroIsAllClean' /\ GatesAgree'
    BY <1>9, <2>1 DEF vars, IInv, ExitZeroIsAllClean, GatesAgree
  <2>7. QED
    BY <2>3, <2>4, <2>5, <2>6 DEF IInv
<1>10. QED
  BY <1>1, <1>2, <1>3, <1>4, <1>5, <1>6, <1>7, <1>8, <1>9 DEF Next

\* The invariant the other theorems about the commands rest on.
THEOREM PipelineInductive == Spec => []IInv
BY InitIInv, StepIInv, PTL DEF Spec

\* The variables keep their types.
THEOREM PipelineTyped == Spec => []TypeOK
<1>1. IInv => TypeOK
  BY DEF IInv
<1>2. QED
  BY <1>1, PipelineInductive, PTL

\* No CLEAN row without every stage behind it, however many harnesses, and
\* wherever the run was killed.
THEOREM CleanRowsAlwaysBacked == Spec => []CleanRowsAreBacked
<1>1. IInv => CleanRowsAreBacked
  <2> SUFFICES ASSUME IInv, Fresh, NEW h \in DOMAIN csv.rows, csv.rows[h] = "CLEAN"
               PROVE  /\ kat # "FAIL" /\ h \in Names
                      /\ h \in CtNames => h \in clean
                      /\ h \in TimingNames =>
                             tim[h] = [status |-> "PASS", validity |-> "valid"]
    BY DEF CleanRowsAreBacked
  <2>1. h \in Names /\ h \in Harnesses /\ VerdictOf(h) = "CLEAN" /\ Prepared(h) /\ Measured(h)
    BY NamesTyped DEF IInv, Ending, Names
  <2>2. /\ kat # "FAIL" /\ ct[h] \in {"PASS", "NONE"}
        /\ DecisionStatus(tim[h]) \in {"PASS", "NONE"}
    BY <2>1, VerdictFacts DEF IInv
  <2>3. h \in CtNames => h \in clean
    BY <2>1, <2>2 DEF IInv, Progress, Prepared
  <2>4. h \in TimingNames => tim[h] = [status |-> "PASS", validity |-> "valid"]
    BY <2>1, <2>2, DecisionFacts DEF IInv, TypeOK, Measured
  <2>5. QED
    BY <2>1, <2>2, <2>3, <2>4
<1>2. QED
  BY <1>1, PipelineInductive, PTL

\* Exit 0 of `run` stands for a complete, all-CLEAN verdict file of that run.
THEOREM ExitZeroAlwaysClean == Spec => []ExitZeroIsAllClean
<1>1. IInv => ExitZeroIsAllClean
  BY DEF IInv
<1>2. QED
  BY <1>1, PipelineInductive, PTL

\* `run` gates exactly when one of the stages' own commands would.
THEOREM GatesAlwaysAgree == Spec => []GatesAgree
<1>1. IInv => GatesAgree
  BY DEF IInv
<1>2. QED
  BY <1>1, PipelineInductive, PTL

\* The combined verdict never raises on the pair it is given.
THEOREM MatrixAlwaysTotal == Spec => []MatrixIsTotal
<1>1. IInv => MatrixIsTotal
  <2> SUFFICES ASSUME IInv, pc = "verdict", NEW h \in Judged
               PROVE  Pair(h) \in MatrixKeys
    BY DEF MatrixIsTotal
  <2>1. h \in Harnesses
    BY NamesTyped DEF IInv, Judged, Names
  <2>2. ct[h] \in CtStatuses /\ tim[h] \in TimingOutcomes \cup {NotMeasured}
    BY <2>1 DEF IInv, TypeOK
  <2>3. DecisionStatus(tim[h]) \in {"PASS", "WARNING", "FAIL", "ERROR", "NONE"}
    BY <2>2, DecisionFacts
  <2>4. QED
    BY <2>2, <2>3 DEF Pair, MatrixKeys, CtStatuses
<1>2. QED
  BY <1>1, PipelineInductive, PTL

\* The verdict file is never newer than the reports it summarises.
THEOREM VerdictAlwaysLast == Spec => []VerdictComesLast
<1>1. IInv => VerdictComesLast
  BY DEF IInv, Ending, VerdictComesLast
<1>2. QED
  BY <1>1, PipelineInductive, PTL
=============================================================================
