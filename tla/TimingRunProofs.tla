-------------------------- MODULE TimingRunProofs --------------------------
(***************************************************************************)
(* The invariants of TimingRun, for every set of configurations, traces    *)
(* and builds, and whatever number of rows a process is asked for.         *)
(***************************************************************************)
EXTENDS TimingRun, FiniteSetTheorems, TLAPS

ErrorResult == [status |-> "ERROR", validity |-> "error"]

\* The variables that TypeOK looks into are records.
Shaped ==
    /\ plan \in PlanType
    /\ proc = [build |-> proc.build, trace |-> proc.trace]

\* What is there in which stage, and that nothing is said before the end.
Order ==
    /\ pc \notin {"render", "compile", "aborted"} => binary \in Builds
    /\ pc = "running" => proc.build \in Builds
    /\ pc \in {"render", "compile", "contract", "captureBinary", "writeSeal"} =>
           seen = {} /\ step = 0
    /\ pc # "done" => result = NotMeasured

\* How many processes of the role at place p have been accounted.
PassedBy(first, turns, p, n) ==
    n \div turns + (IF first + (n % turns) > p THEN 1 ELSE 0)

Passed(p) == PassedBy(FirstRole, Turns, p, step)

\* A control is counted at most once for each of its processes.
Counts ==
    /\ {stats.aa, stats.placebo, stats.detected} \subseteq Nat
    /\ IF Protocol
       THEN stats.aa <= Passed(3) /\ stats.placebo <= Passed(4) /\ stats.detected <= Passed(7)
       ELSE stats.aa = 0 /\ stats.placebo = 0 /\ stats.detected = 0

\* A result is an error, or what the cascade says of all that was accounted.
Concluded ==
    pc = "done" =>
        \/ result = ErrorResult
        \/ \E status \in Winners :
               result = [status |-> status, validity |-> Validity(status)]

IInv == TypeOK /\ Shaped /\ Order /\ Counts /\ Concluded

-----------------------------------------------------------------------------
(* The places of the roles                                                 *)

LEMMA Places ==
    ASSUME plan \in PlanType
    PROVE  /\ FirstRole \in {1, 2} /\ LastRole \in {2, 7} /\ Turns \in {1, 2, 6, 7}
           /\ Protocol => LastRole = 7 /\ Turns = 8 - FirstRole
           /\ ~Protocol => LastRole = 2 /\ Turns = 3 - FirstRole
           /\ Repeats \in Nat \ {0} /\ Repeats * Turns \in Nat \ {0}
<1>1. /\ FirstRole \in {1, 2} /\ LastRole \in {2, 7} /\ Turns \in {1, 2, 6, 7}
      /\ Protocol => LastRole = 7 /\ Turns = 8 - FirstRole
      /\ ~Protocol => LastRole = 2 /\ Turns = 3 - FirstRole
  BY DEF FirstRole, LastRole, Turns
<1>2. Repeats \in Nat \ {0}
  BY DEF Repeats, PlanType
<1>3. \A n \in Nat \ {0}, t \in {1, 2, 6, 7} : n * t \in Nat \ {0}
  OBVIOUS
<1> QED BY <1>1, <1>2, <1>3

\* The role of a step is one of the seven, found at its place.
LEMMA RoleOfStep ==
    ASSUME plan \in PlanType, step \in Nat
    PROVE  LET place == FirstRole + (step % Turns) IN
           /\ place \in FirstRole .. LastRole
           /\ Role = Roles[place]
           /\ Role = "aa" <=> place = 3
           /\ Role = "placebo" <=> place = 4
           /\ Role = "largest" <=> place = 7
<1> DEFINE place == FirstRole + (step % Turns)
<1>1. \A n \in Nat, t \in {1, 2, 6, 7} : n % t \in 0 .. t - 1
  OBVIOUS
<1>2. step % Turns \in 0 .. Turns - 1
  BY <1>1, Places
<1>3. place \in FirstRole .. LastRole
  <2> HIDE DEF place
  <2> QED BY <1>2, Places DEF Turns, place
<1>4. \A q \in 1 .. 7 : /\ Roles[q] = "aa" <=> q = 3
                        /\ Roles[q] = "placebo" <=> q = 4
                        /\ Roles[q] = "largest" <=> q = 7
  BY DEF Roles
<1>5. place \in 1 .. 7 /\ Role = Roles[place]
  BY <1>3, Places DEF Role
<1> QED BY <1>3, <1>4, <1>5

\* A step takes the count of its own place up by one and no other down.
LEMMA PassedStep ==
    ASSUME NEW first \in {1, 2}, NEW t \in {1, 2, 6, 7}, t \in {8 - first, 3 - first},
           NEW n \in Nat, NEW p \in {3, 4, 7}
    PROVE  /\ PassedBy(first, t, p, n) \in Nat
           /\ PassedBy(first, t, p, n + 1) >= PassedBy(first, t, p, n)
<1> USE DEF PassedBy
<1>1. CASE t = 1 BY <1>1
<1>2. CASE t = 2 BY <1>2
<1>3. CASE t = 6 BY <1>3
<1>4. CASE t = 7 BY <1>4
<1> QED BY <1>1, <1>2, <1>3, <1>4

LEMMA PassedBound ==
    ASSUME NEW first \in {1, 2}, NEW t \in {1, 2, 6, 7}, t = 8 - first,
           NEW n \in Nat, NEW p \in {3, 4, 7}, NEW r \in Nat, n <= r * t
    PROVE  PassedBy(first, t, p, n) <= r
<1>1. CASE t = 6 BY <1>1 DEF PassedBy
<1>2. CASE t = 7 BY <1>2 DEF PassedBy
<1> QED BY <1>1, <1>2

LEMMA PassedFacts ==
    ASSUME plan \in PlanType, step \in Nat, NEW p \in {3, 4, 7}
    PROVE  /\ Passed(p) \in Nat
           /\ Protocol /\ step <= Repeats * Turns => Passed(p) <= Repeats
<1>1. /\ FirstRole \in {1, 2} /\ Turns \in {1, 2, 6, 7} /\ Turns \in {8 - FirstRole, 3 - FirstRole}
      /\ Repeats \in Nat
      /\ Protocol => Turns = 8 - FirstRole
  BY Places
<1>2. Passed(p) \in Nat
  BY <1>1, PassedStep DEF Passed
<1>3. ASSUME Protocol, step <= Repeats * Turns PROVE Passed(p) <= Repeats
  BY <1>1, <1>3, PassedBound DEF Passed
<1> QED BY <1>2, <1>3

LEMMA ResultTypes ==
    ASSUME TypeOK, NEW status \in Winners
    PROVE  /\ status \in {"PASS", "WARNING", "FAIL", "INSUFFICIENT"}
           /\ [status |-> status, validity |-> Validity(status)] \in TimingResults
<1>1. \A o \in stats.outcomes : o \in {"PASS", "UNDEFINED", "WARNING", "FAIL", "INSUFFICIENT"}
  BY DEF TypeOK, Outcomes
<1>2. status \in {StatusOf(o) : o \in stats.outcomes}
  BY DEF Winners
<1>3. status \in {"PASS", "WARNING", "FAIL", "INSUFFICIENT"}
  BY <1>1, <1>2 DEF StatusOf
<1>4. Validity(status) \in AllValidities
  BY DEF Validity, AllValidities
<1>5. status = "INSUFFICIENT" =>
          Validity(status) \in {"insufficient-power", "environment-rejected", "error"}
  BY DEF Validity
<1> QED BY <1>3, <1>4, <1>5 DEF TimingResults

-----------------------------------------------------------------------------
(* The invariant holds at first, and every action keeps it                 *)

LEMMA InitIInv == Init => IInv
<1> SUFFICES ASSUME Init PROVE IInv
  OBVIOUS
<1>1. plan \in PlanType
  BY TimingRunConstants DEF Init
<1>2. TypeOK
  BY <1>1, Places, TimingRunConstants DEF Init, TypeOK, PlanType, Builds
<1>3. Shaped /\ Order
  BY <1>1 DEF Init, Shaped, Order
<1>4. Counts
  <2>1. Passed(3) \in Nat /\ Passed(4) \in Nat /\ Passed(7) \in Nat
    BY <1>1, PassedFacts DEF Init
  <2> QED BY <2>1 DEF Init, Counts
<1>5. Concluded
  BY DEF Init, Concluded
<1> QED BY <1>2, <1>3, <1>4, <1>5 DEF IInv

\* What the operators over the plan and the counts are made of does not change.
LEMMA Unread ==
    ASSUME plan' = plan
    PROVE  /\ Protocol' = Protocol /\ Repeats' = Repeats /\ Turns' = Turns
           /\ FirstRole' = FirstRole /\ Outcomes' = Outcomes
           /\ step' = step => Passed(3)' = Passed(3) /\ Passed(4)' = Passed(4) /\ Passed(7)' = Passed(7)
           /\ step' = step /\ stats' = stats => Counts' = Counts
BY DEF Protocol, Repeats, Turns, FirstRole, LastRole, Outcomes, Passed, Counts

LEMMA RivalStep ==
    ASSUME IInv, RivalSource \/ RivalBinary
    PROVE  IInv'
<1> USE DEF IInv
<1>1. UNCHANGED <<plan, pc, seal, step, proc, seen, stats, result>> /\ Counts'
  BY Unread DEF RivalSource, RivalBinary
<1>2. Len(plan.rivals) \in Nat /\ \A i \in 1 .. Len(plan.rivals) : plan.rivals[i] \in Theirs
  BY DEF Shaped, PlanType
<1>3. rival \in Nat /\ rival < 2 * Len(plan.rivals) /\ rival' = rival + 1
  <2>1. rival \in 0 .. 2 * Len(plan.rivals)
    BY DEF TypeOK
  <2>2. rival' = rival + 1 /\ (rival < 2 * Len(plan.rivals) \/ rival % 2 = 1)
    BY DEF RivalSource, RivalBinary
  <2> QED BY <1>2, <2>1, <2>2
<1>4. RivalBuild \in Theirs
  <2>1. 1 + rival \div 2 \in 1 .. Len(plan.rivals)
    BY <1>2, <1>3
  <2> QED BY <1>2, <2>1 DEF RivalBuild
<1>5. {source', binary'} \subseteq Builds \cup {None} /\ (binary \in Builds => binary' \in Builds)
  BY <1>4 DEF TypeOK, Builds, RivalSource, RivalBinary
<1>6. rival' \in 0 .. 2 * Len(plan.rivals)
  BY <1>2, <1>3
<1>7. TypeOK'
  BY <1>1, <1>5, <1>6, Unread DEF TypeOK
<1>8. Shaped' /\ Order'
  BY <1>1, <1>5 DEF Shaped, Order
<1>9. Concluded'
  BY <1>1 DEF Concluded, Winners, Validity, Inconsistent, Protocol
<1> QED BY <1>1, <1>7, <1>8, <1>9

LEMMA BuildStep ==
    ASSUME IInv, Build
    PROVE  IInv'
<1> USE DEF IInv
<1>1. /\ UNCHANGED <<plan, rival, step, proc, seen, stats, result>> /\ Counts'
      /\ pc \in {"render", "compile", "contract", "captureBinary", "writeSeal"}
  BY Unread DEF Build, Abort, Render, Compile, CaptureSource, CaptureBinary, WriteSeal,
                published, measurement
<1>2. /\ pc' \in {"compile", "contract", "captureBinary", "writeSeal", "before", "aborted"}
      /\ pc' = "before" => pc = "writeSeal"
      /\ {source', binary'} \subseteq Builds \cup {None}
      /\ pc' \notin {"compile", "aborted"} => binary' \in Builds
      /\ seal' \in [source : Builds \cup {None}, binary : Builds \cup {None}]
  BY DEF Build, Abort, Render, Compile, CaptureSource, CaptureBinary, WriteSeal,
         published, measurement, TypeOK, Order, Builds
<1>3. pc' = "before" => step < Repeats * Turns
  BY <1>1, Places DEF Order, Shaped
<1>4. TypeOK'
  BY <1>1, <1>2, <1>3, Unread DEF TypeOK
<1>5. Shaped' /\ Order'
  BY <1>1, <1>2 DEF Shaped, Order
<1>6. Concluded'
  BY <1>2 DEF Concluded
<1> QED BY <1>1, <1>4, <1>5, <1>6

\* An error ends the command from any stage.
LEMMA ErrorStep ==
    ASSUME IInv, Error, UNCHANGED <<plan, published, seal, step, seen, stats>>,
           pc \notin {"render", "compile", "aborted"}
    PROVE  IInv'
<1> USE DEF IInv
<1>1. /\ UNCHANGED <<plan, source, binary, rival, seal, step, seen, stats>> /\ Counts'
      /\ result' = ErrorResult /\ ErrorResult \in TimingResults
      /\ pc' = "done" /\ proc' = [build |-> None, trace |-> None]
  BY Unread DEF Error, published, ErrorResult, TimingResults
<1>2. TypeOK'
  BY <1>1, Unread DEF TypeOK
<1>3. Shaped' /\ Order' /\ Concluded'
  BY <1>1 DEF Shaped, Order, Concluded
<1> QED BY <1>1, <1>2, <1>3

LEMMA StartStep ==
    ASSUME IInv, pc = "start" \/ pc = "before", Start \/ CheckBefore
    PROVE  IInv'
<1> USE DEF IInv
<1>1. CASE CheckBefore /\ Error
  BY <1>1, ErrorStep DEF CheckBefore
<1>2. CASE (CheckBefore /\ pc' = "start" /\ proc' = proc /\ result' = result) \/ Start
  <2>1. /\ UNCHANGED <<plan, source, binary, rival, seal, step, seen, stats, result>>
        /\ pc' \in {"start", "running"} /\ pc \in {"before", "start"}
        /\ pc' = "running" => proc'.build = binary
        /\ proc' = proc \/ proc' = [build |-> binary, trace |-> None]
    BY <1>2 DEF CheckBefore, Start, published
  <2>. Counts'
    BY <2>1, Unread
  <2>2. TypeOK'
    BY <2>1, Unread DEF TypeOK, Order
  <2>3. Shaped' /\ Order' /\ Concluded'
    BY <2>1 DEF Shaped, Order, Concluded
  <2> QED BY <2>1, <2>2, <2>3
<1> QED BY <1>1, <1>2 DEF CheckBefore

LEMMA PrintStep ==
    ASSUME IInv, NEW t \in Traces, ProcessPrints(t)
    PROVE  IInv'
<1> USE DEF IInv
<1>1. /\ UNCHANGED <<plan, source, binary, rival, seal, step, seen, stats, result>> /\ Counts'
      /\ pc = "running" /\ pc' = "after"
      /\ proc' = [build |-> proc.build, trace |-> t]
      /\ t # None /\ None \notin Builds
  BY Unread, TimingRunConstants DEF ProcessPrints, published, Shaped, Builds
<1>2. TypeOK'
  BY <1>1, Unread DEF TypeOK, Order
<1>3. Shaped' /\ Order' /\ Concluded'
  BY <1>1 DEF Shaped, Order, Concluded
<1> QED BY <1>1, <1>2, <1>3

LEMMA AccountStep ==
    ASSUME IInv, NEW f \in Findings, Account(f)
    PROVE  IInv'
<1> USE DEF IInv
<1> DEFINE x == [part |-> Part, build |-> proc.build, trace |-> proc.trace]
<1>1. /\ UNCHANGED <<plan, source, binary, rival, seal, proc, result>>
      /\ pc = "after" /\ pc' \in {"before", "conclude"} /\ step' = step + 1
      /\ LastStep <=> pc' = "conclude"
      /\ seen' = seen \cup {x} /\ stats' = Counted(f)
  BY DEF Account, published
<1>2. step \in Nat /\ step + 1 <= Repeats * Turns /\ (~LastStep => step + 1 < Repeats * Turns)
  BY <1>1, Places DEF TypeOK, Shaped, LastStep
<1>3. x \in [part : {"target", "other"}, build : Builds, trace : Traces]
  BY <1>1 DEF TypeOK, Part
<1>4. stats'.outcomes \subseteq Outcomes
  BY <1>1 DEF TypeOK, Counted, Findings
<1>5. Counts' /\ stats'.aa \in 0 .. Repeats /\ stats'.placebo \in 0 .. Repeats
              /\ stats'.detected \in 0 .. Repeats
  <2>1. /\ stats'.aa = stats.aa + (IF Role = "aa" /\ f = "alarm" THEN 1 ELSE 0)
        /\ stats'.placebo = stats.placebo + (IF Role = "placebo" /\ f = "alarm" THEN 1 ELSE 0)
        /\ stats'.detected = stats.detected + (IF Role = "largest" /\ f = "alarm" THEN 1 ELSE 0)
    BY <1>1 DEF Counted
  <2>2. CASE ~Protocol
    <3>1. Role \notin {"aa", "placebo", "largest"}
      BY <2>2, <1>2, RoleOfStep, Places DEF Shaped
    <3>2. stats'.aa = 0 /\ stats'.placebo = 0 /\ stats'.detected = 0
      BY <2>1, <2>2, <3>1 DEF Counts
    <3> QED BY <1>1, <2>2, <3>2, Unread, Places DEF Counts, Shaped
  <2>3. CASE Protocol
    <3>1. \A p \in {3, 4, 7} :
              /\ Passed(p) \in Nat /\ Passed(p)' \in Nat /\ Passed(p)' >= Passed(p)
              /\ FirstRole + (step % Turns) = p => Passed(p)' = Passed(p) + 1
              /\ Passed(p)' <= Repeats
      <4> SUFFICES ASSUME NEW p \in {3, 4, 7}
                   PROVE  /\ Passed(p) \in Nat /\ Passed(p)' \in Nat /\ Passed(p)' >= Passed(p)
                          /\ FirstRole + (step % Turns) = p => Passed(p)' = Passed(p) + 1
                          /\ Passed(p)' <= Repeats
        OBVIOUS
      <4>1. /\ FirstRole \in {1, 2} /\ Turns \in {1, 2, 6, 7} /\ Turns = 8 - FirstRole
            /\ Turns \in {8 - FirstRole, 3 - FirstRole}
            /\ Repeats \in Nat
        BY <2>3, Places DEF Shaped
      <4>2. FirstRole' = FirstRole /\ Turns' = Turns
        BY <1>1, Unread
      <4>3. Passed(p)' = PassedBy(FirstRole, Turns, p, step + 1)
        BY <1>1, <4>2 DEF Passed, PassedBy
      <4>4. PassedBy(FirstRole, Turns, p, step + 1) >= PassedBy(FirstRole, Turns, p, step)
        BY <1>2, <4>1, PassedStep
      <4>5. ASSUME FirstRole + (step % Turns) = p
            PROVE  PassedBy(FirstRole, Turns, p, step + 1) = PassedBy(FirstRole, Turns, p, step) + 1
        <5>1. CASE FirstRole = 1
          BY <1>2, <4>1, <4>5, <5>1 DEF PassedBy
        <5>2. CASE FirstRole = 2
          BY <1>2, <4>1, <4>5, <5>2 DEF PassedBy
        <5> QED BY <4>1, <5>1, <5>2
      <4>6. Passed(p) \in Nat /\ Passed(p)' \in Nat /\ Passed(p)' <= Repeats
        <5>1. step' \in Nat /\ step' <= Repeats' * Turns' /\ plan' \in PlanType
              /\ Protocol' /\ Repeats' = Repeats
          BY <1>1, <1>2, <2>3, Unread DEF Shaped
        <5>2. Passed(p) \in Nat
          BY <1>2, PassedFacts DEF Shaped
        <5>3. Passed(p)' \in Nat /\ Passed(p)' <= Repeats'
          <6>1. FirstRole' \in {1, 2} /\ Turns' \in {1, 2, 6, 7} /\ Turns' = 8 - FirstRole'
                /\ Turns' \in {8 - FirstRole', 3 - FirstRole'}
            BY <1>1, <4>1, Unread
          <6>2. Passed(p)' = PassedBy(FirstRole', Turns', p, step')
            BY DEF Passed
          <6>3. PassedBy(FirstRole', Turns', p, step') \in Nat
            BY <5>1, <6>1, PassedStep
          <6>4. PassedBy(FirstRole', Turns', p, step') <= Repeats'
            BY <5>1, <6>1, <4>1, PassedBound, Zenon
          <6> QED BY <6>2, <6>3, <6>4
        <5> QED BY <5>1, <5>2, <5>3
      <4> QED BY <4>3, <4>4, <4>5, <4>6 DEF Passed
    <3>2. /\ Role = "aa" <=> FirstRole + (step % Turns) = 3
          /\ Role = "placebo" <=> FirstRole + (step % Turns) = 4
          /\ Role = "largest" <=> FirstRole + (step % Turns) = 7
      BY <1>2, RoleOfStep DEF Shaped
    <3>3. /\ stats'.aa \in Nat /\ stats'.placebo \in Nat /\ stats'.detected \in Nat
          /\ stats'.aa <= Passed(3)' /\ stats'.placebo <= Passed(4)' /\ stats'.detected <= Passed(7)'
      BY <2>1, <2>3, <3>1, <3>2 DEF Counts
    <3> QED BY <1>1, <2>3, <3>1, <3>3, Unread, Places DEF Counts, Shaped
  <2> QED BY <2>2, <2>3
<1>6. TypeOK'
  BY <1>1, <1>2, <1>3, <1>4, <1>5, Unread DEF TypeOK
<1>7. Shaped' /\ Order' /\ Concluded'
  BY <1>1 DEF Shaped, Order, Concluded
<1> QED BY <1>5, <1>6, <1>7

LEMMA ConcludeStep ==
    ASSUME IInv, Conclude
    PROVE  IInv'
<1> USE DEF IInv
<1>1. /\ UNCHANGED <<plan, source, binary, rival, seal, step, proc, seen, stats>> /\ Counts'
      /\ pc = "conclude" /\ pc' = "done"
  BY Unread DEF Conclude, published, measurement
<1>2. PICK status \in Winners : result' = [status |-> status, validity |-> Validity(status)]
  BY DEF Conclude
<1>3. result' \in TimingResults
  BY <1>2, ResultTypes
<1>4. TypeOK'
  BY <1>1, <1>3, Unread DEF TypeOK
<1>5. Shaped' /\ Order'
  BY <1>1 DEF Shaped, Order
<1>6. Winners' = Winners /\ Validity(status)' = Validity(status)
  BY <1>1 DEF Winners, Validity, Inconsistent, Protocol
<1>7. Concluded'
  BY <1>1, <1>2, <1>6 DEF Concluded
<1> QED BY <1>1, <1>4, <1>5, <1>7

LEMMA StepIInv ==
    ASSUME IInv, [Next]_vars
    PROVE  IInv'
<1>1. CASE RivalSource \/ RivalBinary
  BY <1>1, RivalStep
<1>2. CASE Build
  BY <1>2, BuildStep
<1>3. CASE CheckBefore \/ Start
  BY <1>3, StartStep DEF CheckBefore, Start
<1>4. CASE ProcessFails \/ Reject \/ AnalysisFails
  BY <1>4, ErrorStep DEF ProcessFails, Reject, AnalysisFails
<1>5. CASE \E t \in Traces : ProcessPrints(t)
  BY <1>5, PrintStep
<1>6. CASE \E f \in Findings : Account(f)
  BY <1>6, AccountStep
<1>7. CASE Conclude
  BY <1>7, ConcludeStep
<1>8. CASE UNCHANGED vars
  <2>1. TypeOK' /\ Shaped' /\ Order' /\ Counts'
    BY <1>8, Unread DEF vars, IInv, TypeOK, Shaped, Order
  <2>2. /\ UNCHANGED <<plan, pc, seen, stats, result>>
        /\ Winners' = Winners /\ \A status : Validity(status)' = Validity(status)
    BY <1>8 DEF vars, Winners, Validity, Inconsistent, Protocol
  <2>3. Concluded'
    BY <2>2 DEF IInv, Concluded
  <2> QED BY <2>1, <2>3 DEF IInv
<1> QED BY <1>1, <1>2, <1>3, <1>4, <1>5, <1>6, <1>7, <1>8 DEF Next, Process

\* The invariant of the whole measurement.
THEOREM TimingInductive == Spec => []IInv
<1>1. Init => IInv
  BY InitIInv
<1>2. IInv /\ [Next]_vars => IInv'
  BY StepIInv
<1> QED BY <1>1, <1>2, PTL DEF Spec

-----------------------------------------------------------------------------
(* What the result says                                                    *)

\* TypeOK: in whatever order the others rename and the processes end, each
\* control is counted at most once per repeat, and the result is one the
\* verdict knows.
THEOREM TimingTyped == Spec => []TypeOK
<1>1. IInv => TypeOK
  BY DEF IInv
<1> QED BY <1>1, TimingInductive, PTL

\* A result that is neither missing nor an error of the process was concluded.
LEMMA ResultIsJudged ==
    ASSUME IInv, result # NotMeasured, result # ErrorResult
    PROVE  \E status \in Winners : result = [status |-> status, validity |-> Validity(status)]
BY DEF IInv, Order, Concluded

\* The counting of rows agrees with FullLength.
LEMMA CorruptedTrace ==
    ASSUME NEW t \in Traces, t.broken > 0 \/ ~FullLength(t)
    PROVE  Corrupted(Parse(t))
<1>1. t \in TraceType /\ (t.says \notin {None, Asked} => FullLength(t))
  BY TimingRunConstants DEF FullLength
<1>2. CASE t.broken > 0
  BY <1>1, <1>2 DEF TraceType, Corrupted, Parse
<1>3. CASE ~FullLength(t)
  BY <1>1, <1>3 DEF Corrupted, Parse, FullLength
<1> QED BY <1>2, <1>3

\* A trace that is neither corrupted nor filtered is complete.
LEMMA CompleteTrace ==
    ASSUME NEW t \in Traces, ~Corrupted(Parse(t)), ~Filtered(Parse(t))
    PROVE  Complete(t)
<1>1. /\ t.good[0] \in Nat /\ t.good[1] \in Nat /\ t.clock[0] \in Nat /\ t.clock[1] \in Nat
      /\ t.moved[0] \in Nat /\ t.moved[1] \in Nat /\ t.unmarked[0] \in Nat /\ t.unmarked[1] \in Nat
      /\ t.broken \in Nat
  BY TimingRunConstants DEF TraceType, Classes
<1>2. FullLength(t) /\ t.broken = 0
  BY <1>1, CorruptedTrace
<1>3. 100 * (Parse(t).dropped[0] + Parse(t).dropped[1]) <= Parse(t).raw
  <2>1. ~(100 * (Parse(t).dropped[0] + Parse(t).dropped[1]) > Parse(t).raw)
    BY DEF Filtered
  <2> QED BY <1>1, <2>1 DEF Parse, Classes, Printed
<1>4. /\ Parse(t).dropped[0] = t.clock[0] + t.moved[0] + t.unmarked[0]
      /\ Parse(t).dropped[1] = t.clock[1] + t.moved[1] + t.unmarked[1]
      /\ Parse(t).raw = Asked
  BY <1>1, <1>2 DEF Parse, Classes, FullLength
<1> QED BY <1>1, <1>2, <1>3, <1>4 DEF Complete, FullLength, Printed

\* CorruptionIsError: no other question of the cascade is asked before it.
THEOREM CorruptionAlwaysError == Spec => []CorruptionIsError
<1>1. ASSUME IInv, Decided, NEW x \in seen, x.trace.broken > 0 \/ ~FullLength(x.trace)
      PROVE  result.validity = "error"
  <2>1. PICK status \in Winners : result = [status |-> status, validity |-> Validity(status)]
    BY <1>1, ResultIsJudged DEF Decided, ErrorResult
  <2>2. x.trace \in Traces
    BY <1>1 DEF IInv, TypeOK
  <2>3. Corrupted(Parse(x.trace))
    BY <1>1, <2>2, CorruptedTrace
  <2>4. Validity(status) = "error"
    BY <1>1, <2>3 DEF Validity
  <2> QED BY <2>1, <2>4
<1>2. IInv => CorruptionIsError
  BY <1>1 DEF CorruptionIsError
<1> QED BY <1>2, TimingInductive, PTL

\* What the last answer of the cascade stands for.
LEMMA ValidAnswers ==
    ASSUME NEW status, Validity(status) = "valid"
    PROVE  /\ \A x \in seen : ~Corrupted(Parse(x.trace)) /\ ~Filtered(Parse(x.trace))
           /\ ~plan.host /\ plan.official /\ Protocol /\ ~(plan.repeats < 3)
           /\ \A x \in seen : x.trace.setup
           /\ ~(stats.aa > plan.aaMax) /\ ~(stats.placebo > 0)
           /\ ~(stats.detected < plan.power) /\ ~Inconsistent
           /\ \A x \in seen : x.part = "target" => x.trace.seeded
           /\ plan.template = "kem" => \A x \in seen : x.trace.input
BY DEF Validity

\* Repeats of one opinion: the outcomes, mapped to their statuses, are one.
LEMMA OneOpinion ==
    ASSUME TypeOK, ~Inconsistent, NEW o \in stats.outcomes, NEW w \in stats.outcomes
    PROVE  StatusOf(o) = StatusOf(w)
<1> DEFINE S == {StatusOf(v) : v \in stats.outcomes}
           All == {"PASS", "WARNING", "FAIL", "INSUFFICIENT"}
<1>1. IsFiniteSet(All)
  <2>1. IsFiniteSet({"PASS"} \cup {"WARNING"} \cup {"FAIL"} \cup {"INSUFFICIENT"})
    BY FS_EmptySet, FS_Singleton, FS_Union
  <2>2. All = {"PASS"} \cup {"WARNING"} \cup {"FAIL"} \cup {"INSUFFICIENT"}
    OBVIOUS
  <2> QED BY <2>1, <2>2
<1>2. S \subseteq All
  BY DEF TypeOK, Outcomes, StatusOf
<1>3. IsFiniteSet(S)
  BY <1>1, <1>2, FS_Subset
<1>4. Cardinality(S) \in Nat /\ Cardinality(S) <= 1
  BY <1>3, FS_CardinalityType DEF Inconsistent
<1>5. S # {}
  OBVIOUS
<1>6. \E x : S = {x}
  <2> HIDE DEF S
  <2>1. Cardinality(S) # 0
    BY <1>3, <1>5, FS_EmptySet
  <2>2. Cardinality(S) = 1
    BY <1>4, <2>1
  <2> QED BY <1>3, <2>2, FS_Singleton, Zenon
<1>7. StatusOf(o) \in S /\ StatusOf(w) \in S
  OBVIOUS
<1> QED BY <1>6, <1>7

\* ValidIsControlled: for every configuration the cascade has no shortcut to
\* "valid", and nothing changes under a result once it is there.
THEOREM ValidAlwaysControlled == Spec => []ValidIsControlled
<1>1. ASSUME IInv, result.validity = "valid"
      PROVE  ValidIsControlled
  <2>1. result # NotMeasured /\ result # ErrorResult
    <3>1. NotMeasured.validity # "valid" /\ ErrorResult.validity # "valid"
      BY DEF NotMeasured, ErrorResult
    <3> QED BY <1>1, <3>1
  <2>2. PICK status \in Winners : result = [status |-> status, validity |-> Validity(status)]
    BY <1>1, <2>1, ResultIsJudged
  <2>3. Validity(status) = "valid" /\ result.status = status
    BY <1>1, <2>2
  <2>4. TypeOK /\ plan \in PlanType /\ Counts
    BY <1>1 DEF IInv, Shaped
  <2>5. \A o \in stats.outcomes : StatusOf(o) = result.status
    <3>1. PICK w \in stats.outcomes : status = StatusOf(w)
      BY DEF Winners
    <3> QED BY <2>3, <2>4, <3>1, ValidAnswers, OneOpinion
  <2>6. \A x \in seen : Complete(x.trace)
    <3>1. \A x \in seen : x.trace \in Traces
      BY <2>4 DEF TypeOK
    <3> QED BY <2>3, <3>1, ValidAnswers, CompleteTrace
  <2>7. /\ plan.repeats >= 3 /\ stats.aa <= plan.aaMax /\ stats.placebo = 0
        /\ stats.detected >= plan.power
    <3>1. /\ plan.repeats \in Nat /\ plan.aaMax \in Nat /\ plan.power \in Nat
          /\ stats.aa \in Nat /\ stats.placebo \in Nat /\ stats.detected \in Nat
      BY <2>4 DEF PlanType, Counts
    <3>2. /\ ~(plan.repeats < 3) /\ ~(stats.aa > plan.aaMax) /\ ~(stats.placebo > 0)
          /\ ~(stats.detected < plan.power)
      BY <2>3, ValidAnswers
    <3> QED BY <3>1, <3>2
  <2> QED BY <2>3, <2>5, <2>6, <2>7, ValidAnswers DEF ValidIsControlled
<1>2. IInv => ValidIsControlled
  BY <1>1 DEF ValidIsControlled
<1> QED BY <1>2, TimingInductive, PTL

\* FailedRepeatNeverClears: the failed repeat is the one that speaks, or the
\* repeats do not agree and the result is not valid.
THEOREM FailedNeverClears == Spec => []FailedRepeatNeverClears
<1>1. ASSUME IInv, "FAIL" \in stats.outcomes, result # NotMeasured
      PROVE  Combine("PASS", DecisionStatus(result), "PASS") # "CLEAN"
  <2>1. CASE result = ErrorResult
    BY <2>1 DEF ErrorResult, DecisionStatus, Combine, Matrix
  <2>2. CASE result # ErrorResult
    <3>1. PICK status \in Winners : result = [status |-> status, validity |-> Validity(status)]
      BY <1>1, <2>2, ResultIsJudged
    <3>2. Validity(status) # ""
      BY DEF Validity
    <3>3. Validity(status) = "valid" => status = "FAIL"
      <4>1. PICK w \in stats.outcomes : status = StatusOf(w)
        BY DEF Winners
      <4> QED BY <1>1, <4>1, ValidAnswers, OneOpinion DEF IInv, StatusOf
    <3> QED BY <3>1, <3>2, <3>3 DEF DecisionStatus, Combine, Matrix
  <2> QED BY <2>1, <2>2
<1>2. IInv => FailedRepeatNeverClears
  BY <1>1 DEF FailedRepeatNeverClears
<1> QED BY <1>2, TimingInductive, PTL

-----------------------------------------------------------------------------
(* What was measured                                                       *)

\* The builds in the order in which they become the binary, from the one of
\* this command; Published is the place of the last that the others published.
Named(i) == IF i = 0 THEN Own ELSE plan.rivals[i]

Published == rival \div 2

\* The seal names no younger build than the one that runs, and that one is no
\* younger than the binary.
Aging ==
    /\ pc \in {"contract", "captureBinary"} =>
           \E k \in 0 .. Published : binary = Named(k)
    /\ pc \in {"writeSeal", "before", "start"} =>
           \E i, k \in 0 .. Published : i <= k /\ seal.binary = Named(i) /\ binary = Named(k)
    /\ pc \in {"running", "after"} =>
           \E i, j, k \in 0 .. Published :
               i <= j /\ j <= k
               /\ seal.binary = Named(i) /\ proc.build = Named(j) /\ binary = Named(k)

SealInv == IInv /\ Aging /\ MeasuredWhatWasSealed

LEMMA RivalKeepsSeal ==
    ASSUME SealInv, RivalSource \/ RivalBinary
    PROVE  Aging' /\ MeasuredWhatWasSealed'
<1>1. UNCHANGED <<plan, pc, seal, proc, seen>> /\ \A n : Named(n)' = Named(n)
  BY DEF RivalSource, RivalBinary, Named
<1>2. rival \in Nat
  BY DEF SealInv, IInv, TypeOK, Shaped, PlanType
<1>3. MeasuredWhatWasSealed'
  BY <1>1 DEF SealInv, MeasuredWhatWasSealed, NeverBack
<1>4. CASE RivalSource
  <2>1. Published' = Published /\ binary' = binary
    BY <1>2, <1>4 DEF RivalSource, Published
  <2> QED BY <1>1, <1>3, <2>1 DEF SealInv, Aging
<1>5. CASE RivalBinary
  <2>1. Published \in Nat /\ Published' = Published + 1 /\ binary' = Named(Published')
    BY <1>1, <1>2, <1>5 DEF RivalBinary, RivalBuild, Published, Named
  <2> QED BY <1>1, <1>3, <2>1 DEF SealInv, Aging
<1> QED BY <1>4, <1>5

LEMMA BuildKeepsSeal ==
    ASSUME SealInv, Build
    PROVE  Aging' /\ MeasuredWhatWasSealed'
<1>1. /\ UNCHANGED <<plan, rival, proc, seen>> /\ seen = {}
      /\ Published' = Published /\ \A n : Named(n)' = Named(n)
  BY DEF Build, Abort, Render, Compile, CaptureSource, CaptureBinary, WriteSeal,
         published, measurement, SealInv, IInv, Order, Named, Published
<1>2. Published \in Nat /\ Named(0) = Own /\ Named(0)' = Own
  BY DEF SealInv, IInv, TypeOK, Shaped, PlanType, Published, Named
<1>3. ASSUME Compile PROVE Aging'
  <2>1. pc' = "contract" /\ binary' = Named(0)' /\ 0 \in 0 .. Published'
    BY <1>1, <1>2, <1>3 DEF Compile
  <2> QED BY <2>1 DEF Aging
<1>4. ASSUME CaptureSource PROVE Aging'
  <2>1. PICK k \in 0 .. Published : binary = Named(k)
    BY <1>4 DEF CaptureSource, SealInv, Aging
  <2>2. pc' = "captureBinary" /\ k \in 0 .. Published' /\ binary' = Named(k)'
    BY <1>1, <1>4, <2>1 DEF CaptureSource, published
  <2> QED BY <2>2 DEF Aging
<1>5. ASSUME CaptureBinary PROVE Aging'
  <2>1. PICK k \in 0 .. Published : binary = Named(k)
    BY <1>5 DEF CaptureBinary, SealInv, Aging
  <2>2. /\ pc' = "writeSeal" /\ k \in 0 .. Published' /\ k <= k
        /\ seal'.binary = Named(k)' /\ binary' = Named(k)'
    BY <1>1, <1>5, <2>1 DEF CaptureBinary, published, SealInv, IInv, TypeOK
  <2> QED BY <2>2 DEF Aging
<1>6. ASSUME WriteSeal PROVE Aging'
  <2>1. pc = "writeSeal" /\ pc' \in {"before", "aborted"} /\ UNCHANGED <<seal, binary>>
    BY <1>6 DEF WriteSeal, published
  <2> QED BY <1>1, <2>1 DEF SealInv, Aging
<1>7. ASSUME Abort \/ Render PROVE Aging'
  BY <1>7 DEF Abort, Render, Aging
<1> QED BY <1>1, <1>3, <1>4, <1>5, <1>6, <1>7 DEF Build, MeasuredWhatWasSealed

\* Both checks saw the sealed build: whatever ran between them was that build.
LEMMA BothChecks ==
    ASSUME SealInv, pc = "after", Sealed, NeverBack
    PROVE  proc.build = seal.binary
<1>1. PICK i, j, k \in 0 .. Published :
          i <= j /\ j <= k
          /\ seal.binary = Named(i) /\ proc.build = Named(j) /\ binary = Named(k)
  BY DEF SealInv, Aging
<1>2. /\ rival \in Nat /\ rival <= 2 * Len(plan.rivals) /\ Len(plan.rivals) \in Nat
      /\ \A n \in 1 .. Len(plan.rivals) : plan.rivals[n] \in Theirs
  BY DEF SealInv, IInv, TypeOK, Shaped, PlanType
<1>3. Published \in Nat /\ Published <= Len(plan.rivals)
  BY <1>2 DEF Published
<1>4. Named(i) = Named(k)
  BY <1>1 DEF Sealed
<1>5. i = k
  <2>1. \A n \in 1 .. Len(plan.rivals) : plan.rivals[n] # Own
    BY <1>2, TimingRunConstants
  <2>2. CASE i = 0 \/ k = 0
    BY <1>1, <1>2, <1>3, <1>4, <2>1, <2>2 DEF Named
  <2>3. CASE i # 0 /\ k # 0
    BY <1>1, <1>2, <1>3, <1>4, <2>3 DEF Named, NeverBack
  <2> QED BY <2>2, <2>3
<1>6. i = j
  BY <1>1, <1>3, <1>5
<1> QED BY <1>1, <1>6

LEMMA ProcessKeepsSeal ==
    ASSUME SealInv, Process \/ Conclude
    PROVE  Aging' /\ MeasuredWhatWasSealed'
<1>1. /\ UNCHANGED <<plan, source, binary, rival, seal>>
      /\ Published' = Published /\ \A n : Named(n)' = Named(n)
      /\ NeverBack' = NeverBack
  BY DEF Process, Conclude, CheckBefore, Start, ProcessFails, ProcessPrints, Reject,
         AnalysisFails, Account, published, measurement, Named, Published, NeverBack
<1>2. Published \in Nat
  BY DEF SealInv, IInv, TypeOK, Shaped, PlanType, Published
<1>3. ASSUME NEW f \in Findings, Account(f)
      PROVE  Aging' /\ MeasuredWhatWasSealed'
  <2>1. pc = "after" /\ Sealed /\ pc' \in {"before", "conclude"}
        /\ seen' = seen \cup {[part |-> Part, build |-> proc.build, trace |-> proc.trace]}
    BY <1>3 DEF Account
  <2>2. Aging'
    BY <1>1, <2>1 DEF SealInv, Aging
  <2>3. NeverBack => proc.build = seal.binary
    BY <2>1, BothChecks
  <2> QED BY <1>1, <2>1, <2>2, <2>3 DEF SealInv, MeasuredWhatWasSealed
<1>4. ASSUME ~\E f \in Findings : Account(f)
      PROVE  seen' = seen
  BY <1>4 DEF Process, Conclude, CheckBefore, Start, ProcessFails, ProcessPrints, Reject,
              AnalysisFails, measurement
<1>5. ASSUME seen' = seen
      PROVE  MeasuredWhatWasSealed'
  BY <1>1, <1>5 DEF SealInv, MeasuredWhatWasSealed
<1>6. ASSUME pc' \in {"done", "conclude"}
      PROVE  Aging'
  BY <1>6 DEF Aging
<1>7. ASSUME Start
      PROVE  Aging'
  <2>1. PICK i, k \in 0 .. Published : i <= k /\ seal.binary = Named(i) /\ binary = Named(k)
    BY <1>7 DEF Start, SealInv, Aging
  <2>2. /\ pc' = "running" /\ {i, k} \subseteq 0 .. Published' /\ i <= k /\ k <= k
        /\ seal'.binary = Named(i)' /\ proc'.build = Named(k)' /\ binary' = Named(k)'
    BY <1>1, <1>2, <1>7, <2>1 DEF Start
  <2> QED BY <2>2 DEF Aging
<1>8. ASSUME CheckBefore
      PROVE  Aging'
  <2>1. pc = "before" /\ pc' \in {"start", "done"}
    BY <1>8 DEF CheckBefore, Error
  <2> QED BY <1>1, <1>6, <2>1 DEF SealInv, Aging
<1>9. ASSUME NEW t \in Traces, ProcessPrints(t)
      PROVE  Aging'
  <2>1. pc = "running" /\ pc' = "after" /\ proc'.build = proc.build
    BY <1>9 DEF ProcessPrints, SealInv, IInv, Shaped
  <2> QED BY <1>1, <2>1 DEF SealInv, Aging
<1>10. ASSUME ProcessFails \/ Reject \/ AnalysisFails \/ Conclude
       PROVE  Aging'
  BY <1>6, <1>10 DEF ProcessFails, Reject, AnalysisFails, Conclude, Error
<1>11. Aging'
  BY <1>3, <1>7, <1>8, <1>9, <1>10 DEF Process
<1> QED BY <1>3, <1>4, <1>5, <1>11

\* MeasuredWhatWasSealed: however many builds the others publish and whenever,
\* every row that is accounted came from the binary the seal names.
THEOREM SealedIsMeasured == Spec => []MeasuredWhatWasSealed
<1>1. Init => SealInv
  BY InitIInv DEF Init, SealInv, Aging, MeasuredWhatWasSealed
<1>2. ASSUME SealInv, [Next]_vars
      PROVE  SealInv'
  <2>1. IInv'
    BY <1>2, StepIInv DEF SealInv
  <2>2. CASE UNCHANGED vars
    <3>1. UNCHANGED <<plan, pc, binary, rival, seal, proc, seen>>
      BY <2>2 DEF vars
    <3>2. Aging' /\ MeasuredWhatWasSealed'
      BY <1>2, <3>1 DEF SealInv, Aging, Named, Published, MeasuredWhatWasSealed, NeverBack
    <3> QED BY <2>1, <3>2 DEF SealInv
  <2>3. CASE Next
    <3>1. Aging' /\ MeasuredWhatWasSealed'
      BY <1>2, <2>3, RivalKeepsSeal, BuildKeepsSeal, ProcessKeepsSeal DEF Next
    <3> QED BY <2>1, <3>1 DEF SealInv
  <2> QED BY <1>2, <2>2, <2>3
<1>3. SealInv => MeasuredWhatWasSealed
  BY DEF SealInv
<1> QED BY <1>1, <1>2, <1>3, PTL DEF Spec
=============================================================================
