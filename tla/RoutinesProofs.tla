--------------------------- MODULE RoutinesProofs ---------------------------
(* Proofs about OfficialDudect, for every number of percentiles, every       *)
(* threshold and limit, and every trace and statistic; and the type          *)
(* invariant of Routines, from those of the eight routines.                  *)
EXTENDS StreamProofs, SignatureProofs, RoundingProofs, WellFoundedInduction

-----------------------------------------------------------------------------
(* max_test finds a largest score.                                         *)

LEMMA LeastNatural ==
    ASSUME NEW T, T \subseteq Nat, T # {}
    PROVE  \E x \in T : \A y \in T : x <= y
<1> DEFINE R == OpToRel(<, Nat)
<1>1. R = {ss \in Nat \X Nat : ss[1] < ss[2]}
  BY Zenon DEF OpToRel
<1>2. \A x, y \in Nat : y < x => <<y, x>> \in R
  <2> HIDE DEF R
  <2> QED BY <1>1
<1>3. \E x \in T : \A y \in T : ~(<<y, x>> \in R)
  BY WFMin, NatLessThanWellFounded
<1> HIDE DEF R
<1>4. PICK x \in T : \A y \in T : ~(<<y, x>> \in R)
  BY <1>3
<1>5. \A y \in T : x <= y
  <2>1. \A y \in T : ~(y < x)
    BY <1>2, <1>4
  <2>2. QED
    BY <2>1
<1>6. QED
  BY <1>5

\* Whether i is the winner among the tests A with the scores t.
Wins(i, A, t) == i \in A /\ \A j \in A : t[j] < t[i] \/ (t[j] = t[i] /\ i <= j)

\* By looking at the tests one after the other, as the loop does: the first k
\* without a winner would have their last one as the winner.
LEMMA WinnerExists ==
    ASSUME NEW A, A \subseteq Nat, A # {}, NEW m \in Nat, \A i \in A : i <= m,
           NEW t, \A i \in A : t[i] \in Nat
    PROVE  \E i \in A : Wins(i, A, t)
<1> DEFINE Upto(k) == {i \in A : i <= k}
           Bad == {k \in Nat : Upto(k) # {} /\ ~ \E i \in A : Wins(i, Upto(k), t)}
<1>1. Upto(m) = A
  OBVIOUS
<1>2. SUFFICES ASSUME Bad # {} PROVE FALSE
  <2>1. m \notin Bad
    BY <1>2
  <2>2. QED
    BY <1>1, <2>1
<1>3. PICK k \in Bad : \A j \in Bad : k <= j
  BY <1>2, LeastNatural
<1>4. /\ k \in Nat /\ Upto(k) # {} /\ ~ \E i \in A : Wins(i, Upto(k), t)
      /\ \A j \in Nat : j < k /\ Upto(j) # {} => \E i \in A : Wins(i, Upto(j), t)
  BY <1>3
<1> HIDE DEF Bad
<1>5. PICK i \in A : i <= k
  BY <1>4
<1>6. CASE k \notin A
  <2>1. i < k /\ i \in Nat /\ k - 1 \in Nat /\ i <= k - 1 /\ k - 1 < k
    BY <1>4, <1>5, <1>6
  <2>2. Upto(k - 1) = Upto(k)
    <3>1. \A x \in A : x <= k <=> x <= k - 1
      BY <1>4, <1>6
    <3>2. QED
      BY <3>1
  <2>3. Upto(k - 1) # {}
    BY <2>1
  <2>4. QED
    BY <1>4, <2>1, <2>2, <2>3
<1>7. CASE k \in A /\ \A j \in A : j >= k
  <2>1. Upto(k) = {k}
    <3>1. \A x \in A : x <= k <=> x = k
      BY <1>4, <1>7
    <3>2. QED
      BY <1>7, <3>1
  <2>2. Wins(k, {k}, t)
    BY <1>4 DEF Wins
  <2>3. QED
    BY <1>4, <1>7, <2>1, <2>2
<1>8. CASE k \in A /\ \E j \in A : j < k
  <2>1. PICK j \in A : j < k
    BY <1>8
  <2>2. j \in Nat /\ k - 1 \in Nat /\ j <= k - 1 /\ k - 1 < k
    BY <1>4, <2>1
  <2>3. Upto(k - 1) # {}
    BY <2>2
  <2>4. PICK w \in A : Wins(w, Upto(k - 1), t)
    BY <1>4, <2>2, <2>3
  <2>5. \A x \in Upto(k) : x = k \/ x \in Upto(k - 1)
    BY <1>4
  <2>6. w < k /\ t[w] \in Nat /\ t[k] \in Nat /\ w \in Nat
    BY <1>4, <1>8, <2>4 DEF Wins
  <2>7. w \in Upto(k) /\ k \in Upto(k)
    BY <1>4, <1>8, <2>6
  <2>8. CASE t[k] <= t[w]
    <3>1. ASSUME NEW x \in Upto(k)
          PROVE  t[x] < t[w] \/ (t[x] = t[w] /\ w <= x)
      <4>1. CASE x = k
        BY <2>6, <2>8, <4>1
      <4>2. CASE x \in Upto(k - 1)
        BY <2>4, <4>2 DEF Wins
      <4>3. QED
        BY <2>5, <4>1, <4>2
    <3>2. Wins(w, Upto(k), t)
      BY <2>7, <3>1 DEF Wins
    <3>3. QED
      BY <1>4, <3>2
  <2>9. CASE t[w] < t[k]
    <3>1. ASSUME NEW x \in Upto(k)
          PROVE  t[x] < t[k] \/ (t[x] = t[k] /\ k <= x)
      <4>1. CASE x = k
        BY <1>4, <4>1
      <4>2. CASE x \in Upto(k - 1)
        <5>1. t[x] <= t[w] /\ t[x] \in Nat
          BY <2>4, <2>6, <4>2 DEF Wins
        <5>2. QED
          BY <2>6, <2>9, <5>1
      <4>3. QED
        BY <2>5, <4>1, <4>2
    <3>2. Wins(k, Upto(k), t)
      BY <2>7, <3>1 DEF Wins
    <3>3. QED
      BY <1>4, <1>8, <3>2
  <2>10. QED
    BY <2>6, <2>8, <2>9
<1>9. QED
  BY <1>4, <1>6, <1>7, <1>8

-----------------------------------------------------------------------------
(***************************************************************************)
(* The inductive invariant: every row that is pushed is pushed to the      *)
(* uncropped test, so no other test has more rows of a class; and the      *)
(* report is made of the counts under it.                                  *)
(***************************************************************************)

Counters == [Dudect!Tests -> [{0, 1} -> Nat]]

DudectTyped ==
    /\ locals \in [rows : 0 .. MaxRows, n : Counters]
    /\ out \in [ret : {"none", "exit 0", "exit 2"},
                status : {"none", "INSUFFICIENT", "PASS", "FAIL"},
                t : [Dudect!Tests -> Scores \cup {NaN}]]

UncroppedHasMost ==
    \A i \in Dudect!Tests, class \in {0, 1} :
        locals.n[i][class] <= locals.n[0][class] /\ locals.n[0][class] <= locals.rows

DudectInv == DudectTyped /\ UncroppedHasMost /\ Dudect!StatusMatchesTests

LEMMA UncroppedIsATest ==
    ASSUME Dudect!DudectAssumption
    PROVE  0 \in Dudect!Tests /\ Dudect!Tests \subseteq Nat /\ Len(Which) \in Nat
  BY DEF Dudect!Tests, Dudect!DudectAssumption

\* The counters after a row.
LEMMA RowStep ==
    ASSUME DudectInv, NEW class \in {0, 1}, NEW difference \in Cycles,
           Dudect!DudectAssumption, Dudect!Row(class, difference)
    PROVE  DudectInv'
<1> DEFINE to == IF locals.rows < Discard \/ difference < 0 THEN {}
                 ELSE Dudect!Pushed(class, difference)
           n == locals.n
           m == [i \in Dudect!Tests |-> IF i \in to THEN [n[i] EXCEPT ![class] = @ + 1] ELSE n[i]]
<1>1. /\ out.ret = "none" /\ out' = out /\ locals.rows < MaxRows
      /\ locals' = [rows |-> locals.rows + 1, n |-> m]
  BY DEF Dudect!Row
<1>2. to = {} \/ 0 \in to
  BY DEF Dudect!Pushed
<1>3. /\ n \in Counters /\ locals.rows \in 0 .. MaxRows /\ MaxRows \in Nat
      /\ \A i \in Dudect!Tests, c \in {0, 1} : n[i][c] <= n[0][c] /\ n[0][c] <= locals.rows
  BY DEF DudectInv, DudectTyped, UncroppedHasMost, Dudect!DudectAssumption
<1> HIDE DEF to, n
<1>4. \A i \in Dudect!Tests, c \in {0, 1} :
         /\ n[i][c] \in Nat
         /\ m[i][c] = IF i \in to /\ c = class THEN n[i][c] + 1 ELSE n[i][c]
  BY <1>3 DEF Counters
<1>5. m \in Counters
  BY <1>3 DEF Counters
<1>6. 0 \in Dudect!Tests
  BY UncroppedIsATest
<1> HIDE DEF m
<1>7. ASSUME NEW i \in Dudect!Tests, NEW c \in {0, 1}
      PROVE  m[i][c] <= m[0][c] /\ m[0][c] <= locals.rows + 1
  <2>1. /\ n[i][c] \in Nat /\ n[0][c] \in Nat /\ n[i][c] <= n[0][c]
        /\ n[0][c] <= locals.rows /\ locals.rows \in Nat
    BY <1>3, <1>4, <1>6
  <2>2. /\ m[i][c] = IF i \in to /\ c = class THEN n[i][c] + 1 ELSE n[i][c]
        /\ m[0][c] = IF 0 \in to /\ c = class THEN n[0][c] + 1 ELSE n[0][c]
    BY <1>4, <1>6
  <2>3. QED
    BY <1>2, <2>1, <2>2
<1>8. locals.rows + 1 \in 0 .. MaxRows
  BY <1>1, <1>3
<1>9. DudectTyped'
  BY <1>1, <1>5, <1>8 DEF DudectInv, DudectTyped
<1>10. UncroppedHasMost'
  BY <1>1, <1>7 DEF UncroppedHasMost
<1>11. Dudect!StatusMatchesTests'
  BY <1>1 DEF Dudect!StatusMatchesTests
<1>12. QED
  BY <1>9, <1>10, <1>11 DEF DudectInv

\* The report.  The uncropped test decides whether there was enough, and the
\* tests max_test looks at are the eligible ones.
LEMMA ReportStep ==
    ASSUME DudectInv, Dudect!DudectAssumption, Dudect!Report
    PROVE  DudectInv'
<1> DEFINE defined == {i \in Dudect!Tests : \A class \in {0, 1} : locals.n[i][class] >= 2}
           Scored(score) == [i \in Dudect!Tests |-> IF i \in defined THEN score[i] ELSE NaN]
<1>1. PICK score \in [defined -> Scores \cup {NaN}] :
         out' = [ret |-> "exit 0",
                 t |-> Scored(score),
                 status |-> IF ~Dudect!HasEnough(locals.n) THEN "INSUFFICIENT"
                            ELSE IF Dudect!Exceeds(Scored(score)[Dudect!Winner(Scored(score))])
                                 THEN "FAIL" ELSE "PASS"]
  BY DEF Dudect!Report
<1> DEFINE t == Scored(score)
<1>2. /\ locals' = locals /\ out'.ret = "exit 0" /\ out'.t = t
      /\ out'.status = IF ~Dudect!HasEnough(locals.n) THEN "INSUFFICIENT"
                       ELSE IF Dudect!Exceeds(t[Dudect!Winner(t)]) THEN "FAIL" ELSE "PASS"
  BY <1>1 DEF Dudect!Report
<1>3. t \in [Dudect!Tests -> Scores \cup {NaN}] /\ \A i \in Dudect!Tests \ defined : t[i] = NaN
  OBVIOUS
<1>4. DudectTyped'
  BY <1>1, <1>2, <1>3 DEF DudectInv, DudectTyped
<1> HIDE DEF t
<1>5. /\ \A i \in Dudect!Tests, c \in {0, 1} :
            locals.n[i][c] \in Nat /\ locals.n[0][c] \in Nat
            /\ locals.n[i][c] <= locals.n[0][c]
      /\ Enough \in Nat /\ Scores \subseteq Nat /\ NaN \notin Scores
  <2>1. locals.n \in Counters /\ 0 \in Dudect!Tests
    BY UncroppedIsATest DEF DudectInv, DudectTyped
  <2>2. \A i \in Dudect!Tests, c \in {0, 1} : locals.n[i][c] \in Nat
    BY <2>1 DEF Counters
  <2>3. QED
    BY <2>1, <2>2 DEF DudectInv, UncroppedHasMost, Dudect!DudectAssumption
<1>6. Dudect!HasEnough(locals.n) <=> locals.n[0][0] > Enough /\ locals.n[0][1] >= 2
  <2>1. ASSUME NEW i \in Dudect!Tests, locals.n[i][0] > Enough, locals.n[i][1] >= 2
        PROVE  locals.n[0][0] > Enough /\ locals.n[0][1] >= 2
    BY <1>5, <2>1
  <2>2. QED
    BY <2>1, UncroppedIsATest DEF Dudect!HasEnough
<1> DEFINE asked == {i \in Dudect!Tests : locals.n[i][0] > Enough /\ t[i] # NaN /\ t[i] > 0}
<1>c. ASSUME NEW i \in Dudect!Tests, Dudect!Exceeds(t[i]) PROVE t[i] # NaN /\ t[i] > 0
  <2>1. t[i] \in Scores \cup {NaN} /\ t[i] # NaN /\ t[i] > 10
    BY <1>3, <1>c DEF Dudect!Exceeds
  <2>2. t[i] \in Nat
    BY <1>5, <2>1
  <2>3. QED
    BY <2>1, <2>2
<1>7. \A i \in Dudect!Tests :
         /\ i \in asked => Dudect!Eligible(i)'
         /\ Dudect!Eligible(i)' /\ Dudect!Exceeds(t[i]) => i \in asked
  <2>1. \A i \in asked : i \in defined /\ locals.n[i][1] >= 2
    BY <1>3
  <2>2. ASSUME NEW i \in Dudect!Tests, Dudect!Exceeds(t[i]) PROVE t[i] # NaN /\ t[i] > 0
    BY <2>2, <1>c
  <2>3. QED
    BY <1>2, <2>1, <2>2 DEF Dudect!Eligible
<1>8. asked # {} => Dudect!HasEnough(locals.n)
  BY <1>3 DEF Dudect!HasEnough
<1>b. out'.status = "INSUFFICIENT"
         <=> locals'.n[0][0] <= Enough \/ locals'.n[0][1] < 2
  <2>1. /\ locals.n[0][0] \in Nat /\ locals.n[0][1] \in Nat /\ Enough \in Nat
        /\ locals'.n = locals.n
    BY <1>2, <1>5, UncroppedIsATest
  <2>2. out'.status = "INSUFFICIENT" <=> ~Dudect!HasEnough(locals.n)
    BY <1>2
  <2>3. ~(locals.n[0][0] > Enough /\ locals.n[0][1] >= 2)
           <=> locals.n[0][0] <= Enough \/ locals.n[0][1] < 2
    BY <2>1
  <2>4. QED
    BY <1>6, <2>1, <2>2, <2>3
<1>9. CASE asked = {}
  <2>1. Dudect!Winner(t) = 0
    BY <1>9 DEF Dudect!Winner
  <2>2. Dudect!HasEnough(locals.n) => ~Dudect!Exceeds(t[Dudect!Winner(t)])
    <3>1. 0 \in Dudect!Tests /\ (Dudect!HasEnough(locals.n) => locals.n[0][0] > Enough)
      BY <1>6, UncroppedIsATest
    <3>2. Dudect!Exceeds(t[0]) => t[0] # NaN /\ t[0] > 0
      BY <1>c, <3>1
    <3>3. QED
      BY <1>9, <2>1, <3>1, <3>2
  <2>3. out'.status # "FAIL"
    BY <1>2, <2>2
  <2>4. \A i \in Dudect!Tests : ~(Dudect!Eligible(i)' /\ Dudect!Exceeds(out'.t[i]))
    BY <1>2, <1>7, <1>9
  <2>5. Dudect!StatusMatchesTests'
    BY <1>2, <1>b, <2>3, <2>4 DEF Dudect!StatusMatchesTests
  <2>6. QED
    BY <1>2, <1>4, <2>5 DEF DudectInv, UncroppedHasMost
<1>10. CASE asked # {}
  <2>1. asked \subseteq Nat /\ \A i \in asked : i <= Len(Which) + 1
    BY DEF Dudect!Tests
  <2>2. \A i \in asked : t[i] \in Nat
    BY <1>3, <1>5
  <2>3. \E i \in asked : Wins(i, asked, t)
    <3>1. Len(Which) + 1 \in Nat
      BY UncroppedIsATest DEF Dudect!Tests
    <3> HIDE DEF asked
    <3>2. QED
      BY <1>10, <2>1, <2>2, <3>1, WinnerExists
  <2>4. Dudect!Winner(t) = CHOOSE i \in asked : \A j \in asked : t[j] < t[i] \/ (t[j] = t[i] /\ i <= j)
    BY <1>10 DEF Dudect!Winner
  <2>5. Dudect!Winner(t) \in asked /\ \A j \in asked : t[j] <= t[Dudect!Winner(t)]
    <3> HIDE DEF asked
    <3>1. Wins(Dudect!Winner(t), asked, t)
      BY <2>3, <2>4 DEF Wins
    <3>2. QED
      BY <2>2, <3>1 DEF Wins
  <2>6. Dudect!Exceeds(t[Dudect!Winner(t)])
            <=> \E i \in Dudect!Tests : Dudect!Eligible(i)' /\ Dudect!Exceeds(out'.t[i])
    <3>1. ASSUME NEW i \in asked, Dudect!Exceeds(t[i]) PROVE Dudect!Exceeds(t[Dudect!Winner(t)])
      <4>1. t[i] \in Nat /\ t[Dudect!Winner(t)] \in Nat /\ t[i] <= t[Dudect!Winner(t)]
            /\ t[Dudect!Winner(t)] # NaN
        BY <2>2, <2>5
      <4>2. QED
        BY <3>1, <4>1 DEF Dudect!Exceeds
    <3>2. QED
      BY <1>2, <1>7, <2>5, <3>1
  <2>7. Dudect!StatusMatchesTests'
    <3>1. out'.status = "FAIL" <=> Dudect!Exceeds(t[Dudect!Winner(t)])
      BY <1>2, <1>8, <1>10
    <3>2. QED
      BY <1>2, <1>b, <2>6, <3>1 DEF Dudect!StatusMatchesTests
  <2>8. QED
    BY <1>2, <1>4, <2>7 DEF DudectInv, UncroppedHasMost
<1>11. QED
  BY <1>9, <1>10

\* A run of the adapter is a behaviour of OfficialDudect.
LEMMA DudectRuns ==
    /\ Init /\ routine = "dudect" => Dudect!Init
    /\ [Next]_vars /\ routine' = "dudect" => routine = "dudect" /\ [Dudect!Next]_Dudect!vars
<1>1. Init /\ routine = "dudect" => Dudect!Init
  BY DEF Init
<1>2. [Next]_vars /\ routine' = "dudect" => routine = "dudect"
  BY DEF Next, SignNext, vars
<1>3. [Next]_vars /\ routine = "dudect" => [Dudect!Next]_Dudect!vars
  BY DEF Next, SignNext, vars, Dudect!vars
<1> QED
  BY <1>1, <1>2, <1>3

DudectAlways == routine = "dudect" => DudectInv

\* The invariant of one run of the adapter.
THEOREM DudectInductive == Spec => []DudectAlways
<1>1. Init => DudectAlways
  <2> SUFFICES ASSUME Dudect!Init PROVE DudectInv
    BY DudectRuns DEF DudectAlways
  <2>1. DudectTyped
    BY RoutinesAssumption DEF Dudect!Init, DudectTyped, Counters, Dudect!DudectAssumption
  <2>2. UncroppedHasMost
    BY UncroppedIsATest, RoutinesAssumption DEF Dudect!Init, UncroppedHasMost
  <2>3. QED
    BY <2>1, <2>2 DEF DudectInv, Dudect!Init, Dudect!StatusMatchesTests
<1>2. DudectAlways /\ [Next]_vars => DudectAlways'
  <2> SUFFICES ASSUME DudectInv, [Dudect!Next]_Dudect!vars PROVE DudectInv'
    BY DudectRuns DEF DudectAlways
  <2>1. CASE Dudect!Fails
    BY <2>1 DEF Dudect!Fails, DudectInv, DudectTyped, UncroppedHasMost, Dudect!StatusMatchesTests
  <2>2. ASSUME NEW class \in {0, 1}, NEW difference \in Cycles, Dudect!Row(class, difference)
        PROVE  DudectInv'
    BY <2>2, RowStep, RoutinesAssumption
  <2>3. CASE Dudect!Report
    BY <2>3, ReportStep, RoutinesAssumption
  <2>4. CASE UNCHANGED Dudect!vars
    BY <2>4
    DEF Dudect!vars, DudectInv, DudectTyped, UncroppedHasMost, Dudect!StatusMatchesTests, Dudect!Eligible
  <2>5. QED
    BY <2>1, <2>2, <2>3, <2>4 DEF Dudect!Next
<1>3. QED
  BY <1>1, <1>2, PTL DEF Spec

\* The variables have their types; no test counts more rows than there were.
THEOREM DudectTypeOK ==
    Spec => [](routine = "dudect" => Dudect!TypeOK)
<1>1. DudectAlways => (routine = "dudect" => Dudect!TypeOK)
  <2> SUFFICES ASSUME DudectInv PROVE Dudect!TypeOK
    BY DEF DudectAlways
  <2>1. locals.rows \in 0 .. MaxRows /\ locals.n \in Counters
    BY DEF DudectInv, DudectTyped
  <2>2. ASSUME NEW i \in Dudect!Tests, NEW class \in {0, 1}
        PROVE  locals.n[i][class] \in 0 .. locals.rows
    <3>1. locals.n[i][class] \in Nat /\ locals.n[0][class] \in Nat
      BY <2>1, UncroppedIsATest, RoutinesAssumption DEF Counters
    <3>2. QED
      BY <2>1, <3>1 DEF DudectInv, UncroppedHasMost
  <2>3. QED
    BY <2>1, <2>2 DEF DudectInv, DudectTyped, Dudect!TypeOK
<1>2. QED
  BY <1>1, DudectInductive, PTL

\* The status is the one the tests printed under it call for.
THEOREM StatusAlwaysMatches ==
    Spec => []StatusMatchesTests
<1>1. DudectAlways => StatusMatchesTests
  BY DEF DudectAlways, DudectInv, StatusMatchesTests
<1>2. QED
  BY <1>1, DudectInductive, PTL

-----------------------------------------------------------------------------
(* Every routine keeps its types.                                          *)

Names == {"sponge", "sign", "sample", "challenge", "hints", "kyber rounding",
          "mldsa rounding", "dudect"}

\* A behaviour runs the one routine it picked.
OneOfThem == routine \in Names

LEMMA AlwaysOneOfThem == Spec => []OneOfThem
<1>1. Init => OneOfThem
  BY DEF Init, OneOfThem, Names
<1>2. OneOfThem /\ [Next]_vars => OneOfThem'
  BY DEF Next, SignNext, vars, OneOfThem
<1>3. QED
  BY <1>1, <1>2, PTL DEF Spec

\* Whichever routine is running, its variables have their types.
THEOREM EveryTypeOK ==
    Spec => []TypeOK
<1>1. /\ OneOfThem
      /\ routine = "sponge" => Sponge!TypeOK
      /\ routine = "sign" => Sign!TypeOK
      /\ routine = "sample" => Sample!TypeOK
      /\ routine = "challenge" => Chal!TypeOK
      /\ routine = "hints" => Codec!TypeOK
      /\ routine = "kyber rounding" => Kyber!TypeOK
      /\ routine = "mldsa rounding" => Mldsa!TypeOK
      /\ routine = "dudect" => Dudect!TypeOK
      => TypeOK
  BY DEF TypeOK, OneOfThem, Names
<1>2. QED
  BY <1>1, AlwaysOneOfThem, SpongeTypeOK, SignTypeOK, SampleTypeOK, ChallengeTypeOK, HintTypeOK,
     KyberTypeOK, MldsaRoundingTypeOK, DudectTypeOK, PTL

=============================================================================
