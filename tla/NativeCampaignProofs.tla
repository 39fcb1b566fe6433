------------------------ MODULE NativeCampaignProofs ------------------------
(***************************************************************************)
(* Proofs about NativeCampaign, for every set of targets and origins and   *)
(* without any bound on faults.                                            *)
(***************************************************************************)
EXTENDS NativeCampaign, TLAPS

\* The next-state relation, one disjunct per action.
LEMMA NextCases ==
    ASSUME [Next]_vars
    PROVE  \/ \E kind \in RunKinds, e \in Eligibilities : LaunchTorn(kind, e)
           \/ \E kind \in RunKinds, e \in Eligibilities, keep \in BOOLEAN,
                 o \in Origins, S \in (SUBSET Targets) \ {{}} :
                 LaunchFresh(kind, keep, e, o, S)
           \/ \E kind \in RunKinds, e \in Eligibilities, keep \in BOOLEAN,
                 o \in Origins, S \in (SUBSET Targets) \ {{}} :
                 LaunchResume(kind, keep, e, o, S)
           \/ \E t \in Targets : SkipTarget(t)
           \/ \E t \in Targets : RefuseTarget(t)
           \/ \E t \in Targets : ExecuteTarget(t)
           \/ EmitFirst
           \/ \E ok, valid \in BOOLEAN : EmitLast(ok, valid)
           \/ Validate \/ WriteAttestation \/ WriteRecord \/ MergeRows
           \/ ExecutionFails
           \/ LeaveLoop \/ CloseReport \/ PublishRows
           \/ Interrupt \/ Kill \/ KillTearing \/ ClearTarget
           \/ UNCHANGED vars
  BY DEF Next, Launch, Visit, Emit, Record, Close

\* A record is not an absent record, and has the fields it is made of.
LEMMA RecordFields ==
    ASSUME session \in Sessions, NEW b \in Bundles \cup {None},
           NEW seal \in Attestations \cup {None}
    PROVE  /\ RecordOf(b, seal) \in Records
           /\ RecordOf(b, seal) # None
           /\ RecordOf(b, seal).complete = Complete(b)
           /\ RecordOf(b, seal).promo
                 = Promotable(b, session.kind, session.eligible)
           /\ RecordOf(b, seal).art = b
           /\ RecordOf(b, seal).seal = seal
<1>1. Complete(b) \in BOOLEAN
  BY DEF Complete, Bundles
<1>2. Promotable(b, session.kind, session.eligible) \in BOOLEAN
  BY <1>1 DEF Promotable, Complete, Bundles, Sessions
<1>3. RecordOf(b, seal) \in Records
  BY <1>1, <1>2 DEF RecordOf, Records
<1>4. QED
  BY <1>3, CampaignConstants DEF RecordOf

\* So has an attestation.
LEMMA AttestationTyped ==
    ASSUME NEW b \in Bundles, NEW o \in Origins
    PROVE  Attestation(b, o) \in Attestations /\ Attestation(b, o) # None
  BY CampaignConstants DEF Attestation, Attestations

\* What WriteRecord leaves in the index.
LEMMA WrittenRecord ==
    ASSUME TypeOK, WriteRecord
    PROVE  /\ index'[cur] # None
           /\ index'[cur].art = val[cur]
           /\ index'[cur].complete = Complete(val[cur])
           /\ index'[cur].promo
                 = Promotable(val[cur], session.kind, session.eligible)
           /\ index'[cur].seal = IF Complete(val[cur]) THEN attest[cur] ELSE None
           /\ \A u \in Targets : u # cur => index'[u] = index[u]
<1>1. /\ session \in Sessions /\ cur \in Targets
      /\ val[cur] \in Bundles \cup {None}
      /\ attest[cur] \in Attestations \cup {None}
      /\ index \in [Targets -> Records \cup {None}]
  BY DEF TypeOK, WriteRecord, Measuring, Recording
<1>2. index' = [index EXCEPT ![cur] =
         RecordOf(val[cur], IF Complete(val[cur]) THEN attest[cur] ELSE None)]
  BY DEF WriteRecord
<1>3. CASE Complete(val[cur])
  BY <1>1, <1>2, <1>3, RecordFields
<1>4. CASE ~Complete(val[cur])
  BY <1>1, <1>2, <1>4, RecordFields
<1>5. QED
  BY <1>3, <1>4

LEMMA TypeStep ==
    ASSUME TypeOK, [Next]_vars
    PROVE  TypeOK'
<1> USE CampaignConstants DEF Phases, Measuring, Recording, Closing
<1>0. ASSUME NEW code \in {"0", "1", "2", "refused", "killed", "interrupted"},
             NEW covered \in SUBSET Targets, NEW e \in BOOLEAN,
             EndSession(code, covered, e)
      PROVE  /\ pc' = "idle" /\ session' = None
             /\ todo' = {} /\ cur' = None /\ seen' = {} /\ failed' = FALSE
             /\ val' \in [Targets -> Bundles \cup {None}]
             /\ exit' \in [code : {"none", "0", "1", "2", "refused", "killed",
                                  "interrupted"},
                           seen : SUBSET Targets, eligible : BOOLEAN]
  BY <1>0 DEF EndSession, Work
<1>1. ASSUME NEW kind \in RunKinds, NEW e \in Eligibilities, LaunchTorn(kind, e)
      PROVE  TypeOK'
  BY <1>1 DEF TypeOK, LaunchTorn, Fault, files, work
<1>2. ASSUME NEW kind \in RunKinds, NEW e \in Eligibilities,
             NEW keep \in BOOLEAN, NEW o \in Origins,
             NEW S \in (SUBSET Targets) \ {{}}, LaunchFresh(kind, keep, e, o, S)
      PROVE  TypeOK'
  BY <1>2 DEF TypeOK, LaunchFresh, StartSession, Work, files, Headers, Sessions
<1>3. ASSUME NEW kind \in RunKinds, NEW e \in Eligibilities,
             NEW keep \in BOOLEAN, NEW o \in Origins,
             NEW S \in (SUBSET Targets) \ {{}}, LaunchResume(kind, keep, e, o, S)
      PROVE  TypeOK'
  BY <1>3 DEF TypeOK, LaunchResume, StartSession, Work, files, Headers, Sessions
<1>4. ASSUME NEW t \in Targets, SkipTarget(t) PROVE TypeOK'
  <2>1. session \in Sessions /\ pc = "loop"
    BY <1>4 DEF TypeOK, SkipTarget, NextTarget
  <2>2. artifacts[t] \in Bundles /\ attest[t] \in Attestations
    BY <1>4, <2>1
    DEF TypeOK, SkipTarget, Existing, Attested, Attestation, Attestations, Sessions
  <2>3. RecordOf(artifacts[t], attest[t]) \in Records
    BY <2>1, <2>2, RecordFields
  <2>4. QED
    BY <1>4, <2>1, <2>2, <2>3 DEF TypeOK, SkipTarget, files, ghosts
<1>5. ASSUME NEW t \in Targets, RefuseTarget(t) PROVE TypeOK'
  BY <1>5 DEF TypeOK, RefuseTarget, EndSession, Work, report, files
<1>6. ASSUME NEW t \in Targets, ExecuteTarget(t) PROVE TypeOK'
  BY <1>6 DEF TypeOK, ExecuteTarget, NextTarget, report, files, ghosts
<1>7. CASE EmitFirst
  BY <1>7 DEF TypeOK, EmitFirst, report, work, ghosts
<1>8. ASSUME NEW ok \in BOOLEAN, NEW valid \in BOOLEAN, pc = "emitting",
             Emitted(ok, valid)
      PROVE  /\ tries' \in [Targets -> Nat]
             /\ artifacts' \in [Targets -> Bundles \cup {None, Partial}]
             /\ artifacts'[cur] \in Bundles
  <2>1. /\ session \in Sessions /\ cur \in Targets
        /\ tries \in [Targets -> Nat]
        /\ artifacts \in [Targets -> Bundles \cup {None, Partial}]
    BY <1>8 DEF TypeOK
  <2>2. [try |-> tries[cur] + 1, origin |-> session.origin,
         resumed |-> session.resume, ok |-> ok, valid |-> valid] \in Bundles
    BY <2>1 DEF Bundles, Sessions
  <2>3. tries[cur] + 1 \in Nat
    BY <2>1
  <2>4. QED
    BY <1>8, <2>1, <2>2, <2>3 DEF Emitted
<1>9. ASSUME NEW ok \in BOOLEAN, NEW valid \in BOOLEAN, EmitLast(ok, valid)
      PROVE  TypeOK'
  BY <1>8, <1>9 DEF TypeOK, EmitLast, Fault, report, work
<1> DEFINE Kept == /\ tries' \in [Targets -> Nat]
                   /\ artifacts' \in [Targets -> Bundles \cup {None, Partial}]
<1>24. ASSUME Stopped PROVE Kept
  <2>1. CASE Torn
    BY <1>8, <2>1 DEF Torn
  <2>2. CASE UNCHANGED <<artifacts, tries>>
    BY <2>2 DEF TypeOK
  <2>3. QED
    BY <1>24, <2>1, <2>2 DEF Stopped
<1> HIDE DEF Kept
<1>10. CASE Validate
  BY <1>10 DEF TypeOK, Validate, Complete, report, files, ghosts
<1>11. CASE WriteAttestation
  BY <1>11 DEF TypeOK, WriteAttestation, Attestation, Attestations, Sessions, report, work, ghosts
<1>12. CASE WriteRecord
  <2>1. RecordOf(val[cur], IF Complete(val[cur]) THEN attest[cur] ELSE None)
           \in Records
    <3>1. /\ session \in Sessions /\ val[cur] \in Bundles \cup {None}
          /\ attest[cur] \in Attestations \cup {None}
      BY <1>12 DEF TypeOK, WriteRecord
    <3>2. QED
      BY <3>1, RecordFields
  <2>2. QED
    BY <1>12, <2>1 DEF TypeOK, WriteRecord, files, work, ghosts
<1>13. CASE MergeRows
  BY <1>13 DEF TypeOK, MergeRows, RowsOf, Rows, report, ghosts, Sessions
<1>14. CASE ExecutionFails
  <2>1. Kept
    BY <1>14, <1>24 DEF ExecutionFails
  <2>2. QED
    BY <1>14, <2>1 DEF TypeOK, ExecutionFails, Fault, report, work, Kept
<1>15. CASE LeaveLoop
  BY <1>15 DEF TypeOK, LeaveLoop, report, files, work, ghosts
<1>16. CASE CloseReport
  BY <1>16 DEF TypeOK, CloseReport, FinalStatus, files, work, ghosts
<1>17. CASE PublishRows
  BY <1>17 DEF TypeOK, PublishRows, EndSession, Work, ExitCode, RowsOf, Rows, report, Sessions
<1>18. CASE Interrupt
  <2>1. EndSession("interrupted", {}, FALSE)
    BY <1>18 DEF Interrupt
  <2>2. faults' \in Nat
    BY <1>18 DEF TypeOK, Interrupt, Fault
  <2>3. Kept
    BY <1>18, <1>24 DEF Interrupt
  <2>4. QED
    BY <1>18, <1>0, <2>1, <2>2, <2>3 DEF TypeOK, Interrupt, Kept
<1>19. CASE Kill
  <2>1. EndSession("killed", {}, FALSE)
    BY <1>19 DEF Kill
  <2>2. faults' \in Nat
    BY <1>19 DEF TypeOK, Kill, Fault
  <2>3. QED
    BY <1>19, <1>0, <2>1, <2>2 DEF TypeOK, Kill, report, files
<1>20. CASE KillTearing
  <2>1. EndSession("killed", {}, FALSE)
    BY <1>20 DEF KillTearing
  <2>2. faults' \in Nat
    BY <1>20 DEF TypeOK, KillTearing, Fault
  <2>3. /\ tries' \in [Targets -> Nat]
        /\ artifacts' \in [Targets -> Bundles \cup {None, Partial}]
    BY <1>20, <1>8 DEF KillTearing, Torn
  <2>4. QED
    BY <1>20, <1>0, <2>1, <2>2, <2>3 DEF TypeOK, KillTearing, report
<1>21. CASE ClearTarget
  BY <1>21 DEF TypeOK, ClearTarget, report, work
<1>22. CASE UNCHANGED vars
  BY <1>22 DEF TypeOK, vars, report, files, work, ghosts
<1>23. QED
  BY <1>1, <1>2, <1>3, <1>4, <1>5, <1>6, <1>7, <1>9, <1>10, <1>11, <1>12,
     <1>13, <1>14, <1>15, <1>16, <1>17, <1>18, <1>19, <1>20, <1>21, <1>22,
     NextCases

LEMMA InitTypeOK == Init => TypeOK
<1> USE CampaignConstants DEF Phases, Measuring, Recording, Closing
<1> SUFFICES ASSUME Init PROVE TypeOK
  OBVIOUS
<1>1. exit \in [code : {"none", "0", "1", "2", "refused", "killed", "interrupted"},
                seen : SUBSET Targets, eligible : BOOLEAN]
  BY DEF Init
<1>2. /\ pc \in Phases
      /\ IF pc = "idle" THEN session = None ELSE session \in Sessions
      /\ IF pc \in Measuring \cup Recording THEN cur \in Targets ELSE cur = None
      /\ pc = "validating" => artifacts[cur] \in Bundles
      /\ pc = "attesting" => val[cur] \in Bundles
  BY DEF Init
<1>3. QED
  BY <1>1, <1>2 DEF Init, TypeOK

\* The variables have their types.
THEOREM TypeCorrect == Spec => []TypeOK
  BY InitTypeOK, TypeStep, PTL DEF Spec

-----------------------------------------------------------------------------
(***************************************************************************)
(* The inductive invariant.  IndexBacked alone is not inductive: WriteRecord *)
(* makes a target complete, so the steps before it must have left the      *)
(* attestation and the artifacts it is about (WorkInv), under the origin of *)
(* the report (SessionInv); and no target that is complete may be measured *)
(* again, which for a fresh session rests on its empty index (SessionInv)  *)
(* and for a resume on the attestation it finds (EvidenceInv).             *)
(***************************************************************************)

HeaderInv ==
    /\ header = None <=> status \in {"absent", "torn"}
    /\ header = None =>
          /\ pc = "idle" /\ refused = None /\ selected = {} /\ ~promoted
          /\ \A t \in Targets : index[t] = None /\ artifacts[t] = None
    /\ header # None => selected # {}

SessionInv ==
    pc # "idle" =>
        /\ header # None
        /\ session.origin = header.origin
        /\ session.kind = header.kind
        /\ session.resume => header.kind # "final"
        /\ ~session.resume => session.eligible = header.eligible
        /\ ~session.resume => \A t \in todo : index[t] = None
        /\ todo \subseteq selected
        /\ \A t \in todo : val[t] = None
        /\ pc # "publishing" => status = "running"

WorkInv ==
    /\ pc \in Measuring \cup Recording => cur \in selected /\ cur \notin todo
    /\ pc \in Measuring => val[cur] = None
    /\ pc \in Measuring \cup {"attesting", "indexing"} => ~IndexedComplete(cur)
    /\ pc \in {"attesting", "indexing"} /\ Complete(val[cur])
          => artifacts[cur] = val[cur]
    /\ pc = "indexing" /\ Complete(val[cur])
          => attest[cur] = Attestation(val[cur], header.origin)

EvidenceAt(t) ==
    /\ artifacts[t] \in Bundles =>
          /\ artifacts[t].origin = header.origin
          /\ header.kind = "final" => ~artifacts[t].resumed
    /\ Indexed(t) =>
          /\ index[t].seal # None \/ index[t].promo => index[t].complete
          /\ index[t].promo => header.kind = "final" /\ header.eligible
    /\ IndexedComplete(t) =>
          /\ Complete(artifacts[t])
          /\ attest[t] = Attestation(artifacts[t], header.origin)
          /\ index[t].art = artifacts[t]
          /\ index[t].seal = attest[t]
          /\ index[t].promo => artifacts[t].valid

EvidenceInv == \A t \in Targets : EvidenceAt(t)

PromotedInv ==
    promoted =>
        /\ pc \in {"publishing", "idle"}
        /\ \A t \in selected : IndexedComplete(t) /\ index[t].promo

RefusedInv == refused # None => pc = "idle" /\ ~IndexedComplete(refused)

IInv == /\ TypeOK /\ HeaderInv /\ SessionInv /\ WorkInv
        /\ EvidenceInv /\ PromotedInv /\ RefusedInv

LEMMA IInvStep ==
    ASSUME IInv, [Next]_vars
    PROVE  IInv'
<1> USE CampaignConstants
    DEF Phases, Measuring, Recording, Closing, TypeOK, HeaderInv, SessionInv,
        WorkInv, EvidenceInv, EvidenceAt, PromotedInv, RefusedInv,
        Indexed, IndexedComplete, Complete, Attestation
<1>0. TypeOK /\ TypeOK'
  <2> HIDE DEF TypeOK
  <2>1. QED
    BY TypeStep DEF IInv
<1> USE <1>0
<1>1. ASSUME NEW kind \in RunKinds, NEW e \in Eligibilities, LaunchTorn(kind, e)
      PROVE  IInv'
  BY <1>1 DEF IInv, LaunchTorn, files, work
<1>2. ASSUME NEW kind \in RunKinds, NEW e \in Eligibilities,
             NEW keep \in BOOLEAN, NEW o \in Origins,
             NEW S \in (SUBSET Targets) \ {{}}, LaunchFresh(kind, keep, e, o, S)
      PROVE  IInv'
  <2>1. header' \in Headers /\ header' # None
    BY <1>2 DEF LaunchFresh, Headers
  <2>2. HeaderInv'
    BY <1>2, <2>1 DEF IInv, LaunchFresh, StartSession, files
  <2>3. SessionInv'
    BY <1>2, <2>1 DEF IInv, LaunchFresh, StartSession, Work
  <2>4. WorkInv' /\ EvidenceInv' /\ PromotedInv' /\ RefusedInv'
    BY <1>2 DEF IInv, LaunchFresh, StartSession, Work, files
  <2>5. QED
    BY <2>2, <2>3, <2>4 DEF IInv
<1>3. ASSUME NEW kind \in RunKinds, NEW e \in Eligibilities,
             NEW keep \in BOOLEAN, NEW o \in Origins,
             NEW S \in (SUBSET Targets) \ {{}}, LaunchResume(kind, keep, e, o, S)
      PROVE  IInv'
  <2>0. /\ S # {} /\ header # None /\ header' = header /\ promoted' = promoted
        /\ status' = "running" /\ selected' = selected \cup S
        /\ header.kind # "final"
    BY <1>3 DEF LaunchResume
  <2>1. HeaderInv'
    BY <2>0
  <2>5. ~promoted
    <3>1. \A t \in Targets : Indexed(t) => ~index[t].promo
      BY <2>0 DEF IInv
    <3>2. PICK t \in Targets : t \in selected
      BY <2>0 DEF IInv
    <3>3. QED
      BY <3>1, <3>2 DEF IInv
  <2>6. PromotedInv'
    BY <2>0, <2>5
  <2>2. SessionInv'
    BY <1>3 DEF IInv, LaunchResume, StartSession, Work
  <2>3. WorkInv' /\ EvidenceInv' /\ RefusedInv'
    BY <1>3 DEF IInv, LaunchResume, StartSession, Work, files
  <2>4. QED
    BY <2>1, <2>2, <2>3, <2>6 DEF IInv
<1>4. ASSUME NEW t \in Targets, SkipTarget(t) PROVE IInv'
  <2>1. EvidenceInv'
    <3>1. ~Promotable(artifacts[t], session.kind, session.eligible)
      BY <1>4 DEF IInv, SkipTarget, NextTarget, Existing, Promotable
    <3>2. index'[t] = RecordOf(artifacts[t], attest[t])
      BY <1>4 DEF SkipTarget
    <3>3. ASSUME NEW u \in Targets, u # t PROVE index'[u] = index[u]
      BY <1>4, <3>3 DEF SkipTarget
    <3>4. artifacts' = artifacts /\ attest' = attest /\ header' = header
      BY <1>4 DEF SkipTarget, files
    <3>5. artifacts[t] \in Bundles /\ Attested(t) /\ session.origin = header.origin
      BY <1>4 DEF IInv, SkipTarget, NextTarget, Existing
    <3>6. /\ index[t] # None /\ index[t].complete /\ artifacts[t].ok
          /\ attest[t] = Attestation(artifacts[t], header.origin)
          /\ artifacts[t].origin = header.origin
          /\ header.kind = "final" => ~artifacts[t].resumed
      <4>1. attest[t] # None
        <5> HIDE DEF Attestation
        <5>1. session.origin \in Origins
          BY <1>4 DEF IInv, SkipTarget, NextTarget, Sessions
        <5>2. QED
          BY <3>5, <5>1, AttestationTyped DEF Attested
      <4>2. QED
        BY <3>5, <4>1 DEF IInv, Attested
    <3>7. /\ index'[t] # None /\ index'[t].complete /\ ~index'[t].promo
          /\ index'[t].art = artifacts[t] /\ index'[t].seal = attest[t]
      <4>1. session \in Sessions /\ attest[t] \in Attestations \cup {None}
        BY <1>4 DEF SkipTarget, NextTarget
      <4>2. Complete(artifacts[t]) /\ artifacts[t] \in Bundles
        BY <3>5, <3>6
      <4>3. QED
        <5> HIDE DEF Complete, TypeOK, HeaderInv, SessionInv, WorkInv,
                     EvidenceInv, EvidenceAt, PromotedInv, RefusedInv, Indexed,
                     IndexedComplete, Attestation
        <5>1. QED
          BY <3>1, <3>2, <4>1, <4>2, RecordFields
    <3>8. QED
      <4> SUFFICES ASSUME NEW u \in Targets
                   PROVE  EvidenceAt(u)'
        BY DEF EvidenceInv
      <4>1. CASE u = t
        BY <3>4, <3>5, <3>6, <3>7, <4>1 DEF EvidenceAt
      <4>2. CASE u # t
        BY <3>3, <3>4, <4>2 DEF IInv, EvidenceAt
      <4>3. QED
        BY <4>1, <4>2
  <2>2. HeaderInv' /\ SessionInv' /\ WorkInv' /\ PromotedInv' /\ RefusedInv'
    BY <1>4 DEF IInv, SkipTarget, NextTarget, Existing, Attested, RecordOf,
                files, ghosts
  <2>3. QED
    BY <2>1, <2>2 DEF IInv
<1>5. ASSUME NEW t \in Targets, RefuseTarget(t) PROVE IInv'
  <2>1. ~IndexedComplete(t)
    BY <1>5 DEF IInv, RefuseTarget, NextTarget, Existing, Attested
  <2>2. QED
    BY <1>5, <2>1 DEF IInv, RefuseTarget, NextTarget, EndSession, Work, report, files
<1>6. ASSUME NEW t \in Targets, ExecuteTarget(t) PROVE IInv'
  BY <1>6 DEF IInv, ExecuteTarget, NextTarget, Existing, report, files, ghosts
<1>7. CASE EmitFirst
  BY <1>7 DEF IInv, EmitFirst, report, work, ghosts
<1>8. ASSUME NEW ok \in BOOLEAN, NEW valid \in BOOLEAN, EmitLast(ok, valid)
      PROVE  IInv'
  BY <1>8 DEF IInv, EmitLast, Emitted, report, work
<1>9. CASE Validate
  BY <1>9 DEF IInv, Validate, report, files, ghosts
<1>10. CASE WriteAttestation
  BY <1>10 DEF IInv, WriteAttestation, report, work, ghosts
<1>11. CASE WriteRecord
  <2>1. EvidenceInv'
    <3>1. ASSUME Promotable(val[cur], session.kind, session.eligible)
          PROVE  header.kind = "final" /\ header.eligible /\ val[cur].valid
      BY <1>11, <3>1 DEF IInv, WriteRecord, Promotable
    <3>2. /\ index'[cur] # None /\ index'[cur].art = val[cur]
          /\ index'[cur].complete = Complete(val[cur])
          /\ index'[cur].promo
                = Promotable(val[cur], session.kind, session.eligible)
          /\ index'[cur].seal = IF Complete(val[cur]) THEN attest[cur] ELSE None
          /\ \A u \in Targets : u # cur => index'[u] = index[u]
      <4> HIDE DEF TypeOK
      <4>1. QED
        BY <1>11, WrittenRecord
    <3>4. artifacts' = artifacts /\ attest' = attest /\ header' = header
      BY <1>11 DEF WriteRecord, files
    <3>5. pc = "indexing" /\ session.origin = header.origin
      BY <1>11 DEF IInv, WriteRecord
    <3>7. QED
      <4> SUFFICES ASSUME NEW u \in Targets
                   PROVE  EvidenceAt(u)'
        BY DEF EvidenceInv
      <4>1. CASE u = cur
        BY <3>1, <3>2, <3>4, <3>5, <4>1 DEF IInv, EvidenceAt, Promotable
      <4>2. CASE u # cur
        BY <3>2, <3>4, <4>2 DEF IInv, EvidenceAt
      <4>3. QED
        BY <4>1, <4>2
  <2>2. HeaderInv' /\ SessionInv' /\ WorkInv' /\ PromotedInv' /\ RefusedInv'
    BY <1>11 DEF IInv, WriteRecord, RecordOf, files, work, ghosts
  <2>3. QED
    BY <2>1, <2>2 DEF IInv
<1>12. CASE MergeRows
  BY <1>12 DEF IInv, MergeRows, report, ghosts
<1>13. CASE ExecutionFails
  BY <1>13 DEF IInv, ExecutionFails, Stopped, Torn, Emitted, report, work
<1>14. CASE LeaveLoop
  BY <1>14 DEF IInv, LeaveLoop, report, files, work, ghosts
<1>15. CASE CloseReport
  BY <1>15 DEF IInv, CloseReport, FinalStatus, AllIndexedComplete, files, work, ghosts
<1>16. CASE PublishRows
  BY <1>16 DEF IInv, PublishRows, EndSession, Work, report
<1>17. CASE Interrupt
  BY <1>17 DEF IInv, Interrupt, Stopped, Torn, Emitted, EndSession, Work
<1>18. CASE Kill
  BY <1>18 DEF IInv, Kill, EndSession, Work, report, files
<1>19. CASE KillTearing
  BY <1>19 DEF IInv, KillTearing, Torn, Emitted, EndSession, Work, report
<1>20. CASE ClearTarget
  BY <1>20 DEF IInv, ClearTarget, report, work
<1>21. CASE UNCHANGED vars
  BY <1>21 DEF IInv, vars, report, files, work, ghosts
<1>22. QED
  <2> HIDE DEF TypeOK, HeaderInv, SessionInv, WorkInv, EvidenceInv,
               PromotedInv, RefusedInv
  <2>1. QED
    BY <1>1, <1>2, <1>3, <1>4, <1>5, <1>6, <1>7, <1>8, <1>9, <1>10, <1>11,
       <1>12, <1>13, <1>14, <1>15, <1>16, <1>17, <1>18, <1>19, <1>20, <1>21,
       NextCases

THEOREM Inductive == Spec => []IInv
<1>1. Init => IInv
  <2>1. Init => TypeOK
    BY InitTypeOK
  <2>2. QED
    BY <2>1, CampaignConstants
    DEF Init, IInv, HeaderInv, SessionInv, WorkInv, EvidenceInv, EvidenceAt, PromotedInv,
        RefusedInv, Measuring, Recording, Indexed, IndexedComplete
<1>2. IInv /\ [Next]_vars => IInv'
  BY IInvStep
<1>3. QED
  BY <1>1, <1>2, PTL DEF Spec

-----------------------------------------------------------------------------
(* What follows from the invariant.                                        *)

\* Whatever was killed between the writes of a session, a target the report
\* calls complete is backed by its artifacts and its attestation.
THEOREM IndexBackedAlways == Spec => []IndexBacked
<1>1. IInv => IndexBacked
  BY DEF IInv, EvidenceInv, EvidenceAt, IndexBacked, IndexedComplete
<1>2. QED
  BY <1>1, Inductive, PTL

\* Complete evidence has one origin.
THEOREM OneOriginAlways == Spec => []OneOrigin
<1>1. IInv => OneOrigin
  BY DEF IInv, EvidenceInv, EvidenceAt, OneOrigin, Complete
<1>2. QED
  BY <1>1, Inductive, PTL

\* A promoted campaign is a final one measured by one session.
THEOREM PromotionAlways == Spec => []PromotionFromOneSession
<1>1. IInv => PromotionFromOneSession
  <2> SUFFICES ASSUME IInv, promoted PROVE PromotionFromOneSession
    BY DEF PromotionFromOneSession
  <2>1. \A t \in selected : t \in Targets /\ IndexedComplete(t) /\ index[t].promo
    BY DEF IInv, TypeOK, PromotedInv
  <2>2. \A t \in selected : /\ header.kind = "final" /\ header.eligible
                            /\ Complete(artifacts[t])
                            /\ artifacts[t].valid
                            /\ ~artifacts[t].resumed
    BY <2>1 DEF IInv, EvidenceInv, EvidenceAt, IndexedComplete, Complete
  <2>3. selected # {}
    BY DEF IInv, HeaderInv
  <2>4. QED
    BY <2>2, <2>3 DEF PromotionFromOneSession
<1>2. QED
  BY <1>1, Inductive, PTL

\* A resume never stops at a target the report calls complete.
THEOREM NeverRefusedAlways == Spec => []CompleteNeverRefused
<1>1. IInv => CompleteNeverRefused
  BY DEF IInv, RefusedInv, CompleteNeverRefused
<1>2. QED
  BY <1>1, Inductive, PTL


-----------------------------------------------------------------------------
(***************************************************************************)
(* Every step is one of the evidence ledger, or leaves it alone.           *)
(***************************************************************************)

\* Only these three of the variables are seen by the ledger.
LEMMA LedgerStutters ==
    ASSUME UNCHANGED <<index, selected, status>>
    PROVE  UNCHANGED Ledger!ledger
  BY DEF Ledger!ledger, SealedEvidence, IndexedComplete, Indexed

LEMMA SkipStutters ==
    ASSUME IInv, IInv', NEW t \in Targets, SkipTarget(t)
    PROVE  UNCHANGED Ledger!ledger
<1>1. ASSUME NEW u \in Targets, u # t PROVE index'[u] = index[u]
  BY <1>1 DEF SkipTarget, IInv, TypeOK
<1>2. index'[t] = RecordOf(artifacts[t], attest[t])
  BY DEF SkipTarget, IInv, TypeOK
<1>3. /\ session \in Sessions /\ artifacts[t] \in Bundles
      /\ attest[t] \in Attestations /\ attest[t] # None
      /\ Complete(artifacts[t]) /\ index[t] # None /\ index[t].seal = attest[t]
  <2>1. session \in Sessions /\ artifacts[t] \in Bundles /\ Attested(t)
    BY DEF SkipTarget, NextTarget, Existing, IInv, TypeOK
  <2>2. session.origin \in Origins
    BY <2>1 DEF Sessions
  <2>3. QED
    BY <2>1, <2>2, AttestationTyped DEF Attested, Indexed
<1>4. /\ index'[t] # None /\ index'[t].complete
      /\ index'[t].art = artifacts[t]
  BY <1>2, <1>3, RecordFields
<1>5. /\ index[t] # None /\ index[t].complete /\ index[t].art = artifacts[t]
  BY <1>3 DEF IInv, EvidenceInv, EvidenceAt, Indexed, IndexedComplete
<1>6. SealedEvidence' = SealedEvidence
  BY <1>1, <1>4, <1>5 DEF SealedEvidence, IndexedComplete, Indexed
<1>7. QED
  BY <1>6 DEF SkipTarget, Ledger!ledger

LEMMA WriteRecordSeals ==
    ASSUME IInv, IInv', WriteRecord
    PROVE  Ledger!Seal(cur) \/ UNCHANGED Ledger!ledger
<1>1. /\ cur \in Targets /\ session \in Sessions /\ cur \in selected
      /\ val[cur] \in Bundles \cup {None}
      /\ attest[cur] \in Attestations \cup {None}
      /\ ~IndexedComplete(cur) /\ status = "running"
  BY DEF WriteRecord, IInv, TypeOK, WorkInv, SessionInv, Recording, Measuring
<1>2. /\ index'[cur] # None
      /\ index'[cur].art = val[cur]
      /\ index'[cur].complete = Complete(val[cur])
      /\ \A u \in Targets : u # cur => index'[u] = index[u]
  BY WrittenRecord DEF IInv
<1>3. UNCHANGED <<selected, status>>
  BY DEF WriteRecord
<1>4. \A u \in Targets : u # cur => SealedEvidence'[u] = SealedEvidence[u]
  BY <1>2 DEF SealedEvidence, IndexedComplete, Indexed
<1>5. SealedEvidence[cur] = None
  BY <1>1 DEF SealedEvidence
<1>6. CASE Complete(val[cur])
  <2>1. index'[cur].complete
    BY <1>2, <1>6
  <2>2. SealedEvidence'[cur] = val[cur] /\ val[cur] \in Bundles
    BY <1>1, <1>2, <1>6, <2>1 DEF SealedEvidence, IndexedComplete, Indexed, Complete
  <2>3. SealedEvidence' = [SealedEvidence EXCEPT ![cur] = SealedEvidence'[cur]]
    BY <1>1, <1>4 DEF SealedEvidence
  <2>4. QED
    BY <1>1, <1>3, <1>5, <2>1, <2>2, <2>3 DEF Ledger!Seal
<1>7. CASE ~Complete(val[cur])
  <2>1. ~index'[cur].complete
    BY <1>2, <1>7
  <2>2. SealedEvidence'[cur] = None
    BY <1>1, <2>1 DEF SealedEvidence, IndexedComplete
  <2>3. SealedEvidence' = SealedEvidence
    BY <1>4, <1>5, <2>2 DEF SealedEvidence
  <2>4. QED
    BY <1>3, <2>3 DEF Ledger!ledger
<1>8. QED
  BY <1>6, <1>7

LEMMA LedgerStep ==
    ASSUME IInv, IInv', [Next]_vars
    PROVE  [Ledger!Next]_(Ledger!ledger)
<1>1. ASSUME NEW kind \in RunKinds, NEW e \in Eligibilities, LaunchTorn(kind, e)
      PROVE  UNCHANGED Ledger!ledger
  BY <1>1 DEF LaunchTorn, Ledger!ledger, SealedEvidence, IndexedComplete, Indexed
<1>2. ASSUME NEW kind \in RunKinds, NEW e \in Eligibilities,
             NEW keep \in BOOLEAN, NEW o \in Origins,
             NEW S \in (SUBSET Targets) \ {{}}, LaunchFresh(kind, keep, e, o, S)
      PROVE  Ledger!Choose(S)
  <2>1. /\ selected = {} /\ \A t \in Targets : index[t] = None
        /\ \A t \in Targets : index'[t] = None
    BY <1>2 DEF LaunchFresh, IInv, HeaderInv
  <2>2. SealedEvidence' = SealedEvidence
    BY <2>1 DEF SealedEvidence, IndexedComplete, Indexed
  <2>3. QED
    BY <1>2, <2>1, <2>2 DEF LaunchFresh, Ledger!Choose
<1>3. ASSUME NEW kind \in RunKinds, NEW e \in Eligibilities,
             NEW keep \in BOOLEAN, NEW o \in Origins,
             NEW S \in (SUBSET Targets) \ {{}}, LaunchResume(kind, keep, e, o, S)
      PROVE  Ledger!Choose(S)
  BY <1>3 DEF LaunchResume, Ledger!Choose, SealedEvidence, IndexedComplete, Indexed
<1>4. CASE CloseReport
  <2>1. UNCHANGED SealedEvidence /\ selected' = selected /\ status = "running"
    BY <1>4 DEF CloseReport, IInv, SessionInv, SealedEvidence, IndexedComplete, Indexed
  <2>2. CASE status' = "complete"
    <3>1. \A t \in selected : t \in Targets /\ IndexedComplete(t)
      BY <1>4, <2>2 DEF CloseReport, FinalStatus, AllIndexedComplete, IInv, TypeOK
    <3>2. \A t \in selected : Complete(artifacts[t]) /\ index[t].art = artifacts[t]
      BY <3>1 DEF IInv, EvidenceInv, EvidenceAt
    <3>4. \A t \in selected : SealedEvidence[t] # None
      BY <3>1, <3>2, CampaignConstants DEF SealedEvidence, Complete
    <3>3. QED
      BY <2>1, <2>2, <3>4 DEF Ledger!Next, Ledger!Declare
  <2>3. CASE status' # "complete"
    BY <2>1, <2>3 DEF Ledger!ledger
  <2>4. QED
    BY <2>2, <2>3
<1>5. CASE Interrupt
  <2>1. UNCHANGED SealedEvidence /\ selected' = selected /\ status = "running"
        /\ status' = "interrupted"
    BY <1>5 DEF Interrupt, Measuring, IInv, SessionInv, SealedEvidence,
                IndexedComplete, Indexed
  <2>2. QED
    BY <2>1 DEF Ledger!ledger
<1>6. ASSUME NEW t \in Targets, RefuseTarget(t) \/ ExecuteTarget(t)
      PROVE  UNCHANGED Ledger!ledger
  BY <1>6, LedgerStutters DEF RefuseTarget, ExecuteTarget, report
<1>7. ASSUME NEW ok \in BOOLEAN, NEW valid \in BOOLEAN, EmitLast(ok, valid)
      PROVE  UNCHANGED Ledger!ledger
  BY <1>7, LedgerStutters DEF EmitLast, report
<1>8. CASE \/ EmitFirst \/ Validate \/ WriteAttestation \/ MergeRows
           \/ ExecutionFails \/ LeaveLoop \/ PublishRows \/ Kill
           \/ KillTearing \/ ClearTarget
  BY <1>8, LedgerStutters
  DEF EmitFirst, Validate, WriteAttestation, MergeRows, ExecutionFails,
      LeaveLoop, PublishRows, Kill, KillTearing, ClearTarget, report
<1>9. CASE UNCHANGED vars
  BY <1>9, LedgerStutters DEF vars, report
<1>10. CASE WriteRecord
  <2>1. cur \in Targets
    BY <1>10 DEF WriteRecord, IInv, TypeOK, Measuring, Recording
  <2>2. QED
    BY <1>10, <2>1, WriteRecordSeals DEF Ledger!Next
<1>11. ASSUME NEW S \in (SUBSET Targets) \ {{}}, Ledger!Choose(S)
       PROVE  Ledger!Next
  BY <1>11 DEF Ledger!Next
<1>12. QED
  BY <1>1, <1>2, <1>3, <1>4, <1>5, <1>6, <1>7, <1>8, <1>9, <1>10, <1>11,
     SkipStutters, NextCases

\* The campaign implements the evidence ledger.
THEOREM ImplementsLedger == Spec => KeepsLedger
<1>1. Init => Ledger!Init
  BY DEF Init, Ledger!Init, SealedEvidence, IndexedComplete, Indexed
<1>2. IInv /\ IInv' /\ [Next]_vars => [Ledger!Next]_(Ledger!ledger)
  BY LedgerStep
<1>3. QED
  BY <1>1, <1>2, Inductive, PTL DEF Spec, KeepsLedger, Ledger!Spec

-----------------------------------------------------------------------------
(***************************************************************************)
(* No step rewrites the evidence of a complete target.                     *)
(***************************************************************************)

LEMMA RewriteStep ==
    ASSUME IInv, IInv', [Next]_vars, NEW t \in Targets, IndexedComplete(t)
    PROVE  IndexedComplete(t)' /\ artifacts'[t] = artifacts[t]
<1>1. /\ SealedEvidence[t] = artifacts[t] /\ artifacts[t] \in Bundles
      /\ artifacts[t] # None
  BY CampaignConstants
  DEF IInv, EvidenceInv, EvidenceAt, SealedEvidence, IndexedComplete, Complete
<1>2. SealedEvidence'[t] = SealedEvidence[t]
  <2>1. [Ledger!Next]_(Ledger!ledger)
    BY LedgerStep
  <2>2. CASE UNCHANGED Ledger!ledger
    BY <2>2 DEF Ledger!ledger
  <2>3. CASE Ledger!Next
    <3>1. ASSUME NEW S \in SUBSET Targets, Ledger!Choose(S)
          PROVE  SealedEvidence' = SealedEvidence
      BY <3>1 DEF Ledger!Choose
    <3>2. ASSUME NEW u \in Targets, Ledger!Seal(u)
          PROVE  SealedEvidence'[t] = SealedEvidence[t]
      <4>1. u # t
        BY <1>1, <3>2 DEF Ledger!Seal
      <4>2. SealedEvidence' = [SealedEvidence EXCEPT ![u] = SealedEvidence'[u]]
        BY <3>2 DEF Ledger!Seal
      <4>3. QED
        BY <4>1, <4>2 DEF SealedEvidence
    <3>3. CASE Ledger!Declare
      BY <3>3 DEF Ledger!Declare
    <3>4. QED
      BY <2>3, <3>1, <3>2, <3>3 DEF Ledger!Next
  <2>4. QED
    BY <2>1, <2>2, <2>3
<1>3. IndexedComplete(t)'
  BY <1>1, <1>2 DEF SealedEvidence
<1>4. index'[t].art = artifacts'[t]
  BY <1>3 DEF IInv, EvidenceInv, EvidenceAt
<1>5. QED
  BY <1>1, <1>2, <1>3, <1>4 DEF SealedEvidence

\* A complete target keeps its artifacts and stays complete.
THEOREM NeverRewritten == Spec => SealedNeverRewritten
<1>1. IInv /\ IInv' /\ [Next]_vars =>
        [\A t \in Targets : IndexedComplete(t) =>
            IndexedComplete(t)' /\ artifacts'[t] = artifacts[t]]_vars
  BY RewriteStep
<1>2. QED
  BY <1>1, Inductive, PTL DEF Spec, SealedNeverRewritten

-----------------------------------------------------------------------------
(***************************************************************************)
(* Exit 0 and --validate-run.                                              *)
(*                                                                         *)
(* A session that exits 0 must leave every target it covers as             *)
(* validate_run will look at it: what it has seen is still what is on disk, *)
(* under the report's record of it (SeenInv); between the two last writes  *)
(* the final status is the one of the index (ClosedInv); and nothing moves *)
(* once the process is gone (GoneInv).                                     *)
(***************************************************************************)

\* The record of a target this session validated and found complete.
RecordedNow(t) ==
    IndexedComplete(t) =>
        /\ val[t] = artifacts[t]
        /\ index[t].promo = Promotable(val[t], session.kind, session.eligible)

SeenInv ==
    /\ seen \subseteq selected \ todo
    /\ cur \notin seen
    /\ \A t \in seen : RecordedNow(t)
    /\ pc = "merging" => RecordedNow(cur)

ClosedInv ==
    pc = "publishing" =>
        /\ status = FinalStatus
        /\ promoted = (AllIndexedComplete /\ \A t \in selected : index[t].promo)

GoneInv ==
    exit.code = "0" => pc = "idle" /\ refused = None /\ header # None

ExitInv == IInv /\ SeenInv /\ ClosedInv /\ GoneInv /\ ExitZeroRevalidates


\* A session that goes on has not exited 0.
LEMMA GoesOn ==
    ASSUME pc' # "idle", exit'.code # "0", IInv', SeenInv', ClosedInv'
    PROVE  ExitInv'
  BY DEF ExitInv, GoneInv, ExitZeroRevalidates

\* A session that ends any other way than over its last write.
LEMMA Ends ==
    ASSUME NEW code \in {"refused", "killed", "interrupted"},
           EndSession(code, {}, FALSE), IInv'
    PROVE  ExitInv'
  BY DEF ExitInv, EndSession, Work, SeenInv, ClosedInv, GoneInv,
         ExitZeroRevalidates

\* What the session validated stands while no step disturbs these targets.
LEMMA SeenKept ==
    ASSUME SeenInv, UNCHANGED <<seen, session, selected>>,
           todo' \subseteq todo, cur' \notin seen, pc' # "merging",
           \A t \in seen : /\ val'[t] = val[t] /\ artifacts'[t] = artifacts[t]
                           /\ index'[t] = index[t]
    PROVE  SeenInv'
  BY DEF SeenInv, RecordedNow, IndexedComplete, Indexed, Promotable, Complete

LEMMA ExitStep ==
    ASSUME ExitInv, IInv', [Next]_vars
    PROVE  ExitInv'
<1>0. /\ TypeOK /\ HeaderInv /\ SessionInv /\ WorkInv /\ EvidenceInv
      /\ RefusedInv /\ SeenInv /\ ClosedInv /\ GoneInv /\ IInv /\ IInv'
  BY DEF ExitInv, IInv
<1>1. ASSUME NEW kind \in RunKinds, NEW e \in Eligibilities, LaunchTorn(kind, e)
      PROVE  ExitInv'
  <2>1. pc' = "idle" /\ seen' = {} /\ cur' = None /\ exit'.code = "killed"
    <3>1. pc = "idle" /\ cur = None /\ selected = {}
      BY <1>0, <1>1 DEF LaunchTorn, HeaderInv, TypeOK, Measuring, Recording
    <3>2. seen = {}
      BY <1>0, <3>1 DEF SeenInv
    <3>3. QED
      BY <1>1, <3>1, <3>2 DEF LaunchTorn, work
  <2>2. QED
    BY <1>0, <2>1 DEF ExitInv, SeenInv, ClosedInv, GoneInv, ExitZeroRevalidates
<1>2. ASSUME NEW kind \in RunKinds, NEW e \in Eligibilities,
             NEW keep \in BOOLEAN, NEW o \in Origins,
             NEW S \in (SUBSET Targets) \ {{}},
             LaunchFresh(kind, keep, e, o, S) \/ LaunchResume(kind, keep, e, o, S)
      PROVE  ExitInv'
  <2>1. /\ pc' = "loop" /\ seen' = {} /\ cur' = None /\ exit'.code = "none"
    BY <1>2 DEF LaunchFresh, LaunchResume, StartSession, Work
  <2>2. QED
    BY <1>0, <2>1, GoesOn DEF SeenInv, ClosedInv
<1>4. ASSUME NEW t \in Targets, SkipTarget(t) PROVE ExitInv'
  <2>1. /\ pc' = "loop" /\ exit' = exit /\ pc = "loop" /\ session \in Sessions
        /\ cur = None /\ cur' = None /\ seen' = seen \cup {t} /\ todo' = todo \ {t}
        /\ UNCHANGED <<selected, artifacts, attest, session>>
        /\ index' = [index EXCEPT ![t] = RecordOf(artifacts[t], attest[t])]
        /\ val' = [val EXCEPT ![t] = artifacts[t]]
        /\ t \in todo /\ Existing(t) /\ Attested(t)
    BY <1>0, <1>4 DEF SkipTarget, NextTarget, TypeOK, files, ghosts, Measuring, Recording
  <2>2. /\ artifacts[t] \in Bundles /\ attest[t] \in Attestations
        /\ index \in [Targets -> Records \cup {None}]
        /\ val \in [Targets -> Bundles \cup {None}]
    BY <1>0, <2>1
    DEF TypeOK, Existing, Attested, Attestation, Attestations, Sessions
  <2>3. /\ index'[t].promo
              = Promotable(artifacts[t], session.kind, session.eligible)
        /\ val'[t] = artifacts'[t]
    BY <2>1, <2>2, RecordFields
  <2>4. ASSUME NEW u \in seen PROVE RecordedNow(u)'
    <3>1. u \in Targets /\ u # t /\ RecordedNow(u)
      BY <1>0, <2>1 DEF SeenInv, TypeOK
    <3>2. index'[u] = index[u] /\ val'[u] = val[u]
      BY <2>1, <2>2, <3>1
    <3>3. QED
      BY <2>1, <3>1, <3>2
      DEF RecordedNow, IndexedComplete, Indexed, Promotable, Complete
  <2>5. RecordedNow(t)'
    BY <2>1, <2>3 DEF RecordedNow, Promotable, Complete
  <2>6. cur' \notin seen'
    BY <1>0, <2>1, CampaignConstants DEF SeenInv
  <2>7. seen' \subseteq selected' \ todo'
    BY <1>0, <2>1 DEF SeenInv, SessionInv
  <2>8. SeenInv'
    BY <2>1, <2>4, <2>5, <2>6, <2>7 DEF SeenInv
  <2>9. exit'.code # "0" /\ ClosedInv'
    BY <1>0, <2>1 DEF ClosedInv, GoneInv
  <2>10. QED
    BY <1>0, <2>1, <2>8, <2>9, GoesOn
<1>5. ASSUME NEW t \in Targets, RefuseTarget(t) PROVE ExitInv'
  BY <1>0, <1>5, Ends DEF RefuseTarget
<1>6. ASSUME NEW t \in Targets, ExecuteTarget(t) PROVE ExitInv'
  <2>1. /\ pc = "loop" /\ pc' = "measuring" /\ exit' = exit /\ cur' = t /\ t \in todo
        /\ UNCHANGED <<seen, session, selected, val, artifacts, index>>
        /\ todo' \subseteq todo
    BY <1>6 DEF ExecuteTarget, NextTarget, report, files, ghosts
  <2>2. SeenInv'
    <3>1. t \notin seen
      BY <1>0, <2>1 DEF SeenInv
    <3>2. QED
      BY <1>0, <2>1, <3>1, SeenKept
  <2>3. QED
    BY <1>0, <2>1, <2>2, GoesOn DEF ClosedInv, GoneInv
<1>7. CASE EmitFirst \/ \E ok, valid \in BOOLEAN : EmitLast(ok, valid)
  <2>1. /\ pc \in Measuring /\ pc' \in Measuring /\ exit' = exit /\ cur' = cur
        /\ UNCHANGED <<seen, session, selected, val, index, todo>>
        /\ \E b : artifacts' = [artifacts EXCEPT ![cur] = b]
    BY <1>7 DEF EmitFirst, EmitLast, Emitted, report, work, ghosts, Measuring
  <2>2. cur \notin seen /\ cur \in Targets /\ seen \subseteq Targets
    BY <1>0, <2>1 DEF SeenInv, TypeOK, Measuring
  <2>3. \A t \in seen : artifacts'[t] = artifacts[t]
    BY <1>0, <2>1, <2>2 DEF TypeOK
  <2>4. SeenInv'
    BY <1>0, <2>1, <2>2, <2>3, SeenKept DEF Measuring
  <2>5. QED
    BY <1>0, <2>1, <2>4, GoesOn DEF ClosedInv, GoneInv, Measuring
<1>8. CASE Validate
  <2>1. /\ pc = "validating" /\ pc' \in {"attesting", "indexing"}
        /\ exit' = exit /\ cur' = cur
        /\ UNCHANGED <<seen, session, selected, artifacts, index, todo>>
        /\ val' = [val EXCEPT ![cur] = artifacts[cur]]
    BY <1>8 DEF Validate, report, files, ghosts
  <2>2. cur \notin seen /\ seen \subseteq Targets
    BY <1>0 DEF SeenInv, TypeOK
  <2>3. \A t \in seen : val'[t] = val[t]
    BY <1>0, <2>1, <2>2 DEF TypeOK
  <2>4. SeenInv'
    BY <1>0, <2>1, <2>2, <2>3, SeenKept
  <2>5. QED
    BY <1>0, <2>1, <2>4, GoesOn DEF ClosedInv, GoneInv
<1>18. CASE ExecutionFails
  <2>1. /\ pc \in Measuring /\ pc' = "indexing" /\ exit' = exit /\ cur' = cur
        /\ UNCHANGED <<seen, session, selected, val, index, todo>>
        /\ artifacts' = artifacts \/ \E b : artifacts' = [artifacts EXCEPT ![cur] = b]
    BY <1>18 DEF ExecutionFails, Stopped, Torn, Emitted, report, work
  <2>2. cur \notin seen /\ cur \in Targets /\ seen \subseteq Targets
    BY <1>0, <2>1 DEF SeenInv, TypeOK, Measuring
  <2>3. \A t \in seen : artifacts'[t] = artifacts[t]
    BY <1>0, <2>1, <2>2 DEF TypeOK
  <2>4. SeenInv'
    BY <1>0, <2>1, <2>2, <2>3, SeenKept
  <2>5. QED
    BY <1>0, <2>1, <2>4, GoesOn DEF ClosedInv, GoneInv, Measuring
<1>9. CASE WriteAttestation \/ LeaveLoop
  <2>1. /\ pc # "idle" /\ pc' \in {"indexing", "closing"} /\ exit' = exit
        /\ UNCHANGED <<cur, seen, session, selected, val, artifacts, index, todo>>
    BY <1>9 DEF WriteAttestation, LeaveLoop, report, files, work, ghosts
  <2>2. SeenInv'
    <3>1. cur \notin seen
      BY <1>0 DEF SeenInv
    <3>2. QED
      BY <1>0, <2>1, <3>1, SeenKept
  <2>3. QED
    BY <1>0, <2>1, <2>2, GoesOn DEF ClosedInv, GoneInv
<1>10. CASE WriteRecord
  <2>1. /\ pc = "indexing" /\ pc' = "merging" /\ exit' = exit
        /\ UNCHANGED <<cur, seen, session, selected, val, artifacts, todo>>
    BY <1>10 DEF WriteRecord, files, work, ghosts
  <2>2. /\ index'[cur].complete = Complete(val[cur])
        /\ index'[cur].promo
              = Promotable(val[cur], session.kind, session.eligible)
        /\ \A u \in Targets : u # cur => index'[u] = index[u]
    BY <1>0, <1>10, WrittenRecord
  <2>3. RecordedNow(cur)'
    BY <1>0, <2>1, <2>2
    DEF RecordedNow, IndexedComplete, Indexed, WorkInv, Promotable, Complete
  <2>4. ASSUME NEW u \in seen PROVE RecordedNow(u)'
    <3>1. u \in Targets /\ u # cur /\ RecordedNow(u)
      BY <1>0 DEF SeenInv, TypeOK
    <3>2. QED
      BY <2>1, <2>2, <3>1
      DEF RecordedNow, IndexedComplete, Indexed, Promotable, Complete
  <2>5. SeenInv'
    BY <1>0, <2>1, <2>3, <2>4 DEF SeenInv
  <2>6. QED
    BY <1>0, <2>1, <2>5, GoesOn DEF ClosedInv, GoneInv
<1>11. CASE MergeRows
  <2>1. /\ pc = "merging" /\ pc' = "loop" /\ exit' = exit /\ cur' = None
        /\ seen' = seen \cup {cur} /\ todo' \subseteq todo
        /\ UNCHANGED <<session, selected, val, artifacts, index>>
    BY <1>11 DEF MergeRows, report, ghosts
  <2>2. \A u \in seen' : RecordedNow(u)'
    BY <1>0, <2>1
    DEF SeenInv, RecordedNow, IndexedComplete, Indexed, Promotable, Complete
  <2>3. cur \in selected /\ cur \notin todo /\ cur # None
    BY <1>0, <2>1, CampaignConstants DEF WorkInv, Recording, TypeOK
  <2>4. None \notin seen
    BY <1>0, CampaignConstants DEF SeenInv, TypeOK
  <2>5. SeenInv'
    BY <1>0, <2>1, <2>2, <2>3, <2>4 DEF SeenInv
  <2>6. QED
    BY <1>0, <2>1, <2>5, GoesOn DEF ClosedInv, GoneInv
<1>12. CASE CloseReport
  <2>1. /\ pc = "closing" /\ pc' = "publishing" /\ exit' = exit
        /\ UNCHANGED <<cur, seen, session, selected, val, artifacts, index, todo, failed>>
        /\ promoted' = (AllIndexedComplete /\ \A t \in selected : index[t].promo)
        /\ status' = FinalStatus
    BY <1>12 DEF CloseReport, files, work, ghosts
  <2>2. SeenInv'
    <3>1. cur \notin seen
      BY <1>0 DEF SeenInv
    <3>2. QED
      BY <1>0, <2>1, <3>1, SeenKept
  <2>3. ClosedInv'
    BY <2>1 DEF ClosedInv, FinalStatus, AllIndexedComplete, IndexedComplete, Indexed
  <2>4. QED
    BY <1>0, <2>1, <2>2, <2>3, GoesOn DEF GoneInv
<1>13. CASE PublishRows
  <2>1. /\ pc = "publishing" /\ pc' = "idle" /\ seen' = {} /\ cur' = None
        /\ session \in Sessions
        /\ exit' = [code |-> ExitCode, seen |-> seen, eligible |-> session.eligible]
        /\ csv' = [t \in Targets |->
                      IF t \in seen THEN RowsOf(val[t], session.eligible)
                      ELSE IF session.resume THEN csv[t] ELSE None]
        /\ UNCHANGED <<report, artifacts, attest, refused>>
    BY <1>0, <1>13 DEF PublishRows, EndSession, Work, TypeOK
  <2>2. refused = None /\ header # None /\ session.kind = header.kind
    BY <1>0, <2>1 DEF RefusedInv, SessionInv
  <2>3. ExitZeroRevalidates'
    <3> SUFFICES ASSUME ExitCode = "0", seen = selected,
                        session.eligible = header.eligible
                 PROVE  ValidateRun(selected)' = 0
      BY <2>1 DEF ExitZeroRevalidates, report
    <3>1. /\ ~failed /\ AllIndexedComplete
          /\ session.kind = "final" => promoted
      BY <1>0, <2>1 DEF ExitCode, ClosedInv
    <3>2. status = "complete"
      BY <1>0, <2>1, <3>1 DEF ClosedInv, FinalStatus
    <3>3. ASSUME NEW t \in selected
          PROVE  /\ TargetRevalidates(t)'
                 /\ index[t].promo
                       = Promotable(artifacts[t], header.kind, header.eligible)
      <4>1. /\ t \in Targets /\ t \in seen /\ IndexedComplete(t)
            /\ EvidenceAt(t) /\ RecordedNow(t)
        BY <1>0, <3>1 DEF AllIndexedComplete, TypeOK, SeenInv, EvidenceInv
      <4>2. /\ Complete(artifacts[t])
            /\ attest[t] = Attestation(artifacts[t], header.origin)
            /\ index[t].art = artifacts[t] /\ index[t].seal = attest[t]
            /\ val[t] = artifacts[t]
            /\ index[t].promo
                  = Promotable(artifacts[t], header.kind, header.eligible)
        BY <2>2, <4>1 DEF EvidenceAt, RecordedNow
      <4>3. csv'[t] = RowsOf(artifacts[t], header.eligible)
        BY <2>1, <4>1, <4>2
      <4>4. QED
        BY <2>1, <4>1, <4>2, <4>3
        DEF TargetRevalidates, report, Complete, Attestation, Indexed,
            IndexedComplete, Promotable, RowsOf
    <3>4. promoted = (\A t \in selected :
                        Promotable(artifacts[t], header.kind, header.eligible))
      BY <1>0, <2>1, <3>1, <3>3 DEF ClosedInv
    <3>5. header.kind = "final" =>
             \A t \in selected :
                Promotable(artifacts[t], header.kind, header.eligible)
      BY <2>2, <3>1, <3>4
    <3>6. QED
      <4>1. UNCHANGED <<header, status, selected, promoted, artifacts>>
        BY <2>1 DEF report
      <4> DEFINE promotable == \A t \in selected :
                        Promotable(artifacts[t], header.kind, header.eligible)
      <4>2. promotable' = promotable
        BY <4>1 DEF Promotable, Complete
      <4>3. ~ \/ header' = None
              \/ ~(selected' \subseteq selected')
              \/ \E t \in selected' : ~TargetRevalidates(t)'
              \/ status' # "complete"
              \/ promoted' # promotable'
        BY <2>2, <3>2, <3>3, <3>4, <4>1, <4>2
      <4>4. ~(header'.kind = "final" /\ ~promotable')
        BY <3>5, <4>1, <4>2
      <4>5. QED
        BY <4>3, <4>4 DEF ValidateRun
  <2>4. SeenInv' /\ ClosedInv' /\ GoneInv'
    BY <2>1, <2>2 DEF SeenInv, ClosedInv, GoneInv, report
  <2>5. QED
    BY <1>0, <2>3, <2>4 DEF ExitInv
<1>14. CASE Interrupt \/ Kill \/ KillTearing
  BY <1>0, <1>14, Ends DEF Interrupt, Kill, KillTearing
<1>15. CASE ClearTarget
  <2>1. /\ pc = "idle" /\ pc' = "idle" /\ refused # None /\ seen' = seen
        /\ cur' = cur /\ exit' = exit /\ todo' = todo
        /\ UNCHANGED <<session, selected, val, index>>
        /\ artifacts' = [artifacts EXCEPT ![refused] = None]
    BY <1>15 DEF ClearTarget, report, work
  <2>2. ~IndexedComplete(refused) /\ refused \in Targets /\ exit.code # "0"
    BY <1>0, <2>1 DEF RefusedInv, GoneInv, TypeOK
  <2>3. ASSUME NEW t \in seen PROVE RecordedNow(t)'
    <3>1. t \in Targets /\ RecordedNow(t)
      BY <1>0 DEF SeenInv, TypeOK
    <3>2. CASE t = refused
      BY <2>1, <2>2, <3>2 DEF RecordedNow, IndexedComplete, Indexed
    <3>3. CASE t # refused
      BY <1>0, <2>1, <3>1, <3>3
      DEF TypeOK, RecordedNow, IndexedComplete, Indexed, Promotable, Complete
    <3>4. QED
      BY <3>2, <3>3
  <2>4. SeenInv'
    BY <1>0, <2>1, <2>3 DEF SeenInv
  <2>5. QED
    BY <1>0, <2>1, <2>2, <2>4 DEF ExitInv, ClosedInv, GoneInv, ExitZeroRevalidates
<1>16. CASE UNCHANGED vars
  <2>1. /\ UNCHANGED <<header, status, selected, promoted, index>>
        /\ UNCHANGED <<artifacts, attest, csv, pc, session>>
        /\ UNCHANGED <<todo, cur, val, seen, failed, exit, refused>>
    BY <1>16 DEF vars, report, files, work, ghosts
  <2>2. SeenInv' /\ ClosedInv' /\ GoneInv'
    BY <1>0, <2>1
    DEF SeenInv, ClosedInv, GoneInv, RecordedNow, IndexedComplete, Indexed,
        Promotable, Complete, FinalStatus, AllIndexedComplete
  <2>3. ExitZeroRevalidates'
    BY <2>1
    DEF ExitInv, ExitZeroRevalidates, ValidateRun, TargetRevalidates, Promotable,
        Complete, Attestation, Indexed, RowsOf
  <2>4. QED
    BY <1>0, <2>2, <2>3 DEF ExitInv
<1>17. QED
  BY <1>1, <1>2, <1>4, <1>5, <1>6, <1>7, <1>8, <1>9, <1>10, <1>11, <1>12,
     <1>13, <1>14, <1>15, <1>16, <1>18, NextCases

\* A session that visited every selected target on a host as eligible as the
\* one of the report and exits 0 leaves a campaign that --validate-run accepts.
THEOREM ExitZeroAlways == Spec => []ExitZeroRevalidates
<1>1. Init => SeenInv /\ ClosedInv /\ GoneInv /\ ExitZeroRevalidates
  BY DEF Init, SeenInv, ClosedInv, GoneInv, ExitZeroRevalidates
<1>2. Init /\ IInv => ExitInv
  BY <1>1 DEF ExitInv
<1>3. ExitInv /\ IInv' /\ [Next]_vars => ExitInv'
  BY ExitStep
<1>4. ExitInv => ExitZeroRevalidates
  BY DEF ExitInv
<1>5. QED
  BY <1>2, <1>3, <1>4, Inductive, PTL DEF Spec

=============================================================================
