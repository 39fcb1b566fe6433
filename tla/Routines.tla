------------------------------ MODULE Routines ------------------------------
(* The routines written in C: those of the example corpus, and the official  *)
(* dudect backend.  A behaviour picks one of them and runs it; no two of     *)
(* them share state.                                                         *)
EXTENDS Integers, Sequences, FiniteSets

CONSTANTS Rates, MaxIn, MaxOut, Suffix, Final,                      \* Sponge
          SignParams, Word, Irrelevant,                             \* MldsaSign
          SampleKinds, SampleSize, MaxBlocks,                       \* Sampler
          ChallengeSize, Tau, ChallengeRate, SignBytes, MaxBytes,   \* Challenge
          HintRows, RowSize, Omega,                                 \* HintCodec
          KyberInputs,                                              \* KyberRounding
          MldsaInputs,                                              \* MldsaRounding
          Discard, Enough, Which, Cycles, Calibrations, MaxRows,    \* OfficialDudect
          Scores, NaN

VARIABLES routine, args, locals, out

vars == <<routine, args, locals, out>>

Sponge == INSTANCE Sponge
Sign   == INSTANCE MldsaSign WITH Params <- SignParams
Sample == INSTANCE Sampler WITH Kinds <- SampleKinds, N <- SampleSize
Chal   == INSTANCE Challenge WITH N <- ChallengeSize, Rate <- ChallengeRate
Codec  == INSTANCE HintCodec WITH K <- HintRows, N <- RowSize
Kyber  == INSTANCE KyberRounding WITH Inputs <- KyberInputs
Mldsa  == INSTANCE MldsaRounding WITH Inputs <- MldsaInputs
Dudect == INSTANCE OfficialDudect

ASSUME RoutinesAssumption ==
    /\ Sponge!SpongeAssumption /\ Sign!SignAssumption /\ Sample!SamplerAssumption
    /\ Chal!ChallengeAssumption /\ Codec!HintAssumption /\ Kyber!KyberAssumption
    /\ Mldsa!RoundingAssumption /\ Dudect!DudectAssumption

-----------------------------------------------------------------------------
Init ==
    \/ routine = "sponge" /\ Sponge!Init
    \/ routine = "sign" /\ Sign!Init
    \/ routine = "sample" /\ Sample!Init
    \/ routine = "challenge" /\ Chal!Init
    \/ routine = "hints" /\ Codec!Init
    \/ routine = "kyber rounding" /\ Kyber!Init
    \/ routine = "mldsa rounding" /\ Mldsa!Init
    \/ routine = "dudect" /\ Dudect!Init

SignNext == routine = "sign" /\ Sign!Next /\ UNCHANGED routine

Next ==
    \/ routine = "sponge" /\ Sponge!Next /\ UNCHANGED routine
    \/ SignNext
    \/ routine = "sample" /\ Sample!Next /\ UNCHANGED routine
    \/ routine = "challenge" /\ Chal!Next /\ UNCHANGED routine
    \/ routine = "hints" /\ Codec!Next /\ UNCHANGED routine
    \/ routine = "kyber rounding" /\ Kyber!Next /\ UNCHANGED routine
    \/ routine = "mldsa rounding" /\ Mldsa!Next /\ UNCHANGED routine
    \/ routine = "dudect" /\ Dudect!Next /\ UNCHANGED routine

Fairness == WF_vars(SignNext)      \* signing: one thread, nothing to wait for
Spec == Init /\ [][Next]_vars /\ Fairness

-----------------------------------------------------------------------------
\* The type invariant of whichever routine is running.
TypeOK ==
    CASE routine = "sponge" -> Sponge!TypeOK
      [] routine = "sign" -> Sign!TypeOK
      [] routine = "sample" -> Sample!TypeOK
      [] routine = "challenge" -> Chal!TypeOK
      [] routine = "hints" -> Codec!TypeOK
      [] routine = "kyber rounding" -> Kyber!TypeOK
      [] routine = "mldsa rounding" -> Mldsa!TypeOK
      [] routine = "dudect" -> Dudect!TypeOK

\* fips202.c: the incremental sponge agrees with the one-shot one.
ChunksDoNotMatter == routine = "sponge" => Sponge!ChunksDoNotMatter

\* sign.c: no two sampled polynomials share a nonce, across attempts.
NoncesNeverReused == routine = "sign" => Sign!NoncesNeverReused

\* sign.c: a signature that is returned is the work of one attempt.
SuccessIsOneAttempt == routine = "sign" => Sign!SuccessIsOneAttempt

\* sign.c: an error returns nothing of an attempt to the caller.
FailureLeavesNothing == routine = "sign" => Sign!FailureLeavesNothing

\* sign.c: signing returns, however often it rejects.
Terminates == <>(routine = "sign" => Sign!Returned)

\* poly.c, poly_kl.c: the sampler skips, repeats and overruns nothing.
FirstAcceptedWin == routine = "sample" => Sample!FirstAcceptedWin

\* poly_challenge: the shuffle loses no sign.
EverySignStands == routine = "challenge" => Chal!EverySignStands

\* poly_challenge: its stream is read once, in order.
BytesReadOnce == routine = "challenge" => Chal!BytesReadOnce

\* packing.c: hints survive packing and unpacking.
PackedDecodes == routine = "hints" => Codec!PackedDecodes

\* packing.c: the hint section of a signature is not malleable.
AcceptedIsCanonical == routine = "hints" => Codec!AcceptedIsCanonical

\* poly.c and polyvec.c: multiplication and division round alike.
PatchKeepsTheValue == routine = "kyber rounding" => Kyber!PatchKeepsTheValue

\* poly.c and polyvec.c: what is compressed comes back near where it was.
ExpandedIsNear == routine = "kyber rounding" => Kyber!ExpandedIsNear

\* rounding.c: the verifier finds the signer's high part.
HintRecovers == routine = "mldsa rounding" => Mldsa!HintRecovers

\* official_dudect_adapter.c: the status agrees with the tests under it.
StatusMatchesTests == routine = "dudect" => Dudect!StatusMatchesTests
=============================================================================
