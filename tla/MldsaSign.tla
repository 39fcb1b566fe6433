----------------------------- MODULE MldsaSign -----------------------------
(* Signing in examples/mldsa_native (mldsa/src/sign.c): the randomized entry *)
(* points, the loop of attempts, and one attempt with its early exits.       *)
(*                                                                           *)
(* The caller's buffer is also the scratch space of an attempt: the packed   *)
(* w1 is written over the front of it, then each accepted z, then the        *)
(* challenge, then the hints, and every one of these may be the last thing   *)
(* written before the attempt is given up.  A region of the buffer is known  *)
(* by what wrote it and in which attempt.  Norm checks, allocations and the  *)
(* random source are arbitrary.                                              *)
EXTENDS Integers, Sequences, FiniteSets

CONSTANTS Params,       \* records [l, k, w1, limit]: w1 is how many z regions w1 spills
                        \* over, limit is MLD_CONFIG_MAX_SIGNING_ATTEMPTS
          Word,         \* 2^16: the width of a nonce
          Irrelevant    \* the nonce of a lane whose result is thrown away

UB(l) == (Word - 1 - l) \div l      \* MLD_NONCE_UB

\* Assumed of the parameters.
SignAssumption ==
    /\ Params \subseteq [l : Nat \ {0}, k : Nat \ {0}, w1 : Nat, limit : Nat \ {0}]
    /\ Word \in Nat \ {0} /\ Irrelevant \in 0 .. Word - 1
    /\ \A p \in Params : p.w1 <= p.l /\ p.limit <= UB(p.l)

VARIABLES args,     \* [api, l, k, w1, limit]
          locals,   \* [pc, row, nonce, y, attempts]
          out       \* [ret, sig, siglen] as the caller sees them

vars == <<args, locals, out>>

Apis == {"signature", "extmu", "internal"}
Caller == <<"caller">>      \* what the caller's buffer held
Zeros == <<"zero">>
Errors == {"OUT_OF_MEMORY", "RNG_FAIL", "FAIL", "ATTEMPTS_EXHAUSTED"}
Regions(l) == {<<"c">>, <<"h">>} \cup {<<"z", i>> : i \in 0 .. l - 1}
Whole(what) == [r \in Regions(args.l) |-> what]

-----------------------------------------------------------------------------
\* Eager sampling of y: the (row, nonce) pairs in the order they are written,
\* four lanes at a time where there are four.
Lanes(l, base) ==
    IF l = 7
    THEN <<<<0, base>>, <<1, base + 1>>, <<2, base + 2>>, <<3, Irrelevant>>,
           <<3, base + 3>>, <<4, base + 4>>, <<5, base + 5>>, <<6, base + 6>>>>
    ELSE [i \in 1 .. l |-> <<i - 1, base + i - 1>>]

\* The spare lane of the first batch written after the batch that owns its row.
LanesSwapped(l, nonce) ==
    LET w == Lanes(l, (l * nonce) % Word) IN
    IF l = 7 THEN SubSeq(w, 5, 8) \o SubSeq(w, 1, 4) ELSE w

\* mld_polyvecl_uniform_gamma1: base = (uint16_t)(L * nonce).
YWrites(l, nonce) == Lanes(l, (l * nonce) % Word)

\* The nonce a row of y ends up with: the one of its last write.
RowNonce(l, nonce, i) ==
    LET w == YWrites(l, nonce)
        last == CHOOSE j \in DOMAIN w :
                    w[j][1] = i /\ \A m \in j + 1 .. Len(w) : w[m][1] # i
    IN  w[last][2] % Word

YOf(l, nonce) == [i \in 0 .. l - 1 |-> RowNonce(l, nonce, i)]

-----------------------------------------------------------------------------
Init ==
    \E p \in Params, api \in Apis :
        /\ args = [api |-> api, l |-> p.l, k |-> p.k, w1 |-> p.w1, limit |-> p.limit]
        /\ locals = [pc |-> "enter", row |-> 0, nonce |-> 0, attempts |-> <<>>]
        /\ out = [ret |-> "none", siglen |-> "caller", sig |-> [r \in Regions(p.l) |-> Caller]]

Goto(pc, row) == locals' = [locals EXCEPT !.pc = pc, !.row = row]

\* The entry points before the internal function: a scratch buffer missing, no
\* randomness, and for mld_sign_signature a context that is too long.
EntryFails ==
    /\ locals.pc = "enter" /\ args.api # "internal"
    /\ \E e \in {"OUT_OF_MEMORY", "RNG_FAIL", "FAIL"} :
        /\ e = "FAIL" => args.api = "signature"
        /\ out' = [ret |-> e, siglen |-> "zero",
                   sig |-> IF args.api = "signature" THEN Whole(Zeros) ELSE out.sig]
    /\ Goto("returned", 0)
    /\ UNCHANGED args

\* mld_sign_signature_internal: its buffers, then the loop.
Enter ==
    /\ locals.pc = "enter"
    /\ \/ Goto("loop", 0) /\ UNCHANGED out
       \/ Goto("cleanup", 0) /\ out' = [out EXCEPT !.ret = "OUT_OF_MEMORY"]
    /\ UNCHANGED args

\* The head of the loop when no attempt is left.
Exhausted ==
    /\ locals.pc = "loop" /\ locals.nonce = args.limit
    /\ Goto("cleanup", 0)
    /\ out' = [out EXCEPT !.ret = "ATTEMPTS_EXHAUSTED"]
    /\ UNCHANGED args

PackW1(sig) ==
    LET front == {<<"c">>} \cup {<<"z", i>> : i \in 0 .. args.w1 - 1} IN
    [r \in DOMAIN sig |-> IF r \in front THEN <<"w1", locals.nonce>> ELSE sig[r]]

\* An attempt that goes on with the row where the last one was rejected.
AttemptResumes ==
    /\ locals.pc = "loop" /\ locals.nonce < args.limit
    /\ locals' = [locals EXCEPT !.pc = "z", !.attempts = Append(@, YOf(args.l, locals.nonce))]
    /\ out' = [out EXCEPT !.sig = PackW1(@)]
    /\ UNCHANGED args

\* mld_attempt_signature_generation up to its challenge.
Attempt ==
    /\ locals.pc = "loop" /\ locals.nonce < args.limit
    /\ locals' = [locals EXCEPT !.pc = "z", !.row = 0,
                                !.attempts = Append(@, YOf(args.l, locals.nonce))]
    /\ out' = [out EXCEPT !.sig = PackW1(@)]
    /\ UNCHANGED args

\* The result goes back to the loop, but a rejected nonce is tried again (the
\* history is dropped so that the states stay finite).
AttemptKeepsNonce(ret, sig) ==
    /\ locals' = [locals EXCEPT !.pc = IF ret = "FAIL" THEN "loop" ELSE "cleanup",
                                !.nonce = IF ret = "FAIL" THEN @ ELSE @ + 1,
                                !.attempts = <<>>]
    /\ out' = [ret |-> ret, sig |-> sig, siglen |-> IF ret = "OK" THEN "full" ELSE out.siglen]

\* The loop takes the result: success and any error but FAIL leave it.
AttemptReturns(ret, sig) ==
    /\ locals' = [locals EXCEPT !.pc = IF ret = "FAIL" THEN "loop" ELSE "cleanup", !.nonce = @ + 1]
    /\ out' = [ret |-> ret, sig |-> sig, siglen |-> IF ret = "OK" THEN "full" ELSE out.siglen]

AttemptNoMemory ==
    /\ locals.pc = "loop" /\ locals.nonce < args.limit
    /\ AttemptReturns("OUT_OF_MEMORY", out.sig)
    /\ UNCHANGED args

\* mld_compute_pack_z, one row: an accepted row is packed at once.
AcceptZ ==
    /\ locals.pc = "z" /\ locals.row < args.l
    /\ Goto(IF locals.row + 1 = args.l THEN "w" ELSE "z", (locals.row + 1) % args.l)
    /\ out' = [out EXCEPT !.sig[<<"z", locals.row>>] = <<"z", locals.nonce>>]
    /\ UNCHANGED args

\* The norm checks of w0 and of the hints, one row.
AcceptW ==
    /\ locals.pc = "w" /\ locals.row < args.k
    /\ Goto(IF locals.row + 1 = args.k THEN "pack" ELSE "w", (locals.row + 1) % args.k)
    /\ UNCHANGED <<args, out>>

Reject ==
    /\ locals.pc \in {"z", "w"}
    /\ AttemptReturns("FAIL", out.sig)
    /\ UNCHANGED args

\* mld_pack_sig_c and mld_pack_sig_h, which gives up half way when there are
\* more than OMEGA hints.
Pack ==
    /\ locals.pc = "pack"
    /\ \E ret \in {"OK", "FAIL"} :
           AttemptReturns(ret,
               [out.sig EXCEPT ![<<"c">>] = <<"c", locals.nonce>>,
                               ![<<"h">>] = <<IF ret = "OK" THEN "h" ELSE "some h", locals.nonce>>])
    /\ UNCHANGED args

\* A cleanup that trusts an attempt which broke off to have written nothing.
CleanupTrusts ==
    /\ locals.pc = "cleanup"
    /\ Goto("returned", 0)
    /\ out' = IF out.ret = "OK" THEN out
              ELSE [out EXCEPT !.siglen = "zero", !.sig = IF out.ret = "OUT_OF_MEMORY" THEN @ ELSE Whole(Zeros)]
    /\ UNCHANGED args

\* The cleanup of the internal function; what the callers do after it repeats it.
Cleanup ==
    /\ locals.pc = "cleanup"
    /\ Goto("returned", 0)
    /\ out' = IF out.ret = "OK" THEN out ELSE [out EXCEPT !.siglen = "zero", !.sig = Whole(Zeros)]
    /\ UNCHANGED args

Returned == locals.pc = "returned"

Next ==
    \/ EntryFails \/ Enter \/ Exhausted
    \/ Attempt \/ AttemptNoMemory \/ AcceptZ \/ AcceptW \/ Reject \/ Pack
    \/ Cleanup

Fairness == WF_vars(Next)       \* one thread, nothing to wait for
Spec == Init /\ [][Next]_vars /\ Fairness

-----------------------------------------------------------------------------
TypeOK ==
    /\ locals.pc \in {"enter", "loop", "z", "w", "pack", "cleanup", "returned"}
    /\ locals.nonce \in 0 .. args.limit
    /\ out.ret \in Errors \cup {"none", "OK"} /\ out.siglen \in {"caller", "zero", "full"}
    /\ DOMAIN out.sig = Regions(args.l)

\* No two polynomials of y, in one attempt or in two, are sampled with the same
\* nonce, the spare lanes and the 16-bit arithmetic included.
NoncesNeverReused ==
    \A a, b \in DOMAIN locals.attempts : \A i, j \in 0 .. args.l - 1 :
        locals.attempts[a][i] = locals.attempts[b][j] => a = b /\ i = j

\* A signature handed out is complete and every part of it is of one attempt,
\* the last one.
SuccessIsOneAttempt ==
    Returned /\ out.ret = "OK" =>
        /\ out.siglen = "full"
        /\ \A r \in Regions(args.l) : out.sig[r] = <<r[1], locals.nonce - 1>>

\* After an error the caller holds no length and nothing an attempt wrote: the
\* buffer is zero, or as it was when no attempt was made.
FailureLeavesNothing ==
    Returned /\ out.ret # "OK" =>
        /\ out.siglen = "zero"
        /\ out.sig \in {Whole(Zeros), Whole(Caller)}

\* However often an attempt is rejected, the call returns.
Terminates == <>Returned
=============================================================================
