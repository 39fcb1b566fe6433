--------------------------- MODULE MldsaRounding ---------------------------
(* Hints of ML-DSA at the real modulus (clean/rounding.c of pqc_mldsa44,     *)
(* -65 and -87): the signer splits a coefficient of w, moves the low part by *)
(* -cs2 and ct0 and keeps one hint bit; the verifier, who has only the sum,  *)
(* must find the signer's high part again.                                   *)
EXTENDS Integers

CONSTANT Inputs         \* what a behaviour starts from: [p, w, cs2, ct0]

Q == 8380417

\* The parameter sets.
ML44 == [gamma2 |-> 95232, beta |-> 78, mult |-> 11275, shift |-> 24]
ML65 == [gamma2 |-> 261888, beta |-> 196, mult |-> 1025, shift |-> 22]
ML87 == [gamma2 |-> 261888, beta |-> 120, mult |-> 1025, shift |-> 22]

Params == {ML44, ML65, ML87}

\* The number of high parts: 44 or 16.
High(p) == (Q - 1) \div (2 * p.gamma2)

\* Assumed of the parameters: w is reduced, and a coefficient of c * s2 is a sum
\* of tau coefficients of s2.
RoundingAssumption ==
    \A i \in Inputs :
        /\ i.p \in Params
        /\ i.w \in Int /\ 0 <= i.w /\ i.w < Q
        /\ i.cs2 \in Int /\ -i.p.beta <= i.cs2 /\ i.cs2 <= i.p.beta
        /\ i.ct0 \in Int

VARIABLES args,     \* [p, w, cs2, ct0]
          locals,   \* [pc, r]: what the verifier computes
          out       \* [w1, hint, ret, found]

vars == <<args, locals, out>>

\* decompose: the high part by a reciprocal, the last one wrapping to 0
\* (a1 ^= ((43 - a1) >> 31) & a1, or a1 &= 15).
HighPart(p, a) ==
    LET a1 == (((a + 127) \div 128) * p.mult + 2^(p.shift - 1)) \div 2^p.shift IN
    IF a1 = High(p) THEN 0 ELSE a1

LowPart(p, a) ==
    LET a0 == a - HighPart(p, a) * 2 * p.gamma2 IN
    IF a0 > (Q - 1) \div 2 THEN a0 - Q ELSE a0

\* Both ends treated alike.
MakeHintSymmetric(p, a0, a1) == a0 > p.gamma2 \/ a0 < -p.gamma2

MakeHint(p, a0, a1) == a0 > p.gamma2 \/ a0 < -p.gamma2 \/ (a0 = -p.gamma2 /\ a1 # 0)

UseHint(p, a, hint) ==
    LET a1 == HighPart(p, a) IN
    IF ~hint THEN a1
    ELSE (IF LowPart(p, a) > 0 THEN a1 + 1 ELSE a1 - 1) % High(p)

Abs(x) == IF x < 0 THEN -x ELSE x

Init ==
    /\ args \in Inputs
    /\ locals = [pc |-> "sign", r |-> 0]
    /\ out = [w1 |-> 0, hint |-> FALSE, ret |-> "none", found |-> 0]

\* The signer: reject, or a hint and a sum.
Sign ==
    /\ locals.pc = "sign"
    /\ LET p == args.p
           w1 == HighPart(p, args.w)
           r0 == LowPart(p, args.w) - args.cs2
       IN  IF Abs(r0) >= p.gamma2 - p.beta \/ Abs(args.ct0) >= p.gamma2
           THEN /\ out' = [out EXCEPT !.ret = "rejected"]
                /\ locals' = [locals EXCEPT !.pc = "done"]
           ELSE /\ out' = [out EXCEPT !.w1 = w1, !.hint = MakeHint(p, r0 + args.ct0, w1)]
                /\ locals' = [pc |-> "verify", r |-> (args.w - args.cs2 + args.ct0) % Q]
    /\ UNCHANGED args

Verify ==
    /\ locals.pc = "verify"
    /\ locals' = [locals EXCEPT !.pc = "done"]
    /\ out' = [out EXCEPT !.ret = "OK", !.found = UseHint(args.p, locals.r, out.hint)]
    /\ UNCHANGED args

Next == Sign \/ Verify

Spec == Init /\ [][Next]_vars

-----------------------------------------------------------------------------
TypeOK ==
    /\ locals.pc \in {"sign", "verify", "done"} /\ locals.r \in 0 .. Q - 1
    /\ out.ret \in {"none", "rejected", "OK"}
    /\ out.w1 \in 0 .. High(args.p) - 1 /\ out.found \in 0 .. High(args.p) - 1

\* With every check of the signer passed, the hint leads the verifier back to
\* the high part the challenge was computed from: at the edges of the
\* intervals, at the wrap of the last one to 0 and at the bounds of the checks.
HintRecovers == out.ret = "OK" => out.found = out.w1
=============================================================================
