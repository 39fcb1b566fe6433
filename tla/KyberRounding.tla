--------------------------- MODULE KyberRounding ---------------------------
(* The sites KyberSlash is about, in the ML-KEM examples: a coefficient is   *)
(* reduced (poly_reduce), rounded to d bits (poly_tomsg, poly_compress,      *)
(* polyvec_compress) and expanded again by the receiver.  The rounding is    *)
(* written twice: by a division in the overlays clean_kyberslash* and in     *)
(* kyberslash_operand_latency/*_vulnerable.c, by a reciprocal multiplication *)
(* in clean/ and in *_patched.c.  The arithmetic is the real one, at Q and   *)
(* at 32 bits, where the products wrap.                                      *)
EXTENDS Integers

CONSTANT Inputs     \* coefficients before poly_reduce

Q == 3329           \* KYBER_Q
Barrett == 20159    \* v of barrett_reduce, ((1 << 26) + Q / 2) / Q

\* The sites: poly_tomsg, and the compression to 4, 5, 10 and 11 bits.
ToMsg == [d |-> 1, add |-> 1665, mult |-> 80635, shift |-> 28, norm |-> FALSE]
To4 == [d |-> 4, add |-> 1665, mult |-> 80635, shift |-> 28, norm |-> TRUE]
To5 == [d |-> 5, add |-> 1664, mult |-> 40318, shift |-> 27, norm |-> TRUE]
To10 == [d |-> 10, add |-> 1665, mult |-> 1290167, shift |-> 32, norm |-> TRUE]
To11 == [d |-> 11, add |-> 1664, mult |-> 645084, shift |-> 31, norm |-> TRUE]

Sites == {ToMsg, To4, To5, To10, To11}

\* Assumed of the parameters: int16_t.
KyberAssumption == \A x \in Inputs : x \in Int /\ -32768 <= x /\ x <= 32767

VARIABLES args,     \* [site, x]
          locals,   \* [pc, u]: the reduced coefficient
          out       \* [patched, divided, back]

vars == <<args, locals, out>>

\* A reduction that leaves what is already within -Q .. Q.
ReducedLazily(x) ==
    IF x \in -Q .. Q THEN x ELSE x - ((Barrett * x + 2^25) \div 2^26) * Q

\* barrett_reduce.
Reduced(x) == x - ((Barrett * x + 2^25) \div 2^26) * Q

\* u += (u >> 15) & Q.
Positive(u) == IF u < 0 THEN u + Q ELSE u

\* (n * m) >> s, with m taken in three bytes so that no product leaves 32 bits.
MulShift(n, m, s) ==
    LET low == (n * (m % 256)) \div 256
        mid == (low + n * ((m \div 256) % 256)) \div 256
    IN  (mid + n * (m \div 65536)) \div 2^(s - 16)

\* Rounded down.
PatchedDown(s, u) ==
    MulShift((IF s.norm THEN Positive(u) ELSE u) * 2^s.d, s.mult, s.shift) % 2^s.d

\* The patched site.  The product is taken mod 2^32 (2^64 in polyvec); the bits
\* that survive the shift and the mask are the ones below that.
Patched(s, u) ==
    MulShift((IF s.norm THEN Positive(u) ELSE u) * 2^s.d + s.add, s.mult, s.shift) % 2^s.d

\* The overlay: (((u << d) + Q / 2) / Q) & mask.
Divided(s, u) == ((Positive(u) * 2^s.d + Q \div 2) \div Q) % 2^s.d

\* poly_frommsg, poly_decompress, polyvec_decompress.
Expanded(s, y) == (y * Q + 2^(s.d - 1)) \div 2^s.d

Init ==
    /\ \E s \in Sites, x \in Inputs : args = [site |-> s, x |-> x]
    /\ locals = [pc |-> "reduce", u |-> 0]
    /\ out = [patched |-> 0, divided |-> 0, back |-> 0]

Reduce ==
    /\ locals.pc = "reduce"
    /\ locals' = [pc |-> "round", u |-> Reduced(args.x)]
    /\ UNCHANGED <<args, out>>

Round ==
    /\ locals.pc = "round"
    /\ locals' = [locals EXCEPT !.pc = "done"]
    /\ LET y == Patched(args.site, locals.u) IN
       out' = [patched |-> y, divided |-> Divided(args.site, locals.u), back |-> Expanded(args.site, y)]
    /\ UNCHANGED args

Next == Reduce \/ Round

Spec == Init /\ [][Next]_vars

-----------------------------------------------------------------------------
TypeOK ==
    /\ args.site \in Sites /\ locals.pc \in {"reduce", "round", "done"}
    /\ locals.u \in -(Q \div 2) .. Q \div 2
    /\ \A y \in {out.patched, out.divided} : y \in 0 .. 2^args.site.d - 1

\* The patch changes the timing of a site and not its value: for every
\* coefficient the site can meet the multiplication gives what the division
\* gives, poly_tomsg included, which does not make its input positive.
PatchKeepsTheValue == locals.pc = "done" => out.patched = out.divided

\* Half of Q / 2^d, rounded.
HalfStep(s) == (Q + 2^s.d) \div 2^(s.d + 1)

\* What the receiver expands is within half a step, rounded, of the coefficient,
\* mod Q.
ExpandedIsNear ==
    locals.pc = "done" =>
        LET e == (args.x - out.back) % Q IN
        e <= HalfStep(args.site) \/ Q - e <= HalfStep(args.site)
=============================================================================
