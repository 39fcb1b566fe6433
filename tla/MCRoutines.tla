----------------------------- MODULE MCRoutines -----------------------------
(* Small instances of the routines, for TLC.                                 *)
EXTENDS Routines

\* ML-DSA-44, -65 and -87: w1 (768, 768 and 1024 bytes) overwrites the
\* challenge and reaches into the second region of z.  Few attempts each.
MCSignParams ==
    {[l |-> 4, k |-> 4, w1 |-> 2, limit |-> 6],
     [l |-> 5, k |-> 6, w1 |-> 2, limit |-> 5],
     [l |-> 7, k |-> 8, w1 |-> 2, limit |-> 3]}

Kind(eta, lanes, block, first, carry) ==
    [eta |-> eta, lanes |-> lanes, block |-> block, first |-> first, carry |-> carry]

\* The scalar samplers with a block that three does and does not divide, and
\* the four-way ones with two lanes.
MCSampleKinds ==
    {Kind(FALSE, 1, 4, 2, TRUE), Kind(FALSE, 1, 5, 1, TRUE), Kind(TRUE, 1, 2, 1, FALSE),
     Kind(FALSE, 2, 6, 1, FALSE), Kind(TRUE, 2, 1, 2, FALSE)}

\* A little more than -Q .. Q, and the ends of int16_t.
MCKyberInputs == (-3400 .. 3400) \cup (-32768 .. -32700) \cup (32700 .. 32767)

\* Of w, of c * s2 and of c * t0: the bounds and their neighbours.
MCMldsaInputs ==
    LET edges == {-197, -196, -79, -78, -77, -2, -1, 0, 1, 2, 77, 78, 79, 156, 196, 197}
        w(p) == {j * p.gamma2 + e : j \in 0 .. (Mldsa!Q - 1) \div p.gamma2, e \in edges}
        cs2(p) == {0, 1, -1, p.beta, -p.beta}
        ct0(p) == UNION {{x, -x} : x \in {0, 1, p.beta, p.gamma2 - p.beta, p.gamma2 - 1, p.gamma2}}
    IN  UNION {[p : {p}, w : w(p) \cap (0 .. Mldsa!Q - 1), cs2 : cs2(p), ct0 : ct0(p)] : p \in Mldsa!Params}

\* Calibrations whose thresholds fall on the trailing zero, among the
\* differences of the analysis, and above them.
MCCalibrations == {<<5>>, <<0, 5>>, <<5, 2>>, <<5, 5>>}

MCRates == 1 .. 4
MCWord == 2^16
MCWhich == <<7, 50, 90>>
MCCycles == {-1, 0, 3}
MCScores == {0, 10, 11}
=============================================================================
