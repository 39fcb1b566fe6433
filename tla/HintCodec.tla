----------------------------- MODULE HintCodec -----------------------------
(* The hint section of an ML-DSA signature in examples/mldsa_native          *)
(* (mldsa/src/packing.c): mld_pack_sig_h, and mld_sig_unpack_hints as the    *)
(* verifier calls it, one row after the other until one is refused.          *)
EXTENDS Integers, FiniteSets

CONSTANTS K, N,     \* rows; coefficients of a row, and values of a byte (256)
          Omega     \* MLDSA_OMEGA: hints that fit

\* Assumed of the parameters.
HintAssumption == K \in Nat \ {0} /\ N \in Nat \ {0} /\ Omega \in 0 .. N - 1

VARIABLES args,     \* [pack, hints]: whether hints are packed first, and which
          locals,   \* [pc, row, j, n]: j the coefficient or the byte the loop is at,
                    \* n the hints packed so far
          out       \* [ret, bytes, hints]

vars == <<args, locals, out>>

Rows == 0 .. K - 1
NoHints == [i \in Rows |-> {}]
Bytes == [0 .. Omega + K - 1 -> 0 .. N - 1]
Hints == [Rows -> SUBSET (0 .. N - 1)]

\* The number of hints in the rows before i and up to i, as received.
OldCount(bytes, i) == IF i = 0 THEN 0 ELSE bytes[Omega + i - 1]
NewCount(bytes, i) == bytes[Omega + i]

\* Positions may repeat.
AscendsOrRepeats(bytes, i, j) == j > OldCount(bytes, i) => bytes[j - 1] <= bytes[j]

\* The check on byte j of row i.
Ascends(bytes, i, j) == j > OldCount(bytes, i) => bytes[j - 1] < bytes[j]

Refuse ==
    /\ locals' = [locals EXCEPT !.pc = "done"]
    /\ out' = [out EXCEPT !.ret = "FAIL"]

-----------------------------------------------------------------------------
Init ==
    \/ \E h \in Hints :
        /\ args = [pack |-> TRUE, hints |-> h]
        /\ locals = [pc |-> "pack", row |-> 0, j |-> 0, n |-> 0]
        /\ out = [ret |-> "none", bytes |-> [b \in 0 .. Omega + K - 1 |-> 0], hints |-> NoHints]
    \/ \E bytes \in Bytes :
        /\ args = [pack |-> FALSE, hints |-> NoHints]
        /\ locals = [pc |-> "row", row |-> 0, j |-> 0, n |-> 0]
        /\ out = [ret |-> "none", bytes |-> bytes, hints |-> NoHints]

AtCoefficient == locals.pc = "pack" /\ locals.j < N
Hinted == locals.j \in args.hints[locals.row]

\* The signer's loop over the coefficients of a row: no hint at this one,
PackNothing ==
    /\ AtCoefficient /\ ~Hinted
    /\ locals' = [locals EXCEPT !.j = @ + 1]
    /\ UNCHANGED <<args, out>>

\* a hint that fits,
PackHint ==
    /\ AtCoefficient /\ Hinted /\ locals.n # Omega
    /\ locals' = [locals EXCEPT !.j = @ + 1, !.n = @ + 1]
    /\ out' = [out EXCEPT !.bytes[locals.n] = locals.j]
    /\ UNCHANGED args

\* and MLD_ERR_FAIL at the first that does not.
PackRefuses ==
    /\ AtCoefficient /\ Hinted /\ locals.n = Omega
    /\ Refuse
    /\ UNCHANGED args

\* A tally of each row alone.
PackTallyAlone ==
    /\ locals.pc = "pack" /\ locals.j = N
    /\ out' = [out EXCEPT !.bytes[Omega + locals.row] = locals.n]
    /\ locals' = IF locals.row = K - 1 THEN [locals EXCEPT !.pc = "row", !.row = 0, !.j = 0, !.n = 0]
                 ELSE [locals EXCEPT !.row = @ + 1, !.j = 0, !.n = 0]
    /\ UNCHANGED args

\* The running tally behind a row; behind the last one the verifier begins.
PackTally ==
    /\ locals.pc = "pack" /\ locals.j = N
    /\ out' = [out EXCEPT !.bytes[Omega + locals.row] = locals.n]
    /\ locals' = IF locals.row = K - 1 THEN [locals EXCEPT !.pc = "row", !.row = 0, !.j = 0]
                 ELSE [locals EXCEPT !.row = @ + 1, !.j = 0]
    /\ UNCHANGED args

\* mld_sig_unpack_hints on the next row: the tallies, and the row zeroed,
UnpackRow ==
    /\ locals.pc = "row"
    /\ LET old == OldCount(out.bytes, locals.row)
           new == NewCount(out.bytes, locals.row)
       IN  \/ /\ old <= new /\ new <= Omega
              /\ locals' = [locals EXCEPT !.pc = "bytes", !.j = old]
              /\ out' = [out EXCEPT !.hints[locals.row] = {}]
           \/ ~(old <= new /\ new <= Omega) /\ Refuse
    /\ UNCHANGED args

\* its bytes,
UnpackByte ==
    /\ locals.pc = "bytes" /\ locals.j < NewCount(out.bytes, locals.row)
    /\ \/ /\ Ascends(out.bytes, locals.row, locals.j)
          /\ locals' = [locals EXCEPT !.j = @ + 1]
          /\ out' = [out EXCEPT !.hints[locals.row] = @ \cup {out.bytes[locals.j]}]
       \/ ~Ascends(out.bytes, locals.row, locals.j) /\ Refuse
    /\ UNCHANGED args

\* and its return; on the last row the slots that are left must be zero.
UnpackReturns ==
    /\ locals.pc = "bytes" /\ locals.j = NewCount(out.bytes, locals.row)
    /\ \/ /\ locals.row # K - 1
          /\ locals' = [locals EXCEPT !.pc = "row", !.row = @ + 1]
          /\ UNCHANGED out
       \/ /\ locals.row = K - 1 /\ \A b \in locals.j .. Omega - 1 : out.bytes[b] = 0
          /\ locals' = [locals EXCEPT !.pc = "done"]
          /\ out' = [out EXCEPT !.ret = "OK"]
       \/ /\ locals.row = K - 1 /\ \E b \in locals.j .. Omega - 1 : out.bytes[b] # 0
          /\ Refuse
    /\ UNCHANGED args

Next ==
    \/ PackNothing \/ PackHint \/ PackRefuses \/ PackTally
    \/ UnpackRow \/ UnpackByte \/ UnpackReturns

Spec == Init /\ [][Next]_vars

-----------------------------------------------------------------------------
TypeOK ==
    /\ locals.pc \in {"pack", "row", "bytes", "done"} /\ locals.row \in Rows
    /\ locals.j \in 0 .. N /\ locals.n \in 0 .. Omega
    /\ out.ret \in {"none", "OK", "FAIL"} /\ out.bytes \in Bytes /\ out.hints \in Hints

\* The hints before coefficient j of row i, and their number.
Earlier(r, x, i, j) == r < i \/ (r = i /\ x < j)
Before(h, i, j) == {p \in Rows \X (0 .. N - 1) : p[2] \in h[p[1]] /\ Earlier(p[1], p[2], i, j)}
Count(h, i, j) == Cardinality(Before(h, i, j))

\* The section of a set of hints: every position at the number of hints before
\* it, the running tallies, and zeros between.
IsSectionOf(bytes, h) ==
    /\ \A i \in Rows : bytes[Omega + i] = Count(h, i + 1, 0)
    /\ \A i \in Rows : \A j \in h[i] : bytes[Count(h, i, j)] = j
    /\ \A b \in Count(h, K, 0) .. Omega - 1 : bytes[b] = 0

\* Hints that fit come back as they were packed, those that do not are refused
\* by the signer.
PackedDecodes ==
    locals.pc = "done" /\ args.pack =>
        IF Count(args.hints, K, 0) <= Omega
        THEN out.ret = "OK" /\ out.hints = args.hints
        ELSE out.ret = "FAIL"

\* A section is accepted only if it is the one of the hints read from it: no
\* two byte strings stand for the same hints.
AcceptedIsCanonical ==
    locals.pc = "done" /\ out.ret = "OK" => IsSectionOf(out.bytes, out.hints)
=============================================================================
