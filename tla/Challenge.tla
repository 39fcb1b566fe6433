----------------------------- MODULE Challenge -----------------------------
(* poly_challenge of the ML-DSA examples: Tau signs placed among N           *)
(* coefficients by a shuffle whose positions are drawn, with rejection, from *)
(* a stream read block by block; the first bytes of the stream are the signs. *)
EXTENDS Integers, Sequences, FiniteSets

CONSTANTS N, Tau,           \* coefficients, nonzero ones
          Rate, SignBytes,  \* bytes of a block, of the signs
          MaxBytes          \* bound: bytes drawn

\* Assumed of the parameters.
ChallengeAssumption ==
    /\ N \in Nat \ {0} /\ Tau \in 1 .. N
    /\ SignBytes \in Nat /\ Rate \in Nat /\ SignBytes < Rate /\ MaxBytes \in Nat

VARIABLES args,     \* the seed: nothing the routine depends on
          locals,   \* [i, pos, block, read]: read is the list of stream bytes read as positions
          out       \* the coefficients: 0, or the number of the sign that was put there

vars == <<args, locals, out>>

Init ==
    /\ args = "seed"
    /\ locals = [i |-> N - Tau, pos |-> SignBytes, block |-> 0, read |-> <<>>]
    /\ out = [x \in 0 .. N - 1 |-> 0]

\* Squeezed one byte too late: the byte behind the buffer is read first.
RefilledLate(s) ==
    IF s.pos > Rate THEN [s EXCEPT !.block = @ + 1, !.pos = 0] ELSE s

\* A used-up buffer is squeezed again.
Refilled(s) ==
    IF s.pos >= Rate THEN [s EXCEPT !.block = @ + 1, !.pos = 0] ELSE s

\* The coefficient that was at b is lost.
PlacedOver(c, i, b) == [c EXCEPT ![b] = i - (N - Tau) + 1]

\* c[i] = c[b]; c[b] = the next sign.
Placed(c, i, b) == [[c EXCEPT ![i] = c[b]] EXCEPT ![b] = i - (N - Tau) + 1]

\* One byte of the stream: too large for i, or the position of the next sign.
Draw(b) ==
    /\ locals.i < N /\ Len(locals.read) < MaxBytes
    /\ LET s == Refilled(locals) IN
       /\ locals' = [s EXCEPT !.pos = @ + 1, !.read = Append(@, s.block * Rate + s.pos),
                              !.i = IF b > @ THEN @ ELSE @ + 1]
       /\ out' = IF b > s.i THEN out ELSE Placed(out, s.i, b)
    /\ UNCHANGED args

Next == \E b \in 0 .. N - 1 : Draw(b)     \* N = 256: every byte is a position

Spec == Init /\ [][Next]_vars

-----------------------------------------------------------------------------
TypeOK ==
    /\ locals.i \in N - Tau .. N /\ locals.pos \in 0 .. Rate
    /\ out \in [0 .. N - 1 -> 0 .. Tau]

\* After every placement each sign used so far stands at exactly one position,
\* none is lost when a later one lands on it: Tau nonzero coefficients in the end.
EverySignStands ==
    \A s \in 1 .. locals.i - (N - Tau) : Cardinality({x \in DOMAIN out : out[x] = s}) = 1

\* The bytes behind the signs are read once each and in order, across blocks.
BytesReadOnce ==
    \A k \in DOMAIN locals.read : locals.read[k] = SignBytes + k - 1
=============================================================================
