------------------------------ MODULE Sampler ------------------------------
(* Rejection sampling of polynomials from an output stream, in the ML-DSA    *)
(* examples: the scalar samplers of pqc_mldsa44/clean/poly.c, which carry    *)
(* the bytes of an unfinished group over to the next block, and the four-way *)
(* ones of mldsa_native (poly.c, poly_kl.c), which do not and go on until    *)
(* every lane is full.                                                       *)
(*                                                                           *)
(* A byte is its position in its stream.  What is offered as a coefficient   *)
(* is a candidate: three bytes (uniform), or a byte and which of its nibbles *)
(* (eta).  Whether a candidate is below the limit is arbitrary.              *)
EXTENDS Integers, Sequences, FiniteSets

CONSTANTS Kinds,        \* records [eta, lanes, block, first, carry]
          N,            \* coefficients of a polynomial
          MaxBlocks     \* bound: blocks squeezed

\* Assumed of the parameters.
SamplerAssumption ==
    /\ Kinds \subseteq [eta : BOOLEAN, lanes : Nat \ {0}, block : Nat \ {0},
                        first : Nat \ {0}, carry : BOOLEAN]
    /\ N \in Nat \ {0} /\ MaxBlocks \in Nat
    /\ \A x \in Kinds : ~x.eta /\ ~x.carry => x.block % 3 = 0   \* 168 is, so is buflen
    /\ \A x \in Kinds : x.eta => ~x.carry                       \* a byte is used up

VARIABLES args,     \* a record of Kinds
          locals,   \* [blocks, buf, lane, pos, offered]: blocks squeezed, the buffer, the lane
                    \* that reads it (0: none) and where (in nibbles for eta), and for each
                    \* lane the candidates with their outcome, in order
          out       \* the coefficients of each lane

vars == <<args, locals, out>>

Lanes == 1 .. args.lanes

\* What is carried over if the next block starts with a fresh group.
NoLeftover(buf) == <<>>

\* off = buflen % 3: the bytes of buf that no group has used.
Leftover(buf) ==
    LET off == Len(buf) % 3 IN
    IF args.carry THEN [i \in 1 .. off |-> buf[(Len(buf) - off) + i]] ELSE <<>>

Full == \A j \in Lanes : Len(out[j]) = N

\* Whether the buffer holds another candidate.
Remaining == IF args.eta THEN locals.pos < 2 * Len(locals.buf) ELSE locals.pos + 3 <= Len(locals.buf)

\* The second nibble of a byte taken without asking whether there is room.
MoreEager == (Len(out[locals.lane]) < N \/ (args.eta /\ locals.pos % 2 = 1)) /\ Remaining

\* The loop conditions of rej_uniform and rej_eta.
More == Len(out[locals.lane]) < N /\ Remaining

Candidate ==
    LET buf == locals.buf
        pos == locals.pos
    IN  IF args.eta THEN <<buf[pos \div 2 + 1], pos % 2>>
        ELSE <<buf[pos + 1], buf[pos + 2], buf[pos + 3]>>

Init ==
    /\ args \in Kinds
    /\ locals = [blocks |-> 0, buf |-> <<>>, lane |-> 0, pos |-> 0, offered |-> [j \in Lanes |-> <<>>]]
    /\ out = [j \in Lanes |-> <<>>]

\* squeezeblocks of `first` blocks, then of one at a time until all are full.
Refill ==
    /\ locals.lane = 0 /\ ~Full
    /\ LET n == IF locals.blocks = 0 THEN args.first ELSE 1
           start == locals.blocks * args.block
       IN  /\ locals.blocks + n <= MaxBlocks
           /\ locals' = [locals EXCEPT !.blocks = @ + n, !.lane = 1, !.pos = 0,
                  !.buf = Leftover(@) \o [i \in 1 .. n * args.block |-> start + i - 1]]
    /\ UNCHANGED <<args, out>>

\* One candidate in rej_uniform or rej_eta.
Reject(ok) ==
    /\ locals.lane # 0 /\ More
    /\ locals' = [locals EXCEPT !.pos = IF args.eta THEN @ + 1 ELSE @ + 3,
                                !.offered[locals.lane] = Append(@, [what |-> Candidate, ok |-> ok])]
    /\ out' = IF ok THEN [out EXCEPT ![locals.lane] = Append(@, Candidate)] ELSE out
    /\ UNCHANGED args

\* rej_uniform or rej_eta returns, and is called for the next lane.
NextLane ==
    /\ locals.lane # 0 /\ ~More
    /\ locals' = [locals EXCEPT !.pos = 0, !.lane = IF @ = args.lanes THEN 0 ELSE @ + 1]
    /\ UNCHANGED <<args, out>>

Next == Refill \/ (\E ok \in BOOLEAN : Reject(ok)) \/ NextLane

Spec == Init /\ [][Next]_vars

-----------------------------------------------------------------------------
\* Candidate number i of a stream that is read from its start without a gap.
InOrder(i) ==
    IF args.eta THEN <<(i - 1) \div 2, (i - 1) % 2>>
    ELSE <<3 * i - 3, 3 * i - 2, 3 * i - 1>>

TypeOK ==
    /\ args \in Kinds /\ locals.blocks \in 0 .. MaxBlocks /\ locals.lane \in 0 .. args.lanes
    /\ DOMAIN out = Lanes /\ \A j \in Lanes : Len(out[j]) \in 0 .. N

\* Whatever the block size, the first squeeze and the other lanes do, a
\* polynomial is the first acceptable candidates of its own stream, in their
\* order: none is skipped at a block boundary, read twice or stored twice.
FirstAcceptedWin ==
    \A j \in Lanes :
        LET offered == locals.offered[j]
            good == {i \in DOMAIN offered : offered[i].ok}
        IN  /\ \A i \in DOMAIN offered : offered[i].what = InOrder(i)
            /\ Len(out[j]) = Cardinality(good)
            /\ \A i \in good : out[j][Cardinality({k \in good : k <= i})] = InOrder(i)
=============================================================================
