------------------------------- MODULE Sponge -------------------------------
(* The incremental Keccak sponge of the examples (common/fips202.c), beside  *)
(* the one-shot path of the same file.                                       *)
(*                                                                           *)
(* The permutation is abstracted to what it depends on: `permuted` is the    *)
(* list of blocks XORed into the state before each permutation so far, and   *)
(* `block` what has been XORed since.  A byte of a block is the set of the   *)
(* bytes XORed there; byte k of the message is the number k.                 *)
EXTENDS Integers, Sequences

CONSTANTS Rates,            \* rates r in bytes
          MaxIn, MaxOut,    \* bounds: bytes of a message, bytes squeezed
          Suffix, Final     \* the domain byte p and the 128 of the last byte

\* Assumed of the parameters: 0x1F and 0x06 do not have the bit of 128.
SpongeAssumption ==
    /\ Rates \subseteq Nat \ {0} /\ MaxIn \in Nat /\ MaxOut \in Nat
    /\ Suffix # Final

VARIABLES args,     \* [rate]
          locals,   \* the 26 words, [permuted, block, count], and the call under way:
                    \* [pc, todo], todo the mlen or outlen that is left
          out       \* [phase, absorbed, squeezed]: what the caller did and got

vars == <<args, locals, out>>

Zero(r) == [i \in 0 .. r - 1 |-> {}]
Xor(A, B) == (A \ B) \cup (B \ A)
XorAt(block, i, byte) == [block EXCEPT ![i] = Xor(@, {byte})]

\* n bytes of the message from byte `first` on, to place `at` of the block.
XorRun(block, at, n, first) ==
    [i \in DOMAIN block |->
        IF at <= i /\ i < at + n THEN Xor(block[i], {first + i - at}) ELSE block[i]]

AtMost(n, m) == IF n < m THEN n ELSE m

\* n bytes of the state, from place `at` of the block on.
Bytes(state, at, n) == [i \in 1 .. n |-> [state |-> state, at |-> at + i - 1]]

\* keccak_inc_init.
Fresh(r) ==
    [pc |-> "idle", todo |-> 0, permuted |-> <<>>, block |-> Zero(r), count |-> 0]

\* A permutation that waits for the first byte that does not fit.
FillsLate == locals.todo + locals.count > args.rate

\* The loop condition of keccak_inc_absorb: a full block is permuted at once.
Fills == locals.todo + locals.count >= args.rate

\* keccak_inc_finalize; both bytes may be the same one.
Padded(s, r) ==
    [s EXCEPT !.block = XorAt(XorAt(@, s.count, Suffix), r - 1, Final), !.count = 0]

-----------------------------------------------------------------------------
Init ==
    \E r \in Rates :
        /\ args = [rate |-> r]
        /\ locals = Fresh(r)
        /\ out = [phase |-> "absorbing", absorbed |-> 0, squeezed |-> <<>>]

\* shake*_inc_absorb with n bytes, none included.
Absorb(n) ==
    /\ locals.pc = "idle" /\ out.phase = "absorbing" /\ out.absorbed + n <= MaxIn
    /\ locals' = [locals EXCEPT !.pc = "absorb", !.todo = n]
    /\ UNCHANGED <<args, out>>

\* Its loop: what the block has room for, and the permutation.
AbsorbBlock ==
    /\ locals.pc = "absorb" /\ Fills
    /\ LET n == args.rate - locals.count
           full == XorRun(locals.block, locals.count, n, out.absorbed)
       IN  /\ locals' = [locals EXCEPT !.todo = @ - n, !.count = 0, !.block = Zero(args.rate),
                                       !.permuted = Append(@, full)]
           /\ out' = [out EXCEPT !.absorbed = @ + n]
    /\ UNCHANGED args

\* The bytes behind the loop, and the return.
AbsorbRest ==
    /\ locals.pc = "absorb" /\ ~Fills
    /\ locals' = [locals EXCEPT !.pc = "idle", !.todo = 0, !.count = @ + locals.todo,
                    !.block = XorRun(@, locals.count, locals.todo, out.absorbed)]
    /\ out' = [out EXCEPT !.absorbed = @ + locals.todo]
    /\ UNCHANGED args

\* shake*_inc_finalize.
Finalize ==
    /\ locals.pc = "idle" /\ out.phase = "absorbing"
    /\ locals' = Padded(locals, args.rate)
    /\ out' = [out EXCEPT !.phase = "squeezing"]
    /\ UNCHANGED args

\* shake*_inc_squeeze of n bytes, none included: first those that are left.
Squeeze(n) ==
    /\ locals.pc = "idle" /\ out.phase = "squeezing" /\ Len(out.squeezed) + n <= MaxOut
    /\ LET i == AtMost(n, locals.count) IN
       /\ locals' = [locals EXCEPT !.pc = "squeeze", !.count = @ - i, !.todo = n - i]
       /\ out' = [out EXCEPT !.squeezed =
                    @ \o Bytes(locals.permuted, args.rate - locals.count, i)]
    /\ UNCHANGED args

\* Its loop: a permutation, and the bytes of one block.
SqueezeBlock ==
    /\ locals.pc = "squeeze" /\ locals.todo > 0
    /\ LET i == AtMost(locals.todo, args.rate)
           state == Append(locals.permuted, locals.block)
       IN  /\ locals' = [locals EXCEPT !.permuted = state, !.block = Zero(args.rate),
                                       !.count = args.rate - i, !.todo = @ - i]
           /\ out' = [out EXCEPT !.squeezed = @ \o Bytes(state, 0, i)]
    /\ UNCHANGED args

SqueezeReturns ==
    /\ locals.pc = "squeeze" /\ locals.todo = 0
    /\ locals' = [locals EXCEPT !.pc = "idle"]
    /\ UNCHANGED <<args, out>>

\* keccak_inc_init on the same context, for the next message.
Restart ==
    /\ locals.pc = "idle" /\ out.phase = "squeezing"
    /\ locals' = Fresh(args.rate)
    /\ out' = [phase |-> "absorbing", absorbed |-> 0, squeezed |-> <<>>]
    /\ UNCHANGED args

Next ==
    \/ \E n \in 0 .. MaxIn : Absorb(n)
    \/ AbsorbBlock \/ AbsorbRest
    \/ Finalize
    \/ \E n \in 0 .. MaxOut : Squeeze(n)
    \/ SqueezeBlock \/ SqueezeReturns
    \/ Restart

Spec == Init /\ [][Next]_vars

-----------------------------------------------------------------------------
\* keccak_absorb: the blocks of an n-byte message, the last one padded in a
\* buffer of its own; t[r - 1] |= 128 meets the domain byte where n % r = r - 1.
OneShotBlocks(n, r) ==
    [j \in 1 .. n \div r + 1 |->
        [i \in 0 .. r - 1 |->
            LET k == (j - 1) * r + i IN
            (IF k < n THEN {k} ELSE {})
                \cup (IF k = n THEN {Suffix} ELSE {})
                \cup (IF j > n \div r /\ i = r - 1 THEN {Final} ELSE {})]]

\* keccak_squeezeblocks: byte k of the output.
OneShotByte(n, k, r) ==
    [state |-> OneShotBlocks(n, r) \o [b \in 1 .. k \div r |-> Zero(r)], at |-> k % r]

TypeOK ==
    /\ args.rate \in Rates
    /\ locals.pc \in {"idle", "absorb", "squeeze"}
    /\ locals.todo \in (0 .. MaxIn) \cup (0 .. MaxOut)
    /\ locals.count \in 0 .. args.rate - 1
    /\ out.phase \in {"absorbing", "squeezing"} /\ out.absorbed \in 0 .. MaxIn
    /\ Len(out.squeezed) \in 0 .. MaxOut

\* However a message is cut into absorb calls and its output into squeeze
\* calls, empty ones and a message that ends on a block or one byte before it
\* included, the bytes are those keccak_absorb and keccak_squeezeblocks give
\* for the whole message.
ChunksDoNotMatter ==
    \A k \in 1 .. Len(out.squeezed) :
        out.squeezed[k] = OneShotByte(out.absorbed, k - 1, args.rate)
=============================================================================
