---------------------------- MODULE StreamProofs ----------------------------
(* Proofs about what reads and writes a stream of bytes: Sponge, for every   *)
(* rate, message and cut into calls; Sampler, for every kind, size and       *)
(* outcome of the tests; and Challenge, for every number of coefficients,    *)
(* signs and bytes of a block.                                               *)
EXTENDS Routines, FiniteSetTheorems, TLAPS

-----------------------------------------------------------------------------
(* Blocks of r bytes.                                                      *)

\* A block that is not the last one ends before the next begins.
LEMMA Product ==
    ASSUME NEW r \in Nat \ {0}, NEW a \in Nat, NEW b \in Nat, a < b
    PROVE  a * r + r <= b * r /\ a * r \in Nat /\ b * r \in Nat
<1>1. PICK d \in Nat : b = a + 1 + d
  <2>1. b - a - 1 \in Nat /\ b = a + 1 + (b - a - 1)
    OBVIOUS
  <2>2. QED
    BY <2>1
<1>2. b * r = a * r + r + d * r
  BY <1>1
<1>3. a * r \in Nat /\ b * r \in Nat /\ d * r \in Nat
  OBVIOUS
<1> QED
  BY <1>2, <1>3

\* Division by the length of a block finds the block and the place.
LEMMA Quotient ==
    ASSUME NEW r \in Nat \ {0}, NEW q \in Nat, NEW i \in Nat, i < r
    PROVE  (q * r + i) \div r = q /\ (q * r + i) % r = i /\ q * r + i \in Nat
<1>1. PICK x \in Nat : x = q * r + i
  OBVIOUS
<1>2. PICK p \in Nat : p = x \div r
  <2>1. x \div r \in Nat
    OBVIOUS
  <2>2. QED
    BY <2>1
<1>3. PICK j \in Nat : j = x % r
  <2>1. x % r \in Nat
    OBVIOUS
  <2>2. QED
    BY <2>1
<1>4. x = p * r + j /\ j < r
  <2>1. x = r * (x \div r) + (x % r) /\ x % r < r
    OBVIOUS
  <2>2. r * p = p * r
    OBVIOUS
  <2>3. QED
    BY <1>2, <1>3, <2>1, <2>2
<1>5. p * r \in Nat /\ q * r \in Nat
  OBVIOUS
<1>6. p = q
  <2>1. CASE p < q
    <3>1. p * r + r <= q * r
      BY <2>1, Product
    <3>2. QED
      BY <1>1, <1>4, <1>5, <3>1
  <2>2. CASE q < p
    <3>1. q * r + r <= p * r
      BY <2>2, Product
    <3>2. QED
      BY <1>1, <1>4, <1>5, <3>1
  <2>3. QED
    BY <2>1, <2>2
<1>7. j = i
  BY <1>1, <1>4, <1>5, <1>6
<1> QED
  BY <1>1, <1>2, <1>3, <1>6, <1>7

\* Squeezing or absorbing n blocks more.
LEMMA Longer ==
    ASSUME NEW a \in Nat, NEW n \in Nat, NEW b \in Nat
    PROVE  (a + n) * b = a * b + n * b /\ a * b \in Nat /\ n * b \in Nat
  OBVIOUS

\* What is joined to the end of a sequence keeps its order.
LEMMA Joined ==
    ASSUME NEW S, NEW s \in Seq(S), NEW t \in Seq(S)
    PROVE  /\ s \o t \in Seq(S) /\ Len(s \o t) = Len(s) + Len(t)
           /\ Len(s) \in Nat /\ Len(t) \in Nat
           /\ \A i \in 1 .. Len(s) : (s \o t)[i] = s[i]
           /\ \A i \in 1 .. Len(t) : (s \o t)[Len(s) + i] = t[i]
<1>1. /\ s \o t \in Seq(S) /\ Len(s \o t) = Len(s) + Len(t)
      /\ Len(s) \in Nat /\ Len(t) \in Nat
  OBVIOUS
<1>2. \A i \in 1 .. Len(s) : (s \o t)[i] = s[i]
  OBVIOUS
<1>3. ASSUME NEW i \in 1 .. Len(t) PROVE (s \o t)[Len(s) + i] = t[i]
  <2>1. Len(s) \in Nat /\ Len(t) \in Nat
    OBVIOUS
  <2>2. Len(s) + i \in 1 .. Len(s) + Len(t) /\ Len(s) + i > Len(s) /\ (Len(s) + i) - Len(s) = i
    BY <2>1
  <2>3. QED
    BY <2>1, <2>2
<1> QED
  BY <1>1, <1>2, <1>3

\* The bytes carried over are in front of the new ones.
LEMMA JoinedBytes ==
    ASSUME NEW s \in Seq(Nat), NEW t \in Seq(Nat)
    PROVE  /\ s \o t \in Seq(Nat) /\ Len(s \o t) = Len(s) + Len(t)
           /\ \A i \in 1 .. Len(s) : (s \o t)[i] = s[i]
           /\ \A i \in 1 .. Len(t) : (s \o t)[Len(s) + i] = t[i]
  BY Joined

\* n bytes are q blocks and c bytes.
Cut(n, q, c, r) == n = q * r + c /\ c < r

LEMMA QuotientOf ==
    ASSUME NEW r \in Nat \ {0}, NEW q \in Nat, NEW c \in Nat, NEW n, Cut(n, q, c, r)
    PROVE  n \div r = q /\ n % r = c /\ n \in Nat
<1>1. n = q * r + c /\ c < r
  BY DEF Cut
<1>2. (q * r + c) \div r = q /\ (q * r + c) % r = c /\ q * r + c \in Nat
  BY <1>1, Quotient
<1>3. QED
  BY <1>1, <1>2, Zenon

\* Sequences that agree at every index.
LEMMA SameSequence ==
    ASSUME NEW S, NEW s \in Seq(S), NEW t \in Seq(S), Len(s) = Len(t),
           \A i \in 1 .. Len(s) : s[i] = t[i]
    PROVE  s = t
<1>1. /\ DOMAIN s = 1 .. Len(s) /\ DOMAIN t = 1 .. Len(t)
      /\ s = [i \in DOMAIN s |-> s[i]] /\ t = [i \in DOMAIN t |-> t[i]]
  OBVIOUS
<1> QED
  BY <1>1

Symbols == Nat \cup {Suffix, Final}
Blocks(r) == [0 .. r - 1 -> SUBSET Symbols]

\* The first c bytes behind q full blocks, block j of the message, and block j of
\* everything that goes into the state: the message, its padding, and nothing
\* from then on.
Partial(q, c, r) == [i \in 0 .. r - 1 |-> IF i < c THEN {q * r + i} ELSE {}]
FullBlock(j, r) == [i \in 0 .. r - 1 |-> {(j - 1) * r + i}]
StateAfter(n, g, r) == Sponge!OneShotBlocks(n, r) \o [b \in 1 .. g |-> Sponge!Zero(r)]
Wanted(n, r, j) ==
    IF j <= n \div r + 1 THEN Sponge!OneShotBlocks(n, r)[j] ELSE Sponge!Zero(r)

\* The one-shot blocks: the full ones of the message and one more.
LEMMA OneShotIsSeq ==
    ASSUME NEW r \in Nat \ {0}, NEW n \in Nat
    PROVE  /\ Sponge!OneShotBlocks(n, r) \in Seq(Blocks(r))
           /\ Len(Sponge!OneShotBlocks(n, r)) = n \div r + 1
           /\ n \div r \in Nat
<1>1. PICK q \in Nat : q = n \div r
  <2>1. n \div r \in Nat
    OBVIOUS
  <2>2. QED
    BY <2>1
<1> DEFINE B(j) == [i \in 0 .. r - 1 |->
            LET k == (j - 1) * r + i IN
            (IF k < n THEN {k} ELSE {})
                \cup (IF k = n THEN {Suffix} ELSE {})
                \cup (IF j > n \div r /\ i = r - 1 THEN {Final} ELSE {})]
<1>2. Sponge!OneShotBlocks(n, r) = [j \in 1 .. q + 1 |-> B(j)]
  BY <1>1 DEF Sponge!OneShotBlocks
<1>3. ASSUME NEW j \in 1 .. q + 1 PROVE B(j) \in Blocks(r)
  <2>1. ASSUME NEW i \in 0 .. r - 1 PROVE (j - 1) * r + i \in Nat
    <3>1. j - 1 \in Nat
      OBVIOUS
    <3>2. (j - 1) * r \in Nat
      BY <3>1
    <3>3. QED
      BY <3>2
  <2>2. QED
    BY <2>1 DEF Blocks, Symbols
<1> HIDE DEF B
<1>4. [j \in 1 .. q + 1 |-> B(j)] \in Seq(Blocks(r)) /\ Len([j \in 1 .. q + 1 |-> B(j)]) = q + 1
  BY <1>3
<1> QED
  BY <1>1, <1>2, <1>4

\* The blocks before the last one are those of the message.
LEMMA OneShotFull ==
    ASSUME NEW r \in Nat \ {0}, NEW q \in Nat, NEW c \in Nat, NEW n, Cut(n, q, c, r),
           NEW j \in 1 .. q
    PROVE  Wanted(n, r, j) = FullBlock(j, r)
<1>1. n \in Nat /\ n \div r = q /\ n = q * r + c
  BY QuotientOf, Zenon DEF Cut
<1>2. ASSUME NEW i \in 0 .. r - 1
      PROVE  (j - 1) * r + i < n /\ (j - 1) * r + i \in Nat
  <2>1. j - 1 \in Nat /\ j - 1 < q
    OBVIOUS
  <2>2. (j - 1) * r + r <= q * r /\ (j - 1) * r \in Nat /\ q * r \in Nat
    BY <2>1, Product
  <2>3. QED
    BY <1>1, <2>2
<1>3. j <= q + 1 /\ j \in 1 .. q + 1 /\ ~(j > q)
  OBVIOUS
<1>4. Sponge!OneShotBlocks(n, r)[j] =
        [i \in 0 .. r - 1 |->
            LET k == (j - 1) * r + i IN
            (IF k < n THEN {k} ELSE {})
                \cup (IF k = n THEN {Suffix} ELSE {})
                \cup (IF j > q /\ i = r - 1 THEN {Final} ELSE {})]
  BY <1>1, <1>3 DEF Sponge!OneShotBlocks
<1>5. ASSUME NEW i \in 0 .. r - 1
      PROVE  (LET k == (j - 1) * r + i IN
              (IF k < n THEN {k} ELSE {})
                \cup (IF k = n THEN {Suffix} ELSE {})
                \cup (IF j > q /\ i = r - 1 THEN {Final} ELSE {})) = {(j - 1) * r + i}
  <2>1. PICK k \in Nat : k = (j - 1) * r + i /\ k < n
    BY <1>2
  <2>2. ~(k = n) /\ ~(j > q)
    BY <1>1, <1>3, <2>1
  <2>3. QED
    BY <2>1, <2>2
<1>6. QED
  BY <1>1, <1>3, <1>4, <1>5 DEF Wanted, FullBlock

\* The last one holds the rest of the message and the padding.
LEMMA OneShotLast ==
    ASSUME NEW r \in Nat \ {0}, NEW q \in Nat, NEW c \in Nat, NEW n, Cut(n, q, c, r)
    PROVE  Wanted(n, r, q + 1) =
             [i \in 0 .. r - 1 |->
                 (IF i < c THEN {q * r + i} ELSE {})
                     \cup (IF i = c THEN {Suffix} ELSE {})
                     \cup (IF i = r - 1 THEN {Final} ELSE {})]
<1>1. n \in Nat /\ n \div r = q /\ n = q * r + c /\ c < r
  BY QuotientOf, Zenon DEF Cut
<1>2. Sponge!OneShotBlocks(n, r)[q + 1] =
        [i \in 0 .. r - 1 |->
            LET k == ((q + 1) - 1) * r + i IN
            (IF k < n THEN {k} ELSE {})
                \cup (IF k = n THEN {Suffix} ELSE {})
                \cup (IF q + 1 > q /\ i = r - 1 THEN {Final} ELSE {})]
  <2>1. q + 1 \in 1 .. q + 1
    OBVIOUS
  <2>2. QED
    BY <1>1, <2>1 DEF Sponge!OneShotBlocks
<1>3. (q + 1) - 1 = q /\ q + 1 > q /\ q + 1 <= q + 1
  OBVIOUS
<1>4. ASSUME NEW i \in 0 .. r - 1
      PROVE  /\ (q * r + i < n <=> i < c) /\ (q * r + i = n <=> i = c)
  <2>1. PICK x \in Nat : x = q * r
    OBVIOUS
  <2>2. QED
    BY <1>1, <2>1
<1>5. ASSUME NEW i \in 0 .. r - 1
      PROVE  (LET k == ((q + 1) - 1) * r + i IN
              (IF k < n THEN {k} ELSE {})
                \cup (IF k = n THEN {Suffix} ELSE {})
                \cup (IF q + 1 > q /\ i = r - 1 THEN {Final} ELSE {}))
              = (IF i < c THEN {q * r + i} ELSE {})
                     \cup (IF i = c THEN {Suffix} ELSE {})
                     \cup (IF i = r - 1 THEN {Final} ELSE {})
  <2>1. ((q + 1) - 1) * r + i = q * r + i
    BY <1>3
  <2>2. QED
    BY <1>3, <1>4, <2>1
<1> DEFINE A(i) ==
              LET k == ((q + 1) - 1) * r + i IN
              (IF k < n THEN {k} ELSE {})
                \cup (IF k = n THEN {Suffix} ELSE {})
                \cup (IF q + 1 > q /\ i = r - 1 THEN {Final} ELSE {})
           B(i) ==
              (IF i < c THEN {q * r + i} ELSE {})
                     \cup (IF i = c THEN {Suffix} ELSE {})
                     \cup (IF i = r - 1 THEN {Final} ELSE {})
<1>6. \A i \in 0 .. r - 1 : A(i) = B(i)
  BY <1>5
<1>7. Sponge!OneShotBlocks(n, r)[q + 1] = [i \in 0 .. r - 1 |-> A(i)]
  BY <1>2
<1>8. Wanted(n, r, q + 1) = Sponge!OneShotBlocks(n, r)[q + 1]
  BY <1>1, <1>3 DEF Wanted
<1> HIDE DEF A, B
<1>9. [i \in 0 .. r - 1 |-> A(i)] = [i \in 0 .. r - 1 |-> B(i)]
  BY <1>6
<1>10. Wanted(n, r, q + 1) = [i \in 0 .. r - 1 |-> B(i)]
  BY <1>7, <1>8, <1>9
<1>11. QED
  BY <1>10 DEF B

\* A state that went through the one-shot blocks and then g times through
\* nothing.
LEMMA StateOf ==
    ASSUME NEW r \in Nat \ {0}, NEW n \in Nat, NEW g \in Nat, NEW p \in Seq(Blocks(r)),
           Len(p) = n \div r + 1 + g, \A j \in 1 .. Len(p) : p[j] = Wanted(n, r, j)
    PROVE  p = StateAfter(n, g, r)
<1> DEFINE a == Sponge!OneShotBlocks(n, r)
           z == [b \in 1 .. g |-> Sponge!Zero(r)]
<1>1. PICK m \in Nat : m = n \div r + 1
  <2>1. n \div r \in Nat
    BY OneShotIsSeq
  <2>2. n \div r + 1 \in Nat
    BY <2>1
  <2>3. QED
    BY <2>2
<1>2. a \in Seq(Blocks(r)) /\ Len(a) = m /\ Len(p) = m + g
  BY <1>1, OneShotIsSeq
<1>3. z \in Seq(Blocks(r)) /\ Len(z) = g /\ \A b \in 1 .. g : z[b] = Sponge!Zero(r)
  BY DEF Blocks, Sponge!Zero
<1>a. \A j \in 1 .. m + g : p[j] = IF j <= m THEN a[j] ELSE Sponge!Zero(r)
  BY <1>1, <1>2 DEF Wanted
<1> HIDE DEF a, z
<1>4. Len(a \o z) = m + g /\ a \o z \in Seq(Blocks(r))
  BY <1>2, <1>3
<1>5. ASSUME NEW j \in 1 .. m + g PROVE p[j] = (a \o z)[j]
  <2>0. /\ \A i \in 1 .. m : (a \o z)[i] = a[i]
        /\ \A i \in 1 .. g : (a \o z)[m + i] = z[i]
    BY <1>2, <1>3, Joined
  <2>1. CASE j <= m
    <3>1. j \in 1 .. m
      BY <2>1
    <3>2. QED
      BY <1>a, <2>0, <2>1, <3>1
  <2>2. CASE ~(j <= m)
    <3>1. j - m \in 1 .. g /\ j = m + (j - m)
      BY <2>2
    <3>2. (a \o z)[j] = z[j - m]
      BY <2>0, <3>1
    <3>3. QED
      BY <1>3, <1>a, <2>2, <3>1, <3>2
  <2>3. QED
    BY <2>1, <2>2, Zenon
<1>6. p = a \o z
  BY <1>2, <1>4, <1>5, SameSequence
<1>7. QED
  BY <1>6 DEF a, z, StateAfter

-----------------------------------------------------------------------------
(***************************************************************************)
(* The inductive invariant of the sponge: what was permuted and what       *)
(* stands in the block are the one-shot blocks of the message so far, and  *)
(* the counter says how much of the open block is used, or left.           *)
(***************************************************************************)
SpongeLocal ==
    [pc : {"idle", "absorb", "squeeze"}, todo : Nat, permuted : Seq(Blocks(args.rate)),
     block : Blocks(args.rate), count : Nat]

SpongeOut ==
    [phase : {"absorbing", "squeezing"}, absorbed : Nat,
     squeezed : Seq([state : Seq(Blocks(args.rate)), at : Nat])]

SpongeTyped ==
    /\ args \in [rate : Rates]
    /\ locals \in SpongeLocal /\ locals.count < args.rate
    /\ out \in SpongeOut

\* While absorbing, the full blocks of the message were permuted, and the rest
\* of it stands in the block.
Absorbing ==
    out.phase = "absorbing" =>
        /\ locals.pc \in {"idle", "absorb"} /\ (locals.pc = "idle" => locals.todo = 0)
        /\ out.squeezed = <<>>
        /\ out.absorbed + locals.todo <= MaxIn
        /\ out.absorbed = Len(locals.permuted) * args.rate + locals.count
        /\ \A j \in 1 .. Len(locals.permuted) : locals.permuted[j] = FullBlock(j, args.rate)
        /\ locals.block = Partial(Len(locals.permuted), locals.count, args.rate)

\* How many blocks the squeeze calls have opened.
Opened == Len(locals.permuted) - (out.absorbed \div args.rate)

\* While squeezing, the one-shot blocks and then nothing went into the state,
\* and the bytes of the blocks that were opened are with the caller or left.
Squeezing ==
    out.phase = "squeezing" =>
        /\ locals.pc \in {"idle", "squeeze"}
        /\ out.absorbed <= MaxIn
        /\ Len(out.squeezed) + locals.todo <= MaxOut
        /\ locals.todo > 0 => locals.count = 0
        /\ Opened \in Nat
        /\ Len(out.squeezed) + locals.count = Opened * args.rate
        /\ \A j \in 1 .. Len(locals.permuted) :
               locals.permuted[j] = Wanted(out.absorbed, args.rate, j)
        /\ locals.block = Wanted(out.absorbed, args.rate, Len(locals.permuted) + 1)

SpongeInv == SpongeTyped /\ Absorbing /\ Squeezing /\ Sponge!ChunksDoNotMatter

LEMMA RateTyped ==
    ASSUME SpongeTyped
    PROVE  /\ args.rate \in Nat \ {0} /\ MaxIn \in Nat /\ MaxOut \in Nat /\ Suffix # Final
           /\ args.rate \in Rates
  BY RoutinesAssumption DEF SpongeTyped, Sponge!SpongeAssumption

\* XORing a run of message bytes into what is still empty.
LEMMA RunInPlace ==
    ASSUME NEW r \in Nat \ {0}, NEW q \in Nat, NEW c \in Nat, NEW n \in Nat, c + n <= r
    PROVE  Sponge!XorRun(Partial(q, c, r), c, n, q * r + c) = Partial(q, c + n, r)
<1> DEFINE block == Partial(q, c, r)
           first == q * r + c
<1>1. PICK x \in Nat : x = q * r
  OBVIOUS
<1>2. DOMAIN block = 0 .. r - 1
  BY DEF Partial
<1>3. ASSUME NEW i \in 0 .. r - 1
      PROVE  (IF c <= i /\ i < c + n THEN Sponge!Xor(block[i], {first + i - c}) ELSE block[i])
             = (IF i < c + n THEN {q * r + i} ELSE {})
  <2>1. first + i - c = x + i
    BY <1>1
  <2>2. CASE i < c
    BY <1>1, <2>2 DEF Partial
  <2>3. CASE c <= i /\ i < c + n
    <3>1. block[i] = {}
      BY <2>3 DEF Partial
    <3>2. Sponge!Xor({}, {x + i}) = {x + i}
      BY DEF Sponge!Xor
    <3>3. QED
      BY <1>1, <2>1, <2>3, <3>1, <3>2
  <2>4. CASE i >= c + n
    BY <2>4 DEF Partial
  <2>5. QED
    BY <2>2, <2>3, <2>4
<1> QED
  BY <1>2, <1>3 DEF Sponge!XorRun, Partial

LEMMA RunTyped ==
    ASSUME NEW r \in Nat \ {0}, NEW q \in Nat, NEW c \in Nat
    PROVE  Partial(q, c, r) \in Blocks(r)
<1>1. q * r \in Nat
  OBVIOUS
<1>2. ASSUME NEW i \in 0 .. r - 1 PROVE q * r + i \in Symbols
  BY <1>1 DEF Symbols
<1> QED
  BY <1>2 DEF Blocks, Partial

\* A fresh state keeps the invariant, at the start and
LEMMA SpongeStart ==
    ASSUME NEW r \in Nat \ {0}, r \in Rates, args = [rate |-> r], locals = Sponge!Fresh(r),
           out = [phase |-> "absorbing", absorbed |-> 0, squeezed |-> <<>>],
           MaxIn \in Nat
    PROVE  SpongeInv
<1>1. /\ args.rate = r
      /\ locals = [pc |-> "idle", todo |-> 0, permuted |-> <<>>, block |-> Sponge!Zero(r), count |-> 0]
  BY DEF Sponge!Fresh
<1>2. Sponge!Zero(r) \in Blocks(r)
  BY DEF Sponge!Zero, Blocks
<1>3. SpongeTyped
  BY <1>1, <1>2 DEF SpongeTyped, SpongeLocal, SpongeOut
<1>4. Sponge!Zero(r) = Partial(0, 0, r)
  BY DEF Sponge!Zero, Partial
<1>5. Absorbing
  BY <1>1, <1>4 DEF Absorbing
<1>6. Squeezing /\ Sponge!ChunksDoNotMatter
  BY DEF Squeezing, Sponge!ChunksDoNotMatter
<1> QED
  BY <1>3, <1>5, <1>6 DEF SpongeInv

\* when a context is used again.
LEMMA SpongeFresh ==
    ASSUME NEW r \in Nat \ {0}, r \in Rates, args' = [rate |-> r], locals' = Sponge!Fresh(r),
           out' = [phase |-> "absorbing", absorbed |-> 0, squeezed |-> <<>>],
           MaxIn \in Nat
    PROVE  SpongeInv'
<1>1. /\ args'.rate = r
      /\ locals' = [pc |-> "idle", todo |-> 0, permuted |-> <<>>, block |-> Sponge!Zero(r), count |-> 0]
  BY DEF Sponge!Fresh
<1>2. Sponge!Zero(r) \in Blocks(r)
  BY DEF Sponge!Zero, Blocks
<1>3. SpongeTyped'
  BY <1>1, <1>2 DEF SpongeTyped, SpongeLocal, SpongeOut
<1>4. Sponge!Zero(r) = Partial(0, 0, r)
  BY DEF Sponge!Zero, Partial
<1>5. Absorbing'
  BY <1>1, <1>4 DEF Absorbing
<1>6. Squeezing' /\ Sponge!ChunksDoNotMatter'
  BY DEF Squeezing, Sponge!ChunksDoNotMatter
<1> QED
  BY <1>3, <1>5, <1>6 DEF SpongeInv

\* A call to absorb begins: nothing has moved yet.
LEMMA AbsorbStep ==
    ASSUME SpongeInv, NEW n \in 0 .. MaxIn, Sponge!Absorb(n)
    PROVE  SpongeInv'
<1>1. /\ locals.pc = "idle" /\ out.phase = "absorbing" /\ out.absorbed + n <= MaxIn
      /\ locals' = [locals EXCEPT !.pc = "absorb", !.todo = n]
      /\ args' = args /\ out' = out
  BY DEF Sponge!Absorb
<1>2. MaxIn \in Nat /\ n \in Nat
  <2>1. MaxIn \in Nat
    BY RateTyped DEF SpongeInv
  <2>2. QED
    BY <2>1
<1>3. /\ locals'.pc = "absorb" /\ locals'.todo = n /\ locals'.permuted = locals.permuted
      /\ locals'.block = locals.block /\ locals'.count = locals.count
      /\ locals' \in SpongeLocal
  BY <1>1, <1>2 DEF SpongeInv, SpongeTyped, SpongeLocal
<1>4. SpongeTyped'
  BY <1>1, <1>3 DEF SpongeInv, SpongeTyped, SpongeLocal, SpongeOut
<1>5. Absorbing'
  BY <1>1, <1>3 DEF SpongeInv, Absorbing
<1>6. Squeezing' /\ Sponge!ChunksDoNotMatter'
  BY <1>1 DEF SpongeInv, Squeezing, Sponge!ChunksDoNotMatter, Sponge!OneShotByte, Sponge!OneShotBlocks
<1> QED
  BY <1>4, <1>5, <1>6 DEF SpongeInv

\* A block is filled, is FullBlock of its number, and is permuted.
LEMMA AbsorbBlockStep ==
    ASSUME SpongeInv, Sponge!AbsorbBlock
    PROVE  SpongeInv'
<1> DEFINE r == args.rate
           c == locals.count
           p == locals.permuted
           full == Sponge!XorRun(locals.block, c, r - c, out.absorbed)
<1>1. /\ locals.pc = "absorb" /\ locals.todo + c >= r
      /\ locals' = [locals EXCEPT !.todo = @ - (r - c), !.count = 0, !.block = Sponge!Zero(r),
                                  !.permuted = Append(@, full)]
      /\ out' = [out EXCEPT !.absorbed = @ + (r - c)]
      /\ args' = args
  BY DEF Sponge!AbsorbBlock, Sponge!Fills
<1>2. /\ r \in Nat \ {0} /\ MaxIn \in Nat /\ c \in Nat /\ c < r
      /\ p \in Seq(Blocks(r)) /\ Len(p) \in Nat /\ locals.todo \in Nat
      /\ out.absorbed \in Nat
  BY RateTyped DEF SpongeInv, SpongeTyped, SpongeLocal, SpongeOut
<1>3. /\ out.phase = "absorbing" /\ out.squeezed = <<>>
      /\ out.absorbed + locals.todo <= MaxIn
      /\ out.absorbed = Len(p) * r + c
      /\ \A j \in 1 .. Len(p) : p[j] = FullBlock(j, r)
      /\ locals.block = Partial(Len(p), c, r)
  <2>1. out.phase = "absorbing"
    BY <1>1 DEF SpongeInv, SpongeTyped, SpongeOut, Squeezing
  <2>2. QED
    BY <2>1 DEF SpongeInv, Absorbing
<1>a. PICK q \in Nat : q = Len(p)
  BY <1>2
<1>b. PICK room \in Nat : room = r - c /\ c + room = r /\ c + room <= r
  <2>1. r - c \in Nat /\ c + (r - c) <= r /\ c + (r - c) = r
    BY <1>2
  <2>2. QED
    BY <2>1
<1>4. full = FullBlock(Len(p) + 1, r) /\ full \in Blocks(r)
  <2>1. full = Sponge!XorRun(Partial(q, c, r), c, room, q * r + c)
    BY <1>3, <1>a, <1>b
  <2> HIDE DEF full
  <2>b. Sponge!XorRun(Partial(q, c, r), c, room, q * r + c) = Partial(q, c + room, r)
    <3>1. PICK r1 \in Nat \ {0}, c1 \in Nat : r1 = r /\ c1 = c
      BY <1>2
    <3>2. c1 + room <= r1
      BY <1>b, <3>1
    <3>3. Sponge!XorRun(Partial(q, c1, r1), c1, room, q * r1 + c1) = Partial(q, c1 + room, r1)
      BY <3>2, RunInPlace
    <3>4. QED
      BY <3>1, <3>3, Zenon
  <2>a. full = Partial(q, c + room, r)
    BY <2>1, <2>b
  <2>2. full = Partial(q, r, r)
    BY <1>b, <2>a
  <2>3. \A i \in 0 .. r - 1 : i < r
    BY <1>2
  <2>4. full = [i \in 0 .. r - 1 |-> {q * r + i}]
    BY <2>2, <2>3 DEF Partial
  <2>5. (q + 1) - 1 = q
    OBVIOUS
  <2>6. full \in Blocks(r)
    BY <1>2, <2>a, <1>b, RunTyped
  <2>7. QED
    BY <1>a, <2>4, <2>5, <2>6 DEF FullBlock
<1> HIDE DEF full
<1>5. /\ locals'.pc = "absorb" /\ locals'.todo = locals.todo - (r - c) /\ locals'.count = 0
      /\ locals'.block = Sponge!Zero(r) /\ locals'.permuted = Append(p, full)
      /\ locals' = [pc |-> locals'.pc, todo |-> locals'.todo, permuted |-> locals'.permuted,
                    block |-> locals'.block, count |-> locals'.count]
      /\ out'.phase = "absorbing" /\ out'.absorbed = out.absorbed + (r - c) /\ out'.squeezed = <<>>
      /\ out' = [phase |-> out'.phase, absorbed |-> out'.absorbed, squeezed |-> out'.squeezed]
  BY <1>1, <1>3 DEF SpongeInv, SpongeTyped, SpongeLocal, SpongeOut
<1>6. /\ locals'.permuted \in Seq(Blocks(r)) /\ Len(locals'.permuted) = Len(p) + 1
      /\ \A j \in 1 .. Len(p) : locals'.permuted[j] = p[j]
      /\ locals'.permuted[Len(p) + 1] = full
  BY <1>2, <1>4, <1>5
<1>7. locals'.todo \in Nat /\ out'.absorbed \in Nat /\ out'.absorbed + locals'.todo <= MaxIn
  <2> DEFINE t == locals.todo
             n == out.absorbed
  <2>1. t \in Nat /\ n \in Nat /\ n + t <= MaxIn /\ t + c >= r
    BY <1>1, <1>2, <1>3
  <2>2. locals'.todo = t - room /\ out'.absorbed = n + room
    BY <1>5, <1>b
  <2> HIDE DEF t, n
  <2>a. t >= room
    BY <1>2, <1>b, <2>1
  <2>b. MaxIn \in Nat
    BY <1>2
  <2>3. t - room \in Nat /\ n + room \in Nat /\ (n + room) + (t - room) <= MaxIn
    BY <2>1, <2>a, <2>b
  <2>4. QED
    BY <2>2, <2>3
<1>8. Sponge!Zero(r) \in Blocks(r)
  BY DEF Sponge!Zero, Blocks
<1>9. SpongeTyped'
  <2>1. locals' \in SpongeLocal'
    BY <1>1, <1>5, <1>6, <1>7, <1>8 DEF SpongeLocal
  <2>2. out' \in SpongeOut'
    <3>1. <<>> \in Seq([state : Seq(Blocks(r)), at : Nat])
      OBVIOUS
    <3>2. QED
      BY <1>1, <1>5, <1>7, <3>1 DEF SpongeOut
  <2>3. QED
    BY <1>1, <1>2, <1>5, <2>1, <2>2 DEF SpongeInv, SpongeTyped
<1>10. Absorbing'
  <2>1. out'.absorbed = Len(locals'.permuted) * r + 0
    <3>1. (q + 1) * r = q * r + r /\ q * r \in Nat
      BY <1>2, Longer
    <3>2. PICK x \in Nat : x = q * r
      BY <3>1
    <3>3. out.absorbed = x + c
      BY <1>3, <1>a, <3>2
    <3>4. out'.absorbed = x + c + room
      BY <1>2, <1>5, <1>b, <3>3
    <3>5. out'.absorbed = (q + 1) * r
      BY <1>2, <1>b, <3>1, <3>2, <3>4
    <3>6. (q + 1) * r \in Nat
      BY <1>2, <3>1
    <3>7. QED
      BY <1>6, <1>a, <3>5, <3>6
  <2>2. ASSUME NEW j \in 1 .. Len(p) + 1 PROVE locals'.permuted[j] = FullBlock(j, r)
    <3>1. CASE j = Len(p) + 1
      BY <1>4, <1>6, <3>1
    <3>2. CASE j # Len(p) + 1
      <4>1. j \in 1 .. Len(p)
        BY <1>2, <3>2
      <4>2. QED
        BY <1>3, <1>6, <4>1
    <3>3. QED
      BY <3>1, <3>2
  <2>3. \A i \in 0 .. r - 1 : ~(i < 0)
    BY <1>2
  <2>4. locals'.block = Partial(Len(locals'.permuted), 0, r)
    BY <1>5, <2>3 DEF Sponge!Zero, Partial
  <2>5. QED
    BY <1>1, <1>5, <1>6, <1>7, <2>1, <2>2, <2>4 DEF Absorbing
<1>11. Squeezing' /\ Sponge!ChunksDoNotMatter'
  BY <1>5 DEF Squeezing, Sponge!ChunksDoNotMatter
<1> QED
  BY <1>9, <1>10, <1>11 DEF SpongeInv

\* The rest of a call stays in the block.
LEMMA AbsorbRestStep ==
    ASSUME SpongeInv, Sponge!AbsorbRest
    PROVE  SpongeInv'
<1> DEFINE r == args.rate
           c == locals.count
           n == locals.todo
           p == locals.permuted
           block == Sponge!XorRun(locals.block, c, n, out.absorbed)
<1>1. /\ locals.pc = "absorb" /\ ~(n + c >= r)
      /\ locals' = [locals EXCEPT !.pc = "idle", !.todo = 0, !.count = @ + n, !.block = block]
      /\ out' = [out EXCEPT !.absorbed = @ + n]
      /\ args' = args
  BY DEF Sponge!AbsorbRest, Sponge!Fills
<1>2. /\ r \in Nat \ {0} /\ MaxIn \in Nat /\ c \in Nat /\ c < r
      /\ p \in Seq(Blocks(r)) /\ Len(p) \in Nat /\ n \in Nat
      /\ out.absorbed \in Nat
  BY RateTyped DEF SpongeInv, SpongeTyped, SpongeLocal, SpongeOut
<1>3. /\ out.phase = "absorbing" /\ out.squeezed = <<>>
      /\ out.absorbed + n <= MaxIn
      /\ out.absorbed = Len(p) * r + c
      /\ \A j \in 1 .. Len(p) : p[j] = FullBlock(j, r)
      /\ locals.block = Partial(Len(p), c, r)
  <2>1. out.phase = "absorbing"
    BY <1>1 DEF SpongeInv, SpongeTyped, SpongeOut, Squeezing
  <2>2. QED
    BY <2>1 DEF SpongeInv, Absorbing
<1>4. /\ block = Partial(Len(p), c + n, r)
      /\ block \in Blocks(r)
  <2>1. c + n <= r /\ c + n \in Nat
    BY <1>1, <1>2
  <2>2. PICK q \in Nat : q = Len(p)
    BY <1>2
  <2>3. block = Sponge!XorRun(Partial(q, c, r), c, n, q * r + c)
    BY <1>3, <2>2
  <2> HIDE DEF block
  <2>a. Sponge!XorRun(Partial(q, c, r), c, n, q * r + c) = Partial(q, c + n, r)
    <3>1. PICK r1 \in Nat \ {0}, c1, n1 \in Nat : r1 = r /\ c1 = c /\ n1 = n
      BY <1>2
    <3>2. c1 + n1 <= r1
      BY <2>1, <3>1
    <3>3. Sponge!XorRun(Partial(q, c1, r1), c1, n1, q * r1 + c1) = Partial(q, c1 + n1, r1)
      BY <3>2, RunInPlace
    <3>4. QED
      BY <3>1, <3>3, Zenon
  <2>4. block = Partial(q, c + n, r)
    BY <2>3, <2>a
  <2>5. block \in Blocks(r)
    BY <1>2, <2>1, <2>4, RunTyped
  <2>6. QED
    BY <2>2, <2>4, <2>5
<1> HIDE DEF block
<1>5. /\ locals'.pc = "idle" /\ locals'.todo = 0 /\ locals'.count = c + n
      /\ locals'.block = block /\ locals'.permuted = p
      /\ locals' = [pc |-> locals'.pc, todo |-> locals'.todo, permuted |-> locals'.permuted,
                    block |-> locals'.block, count |-> locals'.count]
      /\ out'.phase = "absorbing" /\ out'.absorbed = out.absorbed + n /\ out'.squeezed = <<>>
      /\ out' = [phase |-> out'.phase, absorbed |-> out'.absorbed, squeezed |-> out'.squeezed]
  BY <1>1, <1>3 DEF SpongeInv, SpongeTyped, SpongeLocal, SpongeOut
<1>6. c + n \in Nat /\ c + n < r /\ out'.absorbed \in Nat /\ out'.absorbed + 0 <= MaxIn
  BY <1>1, <1>2, <1>3, <1>5
<1>7. SpongeTyped'
  <2>1. locals' \in SpongeLocal'
    BY <1>1, <1>2, <1>4, <1>5, <1>6 DEF SpongeLocal
  <2>2. out' \in SpongeOut'
    <3>1. <<>> \in Seq([state : Seq(Blocks(r)), at : Nat])
      OBVIOUS
    <3>2. QED
      BY <1>1, <1>5, <1>6, <3>1 DEF SpongeOut
  <2>3. QED
    BY <1>1, <1>5, <1>6, <2>1, <2>2 DEF SpongeInv, SpongeTyped
<1>8. out'.absorbed = Len(p) * r + (c + n)
  <2>1. PICK x \in Nat : x = Len(p) * r
    BY <1>2
  <2>2. QED
    BY <1>2, <1>3, <1>5, <2>1
<1>9. Absorbing'
  BY <1>1, <1>3, <1>4, <1>5, <1>6, <1>8 DEF Absorbing
<1>10. Squeezing' /\ Sponge!ChunksDoNotMatter'
  BY <1>5 DEF Squeezing, Sponge!ChunksDoNotMatter
<1> QED
  BY <1>7, <1>9, <1>10 DEF SpongeInv

\* The padding of the last block, where both bytes may fall on one place.
LEMMA PaddedBlock ==
    ASSUME NEW r \in Nat \ {0}, NEW q \in Nat, NEW c \in Nat, NEW n, Cut(n, q, c, r),
           Suffix # Final
    PROVE  /\ Sponge!XorAt(Sponge!XorAt(Partial(q, c, r), c, Suffix), r - 1, Final)
              = Wanted(n, r, q + 1)
           /\ Wanted(n, r, q + 1) \in Blocks(r)
<1> DEFINE a == Partial(q, c, r)
           b == Sponge!XorAt(a, c, Suffix)
           d == Sponge!XorAt(b, r - 1, Final)
           W(i) == (IF i < c THEN {q * r + i} ELSE {})
                       \cup (IF i = c THEN {Suffix} ELSE {})
                       \cup (IF i = r - 1 THEN {Final} ELSE {})
<1>0. c < r
  BY DEF Cut
<1>1. PICK x \in Nat : x = q * r
  OBVIOUS
<1>2. a = [i \in 0 .. r - 1 |-> IF i < c THEN {x + i} ELSE {}]
  BY <1>1 DEF Partial
<1>3. c \in 0 .. r - 1 /\ r - 1 \in 0 .. r - 1
  BY <1>0
<1>4. b = [a EXCEPT ![c] = Sponge!Xor(a[c], {Suffix})]
  BY DEF Sponge!XorAt
<1>5. d = [b EXCEPT ![r - 1] = Sponge!Xor(b[r - 1], {Final})]
  BY DEF Sponge!XorAt
<1> HIDE DEF a, b, d
<1>6. a[c] = {} /\ DOMAIN a = 0 .. r - 1 /\ \A i \in 0 .. r - 1 : i < c => a[i] = {x + i}
  BY <1>2, <1>3
<1>7. \A i \in 0 .. r - 1 : i > c => a[i] = {}
  BY <1>2
<1>8. b[c] = {Suffix} /\ DOMAIN b = 0 .. r - 1 /\ \A i \in 0 .. r - 1 : i # c => b[i] = a[i]
  <2>1. Sponge!Xor({}, {Suffix}) = {Suffix}
    BY DEF Sponge!Xor
  <2>2. QED
    BY <1>3, <1>4, <1>6, <2>1
<1>9. /\ DOMAIN d = 0 .. r - 1 /\ \A i \in 0 .. r - 1 : i # r - 1 => d[i] = b[i]
      /\ d[r - 1] = Sponge!Xor(b[r - 1], {Final})
      /\ d = [i \in 0 .. r - 1 |-> d[i]]
  BY <1>3, <1>5, <1>8
<1>10. ASSUME NEW i \in 0 .. r - 1 PROVE d[i] = W(i)
  <2>1. CASE i # r - 1
    <3>1. d[i] = b[i]
      BY <1>9, <2>1
    <3>2. CASE i < c
      BY <1>1, <1>6, <1>8, <2>1, <3>1, <3>2
    <3>3. CASE i = c
      BY <1>8, <2>1, <3>1, <3>3
    <3>4. CASE i > c
      BY <1>7, <1>8, <2>1, <3>1, <3>4
    <3>5. QED
      BY <3>2, <3>3, <3>4
  <2>2. CASE i = r - 1 /\ c = r - 1
    <3>1. d[i] = Sponge!Xor({Suffix}, {Final})
      BY <1>8, <1>9, <2>2
    <3>2. Sponge!Xor({Suffix}, {Final}) = {Suffix} \cup {Final}
      BY DEF Sponge!Xor
    <3>3. W(i) = {} \cup {Suffix} \cup {Final}
      BY <2>2
    <3>4. QED
      BY <3>1, <3>2, <3>3
  <2>3. CASE i = r - 1 /\ c # r - 1
    <3>1. i > c
      BY <1>0, <2>3
    <3>2. d[i] = Sponge!Xor({}, {Final})
      BY <1>7, <1>8, <1>9, <2>3, <3>1
    <3>3. Sponge!Xor({}, {Final}) = {Final}
      BY DEF Sponge!Xor
    <3>4. W(i) = {} \cup {} \cup {Final}
      BY <2>3, <3>1
    <3>5. QED
      BY <3>2, <3>3, <3>4
  <2>4. QED
    BY <2>1, <2>2, <2>3
<1>11. ASSUME NEW i \in 0 .. r - 1 PROVE W(i) \in SUBSET Symbols
  <2>1. x + i \in Nat
    OBVIOUS
  <2>2. QED
    BY <1>1, <2>1 DEF Symbols
<1> HIDE DEF W
<1>12. d = [i \in 0 .. r - 1 |-> W(i)] /\ [i \in 0 .. r - 1 |-> W(i)] \in Blocks(r)
  BY <1>9, <1>10, <1>11 DEF Blocks
<1>13. Wanted(n, r, q + 1) = [i \in 0 .. r - 1 |-> W(i)]
  <2>1. Wanted(n, r, q + 1) =
             [i \in 0 .. r - 1 |->
                 (IF i < c THEN {q * r + i} ELSE {})
                     \cup (IF i = c THEN {Suffix} ELSE {})
                     \cup (IF i = r - 1 THEN {Final} ELSE {})]
    BY OneShotLast
  <2>2. QED
    BY <2>1, Zenon DEF W
<1>14. QED
  BY <1>12, <1>13 DEF d, b, a

\* The padding makes the last one-shot block of what is left.
LEMMA FinalizeStep ==
    ASSUME SpongeInv, Sponge!Finalize
    PROVE  SpongeInv'
<1>1. /\ locals.pc = "idle" /\ out.phase = "absorbing"
      /\ locals' = Sponge!Padded(locals, args.rate)
      /\ out' = [out EXCEPT !.phase = "squeezing"]
      /\ args' = args
  BY DEF Sponge!Finalize
<1>2. PICK r \in Nat \ {0}, c \in Nat, q \in Nat :
        r = args.rate /\ c = locals.count /\ q = Len(locals.permuted) /\ c < r
  BY RateTyped DEF SpongeInv, SpongeTyped, SpongeLocal
<1>3. /\ out.absorbed = q * r + c /\ out.squeezed = <<>>
      /\ \A j \in 1 .. q : locals.permuted[j] = FullBlock(j, r)
      /\ locals.block = Partial(q, c, r)
      /\ out.absorbed + locals.todo <= MaxIn
  BY <1>1, <1>2 DEF SpongeInv, Absorbing
<1>4. Suffix # Final /\ MaxIn \in Nat /\ MaxOut \in Nat
  BY RateTyped DEF SpongeInv
<1>a. out.absorbed \in Nat /\ locals.todo \in Nat /\ locals.permuted \in Seq(Blocks(r)) /\ locals.todo = 0
  BY <1>1, <1>2 DEF SpongeInv, SpongeTyped, SpongeLocal, SpongeOut, Absorbing
<1>b. PICK n \in Nat : n = out.absorbed /\ Cut(n, q, c, r)
  BY <1>2, <1>3, <1>a DEF Cut
<1> DEFINE last == Wanted(n, r, q + 1)
<1>5. /\ Sponge!XorAt(Sponge!XorAt(locals.block, c, Suffix), r - 1, Final) = last
      /\ last \in Blocks(r)
  <2>2. /\ Sponge!XorAt(Sponge!XorAt(Partial(q, c, r), c, Suffix), r - 1, Final) = last
        /\ last \in Blocks(r)
    BY <1>4, <1>b, PaddedBlock, Zenon
  <2>3. QED
    BY <1>3, <2>2, Zenon
<1> HIDE DEF last
<1>6. /\ locals'.pc = "idle" /\ locals'.todo = 0 /\ locals'.permuted = locals.permuted
      /\ locals'.block = last /\ locals'.count = 0
      /\ locals' = [pc |-> locals'.pc, todo |-> locals'.todo, permuted |-> locals'.permuted,
                    block |-> locals'.block, count |-> locals'.count]
  BY <1>1, <1>2, <1>5, <1>a DEF SpongeInv, SpongeTyped, SpongeLocal, Sponge!Padded
<1>7. /\ out'.phase = "squeezing" /\ out'.absorbed = n /\ out'.squeezed = <<>>
      /\ out' \in SpongeOut
  BY <1>1, <1>3, <1>b DEF SpongeInv, SpongeTyped, SpongeOut
<1>8. SpongeTyped'
  <2>1. locals' \in SpongeLocal'
    BY <1>1, <1>2, <1>5, <1>6, <1>a DEF SpongeLocal
  <2>2. QED
    BY <1>1, <1>2, <1>6, <1>7, <2>1 DEF SpongeInv, SpongeTyped, SpongeOut
<1>9. n \div r = q
  BY <1>b, QuotientOf, Zenon
<1>10. \A j \in 1 .. q : locals'.permuted[j] = Wanted(n, r, j)
  <2>1. \A j \in 1 .. q : Wanted(n, r, j) = FullBlock(j, r)
    <3>1. ASSUME NEW j \in 1 .. q PROVE Wanted(n, r, j) = FullBlock(j, r)
      BY <1>b, OneShotFull
    <3>2. QED
      BY <3>1, Zenon
  <2>2. QED
    BY <1>3, <1>6, <2>1, Zenon
<1>11. locals'.block = Wanted(n, r, q + 1)
  BY <1>6 DEF last
<1>12. Opened' = 0
  BY <1>1, <1>2, <1>6, <1>7, <1>9 DEF Opened
<1>13. Squeezing'
  <2>1. n <= MaxIn
    <3>1. n + 0 <= MaxIn
      BY <1>3, <1>a, <1>b
    <3>2. QED
      BY <3>1
  <2>2. Len(out'.squeezed) + locals'.todo <= MaxOut /\ Len(out'.squeezed) + locals'.count = 0
    BY <1>4, <1>6, <1>7
  <2>3. 0 * r = 0
    BY <1>2
  <2>4. QED
    BY <1>1, <1>2, <1>6, <1>7, <1>10, <1>11, <1>12, <2>1, <2>2, <2>3 DEF Squeezing
<1>14. Absorbing' /\ Sponge!ChunksDoNotMatter'
  BY <1>7 DEF Absorbing, Sponge!ChunksDoNotMatter
<1> QED
  BY <1>8, <1>13, <1>14 DEF SpongeInv

SqueezedBytes(r) == [state : Seq(Blocks(r)), at : Nat]

\* The bytes read from a state.
LEMMA BytesTyped ==
    ASSUME NEW r \in Nat \ {0}, NEW p \in Seq(Blocks(r)), NEW at \in Nat, NEW m \in Nat
    PROVE  /\ Sponge!Bytes(p, at, m) \in Seq(SqueezedBytes(r))
           /\ Len(Sponge!Bytes(p, at, m)) = m
           /\ \A i \in 1 .. m : Sponge!Bytes(p, at, m)[i] = [state |-> p, at |-> at + i - 1]
<1> DEFINE B(i) == [state |-> p, at |-> at + i - 1]
<1>1. Sponge!Bytes(p, at, m) = [i \in 1 .. m |-> B(i)]
  BY DEF Sponge!Bytes
<1>2. \A i \in 1 .. m : B(i) \in SqueezedBytes(r)
  BY DEF SqueezedBytes
<1> HIDE DEF B
<1>3. /\ [i \in 1 .. m |-> B(i)] \in Seq(SqueezedBytes(r)) /\ Len([i \in 1 .. m |-> B(i)]) = m
      /\ \A i \in 1 .. m : [k \in 1 .. m |-> B(k)][i] = B(i)
  BY <1>2
<1>4. QED
  BY <1>1, <1>3, Zenon DEF B

LEMMA BytesJoined ==
    ASSUME NEW r, NEW s \in Seq(SqueezedBytes(r)), NEW u \in Seq(SqueezedBytes(r))
    PROVE  /\ s \o u \in Seq(SqueezedBytes(r)) /\ Len(s \o u) = Len(s) + Len(u)
           /\ Len(s) \in Nat
           /\ \A i \in 1 .. Len(s) : (s \o u)[i] = s[i]
           /\ \A i \in 1 .. Len(u) : (s \o u)[Len(s) + i] = u[i]
  BY Joined

\* Bytes taken from a state that went through the right blocks continue the
\* one-shot output.
Through(p, n, g, r) == p \in Seq(Blocks(r)) /\ p = StateAfter(n, g, r)
AllOneShot(s, n, r) ==
    /\ s \in Seq(SqueezedBytes(r))
    /\ \A k \in 1 .. Len(s) : s[k] = Sponge!OneShotByte(n, k - 1, r)
Extended(s, p, at, m) == s \o Sponge!Bytes(p, at, m)

\* A stretch of one block continues the output.
LEMMA MoreBytes ==
    ASSUME NEW r \in Nat \ {0}, NEW n \in Nat, NEW s, AllOneShot(s, n, r),
           NEW g \in Nat, NEW at \in Nat, Cut(Len(s), g, at, r),
           NEW m \in Nat, at + m <= r, NEW p, Through(p, n, g, r)
    PROVE  /\ AllOneShot(Extended(s, p, at, m), n, r)
           /\ Len(Extended(s, p, at, m)) = Len(s) + m
<1> DEFINE u == Sponge!Bytes(p, at, m)
           t == Extended(s, p, at, m)
<1>1. /\ u \in Seq(SqueezedBytes(r)) /\ Len(u) = m
      /\ \A i \in 1 .. m : u[i] = [state |-> p, at |-> at + i - 1]
  <2>1. p \in Seq(Blocks(r))
    BY DEF Through
  <2>2. QED
    BY <2>1, BytesTyped, Zenon
<1>2. /\ t \in Seq(SqueezedBytes(r)) /\ Len(t) = Len(s) + m /\ Len(s) \in Nat
      /\ \A i \in 1 .. Len(s) : t[i] = s[i]
      /\ \A i \in 1 .. m : t[Len(s) + i] = u[i]
  <2>1. t = s \o u
    BY DEF Extended
  <2>2. u \in Seq(SqueezedBytes(r)) /\ Len(u) = m /\ s \in Seq(SqueezedBytes(r))
    BY <1>1 DEF AllOneShot
  <2> HIDE DEF u, t
  <2>3. /\ s \o u \in Seq(SqueezedBytes(r)) /\ Len(s \o u) = Len(s) + Len(u) /\ Len(s) \in Nat
        /\ \A i \in 1 .. Len(s) : (s \o u)[i] = s[i]
        /\ \A i \in 1 .. Len(u) : (s \o u)[Len(s) + i] = u[i]
    <3>1. PICK v \in Seq(SqueezedBytes(r)), w \in Seq(SqueezedBytes(r)) : v = s /\ w = u
      BY <2>2, Zenon
    <3>2. /\ v \o w \in Seq(SqueezedBytes(r)) /\ Len(v \o w) = Len(v) + Len(w)
          /\ Len(v) \in Nat
          /\ \A i \in 1 .. Len(v) : (v \o w)[i] = v[i]
          /\ \A i \in 1 .. Len(w) : (v \o w)[Len(v) + i] = w[i]
      BY BytesJoined
    <3>3. QED
      BY <3>1, <3>2, Zenon
  <2>4. QED
    BY <2>1, <2>2, <2>3, Zenon
<1> HIDE DEF u, t
<1>3. PICK len \in Nat : len = Len(s)
  BY <1>2
<1>4. ASSUME NEW i \in 1 .. m
      PROVE  t[len + i] = Sponge!OneShotByte(n, (len + i) - 1, r)
  <2>1. PICK e \in Nat : e = at + i - 1 /\ e < r
    <3>1. at + i - 1 \in Nat /\ at + i - 1 < r
      OBVIOUS
    <3>2. QED
      BY <3>1
  <2>2. PICK x \in Nat : x = g * r
    OBVIOUS
  <2>3. len = x + at
    BY <1>3, <2>2, Zenon DEF Cut
  <2>4. (len + i) - 1 = x + e
    BY <2>1, <2>3
  <2>5. Cut((len + i) - 1, g, e, r)
    BY <2>1, <2>2, <2>4, Zenon DEF Cut
  <2>6. ((len + i) - 1) \div r = g /\ ((len + i) - 1) % r = e
    BY <2>5, QuotientOf, Zenon
  <2>7. Sponge!OneShotByte(n, (len + i) - 1, r) = [state |-> p, at |-> e]
    BY <2>6, Zenon DEF Sponge!OneShotByte, StateAfter, Through
  <2>8. QED
    BY <1>1, <1>2, <1>3, <2>1, <2>7, Zenon
<1>5. ASSUME NEW k \in 1 .. len + m PROVE t[k] = Sponge!OneShotByte(n, k - 1, r)
  <2>1. CASE k <= len
    <3>1. k \in 1 .. len
      BY <2>1
    <3>2. s[k] = Sponge!OneShotByte(n, k - 1, r)
      BY <1>3, <3>1, Zenon DEF AllOneShot
    <3>3. QED
      BY <1>2, <1>3, <3>1, <3>2, Zenon
  <2>2. CASE ~(k <= len)
    <3>1. PICK i \in 1 .. m : k = len + i
      <4>1. k - len \in 1 .. m /\ k = len + (k - len)
        BY <2>2
      <4>2. QED
        BY <4>1
    <3>2. QED
      BY <1>4, <3>1
  <2>3. QED
    BY <2>1, <2>2, Zenon
<1>6. AllOneShot(t, n, r) /\ Len(t) = Len(s) + m
  BY <1>2, <1>3, <1>5, Zenon DEF AllOneShot
<1>7. QED
  BY <1>6 DEF t

\* What the squeezing steps start from.
LEMMA SqueezeStart ==
    ASSUME SpongeInv, out.phase = "squeezing"
    PROVE  /\ args.rate \in Nat \ {0} /\ MaxOut \in Nat /\ MaxIn \in Nat
           /\ locals.count \in Nat /\ locals.count < args.rate /\ locals.todo \in Nat
           /\ locals.permuted \in Seq(Blocks(args.rate)) /\ locals.block \in Blocks(args.rate)
           /\ out.absorbed \in Nat /\ out.absorbed \div args.rate \in Nat
           /\ out.squeezed \in Seq(SqueezedBytes(args.rate)) /\ Len(out.squeezed) \in Nat
           /\ Opened \in Nat
           /\ Len(locals.permuted) = out.absorbed \div args.rate + Opened
           /\ Len(out.squeezed) + locals.count = Opened * args.rate
           /\ \A k \in 1 .. Len(out.squeezed) :
                  out.squeezed[k] = Sponge!OneShotByte(out.absorbed, k - 1, args.rate)
<1>1. /\ args.rate \in Nat \ {0} /\ MaxOut \in Nat /\ MaxIn \in Nat
      /\ locals.count \in Nat /\ locals.count < args.rate /\ locals.todo \in Nat
      /\ locals.permuted \in Seq(Blocks(args.rate)) /\ locals.block \in Blocks(args.rate)
      /\ out.absorbed \in Nat
      /\ out.squeezed \in Seq(SqueezedBytes(args.rate)) /\ Len(out.squeezed) \in Nat
  BY RateTyped DEF SpongeInv, SpongeTyped, SpongeLocal, SpongeOut, SqueezedBytes
<1>2. Opened \in Nat /\ Len(out.squeezed) + locals.count = Opened * args.rate
  BY DEF SpongeInv, Squeezing
<1>3. out.absorbed \div args.rate \in Nat
  BY <1>1, OneShotIsSeq
<1>4. Len(locals.permuted) = out.absorbed \div args.rate + Opened
  <2>1. PICK d \in Nat : d = out.absorbed \div args.rate
    BY <1>3
  <2>2. Len(locals.permuted) \in Nat /\ Opened = Len(locals.permuted) - d
    BY <1>1, <2>1 DEF Opened
  <2>3. Len(locals.permuted) = d + Opened
    BY <2>2
  <2>4. QED
    BY <2>1, <2>3
<1> QED
  BY <1>1, <1>2, <1>3, <1>4 DEF SpongeInv, Sponge!ChunksDoNotMatter

\* The bytes of the block that is open come first.
LEMMA SqueezeStep ==
    ASSUME SpongeInv, NEW n \in 0 .. MaxOut, Sponge!Squeeze(n)
    PROVE  SpongeInv'
<1>1. /\ locals.pc = "idle" /\ out.phase = "squeezing" /\ Len(out.squeezed) + n <= MaxOut
      /\ args' = args
  BY DEF Sponge!Squeeze
<1>2. PICK r \in Nat \ {0}, c \in Nat, len \in Nat, a \in Nat, g \in Nat :
        /\ r = args.rate /\ c = locals.count /\ len = Len(out.squeezed) /\ a = out.absorbed
        /\ g = Opened /\ c < r
  BY <1>1, SqueezeStart
<1>3. /\ MaxOut \in Nat /\ n \in Nat
      /\ locals.permuted \in Seq(Blocks(r)) /\ out.squeezed \in Seq(SqueezedBytes(r))
      /\ len + c = g * r /\ Len(locals.permuted) = a \div r + g
      /\ \A k \in 1 .. len : out.squeezed[k] = Sponge!OneShotByte(a, k - 1, r)
      /\ len + n <= MaxOut
  <2>1. MaxOut \in Nat
    BY <1>1, SqueezeStart
  <2>2. QED
    BY <1>1, <1>2, <2>1, SqueezeStart
<1>4. PICK i \in Nat : i = Sponge!AtMost(n, c) /\ i <= n /\ i <= c /\ (i < n => i = c)
  <2>1. Sponge!AtMost(n, c) \in Nat /\ Sponge!AtMost(n, c) <= n /\ Sponge!AtMost(n, c) <= c
        /\ (Sponge!AtMost(n, c) < n => Sponge!AtMost(n, c) = c)
    BY <1>3 DEF Sponge!AtMost
  <2>2. QED
    BY <2>1
<1> DEFINE t == out.squeezed \o Sponge!Bytes(locals.permuted, r - c, i)
<1>5. /\ locals' = [locals EXCEPT !.pc = "squeeze", !.count = @ - i, !.todo = n - i]
      /\ out' = [out EXCEPT !.squeezed = t]
  BY <1>2, <1>4 DEF Sponge!Squeeze
<1>6. /\ t \in Seq(SqueezedBytes(r)) /\ Len(t) = len + i
      /\ \A k \in 1 .. Len(t) : t[k] = Sponge!OneShotByte(a, k - 1, r)
  <2>1. CASE i = 0
    <3>1. Sponge!Bytes(locals.permuted, r - c, i) = <<>>
      BY <2>1 DEF Sponge!Bytes
    <3>2. t = out.squeezed
      <4>1. PICK s \in Seq(SqueezedBytes(r)) : s = out.squeezed
        BY <1>3
      <4>2. s \o <<>> = s
        OBVIOUS
      <4>3. QED
        BY <3>1, <4>1, <4>2, Zenon
    <3> HIDE DEF t
    <3>3. QED
      BY <1>2, <1>3, <2>1, <3>2
  <2>2. CASE i # 0
    <3>1. PICK h \in Nat : g = h + 1
      <4>1. g # 0
        <5>1. 0 * r = 0
          OBVIOUS
        <5>2. QED
          BY <1>3, <1>4, <2>2, <5>1
      <4>2. g - 1 \in Nat /\ g = (g - 1) + 1
        BY <4>1
      <4>3. QED
        BY <4>2
    <3>2. g * r = h * r + r /\ h * r \in Nat
      BY <3>1, Longer
    <3>3. PICK at \in Nat : at = r - c
      BY <1>2
    <3>4. at + i <= r
      BY <1>2, <1>4, <3>3
    <3>5. len = h * r + at
      <4>1. PICK x \in Nat : x = h * r
        BY <3>2
      <4>2. len + c = x + r
        BY <1>3, <3>2, <4>1, Zenon
      <4>a. c + at = r
        BY <1>2, <3>3
      <4>3. len = x + at
        BY <4>2, <4>a
      <4>4. QED
        BY <4>1, <4>3, Zenon
    <3>6. PICK d \in Nat : d = a \div r
      BY OneShotIsSeq
    <3>7. Len(locals.permuted) = d + 1 + h
      <4>1. Len(locals.permuted) = d + g
        BY <1>3, <3>6, Zenon
      <4>2. d + (h + 1) = d + 1 + h
        OBVIOUS
      <4>3. QED
        BY <3>1, <4>1, <4>2, Zenon
    <3>8. \A j \in 1 .. Len(locals.permuted) : locals.permuted[j] = Wanted(a, r, j)
      BY <1>1, <1>2 DEF SpongeInv, Squeezing
    <3>9. locals.permuted = StateAfter(a, h, r)
      BY <1>3, <3>6, <3>7, <3>8, StateOf
    <3>10. t = out.squeezed \o Sponge!Bytes(locals.permuted, at, i)
      BY <3>3
    <3>11. Len(out.squeezed) = h * r + at
      BY <1>2, <3>5
    <3> HIDE DEF t
    <3>12. /\ t \in Seq(SqueezedBytes(r)) /\ Len(t) = Len(out.squeezed) + i
           /\ \A k \in 1 .. Len(t) : t[k] = Sponge!OneShotByte(a, k - 1, r)
      <4>1. PICK s \in Seq(SqueezedBytes(r)), p \in Seq(Blocks(r)) :
              s = out.squeezed /\ p = locals.permuted
        BY <1>3
      <4>2. /\ AllOneShot(s, a, r)
            /\ Cut(Len(s), h, at, r) /\ Through(p, a, h, r) /\ t = Extended(s, p, at, i)
        <5>1. at < r
          BY <2>2, <3>4
        <5>2. QED
          BY <1>2, <1>3, <3>9, <3>10, <3>11, <4>1, <5>1, Zenon DEF Cut, Through, Extended, AllOneShot
      <4>3. AllOneShot(Extended(s, p, at, i), a, r) /\ Len(Extended(s, p, at, i)) = Len(s) + i
        BY <3>4, <4>2, MoreBytes
      <4>4. QED
        BY <4>1, <4>2, <4>3, Zenon DEF AllOneShot
    <3>13. QED
      BY <1>2, <3>12
  <2>3. QED
    BY <2>1, <2>2
<1> HIDE DEF t
<1>7. /\ locals'.pc = "squeeze" /\ locals'.count = c - i /\ locals'.todo = n - i
      /\ locals'.permuted = locals.permuted /\ locals'.block = locals.block
      /\ locals' = [pc |-> locals'.pc, todo |-> locals'.todo, permuted |-> locals'.permuted,
                    block |-> locals'.block, count |-> locals'.count]
  BY <1>2, <1>5 DEF SpongeInv, SpongeTyped, SpongeLocal
<1>8. /\ out'.phase = "squeezing" /\ out'.absorbed = a /\ out'.squeezed = t
      /\ out' = [phase |-> out'.phase, absorbed |-> out'.absorbed, squeezed |-> out'.squeezed]
  BY <1>1, <1>2, <1>5 DEF SpongeInv, SpongeTyped, SpongeOut
<1>9. /\ c - i \in Nat /\ c - i < r /\ n - i \in Nat /\ (n - i > 0 => c - i = 0)
      /\ (len + i) + (n - i) <= MaxOut /\ (len + i) + (c - i) = len + c
  <2>1. PICK m \in Nat : m = MaxOut
    BY <1>3
  <2>2. len + n <= m /\ i <= c /\ i <= n /\ (i < n => i = c) /\ c < r
    BY <1>2, <1>3, <1>4, <2>1
  <2>3. /\ c - i \in Nat /\ c - i <= c /\ n - i \in Nat /\ (n - i > 0 => c - i = 0)
        /\ (len + i) + (n - i) <= m /\ (len + i) + (c - i) = len + c
    BY <1>3, <2>2
  <2>4. c - i < r
    BY <2>2, <2>3
  <2>5. QED
    BY <2>1, <2>3, <2>4, Zenon
<1>10. SpongeTyped'
  <2>1. locals' \in SpongeLocal'
    BY <1>1, <1>2, <1>7, <1>9, SqueezeStart DEF SpongeLocal
  <2>2. out' \in SpongeOut'
    BY <1>1, <1>2, <1>6, <1>8 DEF SpongeOut, SqueezedBytes
  <2>3. QED
    BY <1>1, <1>2, <1>7, <1>9, <2>1, <2>2 DEF SpongeInv, SpongeTyped
<1>11. Sponge!ChunksDoNotMatter'
  BY <1>1, <1>2, <1>6, <1>8 DEF Sponge!ChunksDoNotMatter
<1>12. Opened' = g
  BY <1>1, <1>2, <1>7, <1>8 DEF Opened
<1>13. Squeezing'
  <2>1. /\ a <= MaxIn
        /\ \A j \in 1 .. Len(locals.permuted) : locals.permuted[j] = Wanted(a, r, j)
        /\ locals.block = Wanted(a, r, Len(locals.permuted) + 1)
    BY <1>1, <1>2 DEF SpongeInv, Squeezing
  <2>2. /\ Len(out'.squeezed) + locals'.todo <= MaxOut
        /\ Len(out'.squeezed) + locals'.count = g * r
    BY <1>3, <1>6, <1>7, <1>8, <1>9
  <2>3. QED
    BY <1>1, <1>2, <1>7, <1>8, <1>9, <1>12, <2>1, <2>2 DEF Squeezing
<1>14. Absorbing'
  BY <1>8 DEF Absorbing
<1> QED
  BY <1>10, <1>11, <1>13, <1>14 DEF SpongeInv

\* The next blocks open one after the other, each as far as it is wanted.
LEMMA SqueezeBlockStep ==
    ASSUME SpongeInv, Sponge!SqueezeBlock
    PROVE  SpongeInv'
<1>1. /\ locals.pc = "squeeze" /\ locals.todo > 0 /\ args' = args /\ out.phase = "squeezing"
  <2>1. locals.pc = "squeeze" /\ locals.todo > 0 /\ args' = args
    BY DEF Sponge!SqueezeBlock
  <2>2. QED
    BY <2>1 DEF SpongeInv, SpongeTyped, SpongeOut, Absorbing
<1>2. PICK r \in Nat \ {0}, n \in Nat, len \in Nat, a \in Nat, g \in Nat, d \in Nat :
        /\ r = args.rate /\ n = locals.todo /\ len = Len(out.squeezed) /\ a = out.absorbed
        /\ g = Opened /\ d = a \div r
  BY <1>1, SqueezeStart
<1>3. /\ MaxOut \in Nat /\ n > 0 /\ locals.count = 0
      /\ locals.permuted \in Seq(Blocks(r)) /\ out.squeezed \in Seq(SqueezedBytes(r))
      /\ len = g * r /\ Len(locals.permuted) = d + g
      /\ \A k \in 1 .. len : out.squeezed[k] = Sponge!OneShotByte(a, k - 1, r)
      /\ len + n <= MaxOut /\ a <= MaxIn
      /\ locals.block \in Blocks(r)
  <2>1. locals.count = 0 /\ len + n <= MaxOut /\ a <= MaxIn
    BY <1>1, <1>2 DEF SpongeInv, Squeezing
  <2>2. len + 0 = g * r
    BY <1>1, <1>2, <2>1, SqueezeStart
  <2>3. len = g * r
    BY <2>2
  <2>4. QED
    BY <1>1, <1>2, <2>1, <2>3, SqueezeStart
<1>4. PICK i \in Nat : i = Sponge!AtMost(n, r) /\ i <= n /\ i <= r /\ i > 0 /\ (i < n => i = r)
  <2>1. Sponge!AtMost(n, r) \in Nat /\ Sponge!AtMost(n, r) <= n /\ Sponge!AtMost(n, r) <= r
        /\ Sponge!AtMost(n, r) > 0 /\ (Sponge!AtMost(n, r) < n => Sponge!AtMost(n, r) = r)
    BY <1>3 DEF Sponge!AtMost
  <2>2. QED
    BY <2>1
<1> DEFINE state == Append(locals.permuted, locals.block)
           t == out.squeezed \o Sponge!Bytes(state, 0, i)
<1>5. /\ locals' = [locals EXCEPT !.permuted = state, !.block = Sponge!Zero(r), !.count = r - i,
                                  !.todo = @ - i]
      /\ out' = [out EXCEPT !.squeezed = t]
  BY <1>2, <1>4 DEF Sponge!SqueezeBlock
<1>6. /\ state \in Seq(Blocks(r)) /\ Len(state) = d + 1 + g
      /\ \A j \in 1 .. Len(state) : state[j] = Wanted(a, r, j)
  <2>1. /\ \A j \in 1 .. Len(locals.permuted) : locals.permuted[j] = Wanted(a, r, j)
        /\ locals.block = Wanted(a, r, Len(locals.permuted) + 1)
    BY <1>1, <1>2 DEF SpongeInv, Squeezing
  <2>2. /\ state \in Seq(Blocks(r)) /\ Len(state) = (d + g) + 1
        /\ \A j \in 1 .. d + g : state[j] = locals.permuted[j]
        /\ state[(d + g) + 1] = locals.block
    BY <1>3
  <2> HIDE DEF state
  <2>3. ASSUME NEW j \in 1 .. (d + g) + 1 PROVE state[j] = Wanted(a, r, j)
    <3>1. CASE j = (d + g) + 1
      BY <1>3, <2>1, <2>2, <3>1
    <3>2. CASE j # (d + g) + 1
      <4>1. j \in 1 .. d + g
        BY <3>2
      <4>2. QED
        BY <1>3, <2>1, <2>2, <4>1
    <3>3. QED
      BY <3>1, <3>2
  <2>4. (d + g) + 1 = d + 1 + g
    OBVIOUS
  <2>5. QED
    BY <2>2, <2>3, <2>4
<1> HIDE DEF state
<1>7. state = StateAfter(a, g, r)
  <2>1. PICK p \in Seq(Blocks(r)) : p = state
    BY <1>6
  <2>2. Len(p) = a \div r + 1 + g /\ \A j \in 1 .. Len(p) : p[j] = Wanted(a, r, j)
    BY <1>2, <1>6, <2>1, Zenon
  <2>3. QED
    BY <2>1, <2>2, StateOf, Zenon
<1>8. /\ t \in Seq(SqueezedBytes(r)) /\ Len(t) = len + i
      /\ \A k \in 1 .. Len(t) : t[k] = Sponge!OneShotByte(a, k - 1, r)
  <2>1. 0 + i <= r /\ Len(out.squeezed) = g * r + 0 /\ 0 \in Nat
    <3>1. 0 + i = i /\ 0 \in Nat
      OBVIOUS
    <3>2. PICK x \in Nat : x = g * r
      OBVIOUS
    <3>3. x + 0 = x
      OBVIOUS
    <3>4. QED
      BY <1>2, <1>3, <1>4, <3>1, <3>2, <3>3, Zenon
  <2>2. t = out.squeezed \o Sponge!Bytes(state, 0, i)
    OBVIOUS
  <2> HIDE DEF t
  <2>3. /\ t \in Seq(SqueezedBytes(r)) /\ Len(t) = Len(out.squeezed) + i
        /\ \A k \in 1 .. Len(t) : t[k] = Sponge!OneShotByte(a, k - 1, r)
    <3>1. PICK s \in Seq(SqueezedBytes(r)), p \in Seq(Blocks(r)) : s = out.squeezed /\ p = state
      BY <1>3, <1>6
    <3>2. /\ AllOneShot(s, a, r)
          /\ Cut(Len(s), g, 0, r) /\ Through(p, a, g, r) /\ t = Extended(s, p, 0, i)
      <4>1. 0 < r
        OBVIOUS
      <4>2. QED
        BY <1>2, <1>3, <1>7, <2>1, <2>2, <3>1, <4>1, Zenon DEF Cut, Through, Extended, AllOneShot
    <3>3. AllOneShot(Extended(s, p, 0, i), a, r) /\ Len(Extended(s, p, 0, i)) = Len(s) + i
      BY <2>1, <3>2, MoreBytes
    <3>4. QED
      BY <3>1, <3>2, <3>3, Zenon DEF AllOneShot
  <2>4. QED
    BY <1>2, <2>3
<1> HIDE DEF t
<1>9. /\ locals'.pc = "squeeze" /\ locals'.count = r - i /\ locals'.todo = n - i
      /\ locals'.permuted = state /\ locals'.block = Sponge!Zero(r)
      /\ locals' = [pc |-> locals'.pc, todo |-> locals'.todo, permuted |-> locals'.permuted,
                    block |-> locals'.block, count |-> locals'.count]
  BY <1>1, <1>2, <1>5 DEF SpongeInv, SpongeTyped, SpongeLocal
<1>10. /\ out'.phase = "squeezing" /\ out'.absorbed = a /\ out'.squeezed = t
       /\ out' = [phase |-> out'.phase, absorbed |-> out'.absorbed, squeezed |-> out'.squeezed]
  BY <1>1, <1>2, <1>5 DEF SpongeInv, SpongeTyped, SpongeOut
<1>11. /\ r - i \in Nat /\ r - i < r /\ n - i \in Nat /\ (n - i > 0 => r - i = 0)
       /\ (len + i) + (n - i) <= MaxOut /\ (len + i) + (r - i) = len + r
  <2>1. PICK m, c \in Nat : m = MaxOut /\ c = r
    BY <1>3
  <2>2. len + n <= m /\ i <= c /\ i <= n /\ (i < n => i = c) /\ i > 0
    BY <1>3, <1>4, <2>1
  <2>3. /\ c - i \in Nat /\ c - i < c /\ n - i \in Nat /\ (n - i > 0 => c - i = 0)
        /\ (len + i) + (n - i) <= m /\ (len + i) + (c - i) = len + c
    BY <2>2
  <2>4. QED
    BY <2>1, <2>3, Zenon
<1>12. Sponge!Zero(r) \in Blocks(r)
  BY DEF Sponge!Zero, Blocks
<1>13. SpongeTyped'
  <2>1. locals' \in SpongeLocal'
    BY <1>1, <1>2, <1>6, <1>9, <1>11, <1>12 DEF SpongeLocal
  <2>2. out' \in SpongeOut'
    BY <1>1, <1>2, <1>8, <1>10 DEF SpongeOut, SqueezedBytes
  <2>3. QED
    BY <1>1, <1>2, <1>9, <1>11, <2>1, <2>2 DEF SpongeInv, SpongeTyped
<1>14. Sponge!ChunksDoNotMatter'
  BY <1>1, <1>2, <1>8, <1>10 DEF Sponge!ChunksDoNotMatter
<1>15. Opened' = g + 1
  <2>1. Opened' = (d + 1 + g) - d
    BY <1>1, <1>2, <1>6, <1>9, <1>10 DEF Opened
  <2>2. QED
    BY <2>1
<1>16. Squeezing'
  <2>1. /\ Len(out'.squeezed) + locals'.todo <= MaxOut
        /\ Len(out'.squeezed) + locals'.count = (g + 1) * r
    <3>1. (g + 1) * r = len + r
      BY <1>3, Longer
    <3>2. QED
      BY <1>8, <1>9, <1>10, <1>11, <3>1
  <2>2. locals'.block = Wanted(a, r, Len(locals'.permuted) + 1)
    <3>1. ~(Len(state) + 1 <= d + 1)
      BY <1>6
    <3>2. QED
      BY <1>2, <1>9, <3>1 DEF Wanted
  <2>3. g + 1 \in Nat
    OBVIOUS
  <2>4. \A j \in 1 .. Len(locals'.permuted) : locals'.permuted[j] = Wanted(a, r, j)
    BY <1>6, <1>9
  <2>5. QED
    BY <1>1, <1>2, <1>3, <1>9, <1>10, <1>11, <1>15, <2>1, <2>2, <2>3, <2>4 DEF Squeezing
<1>17. Absorbing'
  BY <1>10 DEF Absorbing
<1> QED
  BY <1>13, <1>14, <1>16, <1>17 DEF SpongeInv

\* A call returns; nothing moves.
LEMMA SqueezeReturnsStep ==
    ASSUME SpongeInv, Sponge!SqueezeReturns
    PROVE  SpongeInv'
<1>1. /\ locals.pc = "squeeze" /\ locals' = [locals EXCEPT !.pc = "idle"]
      /\ args' = args /\ out' = out /\ out.phase = "squeezing"
  BY DEF Sponge!SqueezeReturns, SpongeInv, SpongeTyped, SpongeOut, Absorbing
<1>2. /\ locals'.pc = "idle" /\ locals'.todo = locals.todo /\ locals'.permuted = locals.permuted
      /\ locals'.block = locals.block /\ locals'.count = locals.count
      /\ locals' \in SpongeLocal
  BY <1>1 DEF SpongeInv, SpongeTyped, SpongeLocal
<1>3. SpongeTyped'
  BY <1>1, <1>2 DEF SpongeInv, SpongeTyped, SpongeLocal, SpongeOut
<1>4. Opened' = Opened
  BY <1>1, <1>2 DEF Opened
<1>5. Squeezing'
  BY <1>1, <1>2, <1>4 DEF SpongeInv, Squeezing
<1>6. Absorbing'
  BY <1>1 DEF Absorbing
<1>7. Sponge!ChunksDoNotMatter'
  BY <1>1 DEF SpongeInv, Sponge!ChunksDoNotMatter
<1> QED
  BY <1>3, <1>5, <1>6, <1>7 DEF SpongeInv

\* A run of the sponge is a behaviour of Sponge.
LEMMA SpongeRuns ==
    /\ Init /\ routine = "sponge" => Sponge!Init
    /\ [Next]_vars /\ routine' = "sponge" => routine = "sponge" /\ [Sponge!Next]_Sponge!vars
<1>1. Init /\ routine = "sponge" => Sponge!Init
  BY DEF Init
<1>2. [Next]_vars /\ routine' = "sponge" => routine = "sponge"
  BY DEF Next, SignNext, vars
<1>3. [Next]_vars /\ routine = "sponge" => [Sponge!Next]_Sponge!vars
  BY DEF Next, SignNext, vars, Sponge!vars
<1> QED
  BY <1>1, <1>2, <1>3

SpongeAlways == routine = "sponge" => SpongeInv

\* The invariant of the blocks, the counter and the calls under way.
THEOREM SpongeInductive == Spec => []SpongeAlways
<1>1. Init => SpongeAlways
  <2> SUFFICES ASSUME Sponge!Init PROVE SpongeInv
    BY SpongeRuns DEF SpongeAlways
  <2>1. PICK r \in Rates :
          /\ args = [rate |-> r] /\ locals = Sponge!Fresh(r)
          /\ out = [phase |-> "absorbing", absorbed |-> 0, squeezed |-> <<>>]
    BY DEF Sponge!Init
  <2>2. r \in Nat \ {0} /\ MaxIn \in Nat
    BY RoutinesAssumption DEF Sponge!SpongeAssumption
  <2>3. QED
    BY <2>1, <2>2, SpongeStart
<1>2. SpongeAlways /\ [Next]_vars => SpongeAlways'
  <2> SUFFICES ASSUME SpongeInv, [Sponge!Next]_Sponge!vars PROVE SpongeInv'
    BY SpongeRuns DEF SpongeAlways
  <2>1. ASSUME NEW n \in 0 .. MaxIn, Sponge!Absorb(n) PROVE SpongeInv'
    BY <2>1, AbsorbStep
  <2>2. CASE Sponge!AbsorbBlock
    BY <2>2, AbsorbBlockStep
  <2>3. CASE Sponge!AbsorbRest
    BY <2>3, AbsorbRestStep
  <2>4. CASE Sponge!Finalize
    BY <2>4, FinalizeStep
  <2>5. ASSUME NEW n \in 0 .. MaxOut, Sponge!Squeeze(n) PROVE SpongeInv'
    BY <2>5, SqueezeStep
  <2>6. CASE Sponge!SqueezeBlock
    BY <2>6, SqueezeBlockStep
  <2>7. CASE Sponge!SqueezeReturns
    BY <2>7, SqueezeReturnsStep
  <2>8. CASE Sponge!Restart
    <3>1. /\ args' = args /\ args = [rate |-> args.rate] /\ locals' = Sponge!Fresh(args.rate)
          /\ out' = [phase |-> "absorbing", absorbed |-> 0, squeezed |-> <<>>]
      BY <2>8 DEF Sponge!Restart, SpongeInv, SpongeTyped
    <3>2. PICK r \in Rates : r = args.rate /\ r \in Nat \ {0} /\ MaxIn \in Nat
      BY RateTyped DEF SpongeInv
    <3>3. QED
      BY <3>1, <3>2, SpongeFresh
  <2>9. CASE UNCHANGED Sponge!vars
    BY <2>9 DEF Sponge!vars, SpongeInv, SpongeTyped, SpongeLocal, SpongeOut, Absorbing, Squeezing,
        Opened, Sponge!ChunksDoNotMatter
  <2>10. QED
    BY <2>1, <2>2, <2>3, <2>4, <2>5, <2>6, <2>7, <2>8, <2>9 DEF Sponge!Next
<1>3. QED
  BY <1>1, <1>2, PTL DEF Spec

\* The counter stays below the rate, and no call goes beyond its bounds.
THEOREM SpongeTypeOK == Spec => [](routine = "sponge" => Sponge!TypeOK)
<1>1. SpongeInv => Sponge!TypeOK
  <2> SUFFICES ASSUME SpongeInv PROVE Sponge!TypeOK
    OBVIOUS
  <2>1. /\ args.rate \in Rates /\ args.rate \in Nat \ {0} /\ MaxIn \in Nat /\ MaxOut \in Nat
    BY RateTyped DEF SpongeInv
  <2>2. /\ locals.pc \in {"idle", "absorb", "squeeze"} /\ locals.todo \in Nat
        /\ locals.count \in Nat /\ locals.count < args.rate
        /\ out.phase \in {"absorbing", "squeezing"} /\ out.absorbed \in Nat
        /\ Len(out.squeezed) \in Nat
    BY DEF SpongeInv, SpongeTyped, SpongeLocal, SpongeOut
  <2>3. locals.count \in 0 .. args.rate - 1
    BY <2>1, <2>2
  <2>4. CASE out.phase = "absorbing"
    <3>1. out.absorbed + locals.todo <= MaxIn /\ Len(out.squeezed) = 0
      BY <2>4 DEF SpongeInv, Absorbing
    <3>2. QED
      BY <2>1, <2>2, <2>3, <3>1 DEF Sponge!TypeOK
  <2>5. CASE out.phase = "squeezing"
    <3>1. out.absorbed <= MaxIn /\ Len(out.squeezed) + locals.todo <= MaxOut
      BY <2>5 DEF SpongeInv, Squeezing
    <3>2. QED
      BY <2>1, <2>2, <2>3, <3>1 DEF Sponge!TypeOK
  <2>6. QED
    BY <2>2, <2>4, <2>5
<1>2. SpongeAlways => (routine = "sponge" => Sponge!TypeOK)
  BY <1>1 DEF SpongeAlways
<1>3. QED
  BY <1>2, SpongeInductive, PTL

\* The incremental sponge gives the bytes of the one-shot one, for every rate,
\* message, output and way to cut them.
THEOREM ChunksNeverMatter == Spec => []ChunksDoNotMatter
<1>1. SpongeAlways => ChunksDoNotMatter
  BY DEF SpongeAlways, SpongeInv, ChunksDoNotMatter
<1>2. QED
  BY <1>1, SpongeInductive, PTL

-----------------------------------------------------------------------------
(***************************************************************************)
(* The inductive invariant of the samplers: the buffer is the next stretch *)
(* of the stream, a lane that is not full was offered everything in front  *)
(* of where it reads, and holds what it took in the order it was offered.  *)
(***************************************************************************)

\* A candidate with its outcome, and the candidates of a lane that were taken.
Offer == [what : Seq(Nat), ok : BOOLEAN]
Good(s) == {i \in DOMAIN s : s[i].ok}
Rank(s, i) == Cardinality({k \in Good(s) : k <= i})

\* c holds the candidates of s that were taken, in their order.
Ranked(s, c) ==
    /\ Len(c) = Cardinality(Good(s))
    /\ \A i \in Good(s) : c[Rank(s, i)] = s[i].what

\* The number of stream bytes in front of the buffer.
BufferStart == locals.blocks * args.block - Len(locals.buf)

\* How much of the buffer lane j has used, in bytes or, for eta, in nibbles.
UsedBy(j) ==
    IF locals.lane = 0 \/ j < locals.lane
    THEN IF args.eta THEN 2 * Len(locals.buf) ELSE Len(locals.buf) - (Len(locals.buf) % 3)
    ELSE IF j = locals.lane THEN locals.pos ELSE 0

SampleLocal ==
    [blocks : 0 .. MaxBlocks, buf : Seq(Nat), lane : 0 .. args.lanes, pos : Nat,
     offered : [1 .. args.lanes -> Seq(Offer)]]

SampleTyped ==
    /\ args \in SampleKinds
    /\ locals \in SampleLocal
    /\ out \in [1 .. args.lanes -> Seq(Seq(Nat))]
    /\ \A j \in 1 .. args.lanes : Len(out[j]) <= SampleSize

\* The buffer is the stretch of the stream up to the last byte squeezed, and
\* starts with a fresh group.
BufferInOrder ==
    /\ BufferStart \in Nat
    /\ \A i \in 1 .. Len(locals.buf) : locals.buf[i] = BufferStart + i - 1
    /\ ~args.eta => BufferStart % 3 = 0
    /\ ~args.eta /\ ~args.carry => Len(locals.buf) % 3 = 0

PosInBuffer ==
    /\ args.eta => locals.pos <= 2 * Len(locals.buf)
    /\ ~args.eta => locals.pos <= Len(locals.buf) /\ locals.pos % 3 = 0

\* A lane that is not full has been offered all of its stream up to where it
\* reads.
NoneMissed ==
    \A j \in 1 .. args.lanes :
        \/ Len(out[j]) = SampleSize
        \/ IF args.eta THEN Len(locals.offered[j]) = 2 * BufferStart + UsedBy(j)
                       ELSE 3 * Len(locals.offered[j]) = BufferStart + UsedBy(j)

OfferedInOrder ==
    \A j \in 1 .. args.lanes : \A i \in DOMAIN locals.offered[j] :
        locals.offered[j][i].what = Sample!InOrder(i)

AllRanked == \A j \in 1 .. args.lanes : Ranked(locals.offered[j], out[j])

SampleInv == SampleTyped /\ BufferInOrder /\ PosInBuffer /\ NoneMissed /\ OfferedInOrder /\ AllRanked

\* What the arithmetic of groups of three and of nibbles needs.
LEMMA Groups ==
    ASSUME NEW n \in Nat
    PROVE  /\ n % 3 \in 0 .. 2 /\ n % 3 <= n
           /\ \A s \in Nat : s % 3 = 0 => (s + n - (n % 3)) % 3 = 0
           /\ \A p \in Nat : p % 3 = 0 /\ p <= n /\ p + 3 > n => p = n - (n % 3)
           /\ \A s, p \in Nat : 3 * n = s + p => 3 * (n + 1) = s + (p + 3)
<1>1. n % 3 \in 0 .. 2 /\ n % 3 <= n
  OBVIOUS
<1>2. ASSUME NEW s \in Nat, s % 3 = 0 PROVE (s + n - (n % 3)) % 3 = 0
  BY <1>2
<1>3. ASSUME NEW p \in Nat, p % 3 = 0, p <= n, p + 3 > n PROVE p = n - (n % 3)
  BY <1>3
<1> QED
  BY <1>1, <1>2, <1>3

LEMMA Nibbles ==
    ASSUME NEW n \in Nat, NEW p \in Nat
    PROVE  /\ p < 2 * n => (p \div 2) + 1 \in 1 .. n
           /\ p % 2 \in Nat /\ p \div 2 \in Nat
           /\ (2 * n + p) \div 2 = n + (p \div 2)
           /\ (2 * n + p) % 2 = p % 2
  OBVIOUS

\* One candidate more keeps the ranks.
LEMMA RankedAppend ==
    ASSUME NEW s \in Seq(Offer), NEW c \in Seq(Seq(Nat)), Ranked(s, c),
           NEW x \in Seq(Nat), NEW ok \in BOOLEAN
    PROVE  Ranked(Append(s, [what |-> x, ok |-> ok]), IF ok THEN Append(c, x) ELSE c)
<1> DEFINE t == Append(s, [what |-> x, ok |-> ok])
           n == Len(s) + 1
<1>1. /\ Len(s) \in Nat /\ DOMAIN s = 1 .. Len(s) /\ DOMAIN t = 1 .. n /\ n \in Nat
      /\ \A i \in 1 .. Len(s) : t[i] = s[i] /\ i < n
      /\ t[n].what = x /\ t[n].ok = ok
      /\ t[n] = [what |-> x, ok |-> ok]
  OBVIOUS
<1> HIDE DEF t, n
<1>2. Good(s) \subseteq 1 .. Len(s) /\ IsFiniteSet(Good(s)) /\ n \notin Good(s)
  <2>1. Good(s) \subseteq 1 .. Len(s)
    BY <1>1 DEF Good
  <2>2. IsFiniteSet(1 .. Len(s))
    BY <1>1, FS_Interval
  <2>3. n \notin Good(s)
    BY <1>1, <2>1
  <2>4. QED
    BY <2>1, <2>2, <2>3, FS_Subset
<1>3. Good(t) = IF ok THEN Good(s) \cup {n} ELSE Good(s)
  <2>1. \A i \in 1 .. n : i \in 1 .. Len(s) \/ i = n
    BY <1>1 DEF n
  <2>2. ASSUME NEW i PROVE i \in Good(t) <=> i \in Good(s) \/ (ok /\ i = n)
    <3>1. CASE i \in 1 .. Len(s)
      <4>1. i # n /\ i \in 1 .. n
        BY <1>1, <3>1
      <4>2. QED
        BY <1>1, <3>1, <4>1 DEF Good
    <3>2. CASE i = n
      <4>1. n \in 1 .. n
        BY <1>1 DEF n
      <4>2. QED
        BY <1>1, <1>2, <3>2, <4>1 DEF Good
    <3>3. CASE i \notin 1 .. n
      <4>1. n \in 1 .. n /\ i \notin 1 .. Len(s)
        BY <1>1, <3>3 DEF n
      <4>2. QED
        BY <1>1, <3>3, <4>1 DEF Good
    <3>4. QED
      BY <2>1, <3>1, <3>2, <3>3
  <2>3. QED
    BY <2>2
<1>4. ASSUME NEW i \in Good(s) PROVE Rank(t, i) = Rank(s, i) /\ Rank(s, i) \in 1 .. Len(c) /\ t[i] = s[i]
  <2>1. i \in 1 .. Len(s) /\ t[i] = s[i] /\ i < n /\ ~(n <= i)
    BY <1>1, <1>2
  <2>2. {k \in Good(t) : k <= i} = {k \in Good(s) : k <= i}
    BY <1>3, <2>1
  <2>3. {k \in Good(s) : k <= i} \subseteq Good(s) /\ {k \in Good(s) : k <= i} # {}
    BY <2>1
  <2>4. /\ IsFiniteSet({k \in Good(s) : k <= i})
        /\ Cardinality({k \in Good(s) : k <= i}) <= Cardinality(Good(s))
    BY <1>2, <2>3, FS_Subset
  <2>5. Cardinality({k \in Good(s) : k <= i}) \in Nat /\ Cardinality({k \in Good(s) : k <= i}) # 0
    BY <2>3, <2>4, FS_CardinalityType, FS_EmptySet
  <2>6. Rank(t, i) = Rank(s, i) /\ Rank(s, i) = Cardinality({k \in Good(s) : k <= i})
    BY <2>2 DEF Rank
  <2>7. Cardinality(Good(s)) = Len(c) /\ Len(c) \in Nat
    BY DEF Ranked
  <2>8. QED
    BY <2>1, <2>4, <2>5, <2>6, <2>7
<1>5. CASE ~ok
  <2>1. Good(t) = Good(s)
    BY <1>3, <1>5
  <2>2. QED
    BY <1>4, <1>5, <2>1 DEF Ranked, t
<1>6. CASE ok
  <2>1. Good(t) = Good(s) \cup {n}
    BY <1>3, <1>6
  <2>2. Cardinality(Good(t)) = Cardinality(Good(s)) + 1
    BY <1>2, <2>1, FS_AddElement
  <2>3. /\ Len(Append(c, x)) = Len(c) + 1 /\ Len(c) \in Nat
        /\ \A i \in 1 .. Len(c) : Append(c, x)[i] = c[i]
        /\ Append(c, x)[Len(c) + 1] = x
    OBVIOUS
  <2>4. Rank(t, n) = Len(c) + 1
    <3>1. \A k \in Good(t) : k <= n
      BY <1>1, <1>2, <2>1
    <3>2. {k \in Good(t) : k <= n} = Good(t)
      BY <3>1
    <3>3. QED
      BY <2>2, <3>2 DEF Rank, Ranked
  <2>5. ASSUME NEW i \in Good(t) PROVE Append(c, x)[Rank(t, i)] = t[i].what
    <3>1. CASE i = n
      BY <1>1, <2>3, <2>4, <3>1
    <3>2. CASE i \in Good(s)
      BY <1>4, <2>3, <3>2 DEF Ranked
    <3>3. QED
      BY <2>1, <3>1, <3>2
  <2>6. QED
    BY <1>6, <2>2, <2>3, <2>5 DEF Ranked, t
<1>7. QED
  BY <1>5, <1>6

\* What the assumption says of the kind that is sampled.
LEMMA KindTyped ==
    ASSUME NEW x \in SampleKinds
    PROVE  /\ x \in [eta : BOOLEAN, lanes : Nat \ {0}, block : Nat \ {0}, first : Nat \ {0}, carry : BOOLEAN]
           /\ ~x.eta /\ ~x.carry => x.block % 3 = 0
           /\ x.eta => ~x.carry
           /\ SampleSize \in Nat \ {0} /\ MaxBlocks \in Nat
  BY RoutinesAssumption DEF Sample!SamplerAssumption

\* The bytes that are carried over are the last ones of the buffer.
LEMMA LeftoverBytes ==
    ASSUME NEW buf \in Seq(Nat), NEW len \in Nat, len = Len(buf),
           NEW off, args.carry => off = len % 3, ~args.carry => off = 0
    PROVE  /\ off \in Nat /\ off <= len
           /\ Sample!Leftover(buf) \in Seq(Nat) /\ Len(Sample!Leftover(buf)) = off
           /\ \A i \in 1 .. off : Sample!Leftover(buf)[i] = buf[(len - off) + i]
<1>1. CASE args.carry
  <2>1. off = len % 3 /\ off \in Nat /\ off <= len
    BY <1>1, Groups
  <2>2. Sample!Leftover(buf) = [i \in 1 .. off |-> buf[(len - off) + i]]
    BY <1>1 DEF Sample!Leftover
  <2>3. ASSUME NEW i \in 1 .. off PROVE buf[(len - off) + i] \in Nat
    <3>1. (len - off) + i \in 1 .. len
      BY <2>1
    <3>2. QED
      BY <3>1
  <2>4. [i \in 1 .. off |-> buf[(len - off) + i]] \in [1 .. off -> Nat]
    BY <2>3
  <2>5. QED
    BY <2>1, <2>2, <2>3, <2>4
<1>2. CASE ~args.carry
  <2>1. Sample!Leftover(buf) = <<>> /\ off = 0
    BY <1>2 DEF Sample!Leftover
  <2>2. QED
    BY <2>1
<1> QED
  BY <1>1, <1>2

LEMMA ShortSequences ==
    ASSUME NEW a \in Nat, NEW b \in Nat, NEW c \in Nat
    PROVE  <<a, b>> \in Seq(Nat) /\ <<a, b, c>> \in Seq(Nat)
  OBVIOUS

\* Nothing squeezed, nothing offered.
LEMMA SampleInit ==
    ASSUME Sample!Init
    PROVE  SampleInv
<1>1. /\ args \in SampleKinds
      /\ locals = [blocks |-> 0, buf |-> <<>>, lane |-> 0, pos |-> 0,
                   offered |-> [j \in 1 .. args.lanes |-> <<>>]]
      /\ out = [j \in 1 .. args.lanes |-> <<>>]
  BY DEF Sample!Init, Sample!Lanes
<1>2. /\ args.lanes \in Nat /\ args.block \in Nat /\ SampleSize \in Nat /\ MaxBlocks \in Nat
      /\ args.eta \in BOOLEAN /\ args.carry \in BOOLEAN
  BY <1>1, KindTyped
<1>3. SampleTyped
  BY <1>1, <1>2 DEF SampleTyped, SampleLocal
<1>4. BufferStart = 0 /\ Len(locals.buf) = 0
  BY <1>1, <1>2 DEF BufferStart
<1>5. BufferInOrder /\ PosInBuffer
  BY <1>1, <1>4 DEF BufferInOrder, PosInBuffer
<1>6. NoneMissed
  BY <1>1, <1>4 DEF NoneMissed, UsedBy
<1>7. OfferedInOrder
  BY <1>1 DEF OfferedInOrder
<1>8. Ranked(<<>>, <<>>)
  <2>1. Good(<<>>) = {}
    BY DEF Good
  <2>2. QED
    BY <2>1, FS_EmptySet DEF Ranked
<1>9. AllRanked
  BY <1>1, <1>8 DEF AllRanked
<1> QED
  BY <1>3, <1>5, <1>6, <1>7, <1>9 DEF SampleInv

\* The next blocks go behind the bytes that no group has used.
LEMMA RefillStep ==
    ASSUME SampleInv, Sample!Refill
    PROVE  SampleInv'
<1> DEFINE buf == locals.buf
           n == IF locals.blocks = 0 THEN args.first ELSE 1
           end == locals.blocks * args.block
           new == n * args.block
           off == IF args.carry THEN Len(buf) % 3 ELSE 0
           left == Sample!Leftover(buf)
           fresh == [i \in 1 .. new |-> end + i - 1]
<1>1. /\ args.lanes \in Nat \ {0} /\ args.block \in Nat \ {0} /\ args.first \in Nat \ {0}
      /\ args.eta \in BOOLEAN /\ args.carry \in BOOLEAN
      /\ ~args.eta /\ ~args.carry => args.block % 3 = 0
      /\ args.eta => ~args.carry
      /\ locals.blocks \in Nat /\ buf \in Seq(Nat) /\ Len(buf) \in Nat
      /\ locals.lane = 0
  BY KindTyped DEF SampleInv, SampleTyped, SampleLocal, Sample!Refill
<1>2. /\ n \in Nat \ {0} /\ end \in Nat /\ new \in Nat
      /\ (locals.blocks + n) * args.block = end + new
  <2>1. n \in Nat \ {0}
    BY <1>1
  <2> HIDE DEF n
  <2>2. QED
    BY <1>1, <2>1, Longer
<1>3. args.block % 3 = 0 => new % 3 = 0
  <2>1. PICK m \in Nat : m = n
    BY <1>2
  <2>2. SUFFICES ASSUME args.block % 3 = 0 PROVE (m * args.block) % 3 = 0
    BY <2>1
  <2>3. PICK q \in Nat : args.block = 3 * q
    <3>1. args.block = 3 * (args.block \div 3) /\ args.block \div 3 \in Nat
      BY <1>1, <2>2
    <3>2. QED
      BY <3>1
  <2>4. m * args.block = 3 * (m * q) /\ m * q \in Nat
    BY <2>3
  <2>5. QED
    BY <2>4
<1>4. /\ locals.blocks + n <= MaxBlocks
      /\ locals' = [locals EXCEPT !.blocks = @ + n, !.lane = 1, !.pos = 0,
                                  !.buf = left \o fresh]
      /\ args' = args /\ out' = out
  BY DEF Sample!Refill
<1> HIDE DEF n, end, new
<1>a. off = IF args.carry THEN Len(buf) % 3 ELSE 0
  OBVIOUS
<1>b. end = locals.blocks * args.block
  BY DEF end
<1> HIDE DEF off
<1>5. /\ off \in Nat /\ off <= Len(buf)
      /\ left \in Seq(Nat) /\ Len(left) = off
      /\ \A i \in 1 .. off : left[i] = buf[(Len(buf) - off) + i]
  <2>1. PICK m \in Nat : m = Len(buf)
    BY <1>1
  <2>2. buf \in Seq(Nat) /\ (args.carry => off = m % 3) /\ (~args.carry => off = 0)
    BY <1>1, <1>a, <2>1
  <2> HIDE DEF buf
  <2>3. /\ off \in Nat /\ off <= m
        /\ Sample!Leftover(buf) \in Seq(Nat) /\ Len(Sample!Leftover(buf)) = off
        /\ \A i \in 1 .. off : Sample!Leftover(buf)[i] = buf[(m - off) + i]
    BY <2>1, <2>2, LeftoverBytes
  <2>4. QED
    BY <2>1, <2>3
<1>6. fresh \in Seq(Nat) /\ Len(fresh) = new /\ \A i \in 1 .. new : fresh[i] = end + i - 1
  BY <1>2
<1> HIDE DEF left, fresh
<1>7. /\ locals'.blocks = locals.blocks + n /\ locals'.lane = 1 /\ locals'.pos = 0
      /\ locals'.offered = locals.offered /\ locals'.buf = left \o fresh
      /\ locals' = [blocks |-> locals'.blocks, buf |-> locals'.buf, lane |-> locals'.lane,
                    pos |-> locals'.pos, offered |-> locals'.offered]
  BY <1>4 DEF SampleInv, SampleTyped, SampleLocal
<1>8. /\ locals'.buf \in Seq(Nat) /\ Len(locals'.buf) = off + new
      /\ \A i \in 1 .. off : locals'.buf[i] = left[i]
      /\ \A i \in 1 .. new : locals'.buf[off + i] = fresh[i]
  <2>1. /\ left \o fresh \in Seq(Nat) /\ Len(left \o fresh) = Len(left) + Len(fresh)
        /\ \A i \in 1 .. Len(left) : (left \o fresh)[i] = left[i]
        /\ \A i \in 1 .. Len(fresh) : (left \o fresh)[Len(left) + i] = fresh[i]
    <3>1. left \in Seq(Nat) /\ fresh \in Seq(Nat)
      BY <1>5, <1>6
    <3>2. QED
      BY <3>1, JoinedBytes
  <2>2. QED
    BY <1>5, <1>6, <1>7, <2>1
<1>9. SampleTyped'
  <2>1. locals'.blocks \in 0 .. MaxBlocks
    BY <1>1, <1>2, <1>4, <1>7, KindTyped
  <2>2. locals'.lane \in 0 .. args.lanes
    BY <1>1, <1>7
  <2>3. locals.offered \in [1 .. args.lanes -> Seq(Offer)]
    BY DEF SampleInv, SampleTyped, SampleLocal
  <2>4. locals'.pos \in Nat /\ locals'.buf \in Seq(Nat)
    BY <1>7, <1>8
  <2>5. locals' \in SampleLocal'
    BY <1>4, <1>7, <2>1, <2>2, <2>3, <2>4 DEF SampleLocal
  <2>6. QED
    BY <1>4, <2>5 DEF SampleInv, SampleTyped
<1>10. /\ BufferStart = end - Len(buf) /\ BufferStart \in Nat
       /\ BufferStart' = end - off
       /\ ~args.eta => BufferStart % 3 = 0
       /\ ~args.eta /\ ~args.carry => Len(buf) % 3 = 0
  <2>1. BufferStart' = (end + new) - (off + new)
    BY <1>2, <1>4, <1>7, <1>8 DEF BufferStart
  <2>2. BufferStart' = end - off
    BY <1>2, <1>5, <2>1
  <2>3. BufferStart = end - Len(buf)
    BY <1>b DEF BufferStart
  <2>4. QED
    BY <2>2, <2>3 DEF BufferInOrder, SampleInv
<1> DEFINE first == BufferStart
           len == Len(buf)
<1>c. first \in Nat /\ len \in Nat /\ end = first + len
  BY <1>1, <1>2, <1>10
<1>d. off \in Nat /\ off <= len /\ (~args.eta => off = len % 3) /\ (args.eta => off = 0)
  BY <1>1, <1>5, <1>10, <1>a
<1>f. ~args.eta => first % 3 = 0
  BY <1>10
<1>g. BufferStart' = end - off
  BY <1>10
<1> HIDE DEF first, len
<1>e. BufferStart' = first + (len - off) /\ (~args.eta => first % 3 = 0)
  BY <1>c, <1>d, <1>f, <1>g
<1>11. BufferStart' \in Nat /\ (~args.eta => BufferStart' % 3 = 0)
  <2>1. BufferStart' \in Nat
    BY <1>c, <1>d, <1>e
  <2>2. ~args.eta => (first + len - (len % 3)) % 3 = 0
    BY <1>c, <1>e, Groups
  <2>3. QED
    BY <1>c, <1>d, <1>e, <2>1, <2>2
<1>12. ~args.eta /\ ~args.carry => Len(locals'.buf) % 3 = 0
  BY <1>1, <1>2, <1>3, <1>8, <1>a
<1>13. ASSUME NEW i \in 1 .. off + new PROVE locals'.buf[i] = BufferStart' + i - 1
  <2>1. CASE i <= off
    <3>1. i \in 1 .. off /\ (len - off) + i \in 1 .. len
      BY <1>c, <1>d, <2>1
    <3>2. buf[(len - off) + i] = first + ((len - off) + i) - 1
      BY <3>1 DEF SampleInv, BufferInOrder, first, len
    <3>3. locals'.buf[i] = buf[(len - off) + i]
      BY <1>5, <1>8, <3>1 DEF len
    <3>4. QED
      BY <1>c, <1>d, <1>e, <3>1, <3>2, <3>3
  <2>2. CASE i > off
    <3>1. i - off \in 1 .. new /\ i = off + (i - off)
      BY <1>2, <1>5, <2>2
    <3>2. locals'.buf[i] = end + (i - off) - 1
      BY <1>6, <1>8, <3>1
    <3>3. QED
      BY <1>2, <1>c, <1>d, <1>e, <3>1, <3>2
  <2>3. QED
    BY <1>2, <1>5, <2>1, <2>2
<1>14. BufferInOrder' /\ PosInBuffer'
  BY <1>4, <1>7, <1>8, <1>11, <1>12, <1>13, <1>2, <1>5 DEF BufferInOrder, PosInBuffer
<1>15. NoneMissed'
  <2> SUFFICES ASSUME NEW j \in 1 .. args.lanes, Len(out[j]) # SampleSize
               PROVE  IF args.eta THEN Len(locals.offered[j]) = 2 * BufferStart' + UsedBy(j)'
                      ELSE 3 * Len(locals.offered[j]) = BufferStart' + UsedBy(j)'
    BY <1>4, <1>7 DEF NoneMissed
  <2>1. UsedBy(j)' = 0
    BY <1>1, <1>7 DEF UsedBy
  <2>2. IF args.eta THEN Len(locals.offered[j]) = 2 * first + 2 * len
        ELSE 3 * Len(locals.offered[j]) = first + (len - (len % 3))
    BY <1>1 DEF SampleInv, NoneMissed, UsedBy, first, len
  <2> DEFINE k == Len(locals.offered[j])
  <2>3. k \in Nat
    BY DEF SampleInv, SampleTyped, SampleLocal
  <2> HIDE DEF k
  <2>4. CASE args.eta
    <3>1. k = 2 * first + 2 * len /\ BufferStart' = first + len
      BY <1>c, <1>d, <1>e, <2>2, <2>4 DEF k
    <3>2. k = 2 * BufferStart' + UsedBy(j)'
      BY <1>c, <2>1, <2>3, <3>1
    <3>3. QED
      BY <2>4, <3>2 DEF k
  <2>5. CASE ~args.eta
    <3>1. 3 * k = first + (len - (len % 3)) /\ BufferStart' = first + (len - (len % 3))
      BY <1>c, <1>d, <1>e, <2>2, <2>5 DEF k
    <3>2. 3 * k = BufferStart' + UsedBy(j)'
      BY <1>c, <1>11, <2>1, <2>3, <3>1
    <3>3. QED
      BY <2>5, <3>2 DEF k
  <2>6. QED
    BY <2>4, <2>5
<1>16. OfferedInOrder' /\ AllRanked'
  BY <1>4, <1>7 DEF SampleInv, OfferedInOrder, AllRanked, Sample!InOrder
<1> QED
  BY <1>9, <1>14, <1>15, <1>16 DEF SampleInv

\* The candidate is the next one of its stream.
LEMMA CandidateInOrder ==
    ASSUME SampleInv, locals.lane # 0, Sample!More
    PROVE  /\ Sample!Candidate \in Seq(Nat)
           /\ Sample!Candidate = Sample!InOrder(Len(locals.offered[locals.lane]) + 1)
<1> DEFINE j == locals.lane
           p == locals.pos
           k == Len(locals.offered[j])
           buf == locals.buf
<1>1. /\ args.eta \in BOOLEAN
      /\ j \in 1 .. args.lanes /\ p \in Nat /\ buf \in Seq(Nat) /\ Len(buf) \in Nat /\ k \in Nat
      /\ Len(out[j]) # SampleSize /\ Sample!Remaining
  <2>1. args.lanes \in Nat /\ SampleSize \in Nat /\ args.eta \in BOOLEAN
    BY KindTyped DEF SampleInv, SampleTyped
  <2>2. j \in 1 .. args.lanes
    BY <2>1 DEF SampleInv, SampleTyped, SampleLocal
  <2>3. Len(out[j]) < SampleSize /\ Sample!Remaining
    BY DEF Sample!More
  <2>4. locals.offered[j] \in Seq(Offer) /\ p \in Nat /\ buf \in Seq(Nat) /\ out[j] \in Seq(Seq(Nat))
    BY <2>2 DEF SampleInv, SampleTyped, SampleLocal
  <2>5. QED
    BY <2>1, <2>2, <2>3, <2>4
<1>2. /\ BufferStart \in Nat
      /\ \A i \in 1 .. Len(buf) : buf[i] = BufferStart + i - 1
      /\ IF args.eta THEN k = 2 * BufferStart + p ELSE 3 * k = BufferStart + p
  <2>1. ~(locals.lane = 0 \/ j < locals.lane)
    BY <1>1
  <2>2. UsedBy(j) = p
    BY <2>1 DEF UsedBy
  <2>3. IF args.eta THEN k = 2 * BufferStart + p ELSE 3 * k = BufferStart + p
    BY <1>1, <2>2 DEF SampleInv, NoneMissed
  <2>4. QED
    BY <2>3 DEF SampleInv, BufferInOrder
<1>a. p = locals.pos /\ k = Len(locals.offered[j]) /\ j = locals.lane /\ buf = locals.buf
  OBVIOUS
<1> DEFINE first == BufferStart
           len == Len(buf)
<1>b. /\ first \in Nat /\ len \in Nat
      /\ \A i \in 1 .. len : buf[i] = first + i - 1
      /\ IF args.eta THEN k = 2 * first + p ELSE 3 * k = first + p
  BY <1>1, <1>2
<1> HIDE DEF p, k, j, buf, first, len
<1>3. CASE args.eta
  <2>1. p < 2 * len
    BY <1>1, <1>3, <1>a DEF Sample!Remaining, len
  <2>2. (p \div 2) + 1 \in 1 .. len /\ p % 2 \in Nat /\ p \div 2 \in Nat
    BY <1>1, <1>b, <2>1, Nibbles
  <2>3. Sample!Candidate = <<buf[(p \div 2) + 1], p % 2>>
    BY <1>3, <1>a DEF Sample!Candidate
  <2>4. buf[(p \div 2) + 1] = first + (p \div 2)
    BY <1>b, <2>2
  <2>5. (k + 1) - 1 = 2 * first + p
    BY <1>1, <1>b, <1>3
  <2>6. ((k + 1) - 1) \div 2 = first + (p \div 2) /\ ((k + 1) - 1) % 2 = p % 2
    BY <1>1, <1>b, <2>5, Nibbles
  <2>7. Sample!InOrder(k + 1) = <<((k + 1) - 1) \div 2, ((k + 1) - 1) % 2>>
    BY <1>3 DEF Sample!InOrder
  <2>8. first + (p \div 2) \in Nat
    BY <1>b, <2>2
  <2>9. Sample!Candidate = <<first + (p \div 2), p % 2>>
    BY <2>3, <2>4
  <2>10. Sample!InOrder(k + 1) = <<first + (p \div 2), p % 2>>
    BY <2>6, <2>7
  <2>11. Sample!Candidate \in Seq(Nat) /\ Sample!Candidate = Sample!InOrder(k + 1)
    BY <2>2, <2>8, <2>9, <2>10, ShortSequences
  <2>12. QED
    BY <2>11 DEF k, j
<1>4. CASE ~args.eta
  <2>1. p + 3 <= len
    BY <1>1, <1>4, <1>a DEF Sample!Remaining, len
  <2>2. Sample!Candidate = <<buf[p + 1], buf[p + 2], buf[p + 3]>>
    BY <1>4, <1>a DEF Sample!Candidate
  <2>3. /\ buf[p + 1] = first + p /\ buf[p + 2] = first + p + 1
        /\ buf[p + 3] = first + p + 2
    BY <1>1, <1>b, <2>1
  <2>4. /\ 3 * (k + 1) - 3 = first + p /\ 3 * (k + 1) - 2 = first + p + 1
        /\ 3 * (k + 1) - 1 = first + p + 2
    BY <1>1, <1>b, <1>4
  <2>5. Sample!InOrder(k + 1) = <<3 * (k + 1) - 3, 3 * (k + 1) - 2, 3 * (k + 1) - 1>>
    BY <1>4 DEF Sample!InOrder
  <2>6. /\ Sample!Candidate = <<first + p, first + p + 1, first + p + 2>>
        /\ Sample!InOrder(k + 1) = <<first + p, first + p + 1, first + p + 2>>
    BY <2>2, <2>3, <2>4, <2>5
  <2>7. first + p \in Nat /\ first + p + 1 \in Nat /\ first + p + 2 \in Nat
    BY <1>1, <1>b
  <2>8. Sample!Candidate \in Seq(Nat) /\ Sample!Candidate = Sample!InOrder(k + 1)
    BY <2>6, <2>7, ShortSequences
  <2>9. QED
    BY <2>8 DEF k, j
<1> QED
  BY <1>1, <1>3, <1>4

\* A candidate is offered to the lane, and the next one follows it.
LEMMA RejectStep ==
    ASSUME SampleInv, NEW ok \in BOOLEAN, Sample!Reject(ok)
    PROVE  SampleInv'
<1> DEFINE j == locals.lane
           x == Sample!Candidate
           w == IF args.eta THEN 1 ELSE 3
<1>1. /\ j # 0 /\ Sample!More /\ args' = args
      /\ locals' = [locals EXCEPT !.pos = IF args.eta THEN @ + 1 ELSE @ + 3,
                                  !.offered[j] = Append(@, [what |-> x, ok |-> ok])]
      /\ out' = IF ok THEN [out EXCEPT ![j] = Append(@, x)] ELSE out
  BY DEF Sample!Reject
<1>2. /\ args.eta \in BOOLEAN /\ args.lanes \in Nat /\ SampleSize \in Nat
      /\ j \in 1 .. args.lanes /\ locals.pos \in Nat /\ Len(locals.buf) \in Nat
      /\ locals.offered \in [1 .. args.lanes -> Seq(Offer)]
      /\ out \in [1 .. args.lanes -> Seq(Seq(Nat))]
  <2>1. args.lanes \in Nat /\ SampleSize \in Nat /\ args.eta \in BOOLEAN
    BY KindTyped DEF SampleInv, SampleTyped
  <2>2. QED
    BY <1>1, <2>1 DEF SampleInv, SampleTyped, SampleLocal
<1>3. x \in Seq(Nat) /\ x = Sample!InOrder(Len(locals.offered[j]) + 1)
  BY <1>1, CandidateInOrder
<1>4. Len(out[j]) < SampleSize /\ Sample!Remaining
  BY <1>1 DEF Sample!More
<1> HIDE DEF x
<1>5. /\ locals'.blocks = locals.blocks /\ locals'.buf = locals.buf /\ locals'.lane = j
      /\ locals'.pos = locals.pos + w
      /\ locals'.offered = [locals.offered EXCEPT ![j] = Append(@, [what |-> x, ok |-> ok])]
      /\ locals' = [blocks |-> locals'.blocks, buf |-> locals'.buf, lane |-> locals'.lane,
                    pos |-> locals'.pos, offered |-> locals'.offered]
  BY <1>1, <1>2 DEF SampleInv, SampleTyped, SampleLocal
<1>6. /\ locals'.offered \in [1 .. args.lanes -> Seq(Offer)]
      /\ locals'.offered[j] = Append(locals.offered[j], [what |-> x, ok |-> ok])
      /\ Len(locals'.offered[j]) = Len(locals.offered[j]) + 1
      /\ \A i \in 1 .. args.lanes : i # j => locals'.offered[i] = locals.offered[i]
  <2>1. [what |-> x, ok |-> ok] \in Offer
    BY <1>3 DEF Offer
  <2>2. QED
    BY <1>2, <1>5, <2>1
<1>7. /\ out' \in [1 .. args.lanes -> Seq(Seq(Nat))]
      /\ out'[j] = IF ok THEN Append(out[j], x) ELSE out[j]
      /\ Len(out'[j]) <= SampleSize
      /\ \A i \in 1 .. args.lanes : i # j => out'[i] = out[i]
  BY <1>1, <1>2, <1>3, <1>4
<1>8. SampleTyped'
  <2>1. locals'.blocks \in 0 .. MaxBlocks /\ locals'.buf \in Seq(Nat) /\ locals'.lane \in 0 .. args.lanes
    BY <1>5 DEF SampleInv, SampleTyped, SampleLocal
  <2>2. locals'.pos \in Nat
    BY <1>2, <1>5
  <2>3. locals' \in SampleLocal'
    BY <1>1, <1>5, <1>6, <2>1, <2>2 DEF SampleLocal
  <2>4. ASSUME NEW i \in 1 .. args.lanes PROVE Len(out'[i]) <= SampleSize
    <3>1. CASE i = j
      BY <1>7, <3>1
    <3>2. CASE i # j
      BY <1>7, <3>2 DEF SampleInv, SampleTyped
    <3>3. QED
      BY <3>1, <3>2
  <2>5. QED
    BY <1>1, <1>7, <2>3, <2>4 DEF SampleInv, SampleTyped
<1>9. BufferInOrder' /\ BufferStart' = BufferStart /\ BufferStart \in Nat
  BY <1>1, <1>5 DEF SampleInv, BufferInOrder, BufferStart
<1>10. PosInBuffer'
  BY <1>1, <1>2, <1>4, <1>5 DEF SampleInv, PosInBuffer, Sample!Remaining
<1>11. NoneMissed'
  <2> SUFFICES ASSUME NEW i \in 1 .. args.lanes, Len(out'[i]) # SampleSize
               PROVE  IF args.eta THEN Len(locals'.offered[i]) = 2 * BufferStart + UsedBy(i)'
                      ELSE 3 * Len(locals'.offered[i]) = BufferStart + UsedBy(i)'
    BY <1>1, <1>9 DEF NoneMissed
  <2>1. CASE i = j
    <3>1. UsedBy(i)' = locals.pos + w /\ UsedBy(i) = locals.pos
      <4>1. ~(j = 0 \/ i < j)
        BY <1>2, <2>1
      <4>2. QED
        BY <1>5, <2>1, <4>1 DEF UsedBy
    <3> DEFINE k == Len(locals.offered[j])
    <3>2. Len(out[j]) # SampleSize
      BY <1>2, <1>4
    <3>3. IF args.eta THEN k = 2 * BufferStart + locals.pos
          ELSE 3 * k = BufferStart + locals.pos
      BY <1>2, <2>1, <3>1, <3>2 DEF SampleInv, NoneMissed
    <3>4. k \in Nat /\ Len(locals'.offered[i]) = k + 1
      BY <1>2, <1>6, <2>1
    <3>a. (args.eta => w = 1) /\ (~args.eta => w = 3)
      OBVIOUS
    <3> HIDE DEF k, w
    <3>5. CASE args.eta
      <4>1. Len(locals'.offered[i]) = 2 * BufferStart + (locals.pos + w)
        BY <1>2, <1>9, <3>3, <3>4, <3>5, <3>a
      <4>2. QED
        BY <3>1, <3>5, <4>1
    <3>6. CASE ~args.eta
      <4>0. 3 * k = BufferStart + locals.pos /\ w = 3
        BY <3>3, <3>6, <3>a
      <4>a. 3 * (k + 1) = BufferStart + (locals.pos + w)
        BY <1>2, <1>9, <3>4, <4>0, Groups
      <4>1. 3 * Len(locals'.offered[i]) = BufferStart + (locals.pos + w)
        BY <3>4, <4>a
      <4>2. QED
        BY <3>1, <3>6, <4>1
    <3>7. QED
      BY <3>5, <3>6
  <2>2. CASE i # j
    <3>1. UsedBy(i)' = UsedBy(i) /\ locals'.offered[i] = locals.offered[i] /\ out'[i] = out[i]
      BY <1>1, <1>2, <1>5, <1>6, <1>7, <2>2 DEF UsedBy
    <3>2. QED
      BY <3>1 DEF SampleInv, NoneMissed
  <2>3. QED
    BY <2>1, <2>2
<1>12. OfferedInOrder'
  <2> SUFFICES ASSUME NEW i \in 1 .. args.lanes, NEW m \in DOMAIN locals'.offered[i]
               PROVE  locals'.offered[i][m].what = Sample!InOrder(m)
    <3>1. args' = args
      BY <1>1
    <3>2. QED
      BY <3>1, Zenon DEF OfferedInOrder, Sample!InOrder
  <2>1. CASE i # j
    BY <1>6, <2>1 DEF SampleInv, OfferedInOrder
  <2>2. CASE i = j
    <3>1. /\ locals.offered[j] \in Seq(Offer) /\ Len(locals.offered[j]) \in Nat
          /\ DOMAIN locals.offered[j] = 1 .. Len(locals.offered[j])
      BY <1>2
    <3>2. m \in 1 .. Len(locals.offered[j]) + 1
      BY <1>6, <2>2, <3>1
    <3>3. CASE m = Len(locals.offered[j]) + 1
      BY <1>3, <1>6, <2>2, <3>1, <3>3
    <3>4. CASE m # Len(locals.offered[j]) + 1
      <4>1. m \in DOMAIN locals.offered[j] /\ locals'.offered[j][m] = locals.offered[j][m]
        BY <1>6, <3>1, <3>2, <3>4
      <4>2. QED
        BY <1>2, <2>2, <4>1 DEF SampleInv, OfferedInOrder
    <3>5. QED
      BY <3>3, <3>4
  <2>3. QED
    BY <2>1, <2>2
<1>13. AllRanked'
  <2> SUFFICES ASSUME NEW i \in 1 .. args.lanes PROVE Ranked(locals'.offered[i], out'[i])
    BY <1>1 DEF AllRanked
  <2>1. CASE i = j
    <3>1. Ranked(locals.offered[j], out[j])
      BY <1>2 DEF SampleInv, AllRanked
    <3>2. locals.offered[j] \in Seq(Offer) /\ out[j] \in Seq(Seq(Nat))
      BY <1>2
    <3>3. QED
      BY <1>3, <1>6, <1>7, <2>1, <3>1, <3>2, RankedAppend
  <2>2. CASE i # j
    BY <1>6, <1>7, <2>2 DEF SampleInv, AllRanked
  <2>3. QED
    BY <2>1, <2>2
<1> QED
  BY <1>8, <1>9, <1>10, <1>11, <1>12, <1>13 DEF SampleInv

\* The next lane reads the same stretch of its own stream.
LEMMA NextLaneStep ==
    ASSUME SampleInv, Sample!NextLane
    PROVE  SampleInv'
<1> DEFINE j == locals.lane
<1>1. /\ j # 0 /\ ~Sample!More /\ args' = args /\ out' = out
      /\ locals' = [locals EXCEPT !.pos = 0, !.lane = IF @ = args.lanes THEN 0 ELSE @ + 1]
  BY DEF Sample!NextLane
<1>2. /\ args.eta \in BOOLEAN /\ args.lanes \in Nat /\ SampleSize \in Nat
      /\ j \in 1 .. args.lanes /\ locals.pos \in Nat /\ Len(locals.buf) \in Nat
      /\ Len(out[j]) \in Nat /\ Len(out[j]) <= SampleSize
      /\ BufferStart \in Nat /\ (~args.eta => BufferStart % 3 = 0)
  <2>1. args.lanes \in Nat /\ SampleSize \in Nat /\ args.eta \in BOOLEAN
    BY KindTyped DEF SampleInv, SampleTyped
  <2>2. j \in 1 .. args.lanes
    BY <1>1, <2>1 DEF SampleInv, SampleTyped, SampleLocal
  <2>3. QED
    BY <2>1, <2>2 DEF SampleInv, SampleTyped, SampleLocal, BufferInOrder
<1>3. /\ locals'.blocks = locals.blocks /\ locals'.buf = locals.buf /\ locals'.pos = 0
      /\ locals'.lane = (IF j = args.lanes THEN 0 ELSE j + 1)
      /\ locals'.offered = locals.offered
      /\ locals' = [blocks |-> locals'.blocks, buf |-> locals'.buf, lane |-> locals'.lane,
                    pos |-> locals'.pos, offered |-> locals'.offered]
  BY <1>1 DEF SampleInv, SampleTyped, SampleLocal
<1>4. SampleTyped'
  <2>1. locals'.lane \in 0 .. args.lanes
    BY <1>2, <1>3
  <2>2. QED
    BY <1>1, <1>3, <2>1 DEF SampleInv, SampleTyped, SampleLocal
<1>5. BufferInOrder' /\ BufferStart' = BufferStart
  BY <1>1, <1>3 DEF SampleInv, BufferInOrder, BufferStart
<1>6. PosInBuffer'
  BY <1>1, <1>2, <1>3 DEF PosInBuffer
<1>7. \/ Len(out[j]) = SampleSize
      \/ locals.pos = IF args.eta THEN 2 * Len(locals.buf)
                      ELSE Len(locals.buf) - (Len(locals.buf) % 3)
  <2> SUFFICES ASSUME Len(out[j]) # SampleSize
               PROVE  locals.pos = IF args.eta THEN 2 * Len(locals.buf)
                                   ELSE Len(locals.buf) - (Len(locals.buf) % 3)
    OBVIOUS
  <2>1. ~Sample!Remaining
    BY <1>1, <1>2 DEF Sample!More
  <2>2. CASE args.eta
    BY <1>2, <2>1, <2>2 DEF SampleInv, PosInBuffer, Sample!Remaining
  <2>3. CASE ~args.eta
    <3>1. /\ locals.pos <= Len(locals.buf) /\ locals.pos % 3 = 0
          /\ ~(locals.pos + 3 <= Len(locals.buf))
      BY <2>1, <2>3 DEF SampleInv, PosInBuffer, Sample!Remaining
    <3>2. locals.pos + 3 > Len(locals.buf)
      BY <1>2, <3>1
    <3>3. QED
      BY <1>2, <2>3, <3>1, <3>2, Groups
  <2>4. QED
    BY <1>2, <2>2, <2>3
<1>8. NoneMissed'
  <2> SUFFICES ASSUME NEW i \in 1 .. args.lanes, Len(out[i]) # SampleSize
               PROVE  UsedBy(i)' = UsedBy(i)
    BY <1>1, <1>3, <1>5 DEF SampleInv, NoneMissed
  <2>0. i \in Nat /\ j \in Nat /\ j >= 1 /\ j <= args.lanes /\ i >= 1 /\ i <= args.lanes
    BY <1>2
  <2> DEFINE all == IF args.eta THEN 2 * Len(locals.buf)
                    ELSE Len(locals.buf) - (Len(locals.buf) % 3)
             before == locals'.lane = 0 \/ i < locals'.lane
  <2>a. UsedBy(i)' = IF before THEN all ELSE IF i = locals'.lane THEN 0 ELSE 0
    BY <1>1, <1>3 DEF UsedBy
  <2>b. UsedBy(i) = IF locals.lane = 0 \/ i < locals.lane THEN all
                    ELSE IF i = locals.lane THEN locals.pos ELSE 0
    BY DEF UsedBy
  <2>c. before <=> i <= j
    <3>1. CASE j = args.lanes
      BY <1>3, <2>0, <3>1
    <3>2. CASE j # args.lanes
      <4>1. locals'.lane = j + 1 /\ j + 1 # 0
        BY <1>3, <2>0, <3>2
      <4>2. QED
        BY <2>0, <4>1
    <3>3. QED
      BY <3>1, <3>2
  <2> HIDE DEF before
  <2>1. CASE i = j
    <3>1. locals.pos = all
      BY <1>7, <2>1
    <3> HIDE DEF all
    <3>2. QED
      BY <1>1, <2>0, <2>1, <2>a, <2>b, <2>c, <3>1
  <2>2. CASE i # j
    <3> HIDE DEF all
    <3>1. QED
      BY <1>1, <2>0, <2>2, <2>a, <2>b, <2>c
  <2>3. QED
    BY <2>1, <2>2
<1>9. OfferedInOrder' /\ AllRanked'
  BY <1>1, <1>3 DEF SampleInv, OfferedInOrder, AllRanked, Sample!InOrder
<1> QED
  BY <1>4, <1>5, <1>6, <1>8, <1>9 DEF SampleInv

\* A run of the sampler is a behaviour of Sampler.
LEMMA SampleRuns ==
    /\ Init /\ routine = "sample" => Sample!Init
    /\ [Next]_vars /\ routine' = "sample" => routine = "sample" /\ [Sample!Next]_Sample!vars
<1>1. Init /\ routine = "sample" => Sample!Init
  BY DEF Init
<1>2. [Next]_vars /\ routine' = "sample" => routine = "sample"
  BY DEF Next, SignNext, vars
<1>3. [Next]_vars /\ routine = "sample" => [Sample!Next]_Sample!vars
  BY DEF Next, SignNext, vars, Sample!vars
<1> QED
  BY <1>1, <1>2, <1>3

SampleAlways == routine = "sample" => SampleInv

\* The invariant of the buffer, the lanes and what they were offered.
THEOREM SampleInductive == Spec => []SampleAlways
<1>1. Init => SampleAlways
  BY SampleRuns, SampleInit DEF SampleAlways
<1>2. SampleAlways /\ [Next]_vars => SampleAlways'
  <2> SUFFICES ASSUME SampleInv, [Sample!Next]_Sample!vars PROVE SampleInv'
    BY SampleRuns DEF SampleAlways
  <2>1. CASE Sample!Refill
    BY <2>1, RefillStep
  <2>2. ASSUME NEW ok \in BOOLEAN, Sample!Reject(ok) PROVE SampleInv'
    BY <2>2, RejectStep
  <2>3. CASE Sample!NextLane
    BY <2>3, NextLaneStep
  <2>4. CASE UNCHANGED Sample!vars
    BY <2>4 DEF Sample!vars, SampleInv, SampleTyped, SampleLocal, BufferInOrder, BufferStart,
        PosInBuffer, NoneMissed, UsedBy, OfferedInOrder, Sample!InOrder, AllRanked
  <2>5. QED
    BY <2>1, <2>2, <2>3, <2>4 DEF Sample!Next
<1>3. QED
  BY <1>1, <1>2, PTL DEF Spec

\* No lane is written beyond its end, and no other index leaves its range.
THEOREM SampleTypeOK == Spec => [](routine = "sample" => Sample!TypeOK)
<1>1. SampleInv => Sample!TypeOK
  BY DEF SampleInv, SampleTyped, SampleLocal, Sample!TypeOK, Sample!Lanes
<1>2. SampleAlways => (routine = "sample" => Sample!TypeOK)
  BY <1>1 DEF SampleAlways
<1>3. QED
  BY <1>2, SampleInductive, PTL

\* The instance counts as FiniteSets does.
LEMMA SampleCardinality ==
    ASSUME NEW S
    PROVE  Sample!Cardinality(S) = Cardinality(S)
  BY Zenon DEF Sample!Cardinality, Cardinality, Sample!IsFiniteSet, IsFiniteSet

\* Every lane holds the first acceptable candidates of its stream, in order,
\* for every block size, number of lanes and outcome of the tests.
THEOREM FirstAcceptedAlwaysWin == Spec => []FirstAcceptedWin
<1>1. SampleInv => Sample!FirstAcceptedWin
  <2> SUFFICES ASSUME SampleInv, NEW j \in 1 .. args.lanes
               PROVE  /\ \A i \in DOMAIN locals.offered[j] :
                            locals.offered[j][i].what = Sample!InOrder(i)
                      /\ Len(out[j]) = Cardinality(Good(locals.offered[j]))
                      /\ \A i \in Good(locals.offered[j]) :
                            out[j][Rank(locals.offered[j], i)] = Sample!InOrder(i)
    BY SampleCardinality DEF Sample!FirstAcceptedWin, Sample!Lanes, Good, Rank
  <2>1. \A i \in DOMAIN locals.offered[j] : locals.offered[j][i].what = Sample!InOrder(i)
    BY DEF SampleInv, OfferedInOrder
  <2>2. QED
    BY <2>1 DEF SampleInv, AllRanked, Ranked, Good
<1>2. SampleAlways => FirstAcceptedWin
  BY <1>1 DEF SampleAlways, FirstAcceptedWin
<1>3. QED
  BY <1>2, SampleInductive, PTL

-----------------------------------------------------------------------------
\* How many signs have been placed.
SignsUsed == locals.i - (ChallengeSize - Tau)

\* Coefficients that hold one of the first k signs or nothing, and nothing from
\* i on.
ZeroFrom(c, i, k) ==
    \A x \in 0 .. ChallengeSize - 1 : c[x] <= k /\ (x >= i => c[x] = 0)

\* Sign s stands at position x and nowhere else.
StandsAt(c, s, x) == c[x] = s /\ \A y \in 0 .. ChallengeSize - 1 : c[y] = s => y = x

AllStand(c, k) == \A s \in 1 .. k : \E x \in 0 .. ChallengeSize - 1 : StandsAt(c, s, x)

(***************************************************************************)
(* The inductive invariant: the place in the stream follows from how many  *)
(* bytes were read, behind the shuffle there are only zeros, and each sign *)
(* used so far stands at one position.                                     *)
(***************************************************************************)
ChallengeLocal == [i : ChallengeSize - Tau .. ChallengeSize, pos : 0 .. ChallengeRate, block : Nat,
          read : Seq(Nat)]

ChallengeTyped ==
    /\ locals \in ChallengeLocal
    /\ out \in [0 .. ChallengeSize - 1 -> 0 .. Tau]

Place == locals.block * ChallengeRate + locals.pos = SignBytes + Len(locals.read)

Shuffled == ZeroFrom(out, locals.i, SignsUsed) /\ AllStand(out, SignsUsed)

ChallengeInv == ChallengeTyped /\ Place /\ Chal!BytesReadOnce /\ Shuffled

\* The buffer is squeezed again before the next byte; the place stays.
LEMMA RefillKeepsPlace ==
    ASSUME Chal!ChallengeAssumption, ChallengeTyped, NEW s, s = Chal!Refilled(locals)
    PROVE  /\ s.i = locals.i /\ s.read = locals.read /\ s.block \in Nat
           /\ s.pos \in 0 .. ChallengeRate - 1
           /\ s.block * ChallengeRate + s.pos = locals.block * ChallengeRate + locals.pos
           /\ s \in ChallengeLocal
<1>1. /\ ChallengeRate \in Nat /\ ChallengeRate > 0
      /\ locals.pos \in 0 .. ChallengeRate /\ locals.block \in Nat
      /\ locals \in ChallengeLocal
  BY DEF Chal!ChallengeAssumption, ChallengeTyped, ChallengeLocal
<1>2. CASE locals.pos >= ChallengeRate
  <2>1. s = [locals EXCEPT !.block = locals.block + 1, !.pos = 0]
    BY <1>2 DEF Chal!Refilled
  <2>2. /\ s.i = locals.i /\ s.read = locals.read /\ s.block = locals.block + 1
        /\ s.pos = 0
        /\ s \in ChallengeLocal
    <3>1. locals.block + 1 \in Nat /\ 0 \in 0 .. ChallengeRate
      BY <1>1
    <3>2. QED
      BY <1>1, <2>1, <3>1 DEF ChallengeLocal
  <2>3. (locals.block + 1) * ChallengeRate = locals.block * ChallengeRate + ChallengeRate
    BY <1>1
  <2>4. locals.pos = ChallengeRate
    BY <1>1, <1>2
  <2>5. locals.block * ChallengeRate \in Nat
    BY <1>1
  <2>6. QED
    BY <1>1, <2>2, <2>3, <2>4, <2>5
<1>3. CASE ~(locals.pos >= ChallengeRate)
  BY <1>1, <1>3 DEF Chal!Refilled
<1>4. QED
  BY <1>2, <1>3

\* A placement: whoever stood at b goes on to i, where there was nobody.
LEMMA PlacedShuffles ==
    ASSUME ChallengeSize \in Nat, Tau \in 1 .. ChallengeSize,
           NEW c \in [0 .. ChallengeSize - 1 -> 0 .. Tau],
           NEW i \in 0 .. ChallengeSize - 1, NEW k \in 0 .. Tau - 1, i - (ChallengeSize - Tau) = k,
           ZeroFrom(c, i, k), AllStand(c, k),
           NEW b \in 0 .. i, NEW d, d = Chal!Placed(c, i, b)
    PROVE  d \in [0 .. ChallengeSize - 1 -> 0 .. Tau] /\ ZeroFrom(d, i + 1, k + 1) /\ AllStand(d, k + 1)
<1> DEFINE new == i - (ChallengeSize - Tau) + 1
<1>1. new = k + 1 /\ new \in 1 .. Tau /\ b \in 0 .. ChallengeSize - 1
  OBVIOUS
<1>2. d = [[c EXCEPT ![i] = c[b]] EXCEPT ![b] = new]
  BY DEF Chal!Placed
<1> HIDE DEF new
<1>3. c[i] = 0 /\ \A x \in 0 .. ChallengeSize - 1 : c[x] \in Nat /\ c[x] <= k
  BY DEF ZeroFrom
<1>4. /\ d \in [0 .. ChallengeSize - 1 -> 0 .. Tau]
      /\ d[b] = new
      /\ i # b => d[i] = c[b]
      /\ \A x \in 0 .. ChallengeSize - 1 : x # i /\ x # b => d[x] = c[x]
  <2>1. PICK e : e = [c EXCEPT ![i] = c[b]]
    OBVIOUS
  <2>2. /\ e \in [0 .. ChallengeSize - 1 -> 0 .. Tau] /\ e[i] = c[b]
        /\ \A x \in 0 .. ChallengeSize - 1 : x # i => e[x] = c[x]
    BY <1>1, <2>1
  <2>3. d = [e EXCEPT ![b] = new]
    BY <1>2, <2>1, Zenon
  <2>4. QED
    BY <1>1, <2>2, <2>3
<1>5. ASSUME NEW x \in 0 .. ChallengeSize - 1
      PROVE  d[x] <= k + 1 /\ (x >= i + 1 => d[x] = 0)
  <2>1. CASE x = b
    BY <1>1, <1>4, <2>1
  <2>2. CASE x # b /\ x = i
    BY <1>1, <1>3, <1>4, <2>2
  <2>3. CASE x # b /\ x # i
    BY <1>3, <1>4, <2>3 DEF ZeroFrom
  <2>4. QED
    BY <2>1, <2>2, <2>3
<1>6. StandsAt(d, k + 1, b)
  <2>1. ASSUME NEW y \in 0 .. ChallengeSize - 1, y # b PROVE d[y] # k + 1
    <3>1. d[y] = c[y] \/ d[y] = c[b]
      BY <1>4, <2>1
    <3>2. c[y] <= k /\ c[b] <= k /\ c[y] \in Nat /\ c[b] \in Nat
      BY <1>1, <1>3
    <3>3. QED
      BY <3>1, <3>2
  <2>2. QED
    BY <1>1, <1>4, <2>1 DEF StandsAt
<1>7. ASSUME NEW s \in 1 .. k
      PROVE  \E x \in 0 .. ChallengeSize - 1 : StandsAt(d, s, x)
  <2>1. PICK x \in 0 .. ChallengeSize - 1 : StandsAt(c, s, x)
    BY DEF AllStand
  <2>2. s # k + 1 /\ s # 0
    OBVIOUS
  <2>3. x # i
    BY <1>3, <2>1, <2>2 DEF StandsAt
  <2>4. CASE x = b
    <3>1. d[i] = s
      BY <1>4, <2>1, <2>3, <2>4 DEF StandsAt
    <3>2. \A y \in 0 .. ChallengeSize - 1 : d[y] = s => y = i
      BY <1>1, <1>4, <2>1, <2>2, <2>4 DEF StandsAt
    <3>3. QED
      BY <3>1, <3>2 DEF StandsAt
  <2>5. CASE x # b
    <3>1. d[x] = s
      BY <1>4, <2>1, <2>3, <2>5 DEF StandsAt
    <3>2. \A y \in 0 .. ChallengeSize - 1 : d[y] = s => y = x
      BY <1>1, <1>4, <2>1, <2>2, <2>5 DEF StandsAt
    <3>3. QED
      BY <3>1, <3>2 DEF StandsAt
  <2>6. QED
    BY <2>4, <2>5
<1>8. \A s \in 1 .. k + 1 : s = k + 1 \/ s \in 1 .. k
  OBVIOUS
<1>9. AllStand(d, k + 1)
  BY <1>1, <1>6, <1>7, <1>8 DEF AllStand
<1>10. QED
  BY <1>4, <1>5, <1>9 DEF ZeroFrom

\* A byte of the stream: too large, or where the next sign goes.
LEMMA DrawStep ==
    ASSUME Chal!ChallengeAssumption, ChallengeInv, NEW b \in 0 .. ChallengeSize - 1, Chal!Draw(b)
    PROVE  ChallengeInv'
<1> DEFINE s == Chal!Refilled(locals)
           byte == s.block * ChallengeRate + s.pos
<1>1. /\ locals.i < ChallengeSize
      /\ locals' = [s EXCEPT !.pos = s.pos + 1, !.read = Append(s.read, byte),
                             !.i = IF b > s.i THEN s.i ELSE s.i + 1]
      /\ out' = IF b > s.i THEN out ELSE Chal!Placed(out, s.i, b)
  BY DEF Chal!Draw
<1>2. /\ s.i = locals.i /\ s.read = locals.read /\ s.block \in Nat
      /\ s.pos \in 0 .. ChallengeRate - 1
      /\ byte = locals.block * ChallengeRate + locals.pos
      /\ s \in ChallengeLocal
  BY RefillKeepsPlace DEF ChallengeInv
<1> HIDE DEF s
<1>3. /\ ChallengeRate \in Nat /\ SignBytes \in Nat /\ ChallengeSize \in Nat /\ Tau \in 1 .. ChallengeSize
      /\ locals.read \in Seq(Nat) /\ locals.i \in ChallengeSize - Tau .. ChallengeSize
      /\ out \in [0 .. ChallengeSize - 1 -> 0 .. Tau]
  BY DEF Chal!ChallengeAssumption, ChallengeInv, ChallengeTyped, ChallengeLocal
<1>4. byte = SignBytes + Len(locals.read) /\ byte \in Nat
  BY <1>2, <1>3 DEF ChallengeInv, Place
<1> HIDE DEF byte
<1>5. /\ locals'.pos = s.pos + 1 /\ locals'.block = s.block
      /\ locals'.read = Append(locals.read, byte)
      /\ locals'.i = IF b > locals.i THEN locals.i ELSE locals.i + 1
      /\ locals' = [i |-> locals'.i, pos |-> locals'.pos, block |-> locals'.block, read |-> locals'.read]
  BY <1>1, <1>2 DEF ChallengeLocal
<1>6. locals' \in ChallengeLocal
  <2>1. locals'.i \in ChallengeSize - Tau .. ChallengeSize
    <3>1. locals.i + 1 \in ChallengeSize - Tau .. ChallengeSize
      BY <1>1, <1>3
    <3>2. QED
      BY <1>3, <1>5, <3>1
  <2>2. locals'.pos \in 0 .. ChallengeRate
    BY <1>2, <1>3, <1>5
  <2>3. locals'.read \in Seq(Nat)
    BY <1>3, <1>4, <1>5
  <2>4. QED
    BY <1>2, <1>5, <2>1, <2>2, <2>3 DEF ChallengeLocal
<1>7. Place'
  <2>1. Len(locals'.read) = Len(locals.read) + 1 /\ Len(locals.read) \in Nat
    BY <1>3, <1>4, <1>5
  <2>2. s.block * ChallengeRate + s.pos = SignBytes + Len(locals.read)
    BY <1>4 DEF byte
  <2>3. s.block * ChallengeRate \in Nat /\ s.pos \in Nat
    BY <1>2, <1>3
  <2>4. s.block * ChallengeRate + (s.pos + 1) = SignBytes + (Len(locals.read) + 1)
    <3> DEFINE p == s.block * ChallengeRate
    <3>1. p \in Nat /\ p + s.pos = SignBytes + Len(locals.read)
      BY <2>2, <2>3
    <3>2. SignBytes \in Nat /\ Len(locals.read) \in Nat /\ s.pos \in Nat
      BY <1>3, <2>1, <2>3
    <3> HIDE DEF p
    <3>3. p + (s.pos + 1) = SignBytes + (Len(locals.read) + 1)
      BY <3>1, <3>2
    <3>4. QED
      BY <3>3 DEF p
  <2>5. locals'.block * ChallengeRate + locals'.pos = SignBytes + Len(locals'.read)
    BY <1>5, <2>1, <2>4
  <2>6. QED
    BY <2>5 DEF Place
<1>8. Chal!BytesReadOnce'
  <2>1. /\ \A k \in 1 .. Len(locals.read) : locals'.read[k] = locals.read[k]
        /\ locals'.read[Len(locals.read) + 1] = byte
        /\ DOMAIN locals'.read = 1 .. Len(locals.read) + 1
        /\ Len(locals.read) \in Nat
    BY <1>3, <1>4, <1>5
  <2>2. \A k \in 1 .. Len(locals.read) : locals.read[k] = SignBytes + k - 1
    BY <1>3 DEF ChallengeInv, Chal!BytesReadOnce
  <2>3. ASSUME NEW k \in 1 .. Len(locals.read) + 1
        PROVE  locals'.read[k] = SignBytes + k - 1
    <3>1. CASE k = Len(locals.read) + 1
      BY <1>3, <1>4, <2>1, <3>1
    <3>2. CASE k # Len(locals.read) + 1
      BY <2>1, <2>2, <3>2
    <3>3. QED
      BY <3>1, <3>2
  <2>4. QED
    BY <2>1, <2>3 DEF Chal!BytesReadOnce
<1>9. CASE b > locals.i
  <2>1. out' = out /\ locals'.i = locals.i
    BY <1>1, <1>2, <1>5, <1>9
  <2>2. Shuffled'
    BY <2>1 DEF ChallengeInv, Shuffled, ZeroFrom, AllStand, StandsAt, SignsUsed
  <2>3. QED
    BY <1>3, <1>6, <1>7, <1>8, <2>1, <2>2 DEF ChallengeInv, ChallengeTyped
<1>10. CASE ~(b > locals.i)
  <2>1. /\ out' = Chal!Placed(out, locals.i, b) /\ locals'.i = locals.i + 1
        /\ b <= locals.i
    BY <1>1, <1>2, <1>3, <1>5, <1>10
  <2>2. /\ locals.i \in 0 .. ChallengeSize - 1 /\ b \in 0 .. locals.i /\ SignsUsed \in 0 .. Tau - 1
        /\ SignsUsed' = SignsUsed + 1 /\ SignsUsed = locals.i - (ChallengeSize - Tau)
    BY <1>1, <1>3, <2>1 DEF SignsUsed
  <2>3. /\ out' \in [0 .. ChallengeSize - 1 -> 0 .. Tau]
        /\ ZeroFrom(out', locals.i + 1, SignsUsed + 1) /\ AllStand(out', SignsUsed + 1)
    BY <1>3, <2>1, <2>2, PlacedShuffles DEF ChallengeInv, Shuffled
  <2>4. Shuffled'
    BY <2>1, <2>2, <2>3 DEF Shuffled, ZeroFrom, AllStand, StandsAt
  <2>5. QED
    BY <1>6, <1>7, <1>8, <2>3, <2>4 DEF ChallengeInv, ChallengeTyped
<1>11. QED
  BY <1>9, <1>10

\* A run of the challenge routine is a behaviour of Challenge.
LEMMA ChalRuns ==
    /\ Init /\ routine = "challenge" => Chal!Init
    /\ [Next]_vars /\ routine' = "challenge" => routine = "challenge" /\ [Chal!Next]_Chal!vars
<1>1. Init /\ routine = "challenge" => Chal!Init
  BY DEF Init
<1>2. [Next]_vars /\ routine' = "challenge" => routine = "challenge"
  BY DEF Next, SignNext, vars
<1>3. [Next]_vars /\ routine = "challenge" => [Chal!Next]_Chal!vars
  BY DEF Next, SignNext, vars, Chal!vars
<1> QED
  BY <1>1, <1>2, <1>3

ChallengeAlways == routine = "challenge" => ChallengeInv

\* The invariant of the shuffle and of its stream.
THEOREM ChallengeInductive == Spec => []ChallengeAlways
<1>1. Init => ChallengeAlways
  <2> SUFFICES ASSUME Chal!Init PROVE ChallengeInv
    BY ChalRuns DEF ChallengeAlways
  <2>1. /\ ChallengeSize \in Nat /\ Tau \in 1 .. ChallengeSize
        /\ ChallengeRate \in Nat /\ SignBytes \in 0 .. ChallengeRate
    BY RoutinesAssumption DEF Chal!ChallengeAssumption
  <2>2. /\ locals = [i |-> ChallengeSize - Tau, pos |-> SignBytes, block |-> 0, read |-> <<>>]
        /\ out = [x \in 0 .. ChallengeSize - 1 |-> 0]
    BY DEF Chal!Init
  <2>3. ChallengeTyped /\ Place /\ Chal!BytesReadOnce
    BY <2>1, <2>2 DEF ChallengeTyped, ChallengeLocal, Place, Chal!BytesReadOnce
  <2>4. Shuffled
    BY <2>1, <2>2 DEF Shuffled, ZeroFrom, AllStand, SignsUsed
  <2>5. QED
    BY <2>3, <2>4 DEF ChallengeInv
<1>2. ChallengeAlways /\ [Next]_vars => ChallengeAlways'
  <2> SUFFICES ASSUME ChallengeInv, [Chal!Next]_Chal!vars PROVE ChallengeInv'
    BY ChalRuns DEF ChallengeAlways
  <2>1. ASSUME NEW b \in 0 .. ChallengeSize - 1, Chal!Draw(b) PROVE ChallengeInv'
    BY <2>1, DrawStep, RoutinesAssumption
  <2>2. CASE UNCHANGED Chal!vars
    BY <2>2 DEF Chal!vars, ChallengeInv, ChallengeTyped, Place, Chal!BytesReadOnce, Shuffled, ZeroFrom, AllStand,
        StandsAt, SignsUsed, ChallengeLocal
  <2>3. QED
    BY <2>1, <2>2 DEF Chal!Next
<1>3. QED
  BY <1>1, <1>2, PTL DEF Spec

\* The variables have their types: the index stays within the polynomial and
\* the position within the buffer.
THEOREM ChallengeTypeOK ==
    Spec => [](routine = "challenge" => Chal!TypeOK)
<1>1. ChallengeAlways => (routine = "challenge" => Chal!TypeOK)
  BY DEF ChallengeAlways, ChallengeInv, ChallengeTyped, ChallengeLocal, Chal!TypeOK
<1>2. QED
  BY <1>1, ChallengeInductive, PTL

\* The bytes behind the signs are read once each and in order.
THEOREM BytesAlwaysReadOnce ==
    Spec => []BytesReadOnce
<1>1. ChallengeAlways => BytesReadOnce
  BY DEF ChallengeAlways, ChallengeInv, BytesReadOnce
<1>2. QED
  BY <1>1, ChallengeInductive, PTL

\* The instance counts as FiniteSets does.
LEMMA SameCardinality ==
    ASSUME NEW S
    PROVE  Chal!Cardinality(S) = Cardinality(S)
  BY Zenon DEF Chal!Cardinality, Cardinality, Chal!IsFiniteSet, IsFiniteSet

\* Each sign used so far stands at exactly one position.
THEOREM SignsAlwaysStand ==
    Spec => []EverySignStands
<1>1. ChallengeInv => Chal!EverySignStands
  <2> SUFFICES ASSUME ChallengeInv, NEW s \in 1 .. SignsUsed
               PROVE  Cardinality({x \in DOMAIN out : out[x] = s}) = 1
    BY SameCardinality DEF Chal!EverySignStands, SignsUsed
  <2>1. PICK x \in 0 .. ChallengeSize - 1 : StandsAt(out, s, x)
    BY DEF ChallengeInv, Shuffled, AllStand
  <2>2. {y \in DOMAIN out : out[y] = s} = {x}
    BY <2>1 DEF ChallengeInv, ChallengeTyped, StandsAt
  <2>3. QED
    BY <2>2, FS_Singleton
<1>2. ChallengeAlways => EverySignStands
  BY <1>1 DEF ChallengeAlways, EverySignStands
<1>3. QED
  BY <1>2, ChallengeInductive, PTL
=============================================================================
