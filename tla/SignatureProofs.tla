-------------------------- MODULE SignatureProofs ---------------------------
(* Proofs about MldsaSign, for every l, k, word size and limit on the        *)
(* attempts that MLD_NONCE_UB allows, and for every outcome of the norm      *)
(* checks, the allocations and the random source; and about HintCodec, for   *)
(* every number of rows, row size and OMEGA, and every string of bytes.      *)
EXTENDS Routines, FiniteSetTheorems, TLAPS

\* A later attempt starts behind the l nonces of an earlier one.
LEMMA Times ==
    ASSUME NEW l \in Nat, NEW n \in Nat, NEW m \in Nat, n < m
    PROVE  l * n + l <= l * m /\ l * n \in Nat /\ l * m \in Nat
<1>1. PICK d \in Nat : m = n + 1 + d
  <2>1. m - n - 1 \in Nat /\ m = n + 1 + (m - n - 1)
    OBVIOUS
  <2>2. QED
    BY <2>1
<1>2. l * m = l * n + l + l * d
  BY <1>1
<1>3. l * n \in Nat /\ l * m \in Nat /\ l * d \in Nat
  OBVIOUS
<1>4. QED
  BY <1>2, <1>3

\* MLD_NONCE_UB keeps the whole batch of an attempt within a word.
LEMMA UnderUB ==
    ASSUME NEW l \in Nat \ {0}, NEW n \in Nat, Word \in Nat \ {0}, n < Sign!UB(l)
    PROVE  l * n + l < Word
<1> DEFINE d == (Word - 1 - l) \div l
<1>1. d \in Int /\ l * d <= Word - 1 - l
  OBVIOUS
<1>2. d \in Nat /\ n < d
  BY <1>1 DEF Sign!UB
<1>3. l * n + l <= l * d
  BY <1>2, Times
<1>4. QED
  BY <1>1, <1>2, <1>3

\* Row by row, the nonces of a batch are consecutive.
LEMMA YRow ==
    ASSUME NEW l \in Nat \ {0}, NEW n \in Nat, l * n + l < Word, Word \in Nat,
           NEW i \in 0 .. l - 1
    PROVE  Sign!YOf(l, n)[i] = l * n + i
<1> DEFINE b == l * n
           w == Sign!YWrites(l, n)
           Last(j) == j \in DOMAIN w /\ w[j][1] = i
                      /\ \A m \in j + 1 .. Len(w) : w[m][1] # i
<1>1. b \in Nat /\ b + l < Word /\ b % Word = b
  <2>1. b \in Nat /\ b + l < Word
    OBVIOUS
  <2> HIDE DEF b
  <2>2. QED
    BY <2>1
<1>2. Sign!YOf(l, n)[i] = w[CHOOSE j \in DOMAIN w : w[j][1] = i
                               /\ \A m \in j + 1 .. Len(w) : w[m][1] # i][2] % Word
  BY DEF Sign!YOf, Sign!RowNonce
<1>a. ASSUME NEW j \in DOMAIN w, w[j][2] = b + i,
             (CHOOSE k \in DOMAIN w : w[k][1] = i
                                   /\ \A m \in k + 1 .. Len(w) : w[m][1] # i) = j
      PROVE  Sign!YOf(l, n)[i] = l * n + i
  <2>1. Sign!YOf(l, n)[i] = (b + i) % Word
    BY <1>2, <1>a
  <2>2. b + i \in Nat /\ b + i < Word
    BY <1>1
  <2>3. (b + i) % Word = b + i
    <3> HIDE DEF b
    <3>1. QED
      BY <2>2
  <2>4. QED
    BY <2>1, <2>3
<1>3. CASE l = 7
  <2>1. w = <<<<0, b>>, <<1, b + 1>>, <<2, b + 2>>, <<3, Irrelevant>>,
              <<3, b + 3>>, <<4, b + 4>>, <<5, b + 5>>, <<6, b + 6>>>>
    BY <1>1, <1>3 DEF Sign!YWrites, Sign!Lanes
  <2> HIDE DEF w, b
  <2>2. Len(w) = 8 /\ DOMAIN w = 1 .. 8
    BY <2>1
  <2>3. \A j \in 1 .. 8 : w[j][1] = i /\ (\A m \in j + 1 .. 8 : w[m][1] # i)
                           <=> j = IF i < 3 THEN i + 1 ELSE i + 2
    BY <1>3, <2>1
  <2>4. (CHOOSE j \in 1 .. 8 : w[j][1] = i /\ \A m \in j + 1 .. 8 : w[m][1] # i)
           = IF i < 3 THEN i + 1 ELSE i + 2
    BY <2>3, <1>3
  <2>5. w[IF i < 3 THEN i + 1 ELSE i + 2][2] = b + i
    <3>1. i \in {0, 1, 2, 3, 4, 5, 6}
      BY <1>3
    <3>2. QED
      BY <1>1, <2>1, <3>1
  <2>6. QED
    BY <1>3, <1>a, <2>2, <2>4, <2>5
<1>4. CASE l # 7
  <2>1. w = [j \in 1 .. l |-> <<j - 1, b + j - 1>>]
    BY <1>1, <1>4 DEF Sign!YWrites, Sign!Lanes
  <2> HIDE DEF w, b
  <2>2. Len(w) = l /\ DOMAIN w = 1 .. l
    BY <2>1
  <2>3. \A j \in 1 .. l : w[j][1] = i /\ (\A m \in j + 1 .. l : w[m][1] # i)
                           <=> j = i + 1
    BY <2>1
  <2>4. (CHOOSE j \in 1 .. l : w[j][1] = i /\ \A m \in j + 1 .. l : w[m][1] # i)
           = i + 1
    BY <2>3
  <2>5. w[i + 1][2] = b + i
    BY <2>1, <1>1
  <2>6. (CHOOSE j \in DOMAIN w : w[j][1] = i /\ \A m \in j + 1 .. Len(w) : w[m][1] # i)
           = i + 1
    BY <2>2, <2>4, Zenon
  <2>7. i + 1 \in DOMAIN w
    BY <2>2
  <2>8. QED
    BY <1>a, <2>5, <2>6, <2>7
<1>5. QED
  BY <1>3, <1>4

-----------------------------------------------------------------------------
(***************************************************************************)
(* The inductive invariant: attempt a sampled its y with nonce a - 1, and  *)
(* the regions of the buffer that an attempt has passed hold what it wrote *)
(* there.                                                                  *)
(***************************************************************************)

Contents == {Sign!Caller, Sign!Zeros} \cup ({"w1", "z", "c", "h", "some h"} \X Nat)

Trying == {"z", "w", "pack"}

SignLocal  == [pc : {"enter", "loop", "z", "w", "pack", "cleanup", "returned"},
           row : Nat, nonce : 0 .. args.limit, attempts : Seq([0 .. args.l - 1 -> Nat])]
SignResult == [ret : Sign!Errors \cup {"none", "OK"}, siglen : {"caller", "zero", "full"},
           sig : [Sign!Regions(args.l) -> Contents]]

SignTyped ==
    /\ \E p \in SignParams, api \in Sign!Apis :
          args = [api |-> api, l |-> p.l, k |-> p.k, w1 |-> p.w1, limit |-> p.limit]
    /\ locals \in SignLocal
    /\ out \in SignResult

\* The polynomials sampled so far.
Sampled ==
    /\ locals.pc \in {"enter", "loop"} => Len(locals.attempts) = locals.nonce
    /\ locals.pc \in Trying => /\ Len(locals.attempts) = locals.nonce + 1
                               /\ locals.nonce < args.limit
    /\ Len(locals.attempts) <= args.limit
    /\ \A a \in DOMAIN locals.attempts :
          \A i \in 0 .. args.l - 1 :
              locals.attempts[a][i] = args.l * (a - 1) + i

ZOf(i, n) == out.sig[<<"z", i>>] = <<"z", n>>

\* What is in the buffer, and what the loop has to say of it.
Written ==
    /\ locals.pc = "enter" =>
          out.ret = "none" /\ out.sig = Sign!Whole(Sign!Caller) /\ locals.nonce = 0
    /\ locals.pc \in {"loop"} \cup Trying => out.ret \in {"none", "FAIL"}
    /\ locals.pc = "cleanup" => out.ret # "none"
    /\ locals.pc = "z" => /\ locals.row < args.l
                          /\ \A i \in 0 .. locals.row - 1 : ZOf(i, locals.nonce)
    /\ locals.pc \in {"w", "pack"} =>
          \A i \in 0 .. args.l - 1 : ZOf(i, locals.nonce)
    /\ locals.pc \in {"cleanup", "returned"} /\ out.ret = "OK" =>
          /\ out.siglen = "full"
          /\ \A r \in Sign!Regions(args.l) : out.sig[r] = <<r[1], locals.nonce - 1>>
    /\ locals.pc = "returned" => out.ret # "none" /\ Sign!FailureLeavesNothing

SignInv == SignTyped /\ Sampled /\ Written

\* What is known of the parameters of a call.
LEMMA Parameters ==
    ASSUME Sign!SignAssumption, SignTyped
    PROVE  /\ args.l \in Nat \ {0} /\ args.k \in Nat \ {0} /\ args.w1 \in Nat
           /\ args.limit \in Nat \ {0} /\ args.limit <= Sign!UB(args.l)
           /\ Word \in Nat \ {0}
  BY DEF Sign!SignAssumption, SignTyped

LEMMA WrittenByAttempt ==
    ASSUME NEW n \in Nat, NEW what \in {"w1", "z", "c", "h", "some h"}
    PROVE  <<what, n>> \in Contents
<1>1. <<what, n>> \in {"w1", "z", "c", "h", "some h"} \X Nat
  OBVIOUS
<1>2. QED
  BY <1>1, Zenon DEF Contents

\* The regions of a buffer are told apart by their first component.
LEMMA RegionCases ==
    ASSUME NEW l \in Nat
    PROVE  /\ \A r \in Sign!Regions(l) :
                  \/ r = <<"c">> /\ r[1] = "c"
                  \/ r = <<"h">> /\ r[1] = "h"
                  \/ \E i \in 0 .. l - 1 : r = <<"z", i>> /\ r[1] = "z"
           /\ \A i \in 0 .. l - 1 : <<"z", i>> \in Sign!Regions(l)
           /\ <<"c">> \in Sign!Regions(l) /\ <<"h">> \in Sign!Regions(l)
           /\ \A i : <<"z", i>> # <<"c">> /\ <<"z", i>> # <<"h">>
           /\ <<"c">> # <<"h">>
           /\ \A i, j : <<"z", i>> = <<"z", j>> => i = j
  BY DEF Sign!Regions

\* The y of an attempt, and the sequence of them with one more.
LEMMA AttemptSamples ==
    ASSUME Sign!SignAssumption, SignTyped, Sampled, locals.pc = "loop",
           locals.nonce < args.limit, NEW s, s = Append(locals.attempts, Sign!YOf(args.l, locals.nonce))
    PROVE  /\ s \in Seq([0 .. args.l - 1 -> Nat])
           /\ Len(s) = locals.nonce + 1
           /\ \A a \in DOMAIN s : \A i \in 0 .. args.l - 1 :
                 s[a][i] = args.l * (a - 1) + i
<1> DEFINE y == Sign!YOf(args.l, locals.nonce)
<1>1. /\ args.l \in Nat \ {0} /\ args.limit \in Nat /\ args.limit <= Sign!UB(args.l)
      /\ Word \in Nat \ {0} /\ locals.nonce \in Nat
      /\ locals.attempts \in Seq([0 .. args.l - 1 -> Nat])
      /\ Len(locals.attempts) = locals.nonce
  BY Parameters DEF SignTyped, SignLocal, Sampled
<1>2. Sign!UB(args.l) \in Int
  BY <1>1 DEF Sign!UB
<1>3. args.l * locals.nonce + args.l < Word
  BY <1>1, <1>2, UnderUB
<1>4. \A i \in 0 .. args.l - 1 : y[i] = args.l * locals.nonce + i
  BY <1>1, <1>3, YRow
<1>5. y \in [0 .. args.l - 1 -> Nat]
  <2>1. y = [i \in 0 .. args.l - 1 |-> Sign!RowNonce(args.l, locals.nonce, i)]
    BY DEF Sign!YOf
  <2>2. args.l * locals.nonce \in Nat
    BY <1>1
  <2>3. \A i \in 0 .. args.l - 1 : y[i] \in Nat
    BY <1>4, <2>2
  <2> HIDE DEF y
  <2>4. QED
    BY <2>1, <2>3
<1>6. /\ s \in Seq([0 .. args.l - 1 -> Nat])
      /\ Len(s) = locals.nonce + 1 /\ DOMAIN s = 1 .. locals.nonce + 1
      /\ \A a \in 1 .. locals.nonce : s[a] = locals.attempts[a]
      /\ s[locals.nonce + 1] = y
  <2> HIDE DEF y
  <2>1. s = Append(locals.attempts, y)
    BY DEF y
  <2>2. QED
    BY <1>1, <1>5, <2>1
<1>7. ASSUME NEW a \in DOMAIN s, NEW i \in 0 .. args.l - 1
      PROVE  s[a][i] = args.l * (a - 1) + i
  <2>1. CASE a = locals.nonce + 1
    <3>1. a - 1 = locals.nonce
      BY <1>1, <2>1
    <3>2. QED
      BY <1>4, <1>6, <2>1, <3>1
  <2>2. CASE a # locals.nonce + 1
    <3>1. a \in 1 .. locals.nonce /\ a \in DOMAIN locals.attempts
      BY <1>1, <1>6, <2>2
    <3>2. QED
      BY <1>6, <3>1 DEF Sampled
  <2>3. QED
    BY <2>1, <2>2
<1>8. QED
  BY <1>6, <1>7

-----------------------------------------------------------------------------
\* What AttemptReturns does, whatever the attempt wrote.
LEMMA ReturnTyped ==
    ASSUME Sign!SignAssumption, SignInv, locals.nonce < args.limit,
           NEW ret \in {"OK", "FAIL", "OUT_OF_MEMORY"},
           NEW sig \in [Sign!Regions(args.l) -> Contents],
           Sign!AttemptReturns(ret, sig), UNCHANGED args,
           locals.pc \in {"loop"} \cup Trying, locals.pc = "loop" => ret # "FAIL"
    PROVE  /\ SignTyped' /\ Sampled'
           /\ ret # "OK" => Written'
           /\ locals'.pc = IF ret = "FAIL" THEN "loop" ELSE "cleanup"
           /\ out'.ret = ret /\ out'.sig = sig
           /\ ret = "OK" => out'.siglen = "full"
           /\ locals'.nonce = locals.nonce + 1
<1> DEFINE pc == IF ret = "FAIL" THEN "loop" ELSE "cleanup"
<1>1. /\ args.limit \in Nat \ {0} /\ args' = args
      /\ locals.nonce \in Nat /\ locals.nonce < args.limit
  BY Parameters DEF SignInv, SignTyped, SignLocal
<1>2. /\ locals'.pc = pc /\ locals'.nonce = locals.nonce + 1
      /\ locals'.row = locals.row /\ locals'.attempts = locals.attempts
      /\ locals' \in SignLocal
  <2>1. locals' = [locals EXCEPT !.pc = pc, !.nonce = locals.nonce + 1]
    BY DEF Sign!AttemptReturns
  <2>2. locals.nonce + 1 \in 0 .. args.limit
    BY <1>1
  <2>3. locals \in SignLocal
    BY DEF SignInv, SignTyped
  <2>4. QED
    BY <2>1, <2>2, <2>3 DEF SignLocal
<1>3. /\ out'.ret = ret /\ out'.sig = sig
      /\ ret = "OK" => out'.siglen = "full"
      /\ out' \in SignResult
  BY DEF SignInv, SignTyped, Sign!AttemptReturns, Sign!Errors, SignResult
<1>4. SignTyped'
  BY <1>1, <1>2, <1>3 DEF SignInv, SignTyped, SignLocal, SignResult
<1>5. Sampled'
  <2>0. Len(locals.attempts) \in Nat
    BY DEF SignInv, SignTyped, SignLocal
  <2>1. /\ Len(locals.attempts) <= locals.nonce + 1
        /\ pc = "loop" => Len(locals.attempts) = locals.nonce + 1
    BY <1>1, <2>0 DEF SignInv, Sampled, Trying
  <2>2. QED
    BY <1>1, <1>2, <2>1 DEF SignInv, Sampled, Trying
<1>6. ret # "OK" => Written'
  BY <1>2, <1>3 DEF Written, Trying
<1>7. QED
  BY <1>2, <1>3, <1>4, <1>5, <1>6

\* Every step of signing keeps the invariant.
LEMMA SignStep ==
    ASSUME Sign!SignAssumption, SignInv, [Sign!Next]_Sign!vars
    PROVE  SignInv'
<1>0. /\ SignTyped /\ Sampled /\ Written
      /\ args.l \in Nat \ {0} /\ args.k \in Nat \ {0} /\ args.limit \in Nat \ {0}
      /\ locals.pc \in {"enter", "loop", "z", "w", "pack", "cleanup", "returned"}
      /\ locals.row \in Nat /\ locals.nonce \in 0 .. args.limit
      /\ out.sig \in [Sign!Regions(args.l) -> Contents]
      /\ locals \in SignLocal /\ out \in SignResult
  BY Parameters DEF SignInv, SignTyped, SignLocal, SignResult
<1>c. Sign!Whole(Sign!Zeros) \in [Sign!Regions(args.l) -> Contents]
  BY DEF Sign!Whole, Contents
<1>n. locals.nonce \in Nat
  <2>1. locals.nonce \in 0 .. args.limit
    BY <1>0
  <2>2. QED
    BY <2>1
<1>w. ASSUME NEW what \in {"w1", "z", "c", "h", "some h"}
      PROVE  <<what, locals.nonce>> \in Contents
  BY <1>n, WrittenByAttempt, Zenon
<1>d. ASSUME SignTyped', locals'.pc = "cleanup", out'.ret \in Sign!Errors, args' = args,
             locals'.attempts = locals.attempts, locals'.nonce = locals.nonce
      PROVE  SignInv'
  BY <1>0, <1>d DEF SignInv, Sampled, Written, Trying, Sign!Errors
<1>1. CASE Sign!EntryFails
  <2>1. PICK e \in {"OUT_OF_MEMORY", "RNG_FAIL", "FAIL"} :
           out' = [ret |-> e, siglen |-> "zero",
                   sig |-> IF args.api = "signature" THEN Sign!Whole(Sign!Zeros) ELSE out.sig]
    BY <1>1 DEF Sign!EntryFails
  <2>2. /\ locals.pc = "enter" /\ args' = args
        /\ locals' = [locals EXCEPT !.pc = "returned", !.row = 0]
    BY <1>1 DEF Sign!EntryFails, Sign!Goto
  <2>3. SignTyped'
    BY <1>0, <1>c, <2>1, <2>2 DEF SignTyped, SignLocal, SignResult, Sign!Errors
  <2>4. Sampled'
    BY <1>0, <2>2 DEF SignTyped, SignLocal, SignResult, Sampled, Trying
  <2>5. Written'
    <3>1. out.sig = Sign!Whole(Sign!Caller)
      BY <1>0, <2>2 DEF Written
    <3>2. out'.siglen = "zero" /\ out'.ret = e
          /\ out'.sig \in {Sign!Whole(Sign!Zeros), Sign!Whole(Sign!Caller)}
      BY <2>1, <3>1
    <3>3. out'.sig \in {Sign!Whole(Sign!Zeros)', Sign!Whole(Sign!Caller)'}
      BY <2>2, <3>2 DEF Sign!Whole, Sign!Regions
    <3>4. locals'.pc = "returned"
      BY <1>0, <2>2 DEF SignTyped, SignLocal, SignResult
    <3>5. QED
      BY <3>2, <3>3, <3>4 DEF Written, Sign!FailureLeavesNothing, Trying
  <2>6. QED
    BY <2>3, <2>4, <2>5 DEF SignInv
<1>2. CASE Sign!Enter
  <2>1. CASE Sign!Goto("loop", 0) /\ UNCHANGED out
    <3>1. /\ locals.pc = "enter" /\ args' = args /\ out' = out
          /\ locals' = [locals EXCEPT !.pc = "loop", !.row = 0]
      BY <1>2, <2>1 DEF Sign!Enter, Sign!Goto
    <3>2. SignTyped' /\ Sampled'
      BY <1>0, <3>1 DEF SignTyped, SignLocal, SignResult, Sampled, Trying
    <3>3. Written'
      BY <1>0, <3>1 DEF SignTyped, SignLocal, SignResult, Written, Trying
    <3>4. QED
      BY <3>2, <3>3 DEF SignInv
  <2>2. CASE Sign!Goto("cleanup", 0) /\ out' = [out EXCEPT !.ret = "OUT_OF_MEMORY"]
    <3>1. /\ args' = args /\ out' = [out EXCEPT !.ret = "OUT_OF_MEMORY"]
          /\ locals' = [locals EXCEPT !.pc = "cleanup", !.row = 0]
      BY <1>2, <2>2 DEF Sign!Enter, Sign!Goto
    <3>2. QED
      BY <1>0, <1>d, <3>1 DEF SignTyped, SignLocal, SignResult, Sign!Errors
  <2>3. QED
    BY <1>2, <2>1, <2>2 DEF Sign!Enter
<1>3. CASE Sign!Exhausted
  <2>1. /\ args' = args /\ out' = [out EXCEPT !.ret = "ATTEMPTS_EXHAUSTED"]
        /\ locals' = [locals EXCEPT !.pc = "cleanup", !.row = 0]
    BY <1>3 DEF Sign!Exhausted, Sign!Goto
  <2>2. QED
    BY <1>0, <1>d, <2>1 DEF SignTyped, SignLocal, SignResult, Sign!Errors
<1>4. CASE Sign!Attempt
  <2>1. /\ locals.pc = "loop" /\ locals.nonce < args.limit /\ args' = args
        /\ locals' = [locals EXCEPT !.pc = "z", !.row = 0,
                          !.attempts = Append(@, Sign!YOf(args.l, locals.nonce))]
        /\ out' = [out EXCEPT !.sig = Sign!PackW1(@)]
    BY <1>4 DEF Sign!Attempt
  <2>2. /\ locals'.pc = "z" /\ locals'.row = 0 /\ locals'.nonce = locals.nonce
        /\ locals'.attempts = Append(locals.attempts, Sign!YOf(args.l, locals.nonce))
        /\ out'.ret = out.ret
    BY <1>0, <2>1 DEF SignTyped, SignLocal, SignResult
  <2>3. /\ locals'.attempts \in Seq([0 .. args.l - 1 -> Nat])
        /\ Len(locals'.attempts) = locals.nonce + 1
        /\ \A a \in DOMAIN locals'.attempts : \A i \in 0 .. args.l - 1 :
              locals'.attempts[a][i] = args.l * (a - 1) + i
    BY <1>0, <2>1, <2>2, AttemptSamples
  <2>4. Sign!PackW1(out.sig) \in [Sign!Regions(args.l) -> Contents]
    <3>1. <<"w1", locals.nonce>> \in Contents
      BY <1>w
    <3>2. QED
      BY <1>0, <3>1 DEF Sign!PackW1
  <2>5. SignTyped'
    BY <1>0, <2>1, <2>3, <2>4 DEF SignTyped, SignLocal, SignResult
  <2>6. Sampled'
    <3>1. locals.nonce + 1 <= args.limit
      BY <1>0, <2>1
    <3>2. /\ locals'.pc = "z" /\ locals'.nonce < args'.limit
          /\ Len(locals'.attempts) = locals'.nonce + 1
          /\ Len(locals'.attempts) <= args'.limit
      BY <1>0, <2>1, <2>2, <2>3, <3>1
    <3>3. \A a \in DOMAIN locals'.attempts : \A i \in 0 .. args'.l - 1 :
             locals'.attempts[a][i] = args'.l * (a - 1) + i
      BY <2>1, <2>3
    <3>4. QED
      BY <3>2, <3>3 DEF Sampled, Trying
  <2>7. Written'
    BY <1>0, <2>1, <2>2 DEF Written, Trying
  <2>8. QED
    BY <2>5, <2>6, <2>7 DEF SignInv
<1>5. CASE Sign!AttemptNoMemory
  <2>1. SignInv /\ args' = args /\ locals.pc = "loop" /\ locals.nonce < args.limit
        /\ Sign!AttemptReturns("OUT_OF_MEMORY", out.sig)
    BY <1>5 DEF Sign!AttemptNoMemory
  <2>2. QED
    BY <1>0, <2>1, ReturnTyped DEF SignInv
<1>6. CASE Sign!AcceptZ
  <2> DEFINE pc == IF locals.row + 1 = args.l THEN "w" ELSE "z"
             row == (locals.row + 1) % args.l
  <2>1. /\ locals.pc = "z" /\ locals.row < args.l /\ args' = args
        /\ locals' = [locals EXCEPT !.pc = pc, !.row = row]
        /\ out' = [out EXCEPT !.sig[<<"z", locals.row>>] = <<"z", locals.nonce>>]
    BY <1>6 DEF Sign!AcceptZ, Sign!Goto
  <2>2. row \in Nat /\ (pc = "z" => row = locals.row + 1 /\ row < args.l)
    BY <1>0, <2>1
  <2> HIDE DEF row
  <2>3. /\ locals'.pc = pc /\ locals'.row = row /\ locals'.nonce = locals.nonce
        /\ locals'.attempts = locals.attempts /\ out'.ret = out.ret
        /\ out'.sig = [out.sig EXCEPT ![<<"z", locals.row>>] = <<"z", locals.nonce>>]
    BY <1>0, <2>1 DEF SignTyped, SignLocal, SignResult
  <2>4. <<"z", locals.row>> \in Sign!Regions(args.l)
    BY <1>0, <2>1 DEF Sign!Regions
  <2>5. out'.sig \in [Sign!Regions(args.l) -> Contents]
    <3>1. <<"z", locals.nonce>> \in Contents
      BY <1>w
    <3>2. QED
      BY <1>0, <2>3, <2>4, <3>1
  <2>6. SignTyped'
    <3>1. out' = [out EXCEPT !.sig = out'.sig]
      BY <1>0, <2>1 DEF SignTyped, SignLocal, SignResult
    <3>2. QED
      BY <1>0, <2>1, <2>2, <2>5, <3>1 DEF SignTyped, SignLocal, SignResult
  <2>7. Sampled'
    BY <1>0, <2>1, <2>3 DEF Sampled, Trying
  <2>8. Written'
    <3>1. \A i \in 0 .. locals.row : out'.sig[<<"z", i>>] = <<"z", locals.nonce>>
      <4>1. ASSUME NEW i \in 0 .. locals.row, i # locals.row
            PROVE  out'.sig[<<"z", i>>] = <<"z", locals.nonce>>
        <5>1. <<"z", i>> # <<"z", locals.row>> /\ <<"z", i>> \in Sign!Regions(args.l)
          BY <1>0, <2>1, <4>1 DEF Sign!Regions
        <5>2. ZOf(i, locals.nonce)
          BY <1>0, <2>1, <4>1 DEF Written
        <5>3. QED
          BY <1>0, <2>3, <5>1, <5>2 DEF ZOf
      <4>2. out'.sig[<<"z", locals.row>>] = <<"z", locals.nonce>>
        BY <1>0, <2>3, <2>4
      <4>3. QED
        BY <4>1, <4>2
    <3>a. \A i \in 0 .. locals.row : ZOf(i, locals.nonce)'
      BY <2>3, <3>1 DEF ZOf
    <3>2. pc = "w" => \A i \in 0 .. args.l - 1 : ZOf(i, locals.nonce)'
      <4>1. pc = "w" => 0 .. args.l - 1 = 0 .. locals.row
        BY <1>0, <2>1
      <4>2. QED
        BY <3>a, <4>1
    <3>3. pc = "z" => \A i \in 0 .. row - 1 : ZOf(i, locals.nonce)'
      <4>1. pc = "z" => 0 .. row - 1 = 0 .. locals.row
        BY <1>0, <2>1, <2>2
      <4>2. QED
        BY <3>a, <4>1
    <3>4. QED
      BY <1>0, <2>1, <2>2, <2>3, <3>2, <3>3 DEF Written, Trying
  <2>9. QED
    BY <2>6, <2>7, <2>8 DEF SignInv
<1>7. CASE Sign!AcceptW
  <2> DEFINE pc == IF locals.row + 1 = args.k THEN "pack" ELSE "w"
             row == (locals.row + 1) % args.k
  <2>1. /\ locals.pc = "w" /\ args' = args /\ out' = out
        /\ locals' = [locals EXCEPT !.pc = pc, !.row = row]
    BY <1>7 DEF Sign!AcceptW, Sign!Goto
  <2>2. row \in Nat
    BY <1>0
  <2> HIDE DEF row
  <2>3. SignTyped'
    BY <1>0, <2>1, <2>2 DEF SignTyped, SignLocal, SignResult
  <2>4. /\ locals'.pc \in {"w", "pack"} /\ locals'.nonce = locals.nonce
        /\ locals'.attempts = locals.attempts
    BY <1>0, <2>1 DEF SignTyped, SignLocal, SignResult
  <2>5. Sampled'
    BY <1>0, <2>1, <2>4 DEF Sampled, Trying
  <2>6. Written'
    BY <1>0, <2>1, <2>4 DEF Written, Trying, ZOf
  <2>7. QED
    BY <2>3, <2>5, <2>6 DEF SignInv
<1>8. CASE Sign!Reject
  <2>1. /\ SignInv /\ args' = args /\ locals.pc \in {"loop"} \cup Trying
        /\ locals.pc # "loop"
        /\ locals.nonce < args.limit /\ Sign!AttemptReturns("FAIL", out.sig)
    BY <1>0, <1>8 DEF Sign!Reject, Trying, Sampled
  <2>2. QED
    BY <1>0, <2>1, ReturnTyped DEF SignInv
<1>9. CASE Sign!Pack
  <2>1. PICK ret \in {"OK", "FAIL"} :
           Sign!AttemptReturns(ret,
               [out.sig EXCEPT ![<<"c">>] = <<"c", locals.nonce>>,
                               ![<<"h">>] = <<IF ret = "OK" THEN "h" ELSE "some h",
                                              locals.nonce>>])
    BY <1>9 DEF Sign!Pack
  <2> DEFINE sig == [out.sig EXCEPT ![<<"c">>] = <<"c", locals.nonce>>,
                               ![<<"h">>] = <<IF ret = "OK" THEN "h" ELSE "some h",
                                              locals.nonce>>]
  <2>2. /\ SignInv /\ args' = args /\ locals.pc = "pack"
        /\ locals.nonce < args.limit /\ Sign!AttemptReturns(ret, sig)
    BY <1>0, <1>9, <2>1 DEF Sign!Pack, Trying, Sampled
  <2>3. sig \in [Sign!Regions(args.l) -> Contents]
    <3>1. \A what \in {"c", "h", "some h"} : <<what, locals.nonce>> \in Contents
      BY <1>w
    <3>2. QED
      BY <1>0, <3>1
  <2>4. ret = "OK" => \A r \in Sign!Regions(args.l) : sig[r] = <<r[1], locals.nonce>>
    <3> SUFFICES ASSUME ret = "OK", NEW r \in Sign!Regions(args.l)
                 PROVE  sig[r] = <<r[1], locals.nonce>>
      OBVIOUS
    <3>1. CASE r = <<"c">>
      BY <1>0, <3>1, RegionCases
    <3>2. CASE r = <<"h">>
      BY <1>0, <3>2, RegionCases
    <3>3. CASE \E i \in 0 .. args.l - 1 : r = <<"z", i>>
      <4>1. PICK i \in 0 .. args.l - 1 : r = <<"z", i>>
        BY <3>3
      <4>2. sig[r] = out.sig[<<"z", i>>] /\ r[1] = "z"
        BY <1>0, <4>1, RegionCases
      <4>3. QED
        BY <1>0, <2>2, <4>2 DEF Written, ZOf
    <3>4. QED
      BY <1>0, <3>1, <3>2, <3>3, RegionCases
  <2> HIDE DEF sig
  <2>5. /\ SignTyped' /\ Sampled' /\ (ret # "OK" => Written')
        /\ locals'.pc = (IF ret = "FAIL" THEN "loop" ELSE "cleanup")
        /\ out'.ret = ret /\ out'.sig = sig /\ (ret = "OK" => out'.siglen = "full")
        /\ locals'.nonce = locals.nonce + 1
    BY <1>0, <2>2, <2>3, ReturnTyped DEF Trying
  <2>6. Written'
    BY <1>0, <2>2, <2>4, <2>5 DEF Written, Trying
  <2>7. QED
    BY <2>5, <2>6 DEF SignInv
<1>10. CASE Sign!Cleanup
  <2>1. /\ locals.pc = "cleanup" /\ args' = args
        /\ locals' = [locals EXCEPT !.pc = "returned", !.row = 0]
        /\ out' = IF out.ret = "OK" THEN out
                  ELSE [out EXCEPT !.siglen = "zero", !.sig = Sign!Whole(Sign!Zeros)]
    BY <1>10 DEF Sign!Cleanup, Sign!Goto
  <2>2. /\ locals'.pc = "returned" /\ locals'.nonce = locals.nonce
        /\ locals'.attempts = locals.attempts /\ out'.ret = out.ret
        /\ out.ret # "OK" => out'.siglen = "zero" /\ out'.sig = Sign!Whole(Sign!Zeros)
    BY <1>0, <2>1 DEF SignTyped, SignLocal, SignResult
  <2>3. SignTyped'
    BY <1>0, <1>c, <2>1 DEF SignTyped, SignLocal, SignResult
  <2>4. Sampled'
    BY <1>0, <2>1, <2>2 DEF Sampled, Trying
  <2>5. Written'
    <3>1. Sign!Whole(Sign!Zeros)' = Sign!Whole(Sign!Zeros)
      BY <2>1 DEF Sign!Whole, Sign!Regions
    <3>2. Sign!FailureLeavesNothing'
      BY <2>2, <3>1 DEF Sign!FailureLeavesNothing
    <3>3. out.ret = "OK" => out' = out
      BY <2>1
    <3>4. QED
      BY <1>0, <2>1, <2>2, <3>2, <3>3 DEF Written, Trying
  <2>6. QED
    BY <2>3, <2>4, <2>5 DEF SignInv
<1>11. CASE UNCHANGED Sign!vars
  <2>1. args' = args /\ locals' = locals /\ out' = out
    BY <1>11 DEF Sign!vars
  <2>2. SignTyped' /\ Sampled'
    BY <1>0, <2>1 DEF SignTyped, SignLocal, SignResult, Sampled, Trying
  <2>3. Written'
    BY <1>0, <2>1
    DEF Written, ZOf, Trying, Sign!FailureLeavesNothing, Sign!Whole, Sign!Regions, Sign!Returned
  <2>4. QED
    BY <2>2, <2>3 DEF SignInv
<1>12. QED
  BY <1>1, <1>2, <1>3, <1>4, <1>5, <1>6, <1>7, <1>8, <1>9, <1>10, <1>11
  DEF Sign!Next

\* The caller's buffer, and no attempt yet.
LEMMA SignStart == Sign!SignAssumption /\ Sign!Init => SignInv
<1> SUFFICES ASSUME Sign!SignAssumption, Sign!Init PROVE SignInv
  OBVIOUS
<1>1. PICK p \in SignParams, api \in Sign!Apis :
        /\ args = [api |-> api, l |-> p.l, k |-> p.k, w1 |-> p.w1, limit |-> p.limit]
        /\ locals = [pc |-> "enter", row |-> 0, nonce |-> 0, attempts |-> <<>>]
        /\ out = [ret |-> "none", siglen |-> "caller", sig |-> [r \in Sign!Regions(p.l) |-> Sign!Caller]]
  BY DEF Sign!Init
<1>2. p.limit \in Nat /\ args.l = p.l /\ args.limit = p.limit
  BY <1>1 DEF Sign!SignAssumption
<1>3. SignTyped
  BY <1>1, <1>2 DEF SignTyped, SignLocal, SignResult, Sign!Errors, Contents
<1>4. Sampled /\ Written
  BY <1>1, <1>2 DEF Sampled, Written, Trying, Sign!Whole
<1>5. QED
  BY <1>3, <1>4 DEF SignInv

\* A run of the signing routine is a behaviour of MldsaSign.
LEMMA SignRuns ==
    /\ Init /\ routine = "sign" => Sign!Init
    /\ [Next]_vars /\ routine' = "sign" => routine = "sign" /\ [Sign!Next]_Sign!vars
<1>1. Init /\ routine = "sign" => Sign!Init
  BY DEF Init
<1>2. [Next]_vars /\ routine' = "sign" => routine = "sign"
  BY DEF Next, SignNext, vars
<1>3. [Next]_vars /\ routine = "sign" => [Sign!Next]_Sign!vars
  BY DEF Next, SignNext, vars, Sign!vars
<1> QED
  BY <1>1, <1>2, <1>3

SignAlways == routine = "sign" => SignInv

\* The invariant of signing, for every parameter set within MLD_NONCE_UB.
THEOREM SignInductive == Spec => []SignAlways
<1>1. Init => SignAlways
  BY SignRuns, SignStart, RoutinesAssumption DEF SignAlways
<1>2. SignAlways /\ [Next]_vars => SignAlways'
  <2> SUFFICES ASSUME SignAlways, [Next]_vars, routine' = "sign" PROVE SignInv'
    BY DEF SignAlways
  <2>1. SignInv /\ [Sign!Next]_Sign!vars
    BY SignRuns DEF SignAlways
  <2>2. QED
    BY <2>1, SignStep, RoutinesAssumption
<1>3. QED
  BY <1>1, <1>2, PTL DEF Spec

-----------------------------------------------------------------------------
\* The variables have their types; the nonce stays within the limit.
THEOREM SignTypeOK ==
    Spec => [](routine = "sign" => Sign!TypeOK)
<1>1. SignAlways => (routine = "sign" => Sign!TypeOK)
  BY DEF SignAlways, SignInv, SignTyped, SignLocal, SignResult, Sign!TypeOK
<1>2. QED
  BY <1>1, SignInductive, PTL

\* Attempts are l nonces apart.
LEMMA NoncesDiffer ==
    ASSUME NEW l \in Nat, NEW a \in Nat, NEW b \in Nat, a < b,
           NEW i \in 0 .. l - 1, NEW j \in 0 .. l - 1
    PROVE  l * a + i # l * b + j
<1>1. l * a + l <= l * b /\ l * a \in Nat /\ l * b \in Nat
  BY Times
<1>2. QED
  BY <1>1

\* No nonce is used twice, within 16 bits or any other width, as long as the
\* limit on attempts is at most MLD_NONCE_UB.
THEOREM NoncesUnique ==
    Spec => []NoncesNeverReused
<1>1. SignAlways => NoncesNeverReused
  <2> SUFFICES ASSUME SignInv, NEW a \in DOMAIN locals.attempts,
                      NEW b \in DOMAIN locals.attempts,
                      NEW i \in 0 .. args.l - 1, NEW j \in 0 .. args.l - 1,
                      locals.attempts[a][i] = locals.attempts[b][j]
               PROVE  a = b /\ i = j
    BY DEF SignAlways, NoncesNeverReused, Sign!NoncesNeverReused
  <2>1. args.l \in Nat /\ a - 1 \in Nat /\ b - 1 \in Nat
    <3>1. locals.attempts \in Seq([0 .. args.l - 1 -> Nat])
      BY DEF SignInv, SignTyped, SignLocal
    <3>2. DOMAIN locals.attempts = 1 .. Len(locals.attempts)
          /\ Len(locals.attempts) \in Nat
      BY <3>1
    <3>3. args.l \in Nat
      BY Parameters, RoutinesAssumption DEF SignInv
    <3>4. QED
      BY <3>2, <3>3
  <2>2. args.l * (a - 1) + i = args.l * (b - 1) + j
    BY DEF SignInv, Sampled
  <2>3. a = b
    <3>1. ~(a - 1 < b - 1) /\ ~(b - 1 < a - 1)
      BY <2>1, <2>2, NoncesDiffer
    <3>2. a \in Int /\ b \in Int
      BY DEF SignInv, SignTyped, SignLocal
    <3>3. QED
      BY <3>1, <3>2
  <2>4. args.l * (a - 1) \in Nat
    BY <2>1
  <2>5. QED
    BY <2>2, <2>3, <2>4
<1>2. QED
  BY <1>1, SignInductive, PTL

\* A signature that is returned is complete and the work of the last attempt.
THEOREM SuccessComplete ==
    Spec => []SuccessIsOneAttempt
<1>1. SignAlways => SuccessIsOneAttempt
  BY DEF SignAlways, SignInv, Written, SuccessIsOneAttempt, Sign!SuccessIsOneAttempt, Sign!Returned
<1>2. QED
  BY <1>1, SignInductive, PTL

\* An error returns no length and nothing that an attempt wrote.
THEOREM FailureClean ==
    Spec => []FailureLeavesNothing
<1>1. SignAlways => FailureLeavesNothing
  BY DEF SignAlways, SignInv, Written, FailureLeavesNothing, Sign!FailureLeavesNothing, Sign!Returned
<1>2. QED
  BY <1>1, SignInductive, PTL

-----------------------------------------------------------------------------
(***************************************************************************)
(* The safety half of Terminates: a call has boundedly many steps in it.   *)
(***************************************************************************)

\* How far a call has come within an attempt.
Stage(pc) ==
    CASE pc = "enter" -> 0 [] pc = "loop" -> 1 [] pc = "z" -> 2 [] pc = "w" -> 3
      [] pc = "pack" -> 4 [] pc = "cleanup" -> 5 [] pc = "returned" -> 6

\* A later attempt, or a later stage of this one, or a later row of this stage.
Advances ==
    /\ locals'.nonce \in locals.nonce .. args.limit
    /\ locals'.nonce = locals.nonce =>
          /\ Stage(locals'.pc) \in Stage(locals.pc) .. 6
          /\ Stage(locals'.pc) = Stage(locals.pc) =>
                locals'.row \in locals.row + 1 .. args.l + args.k

\* Each action of a call advances it.
LEMMA StepAdvances ==
    ASSUME Sign!SignAssumption, SignInv, Sign!Next
    PROVE  Advances
<1>0. /\ args.l \in Nat \ {0} /\ args.k \in Nat \ {0} /\ args.limit \in Nat \ {0}
      /\ locals \in SignLocal
      /\ locals.row \in Nat /\ locals.nonce \in 0 .. args.limit
      /\ locals.pc \in Trying => locals.nonce < args.limit
  BY Parameters DEF SignInv, SignTyped, SignLocal, Sampled
<1>1. ASSUME NEW pc, NEW row, Sign!Goto(pc, row)
      PROVE  /\ locals'.pc = pc /\ locals'.row = row /\ locals'.nonce = locals.nonce
  BY <1>0, <1>1 DEF Sign!Goto, SignLocal
<1>2. ASSUME NEW ret, NEW sig, Sign!AttemptReturns(ret, sig), locals.nonce < args.limit
      PROVE  Advances
  BY <1>0, <1>2 DEF Sign!AttemptReturns, SignLocal, Advances
<1>3. CASE Sign!EntryFails
  BY <1>0, <1>1, <1>3 DEF Sign!EntryFails, Advances, Stage
<1>4. CASE Sign!Enter
  BY <1>0, <1>1, <1>4 DEF Sign!Enter, Advances, Stage
<1>5. CASE Sign!Exhausted
  BY <1>0, <1>1, <1>5 DEF Sign!Exhausted, Advances, Stage
<1>6. CASE Sign!Attempt
  <2>1. locals.pc = "loop" /\ locals'.pc = "z" /\ locals'.nonce = locals.nonce
    BY <1>0, <1>6 DEF Sign!Attempt, SignLocal
  <2>2. Stage(locals.pc) = 1 /\ Stage(locals'.pc) = 2
    BY <2>1, SMT DEF Stage
  <2>3. QED
    BY <1>0, <2>1, <2>2, SMT DEF Advances
<1>7. CASE Sign!AttemptNoMemory
  BY <1>2, <1>7 DEF Sign!AttemptNoMemory
<1>8. CASE Sign!AcceptZ
  <2>1. locals.pc = "z" /\ locals.row < args.l /\ locals'.nonce = locals.nonce
        /\ locals'.pc = (IF locals.row + 1 = args.l THEN "w" ELSE "z")
        /\ locals'.row = (locals.row + 1) % args.l
    BY <1>1, <1>8 DEF Sign!AcceptZ
  <2>2. locals.row + 1 # args.l => (locals.row + 1) % args.l = locals.row + 1
    BY <1>0, <2>1
  <2>3. QED
    BY <1>0, <2>1, <2>2 DEF Advances, Stage
<1>9. CASE Sign!AcceptW
  <2>1. locals.pc = "w" /\ locals.row < args.k /\ locals'.nonce = locals.nonce
        /\ locals'.pc = (IF locals.row + 1 = args.k THEN "pack" ELSE "w")
        /\ locals'.row = (locals.row + 1) % args.k
    BY <1>1, <1>9 DEF Sign!AcceptW
  <2>2. locals.row + 1 # args.k => (locals.row + 1) % args.k = locals.row + 1
    BY <1>0, <2>1
  <2>3. QED
    BY <1>0, <2>1, <2>2 DEF Advances, Stage
<1>10. CASE Sign!Reject
  BY <1>0, <1>2, <1>10 DEF Sign!Reject, Trying
<1>11. CASE Sign!Pack
  BY <1>0, <1>2, <1>11 DEF Sign!Pack, Trying
<1>12. CASE Sign!Cleanup
  BY <1>0, <1>1, <1>12 DEF Sign!Cleanup, Advances, Stage
<1>13. QED
  BY <1>3, <1>4, <1>5, <1>6, <1>7, <1>8, <1>9, <1>10, <1>11, <1>12 DEF Sign!Next

\* Every step of a signing call advances it, over the attempts within the limit,
\* the stages and the rows: however often the norm checks reject, the loop of
\* attempts cannot go round for ever.
THEOREM SigningAdvances == Spec => [][SignNext => Advances]_vars
<1>1. SignAlways /\ [Next]_vars => [SignNext => Advances]_vars
  BY StepAdvances, RoutinesAssumption DEF SignAlways, SignNext
<1>2. QED
  BY <1>1, SignInductive, PTL DEF Spec

-----------------------------------------------------------------------------
(* Counting hints.                                                         *)

\* What the assumption says of the parameters.
LEMMA HintParams ==
    /\ HintRows \in Nat \ {0} /\ RowSize \in Nat \ {0} /\ Omega \in Nat /\ Omega < RowSize
    /\ Codec!Rows = 0 .. HintRows - 1
  BY RoutinesAssumption DEF Codec!HintAssumption, Codec!Rows

\* The instance counts as FiniteSets does.
LEMMA HintCardinality ==
    ASSUME NEW h, NEW i, NEW j
    PROVE  Codec!Count(h, i, j) = Cardinality(Codec!Before(h, i, j))
  BY Zenon DEF Codec!Count, Codec!Cardinality, Cardinality, Codec!IsFiniteSet, IsFiniteSet

\* The hints before a place are finitely many.
LEMMA BeforeFinite ==
    ASSUME NEW h, NEW i, NEW j
    PROVE  IsFiniteSet(Codec!Before(h, i, j)) /\ Codec!Count(h, i, j) \in Nat
<1>1. IsFiniteSet(0 .. HintRows - 1) /\ IsFiniteSet(0 .. RowSize - 1)
  <2>1. 0 \in Int /\ HintRows - 1 \in Int /\ RowSize - 1 \in Int
    BY HintParams
  <2>2. QED
    BY <2>1, FS_Interval
<1>2. IsFiniteSet(Codec!Rows \X (0 .. RowSize - 1))
  BY <1>1, HintParams, FS_Product
<1>3. Codec!Before(h, i, j) \subseteq Codec!Rows \X (0 .. RowSize - 1)
  BY DEF Codec!Before
<1>4. IsFiniteSet(Codec!Before(h, i, j))
  BY <1>2, <1>3, FS_Subset
<1>5. QED
  BY <1>4, HintCardinality, FS_CardinalityType

\* Membership, pair by pair.
LEMMA IsBefore ==
    ASSUME NEW h, NEW i, NEW j, NEW p
    PROVE  p \in Codec!Before(h, i, j) <=>
             \E r \in Codec!Rows, x \in 0 .. RowSize - 1 :
                 p = <<r, x>> /\ x \in h[r] /\ Codec!Earlier(r, x, i, j)
  BY DEF Codec!Before

\* Nothing is before the first coefficient.
LEMMA NoneBefore ==
    ASSUME NEW h
    PROVE  Codec!Count(h, 0, 0) = 0
<1>1. \A r \in Codec!Rows, x \in 0 .. RowSize - 1 : ~Codec!Earlier(r, x, 0, 0)
  BY HintParams DEF Codec!Earlier
<1>2. Codec!Before(h, 0, 0) = {}
  BY <1>1, IsBefore
<1>3. QED
  BY <1>2, HintCardinality, FS_EmptySet

\* Two places with the same hints before them, and a place with fewer.
LEMMA SameCount ==
    ASSUME NEW h, NEW g, NEW i, NEW j, NEW k, NEW m,
           Codec!Before(h, i, j) = Codec!Before(g, k, m)
    PROVE  Codec!Count(h, i, j) = Codec!Count(g, k, m)
  BY Zenon DEF Codec!Count

SameHints(h, g, i, j) ==
    \A r \in Codec!Rows, x \in 0 .. RowSize - 1 :
        Codec!Earlier(r, x, i, j) => (x \in h[r] <=> x \in g[r])

\* Hints that agree before a place count alike there.
LEMMA SameBefore ==
    ASSUME NEW h, NEW g, NEW i, NEW j, SameHints(h, g, i, j)
    PROVE  Codec!Before(h, i, j) = Codec!Before(g, i, j)
<1> SUFFICES ASSUME NEW p
             PROVE  p \in Codec!Before(h, i, j) <=> p \in Codec!Before(g, i, j)
  OBVIOUS
<1>1. QED
  BY IsBefore DEF SameHints

\* The number of hints grows along the section.
LEMMA FewerBefore ==
    ASSUME NEW h, NEW i \in Nat, NEW j \in Nat, NEW k \in Nat, NEW m \in Nat,
           i < k \/ (i = k /\ j <= m)
    PROVE  Codec!Count(h, i, j) <= Codec!Count(h, k, m)
<1>1. ASSUME NEW r \in Codec!Rows, NEW x \in 0 .. RowSize - 1, Codec!Earlier(r, x, i, j)
      PROVE  Codec!Earlier(r, x, k, m)
  <2>1. r \in Nat /\ x \in Nat
    BY HintParams
  <2>2. QED
    BY <1>1, <2>1 DEF Codec!Earlier
<1>2. Codec!Before(h, i, j) \subseteq Codec!Before(h, k, m)
  <2> SUFFICES ASSUME NEW p \in Codec!Before(h, i, j) PROVE p \in Codec!Before(h, k, m)
    OBVIOUS
  <2>1. QED
    BY <1>1, IsBefore
<1>3. Cardinality(Codec!Before(h, i, j)) <= Cardinality(Codec!Before(h, k, m))
  BY <1>2, BeforeFinite, FS_Subset
<1>4. QED
  BY <1>3, HintCardinality

\* A hint counts for the places behind it.
LEMMA OneMore ==
    ASSUME NEW h, NEW i \in Codec!Rows, NEW j \in 0 .. RowSize - 1, j \in h[i]
    PROVE  Codec!Count(h, i, j + 1) = Codec!Count(h, i, j) + 1
<1>1. ASSUME NEW r \in Codec!Rows, NEW x \in 0 .. RowSize - 1
      PROVE  Codec!Earlier(r, x, i, j + 1) <=> (Codec!Earlier(r, x, i, j) \/ (r = i /\ x = j))
  <2>1. r \in Nat /\ x \in Nat /\ i \in Nat /\ j \in Nat
    BY HintParams
  <2>2. QED
    BY <2>1 DEF Codec!Earlier
<1>2. Codec!Before(h, i, j + 1) = Codec!Before(h, i, j) \cup {<<i, j>>}
  <2> SUFFICES ASSUME NEW p
               PROVE  p \in Codec!Before(h, i, j + 1) <=> p \in Codec!Before(h, i, j) \cup {<<i, j>>}
    OBVIOUS
  <2>1. QED
    BY <1>1, IsBefore
<1>3. <<i, j>> \notin Codec!Before(h, i, j)
  <2>1. ~Codec!Earlier(i, j, i, j)
    BY HintParams DEF Codec!Earlier
  <2>2. QED
    BY <2>1, IsBefore
<1>4. Cardinality(Codec!Before(h, i, j) \cup {<<i, j>>}) = Cardinality(Codec!Before(h, i, j)) + 1
  BY <1>3, BeforeFinite, FS_AddElement
<1>5. QED
  BY <1>2, <1>4, HintCardinality, Zenon

\* A coefficient without a hint does not count, and a row without hints
LEMMA NoMore ==
    ASSUME NEW h, NEW i \in Codec!Rows, NEW j \in 0 .. RowSize - 1, j \notin h[i]
    PROVE  Codec!Count(h, i, j + 1) = Codec!Count(h, i, j)
<1>1. ASSUME NEW r \in Codec!Rows, NEW x \in 0 .. RowSize - 1
      PROVE  Codec!Earlier(r, x, i, j + 1) <=> (Codec!Earlier(r, x, i, j) \/ (r = i /\ x = j))
  <2>1. r \in Nat /\ x \in Nat /\ i \in Nat /\ j \in Nat
    BY HintParams
  <2>2. QED
    BY <2>1 DEF Codec!Earlier
<1>2. Codec!Before(h, i, j + 1) = Codec!Before(h, i, j)
  <2> SUFFICES ASSUME NEW p
               PROVE  p \in Codec!Before(h, i, j + 1) <=> p \in Codec!Before(h, i, j)
    OBVIOUS
  <2>1. QED
    BY <1>1, IsBefore
<1>3. QED
  BY <1>2, SameCount

\* The end of a row is the beginning of the next one.
LEMMA NextRow ==
    ASSUME NEW h, NEW i \in Codec!Rows
    PROVE  Codec!Count(h, i + 1, 0) = Codec!Count(h, i, RowSize)
<1>1. ASSUME NEW r \in Codec!Rows, NEW x \in 0 .. RowSize - 1
      PROVE  Codec!Earlier(r, x, i + 1, 0) <=> Codec!Earlier(r, x, i, RowSize)
  <2>1. r \in Nat /\ x \in Nat /\ i \in Nat /\ x < RowSize
    BY HintParams
  <2>2. QED
    BY <2>1 DEF Codec!Earlier
<1>2. Codec!Before(h, i + 1, 0) = Codec!Before(h, i, RowSize)
  <2> SUFFICES ASSUME NEW p
               PROVE  p \in Codec!Before(h, i + 1, 0) <=> p \in Codec!Before(h, i, RowSize)
    OBVIOUS
  <2>1. QED
    BY <1>1, IsBefore
<1>3. QED
  BY <1>2, SameCount

\* leaves the tally as it was.
LEMMA EmptyRow ==
    ASSUME NEW h, NEW i \in Codec!Rows, h[i] = {}
    PROVE  Codec!Count(h, i + 1, 0) = Codec!Count(h, i, 0)
<1>1. ASSUME NEW r \in Codec!Rows, NEW x \in 0 .. RowSize - 1
      PROVE  Codec!Earlier(r, x, i + 1, 0) <=> (Codec!Earlier(r, x, i, 0) \/ r = i)
  <2>1. r \in Nat /\ x \in Nat /\ i \in Nat
    BY HintParams
  <2>2. QED
    BY <2>1 DEF Codec!Earlier
<1>2. Codec!Before(h, i + 1, 0) = Codec!Before(h, i, 0)
  <2> SUFFICES ASSUME NEW p
               PROVE  p \in Codec!Before(h, i + 1, 0) <=> p \in Codec!Before(h, i, 0)
    OBVIOUS
  <2>1. QED
    BY <1>1, IsBefore
<1>3. QED
  BY <1>2, SameCount

\* A hint has fewer before it than any place behind it.
LEMMA StrictlyFewer ==
    ASSUME NEW h, NEW r \in Codec!Rows, NEW x \in 0 .. RowSize - 1, x \in h[r],
           NEW i \in Nat, NEW j \in Nat, Codec!Earlier(r, x, i, j)
    PROVE  Codec!Count(h, r, x) + 1 <= Codec!Count(h, i, j)
<1>1. r \in Nat /\ x \in Nat /\ x + 1 \in Nat
  BY HintParams
<1>2. r < i \/ (r = i /\ x + 1 <= j)
  BY <1>1 DEF Codec!Earlier
<1>3. Codec!Count(h, r, x + 1) <= Codec!Count(h, i, j)
  BY <1>1, <1>2, FewerBefore
<1>4. QED
  BY <1>3, OneMore

\* A hint behind all others.
AllEarlier(h, i, x) == \A r \in Codec!Rows : \A y \in h[r] : Codec!Earlier(r, y, i, x)
WithHint(h, i, x) == [h EXCEPT ![i] = @ \cup {x}]

\* It is counted behind itself only.
LEMMA LastHint ==
    ASSUME NEW h \in Codec!Hints, NEW i \in Codec!Rows, NEW x \in 0 .. RowSize - 1,
           AllEarlier(h, i, x)
    PROVE  /\ \A r \in Nat, y \in Nat :
                  ~Codec!Earlier(i, x, r, y) =>
                      Codec!Count(WithHint(h, i, x), r, y) = Codec!Count(h, r, y)
           /\ Codec!Count(WithHint(h, i, x), i, x) = Codec!Count(h, i + 1, 0)
           /\ Codec!Count(WithHint(h, i, x), i + 1, 0) = Codec!Count(h, i + 1, 0) + 1
<1> DEFINE g == WithHint(h, i, x)
<1>1. \A r \in Codec!Rows : \A y : y \in g[r] <=> (y \in h[r] \/ (r = i /\ y = x))
  BY DEF Codec!Hints, WithHint
<1> HIDE DEF g
<1>2. i \in Nat /\ x \in Nat
  BY HintParams
<1>3. ASSUME NEW r \in Nat, NEW y \in Nat, ~Codec!Earlier(i, x, r, y)
      PROVE  Codec!Count(g, r, y) = Codec!Count(h, r, y)
  <2>1. Codec!Before(g, r, y) = Codec!Before(h, r, y)
    <3>1. ASSUME NEW k \in Codec!Rows, NEW z \in 0 .. RowSize - 1, Codec!Earlier(k, z, r, y)
          PROVE  z \in g[k] <=> z \in h[k]
      <4>1. ~(k = i /\ z = x)
        BY <1>3, <3>1
      <4>2. QED
        BY <1>1, <4>1, Zenon
    <3>2. SameHints(g, h, r, y)
      BY <3>1, Zenon DEF SameHints
    <3>3. QED
      BY <3>2, SameBefore
  <2>2. QED
    BY <2>1, SameCount
<1>4. ~Codec!Earlier(i, x, i, x)
  BY <1>2 DEF Codec!Earlier
<1>5. ASSUME NEW r \in Codec!Rows, NEW y \in 0 .. RowSize - 1, Codec!Earlier(r, y, i, x)
      PROVE  Codec!Earlier(r, y, i + 1, 0)
  <2>1. r \in Nat /\ y \in Nat
    BY HintParams
  <2>2. QED
    BY <1>2, <1>5, <2>1 DEF Codec!Earlier
<1>6. Codec!Before(h, i, x) = Codec!Before(h, i + 1, 0)
  <2> SUFFICES ASSUME NEW p
               PROVE  p \in Codec!Before(h, i, x) <=> p \in Codec!Before(h, i + 1, 0)
    OBVIOUS
  <2>1. QED
    BY <1>5, IsBefore DEF AllEarlier
<1>7. Codec!Count(g, i, x) = Codec!Count(h, i + 1, 0)
  <2>1. Codec!Count(g, i, x) = Codec!Count(h, i, x)
    BY <1>2, <1>3, <1>4, Zenon
  <2>2. Codec!Count(h, i, x) = Codec!Count(h, i + 1, 0)
    BY <1>6, Zenon DEF Codec!Count
  <2>3. QED
    BY <2>1, <2>2, Zenon
<1>8. Codec!Before(g, i + 1, 0) = Codec!Before(h, i + 1, 0) \cup {<<i, x>>}
  <2>1. Codec!Earlier(i, x, i + 1, 0)
    BY <1>2 DEF Codec!Earlier
  <2> SUFFICES ASSUME NEW p
               PROVE  p \in Codec!Before(g, i + 1, 0) <=>
                          p \in Codec!Before(h, i + 1, 0) \cup {<<i, x>>}
    OBVIOUS
  <2>2. ASSUME NEW k \in Codec!Rows, NEW z \in 0 .. RowSize - 1, Codec!Earlier(k, z, i + 1, 0)
        PROVE  z \in g[k] <=> (z \in h[k] \/ <<k, z>> = <<i, x>>)
    BY <1>1
  <2>3. CASE p = <<i, x>>
    <3>1. x \in g[i]
      BY <1>1, Zenon
    <3>2. p \in Codec!Before(g, i + 1, 0)
      BY <2>1, <2>3, <3>1, IsBefore, Zenon
    <3>3. QED
      BY <2>3, <3>2
  <2>4. CASE p # <<i, x>>
    <3>1. p \in Codec!Before(g, i + 1, 0) <=> p \in Codec!Before(h, i + 1, 0)
      <4>1. ASSUME p \in Codec!Before(g, i + 1, 0) PROVE p \in Codec!Before(h, i + 1, 0)
        <5>1. PICK k \in Codec!Rows, z \in 0 .. RowSize - 1 :
                p = <<k, z>> /\ z \in g[k] /\ Codec!Earlier(k, z, i + 1, 0)
          BY <4>1, IsBefore
        <5>2. z \in h[k]
          BY <2>2, <2>4, <5>1, Zenon
        <5>3. QED
          BY <5>1, <5>2, IsBefore
      <4>2. ASSUME p \in Codec!Before(h, i + 1, 0) PROVE p \in Codec!Before(g, i + 1, 0)
        <5>1. PICK k \in Codec!Rows, z \in 0 .. RowSize - 1 :
                p = <<k, z>> /\ z \in h[k] /\ Codec!Earlier(k, z, i + 1, 0)
          BY <4>2, IsBefore
        <5>2. z \in g[k]
          BY <2>2, <5>1, Zenon
        <5>3. QED
          BY <5>1, <5>2, IsBefore
      <4>3. QED
        BY <4>1, <4>2
    <3>2. QED
      BY <2>4, <3>1
  <2>5. QED
    BY <2>3, <2>4
<1>9. <<i, x>> \notin Codec!Before(h, i + 1, 0)
  BY <1>4, IsBefore DEF AllEarlier
<1>10. Cardinality(Codec!Before(h, i + 1, 0) \cup {<<i, x>>}) = Cardinality(Codec!Before(h, i + 1, 0)) + 1
  BY <1>9, BeforeFinite, FS_AddElement
<1>11. Codec!Count(g, i + 1, 0) = Codec!Count(h, i + 1, 0) + 1
  BY <1>8, <1>10, HintCardinality, Zenon
<1>12. QED
  BY <1>3, <1>7, <1>11 DEF g

-----------------------------------------------------------------------------
(* What has been packed when the loop stands at coefficient j of row i.    *)

Recorded(bytes, h, i, j) ==
    /\ Codec!Count(h, i, j) <= Omega
    /\ \A r \in Codec!Rows : r < i => bytes[Omega + r] = Codec!Count(h, r + 1, 0)
    /\ \A r \in Codec!Rows : \A x \in h[r] :
           Codec!Earlier(r, x, i, j) => bytes[Codec!Count(h, r, x)] = x
    /\ \A b \in 0 .. Codec!Count(h, i, j) - 1 :
           \E r \in Codec!Rows : \E x \in h[r] :
               Codec!Earlier(r, x, i, j) /\ Codec!Count(h, r, x) = b /\ bytes[b] = x
    /\ \A b \in Codec!Count(h, i, j) .. Omega - 1 : bytes[b] = 0

LEMMA HintTypes ==
    ASSUME NEW h \in Codec!Hints, NEW r \in Codec!Rows, NEW x \in h[r]
    PROVE  x \in 0 .. RowSize - 1 /\ x \in Nat /\ r \in Nat
  BY HintParams DEF Codec!Hints

\* Nothing is recorded in front of the first coefficient.
LEMMA RecordedStart ==
    ASSUME NEW h \in Codec!Hints
    PROVE  Recorded([b \in 0 .. Omega + HintRows - 1 |-> 0], h, 0, 0)
<1>1. Codec!Count(h, 0, 0) = 0
  BY NoneBefore
<1>2. \A r \in Codec!Rows : ~(r < 0)
  BY HintParams
<1>3. \A r \in Codec!Rows : \A x \in h[r] : ~Codec!Earlier(r, x, 0, 0)
  BY HintTypes DEF Codec!Earlier
<1>4. \A b \in 0 .. Omega - 1 : b \in 0 .. Omega + HintRows - 1
  BY HintParams
<1>5. 0 <= Omega /\ 0 .. 0 - 1 = {}
  BY HintParams
<1>6. QED
  BY <1>1, <1>2, <1>3, <1>4, <1>5 DEF Recorded

\* A coefficient without a hint writes nothing.
LEMMA RecordedNothing ==
    ASSUME NEW h \in Codec!Hints, NEW i \in Codec!Rows, NEW j \in 0 .. RowSize - 1, j \notin h[i],
           NEW bytes, Recorded(bytes, h, i, j)
    PROVE  Recorded(bytes, h, i, j + 1)
<1>1. Codec!Count(h, i, j + 1) = Codec!Count(h, i, j)
  BY NoMore
<1>2. ASSUME NEW r \in Codec!Rows, NEW x \in h[r]
      PROVE  Codec!Earlier(r, x, i, j + 1) <=> Codec!Earlier(r, x, i, j)
  <2>1. r \in Nat /\ x \in Nat /\ i \in Nat /\ j \in Nat
    BY HintTypes, HintParams
  <2>2. ~(r = i /\ x = j)
    OBVIOUS
  <2>3. QED
    BY <2>1, <2>2 DEF Codec!Earlier
<1>3. ASSUME NEW r \in Codec!Rows, NEW x \in h[r], Codec!Earlier(r, x, i, j + 1)
      PROVE  bytes[Codec!Count(h, r, x)] = x
  BY <1>2, <1>3 DEF Recorded
<1>4. ASSUME NEW b \in 0 .. Codec!Count(h, i, j + 1) - 1
      PROVE  \E r \in Codec!Rows : \E x \in h[r] :
                 Codec!Earlier(r, x, i, j + 1) /\ Codec!Count(h, r, x) = b /\ bytes[b] = x
  <2>1. b \in 0 .. Codec!Count(h, i, j) - 1
    BY <1>1, Zenon
  <2>2. PICK r \in Codec!Rows : \E x \in h[r] :
          Codec!Earlier(r, x, i, j) /\ Codec!Count(h, r, x) = b /\ bytes[b] = x
    BY <2>1, Zenon DEF Recorded
  <2>3. QED
    BY <1>2, <2>2, Zenon
<1>5. QED
  BY <1>1, <1>3, <1>4, Zenon DEF Recorded

\* A hint goes to the slot of its number.
LEMMA RecordedHint ==
    ASSUME NEW h \in Codec!Hints, NEW i \in Codec!Rows, NEW j \in 0 .. RowSize - 1, j \in h[i],
           NEW bytes \in Codec!Bytes, Recorded(bytes, h, i, j), Codec!Count(h, i, j) # Omega,
           NEW new, new = [bytes EXCEPT ![Codec!Count(h, i, j)] = j]
    PROVE  Recorded(new, h, i, j + 1)
<1>1. PICK c \in Nat : c = Codec!Count(h, i, j)
  BY BeforeFinite
<1>2. c < Omega /\ c \in 0 .. Omega + HintRows - 1 /\ Codec!Count(h, i, j + 1) = c + 1
  BY <1>1, HintParams, OneMore DEF Recorded
<1>3. new[c] = j /\ \A b \in 0 .. Omega + HintRows - 1 : b # c => new[b] = bytes[b]
  BY <1>1, <1>2 DEF Codec!Bytes
<1>4. i \in Nat /\ j \in Nat /\ Omega \in Nat /\ HintRows \in Nat
  BY HintParams
<1>5. \A r \in Codec!Rows : r < i => new[Omega + r] = Codec!Count(h, r + 1, 0)
  <2> SUFFICES ASSUME NEW r \in Codec!Rows, r < i PROVE new[Omega + r] = Codec!Count(h, r + 1, 0)
    OBVIOUS
  <2>1. Omega + r \in 0 .. Omega + HintRows - 1 /\ Omega + r # c
    BY <1>2, <1>4, HintParams
  <2>2. QED
    BY <1>3, <2>1 DEF Recorded
<1>6. ASSUME NEW r \in Codec!Rows, NEW x \in h[r], Codec!Earlier(r, x, i, j)
      PROVE  /\ Codec!Count(h, r, x) \in Nat /\ Codec!Count(h, r, x) < c
             /\ new[Codec!Count(h, r, x)] = bytes[Codec!Count(h, r, x)]
             /\ Codec!Earlier(r, x, i, j + 1)
  <2>1. r \in Nat /\ x \in Nat /\ x \in 0 .. RowSize - 1
    BY HintTypes
  <2>2. PICK d \in Nat : d = Codec!Count(h, r, x)
    BY BeforeFinite
  <2>3. d + 1 <= c
    BY <1>1, <1>4, <1>6, <2>1, <2>2, StrictlyFewer
  <2>4. d < c /\ d \in 0 .. Omega + HintRows - 1 /\ d # c
    BY <1>2, <1>4, <2>3
  <2>5. Codec!Earlier(r, x, i, j + 1)
    BY <1>4, <1>6, <2>1 DEF Codec!Earlier
  <2>6. QED
    BY <1>3, <2>2, <2>4, <2>5
<1>7. ASSUME NEW r \in Codec!Rows, NEW x \in h[r], Codec!Earlier(r, x, i, j + 1)
      PROVE  new[Codec!Count(h, r, x)] = x
  <2>1. r \in Nat /\ x \in Nat
    BY HintTypes
  <2>2. Codec!Earlier(r, x, i, j) \/ (r = i /\ x = j)
    BY <1>4, <1>7, <2>1 DEF Codec!Earlier
  <2>3. CASE Codec!Earlier(r, x, i, j)
    BY <1>6, <2>3 DEF Recorded
  <2>4. CASE r = i /\ x = j
    BY <1>1, <1>3, <2>4
  <2>5. QED
    BY <2>2, <2>3, <2>4
<1>8. ASSUME NEW b \in 0 .. (c + 1) - 1
      PROVE  \E r \in Codec!Rows : \E x \in h[r] :
                 Codec!Earlier(r, x, i, j + 1) /\ Codec!Count(h, r, x) = b /\ new[b] = x
  <2>1. CASE b = c
    <3>1. Codec!Earlier(i, j, i, j + 1)
      BY <1>4 DEF Codec!Earlier
    <3>2. QED
      BY <1>1, <1>3, <2>1, <3>1
  <2>2. CASE b # c
    <3>1. b \in 0 .. c - 1
      BY <2>2
    <3>2. PICK r \in Codec!Rows : \E x \in h[r] :
            Codec!Earlier(r, x, i, j) /\ Codec!Count(h, r, x) = b /\ bytes[b] = x
      BY <1>1, <3>1 DEF Recorded
    <3>3. PICK x \in h[r] :
            Codec!Earlier(r, x, i, j) /\ Codec!Count(h, r, x) = b /\ bytes[b] = x
      BY <3>2
    <3>4. new[b] = x /\ Codec!Earlier(r, x, i, j + 1)
      BY <1>6, <3>3
    <3>5. QED
      BY <3>3, <3>4
  <2>3. QED
    BY <2>1, <2>2
<1>9. \A b \in c + 1 .. Omega - 1 : new[b] = 0
  <2> SUFFICES ASSUME NEW b \in c + 1 .. Omega - 1 PROVE new[b] = 0
    OBVIOUS
  <2>1. b \in c .. Omega - 1 /\ b # c /\ b \in 0 .. Omega + HintRows - 1
    BY <1>4
  <2>2. QED
    BY <1>1, <1>3, <2>1 DEF Recorded
<1>10. c + 1 <= Omega
  BY <1>2, <1>4
<1>11. QED
  BY <1>2, <1>5, <1>7, <1>8, <1>9, <1>10, Zenon DEF Recorded

\* The tally of a row goes behind the slots.
LEMMA RecordedRow ==
    ASSUME NEW h \in Codec!Hints, NEW i \in Codec!Rows,
           NEW bytes \in Codec!Bytes, Recorded(bytes, h, i, RowSize),
           NEW new, new = [bytes EXCEPT ![Omega + i] = Codec!Count(h, i, RowSize)]
    PROVE  Recorded(new, h, i + 1, 0)
<1>1. PICK c \in Nat : c = Codec!Count(h, i, RowSize)
  BY BeforeFinite
<1>2. Codec!Count(h, i + 1, 0) = c /\ c <= Omega
  BY <1>1, NextRow DEF Recorded
<1>3. i \in Nat /\ Omega \in Nat /\ HintRows \in Nat /\ RowSize \in Nat /\ i < HintRows
  BY HintParams
<1>4. /\ new[Omega + i] = c
      /\ \A b \in 0 .. Omega + HintRows - 1 : b # Omega + i => new[b] = bytes[b]
  <2>1. Omega + i \in 0 .. Omega + HintRows - 1
    BY <1>3
  <2>2. QED
    BY <1>1, <2>1 DEF Codec!Bytes
<1>5. \A b \in 0 .. Omega - 1 : new[b] = bytes[b]
  <2> SUFFICES ASSUME NEW b \in 0 .. Omega - 1 PROVE new[b] = bytes[b]
    OBVIOUS
  <2>1. b \in 0 .. Omega + HintRows - 1 /\ b # Omega + i
    BY <1>3
  <2>2. QED
    BY <1>4, <2>1
<1>6. ASSUME NEW r \in Codec!Rows, r < i + 1 PROVE new[Omega + r] = Codec!Count(h, r + 1, 0)
  <2>1. CASE r = i
    BY <1>2, <1>4, <2>1
  <2>2. CASE r # i
    <3>1. r < i /\ Omega + r \in 0 .. Omega + HintRows - 1 /\ Omega + r # Omega + i
      BY <1>3, <1>6, <2>2, HintParams
    <3>2. QED
      BY <1>4, <3>1 DEF Recorded
  <2>3. QED
    BY <2>1, <2>2
<1>7. ASSUME NEW r \in Codec!Rows, NEW x \in h[r]
      PROVE  /\ Codec!Earlier(r, x, i + 1, 0) <=> Codec!Earlier(r, x, i, RowSize)
             /\ Codec!Earlier(r, x, i, RowSize) =>
                    Codec!Count(h, r, x) \in 0 .. Omega - 1
  <2>1. r \in Nat /\ x \in Nat /\ x \in 0 .. RowSize - 1
    BY HintTypes
  <2>2. Codec!Earlier(r, x, i + 1, 0) <=> Codec!Earlier(r, x, i, RowSize)
    BY <1>3, <2>1 DEF Codec!Earlier
  <2>3. ASSUME Codec!Earlier(r, x, i, RowSize) PROVE Codec!Count(h, r, x) \in 0 .. Omega - 1
    <3>1. PICK d \in Nat : d = Codec!Count(h, r, x)
      BY BeforeFinite
    <3>2. d + 1 <= c
      BY <1>1, <1>3, <2>1, <2>3, <3>1, StrictlyFewer
    <3>3. d \in 0 .. Omega - 1
      BY <1>2, <1>3, <3>2
    <3>4. QED
      BY <3>1, <3>3
  <2>4. QED
    BY <2>2, <2>3
<1>8. ASSUME NEW r \in Codec!Rows, NEW x \in h[r], Codec!Earlier(r, x, i + 1, 0)
      PROVE  new[Codec!Count(h, r, x)] = x
  BY <1>5, <1>7, <1>8 DEF Recorded
<1>9. ASSUME NEW b \in 0 .. c - 1
      PROVE  \E r \in Codec!Rows : \E x \in h[r] :
                 Codec!Earlier(r, x, i + 1, 0) /\ Codec!Count(h, r, x) = b /\ new[b] = x
  <2>1. PICK r \in Codec!Rows : \E x \in h[r] :
          Codec!Earlier(r, x, i, RowSize) /\ Codec!Count(h, r, x) = b /\ bytes[b] = x
    BY <1>1 DEF Recorded
  <2>2. PICK x \in h[r] :
          Codec!Earlier(r, x, i, RowSize) /\ Codec!Count(h, r, x) = b /\ bytes[b] = x
    BY <2>1
  <2>3. Codec!Earlier(r, x, i + 1, 0) /\ new[b] = x
    BY <1>5, <1>7, <2>2
  <2>4. QED
    BY <2>2, <2>3
<1>10. \A b \in c .. Omega - 1 : new[b] = 0
  <2> SUFFICES ASSUME NEW b \in c .. Omega - 1 PROVE new[b] = 0
    OBVIOUS
  <2>1. b \in 0 .. Omega - 1
    BY <1>3
  <2>2. QED
    BY <1>1, <1>5, <2>1 DEF Recorded
<1>11. QED
  BY <1>2, <1>6, <1>8, <1>9, <1>10, Zenon DEF Recorded

-----------------------------------------------------------------------------
(* Reading back a section that was packed.                                 *)

\* Byte b is the one hint of row i with b hints before it.
LEMMA RowBytes ==
    ASSUME NEW h \in Codec!Hints, NEW bytes, Recorded(bytes, h, HintRows, 0),
           NEW i \in Codec!Rows, NEW b \in Nat,
           Codec!Count(h, i, 0) <= b, b < Codec!Count(h, i + 1, 0)
    PROVE  \E x \in h[i] : Codec!Count(h, i, x) = b /\ bytes[b] = x
<1>1. i \in Nat /\ i + 1 \in Nat /\ HintRows \in Nat /\ 0 \in Nat /\ (i + 1 < HintRows \/ i + 1 = HintRows)
  BY HintParams
<1>2. PICK c \in Nat, d \in Nat, e \in Nat :
        c = Codec!Count(h, i, 0) /\ d = Codec!Count(h, i + 1, 0) /\ e = Codec!Count(h, HintRows, 0)
  BY BeforeFinite
<1>3. d <= e
  BY <1>1, <1>2, FewerBefore
<1>4. b \in 0 .. e - 1 /\ c <= b /\ b < d
  BY <1>2, <1>3
<1>5. PICK r \in Codec!Rows : \E x \in h[r] : Codec!Count(h, r, x) = b /\ bytes[b] = x
  BY <1>2, <1>4 DEF Recorded
<1>6. PICK x \in h[r] : Codec!Count(h, r, x) = b /\ bytes[b] = x
  BY <1>5
<1>7. r \in Nat /\ x \in Nat /\ x \in 0 .. RowSize - 1
  BY HintTypes
<1>8. ~(r < i)
  <2> SUFFICES ASSUME r < i PROVE FALSE
    OBVIOUS
  <2>1. Codec!Earlier(r, x, i, 0)
    BY DEF Codec!Earlier
  <2>2. b + 1 <= c
    BY <1>1, <1>2, <1>6, <1>7, <2>1, StrictlyFewer
  <2>3. QED
    BY <1>4, <2>2
<1>9. ~(i < r)
  <2> SUFFICES ASSUME i < r PROVE FALSE
    OBVIOUS
  <2>1. i + 1 < r \/ (i + 1 = r /\ 0 <= x)
    BY <1>1, <1>7
  <2>2. d <= b
    BY <1>1, <1>2, <1>6, <1>7, <2>1, FewerBefore
  <2>3. QED
    BY <1>4, <2>2
<1>10. r = i
  BY <1>1, <1>7, <1>8, <1>9
<1>11. QED
  BY <1>6, <1>10

\* The tallies a reader finds are the ones of the packed hints.
LEMMA SectionTallies ==
    ASSUME NEW h \in Codec!Hints, NEW bytes, Recorded(bytes, h, HintRows, 0), NEW i \in Codec!Rows
    PROVE  /\ Codec!OldCount(bytes, i) = Codec!Count(h, i, 0)
           /\ Codec!NewCount(bytes, i) = Codec!Count(h, i + 1, 0)
           /\ Codec!Count(h, i, 0) <= Codec!Count(h, i + 1, 0)
           /\ Codec!Count(h, i + 1, 0) <= Omega
<1>1. i \in Nat /\ i + 1 \in Nat /\ HintRows \in Nat /\ 0 \in Nat /\ i < HintRows
      /\ (i + 1 < HintRows \/ i + 1 = HintRows) /\ Omega \in Nat
  BY HintParams
<1>2. Codec!NewCount(bytes, i) = Codec!Count(h, i + 1, 0)
  BY <1>1 DEF Codec!NewCount, Recorded
<1>3. Codec!OldCount(bytes, i) = Codec!Count(h, i, 0)
  <2>1. CASE i = 0
    BY <2>1, NoneBefore DEF Codec!OldCount
  <2>2. CASE i # 0
    <3>1. PICK k \in Codec!Rows : k + 1 = i /\ Omega + i - 1 = Omega + k /\ k < HintRows
      <4>1. i - 1 \in Codec!Rows /\ (i - 1) + 1 = i /\ Omega + i - 1 = Omega + (i - 1) /\ i - 1 < HintRows
        BY <1>1, <2>2, HintParams
      <4>2. QED
        BY <4>1
    <3>2. bytes[Omega + k] = Codec!Count(h, k + 1, 0)
      BY <3>1 DEF Recorded
    <3>3. QED
      BY <2>2, <3>1, <3>2, Zenon DEF Codec!OldCount
  <2>3. QED
    BY <2>1, <2>2
<1>4. Codec!Count(h, i, 0) <= Codec!Count(h, i + 1, 0)
  <2>1. i < i + 1
    BY <1>1
  <2>2. QED
    BY <1>1, <2>1, FewerBefore
<1>5. Codec!Count(h, i + 1, 0) <= Omega
  <2>1. Codec!Count(h, i + 1, 0) <= Codec!Count(h, HintRows, 0)
    BY <1>1, FewerBefore
  <2>2. PICK c \in Nat, d \in Nat : c = Codec!Count(h, i + 1, 0) /\ d = Codec!Count(h, HintRows, 0)
    BY BeforeFinite
  <2>3. QED
    BY <1>1, <2>1, <2>2 DEF Recorded
<1>6. QED
  BY <1>2, <1>3, <1>4, <1>5

\* Positions ascend in a row.
LEMMA RowAscends ==
    ASSUME NEW h \in Codec!Hints, NEW bytes, Recorded(bytes, h, HintRows, 0),
           NEW i \in Codec!Rows, NEW b \in Nat,
           Codec!Count(h, i, 0) < b, b < Codec!Count(h, i + 1, 0)
    PROVE  bytes[b - 1] < bytes[b]
<1>1. PICK c \in Nat, d \in Nat : c = Codec!Count(h, i, 0) /\ d = Codec!Count(h, i + 1, 0)
  BY BeforeFinite
<1>2. b - 1 \in Nat /\ c <= b - 1 /\ b - 1 < d /\ c <= b /\ b < d
  BY <1>1
<1>3. PICK x \in h[i] : Codec!Count(h, i, x) = b - 1 /\ bytes[b - 1] = x
  BY <1>1, <1>2, RowBytes
<1>4. PICK y \in h[i] : Codec!Count(h, i, y) = b /\ bytes[b] = y
  BY <1>1, <1>2, RowBytes
<1>5. x \in Nat /\ y \in Nat /\ i \in Nat
  BY HintTypes
<1>6. ~(y <= x)
  <2> SUFFICES ASSUME y <= x PROVE FALSE
    OBVIOUS
  <2>1. Codec!Count(h, i, y) <= Codec!Count(h, i, x)
    BY <1>5, FewerBefore
  <2>2. b <= b - 1
    BY <1>3, <1>4, <2>1
  <2>3. QED
    BY <2>2
<1>7. QED
  BY <1>3, <1>4, <1>5, <1>6

\* The hints of row i with fewer than b hints before them.
HintsRead(h, i, b) == {x \in h[i] : Codec!Count(h, i, x) < b}

\* At the old tally nothing of the row is read,
LEMMA ReadNone ==
    ASSUME NEW h \in Codec!Hints, NEW i \in Codec!Rows
    PROVE  HintsRead(h, i, Codec!Count(h, i, 0)) = {}
<1> SUFFICES ASSUME NEW x \in h[i], Codec!Count(h, i, x) < Codec!Count(h, i, 0) PROVE FALSE
  BY DEF HintsRead
<1>1. x \in Nat /\ i \in Nat /\ 0 \in Nat /\ 0 <= x
  BY HintTypes
<1>2. Codec!Count(h, i, 0) <= Codec!Count(h, i, x)
  BY <1>1, FewerBefore
<1>3. PICK c \in Nat, d \in Nat : c = Codec!Count(h, i, 0) /\ d = Codec!Count(h, i, x)
  BY BeforeFinite
<1>4. QED
  BY <1>2, <1>3

\* at the new one everything,
LEMMA ReadAll ==
    ASSUME NEW h \in Codec!Hints, NEW i \in Codec!Rows
    PROVE  HintsRead(h, i, Codec!Count(h, i + 1, 0)) = h[i]
<1> SUFFICES ASSUME NEW x \in h[i] PROVE Codec!Count(h, i, x) < Codec!Count(h, i + 1, 0)
  BY DEF HintsRead
<1>1. x \in Nat /\ x \in 0 .. RowSize - 1 /\ i \in Nat /\ i + 1 \in Nat /\ 0 \in Nat
  BY HintTypes
<1>2. Codec!Earlier(i, x, i + 1, 0)
  BY <1>1 DEF Codec!Earlier
<1>3. Codec!Count(h, i, x) + 1 <= Codec!Count(h, i + 1, 0)
  BY <1>1, <1>2, StrictlyFewer
<1>4. PICK c \in Nat, d \in Nat : c = Codec!Count(h, i + 1, 0) /\ d = Codec!Count(h, i, x)
  BY BeforeFinite
<1>5. QED
  BY <1>3, <1>4

\* and each byte between them adds one hint.
LEMMA ReadOneMore ==
    ASSUME NEW h \in Codec!Hints, NEW bytes, Recorded(bytes, h, HintRows, 0),
           NEW i \in Codec!Rows, NEW b \in Nat,
           Codec!Count(h, i, 0) <= b, b < Codec!Count(h, i + 1, 0)
    PROVE  HintsRead(h, i, b + 1) = HintsRead(h, i, b) \cup {bytes[b]}
<1>1. PICK x \in h[i] : Codec!Count(h, i, x) = b /\ bytes[b] = x
  BY RowBytes
<1>2. ASSUME NEW y \in h[i]
      PROVE  Codec!Count(h, i, y) < b + 1 <=> (Codec!Count(h, i, y) < b \/ y = x)
  <2>1. PICK c \in Nat : c = Codec!Count(h, i, y)
    BY BeforeFinite
  <2>2. CASE c = b
    <3>1. Codec!Earlier(i, y, HintRows, 0)
      BY HintParams DEF Codec!Earlier
    <3>2. bytes[c] = y
      BY <2>1, <3>1 DEF Recorded
    <3>3. QED
      BY <1>1, <2>1, <2>2, <3>2
  <2>3. CASE c # b
    <3>1. y # x
      BY <1>1, <2>1, <2>3
    <3>2. c < b + 1 <=> c < b
      BY <2>3
    <3>3. QED
      BY <2>1, <3>1, <3>2
  <2>4. QED
    BY <2>2, <2>3
<1>3. QED
  BY <1>1, <1>2 DEF HintsRead

-----------------------------------------------------------------------------
(* Reading any section.                                                    *)

\* The tallies of the rows before i, and the place of every hint read so far,
\* are right for the hints read so far.
Collected(bytes, h, i) ==
    /\ \A r \in Codec!Rows : r < i => bytes[Omega + r] = Codec!Count(h, r + 1, 0)
    /\ \A r \in Codec!Rows : \A x \in h[r] : bytes[Codec!Count(h, r, x)] = x

\* The tally in front of a row is right.
LEMMA CollectedOld ==
    ASSUME NEW h, NEW bytes, NEW i \in Codec!Rows, Collected(bytes, h, i)
    PROVE  Codec!OldCount(bytes, i) = Codec!Count(h, i, 0)
<1>1. i \in Nat /\ HintRows \in Nat /\ Omega \in Nat /\ i < HintRows
  BY HintParams
<1>2. CASE i = 0
  BY <1>2, NoneBefore DEF Codec!OldCount
<1>3. CASE i # 0
  <2>1. PICK k \in Codec!Rows : k + 1 = i /\ Omega + i - 1 = Omega + k /\ k < i
    <3>1. i - 1 \in Codec!Rows /\ (i - 1) + 1 = i /\ Omega + i - 1 = Omega + (i - 1) /\ i - 1 < i
      BY <1>1, <1>3, HintParams
    <3>2. QED
      BY <3>1
  <2>2. bytes[Omega + k] = Codec!Count(h, k + 1, 0)
    BY <2>1 DEF Collected
  <2>3. QED
    BY <1>3, <2>1, <2>2, Zenon DEF Codec!OldCount
<1>4. QED
  BY <1>2, <1>3

\* A byte behind all hints read so far.
LEMMA CollectedByte ==
    ASSUME NEW h \in Codec!Hints, NEW bytes, NEW i \in Codec!Rows, Collected(bytes, h, i),
           NEW x \in 0 .. RowSize - 1, AllEarlier(h, i, x),
           bytes[Codec!Count(h, i + 1, 0)] = x
    PROVE  /\ Collected(bytes, WithHint(h, i, x), i)
           /\ Codec!Count(WithHint(h, i, x), i, 0) = Codec!Count(h, i, 0)
           /\ Codec!Count(WithHint(h, i, x), i + 1, 0) = Codec!Count(h, i + 1, 0) + 1
<1> DEFINE g == WithHint(h, i, x)
<1>0. \A r \in Codec!Rows : \A y : y \in g[r] <=> (y \in h[r] \/ (r = i /\ y = x))
  BY DEF Codec!Hints, WithHint
<1>1. /\ \A r \in Nat, y \in Nat :
             ~Codec!Earlier(i, x, r, y) => Codec!Count(g, r, y) = Codec!Count(h, r, y)
      /\ Codec!Count(g, i, x) = Codec!Count(h, i + 1, 0)
      /\ Codec!Count(g, i + 1, 0) = Codec!Count(h, i + 1, 0) + 1
  BY LastHint
<1> HIDE DEF g
<1>2. i \in Nat /\ x \in Nat
  BY HintParams
<1>3. Codec!Count(g, i, 0) = Codec!Count(h, i, 0)
  <2>1. ~Codec!Earlier(i, x, i, 0)
    BY <1>2 DEF Codec!Earlier
  <2>2. QED
    BY <1>1, <1>2, <2>1
<1>4. ASSUME NEW r \in Codec!Rows, r < i PROVE bytes[Omega + r] = Codec!Count(g, r + 1, 0)
  <2>1. r + 1 \in Nat /\ 0 \in Nat /\ ~(i < r + 1) /\ ~(x < 0)
    BY <1>2, <1>4, HintParams
  <2>2. ~Codec!Earlier(i, x, r + 1, 0)
    BY <2>1 DEF Codec!Earlier
  <2>3. Codec!Count(g, r + 1, 0) = Codec!Count(h, r + 1, 0)
    BY <1>1, <2>1, <2>2, Zenon
  <2>4. bytes[Omega + r] = Codec!Count(h, r + 1, 0)
    BY <1>4, Zenon DEF Collected
  <2>5. QED
    BY <2>3, <2>4, Zenon
<1>5. ASSUME NEW r \in Codec!Rows, NEW y \in g[r] PROVE bytes[Codec!Count(g, r, y)] = y
  <2>1. y \in h[r] \/ (r = i /\ y = x)
    BY <1>0
  <2>2. CASE y \in h[r]
    <3>1. r \in Nat /\ y \in Nat
      BY <2>2, HintTypes
    <3>2. Codec!Earlier(r, y, i, x)
      BY <2>2, Zenon DEF AllEarlier
    <3>3. ~Codec!Earlier(i, x, r, y)
      BY <1>2, <3>1, <3>2 DEF Codec!Earlier
    <3>4. Codec!Count(g, r, y) = Codec!Count(h, r, y)
      BY <1>1, <3>1, <3>3, Zenon
    <3>5. bytes[Codec!Count(h, r, y)] = y
      BY <2>2, Zenon DEF Collected
    <3>6. QED
      BY <3>4, <3>5, Zenon
  <2>3. CASE r = i /\ y = x
    BY <1>1, <2>3, Zenon
  <2>4. QED
    BY <2>1, <2>2, <2>3
<1>6. QED
  BY <1>1, <1>3, <1>4, <1>5, Zenon DEF Collected, g

-----------------------------------------------------------------------------
(***************************************************************************)
(* The inductive invariant of the hint section: what the signer has        *)
(* recorded when its loop stands at a coefficient, and what the verifier   *)
(* has read when it stands at a byte.  Hints are counted with Count, in    *)
(* the order of the section.                                               *)
(***************************************************************************)

HintLocal == [pc : {"pack", "row", "bytes", "done"}, row : Codec!Rows, j : Nat, n : Nat]
HintOut == [ret : {"none", "OK", "FAIL"}, bytes : Codec!Bytes, hints : Codec!Hints]

HintTyped ==
    /\ args \in [pack : BOOLEAN, hints : Codec!Hints]
    /\ locals \in HintLocal /\ locals.j <= RowSize /\ locals.n <= Omega
    /\ out \in HintOut

\* The signer: everything before the coefficient is recorded.
Packing ==
    locals.pc = "pack" =>
        /\ args.pack /\ out.hints = Codec!NoHints
        /\ locals.n = Codec!Count(args.hints, locals.row, locals.j)
        /\ Recorded(out.bytes, args.hints, locals.row, locals.j)

\* The verifier before a row: the section of what it read so far.
BetweenRows ==
    locals.pc = "row" =>
        /\ \A r \in Codec!Rows : ~(r < locals.row) => out.hints[r] = {}
        /\ Collected(out.bytes, out.hints, locals.row)
        /\ Codec!Count(out.hints, locals.row, 0) <= Omega

\* The verifier at a byte of a row: as many hints as bytes, none of them behind
\* the last byte.
WithinRow ==
    locals.pc = "bytes" =>
        /\ \A r \in Codec!Rows : locals.row < r => out.hints[r] = {}
        /\ Collected(out.bytes, out.hints, locals.row)
        /\ Codec!Count(out.hints, locals.row, 0) = Codec!OldCount(out.bytes, locals.row)
        /\ Codec!Count(out.hints, locals.row + 1, 0) = locals.j
        /\ Codec!OldCount(out.bytes, locals.row) <= locals.j
        /\ locals.j <= Codec!NewCount(out.bytes, locals.row)
        /\ Codec!NewCount(out.bytes, locals.row) <= Omega
        /\ \A x \in out.hints[locals.row] :
               /\ locals.j > Codec!OldCount(out.bytes, locals.row)
               /\ x <= out.bytes[locals.j - 1]

\* The verifier of a packed section: the hints of the rows before come back.
FromPacked ==
    locals.pc \in {"row", "bytes"} /\ args.pack =>
        /\ Recorded(out.bytes, args.hints, HintRows, 0)
        /\ \A r \in Codec!Rows : r < locals.row => out.hints[r] = args.hints[r]
        /\ locals.pc = "bytes" =>
               out.hints[locals.row] = HintsRead(args.hints, locals.row, locals.j)

HintInv ==
    HintTyped /\ Packing /\ BetweenRows /\ WithinRow /\ FromPacked
        /\ Codec!PackedDecodes /\ Codec!AcceptedIsCanonical

LEMMA NoHintsTyped == Codec!NoHints \in Codec!Hints /\ \A r \in Codec!Rows : Codec!NoHints[r] = {}
  BY DEF Codec!NoHints, Codec!Hints

\* The signer with any hints, or the verifier with any bytes.
LEMMA HintStart ==
    ASSUME Codec!Init
    PROVE  HintInv
<1>1. 0 \in Codec!Rows /\ 0 \in Nat /\ 0 <= RowSize /\ 0 <= Omega /\ RowSize - 1 \in Nat /\ Omega \in Nat
  BY HintParams
<1>2. CASE \E h \in Codec!Hints :
              /\ args = [pack |-> TRUE, hints |-> h]
              /\ locals = [pc |-> "pack", row |-> 0, j |-> 0, n |-> 0]
              /\ out = [ret |-> "none", bytes |-> [b \in 0 .. Omega + HintRows - 1 |-> 0],
                        hints |-> Codec!NoHints]
  <2>1. PICK h \in Codec!Hints :
          /\ args = [pack |-> TRUE, hints |-> h]
          /\ locals = [pc |-> "pack", row |-> 0, j |-> 0, n |-> 0]
          /\ out = [ret |-> "none", bytes |-> [b \in 0 .. Omega + HintRows - 1 |-> 0],
                    hints |-> Codec!NoHints]
    BY <1>2
  <2>2. [b \in 0 .. Omega + HintRows - 1 |-> 0] \in Codec!Bytes
    BY <1>1 DEF Codec!Bytes
  <2>3. HintTyped
    BY <1>1, <2>1, <2>2, NoHintsTyped DEF HintTyped, HintLocal, HintOut
  <2>4. Recorded(out.bytes, args.hints, 0, 0) /\ Codec!Count(args.hints, 0, 0) = 0
    BY <2>1, RecordedStart, NoneBefore
  <2>5. Packing
    BY <2>1, <2>4 DEF Packing
  <2>6. BetweenRows /\ WithinRow /\ FromPacked /\ Codec!PackedDecodes /\ Codec!AcceptedIsCanonical
    BY <2>1 DEF BetweenRows, WithinRow, FromPacked, Codec!PackedDecodes, Codec!AcceptedIsCanonical
  <2>7. QED
    BY <2>3, <2>5, <2>6 DEF HintInv
<1>3. CASE \E bytes \in Codec!Bytes :
              /\ args = [pack |-> FALSE, hints |-> Codec!NoHints]
              /\ locals = [pc |-> "row", row |-> 0, j |-> 0, n |-> 0]
              /\ out = [ret |-> "none", bytes |-> bytes, hints |-> Codec!NoHints]
  <2>1. PICK bytes \in Codec!Bytes :
          /\ args = [pack |-> FALSE, hints |-> Codec!NoHints]
          /\ locals = [pc |-> "row", row |-> 0, j |-> 0, n |-> 0]
          /\ out = [ret |-> "none", bytes |-> bytes, hints |-> Codec!NoHints]
    BY <1>3
  <2>2. HintTyped
    BY <1>1, <2>1, NoHintsTyped DEF HintTyped, HintLocal, HintOut
  <2>3. Collected(bytes, Codec!NoHints, 0)
    <3>1. \A r \in Codec!Rows : ~(r < 0)
      BY HintParams
    <3>2. QED
      BY <3>1, NoHintsTyped DEF Collected
  <2>4. Codec!Count(Codec!NoHints, 0, 0) <= Omega
    BY <1>1, NoneBefore
  <2>5. BetweenRows
    BY <2>1, <2>3, <2>4, NoHintsTyped DEF BetweenRows
  <2>6. Packing /\ WithinRow /\ FromPacked /\ Codec!PackedDecodes /\ Codec!AcceptedIsCanonical
    BY <2>1 DEF Packing, WithinRow, FromPacked, Codec!PackedDecodes, Codec!AcceptedIsCanonical
  <2>7. QED
    BY <2>2, <2>5, <2>6 DEF HintInv
<1>4. QED
  BY <1>2, <1>3 DEF Codec!Init

\* A refusal, which a packed section meets only where its hints do not fit.
LEMMA RefuseStep ==
    ASSUME HintTyped, Codec!Refuse, args' = args,
           args.pack => ~(Codec!Count(args.hints, HintRows, 0) <= Omega)
    PROVE  HintInv'
<1>1. /\ locals' = [locals EXCEPT !.pc = "done"] /\ out' = [out EXCEPT !.ret = "FAIL"]
  BY DEF Codec!Refuse
<1>2. /\ locals'.pc = "done" /\ locals' \in HintLocal /\ locals'.j = locals.j /\ locals'.n = locals.n
      /\ out'.ret = "FAIL" /\ out' \in HintOut
  BY <1>1 DEF HintTyped, HintLocal, HintOut
<1>3. HintTyped'
  BY <1>2 DEF HintTyped, HintLocal, HintOut
<1>4. Packing' /\ BetweenRows' /\ WithinRow' /\ FromPacked'
  BY <1>2 DEF Packing, BetweenRows, WithinRow, FromPacked
<1>5. Codec!PackedDecodes'
  BY <1>2 DEF Codec!PackedDecodes
<1>6. Codec!AcceptedIsCanonical'
  BY <1>2 DEF Codec!AcceptedIsCanonical
<1>7. QED
  BY <1>3, <1>4, <1>5, <1>6 DEF HintInv

\* The signer passes a coefficient,
LEMMA PackNothingStep ==
    ASSUME HintInv, Codec!PackNothing
    PROVE  HintInv'
<1>1. /\ locals.pc = "pack" /\ locals.j < RowSize /\ locals.j \notin args.hints[locals.row]
      /\ locals' = [locals EXCEPT !.j = @ + 1] /\ args' = args /\ out' = out
  BY DEF Codec!PackNothing, Codec!AtCoefficient, Codec!Hinted
<1>2. PICK i \in Codec!Rows, j \in Nat : i = locals.row /\ j = locals.j
  BY DEF HintInv, HintTyped, HintLocal
<1>3. j \in 0 .. RowSize - 1 /\ j + 1 \in Nat /\ j + 1 <= RowSize
  BY <1>1, <1>2, HintParams
<1>4. /\ locals'.pc = "pack" /\ locals'.row = i /\ locals'.j = j + 1 /\ locals'.n = locals.n
      /\ locals' \in HintLocal
  BY <1>1, <1>2, <1>3 DEF HintInv, HintTyped, HintLocal
<1>5. HintTyped'
  BY <1>1, <1>3, <1>4 DEF HintInv, HintTyped, HintLocal, HintOut
<1>6. Packing'
  <2>1. PICK h \in Codec!Hints : h = args.hints
    BY DEF HintInv, HintTyped
  <2>2. /\ args.pack /\ out.hints = Codec!NoHints /\ locals.n = Codec!Count(h, i, j)
        /\ Recorded(out.bytes, h, i, j) /\ j \notin h[i]
    BY <1>1, <1>2, <2>1 DEF HintInv, Packing
  <2>3. Recorded(out.bytes, h, i, j + 1)
    BY <1>3, <2>2, RecordedNothing
  <2>4. Codec!Count(h, i, j + 1) = Codec!Count(h, i, j)
    BY <1>3, <2>2, NoMore
  <2>5. QED
    BY <1>1, <1>4, <2>1, <2>2, <2>3, <2>4 DEF Packing
<1>7. BetweenRows' /\ WithinRow' /\ FromPacked' /\ Codec!PackedDecodes' /\ Codec!AcceptedIsCanonical'
  BY <1>4 DEF BetweenRows, WithinRow, FromPacked, Codec!PackedDecodes, Codec!AcceptedIsCanonical
<1>8. QED
  BY <1>5, <1>6, <1>7 DEF HintInv

\* records a hint,
LEMMA PackHintStep ==
    ASSUME HintInv, Codec!PackHint
    PROVE  HintInv'
<1>1. /\ locals.pc = "pack" /\ locals.j < RowSize /\ locals.j \in args.hints[locals.row]
      /\ locals.n # Omega /\ args' = args
      /\ locals' = [locals EXCEPT !.j = @ + 1, !.n = @ + 1]
      /\ out' = [out EXCEPT !.bytes[locals.n] = locals.j]
  BY DEF Codec!PackHint, Codec!AtCoefficient, Codec!Hinted
<1>2. PICK i \in Codec!Rows, j \in Nat, n \in Nat : i = locals.row /\ j = locals.j /\ n = locals.n
  BY DEF HintInv, HintTyped, HintLocal
<1>3. j \in 0 .. RowSize - 1 /\ j + 1 \in Nat /\ j + 1 <= RowSize
  BY <1>1, <1>2, HintParams
<1>4. PICK h \in Codec!Hints, bytes \in Codec!Bytes : h = args.hints /\ bytes = out.bytes
  BY DEF HintInv, HintTyped, HintOut
<1>5. /\ args.pack /\ out.hints = Codec!NoHints /\ n = Codec!Count(h, i, j)
      /\ Recorded(bytes, h, i, j) /\ j \in h[i] /\ n # Omega /\ n <= Omega
  BY <1>1, <1>2, <1>4 DEF HintInv, HintTyped, Packing
<1>6. n + 1 \in Nat /\ n + 1 <= Omega
  BY <1>5, HintParams
<1>7. /\ locals'.pc = "pack" /\ locals'.row = i /\ locals'.j = j + 1 /\ locals'.n = n + 1
      /\ locals' \in HintLocal
  BY <1>1, <1>2, <1>3, <1>6 DEF HintInv, HintTyped, HintLocal
<1>8. /\ out'.bytes = [bytes EXCEPT ![n] = j] /\ out'.hints = out.hints /\ out'.ret = out.ret
      /\ out' = [ret |-> out'.ret, bytes |-> out'.bytes, hints |-> out'.hints]
  BY <1>1, <1>2, <1>4 DEF HintInv, HintTyped, HintOut
<1>9. out'.bytes \in Codec!Bytes
  BY <1>3, <1>8 DEF Codec!Bytes
<1>10. HintTyped'
  <2>1. out' \in HintOut
    BY <1>8, <1>9 DEF HintInv, HintTyped, HintOut
  <2>2. QED
    BY <1>1, <1>3, <1>6, <1>7, <2>1 DEF HintInv, HintTyped, HintLocal, HintOut
<1>11. Packing'
  <2>1. Recorded(out'.bytes, h, i, j + 1)
    BY <1>3, <1>5, <1>8, RecordedHint
  <2>2. Codec!Count(h, i, j + 1) = n + 1
    BY <1>3, <1>5, OneMore
  <2>3. QED
    BY <1>1, <1>4, <1>5, <1>7, <1>8, <2>1, <2>2 DEF Packing
<1>12. BetweenRows' /\ WithinRow' /\ FromPacked' /\ Codec!PackedDecodes' /\ Codec!AcceptedIsCanonical'
  BY <1>7 DEF BetweenRows, WithinRow, FromPacked, Codec!PackedDecodes, Codec!AcceptedIsCanonical
<1>13. QED
  BY <1>10, <1>11, <1>12 DEF HintInv

\* refuses the first hint that has no slot: there are more than OMEGA of them,
LEMMA PackRefusesStep ==
    ASSUME HintInv, Codec!PackRefuses
    PROVE  HintInv'
<1>1. /\ locals.pc = "pack" /\ locals.j < RowSize /\ locals.j \in args.hints[locals.row]
      /\ locals.n = Omega /\ args' = args /\ Codec!Refuse
  BY DEF Codec!PackRefuses, Codec!AtCoefficient, Codec!Hinted
<1>2. PICK i \in Codec!Rows, j \in Nat, h \in Codec!Hints : i = locals.row /\ j = locals.j /\ h = args.hints
  BY DEF HintInv, HintTyped, HintLocal
<1>3. j \in 0 .. RowSize - 1 /\ j \in h[i] /\ Omega = Codec!Count(h, i, j)
  BY <1>1, <1>2, HintParams DEF HintInv, Packing
<1>4. Codec!Count(h, i, j) + 1 <= Codec!Count(h, HintRows, 0)
  <2>1. Codec!Earlier(i, j, HintRows, 0) /\ HintRows \in Nat /\ 0 \in Nat
    BY HintParams DEF Codec!Earlier
  <2>2. QED
    BY <1>3, <2>1, StrictlyFewer
<1>5. ~(Codec!Count(h, HintRows, 0) <= Omega)
  <2>1. PICK c \in Nat, d \in Nat : c = Codec!Count(h, HintRows, 0) /\ d = Codec!Count(h, i, j)
    BY BeforeFinite
  <2>2. d + 1 <= c /\ d = Omega
    BY <1>3, <1>4, <2>1
  <2>3. ~(c <= d)
    BY <2>2
  <2>4. QED
    BY <2>1, <2>2, <2>3
<1>6. QED
  BY <1>1, <1>2, <1>5, RefuseStep DEF HintInv

\* and closes a row; behind the last one the verifier begins.
LEMMA PackTallyStep ==
    ASSUME HintInv, Codec!PackTally
    PROVE  HintInv'
<1>1. /\ locals.pc = "pack" /\ locals.j = RowSize /\ args' = args
      /\ out' = [out EXCEPT !.bytes[Omega + locals.row] = locals.n]
      /\ locals.row = HintRows - 1 =>
             locals' = [locals EXCEPT !.pc = "row", !.row = 0, !.j = 0]
      /\ locals.row # HintRows - 1 =>
             locals' = [locals EXCEPT !.row = @ + 1, !.j = 0]
  BY DEF Codec!PackTally
<1>2. PICK i \in Codec!Rows, n \in Nat : i = locals.row /\ n = locals.n
  BY DEF HintInv, HintTyped, HintLocal
<1>3. PICK h \in Codec!Hints, bytes \in Codec!Bytes : h = args.hints /\ bytes = out.bytes
  BY DEF HintInv, HintTyped, HintOut
<1>4. /\ args.pack /\ out.hints = Codec!NoHints /\ n = Codec!Count(h, i, RowSize)
      /\ Recorded(bytes, h, i, RowSize) /\ n <= Omega
  BY <1>1, <1>2, <1>3 DEF HintInv, HintTyped, Packing
<1>5. /\ out'.bytes = [bytes EXCEPT ![Omega + i] = n] /\ out'.hints = Codec!NoHints /\ out'.ret = out.ret
      /\ out' = [ret |-> out'.ret, bytes |-> out'.bytes, hints |-> out'.hints]
  BY <1>1, <1>2, <1>3, <1>4 DEF HintInv, HintTyped, HintOut
<1>6. out'.bytes \in Codec!Bytes
  <2>1. n \in 0 .. RowSize - 1
    BY <1>4, HintParams
  <2>2. QED
    BY <1>5, <2>1 DEF Codec!Bytes
<1>7. Recorded(out'.bytes, h, i + 1, 0) /\ Codec!Count(h, i + 1, 0) = n
  <2>1. Recorded(out'.bytes, h, i + 1, 0)
    BY <1>4, <1>5, RecordedRow
  <2>2. QED
    BY <1>4, <2>1, NextRow
<1>8. out' \in HintOut
  BY <1>5, <1>6, NoHintsTyped DEF HintInv, HintTyped, HintOut
<1>9. CASE i = HintRows - 1
  <2>1. /\ locals'.pc = "row" /\ locals'.row = 0 /\ locals'.j = 0 /\ locals'.n = n
        /\ locals' \in HintLocal
    <3>1. 0 \in Codec!Rows /\ 0 \in Nat
      BY HintParams
    <3>2. locals' = [locals EXCEPT !.pc = "row", !.row = 0, !.j = 0]
      BY <1>1, <1>2, <1>9, Zenon
    <3>3. QED
      BY <1>2, <3>1, <3>2 DEF HintInv, HintTyped, HintLocal
  <2>2. HintTyped'
    BY <1>1, <1>4, <1>8, <2>1, HintParams DEF HintInv, HintTyped, HintLocal, HintOut
  <2>3. i + 1 = HintRows
    BY <1>9, HintParams
  <2>4. \A r \in Codec!Rows : ~(r < 0)
    BY HintParams
  <2>5. Collected(out'.bytes, Codec!NoHints, 0) /\ Codec!Count(Codec!NoHints, 0, 0) <= Omega
    BY <2>4, NoHintsTyped, NoneBefore, HintParams DEF Collected
  <2>6. BetweenRows'
    BY <1>5, <2>1, <2>5, NoHintsTyped DEF BetweenRows
  <2>7. FromPacked'
    BY <1>1, <1>3, <1>7, <2>1, <2>3, <2>4 DEF FromPacked
  <2>8. Packing' /\ WithinRow' /\ Codec!PackedDecodes' /\ Codec!AcceptedIsCanonical'
    BY <2>1 DEF Packing, WithinRow, Codec!PackedDecodes, Codec!AcceptedIsCanonical
  <2>9. QED
    BY <2>2, <2>6, <2>7, <2>8 DEF HintInv
<1>10. CASE i # HintRows - 1
  <2>1. i + 1 \in Codec!Rows
    BY <1>10, HintParams
  <2>2. /\ locals'.pc = "pack" /\ locals'.row = i + 1 /\ locals'.j = 0 /\ locals'.n = n
        /\ locals' \in HintLocal
    <3>1. locals' = [locals EXCEPT !.row = @ + 1, !.j = 0]
      BY <1>1, <1>2, <1>10, Zenon
    <3>2. QED
      BY <1>1, <1>2, <2>1, <3>1 DEF HintInv, HintTyped, HintLocal
  <2>3. HintTyped'
    BY <1>1, <1>4, <1>8, <2>2, HintParams DEF HintInv, HintTyped, HintLocal, HintOut
  <2>4. Packing'
    BY <1>1, <1>3, <1>4, <1>5, <1>7, <2>2 DEF Packing
  <2>5. BetweenRows' /\ WithinRow' /\ FromPacked' /\ Codec!PackedDecodes' /\ Codec!AcceptedIsCanonical'
    BY <2>2 DEF BetweenRows, WithinRow, FromPacked, Codec!PackedDecodes, Codec!AcceptedIsCanonical
  <2>6. QED
    BY <2>3, <2>4, <2>5 DEF HintInv
<1>11. QED
  BY <1>9, <1>10

\* The verifier opens a row between its tallies,
LEMMA UnpackRowStep ==
    ASSUME HintInv, Codec!UnpackRow
    PROVE  HintInv'
<1>1. locals.pc = "row" /\ args' = args
  BY DEF Codec!UnpackRow
<1>2. PICK i \in Codec!Rows : i = locals.row
  BY DEF HintInv, HintTyped, HintLocal
<1>3. PICK bytes \in Codec!Bytes, g \in Codec!Hints, h \in Codec!Hints :
        bytes = out.bytes /\ g = out.hints /\ h = args.hints
  BY DEF HintInv, HintTyped, HintOut
<1>4. /\ \A r \in Codec!Rows : ~(r < i) => g[r] = {}
      /\ Collected(bytes, g, i) /\ Codec!Count(g, i, 0) <= Omega
  BY <1>1, <1>2, <1>3 DEF HintInv, BetweenRows
<1>5. PICK old \in Nat : old = Codec!OldCount(bytes, i) /\ old = Codec!Count(g, i, 0)
  BY <1>4, CollectedOld, BeforeFinite
<1>6. args.pack => /\ Recorded(bytes, h, HintRows, 0)
                   /\ \A r \in Codec!Rows : r < i => g[r] = h[r]
  BY <1>1, <1>2, <1>3 DEF HintInv, FromPacked
<1>7. CASE /\ old <= Codec!NewCount(bytes, i) /\ Codec!NewCount(bytes, i) <= Omega
           /\ locals' = [locals EXCEPT !.pc = "bytes", !.j = old]
           /\ out' = [out EXCEPT !.hints[i] = {}]
  <2>1. i \in Nat /\ ~(i < i) /\ old <= Omega /\ Omega \in Nat /\ RowSize \in Nat /\ Omega < RowSize
    BY <1>4, <1>5, HintParams
  <2>2. g[i] = {}
    BY <1>4, <2>1
  <2>3. out' = out
    <3>1. [g EXCEPT ![i] = {}] = g
      BY <2>2 DEF Codec!Hints
    <3>2. QED
      BY <1>3, <1>7, <3>1 DEF HintInv, HintTyped, HintOut
  <2>4. old <= RowSize
    BY <2>1
  <2>5. /\ locals'.pc = "bytes" /\ locals'.row = i /\ locals'.j = old /\ locals'.n = locals.n
        /\ locals' \in HintLocal
    BY <1>2, <1>7 DEF HintInv, HintTyped, HintLocal
  <2>6. HintTyped'
    BY <1>1, <2>3, <2>4, <2>5 DEF HintInv, HintTyped, HintLocal, HintOut
  <2>7. Codec!Count(g, i + 1, 0) = old
    BY <1>5, <2>2, EmptyRow
  <2>8. \A r \in Codec!Rows : i < r => g[r] = {}
    <3> SUFFICES ASSUME NEW r \in Codec!Rows, i < r PROVE g[r] = {}
      OBVIOUS
    <3>1. ~(r < i)
      BY <2>1, HintParams
    <3>2. QED
      BY <1>4, <3>1
  <2>9. WithinRow'
    <3>1. old <= old
      OBVIOUS
    <3>2. /\ \A r \in Codec!Rows : i < r => g[r] = {}
          /\ Collected(bytes, g, i) /\ Codec!Count(g, i, 0) = Codec!OldCount(bytes, i)
          /\ Codec!Count(g, i + 1, 0) = old
          /\ Codec!OldCount(bytes, i) <= old
          /\ old <= Codec!NewCount(bytes, i) /\ Codec!NewCount(bytes, i) <= Omega
          /\ \A x \in g[i] : old > Codec!OldCount(bytes, i) /\ x <= bytes[old - 1]
      BY <1>4, <1>5, <1>7, <2>2, <2>7, <2>8, <3>1
    <3>3. out'.bytes = bytes /\ out'.hints = g
      BY <1>3, <2>3
    <3>4. QED
      BY <2>5, <3>2, <3>3, Zenon DEF WithinRow
  <2>10. FromPacked'
    <3> SUFFICES ASSUME args.pack
                 PROVE  /\ Recorded(bytes, h, HintRows, 0)
                        /\ \A r \in Codec!Rows : r < i => g[r] = h[r]
                        /\ g[i] = HintsRead(h, i, old)
      BY <1>1, <1>3, <2>3, <2>5 DEF FromPacked
    <3>1. old = Codec!Count(h, i, 0)
      BY <1>5, <1>6, SectionTallies
    <3>2. HintsRead(h, i, old) = {}
      BY <3>1, ReadNone
    <3>3. QED
      BY <1>6, <2>2, <3>2
  <2>11. Packing' /\ BetweenRows' /\ Codec!PackedDecodes' /\ Codec!AcceptedIsCanonical'
    BY <2>5 DEF Packing, BetweenRows, Codec!PackedDecodes, Codec!AcceptedIsCanonical
  <2>12. QED
    BY <2>6, <2>9, <2>10, <2>11 DEF HintInv
<1>8. CASE ~(old <= Codec!NewCount(bytes, i) /\ Codec!NewCount(bytes, i) <= Omega) /\ Codec!Refuse
  <2>1. ~args.pack
    <3> SUFFICES ASSUME args.pack PROVE FALSE
      OBVIOUS
    <3>1. /\ Codec!OldCount(bytes, i) = Codec!Count(h, i, 0)
          /\ Codec!NewCount(bytes, i) = Codec!Count(h, i + 1, 0)
          /\ Codec!Count(h, i, 0) <= Codec!Count(h, i + 1, 0) /\ Codec!Count(h, i + 1, 0) <= Omega
      BY <1>6, SectionTallies
    <3>2. QED
      BY <1>5, <1>8, <3>1, Zenon
  <2>2. QED
    BY <1>1, <1>8, <2>1, RefuseStep DEF HintInv
<1>9. QED
  BY <1>2, <1>3, <1>5, <1>7, <1>8 DEF Codec!UnpackRow

\* takes a byte that lies behind the last one,
LEMMA UnpackByteStep ==
    ASSUME HintInv, Codec!UnpackByte
    PROVE  HintInv'
<1>1. locals.pc = "bytes" /\ args' = args
  BY DEF Codec!UnpackByte
<1>2. PICK i \in Codec!Rows, j \in Nat : i = locals.row /\ j = locals.j
  BY DEF HintInv, HintTyped, HintLocal
<1>3. PICK bytes \in Codec!Bytes, g \in Codec!Hints, h \in Codec!Hints :
        bytes = out.bytes /\ g = out.hints /\ h = args.hints
  BY DEF HintInv, HintTyped, HintOut
<1>4. /\ \A r \in Codec!Rows : i < r => g[r] = {}
      /\ Collected(bytes, g, i) /\ Codec!Count(g, i, 0) = Codec!OldCount(bytes, i)
      /\ Codec!Count(g, i + 1, 0) = j
      /\ Codec!OldCount(bytes, i) <= j /\ Codec!NewCount(bytes, i) <= Omega
      /\ \A x \in g[i] : j > Codec!OldCount(bytes, i) /\ x <= bytes[j - 1]
  BY <1>1, <1>2, <1>3 DEF HintInv, WithinRow
<1>5. PICK old \in Nat, new \in Nat :
        old = Codec!OldCount(bytes, i) /\ new = Codec!NewCount(bytes, i) /\ old = Codec!Count(g, i, 0)
  <2>1. Codec!OldCount(bytes, i) \in Nat
    BY <1>4, BeforeFinite
  <2>2. Codec!NewCount(bytes, i) \in Nat
    <3>1. Omega + i \in 0 .. Omega + HintRows - 1 /\ \A v \in 0 .. RowSize - 1 : v \in Nat
      BY HintParams
    <3>2. QED
      BY <3>1 DEF Codec!NewCount, Codec!Bytes
  <2>3. QED
    BY <1>4, <2>1, <2>2
<1>6. j < new /\ old <= j /\ new <= Omega
  BY <1>2, <1>3, <1>4, <1>5 DEF Codec!UnpackByte
<1>7. /\ j \in 0 .. Omega + HintRows - 1 /\ j + 1 \in Nat /\ j + 1 <= RowSize /\ j + 1 <= new
      /\ old <= j + 1 /\ j + 1 > old
  BY <1>6, HintParams
<1>8. PICK x \in 0 .. RowSize - 1 : x = bytes[j]
  BY <1>7 DEF Codec!Bytes
<1>9. args.pack => /\ Recorded(bytes, h, HintRows, 0)
                   /\ \A r \in Codec!Rows : r < i => g[r] = h[r]
                   /\ g[i] = HintsRead(h, i, j)
                   /\ old = Codec!Count(h, i, 0) /\ new = Codec!Count(h, i + 1, 0)
  <2> SUFFICES ASSUME args.pack
               PROVE  /\ Recorded(bytes, h, HintRows, 0)
                      /\ \A r \in Codec!Rows : r < i => g[r] = h[r]
                      /\ g[i] = HintsRead(h, i, j)
                      /\ old = Codec!Count(h, i, 0) /\ new = Codec!Count(h, i + 1, 0)
    OBVIOUS
  <2>1. /\ Recorded(bytes, h, HintRows, 0)
        /\ \A r \in Codec!Rows : r < i => g[r] = h[r]
        /\ g[i] = HintsRead(h, i, j)
    BY <1>1, <1>2, <1>3 DEF HintInv, FromPacked
  <2>2. QED
    BY <1>5, <2>1, SectionTallies
<1>10. CASE /\ Codec!Ascends(bytes, i, j)
            /\ locals' = [locals EXCEPT !.j = @ + 1]
            /\ out' = [out EXCEPT !.hints[i] = @ \cup {bytes[j]}]
  <2>1. ASSUME NEW y \in g[i] PROVE y < x
    <3>1. j > old /\ y <= bytes[j - 1] /\ bytes[j - 1] < x
      BY <1>4, <1>5, <1>8, <1>10, Zenon DEF Codec!Ascends
    <3>2. j - 1 \in 0 .. Omega + HintRows - 1
      BY <1>7, <3>1, HintParams
    <3>3. PICK z \in 0 .. RowSize - 1 : z = bytes[j - 1]
      BY <3>2 DEF Codec!Bytes
    <3>4. y \in Nat
      BY HintTypes
    <3>5. y <= z /\ z < x
      BY <3>1, <3>3
    <3>6. QED
      BY <3>4, <3>5
  <2>2. AllEarlier(g, i, x)
    <3> SUFFICES ASSUME NEW r \in Codec!Rows, NEW y \in g[r] PROVE Codec!Earlier(r, y, i, x)
      BY DEF AllEarlier
    <3>1. ~(i < r)
      BY <1>4
    <3>2. r \in Nat /\ i \in Nat
      BY HintParams
    <3>3. QED
      BY <2>1, <3>1, <3>2 DEF Codec!Earlier
  <2>3. bytes[Codec!Count(g, i + 1, 0)] = x
    BY <1>4, <1>8
  <2>4. /\ Collected(bytes, WithHint(g, i, x), i)
        /\ Codec!Count(WithHint(g, i, x), i, 0) = old
        /\ Codec!Count(WithHint(g, i, x), i + 1, 0) = j + 1
    BY <1>4, <1>5, <2>2, <2>3, CollectedByte
  <2>5. PICK k \in Codec!Hints : k = WithHint(g, i, x)
    BY DEF WithHint, Codec!Hints
  <2>6. k[i] = g[i] \cup {x} /\ \A r \in Codec!Rows : r # i => k[r] = g[r]
    BY <2>5 DEF WithHint, Codec!Hints
  <2>7. /\ out'.hints = k /\ out'.bytes = bytes /\ out'.ret = out.ret
        /\ out' = [ret |-> out'.ret, bytes |-> out'.bytes, hints |-> out'.hints]
    BY <1>3, <1>8, <1>10, <2>5 DEF HintInv, HintTyped, HintOut, WithHint
  <2>8. out' \in HintOut
    BY <2>7 DEF HintInv, HintTyped, HintOut
  <2>9. /\ locals'.pc = "bytes" /\ locals'.row = i /\ locals'.j = j + 1 /\ locals'.n = locals.n
        /\ locals' \in HintLocal
    BY <1>1, <1>2, <1>7, <1>10 DEF HintInv, HintTyped, HintLocal
  <2>10. HintTyped'
    BY <1>1, <1>7, <2>8, <2>9 DEF HintInv, HintTyped, HintLocal, HintOut
  <2>11. WithinRow'
    <3>1. \A r \in Codec!Rows : i < r => k[r] = {}
      <4> SUFFICES ASSUME NEW r \in Codec!Rows, i < r PROVE k[r] = {}
        OBVIOUS
      <4>1. r # i
        BY HintParams
      <4>2. QED
        BY <1>4, <2>6, <4>1
    <3>2. \A y \in k[i] : y <= bytes[(j + 1) - 1]
      <4> SUFFICES ASSUME NEW y \in k[i] PROVE y <= x
        BY <1>8
      <4>1. CASE y = x
        BY <4>1
      <4>2. CASE y \in g[i]
        <5>1. y \in Nat /\ y < x
          BY <2>1, <4>2, HintTypes
        <5>2. QED
          BY <5>1
      <4>3. QED
        BY <2>6, <4>1, <4>2
    <3>3. QED
      BY <1>5, <1>6, <1>7, <2>4, <2>5, <2>7, <2>9, <3>1, <3>2 DEF WithinRow
  <2>12. FromPacked'
    <3> SUFFICES ASSUME args.pack
                 PROVE  /\ Recorded(bytes, h, HintRows, 0)
                        /\ \A r \in Codec!Rows : r < i => k[r] = h[r]
                        /\ k[i] = HintsRead(h, i, j + 1)
      BY <1>1, <1>3, <2>7, <2>9 DEF FromPacked
    <3>1. HintsRead(h, i, j + 1) = HintsRead(h, i, j) \cup {bytes[j]}
      BY <1>6, <1>9, ReadOneMore
    <3>2. \A r \in Codec!Rows : r < i => r # i
      BY HintParams
    <3>3. QED
      BY <1>8, <1>9, <2>6, <3>1, <3>2
  <2>13. Packing' /\ BetweenRows' /\ Codec!PackedDecodes' /\ Codec!AcceptedIsCanonical'
    BY <2>9 DEF Packing, BetweenRows, Codec!PackedDecodes, Codec!AcceptedIsCanonical
  <2>14. QED
    BY <2>10, <2>11, <2>12, <2>13 DEF HintInv
<1>11. CASE ~Codec!Ascends(bytes, i, j) /\ Codec!Refuse
  <2>1. ~args.pack
    <3> SUFFICES ASSUME args.pack PROVE FALSE
      OBVIOUS
    <3>1. j > old /\ ~(bytes[j - 1] < bytes[j])
      BY <1>5, <1>11, Zenon DEF Codec!Ascends
    <3>2. Codec!Count(h, i, 0) < j /\ j < Codec!Count(h, i + 1, 0)
      BY <1>6, <1>9, <3>1
    <3>3. bytes[j - 1] < bytes[j]
      BY <1>9, <3>2, RowAscends
    <3>4. QED
      BY <3>1, <3>3
  <2>2. QED
    BY <1>1, <1>11, <2>1, RefuseStep DEF HintInv
<1>12. QED
  BY <1>2, <1>3, <1>10, <1>11 DEF Codec!UnpackByte

\* and closes the row; behind the last one it has read the whole section.
LEMMA UnpackReturnsStep ==
    ASSUME HintInv, Codec!UnpackReturns
    PROVE  HintInv'
<1>1. locals.pc = "bytes" /\ args' = args
  BY DEF Codec!UnpackReturns
<1>2. PICK i \in Codec!Rows, j \in Nat : i = locals.row /\ j = locals.j
  BY DEF HintInv, HintTyped, HintLocal
<1>3. PICK bytes \in Codec!Bytes, g \in Codec!Hints, h \in Codec!Hints :
        bytes = out.bytes /\ g = out.hints /\ h = args.hints
  BY DEF HintInv, HintTyped, HintOut
<1>4. /\ \A r \in Codec!Rows : i < r => g[r] = {}
      /\ Collected(bytes, g, i) /\ Codec!Count(g, i + 1, 0) = j
      /\ j = bytes[Omega + i] /\ j <= Omega
  <2>1. j = Codec!NewCount(bytes, i)
    BY <1>2, <1>3 DEF Codec!UnpackReturns
  <2>2. QED
    BY <1>1, <1>2, <1>3, <2>1 DEF HintInv, WithinRow, Codec!NewCount
<1>5. args.pack => /\ Recorded(bytes, h, HintRows, 0)
                   /\ \A r \in Codec!Rows : r < i => g[r] = h[r]
                   /\ g[i] = h[i] /\ j = Codec!Count(h, i + 1, 0)
  <2> SUFFICES ASSUME args.pack
               PROVE  /\ Recorded(bytes, h, HintRows, 0)
                      /\ \A r \in Codec!Rows : r < i => g[r] = h[r]
                      /\ g[i] = h[i] /\ j = Codec!Count(h, i + 1, 0)
    OBVIOUS
  <2>1. /\ Recorded(bytes, h, HintRows, 0)
        /\ \A r \in Codec!Rows : r < i => g[r] = h[r]
        /\ g[i] = HintsRead(h, i, j)
    BY <1>1, <1>2, <1>3 DEF HintInv, FromPacked
  <2>2. j = Codec!Count(h, i + 1, 0)
    BY <1>4, <2>1, SectionTallies DEF Codec!NewCount
  <2>3. HintsRead(h, i, j) = h[i]
    BY <2>2, ReadAll
  <2>4. QED
    BY <2>1, <2>2, <2>3
<1>6. Collected(bytes, g, i + 1)
  <2> SUFFICES ASSUME NEW r \in Codec!Rows, r < i + 1 PROVE bytes[Omega + r] = Codec!Count(g, r + 1, 0)
    BY <1>4 DEF Collected
  <2>1. CASE r = i
    BY <1>4, <2>1
  <2>2. CASE r # i
    <3>1. r < i
      BY <2>2, HintParams
    <3>2. QED
      BY <1>4, <3>1 DEF Collected
  <2>3. QED
    BY <2>1, <2>2
<1>7. CASE /\ i # HintRows - 1
           /\ locals' = [locals EXCEPT !.pc = "row", !.row = @ + 1] /\ out' = out
  <2>1. i + 1 \in Codec!Rows
    BY <1>7, HintParams
  <2>2. /\ locals'.pc = "row" /\ locals'.row = i + 1 /\ locals'.j = j /\ locals'.n = locals.n
        /\ locals' \in HintLocal
    BY <1>2, <1>7, <2>1 DEF HintInv, HintTyped, HintLocal
  <2>3. HintTyped'
    BY <1>1, <1>2, <1>7, <2>2 DEF HintInv, HintTyped, HintLocal, HintOut
  <2>4. \A r \in Codec!Rows : ~(r < i + 1) => g[r] = {}
    <3> SUFFICES ASSUME NEW r \in Codec!Rows, ~(r < i + 1) PROVE g[r] = {}
      OBVIOUS
    <3>1. i < r
      BY HintParams
    <3>2. QED
      BY <1>4, <3>1
  <2>5. BetweenRows'
    BY <1>3, <1>4, <1>6, <1>7, <2>2, <2>4 DEF BetweenRows
  <2>6. FromPacked'
    <3> SUFFICES ASSUME args.pack
                 PROVE  /\ Recorded(bytes, h, HintRows, 0)
                        /\ \A r \in Codec!Rows : r < i + 1 => g[r] = h[r]
      BY <1>1, <1>3, <1>7, <2>2 DEF FromPacked
    <3>1. \A r \in Codec!Rows : r < i + 1 => (r < i \/ r = i)
      BY HintParams
    <3>2. QED
      BY <1>5, <3>1
  <2>7. Packing' /\ WithinRow' /\ Codec!PackedDecodes' /\ Codec!AcceptedIsCanonical'
    BY <2>2 DEF Packing, WithinRow, Codec!PackedDecodes, Codec!AcceptedIsCanonical
  <2>8. QED
    BY <2>3, <2>5, <2>6, <2>7 DEF HintInv
<1>8. i = HintRows - 1 => i + 1 = HintRows /\ \A r \in Codec!Rows : r < i + 1 /\ (r < i \/ r = i)
  BY HintParams
<1>9. CASE /\ i = HintRows - 1 /\ \A b \in j .. Omega - 1 : bytes[b] = 0
           /\ locals' = [locals EXCEPT !.pc = "done"]
           /\ out' = [out EXCEPT !.ret = "OK"]
  <2>1. /\ locals'.pc = "done" /\ locals' \in HintLocal /\ locals'.j = j /\ locals'.n = locals.n
        /\ out'.ret = "OK" /\ out' \in HintOut /\ out'.bytes = bytes /\ out'.hints = g
    BY <1>2, <1>3, <1>9 DEF HintInv, HintTyped, HintLocal, HintOut
  <2>2. HintTyped'
    BY <1>1, <1>2, <2>1 DEF HintInv, HintTyped, HintLocal, HintOut
  <2>3. Codec!AcceptedIsCanonical'
    <3>1. \A r \in Codec!Rows : bytes[Omega + r] = Codec!Count(g, r + 1, 0)
      BY <1>6, <1>8, <1>9 DEF Collected
    <3>2. \A r \in Codec!Rows : \A x \in g[r] : bytes[Codec!Count(g, r, x)] = x
      BY <1>6 DEF Collected
    <3>3. \A b \in Codec!Count(g, HintRows, 0) .. Omega - 1 : bytes[b] = 0
      BY <1>4, <1>8, <1>9
    <3>4. Codec!IsSectionOf(bytes, g)
      BY <3>1, <3>2, <3>3 DEF Codec!IsSectionOf
    <3>5. QED
      BY <2>1, <3>4 DEF Codec!AcceptedIsCanonical, Codec!IsSectionOf
  <2>4. Codec!PackedDecodes'
    <3> SUFFICES ASSUME args.pack PROVE Codec!Count(h, HintRows, 0) <= Omega /\ g = h
      BY <1>1, <1>3, <2>1 DEF Codec!PackedDecodes
    <3>1. Codec!Count(h, HintRows, 0) <= Omega
      BY <1>4, <1>5, <1>8, <1>9
    <3>2. \A r \in Codec!Rows : g[r] = h[r]
      BY <1>5, <1>8, <1>9
    <3>3. QED
      BY <3>1, <3>2 DEF Codec!Hints
  <2>5. Packing' /\ BetweenRows' /\ WithinRow' /\ FromPacked'
    BY <2>1 DEF Packing, BetweenRows, WithinRow, FromPacked
  <2>6. QED
    BY <2>2, <2>3, <2>4, <2>5 DEF HintInv
<1>10. CASE i = HintRows - 1 /\ (\E b \in j .. Omega - 1 : bytes[b] # 0) /\ Codec!Refuse
  <2>1. ~args.pack
    BY <1>5, <1>8, <1>10 DEF Recorded
  <2>2. QED
    BY <1>1, <1>10, <2>1, RefuseStep DEF HintInv
<1>11. QED
  BY <1>2, <1>3, <1>7, <1>9, <1>10 DEF Codec!UnpackReturns

-----------------------------------------------------------------------------
\* A run of the hint codec is a behaviour of HintCodec.
LEMMA HintRuns ==
    /\ Init /\ routine = "hints" => Codec!Init
    /\ [Next]_vars /\ routine' = "hints" => routine = "hints" /\ [Codec!Next]_Codec!vars
<1>1. Init /\ routine = "hints" => Codec!Init
  BY DEF Init
<1>2. [Next]_vars /\ routine' = "hints" => routine = "hints"
  BY DEF Next, SignNext, vars
<1>3. [Next]_vars /\ routine = "hints" => [Codec!Next]_Codec!vars
  BY DEF Next, SignNext, vars, Codec!vars
<1> QED
  BY <1>1, <1>2, <1>3

HintAlways == routine = "hints" => HintInv

\* The invariant of the two loops over the hint section.
THEOREM HintInductive == Spec => []HintAlways
<1>1. Init => HintAlways
  BY HintRuns, HintStart DEF HintAlways
<1>2. HintAlways /\ [Next]_vars => HintAlways'
  <2> SUFFICES ASSUME HintInv, [Codec!Next]_Codec!vars PROVE HintInv'
    BY HintRuns DEF HintAlways
  <2>1. CASE Codec!PackNothing
    BY <2>1, PackNothingStep
  <2>2. CASE Codec!PackHint
    BY <2>2, PackHintStep
  <2>3. CASE Codec!PackRefuses
    BY <2>3, PackRefusesStep
  <2>4. CASE Codec!PackTally
    BY <2>4, PackTallyStep
  <2>5. CASE Codec!UnpackRow
    BY <2>5, UnpackRowStep
  <2>6. CASE Codec!UnpackByte
    BY <2>6, UnpackByteStep
  <2>7. CASE Codec!UnpackReturns
    BY <2>7, UnpackReturnsStep
  <2>8. CASE UNCHANGED Codec!vars
    BY <2>8 DEF Codec!vars, HintInv, HintTyped, HintLocal, HintOut, Packing, BetweenRows, WithinRow,
        FromPacked, Codec!PackedDecodes, Codec!AcceptedIsCanonical
  <2>9. QED
    BY <2>1, <2>2, <2>3, <2>4, <2>5, <2>6, <2>7, <2>8 DEF Codec!Next
<1>3. QED
  BY <1>1, <1>2, PTL DEF Spec

\* The indices of both loops stay within the section.
THEOREM HintTypeOK == Spec => [](routine = "hints" => Codec!TypeOK)
<1>1. HintInv => Codec!TypeOK
  BY HintParams DEF HintInv, HintTyped, HintLocal, HintOut, Codec!TypeOK
<1>2. HintAlways => (routine = "hints" => Codec!TypeOK)
  BY <1>1 DEF HintAlways
<1>3. QED
  BY <1>2, HintInductive, PTL

\* Hints that fit survive packing and unpacking, for every number of rows,
\* coefficients and slots; those that do not fit are refused.
THEOREM PackedAlwaysDecodes == Spec => []PackedDecodes
<1>1. HintAlways => PackedDecodes
  BY DEF HintAlways, HintInv, PackedDecodes
<1>2. QED
  BY <1>1, HintInductive, PTL

\* No two byte strings are accepted for the same hints.
THEOREM AcceptedAlwaysCanonical == Spec => []AcceptedIsCanonical
<1>1. HintAlways => AcceptedIsCanonical
  BY DEF HintAlways, HintInv, AcceptedIsCanonical
<1>2. QED
  BY <1>1, HintInductive, PTL
=============================================================================
