--------------------------- MODULE RoundingProofs ---------------------------
(* Proofs about the roundings of the example corpus at their real constants: *)
(* the ML-KEM sites that KyberSlash is about, for every coefficient of 16    *)
(* bits, and the hints of ML-DSA, for every coefficient and every shift.     *)
(* The provers decide the arithmetic of a site or of a parameter set when    *)
(* its constants are numbers: one lemma each.  A range between two literals  *)
(* is given to them as two inequalities.                                     *)
EXTENDS Routines, TLAPS

-----------------------------------------------------------------------------
\* The quotient barrett_reduce computes.
LEMMA BarrettQuotient ==
    ASSUME NEW x \in Int, NEW q, q = (20159 * x + 33554432) \div 67108864
    PROVE  /\ q \in Int
           /\ 67108864 * q <= 20159 * x + 33554432
           /\ 20159 * x + 33554432 < 67108864 * q + 67108864
  BY SMT

\* It is the nearest one, for 16 bits.
LEMMA NearestMultiple ==
    ASSUME NEW x \in Int, -32768 <= x, x <= 32767, NEW q \in Int,
           67108864 * q <= 20159 * x + 33554432,
           20159 * x + 33554432 < 67108864 * q + 67108864
    PROVE  -1664 <= x - q * 3329 /\ x - q * 3329 <= 1664
  BY SMT

\* What poly_reduce leaves of a coefficient.
LEMMA Remainder ==
    ASSUME NEW x \in Int, -32768 <= x, x <= 32767
    PROVE  /\ Kyber!Reduced(x) \in Int
           /\ -1664 <= Kyber!Reduced(x) /\ Kyber!Reduced(x) <= 1664
           /\ \E q \in Int : x = Kyber!Reduced(x) + q * 3329
<1>1. PICK q : q = (20159 * x + 33554432) \div 67108864
  BY SMT
<1>2. /\ q \in Int
      /\ 67108864 * q <= 20159 * x + 33554432
      /\ 20159 * x + 33554432 < 67108864 * q + 67108864
  BY <1>1, BarrettQuotient, SMT
<1>3. -1664 <= x - q * 3329 /\ x - q * 3329 <= 1664
  BY <1>2, NearestMultiple, SMT
<1>4. Kyber!Reduced(x) = x - q * 3329
  BY <1>1, SMT DEF Kyber!Reduced, Kyber!Barrett, Kyber!Q
<1>5. Kyber!Reduced(x) \in Int /\ x = Kyber!Reduced(x) + q * 3329
  BY <1>2, <1>4, SMT
<1> QED
  BY <1>2, <1>3, <1>4, <1>5, SMT

\* A distance is not changed by a multiple of Q.
LEMMA NearModQ ==
    ASSUME NEW d \in Int, NEW q \in Int, NEW h \in Int, 0 <= h, h < 1000, -h <= d, d <= h
    PROVE  (d + q * 3329) % 3329 <= h \/ 3329 - ((d + q * 3329) % 3329) <= h
<1>1. PICK n : n = d + q * 3329
  BY SMT
<1>2. PICK m, r : m = n \div 3329 /\ r = n % 3329
  BY SMT
<1>3. n \in Int
  BY <1>1, SMT
<1>4. m \in Int /\ r \in Int /\ n = m * 3329 + r /\ 0 <= r /\ r < 3329
  BY <1>2, <1>3, SMT
<1>5. PICK t \in Int : t = q - m
  BY <1>4, SMT
<1>6. r = d + t * 3329
  BY <1>1, <1>4, <1>5, SMT
<1>7. r <= h \/ 3329 - r <= h
  BY <1>4, <1>6, SMT
<1> QED
  BY <1>1, <1>2, <1>7, SMT

\* What is said of a site: the two ways to round agree on d bits, and the
\* value that comes back is within half a step of the coefficient.
Alike(s, u) ==
    /\ Kyber!Patched(s, u) = Kyber!Divided(s, u)
    /\ Kyber!Divided(s, u) \in 0 .. 2^s.d - 1

Within(u, b, h) ==
    /\ b \in Int
    /\ \E k \in {0, 1, -1} : -h <= u - b + k * 3329 /\ u - b + k * 3329 <= h

ComesBack(s, u) == Within(u, Kyber!Expanded(s, Kyber!Divided(s, u)), Kyber!HalfStep(s))

\* poly_tomsg.
LEMMA Round1 ==
    ASSUME NEW u \in Int, -1664 <= u, u <= 1664
    PROVE  Alike(Kyber!ToMsg, u) /\ ComesBack(Kyber!ToMsg, u)
<1>1. Kyber!Patched(Kyber!ToMsg, u) = Kyber!Divided(Kyber!ToMsg, u)
  BY SMTT(60) DEF Kyber!ToMsg, Kyber!Patched, Kyber!Divided, Kyber!MulShift, Kyber!Positive, Kyber!Q
<1>2. Kyber!Divided(Kyber!ToMsg, u) \in 0 .. 2^(Kyber!ToMsg.d) - 1
  BY SMTT(60) DEF Kyber!ToMsg, Kyber!Divided, Kyber!Positive, Kyber!Q
<1>3. Kyber!HalfStep(Kyber!ToMsg) = 832
  BY SMT DEF Kyber!HalfStep, Kyber!Q, Kyber!ToMsg
<1>4. Within(u, Kyber!Expanded(Kyber!ToMsg, Kyber!Divided(Kyber!ToMsg, u)), 832)
  BY SMTT(60) DEF Within, Kyber!ToMsg, Kyber!Expanded, Kyber!Divided, Kyber!Positive, Kyber!Q
<1>5. Alike(Kyber!ToMsg, u)
  BY <1>1, <1>2, SMT DEF Alike
<1>6. ComesBack(Kyber!ToMsg, u)
  BY <1>3, <1>4, SMT DEF ComesBack
<1> QED
  BY <1>5, <1>6, SMT

\* poly_compress.
LEMMA Round4 ==
    ASSUME NEW u \in Int, -1664 <= u, u <= 1664
    PROVE  Alike(Kyber!To4, u) /\ ComesBack(Kyber!To4, u)
<1>1. Kyber!Patched(Kyber!To4, u) = Kyber!Divided(Kyber!To4, u)
  BY SMTT(60) DEF Kyber!To4, Kyber!Patched, Kyber!Divided, Kyber!MulShift, Kyber!Positive, Kyber!Q
<1>2. Kyber!Divided(Kyber!To4, u) \in 0 .. 2^(Kyber!To4.d) - 1
  BY SMTT(60) DEF Kyber!To4, Kyber!Divided, Kyber!Positive, Kyber!Q
<1>3. Kyber!HalfStep(Kyber!To4) = 104
  BY SMT DEF Kyber!HalfStep, Kyber!Q, Kyber!To4
<1>4. Within(u, Kyber!Expanded(Kyber!To4, Kyber!Divided(Kyber!To4, u)), 104)
  BY SMTT(60) DEF Within, Kyber!To4, Kyber!Expanded, Kyber!Divided, Kyber!Positive, Kyber!Q
<1>5. Alike(Kyber!To4, u)
  BY <1>1, <1>2, SMT DEF Alike
<1>6. ComesBack(Kyber!To4, u)
  BY <1>3, <1>4, SMT DEF ComesBack
<1> QED
  BY <1>5, <1>6, SMT

\* poly_compress of ML-KEM-1024.
LEMMA Round5 ==
    ASSUME NEW u \in Int, -1664 <= u, u <= 1664
    PROVE  Alike(Kyber!To5, u) /\ ComesBack(Kyber!To5, u)
<1>1. Kyber!Patched(Kyber!To5, u) = Kyber!Divided(Kyber!To5, u)
  BY SMTT(60) DEF Kyber!To5, Kyber!Patched, Kyber!Divided, Kyber!MulShift, Kyber!Positive, Kyber!Q
<1>2. Kyber!Divided(Kyber!To5, u) \in 0 .. 2^(Kyber!To5.d) - 1
  BY SMTT(60) DEF Kyber!To5, Kyber!Divided, Kyber!Positive, Kyber!Q
<1>3. Kyber!HalfStep(Kyber!To5) = 52
  BY SMT DEF Kyber!HalfStep, Kyber!Q, Kyber!To5
<1>4. Within(u, Kyber!Expanded(Kyber!To5, Kyber!Divided(Kyber!To5, u)), 52)
  BY SMTT(60) DEF Within, Kyber!To5, Kyber!Expanded, Kyber!Divided, Kyber!Positive, Kyber!Q
<1>5. Alike(Kyber!To5, u)
  BY <1>1, <1>2, SMT DEF Alike
<1>6. ComesBack(Kyber!To5, u)
  BY <1>3, <1>4, SMT DEF ComesBack
<1> QED
  BY <1>5, <1>6, SMT

\* polyvec_compress.
LEMMA Round10 ==
    ASSUME NEW u \in Int, -1664 <= u, u <= 1664
    PROVE  Alike(Kyber!To10, u) /\ ComesBack(Kyber!To10, u)
<1>1. Kyber!Patched(Kyber!To10, u) = Kyber!Divided(Kyber!To10, u)
  BY SMTT(200) DEF Kyber!To10, Kyber!Patched, Kyber!Divided, Kyber!MulShift, Kyber!Positive, Kyber!Q
<1>2. Kyber!Divided(Kyber!To10, u) \in 0 .. 2^(Kyber!To10.d) - 1
  BY SMTT(60) DEF Kyber!To10, Kyber!Divided, Kyber!Positive, Kyber!Q
<1>3. Kyber!HalfStep(Kyber!To10) = 2
  BY SMT DEF Kyber!HalfStep, Kyber!Q, Kyber!To10
<1>4. Within(u, Kyber!Expanded(Kyber!To10, Kyber!Divided(Kyber!To10, u)), 2)
  BY SMTT(200) DEF Within, Kyber!To10, Kyber!Expanded, Kyber!Divided, Kyber!Positive, Kyber!Q
<1>5. Alike(Kyber!To10, u)
  BY <1>1, <1>2, SMT DEF Alike
<1>6. ComesBack(Kyber!To10, u)
  BY <1>3, <1>4, SMT DEF ComesBack
<1> QED
  BY <1>5, <1>6, SMT

\* polyvec_compress of ML-KEM-1024.
LEMMA Round11 ==
    ASSUME NEW u \in Int, -1664 <= u, u <= 1664
    PROVE  Alike(Kyber!To11, u) /\ ComesBack(Kyber!To11, u)
<1>1. Kyber!Patched(Kyber!To11, u) = Kyber!Divided(Kyber!To11, u)
  BY SMTT(200) DEF Kyber!To11, Kyber!Patched, Kyber!Divided, Kyber!MulShift, Kyber!Positive, Kyber!Q
<1>2. Kyber!Divided(Kyber!To11, u) \in 0 .. 2^(Kyber!To11.d) - 1
  BY SMTT(60) DEF Kyber!To11, Kyber!Divided, Kyber!Positive, Kyber!Q
<1>3. Kyber!HalfStep(Kyber!To11) = 1
  BY SMT DEF Kyber!HalfStep, Kyber!Q, Kyber!To11
<1>4. Within(u, Kyber!Expanded(Kyber!To11, Kyber!Divided(Kyber!To11, u)), 1)
  BY SMTT(200) DEF Within, Kyber!To11, Kyber!Expanded, Kyber!Divided, Kyber!Positive, Kyber!Q
<1>5. Alike(Kyber!To11, u)
  BY <1>1, <1>2, SMT DEF Alike
<1>6. ComesBack(Kyber!To11, u)
  BY <1>3, <1>4, SMT DEF ComesBack
<1> QED
  BY <1>5, <1>6, SMT

\* Every site rounds alike and comes back.
LEMMA EverySite ==
    ASSUME NEW s \in Kyber!Sites, NEW u \in Int, -1664 <= u, u <= 1664
    PROVE  Alike(s, u) /\ ComesBack(s, u)
  BY Round1, Round4, Round5, Round10, Round11, SMT DEF Kyber!Sites

\* 0 has d bits.
LEMMA Zeros ==
    ASSUME NEW s \in Kyber!Sites
    PROVE  0 \in 0 .. 2^s.d - 1
<1>1. 0 \in 0 .. 2^Kyber!ToMsg.d - 1 /\ 0 \in 0 .. 2^Kyber!To4.d - 1 /\ 0 \in 0 .. 2^Kyber!To5.d - 1
  BY SMT DEF Kyber!ToMsg, Kyber!To4, Kyber!To5
<1>2. 0 \in 0 .. 2^Kyber!To10.d - 1 /\ 0 \in 0 .. 2^Kyber!To11.d - 1
  BY SMT DEF Kyber!To10, Kyber!To11
<1> QED
  BY <1>1, <1>2, SMT DEF Kyber!Sites

\* The type of a reduced coefficient.
LEMMA Halves ==
    ASSUME NEW u \in Int, -1664 <= u, u <= 1664
    PROVE  u \in -(Kyber!Q \div 2) .. Kyber!Q \div 2
  BY SMT DEF Kyber!Q

\* Half a step is small against Q.
LEMMA HalfSteps ==
    ASSUME NEW s \in Kyber!Sites
    PROVE  Kyber!HalfStep(s) \in Int /\ 0 <= Kyber!HalfStep(s) /\ Kyber!HalfStep(s) < 1000
<1> DEFINE Fits(h) == h \in Int /\ 0 <= h /\ h < 1000
<1>1. /\ Fits(Kyber!HalfStep(Kyber!ToMsg)) /\ Fits(Kyber!HalfStep(Kyber!To4))
      /\ Fits(Kyber!HalfStep(Kyber!To5))
  BY SMT DEF Kyber!HalfStep, Kyber!Q, Kyber!ToMsg, Kyber!To4, Kyber!To5
<1>2. Fits(Kyber!HalfStep(Kyber!To10)) /\ Fits(Kyber!HalfStep(Kyber!To11))
  BY SMT DEF Kyber!HalfStep, Kyber!Q, Kyber!To10, Kyber!To11
<1> HIDE DEF Fits
<1>3. Fits(Kyber!HalfStep(s))
  BY <1>1, <1>2, SMT DEF Kyber!Sites
<1> QED
  BY <1>3 DEF Fits

-----------------------------------------------------------------------------
\* The inductive invariant of the ML-KEM module: where a behaviour is, and what
\* it has computed by then from where it started.
Rounded ==
    /\ args \in [site : Kyber!Sites, x : KyberInputs]
    /\ locals.pc \in {"reduce", "round", "done"}
    /\ locals.pc = "reduce" => locals.u = 0
    /\ locals.pc # "reduce" => locals.u = Kyber!Reduced(args.x)
    /\ locals.pc # "done" => out = [patched |-> 0, divided |-> 0, back |-> 0]
    /\ locals.pc = "done" =>
           LET y == Kyber!Patched(args.site, locals.u) IN
           out = [patched |-> y, divided |-> Kyber!Divided(args.site, locals.u),
                  back |-> Kyber!Expanded(args.site, y)]
    /\ locals = [pc |-> locals.pc, u |-> locals.u]

\* A run of the ML-KEM sites is a behaviour of KyberRounding.
LEMMA KyberRuns ==
    /\ Init /\ routine = "kyber rounding" => Kyber!Init
    /\ [Next]_vars /\ routine' = "kyber rounding" => routine = "kyber rounding" /\ [Kyber!Next]_Kyber!vars
<1>1. Init /\ routine = "kyber rounding" => Kyber!Init
  BY DEF Init
<1>2. [Next]_vars /\ routine' = "kyber rounding" => routine = "kyber rounding"
  BY DEF Next, SignNext, vars
<1>3. [Next]_vars /\ routine = "kyber rounding" => [Kyber!Next]_Kyber!vars
  BY DEF Next, SignNext, vars, Kyber!vars
<1> QED
  BY <1>1, <1>2, <1>3

KyberInv == routine = "kyber rounding" => Rounded

\* The invariant holds.
THEOREM KyberInductive == Spec => []KyberInv
<1>1. Init => KyberInv
  <2>1. Kyber!Init => Rounded
    BY SMT DEF Kyber!Init, Rounded
  <2> QED
    BY <2>1, KyberRuns DEF KyberInv
<1>2. KyberInv /\ [Next]_vars => KyberInv'
  <2> SUFFICES ASSUME Rounded, [Kyber!Next]_Kyber!vars
               PROVE  Rounded'
    BY KyberRuns DEF KyberInv
  <2>1. CASE Kyber!Reduce
    BY <2>1, SMT DEF Rounded, Kyber!Reduce
  <2>2. CASE Kyber!Round
    BY <2>2, SMT DEF Rounded, Kyber!Round
  <2>3. CASE UNCHANGED Kyber!vars
    BY <2>3, SMT DEF Rounded, Kyber!vars
  <2> QED
    BY <2>1, <2>2, <2>3 DEF Kyber!Next
<1> QED
  BY <1>1, <1>2, PTL DEF Spec

\* What Round works on.
LEMMA Centred ==
    ASSUME Kyber!KyberAssumption, Rounded, locals.pc # "reduce"
    PROVE  /\ args.site \in Kyber!Sites /\ args.x \in Int
           /\ locals.u \in Int /\ -1664 <= locals.u /\ locals.u <= 1664
           /\ \E q \in Int : args.x = locals.u + q * 3329
<1>1. args.site \in Kyber!Sites /\ args.x \in KyberInputs
  BY SMT DEF Rounded
<1>2. args.x \in Int /\ -32768 <= args.x /\ args.x <= 32767
  BY <1>1, SMT DEF Kyber!KyberAssumption
<1>3. locals.u = Kyber!Reduced(args.x)
  BY SMT DEF Rounded
<1> QED
  BY <1>1, <1>2, <1>3, Remainder, SMT

\* poly.c, polyvec.c: a coefficient is centred, and a rounding has d bits.
THEOREM KyberTypeOK ==
    Spec => [](routine = "kyber rounding" => Kyber!TypeOK)
<1>1. KyberInv => (routine = "kyber rounding" => Kyber!TypeOK)
  <2> SUFFICES ASSUME Rounded
               PROVE  Kyber!TypeOK
    BY DEF KyberInv
  <2>1. args.site \in Kyber!Sites /\ locals.pc \in {"reduce", "round", "done"}
    BY SMT DEF Rounded
  <2>2. locals.u \in -(Kyber!Q \div 2) .. Kyber!Q \div 2
    <3>1. CASE locals.pc = "reduce"
      BY <3>1, Halves, SMT DEF Rounded
    <3>2. CASE locals.pc # "reduce"
      BY <3>2, Halves, Centred, RoutinesAssumption, SMT
    <3> QED
      BY <3>1, <3>2
  <2>3. out.patched \in 0 .. 2^args.site.d - 1 /\ out.divided \in 0 .. 2^args.site.d - 1
    <3>1. CASE locals.pc # "done"
      BY <2>1, <3>1, Zeros, SMT DEF Rounded
    <3>2. CASE locals.pc = "done"
      <4>1. Alike(args.site, locals.u)
        BY <3>2, Centred, EverySite, RoutinesAssumption, SMT
      <4>2. /\ out.patched = Kyber!Patched(args.site, locals.u)
            /\ out.divided = Kyber!Divided(args.site, locals.u)
        BY <3>2, SMT DEF Rounded
      <4> QED
        BY <4>1, <4>2, SMT DEF Alike
    <3> QED
      BY <3>1, <3>2
  <2> QED
    BY <2>1, <2>2, <2>3, SMT DEF Kyber!TypeOK
<1> QED
  BY <1>1, KyberInductive, PTL

\* poly.c, polyvec.c: multiplication and division round alike, for every
\* coefficient of 16 bits.
THEOREM PatchAlwaysKeepsTheValue ==
    Spec => []PatchKeepsTheValue
<1>1. KyberInv => PatchKeepsTheValue
  <2> SUFFICES ASSUME Rounded, locals.pc = "done"
               PROVE  out.patched = out.divided
    BY DEF KyberInv, PatchKeepsTheValue, Kyber!PatchKeepsTheValue
  <2>1. Alike(args.site, locals.u)
    BY Centred, EverySite, RoutinesAssumption, SMT
  <2>2. /\ out.patched = Kyber!Patched(args.site, locals.u)
        /\ out.divided = Kyber!Divided(args.site, locals.u)
    BY SMT DEF Rounded
  <2> QED
    BY <2>1, <2>2, SMT DEF Alike
<1> QED
  BY <1>1, KyberInductive, PTL

\* poly.c, polyvec.c: what is compressed comes back within half a step, for
\* every coefficient of 16 bits.
THEOREM ExpandedAlwaysNear ==
    Spec => []ExpandedIsNear
<1>1. KyberInv => ExpandedIsNear
  <2> SUFFICES ASSUME Rounded, locals.pc = "done"
               PROVE  LET e == (args.x - out.back) % Kyber!Q
                      IN  e <= Kyber!HalfStep(args.site) \/ Kyber!Q - e <= Kyber!HalfStep(args.site)
    BY DEF KyberInv, ExpandedIsNear, Kyber!ExpandedIsNear
  <2>1. PICK s, u, x, b, h :
            /\ s = args.site /\ u = locals.u /\ x = args.x /\ b = out.back
            /\ h = Kyber!HalfStep(args.site)
    BY Zenon
  <2>2. s \in Kyber!Sites /\ u \in Int /\ -1664 <= u /\ u <= 1664 /\ x \in Int
    BY <2>1, Centred, RoutinesAssumption, SMT
  <2>3. PICK q \in Int : x = u + q * 3329
    BY <2>1, Centred, RoutinesAssumption, SMT
  <2>4. h \in Int /\ 0 <= h /\ h < 1000
    BY <2>1, <2>2, HalfSteps, SMT
  <2>5. Alike(s, u) /\ ComesBack(s, u)
    BY <2>2, EverySite, SMT
  <2>6. b = Kyber!Expanded(s, Kyber!Divided(s, u))
    BY <2>1, <2>5, SMT DEF Rounded, Alike
  <2>7. Within(u, b, h)
    BY <2>1, <2>5, <2>6, SMT DEF ComesBack
  <2>8. b \in Int
    BY <2>7, SMT DEF Within
  <2>9. PICK k \in {0, 1, -1} : -h <= u - b + k * 3329 /\ u - b + k * 3329 <= h
    BY <2>7, SMT DEF Within
  <2>10. PICK d \in Int, m \in Int : d = u - b + k * 3329 /\ m = q - k
    BY <2>2, <2>3, <2>8, <2>9, SMT
  <2>11. x - b = d + m * 3329 /\ -h <= d /\ d <= h
    BY <2>2, <2>3, <2>4, <2>8, <2>9, <2>10, SMT
  <2>12. (x - b) % 3329 <= h \/ 3329 - ((x - b) % 3329) <= h
    BY <2>4, <2>11, NearModQ, SMT
  <2>13. Kyber!Q = 3329
    BY SMT DEF Kyber!Q
  <2>14. PICK e : e = (x - b) % 3329
    BY SMT
  <2>15. e \in Int /\ (e <= h \/ 3329 - e <= h)
    BY <2>2, <2>8, <2>12, <2>14, SMT
  <2>16. (args.x - out.back) % Kyber!Q = e
    BY <2>1, <2>13, <2>14, SMT
  <2>17. e <= Kyber!HalfStep(args.site) \/ Kyber!Q - e <= Kyber!HalfStep(args.site)
    BY <2>1, <2>13, <2>15, SMT
  <2> QED
    BY <2>16, <2>17, SMT
<1> QED
  BY <1>1, KyberInductive, PTL

-----------------------------------------------------------------------------
\* A reduced coefficient.
InQ(a) == a \in Int /\ 0 <= a /\ a < 8380417

\* How decompose places a coefficient: in the interval of its high part, or, in
\* the lower half of the last one, in the interval of 0.
Places(p, a, h, l) ==
    /\ h \in Int /\ 0 <= h /\ h < Mldsa!High(p) /\ l \in Int
    /\ \/ a = h * (2 * p.gamma2) + l /\ -p.gamma2 < l /\ l <= p.gamma2
       \/ h = 0 /\ a = 8380417 + l /\ -p.gamma2 <= l /\ l < 0

\* What the signer has checked of a low part l moved by x and y.
Checked(p, l, x, y) ==
    /\ x \in Int /\ -p.beta <= x /\ x <= p.beta
    /\ y \in Int /\ -p.gamma2 < y /\ y < p.gamma2
    /\ p.beta - p.gamma2 < l - x /\ l - x < p.gamma2 - p.beta

\* r is w moved by x and y, mod Q.
Moved(w, x, y, r) == \E k \in Int : r = w - x + y + k * 8380417

\* What use_hint makes of the parts of r.
UsedHint(p, r1, r0, hint) ==
    IF ~hint THEN r1 ELSE (IF r0 > 0 THEN r1 + 1 ELSE r1 - 1) % Mldsa!High(p)

Finds(p, l, x, y, h, r1, r0) == UsedHint(p, r1, r0, Mldsa!MakeHint(p, l - x + y, h)) = h

\* Where the reciprocal of 44 intervals puts a coefficient.
LEMMA Reciprocal44 ==
    ASSUME NEW a \in Int, 0 <= a, a < 8380417,
           NEW b, b = (((a + 127) \div 128) * 11275 + 8388608) \div 16777216
    PROVE  /\ b \in Int /\ 0 <= b /\ b <= 44
           /\ -95232 < a - b * 190464 /\ a - b * 190464 <= 95232
  BY SMTT(100)

\* Where the reciprocal of 16 intervals puts a coefficient.
LEMMA Reciprocal16 ==
    ASSUME NEW a \in Int, 0 <= a, a < 8380417,
           NEW b, b = (((a + 127) \div 128) * 1025 + 2097152) \div 4194304
    PROVE  /\ b \in Int /\ 0 <= b /\ b <= 16
           /\ -261888 < a - b * 523776 /\ a - b * 523776 <= 261888
  BY SMTT(100)

\* ML-DSA-44: the placing, and the arithmetic of the hint.
LEMMA Places44 ==
    ASSUME NEW a, InQ(a)
    PROVE  Places(Mldsa!ML44, a, Mldsa!HighPart(Mldsa!ML44, a), Mldsa!LowPart(Mldsa!ML44, a))
<1>1. PICK b : b = (((a + 127) \div 128) * 11275 + 8388608) \div 16777216
  BY SMT
<1>2. a \in Int /\ 0 <= a /\ a < 8380417
  BY SMT DEF InQ
<1>3. /\ b \in Int /\ 0 <= b /\ b <= 44
      /\ -95232 < a - b * 190464 /\ a - b * 190464 <= 95232
  BY <1>1, <1>2, Reciprocal44, SMT
<1>4. Mldsa!High(Mldsa!ML44) = 44
  BY SMT DEF Mldsa!High, Mldsa!Q, Mldsa!ML44
<1>5. Mldsa!HighPart(Mldsa!ML44, a) = IF b = 44 THEN 0 ELSE b
  BY <1>1, <1>4, SMT DEF Mldsa!HighPart, Mldsa!ML44
<1>6. Mldsa!LowPart(Mldsa!ML44, a) = IF b = 44 THEN a - 8380417 ELSE a - b * 190464
  BY <1>2, <1>3, <1>5, SMT DEF Mldsa!LowPart, Mldsa!Q, Mldsa!ML44
<1> QED
  BY <1>2, <1>3, <1>4, <1>5, <1>6, SMT DEF Places, Mldsa!ML44

LEMMA Finds44 ==
    ASSUME NEW w, NEW r, InQ(w), InQ(r), NEW x, NEW y, Moved(w, x, y, r),
           NEW h, NEW l, Places(Mldsa!ML44, w, h, l), Checked(Mldsa!ML44, l, x, y),
           NEW r1, NEW r0, Places(Mldsa!ML44, r, r1, r0)
    PROVE  Finds(Mldsa!ML44, l, x, y, h, r1, r0)
<1>1. Mldsa!High(Mldsa!ML44) = 44
  BY SMT DEF Mldsa!High, Mldsa!Q, Mldsa!ML44
<1>2. PICK k \in Int : r = w - x + y + k * 8380417
  BY SMT DEF Moved
<1>3. /\ w \in Int /\ 0 <= w /\ w < 8380417 /\ r \in Int /\ 0 <= r /\ r < 8380417
  BY SMT DEF InQ
<1>4. /\ x \in Int /\ y \in Int /\ -95232 < y /\ y < 95232
      /\ -Mldsa!ML44.beta <= x /\ x <= Mldsa!ML44.beta
      /\ Mldsa!ML44.beta - 95232 < l - x /\ l - x < 95232 - Mldsa!ML44.beta
  BY SMT DEF Checked, Mldsa!ML44
<1>5. /\ h \in Int /\ 0 <= h /\ h < 44 /\ l \in Int
      /\ \/ w = h * 190464 + l /\ -95232 < l /\ l <= 95232
         \/ h = 0 /\ w = 8380417 + l /\ -95232 <= l /\ l < 0
  BY <1>1, SMT DEF Places, Mldsa!ML44
<1>6. /\ r1 \in Int /\ 0 <= r1 /\ r1 < 44 /\ r0 \in Int
      /\ \/ r = r1 * 190464 + r0 /\ -95232 < r0 /\ r0 <= 95232
         \/ r1 = 0 /\ r = 8380417 + r0 /\ -95232 <= r0 /\ r0 < 0
  BY <1>1, SMT DEF Places, Mldsa!ML44
<1> QED
  BY <1>1, <1>2, <1>3, <1>4, <1>5, <1>6, SMTT(100) DEF Finds, UsedHint, Mldsa!MakeHint, Mldsa!ML44

\* ML-DSA-65: the placing, and the arithmetic of the hint.
LEMMA Places65 ==
    ASSUME NEW a, InQ(a)
    PROVE  Places(Mldsa!ML65, a, Mldsa!HighPart(Mldsa!ML65, a), Mldsa!LowPart(Mldsa!ML65, a))
<1>1. PICK b : b = (((a + 127) \div 128) * 1025 + 2097152) \div 4194304
  BY SMT
<1>2. a \in Int /\ 0 <= a /\ a < 8380417
  BY SMT DEF InQ
<1>3. /\ b \in Int /\ 0 <= b /\ b <= 16
      /\ -261888 < a - b * 523776 /\ a - b * 523776 <= 261888
  BY <1>1, <1>2, Reciprocal16, SMT
<1>4. Mldsa!High(Mldsa!ML65) = 16
  BY SMT DEF Mldsa!High, Mldsa!Q, Mldsa!ML65
<1>5. Mldsa!HighPart(Mldsa!ML65, a) = IF b = 16 THEN 0 ELSE b
  BY <1>1, <1>4, SMT DEF Mldsa!HighPart, Mldsa!ML65
<1>6. Mldsa!LowPart(Mldsa!ML65, a) = IF b = 16 THEN a - 8380417 ELSE a - b * 523776
  BY <1>2, <1>3, <1>5, SMT DEF Mldsa!LowPart, Mldsa!Q, Mldsa!ML65
<1> QED
  BY <1>2, <1>3, <1>4, <1>5, <1>6, SMT DEF Places, Mldsa!ML65

LEMMA Finds65 ==
    ASSUME NEW w, NEW r, InQ(w), InQ(r), NEW x, NEW y, Moved(w, x, y, r),
           NEW h, NEW l, Places(Mldsa!ML65, w, h, l), Checked(Mldsa!ML65, l, x, y),
           NEW r1, NEW r0, Places(Mldsa!ML65, r, r1, r0)
    PROVE  Finds(Mldsa!ML65, l, x, y, h, r1, r0)
<1>1. Mldsa!High(Mldsa!ML65) = 16
  BY SMT DEF Mldsa!High, Mldsa!Q, Mldsa!ML65
<1>2. PICK k \in Int : r = w - x + y + k * 8380417
  BY SMT DEF Moved
<1>3. /\ w \in Int /\ 0 <= w /\ w < 8380417 /\ r \in Int /\ 0 <= r /\ r < 8380417
  BY SMT DEF InQ
<1>4. /\ x \in Int /\ y \in Int /\ -261888 < y /\ y < 261888
      /\ -Mldsa!ML65.beta <= x /\ x <= Mldsa!ML65.beta
      /\ Mldsa!ML65.beta - 261888 < l - x /\ l - x < 261888 - Mldsa!ML65.beta
  BY SMT DEF Checked, Mldsa!ML65
<1>5. /\ h \in Int /\ 0 <= h /\ h < 16 /\ l \in Int
      /\ \/ w = h * 523776 + l /\ -261888 < l /\ l <= 261888
         \/ h = 0 /\ w = 8380417 + l /\ -261888 <= l /\ l < 0
  BY <1>1, SMT DEF Places, Mldsa!ML65
<1>6. /\ r1 \in Int /\ 0 <= r1 /\ r1 < 16 /\ r0 \in Int
      /\ \/ r = r1 * 523776 + r0 /\ -261888 < r0 /\ r0 <= 261888
         \/ r1 = 0 /\ r = 8380417 + r0 /\ -261888 <= r0 /\ r0 < 0
  BY <1>1, SMT DEF Places, Mldsa!ML65
<1> QED
  BY <1>1, <1>2, <1>3, <1>4, <1>5, <1>6, SMTT(100) DEF Finds, UsedHint, Mldsa!MakeHint, Mldsa!ML65

\* ML-DSA-87: the placing, and the arithmetic of the hint.
LEMMA Places87 ==
    ASSUME NEW a, InQ(a)
    PROVE  Places(Mldsa!ML87, a, Mldsa!HighPart(Mldsa!ML87, a), Mldsa!LowPart(Mldsa!ML87, a))
<1>1. PICK b : b = (((a + 127) \div 128) * 1025 + 2097152) \div 4194304
  BY SMT
<1>2. a \in Int /\ 0 <= a /\ a < 8380417
  BY SMT DEF InQ
<1>3. /\ b \in Int /\ 0 <= b /\ b <= 16
      /\ -261888 < a - b * 523776 /\ a - b * 523776 <= 261888
  BY <1>1, <1>2, Reciprocal16, SMT
<1>4. Mldsa!High(Mldsa!ML87) = 16
  BY SMT DEF Mldsa!High, Mldsa!Q, Mldsa!ML87
<1>5. Mldsa!HighPart(Mldsa!ML87, a) = IF b = 16 THEN 0 ELSE b
  BY <1>1, <1>4, SMT DEF Mldsa!HighPart, Mldsa!ML87
<1>6. Mldsa!LowPart(Mldsa!ML87, a) = IF b = 16 THEN a - 8380417 ELSE a - b * 523776
  BY <1>2, <1>3, <1>5, SMT DEF Mldsa!LowPart, Mldsa!Q, Mldsa!ML87
<1> QED
  BY <1>2, <1>3, <1>4, <1>5, <1>6, SMT DEF Places, Mldsa!ML87

LEMMA Finds87 ==
    ASSUME NEW w, NEW r, InQ(w), InQ(r), NEW x, NEW y, Moved(w, x, y, r),
           NEW h, NEW l, Places(Mldsa!ML87, w, h, l), Checked(Mldsa!ML87, l, x, y),
           NEW r1, NEW r0, Places(Mldsa!ML87, r, r1, r0)
    PROVE  Finds(Mldsa!ML87, l, x, y, h, r1, r0)
<1>1. Mldsa!High(Mldsa!ML87) = 16
  BY SMT DEF Mldsa!High, Mldsa!Q, Mldsa!ML87
<1>2. PICK k \in Int : r = w - x + y + k * 8380417
  BY SMT DEF Moved
<1>3. /\ w \in Int /\ 0 <= w /\ w < 8380417 /\ r \in Int /\ 0 <= r /\ r < 8380417
  BY SMT DEF InQ
<1>4. /\ x \in Int /\ y \in Int /\ -261888 < y /\ y < 261888
      /\ -Mldsa!ML87.beta <= x /\ x <= Mldsa!ML87.beta
      /\ Mldsa!ML87.beta - 261888 < l - x /\ l - x < 261888 - Mldsa!ML87.beta
  BY SMT DEF Checked, Mldsa!ML87
<1>5. /\ h \in Int /\ 0 <= h /\ h < 16 /\ l \in Int
      /\ \/ w = h * 523776 + l /\ -261888 < l /\ l <= 261888
         \/ h = 0 /\ w = 8380417 + l /\ -261888 <= l /\ l < 0
  BY <1>1, SMT DEF Places, Mldsa!ML87
<1>6. /\ r1 \in Int /\ 0 <= r1 /\ r1 < 16 /\ r0 \in Int
      /\ \/ r = r1 * 523776 + r0 /\ -261888 < r0 /\ r0 <= 261888
         \/ r1 = 0 /\ r = 8380417 + r0 /\ -261888 <= r0 /\ r0 < 0
  BY <1>1, SMT DEF Places, Mldsa!ML87
<1> QED
  BY <1>1, <1>2, <1>3, <1>4, <1>5, <1>6, SMTT(100) DEF Finds, UsedHint, Mldsa!MakeHint, Mldsa!ML87

\* Both, for any parameter set.
LEMMA PlacesAny ==
    ASSUME NEW p \in Mldsa!Params, NEW a, InQ(a)
    PROVE  Places(p, a, Mldsa!HighPart(p, a), Mldsa!LowPart(p, a))
  BY Places44, Places65, Places87, Zenon DEF Mldsa!Params

LEMMA FindsAny ==
    ASSUME NEW p \in Mldsa!Params, NEW w, NEW r, InQ(w), InQ(r), NEW x, NEW y, Moved(w, x, y, r),
           NEW h, NEW l, Places(p, w, h, l), Checked(p, l, x, y),
           NEW r1, NEW r0, Places(p, r, r1, r0)
    PROVE  Finds(p, l, x, y, h, r1, r0)
<1>1. p \in {Mldsa!ML44, Mldsa!ML65, Mldsa!ML87}
  BY Zenon DEF Mldsa!Params
<1>2. CASE p = Mldsa!ML44
  BY <1>2, Finds44, Zenon
<1>3. CASE p = Mldsa!ML65
  BY <1>3, Finds65, Zenon
<1>4. CASE p = Mldsa!ML87
  BY <1>4, Finds87, Zenon
<1> QED
  BY <1>1, <1>2, <1>3, <1>4, Zenon

\* The verifier's coefficient is the signer's, moved and reduced.
LEMMA SumReduced ==
    ASSUME NEW w, InQ(w), NEW x \in Int, NEW y \in Int
    PROVE  /\ InQ((w - x + y) % Mldsa!Q)
           /\ Moved(w, x, y, (w - x + y) % Mldsa!Q)
<1>1. PICK n : n = w - x + y
  BY SMT
<1>2. n \in Int
  BY <1>1, SMT DEF InQ
<1>3. PICK m, r : m = n \div 8380417 /\ r = n % 8380417
  BY SMT
<1>4. m \in Int /\ r \in Int /\ n = m * 8380417 + r /\ 0 <= r /\ r < 8380417
  BY <1>2, <1>3, SMT
<1>5. PICK k \in Int : k = -m
  BY <1>4, SMT
<1>6. r = n + k * 8380417
  BY <1>2, <1>4, <1>5, SMT
<1>7. r = (w - x + y) % Mldsa!Q
  BY <1>1, <1>3, SMT DEF Mldsa!Q
<1>8. InQ(r)
  BY <1>4, SMT DEF InQ
<1>9. Moved(w, x, y, r)
  BY <1>1, <1>6, SMT DEF Moved
<1> QED
  BY <1>7, <1>8, <1>9, Zenon

\* With the signer's checks passed, the hint recovers the high part.
LEMMA HintWorks ==
    ASSUME NEW p \in Mldsa!Params, NEW w, InQ(w), NEW x, NEW y,
           Checked(p, Mldsa!LowPart(p, w), x, y)
    PROVE  Mldsa!UseHint(p, (w - x + y) % Mldsa!Q,
                         Mldsa!MakeHint(p, Mldsa!LowPart(p, w) - x + y, Mldsa!HighPart(p, w)))
               = Mldsa!HighPart(p, w)
<1>1. x \in Int /\ y \in Int
  BY Zenon DEF Checked
<1>2. InQ((w - x + y) % Mldsa!Q) /\ Moved(w, x, y, (w - x + y) % Mldsa!Q)
  BY <1>1, SumReduced, Zenon
<1>3. Finds(p, Mldsa!LowPart(p, w), x, y, Mldsa!HighPart(p, w),
            Mldsa!HighPart(p, (w - x + y) % Mldsa!Q), Mldsa!LowPart(p, (w - x + y) % Mldsa!Q))
  BY <1>2, PlacesAny, FindsAny, Zenon
<1> QED
  BY <1>3, Zenon DEF Finds, UsedHint, Mldsa!UseHint

\* What the two comparisons of the signer let through.
LEMMA SignerChecks ==
    ASSUME Mldsa!RoundingAssumption, NEW i \in MldsaInputs,
           ~(\/ Mldsa!Abs(Mldsa!LowPart(i.p, i.w) - i.cs2) >= i.p.gamma2 - i.p.beta
             \/ Mldsa!Abs(i.ct0) >= i.p.gamma2)
    PROVE  Checked(i.p, Mldsa!LowPart(i.p, i.w), i.cs2, i.ct0)
<1>1. /\ i.p \in Mldsa!Params
      /\ i.w \in Int /\ 0 <= i.w /\ i.w < Mldsa!Q
      /\ i.cs2 \in Int /\ -i.p.beta <= i.cs2 /\ i.cs2 <= i.p.beta
      /\ i.ct0 \in Int
  BY Zenon DEF Mldsa!RoundingAssumption
<1>2. InQ(i.w)
  BY <1>1, SMT DEF InQ, Mldsa!Q
<1>3. Places(i.p, i.w, Mldsa!HighPart(i.p, i.w), Mldsa!LowPart(i.p, i.w))
  BY <1>1, <1>2, PlacesAny, Zenon
<1>4. Mldsa!LowPart(i.p, i.w) \in Int
  BY <1>3, SMT DEF Places
<1>5. i.p.gamma2 \in Int /\ i.p.beta \in Int
  BY <1>1, SMT DEF Mldsa!Params, Mldsa!ML44, Mldsa!ML65, Mldsa!ML87
<1> QED
  BY <1>1, <1>4, <1>5, SMT DEF Checked, Mldsa!Abs

-----------------------------------------------------------------------------
\* The inductive invariant of the hint module: what the signer has checked and
\* handed over, and what the verifier has made of it.
Hint ==
    LET i == args IN
    Mldsa!MakeHint(i.p, Mldsa!LowPart(i.p, i.w) - i.cs2 + i.ct0, Mldsa!HighPart(i.p, i.w))

Sum == (args.w - args.cs2 + args.ct0) % Mldsa!Q

Signed ==
    /\ Checked(args.p, Mldsa!LowPart(args.p, args.w), args.cs2, args.ct0)
    /\ locals.r = Sum

Handed ==
    /\ args \in MldsaInputs
    /\ \/ /\ locals = [pc |-> "sign", r |-> 0]
          /\ out = [w1 |-> 0, hint |-> FALSE, ret |-> "none", found |-> 0]
       \/ /\ locals = [pc |-> "done", r |-> 0]
          /\ out = [w1 |-> 0, hint |-> FALSE, ret |-> "rejected", found |-> 0]
       \/ /\ locals = [pc |-> "verify", r |-> Sum]
          /\ Signed
          /\ out = [w1 |-> Mldsa!HighPart(args.p, args.w), hint |-> Hint, ret |-> "none", found |-> 0]
       \/ /\ locals = [pc |-> "done", r |-> Sum]
          /\ Signed
          /\ out = [w1 |-> Mldsa!HighPart(args.p, args.w), hint |-> Hint, ret |-> "OK",
                    found |-> Mldsa!UseHint(args.p, Sum, Hint)]

\* Two fields of a record with these four are updated.
LEMMA FirstUpdate ==
    ASSUME NEW a, NEW b, NEW c, NEW d, NEW e, NEW f,
           NEW o, o = [w1 |-> a, hint |-> b, ret |-> c, found |-> d]
    PROVE  [o EXCEPT !.w1 = e, !.hint = f] = [w1 |-> e, hint |-> f, ret |-> c, found |-> d]
<1>1. PICK u : u = [o EXCEPT !.w1 = e]
  BY Zenon
<1>2. u = [w1 |-> e, hint |-> b, ret |-> c, found |-> d]
  BY <1>1, SMT
<1>3. [u EXCEPT !.hint = f] = [w1 |-> e, hint |-> f, ret |-> c, found |-> d]
  BY <1>2, SMT
<1>4. [o EXCEPT !.w1 = e, !.hint = f] = [u EXCEPT !.hint = f]
  BY <1>1, Zenon
<1> QED
  BY <1>3, <1>4, Zenon

LEMMA SecondUpdate ==
    ASSUME NEW a, NEW b, NEW c, NEW d, NEW e, NEW f,
           NEW o, o = [w1 |-> a, hint |-> b, ret |-> c, found |-> d]
    PROVE  [o EXCEPT !.ret = e, !.found = f] = [w1 |-> a, hint |-> b, ret |-> e, found |-> f]
<1>1. PICK u : u = [o EXCEPT !.ret = e]
  BY Zenon
<1>2. u = [w1 |-> a, hint |-> b, ret |-> e, found |-> d]
  BY <1>1, SMT
<1>3. [u EXCEPT !.found = f] = [w1 |-> a, hint |-> b, ret |-> e, found |-> f]
  BY <1>2, SMT
<1>4. [o EXCEPT !.ret = e, !.found = f] = [u EXCEPT !.found = f]
  BY <1>1, Zenon
<1> QED
  BY <1>3, <1>4, Zenon

\* A run of the hints is a behaviour of MldsaRounding.
LEMMA MldsaRuns ==
    /\ Init /\ routine = "mldsa rounding" => Mldsa!Init
    /\ [Next]_vars /\ routine' = "mldsa rounding" => routine = "mldsa rounding" /\ [Mldsa!Next]_Mldsa!vars
<1>1. Init /\ routine = "mldsa rounding" => Mldsa!Init
  BY DEF Init
<1>2. [Next]_vars /\ routine' = "mldsa rounding" => routine = "mldsa rounding"
  BY DEF Next, SignNext, vars
<1>3. [Next]_vars /\ routine = "mldsa rounding" => [Mldsa!Next]_Mldsa!vars
  BY DEF Next, SignNext, vars, Mldsa!vars
<1> QED
  BY <1>1, <1>2, <1>3

MldsaInv == routine = "mldsa rounding" => Handed

\* The invariant holds.
THEOREM MldsaRoundingInductive == Spec => []MldsaInv
<1>1. Init => MldsaInv
  <2>1. Mldsa!Init => Handed
    BY SMT DEF Mldsa!Init, Handed
  <2> QED
    BY <2>1, MldsaRuns DEF MldsaInv
<1>2. MldsaInv /\ [Next]_vars => MldsaInv'
  <2> SUFFICES ASSUME Handed, [Mldsa!Next]_Mldsa!vars
               PROVE  Handed'
    BY MldsaRuns DEF MldsaInv
  <2>1. CASE Mldsa!Sign
    <3>1. args' = args /\ args \in MldsaInputs /\ locals = [pc |-> "sign", r |-> 0]
          /\ out = [w1 |-> 0, hint |-> FALSE, ret |-> "none", found |-> 0]
      BY <2>1, SMT DEF Handed, Mldsa!Sign
    <3>2. CASE \/ Mldsa!Abs(Mldsa!LowPart(args.p, args.w) - args.cs2) >= args.p.gamma2 - args.p.beta
               \/ Mldsa!Abs(args.ct0) >= args.p.gamma2
      BY <2>1, <3>1, <3>2, SMT DEF Handed, Mldsa!Sign
    <3>3. CASE ~(\/ Mldsa!Abs(Mldsa!LowPart(args.p, args.w) - args.cs2) >= args.p.gamma2 - args.p.beta
                 \/ Mldsa!Abs(args.ct0) >= args.p.gamma2)
      <4>1. Checked(args.p, Mldsa!LowPart(args.p, args.w), args.cs2, args.ct0)
        BY <3>1, <3>3, SignerChecks, RoutinesAssumption, Zenon
      <4>2. locals' = [pc |-> "verify", r |-> Sum]
        BY <2>1, <3>3, SMT DEF Mldsa!Sign, Sum
      <4>3. out' = [w1 |-> Mldsa!HighPart(args.p, args.w), hint |-> Hint, ret |-> "none", found |-> 0]
        <5>1. out' = [out EXCEPT !.w1 = Mldsa!HighPart(args.p, args.w), !.hint = Hint]
          BY <2>1, <3>3, Zenon DEF Mldsa!Sign, Hint
        <5> QED
          BY <3>1, <5>1, FirstUpdate, Zenon
      <4> QED
        BY <3>1, <4>1, <4>2, <4>3, SMT DEF Handed, Signed, Sum, Hint
    <3> QED
      BY <3>2, <3>3, Zenon
  <2>2. CASE Mldsa!Verify
    <3>1. /\ args' = args /\ args \in MldsaInputs /\ locals = [pc |-> "verify", r |-> Sum] /\ Signed
          /\ out = [w1 |-> Mldsa!HighPart(args.p, args.w), hint |-> Hint, ret |-> "none", found |-> 0]
      BY <2>2, SMT DEF Handed, Mldsa!Verify
    <3>2. locals' = [pc |-> "done", r |-> Sum]
      BY <2>2, <3>1, SMT DEF Mldsa!Verify
    <3>3. out' = [w1 |-> Mldsa!HighPart(args.p, args.w), hint |-> Hint, ret |-> "OK",
                  found |-> Mldsa!UseHint(args.p, Sum, Hint)]
      <4>1. out' = [out EXCEPT !.ret = "OK", !.found = Mldsa!UseHint(args.p, locals.r, out.hint)]
        BY <2>2, Zenon DEF Mldsa!Verify
      <4>2. locals.r = Sum /\ out.hint = Hint
        BY <3>1, Zenon
      <4> QED
        BY <3>1, <4>1, <4>2, SecondUpdate, Zenon
    <3> QED
      BY <3>1, <3>2, <3>3, SMT DEF Handed, Signed, Sum, Hint
  <2>3. CASE UNCHANGED Mldsa!vars
    BY <2>3, SMT DEF Handed, Signed, Sum, Hint, Mldsa!vars
  <2> QED
    BY <2>1, <2>2, <2>3, Zenon DEF Mldsa!Next
<1> QED
  BY <1>1, <1>2, PTL DEF Spec

\* What the invariant says when a signature has been verified.
LEMMA Verified ==
    ASSUME Mldsa!RoundingAssumption, Handed, Signed
    PROVE  /\ Mldsa!UseHint(args.p, Sum, Hint) = Mldsa!HighPart(args.p, args.w)
           /\ Mldsa!HighPart(args.p, args.w) \in 0 .. Mldsa!High(args.p) - 1
           /\ Sum \in 0 .. Mldsa!Q - 1
<1>1. args.p \in Mldsa!Params /\ args.w \in Int /\ 0 <= args.w /\ args.w < Mldsa!Q
  BY Zenon DEF Mldsa!RoundingAssumption, Handed
<1>2. InQ(args.w)
  BY <1>1, SMT DEF InQ, Mldsa!Q
<1>3. Mldsa!UseHint(args.p, Sum, Hint) = Mldsa!HighPart(args.p, args.w)
  BY <1>1, <1>2, HintWorks, Zenon DEF Signed, Sum, Hint
<1>4. args.cs2 \in Int /\ args.ct0 \in Int
  BY Zenon DEF Signed, Checked
<1>5. InQ(Sum)
  BY <1>2, <1>4, SumReduced, Zenon DEF Sum
<1>6. Sum \in Int /\ 0 <= Sum /\ Sum < Mldsa!Q /\ Mldsa!Q \in Int
  BY <1>5, SMT DEF InQ, Mldsa!Q
<1>7. Sum \in 0 .. Mldsa!Q - 1
  BY <1>6, SMT
<1>8. Places(args.p, args.w, Mldsa!HighPart(args.p, args.w), Mldsa!LowPart(args.p, args.w))
  BY <1>1, <1>2, PlacesAny, Zenon
<1>9. Mldsa!High(args.p) \in Int
  BY <1>1, SMT DEF Mldsa!High, Mldsa!Q, Mldsa!Params, Mldsa!ML44, Mldsa!ML65, Mldsa!ML87
<1>10. Mldsa!HighPart(args.p, args.w) \in 0 .. Mldsa!High(args.p) - 1
  BY <1>8, <1>9, SMT DEF Places
<1> QED
  BY <1>3, <1>7, <1>10, Zenon

\* rounding.c: what is reduced is reduced, and a high part is one of them.
THEOREM MldsaRoundingTypeOK ==
    Spec => [](routine = "mldsa rounding" => Mldsa!TypeOK)
<1>1. ASSUME Handed
      PROVE  Mldsa!TypeOK
  <2>1. Mldsa!Q \in Int /\ 0 \in 0 .. Mldsa!Q - 1
    <3>1. Mldsa!Q \in Int /\ 0 < Mldsa!Q
      BY SMT DEF Mldsa!Q
    <3> QED
      BY <3>1, SMT
  <2>2. 0 \in 0 .. Mldsa!High(args.p) - 1
    <3>1. args.p \in Mldsa!Params
      BY <1>1, RoutinesAssumption, Zenon DEF Mldsa!RoundingAssumption, Handed
    <3> QED
      BY <3>1, SMT DEF Mldsa!High, Mldsa!Q, Mldsa!Params, Mldsa!ML44, Mldsa!ML65, Mldsa!ML87
  <2>3. CASE /\ out = [w1 |-> 0, hint |-> FALSE, ret |-> "none", found |-> 0]
             /\ locals = [pc |-> "sign", r |-> 0]
    BY <2>1, <2>2, <2>3, SMT DEF Mldsa!TypeOK
  <2>4. CASE /\ out = [w1 |-> 0, hint |-> FALSE, ret |-> "rejected", found |-> 0]
             /\ locals = [pc |-> "done", r |-> 0]
    BY <2>1, <2>2, <2>4, SMT DEF Mldsa!TypeOK
  <2>5. CASE /\ Signed /\ locals = [pc |-> "verify", r |-> Sum]
             /\ out = [w1 |-> Mldsa!HighPart(args.p, args.w), hint |-> Hint, ret |-> "none", found |-> 0]
    BY <1>1, <2>2, <2>5, Verified, RoutinesAssumption, SMT DEF Mldsa!TypeOK
  <2>6. CASE /\ Signed /\ locals = [pc |-> "done", r |-> Sum]
             /\ out = [w1 |-> Mldsa!HighPart(args.p, args.w), hint |-> Hint, ret |-> "OK",
                       found |-> Mldsa!UseHint(args.p, Sum, Hint)]
    BY <1>1, <2>6, Verified, RoutinesAssumption, SMT DEF Mldsa!TypeOK
  <2> QED
    BY <1>1, <2>3, <2>4, <2>5, <2>6, Zenon DEF Handed
<1>2. MldsaInv => (routine = "mldsa rounding" => Mldsa!TypeOK)
  BY <1>1 DEF MldsaInv
<1> QED
  BY <1>2, MldsaRoundingInductive, PTL

\* rounding.c: the verifier finds the signer's high part, for every coefficient
\* and every shift the signer's checks let through.
THEOREM HintAlwaysRecovers ==
    Spec => []HintRecovers
<1>1. ASSUME Handed
      PROVE  Mldsa!HintRecovers
  <2>1. CASE out.ret # "OK"
    BY <2>1, Zenon DEF Mldsa!HintRecovers
  <2>2. CASE out.ret = "OK"
    <3>1. /\ Signed
          /\ out = [w1 |-> Mldsa!HighPart(args.p, args.w), hint |-> Hint, ret |-> "OK",
                    found |-> Mldsa!UseHint(args.p, Sum, Hint)]
      BY <1>1, <2>2, SMT DEF Handed
    <3>2. out.w1 = Mldsa!HighPart(args.p, args.w) /\ out.found = Mldsa!UseHint(args.p, Sum, Hint)
      BY <3>1, SMT
    <3> QED
      BY <1>1, <3>1, <3>2, Verified, RoutinesAssumption, SMT DEF Mldsa!HintRecovers
  <2> QED
    BY <2>1, <2>2
<1>2. MldsaInv => HintRecovers
  BY <1>1 DEF MldsaInv, HintRecovers
<1> QED
  BY <1>2, MldsaRoundingInductive, PTL
=============================================================================
