-------------------------- MODULE EvaluatorProofs --------------------------
(***************************************************************************)
(* The values of the interpreter stay values of the machine, its           *)
(* comparisons are one order, and its operators agree with Python's where  *)
(* EvaluatorInv says they do, for every width of the machine's word.       *)
(***************************************************************************)
EXTENDS EvaluatorInv, NumberLemmas, FiniteSetTheorems

-----------------------------------------------------------------------------
(* Powers of two.                                                          *)

LEMMA Pow2Recursion ==
  /\ Pow2[0] = 1
  /\ \A n \in Nat \ {0} : Pow2[n] = 2 * Pow2[n - 1]
  /\ Pow2 \in [Nat -> Nat]
<1> DEFINE step == [p \in Nat \X Nat |-> 2 * p[2]]
<1>1. IsStep(Nat, step) /\ 1 \in Nat
  BY DEF IsStep
<1>2. \A n, m \in Nat : step[<<n, m>>] = 2 * m
  OBVIOUS
<1> HIDE DEF step
<1>3. PICK f : CountsUp(f, Nat, 1, step)
  BY <1>1, CountingExists
<1>4. f[0] = 1 /\ f \in [Nat -> Nat] /\ \A n \in Nat : f[n + 1] = 2 * f[n]
  BY <1>2, <1>3 DEF CountsUp
<1>5. ASSUME NEW n \in Nat PROVE f[n] = IF n = 0 THEN 1 ELSE 2 * f[n - 1]
  <2>1. n # 0 => n - 1 \in Nat /\ (n - 1) + 1 = n
    OBVIOUS
  <2> QED
    BY <1>4, <2>1
<1>6. f = [n \in Nat |-> IF n = 0 THEN 1 ELSE 2 * f[n - 1]]
  BY <1>5, <1>4
<1>7. Pow2 = [n \in Nat |-> IF n = 0 THEN 1 ELSE 2 * Pow2[n - 1]]
  BY <1>6 DEF Pow2
<1>8. Pow2[0] = 1 /\ \A n \in Nat \ {0} : Pow2[n] = 2 * Pow2[n - 1]
  BY <1>7
<1>9. \A n \in Nat : Pow2[n] \in Nat
  <2> DEFINE T == {n \in Nat : Pow2[n] \in Nat}
  <2>1. 0 \in T
    BY <1>8
  <2>2. ASSUME NEW n \in Nat, n \in T PROVE n + 1 \in T
    <3>1. n + 1 \in Nat \ {0} /\ (n + 1) - 1 = n
      OBVIOUS
    <3> QED
      BY <2>2, <3>1, <1>8
  <2> HIDE DEF T
  <2>3. \A n \in Nat : n \in T
    BY <2>1, <2>2, SetInduction
  <2> QED
    BY <2>3 DEF T
<1> QED
  BY <1>7, <1>8, <1>9

LEMMA Pow2Facts ==
  ASSUME NEW n \in Nat
  PROVE  Pow2[n] \in Nat /\ Pow2[n] > 0 /\ Pow2[n + 1] = 2 * Pow2[n]
<1> DEFINE T == {m \in Nat : Pow2[m] > 0}
<1>1. \A m \in Nat : Pow2[m] \in Nat /\ Pow2[m + 1] = 2 * Pow2[m]
  <2>1. \A m \in Nat : m + 1 \in Nat \ {0} /\ (m + 1) - 1 = m
    OBVIOUS
  <2> QED
    BY <2>1, Pow2Recursion
<1>2. 0 \in T
  BY Pow2Recursion
<1>3. \A m \in Nat : m \in T => m + 1 \in T
  BY <1>1
<1> HIDE DEF T
<1>4. \A m \in Nat : m \in T
  BY <1>2, <1>3, SetInduction
<1> QED
  BY <1>1, <1>4 DEF T

LEMMA Pow2Sum ==
  ASSUME NEW a \in Nat, NEW b \in Nat
  PROVE  Pow2[a + b] = Pow2[a] * Pow2[b]
<1> DEFINE T == {m \in Nat : Pow2[a + m] = Pow2[a] * Pow2[m]}
<1>1. Pow2[a] \in Nat
  BY Pow2Facts
<1>2. 0 \in T
  BY <1>1, Pow2Recursion
<1>3. ASSUME NEW m \in Nat, m \in T PROVE m + 1 \in T
  <2>1. a + m \in Nat /\ a + (m + 1) = (a + m) + 1
    OBVIOUS
  <2>2. /\ Pow2[a + (m + 1)] = 2 * Pow2[a + m] /\ Pow2[m + 1] = 2 * Pow2[m]
        /\ Pow2[m] \in Nat
    BY <2>1, Pow2Facts
  <2>3. \A x, y \in Nat : 2 * (x * y) = x * (2 * y)
    OBVIOUS
  <2> QED
    BY <1>1, <1>3, <2>2, <2>3
<1> HIDE DEF T
<1>4. \A m \in Nat : m \in T
  BY <1>2, <1>3, SetInduction
<1> QED
  BY <1>4 DEF T

\* The word.
LEMMA WordFacts ==
  /\ Width \in Nat /\ Width - 1 \in Nat
  /\ Pow2[Width - 1] \in Nat /\ Pow2[Width - 1] > 3
  /\ Pow2[Width] = 2 * Pow2[Width - 1] /\ Pow2[Width] \in Nat \ {0}
  /\ MinInt = -Pow2[Width - 1] /\ MaxInt = Pow2[Width - 1] - 1
  /\ MinInt \in Int /\ MaxInt \in Int
<1>1. Width \in Nat /\ Width > 2
  BY EvaluatorAssumption
<1>2. /\ Width - 1 \in Nat /\ Width - 2 \in Nat /\ Width - 3 \in Nat
      /\ (Width - 1) + 1 = Width /\ (Width - 2) + 1 = Width - 1 /\ (Width - 3) + 1 = Width - 2
  BY <1>1
<1>3. Pow2[Width - 3] \in Nat /\ Pow2[Width - 3] > 0
  BY <1>2, Pow2Facts
<1>4. Pow2[Width - 2] = 2 * Pow2[Width - 3]
  BY <1>2, Pow2Facts
<1>5. Pow2[Width - 1] = 2 * Pow2[Width - 2]
  BY <1>2, Pow2Facts
<1>6. Pow2[Width] = 2 * Pow2[Width - 1]
  BY <1>2, Pow2Facts
<1> QED
  BY <1>1, <1>2, <1>3, <1>4, <1>5, <1>6 DEF MinInt, MaxInt

-----------------------------------------------------------------------------
(* Machine integers.                                                       *)

LEMMA WrapFacts ==
  ASSUME NEW n \in Int
  PROVE  Wrap(n) \in MinInt..MaxInt /\ (Fits(n) => Wrap(n) = n)
<1> DEFINE W == Pow2[Width]
           x == n - MinInt
<1>1. /\ W \in Nat \ {0} /\ W = 2 * Pow2[Width - 1] /\ Pow2[Width - 1] \in Nat
      /\ MinInt = -Pow2[Width - 1] /\ MaxInt = Pow2[Width - 1] - 1
  BY WordFacts
<1>2. x \in Int /\ x + MinInt = n
  BY <1>1
<1>3. x % W \in 0..(W - 1)
  BY <1>1, <1>2, DivisionLeaves
<1>4. ASSUME Fits(n) PROVE x % W = x
  <2>1. x \in 0..(W - 1)
    BY <1>1, <1>4 DEF Fits
  <2> HIDE DEF x, W
  <2> QED
    BY <1>1, <2>1
<1>5. Wrap(n) = (x % W) + MinInt
  BY DEF Wrap
<1> HIDE DEF x, W
<1> QED
  BY <1>1, <1>2, <1>3, <1>4, <1>5

\* The quotient of two naturals.
LEMMA NatQuotient ==
  ASSUME NEW a \in Nat, NEW b \in Nat \ {0}
  PROVE  /\ a \div b \in Nat /\ a = b * (a \div b) + (a % b) /\ a % b \in 0..(b - 1)
         /\ a \div b <= a /\ (b > 1 /\ a > 0 => a \div b < a)
<1> DEFINE q == a \div b
           m == a % b
<1>1. q \in Int /\ m \in 0..(b - 1) /\ a = b * q + m
  BY DivisionLeaves
<1> HIDE DEF q, m
<1>2. q >= 0
  <2>1. SUFFICES ASSUME q <= -1 PROVE FALSE
    BY <1>1
  <2>2. b * q <= b * (-1)
    BY <1>1, <2>1
  <2> QED
    BY <1>1, <2>2
<1>3. b * q >= q
  BY <1>1, <1>2
<1>4. b > 1 => b * q >= 2 * q
  BY <1>1, <1>2
<1> QED
  BY <1>1, <1>2, <1>3, <1>4 DEF q, m

LEMMA AbsFacts ==
  ASSUME NEW n \in MinInt..MaxInt
  PROVE  /\ Abs(n) \in Nat /\ Abs(n) <= -MinInt
         /\ Abs(n) = -MinInt => n = MinInt
         /\ n # 0 => Abs(n) # 0
         /\ n < 0 => n = -Abs(n)
         /\ ~(n < 0) => n = Abs(n)
BY WordFacts DEF Abs

LEMMA QuotientFits ==
  ASSUME NEW l \in MinInt..MaxInt, NEW r \in MinInt..MaxInt, ~Traps(l, r)
  PROVE  Quotient(l, r) \in MinInt..MaxInt /\ Remainder(l, r) \in MinInt..MaxInt
<1> DEFINE a == Abs(l)
           b == Abs(r)
           q == a \div b
           m == a % b
<1>1. r # 0 /\ ~(l = MinInt /\ r = -1)
  BY DEF Traps
<1>2. /\ a \in Nat /\ a <= -MinInt /\ (l < 0 => l = -a) /\ (~(l < 0) => l = a)
      /\ (a = -MinInt => l = MinInt)
  BY AbsFacts
<1>3. b \in Nat \ {0} /\ b <= -MinInt /\ (r < 0 => r = -b) /\ (~(r < 0) => r = b)
  BY <1>1, AbsFacts
<1>4. /\ MinInt \in Int /\ MaxInt \in Int /\ MaxInt = -MinInt - 1 /\ MinInt < -3
      /\ l \in Int /\ r \in Int
  BY WordFacts
<1> HIDE DEF a, b
<1>5. q \in Nat /\ a = b * q + m /\ m \in 0..(b - 1) /\ q <= a /\ (b > 1 /\ a > 0 => q < a)
  BY <1>2, <1>3, NatQuotient
<1>6. Quotient(l, r) = IF l * r < 0 THEN -q ELSE q
  BY DEF Quotient, a, b
<1>7. Remainder(l, r) = l - r * Quotient(l, r)
  BY DEF Remainder
<1> HIDE DEF q, m
<1>8. l * r < 0 <=> ((l < 0 /\ r > 0) \/ (l > 0 /\ r < 0))
  <2>1. \A x, y \in Nat : (x > 0 /\ y > 0 => x * y > 0) /\ x * y >= 0
                          /\ (-x) * y = -(x * y) /\ x * (-y) = -(x * y) /\ (-x) * (-y) = x * y
    OBVIOUS
  <2>2. l < 0 => -l \in Nat /\ -(-l) = l
    BY <1>4
  <2>3. r < 0 => -r \in Nat /\ -(-r) = r
    BY <1>4
  <2>4. CASE l < 0 /\ r < 0
    <3>1. l * r = (-l) * (-r) /\ (-l) * (-r) >= 0
      BY <2>1, <2>2, <2>3, <2>4
    <3> QED
      BY <2>4, <3>1, <1>4
  <2>5. CASE l < 0 /\ r > 0
    BY <2>1, <2>2, <2>5, <1>4
  <2>6. CASE l >= 0 /\ r < 0
    BY <2>1, <2>3, <2>6, <1>4
  <2>7. CASE l >= 0 /\ r > 0
    BY <2>1, <2>7, <1>4
  <2> QED
    BY <2>4, <2>5, <2>6, <2>7, <1>1, <1>4
<1>9. Quotient(l, r) \in MinInt..MaxInt
  <2>1. CASE l * r < 0
    BY <1>2, <1>4, <1>5, <1>6, <2>1
  <2>2. CASE ~(l * r < 0)
    <3>1. q # -MinInt
      <4>1. SUFFICES ASSUME q = -MinInt PROVE FALSE
        OBVIOUS
      <4>2. a = -MinInt /\ l = MinInt /\ b = 1
        BY <4>1, <1>2, <1>3, <1>4, <1>5
      <4>3. r = 1
        BY <4>2, <1>1, <1>3, <1>4
      <4> QED
        BY <4>2, <4>3, <2>2, <1>4, <1>8
    <3> QED
      BY <3>1, <1>2, <1>4, <1>5, <1>6, <2>2
  <2> QED
    BY <2>1, <2>2
<1>10. r * Quotient(l, r) = IF l < 0 THEN -(b * q) ELSE b * q
  <2>1. \A x, y \in Nat : (-x) * y = -(x * y) /\ x * (-y) = -(x * y) /\ (-x) * (-y) = x * y
    OBVIOUS
  <2>2. CASE l = 0
    <3>1. b * q = 0 /\ q = 0
      BY <1>2, <1>3, <1>5, <2>2
    <3> QED
      BY <3>1, <1>4, <1>6, <2>2
  <2>3. CASE l # 0
    BY <1>1, <1>3, <1>4, <1>5, <1>6, <1>8, <2>1, <2>3
  <2> QED
    BY <2>2, <2>3
<1>11. Remainder(l, r) = IF l < 0 THEN -m ELSE m
  <2>1. b * q \in Int
    BY <1>3, <1>5
  <2> QED
    BY <1>2, <1>4, <1>5, <1>7, <1>10, <2>1
<1> QED
  BY <1>3, <1>4, <1>5, <1>9, <1>11

LEMMA PowerFits ==
  ASSUME NEW l \in MinInt..MaxInt, NEW r \in MinInt..MaxInt
  PROVE  Power(l, r) \in MinInt..MaxInt
<1>1. MinInt \in Int /\ MaxInt \in Int /\ MinInt < -3 /\ MaxInt > 2
  BY WordFacts
<1>2. CASE r = 0
  BY <1>1, <1>2 DEF Power
<1>3. CASE r > 0
  BY <1>1, <1>3 DEF Power, Fits
<1>4. CASE r < 0 /\ l = 0
  BY <1>1, <1>4 DEF Power
<1>5. CASE r < 0 /\ l \in {1, -1}
  BY <1>1, <1>5 DEF Power
<1>6. CASE r < 0 /\ l \notin {0, 1, -1}
  BY <1>1, <1>6 DEF Power
<1> QED
  BY <1>1, <1>2, <1>3, <1>4, <1>5, <1>6

\* A floor is not farther from 0 than what is divided.
LEMMA ShiftRightFits ==
  ASSUME NEW n \in MinInt..MaxInt, NEW k \in Nat
  PROVE  ShiftRight(n, k) \in MinInt..MaxInt
<1> DEFINE P == Pow2[k]
           q == n \div P
           m == n % P
<1>1. P \in Nat \ {0}
  BY Pow2Facts
<1>2. /\ MinInt \in Int /\ MaxInt \in Int /\ MinInt < -3 /\ MaxInt > 2 /\ n \in Int
  BY WordFacts
<1> HIDE DEF P
<1>3. q \in Int /\ m \in 0..(P - 1) /\ n = P * q + m
  BY <1>1, <1>2, DivisionLeaves
<1> HIDE DEF q, m
<1>4. CASE q >= 0
  <2>1. P * q >= q
    BY <1>1, <1>3, <1>4
  <2> QED
    BY <1>1, <1>2, <1>3, <1>4, <2>1 DEF ShiftRight, P, q
<1>5. CASE q < 0
  <2>1. -(q + 1) \in Nat /\ -(q + 1) + 1 = -q
    BY <1>3, <1>5
  <2>2. \A x, y \in Nat : (x + 1) * y >= y
    OBVIOUS
  <2>3. P - 1 \in Nat /\ (P - 1) + 1 = P
    BY <1>1
  <2>4. P * (-(q + 1)) >= -(q + 1)
    BY <2>1, <2>2, <2>3
  <2>5. P * (-(q + 1)) = -(P * q) - P
    BY <1>1, <1>3
  <2>6. n < P * q + P
    BY <1>1, <1>3
  <2>7. q \in Int /\ P * q \in Int /\ P \in Int
    BY <1>1, <1>3
  <2>8. n < 0 /\ n <= q
    BY <1>2, <1>5, <2>4, <2>5, <2>6, <2>7
  <2> QED
    BY <1>2, <1>5, <2>7, <2>8 DEF ShiftRight, P, q
<1> QED
  BY <1>3, <1>4, <1>5

-----------------------------------------------------------------------------
(* Bits.                                                                   *)

Places == 0..(Width - 1)
Bits == [Places -> {0, 1}]

\* f[n] is the number of the lowest n bits.
Sums(f, bits) ==
  /\ f \in [Nat -> Nat] /\ f[0] = 0
  /\ \A n \in Places : f[n + 1] = f[n] + bits[n] * Pow2[n]

LEMMA BitSums ==
  ASSUME NEW bits \in Bits
  PROVE  \E f : Sums(f, bits) /\ FromBits(bits) = Wrap(f[Width])
<1> DEFINE next(n, v) == IF n \in Places THEN v + bits[n] * Pow2[n] ELSE 0
           step == [p \in Nat \X Nat |-> next(p[1], p[2])]
<1>1. /\ Width \in Nat /\ \A n \in Places : n \in Nat
  BY WordFacts DEF Places
<1>2. \A n \in Nat, v \in Nat : next(n, v) \in Nat
  <2>1. ASSUME NEW n \in Places, NEW v \in Nat PROVE v + bits[n] * Pow2[n] \in Nat
    <3>1. bits[n] \in Nat /\ Pow2[n] \in Nat
      BY <1>1, Pow2Facts DEF Bits
    <3> QED
      BY <3>1
  <2> QED
    BY <2>1
<1>3. \A n, v \in Nat : step[<<n, v>>] = next(n, v)
  OBVIOUS
<1>4. IsStep(Nat, step)
  <2> HIDE DEF next
  <2> QED
    BY <1>2 DEF IsStep
<1> HIDE DEF step
<1>5. PICK f : CountsUp(f, Nat, 0, step)
  BY <1>4, CountingExists
<1>6. f \in [Nat -> Nat] /\ f[0] = 0 /\ \A n \in Nat : f[n + 1] = next(n, f[n])
  BY <1>3, <1>5 DEF CountsUp
<1>7. Sums(f, bits)
  BY <1>1, <1>6 DEF Sums
<1> DEFINE g == [n \in 0..Width |-> f[n]]
           Def(h) == h = [n \in 0..Width |-> IF n = 0 THEN 0
                                             ELSE h[n - 1] + bits[n - 1] * Pow2[n - 1]]
<1>8. Def(g)
  <2>1. ASSUME NEW n \in 0..Width
        PROVE  g[n] = IF n = 0 THEN 0 ELSE g[n - 1] + bits[n - 1] * Pow2[n - 1]
    <3>1. CASE n = 0
      BY <3>1, <1>1, <1>6
    <3>2. CASE n # 0
      <4>1. n - 1 \in Places /\ n - 1 \in 0..Width /\ n - 1 \in Nat /\ (n - 1) + 1 = n
        BY <3>2, <1>1 DEF Places
      <4>2. f[n] = f[n - 1] + bits[n - 1] * Pow2[n - 1]
        BY <4>1, <1>6
      <4> QED
        BY <3>2, <4>1, <4>2
    <3> QED
      BY <3>1, <3>2
  <2>2. g = [n \in 0..Width |-> g[n]]
    OBVIOUS
  <2> HIDE DEF g
  <2> QED
    BY <2>1, <2>2
<1> DEFINE c == CHOOSE h : Def(h)
<1>9. Def(c)
  <2> HIDE DEF Def, g
  <2> QED
    BY <1>8
<1>10. FromBits(bits) = Wrap(c[Width])
  BY DEF FromBits
<1>11. c[Width] = f[Width]
  <2> DEFINE T == {n \in Nat : n \in 0..Width => c[n] = f[n]}
  <2> HIDE DEF c
  <2>1. 0 \in T
    BY <1>1, <1>6, <1>9
  <2>2. ASSUME NEW n \in Nat, n \in T PROVE n + 1 \in T
    <3>1. SUFFICES ASSUME n + 1 \in 0..Width PROVE c[n + 1] = f[n + 1]
      OBVIOUS
    <3>2. n \in Places /\ n \in 0..Width /\ n + 1 # 0 /\ (n + 1) - 1 = n
      BY <3>1, <1>1 DEF Places
    <3>3. c[n + 1] = c[n] + bits[n] * Pow2[n]
      BY <1>9, <3>1, <3>2
    <3>4. c[n] = f[n]
      BY <2>2, <3>2
    <3> QED
      BY <1>6, <3>2, <3>3, <3>4
  <2> HIDE DEF T
  <2>3. \A n \in Nat : n \in T
    BY <2>1, <2>2, SetInduction
  <2>4. Width \in 0..Width
    BY <1>1
  <2> QED
    BY <1>1, <2>3, <2>4 DEF T
<1> QED
  BY <1>7, <1>10, <1>11

LEMMA FromBitsFits ==
  ASSUME NEW bits \in Bits
  PROVE  FromBits(bits) \in MinInt..MaxInt
<1>1. PICK f : Sums(f, bits) /\ FromBits(bits) = Wrap(f[Width])
  BY BitSums
<1>2. f[Width] \in Int
  BY <1>1, WordFacts DEF Sums
<1> QED
  BY <1>1, <1>2, WrapFacts

LEMMA BitIsABit ==
  ASSUME NEW n \in Int, NEW k \in Nat
  PROVE  Bit(n, k) \in {0, 1}
<1>1. Pow2[Width] \in Nat \ {0} /\ Pow2[k] \in Nat \ {0}
  BY WordFacts, Pow2Facts
<1>2. n % Pow2[Width] \in Int
  BY <1>1, DivisionLeaves
<1>3. (n % Pow2[Width]) \div Pow2[k] \in Int
  BY <1>1, <1>2, DivisionLeaves
<1>4. \A x \in Int : x % 2 \in {0, 1}
  OBVIOUS
<1> QED
  BY <1>3, <1>4 DEF Bit

LEMMA BitOperators ==
  ASSUME NEW l \in Int, NEW r \in Int
  PROVE  /\ AndBits(l, r) \in MinInt..MaxInt
         /\ XorBits(l, r) \in MinInt..MaxInt
         /\ OrBits(l, r) \in MinInt..MaxInt
<1>1. \A k \in Places : Bit(l, k) \in {0, 1} /\ Bit(r, k) \in {0, 1}
  <2>1. \A k \in Places : k \in Nat
    BY WordFacts DEF Places
  <2> QED
    BY <2>1, BitIsABit
<1>2. [k \in Places |-> Bit(l, k) * Bit(r, k)] \in Bits
  <2>1. \A x, y \in {0, 1} : x * y \in {0, 1}
    OBVIOUS
  <2> QED
    BY <1>1, <2>1 DEF Bits
<1>3. [k \in Places |-> (Bit(l, k) + Bit(r, k)) % 2] \in Bits
  <2>1. \A x, y \in {0, 1} : (x + y) % 2 \in {0, 1}
    OBVIOUS
  <2> QED
    BY <1>1, <2>1 DEF Bits
<1>4. [k \in Places |-> IF Bit(l, k) + Bit(r, k) > 0 THEN 1 ELSE 0] \in Bits
  BY DEF Bits
<1> QED
  BY <1>2, <1>3, <1>4, FromBitsFits DEF AndBits, XorBits, OrBits, Places

-----------------------------------------------------------------------------
(* Values.                                                                 *)

Chars == ToSet(Alphabet)
Strings == Seq(Chars)

LEMMA DigitsFacts ==
  /\ Len(Digits) = 10 /\ DOMAIN Digits = 1..10
  /\ \A i \in 1..10 : Digits[i] # "-"
  /\ \A i, j \in 1..10 : Digits[i] = Digits[j] => i = j
BY DEF Digits

LEMMA AlphabetFacts ==
  /\ \A i \in 1..10 : Digits[i] \in Chars
  /\ {"-", ".", "T", "F"} \subseteq Chars
<1>1. DOMAIN Alphabet = 1..15
  BY DEF Alphabet
<1>2. \A i \in 1..10 : Digits[i] = Alphabet[i + 2]
  BY DEF Alphabet, Digits
<1>3. Alphabet[1] = "-" /\ Alphabet[2] = "." /\ Alphabet[13] = "F" /\ Alphabet[14] = "T"
  BY DEF Alphabet
<1> QED
  BY <1>1, <1>2, <1>3 DEF Chars, ToSet

LEMMA ValueFacts ==
  ASSUME NEW v \in Value
  PROVE  /\ v.type \in {"bool", "int", "float", "string", "list"}
         /\ v.type = "bool" => v.val \in BOOLEAN
         /\ v.type = "int" => v.val \in MinInt..MaxInt
         /\ v.type = "string" => v.val \in Strings
         /\ v.type = "list" => v.val \in Lists
         /\ v.type = "float" => v = FloatV
         /\ v = [type |-> v.type, val |-> v.val]
<1> DEFINE Bools == [type : {"bool"}, val : BOOLEAN]
           Ints == [type : {"int"}, val : MinInt..MaxInt]
           Texts == [type : {"string"}, val : Strings]
           Refs == [type : {"list"}, val : Lists]
<1>1. v \in Bools \/ v \in Ints \/ v = FloatV \/ v \in Texts \/ v \in Refs
  BY DEF Value, Literal, Strings, Chars
<1>2. CASE v \in Bools
  BY <1>2
<1>3. CASE v \in Ints
  BY <1>3
<1>4. CASE v = FloatV
  BY <1>4 DEF FloatV
<1>5. CASE v \in Texts
  BY <1>5
<1>6. CASE v \in Refs
  BY <1>6
<1> QED
  BY <1>1, <1>2, <1>3, <1>4, <1>5, <1>6

LEMMA BoolIsValue == ASSUME NEW b \in BOOLEAN PROVE BoolV(b) \in Value
BY DEF BoolV, Value, Literal

LEMMA IntIsValue == ASSUME NEW n \in MinInt..MaxInt PROVE IntV(n) \in Value
BY DEF IntV, Value, Literal

LEMMA FloatIsValue == FloatV \in Value
BY DEF Value, Literal

LEMMA StringIsValue == ASSUME NEW s \in Strings PROVE StrV(s) \in Value
BY DEF StrV, Value, Literal, Strings, Chars

LEMMA ListIsValue == ASSUME NEW l \in Lists PROVE ListV(l) \in Value
BY DEF ListV, Value

Ends == {"thrown", "trap", "wild", "runaway"}
Outcome(out) == (\E v \in Value : out = Ok(v)) \/ (\E h \in Ends : out = Fail(h))

LEMMA OutcomeFacts ==
  ASSUME NEW out, Outcome(out)
  PROVE  /\ out.kind \in {"value"} \cup Ends
         /\ out.kind = "value" => out.value \in Value
BY DEF Outcome, Ok, Fail, Ends

-----------------------------------------------------------------------------
(* The operators give values of the machine.                               *)

LEMMA IntArithOutcome ==
  ASSUME NEW l \in MinInt..MaxInt, NEW r \in MinInt..MaxInt, NEW op \in BinOps
  PROVE  Outcome(IntArith(op, l, r))
<1>1. l \in Int /\ r \in Int
  BY WordFacts
<1>2. l + r \in Int /\ l - r \in Int /\ l * r \in Int
  BY <1>1
<1>3. r % Width \in Nat /\ Pow2[r % Width] \in Nat
  <2>1. Width \in Nat \ {0}
    BY EvaluatorAssumption
  <2>2. r % Width \in 0..(Width - 1)
    BY <1>1, <2>1, DivisionLeaves
  <2> QED
    BY <2>2, <2>1, Pow2Facts
<1>4. l * Pow2[r % Width] \in Int
  BY <1>1, <1>3
<1> DEFINE out == IntArith(op, l, r)
           IsInt(o) == \E n \in MinInt..MaxInt : o = Ok(IntV(n))
<1>5. \A o : IsInt(o) => Outcome(o)
  BY IntIsValue DEF Outcome
<1>6. CASE op = "Add"
  BY <1>2, <1>5, <1>6, WrapFacts DEF IntArith
<1>7. CASE op = "Sub"
  BY <1>2, <1>5, <1>7, WrapFacts DEF IntArith
<1>8. CASE op = "Mult"
  BY <1>2, <1>5, <1>8, WrapFacts DEF IntArith
<1>9. CASE op = "Div"
  BY <1>9, FloatIsValue DEF IntArith, Outcome
<1>10. CASE op \in {"Mod", "FloorDiv"} /\ Traps(l, r)
  BY <1>10 DEF IntArith, Outcome, Ends
<1>11. CASE op = "Mod" /\ ~Traps(l, r)
  BY <1>5, <1>11, QuotientFits DEF IntArith
<1>12. CASE op = "FloorDiv" /\ ~Traps(l, r)
  BY <1>5, <1>12, QuotientFits DEF IntArith
<1>13. CASE op = "Pow"
  BY <1>5, <1>13, PowerFits DEF IntArith
<1>14. CASE op = "LShift"
  BY <1>4, <1>5, <1>14, WrapFacts DEF IntArith
<1>15. CASE op = "RShift"
  BY <1>3, <1>5, <1>15, ShiftRightFits DEF IntArith
<1>16. CASE op = "BitOr"
  BY <1>1, <1>5, <1>16, BitOperators DEF IntArith
<1>17. CASE op = "BitXor"
  BY <1>1, <1>5, <1>17, BitOperators DEF IntArith
<1>18. CASE op = "BitAnd"
  BY <1>1, <1>5, <1>18, BitOperators DEF IntArith
<1> QED
  BY <1>6, <1>7, <1>8, <1>9, <1>10, <1>11, <1>12, <1>13, <1>14, <1>15, <1>16, <1>17,
     <1>18 DEF BinOps

LEMMA BoolArithOutcome ==
  ASSUME NEW l \in BOOLEAN, NEW r \in BOOLEAN, NEW op \in BinOps
  PROVE  Outcome(BoolArith(op, l, r))
<1>1. \A n \in {-1, 0, 1, 2} : n \in MinInt..MaxInt
  BY WordFacts
<1> DEFINE IsInt(o) == \E n \in {-1, 0, 1, 2} : o = Ok(IntV(n))
           one(b) == IF b THEN 1 ELSE 0
<1>2. \A o : IsInt(o) => Outcome(o)
  BY <1>1, IntIsValue DEF Outcome
<1>3. /\ one(l) + one(r) \in {-1, 0, 1, 2} /\ one(l) - one(r) \in {-1, 0, 1, 2}
      /\ one(l /\ r) \in {-1, 0, 1, 2}
  OBVIOUS
<1>4. CASE op = "Add"
  BY <1>2, <1>3, <1>4 DEF BoolArith
<1>5. CASE op = "Sub"
  BY <1>2, <1>3, <1>5 DEF BoolArith
<1>6. CASE op \in {"Mult", "Mod", "Pow"}
  BY <1>2, <1>3, <1>6 DEF BoolArith
<1>7. CASE op \notin {"Add", "Sub", "Mult", "Mod", "Pow"}
  BY <1>7 DEF BoolArith, Outcome, Ends
<1> QED
  BY <1>4, <1>5, <1>6, <1>7

\* A string repeated: n copies, one after the other.
Copies(h, S, s, times) ==
  /\ h[0] = <<>> /\ \A n \in 0..(times - 1) : h[n + 1] = h[n] \o s
  /\ \A n \in 0..times : h[n] \in Seq(S)

LEMMA RepeatSteps ==
  ASSUME NEW S, NEW s \in Seq(S), NEW times \in Nat
  PROVE  \E h : Copies(h, S, s, times) /\ Repeat(s, times) = h[times]
<1> DEFINE step == [p \in Nat \X Seq(S) |-> p[2] \o s]
           Def(h) == h = [n \in 0..times |-> IF n = 0 THEN <<>> ELSE h[n - 1] \o s]
<1>1. IsStep(Seq(S), step)
  <2>1. \A v \in Seq(S) : v \o s \in Seq(S)
    OBVIOUS
  <2> QED
    BY <2>1 DEF IsStep
<1>2. \A n \in Nat, v \in Seq(S) : step[<<n, v>>] = v \o s
  OBVIOUS
<1>3. <<>> \in Seq(S)
  OBVIOUS
<1> HIDE DEF step
<1>4. PICK g : IsCounted(g, times, <<>>, step)
  BY <1>1, <1>3, CountedExists
<1>5. \A n \in 0..times : g[n] \in Seq(S)
  BY <1>1, <1>3, <1>4, CountedSteps
<1>6. Def(g)
  <2>1. \A n \in 0..times : n # 0 =>
          n - 1 \in Nat /\ step[<<n - 1, g[n - 1]>>] = g[n - 1] \o s
    <3>1. \A n \in 0..times : n # 0 => n - 1 \in Nat /\ n - 1 \in 0..times
      OBVIOUS
    <3> QED
      BY <1>2, <1>5, <3>1
  <2>2. g = [n \in 0..times |-> IF n = 0 THEN <<>> ELSE step[<<n - 1, g[n - 1]>>]]
    BY <1>4 DEF IsCounted
  <2> QED
    BY <2>1, <2>2
<1> DEFINE c == CHOOSE h : Def(h)
<1>7. Def(c)
  <2> HIDE DEF Def
  <2> QED
    BY <1>6
<1>8. Repeat(s, times) = c[times]
  BY DEF Repeat
<1> HIDE DEF c
<1>9. c[0] = <<>>
  BY <1>7
<1>10. ASSUME NEW n \in 0..(times - 1) PROVE c[n + 1] = c[n] \o s
  <2>1. n + 1 \in 0..times /\ n + 1 # 0 /\ (n + 1) - 1 = n
    OBVIOUS
  <2> QED
    BY <1>7, <2>1
<1>11. \A n \in 0..times : c[n] \in Seq(S)
  <2> DEFINE T == {n \in Nat : n \in 0..times => c[n] \in Seq(S)}
  <2>1. 0 \in T
    BY <1>3, <1>9
  <2>2. ASSUME NEW n \in Nat, n \in T PROVE n + 1 \in T
    <3>1. SUFFICES ASSUME n + 1 \in 0..times PROVE c[n + 1] \in Seq(S)
      OBVIOUS
    <3>2. n \in 0..(times - 1) /\ n \in 0..times
      BY <3>1
    <3>3. c[n] \in Seq(S) /\ c[n + 1] = c[n] \o s
      BY <1>10, <2>2, <3>2
    <3>4. \A t \in Seq(S) : t \o s \in Seq(S)
      OBVIOUS
    <3> QED
      BY <3>3, <3>4
  <2> HIDE DEF T
  <2>3. \A n \in Nat : n \in T
    BY <2>1, <2>2, SetInduction
  <2> QED
    BY <2>3 DEF T
<1> QED
  BY <1>8, <1>9, <1>10, <1>11 DEF Copies

LEMMA RepeatIsString ==
  ASSUME NEW S, NEW s \in Seq(S), NEW times \in Nat
  PROVE  Repeat(s, times) \in Seq(S)
<1>1. PICK h : Copies(h, S, s, times) /\ Repeat(s, times) = h[times]
  BY RepeatSteps
<1>2. times \in 0..times
  OBVIOUS
<1> QED
  BY <1>1, <1>2 DEF Copies

LEMMA StringArithOutcome ==
  ASSUME NEW l \in Strings, NEW r \in Value, NEW op \in BinOps
  PROVE  Outcome(StringArith(op, l, r))
<1>1. CASE op = "Add" /\ r.type = "string"
  <2>1. r.val \in Strings
    BY <1>1, ValueFacts
  <2>2. l \o r.val \in Strings
    BY <2>1 DEF Strings
  <2> QED
    BY <1>1, <2>2, StringIsValue DEF StringArith, Outcome
<1>2. CASE op = "Add" /\ r.type # "string"
  BY <1>2 DEF StringArith, Outcome, Ends
<1>3. CASE op = "Mult" /\ r.type = "int" /\ r.val < 0
  BY <1>3 DEF StringArith, Outcome, Ends
<1>4. CASE op = "Mult" /\ r.type = "int" /\ ~(r.val < 0)
  <2>1. r.val \in Nat
    BY <1>4, ValueFacts, WordFacts
  <2>2. Repeat(l, r.val) \in Strings
    BY <2>1, RepeatIsString DEF Strings
  <2> QED
    BY <1>4, <2>2, StringIsValue DEF StringArith, Outcome
<1>5. CASE op # "Add" /\ ~(op = "Mult" /\ r.type = "int")
  BY <1>5 DEF StringArith, Outcome, Ends
<1> QED
  BY <1>1, <1>2, <1>3, <1>4, <1>5

LEMMA BinOpOutcome ==
  ASSUME NEW l \in Value, NEW r \in Value, NEW op \in BinOps
  PROVE  Outcome(BinOp(op, l, r))
<1>1. CASE l.type # r.type /\ l.type # "string"
  BY <1>1 DEF BinOp, Outcome, Ends
<1>2. CASE l.type = "string"
  BY <1>2, ValueFacts, StringArithOutcome DEF BinOp
<1>3. CASE l.type = r.type /\ l.type = "bool"
  BY <1>3, ValueFacts, BoolArithOutcome DEF BinOp
<1>4. CASE l.type = r.type /\ l.type = "int"
  BY <1>4, ValueFacts, IntArithOutcome DEF BinOp
<1>5. CASE l.type = r.type /\ l.type = "float"
  BY <1>5, FloatIsValue DEF BinOp, FloatArith, Outcome, Ends
<1>6. CASE l.type = r.type /\ l.type = "list"
  BY <1>6 DEF BinOp, Outcome, Ends
<1> QED
  BY <1>1, <1>2, <1>3, <1>4, <1>5, <1>6, ValueFacts

LEMMA UnaryOpOutcome ==
  ASSUME NEW v \in Value, NEW op
  PROVE  Outcome(UnaryOp(op, v))
<1>1. CASE op = "Not" /\ v.type = "bool"
  BY <1>1, ValueFacts, BoolIsValue DEF UnaryOp, Outcome
<1>2. CASE op = "USub" /\ v.type = "int"
  <2>1. -v.val \in Int
    BY <1>2, ValueFacts, WordFacts
  <2>2. Wrap(-v.val) \in MinInt..MaxInt
    BY <2>1, WrapFacts
  <2> QED
    BY <1>2, <2>2, IntIsValue DEF UnaryOp, Outcome
<1>3. CASE op = "USub" /\ v.type = "float"
  BY <1>3, FloatIsValue DEF UnaryOp, Outcome
<1>4. CASE /\ ~(op = "Not" /\ v.type = "bool")
           /\ ~(op = "USub" /\ v.type \in {"int", "float"})
  BY <1>4 DEF UnaryOp, Outcome, Ends
<1> QED
  BY <1>1, <1>2, <1>3, <1>4

LEMMA BoolOpOutcome ==
  ASSUME NEW l \in Value, NEW r \in Value, NEW op
  PROVE  Outcome(BoolOp(op, l, r))
<1>1. CASE l.type = "bool" /\ r.type = "bool"
  <2>1. l.val \in BOOLEAN /\ r.val \in BOOLEAN
    BY <1>1, ValueFacts
  <2>2. (IF op = "And" THEN l.val /\ r.val ELSE l.val \/ r.val) \in BOOLEAN
    BY <2>1
  <2> QED
    BY <1>1, <2>2, BoolIsValue DEF BoolOp, Outcome
<1>2. CASE ~(l.type = "bool" /\ r.type = "bool")
  BY <1>2 DEF BoolOp, Outcome, Ends
<1> QED
  BY <1>1, <1>2

LEMMA LessIsBoolean ==
  ASSUME NEW l \in Value, NEW r \in Value, l.type = r.type,
         l.type \in {"bool", "int", "string"}
  PROVE  Less(l, r) \in BOOLEAN
<1>1. CASE l.type = "bool"
  BY <1>1, ValueFacts DEF Less
<1>2. CASE l.type = "int"
  BY <1>2 DEF Less
<1>3. CASE l.type = "string"
  <2>1. Below(l.val, r.val) \in BOOLEAN
    BY DEF Below
  <2> QED
    BY <1>3, <2>1 DEF Less
<1> QED
  BY <1>1, <1>2, <1>3

LEMMA CompareOutcome ==
  ASSUME NEW l \in Value, NEW r \in Value, NEW op \in CmpOps, NEW out \in Compare(op, l, r)
  PROVE  Outcome(out)
<1>8. \A b \in BOOLEAN : Outcome(Ok(BoolV(b)))
  BY BoolIsValue DEF Outcome
<1>9. Outcome(Fail("thrown"))
  BY DEF Outcome, Ends
<1>1. CASE l.type # r.type
  BY <1>8, <1>1 DEF Compare
<1>2. CASE l.type = r.type /\ op = "Is"
  BY <1>9, <1>2 DEF Compare
<1>3. CASE l.type = r.type /\ op # "Is" /\ l.type = "float"
  BY <1>8, <1>3 DEF Compare
<1>4. CASE l.type = r.type /\ l.type = "list" /\ op \notin {"Is", "Eq", "NotEq"}
  BY <1>9, <1>4 DEF Compare
<1>5. CASE l.type = r.type /\ op = "Eq" /\ l.type # "float"
  <2>1. out = Ok(BoolV(l = r))
    BY <1>5 DEF Compare
  <2> QED
    BY <1>8, <2>1
<1>6. CASE l.type = r.type /\ op = "NotEq" /\ l.type # "float"
  <2>1. out = Ok(BoolV(l # r))
    BY <1>6 DEF Compare
  <2> QED
    BY <1>8, <2>1
<1>7. CASE l.type = r.type /\ l.type \notin {"float", "list"} /\ op \in {"Lt", "LtE", "Gt", "GtE"}
  <2>1. Less(l, r) \in BOOLEAN /\ Less(r, l) \in BOOLEAN
    BY <1>7, LessIsBoolean, ValueFacts
  <2>2. CASE op = "Lt"
    <3>1. out = Ok(BoolV(Less(l, r)))
      BY <1>7, <2>2 DEF Compare
    <3> QED
      BY <1>8, <2>1, <3>1
  <2>3. CASE op = "LtE"
    <3>1. out = Ok(BoolV(~Less(r, l)))
      BY <1>7, <2>3 DEF Compare
    <3> QED
      BY <1>8, <2>1, <3>1
  <2>4. CASE op = "Gt"
    <3>1. out = Ok(BoolV(Less(r, l)))
      BY <1>7, <2>4 DEF Compare
    <3> QED
      BY <1>8, <2>1, <3>1
  <2>5. CASE op = "GtE"
    <3>1. out = Ok(BoolV(~Less(l, r)))
      BY <1>7, <2>5 DEF Compare
    <3> QED
      BY <1>8, <2>1, <3>1
  <2> QED
    BY <1>7, <2>2, <2>3, <2>4, <2>5
<1> QED
  BY <1>1, <1>2, <1>3, <1>4, <1>5, <1>6, <1>7 DEF CmpOps

-----------------------------------------------------------------------------
(* Numbers as texts.                                                       *)

DigitChars == {Digits[i] : i \in 1..10}

LEMMA NumeralRecursion ==
  ASSUME NEW n \in Nat
  PROVE  /\ Numeral[n] \in Seq(DigitChars)
         /\ Numeral[n] = IF n < 10 THEN <<Digits[n + 1]>>
                         ELSE Append(Numeral[n \div 10], Digits[(n % 10) + 1])
<1> DEFINE Words == Seq(DigitChars)
           Stop == 0..9
           start == [m \in Nat |-> IF m < 10 THEN <<Digits[m + 1]>> ELSE <<>>]
           prev == [m \in Nat |-> m \div 10]
           step == [p \in Nat \X Words |-> Append(p[2], Digits[(p[1] % 10) + 1])]
           Def(f) == f = [m \in Nat |-> IF m < 10 THEN <<Digits[m + 1]>>
                                        ELSE Append(f[m \div 10], Digits[(m % 10) + 1])]
<1>1. \A m \in Nat : (m < 10 => m + 1 \in 1..10) /\ (m % 10) + 1 \in 1..10
  OBVIOUS
<1>2. \A m \in Nat : m \div 10 \in Nat /\ (m >= 10 => m \div 10 < m)
  OBVIOUS
<1>3. start \in [Nat -> Words]
  <2>1. \A m \in Nat : m < 10 => <<Digits[m + 1]>> \in Words
    <3>1. \A d \in DigitChars : <<d>> \in Words
      OBVIOUS
    <3> QED
      BY <1>1, <3>1 DEF DigitChars
  <2>2. <<>> \in Words
    OBVIOUS
  <2> HIDE DEF Words
  <2> QED
    BY <2>1, <2>2
<1>4. prev \in [Nat -> Nat]
  BY <1>2
<1>5. step \in [Nat \X Words -> Words]
  <2>1. \A t \in Words, d \in DigitChars : Append(t, d) \in Words
    OBVIOUS
  <2>2. \A m \in Nat, t \in Words : Append(t, Digits[(m % 10) + 1]) \in Words
    BY <1>1, <2>1 DEF DigitChars
  <2> HIDE DEF Words
  <2> QED
    BY <2>2
<1>6. \A m \in Nat \ Stop : prev[m] < m
  BY <1>2
<1>7. \A m \in Nat : /\ prev[m] = m \div 10 /\ (m \in Stop <=> m < 10)
                     /\ m < 10 => start[m] = <<Digits[m + 1]>>
  OBVIOUS
<1>8. \A m \in Nat, t \in Words : step[<<m, t>>] = Append(t, Digits[(m % 10) + 1])
  OBVIOUS
<1>9. Stop \in SUBSET Nat
  OBVIOUS
<1> HIDE DEF Words, Stop, start, prev, step
<1>10. IsRecursion(Words, Stop, start, prev, step)
  BY <1>3, <1>4, <1>5, <1>6, <1>9 DEF IsRecursion
<1>11. PICK f : IsFunctionOf(f, Words, Stop, start, prev, step)
  BY <1>10, RecursionExists
<1>12. f \in [Nat -> Words]
  BY <1>11 DEF IsFunctionOf
<1>13. ASSUME NEW m \in Nat
       PROVE  f[m] = IF m < 10 THEN <<Digits[m + 1]>>
                     ELSE Append(f[m \div 10], Digits[(m % 10) + 1])
  <2>1. f[m] = IF m \in Stop THEN start[m] ELSE step[<<m, f[prev[m]]>>]
    BY <1>11 DEF IsFunctionOf
  <2>2. prev[m] = m \div 10 /\ f[m \div 10] \in Words
    BY <1>2, <1>7, <1>12
  <2> QED
    BY <1>7, <1>8, <2>1, <2>2
<1>14. Def(f)
  BY <1>12, <1>13
<1>15. Def(Numeral)
  <2>1. Def(CHOOSE g : Def(g))
    <3> HIDE DEF Def
    <3> QED
      BY <1>14
  <2> QED
    BY <2>1 DEF Numeral
<1>16. \A m \in Nat : Numeral[m] = IF m < 10 THEN <<Digits[m + 1]>>
                                   ELSE Append(Numeral[m \div 10], Digits[(m % 10) + 1])
  BY <1>15
<1> DEFINE T == {m \in Nat : Numeral[m] \in Words}
<1>17. ASSUME NEW m \in Nat, \A k \in Nat : k < m => k \in T PROVE m \in T
  <2>1. CASE m < 10
    <3>1. Numeral[m] = <<Digits[m + 1]>>
      BY <1>16, <2>1
    <3>2. start[m] = <<Digits[m + 1]>>
      BY <1>7, <2>1
    <3> QED
      BY <1>3, <3>1, <3>2
  <2>2. CASE ~(m < 10)
    <3>1. Numeral[m \div 10] \in Words /\ m \div 10 \in Nat
      BY <1>2, <1>17, <2>2
    <3>2. Numeral[m] = Append(Numeral[m \div 10], Digits[(m % 10) + 1])
      BY <1>16, <2>2, Zenon
    <3>3. step[<<m, Numeral[m \div 10]>>] = Append(Numeral[m \div 10], Digits[(m % 10) + 1])
      BY <1>8, <3>1
    <3> QED
      BY <1>5, <3>1, <3>2, <3>3
  <2> QED
    BY <2>1, <2>2
<1> HIDE DEF T
<1>18. \A m \in Nat : m \in T
  BY <1>17, StrongInduction
<1> QED
  BY <1>16, <1>18 DEF T, Words

LEMMA DecimalIsString ==
  ASSUME NEW n \in Int
  PROVE  Decimal(n) \in Strings
<1>1. \A m \in Nat : Numeral[m] \in Strings
  <2>1. DigitChars \subseteq Chars
    BY AlphabetFacts DEF DigitChars
  <2>2. Seq(DigitChars) \subseteq Strings
    BY <2>1 DEF Strings
  <2> QED
    BY <2>2, NumeralRecursion
<1>2. CASE n < 0
  <2>1. -n \in Nat
    BY <1>2
  <2>2. Numeral[-n] \in Strings /\ <<"-">> \in Strings
    BY <1>1, <2>1, AlphabetFacts DEF Strings
  <2> QED
    BY <1>2, <2>2 DEF Decimal, Strings
<1>3. CASE ~(n < 0)
  BY <1>1, <1>3 DEF Decimal
<1> QED
  BY <1>2, <1>3

LEMMA DigitOfDigit ==
  ASSUME NEW i \in 1..10
  PROVE  DigitOf(Digits[i]) = i - 1
<1>1. \E n \in DOMAIN Digits : Digits[n] = Digits[i]
  BY DigitsFacts
<1>2. (CHOOSE n \in DOMAIN Digits : Digits[n] = Digits[i]) = i
  BY <1>1, DigitsFacts
<1> QED
  BY <1>2 DEF DigitOf

\* h[n] is the number that the first n digits are.
Reads(h, digits) ==
  /\ h[0] = 0
  /\ \A n \in 0..(Len(digits) - 1) : h[n + 1] = 10 * h[n] + DigitOf(digits[n + 1])
  /\ \A n \in 0..Len(digits) : h[n] \in Nat

LEMMA NumberSteps ==
  ASSUME NEW digits \in Seq(DigitChars)
  PROVE  \E h : Reads(h, digits) /\ NumberOf(digits) = h[Len(digits)]
<1> DEFINE L == Len(digits)
           next(n, v) == IF n < L THEN 10 * v + DigitOf(digits[n + 1]) ELSE 0
           step == [p \in Nat \X Nat |-> next(p[1], p[2])]
           Def(h) == h = [n \in 0..L |-> IF n = 0 THEN 0
                                         ELSE 10 * h[n - 1] + DigitOf(digits[n])]
<1>1. L \in Nat /\ \A n \in 1..L : digits[n] \in DigitChars
  OBVIOUS
<1>2. \A n \in 1..L : DigitOf(digits[n]) \in Nat
  BY <1>1, DigitOfDigit DEF DigitChars
<1>3. IsStep(Nat, step)
  <2>1. ASSUME NEW n \in Nat, NEW v \in Nat PROVE next(n, v) \in Nat
    <3>1. CASE n < L
      <4>1. n + 1 \in 1..L
        BY <1>1, <3>1
      <4> QED
        BY <1>2, <3>1, <4>1
    <3>2. CASE ~(n < L)
      BY <3>2
    <3> QED
      BY <3>1, <3>2
  <2> HIDE DEF next
  <2> QED
    BY <2>1 DEF IsStep
<1>4. \A n, v \in Nat : step[<<n, v>>] = next(n, v)
  OBVIOUS
<1> HIDE DEF step
<1>5. PICK g : IsCounted(g, L, 0, step)
  BY <1>1, <1>3, CountedExists
<1>6. \A n \in 0..L : g[n] \in Nat
  <2>1. 0 \in Nat
    OBVIOUS
  <2> HIDE DEF L
  <2> QED
    BY <2>1, <1>1, <1>3, <1>5, CountedSteps
<1>7. Def(g)
  <2>1. ASSUME NEW n \in 0..L, n # 0
        PROVE  step[<<n - 1, g[n - 1]>>] = 10 * g[n - 1] + DigitOf(digits[n])
    <3>1. n - 1 \in Nat /\ n - 1 \in 0..L /\ n - 1 < L /\ (n - 1) + 1 = n
      BY <1>1, <2>1
    <3>2. step[<<n - 1, g[n - 1]>>] = next(n - 1, g[n - 1])
      BY <1>4, <1>6, <3>1
    <3> QED
      BY <3>1, <3>2
  <2>2. g = [n \in 0..L |-> IF n = 0 THEN 0 ELSE step[<<n - 1, g[n - 1]>>]]
    BY <1>5 DEF IsCounted
  <2> QED
    BY <2>1, <2>2
<1> DEFINE c == CHOOSE h : Def(h)
<1>8. Def(c)
  <2> HIDE DEF Def
  <2> QED
    BY <1>7
<1>9. NumberOf(digits) = c[L]
  BY DEF NumberOf
<1> HIDE DEF c
<1>10. c[0] = 0
  BY <1>1, <1>8
<1>11. ASSUME NEW n \in 0..(L - 1) PROVE c[n + 1] = 10 * c[n] + DigitOf(digits[n + 1])
  <2>1. n + 1 \in 0..L /\ n + 1 # 0 /\ (n + 1) - 1 = n
    BY <1>1
  <2> QED
    BY <1>8, <2>1
<1>12. \A n \in 0..L : c[n] \in Nat
  <2> DEFINE T == {n \in Nat : n \in 0..L => c[n] \in Nat}
  <2>1. 0 \in T
    BY <1>10
  <2>2. ASSUME NEW n \in Nat, n \in T PROVE n + 1 \in T
    <3>1. SUFFICES ASSUME n + 1 \in 0..L PROVE c[n + 1] \in Nat
      OBVIOUS
    <3>2. n \in 0..(L - 1) /\ n \in 0..L /\ n + 1 \in 1..L
      BY <1>1, <3>1
    <3>3. c[n] \in Nat /\ DigitOf(digits[n + 1]) \in Nat
      BY <1>2, <2>2, <3>2
    <3> QED
      BY <1>11, <3>2, <3>3
  <2> HIDE DEF T
  <2>3. \A n \in Nat : n \in T
    BY <2>1, <2>2, SetInduction
  <2> QED
    BY <2>3 DEF T
<1> QED
  BY <1>9, <1>10, <1>11, <1>12 DEF Reads

LEMMA NumberIsNat ==
  ASSUME NEW digits \in Seq(DigitChars)
  PROVE  NumberOf(digits) \in Nat
<1>1. PICK h : Reads(h, digits) /\ NumberOf(digits) = h[Len(digits)]
  BY NumberSteps
<1>2. Len(digits) \in 0..Len(digits)
  OBVIOUS
<1> QED
  BY <1>1, <1>2 DEF Reads

LEMMA IsDigit ==
  ASSUME NEW c
  PROVE  Contains(Digits, c) <=> c \in DigitChars
BY DigitsFacts DEF Contains, DigitChars

\* The digits of a text end somewhere.
DigitsEnd(s, n) ==
  /\ n \in 0..Len(s)
  /\ \A k \in 1..n : s[k] \in DigitChars
  /\ n < Len(s) => s[n + 1] \notin DigitChars

LEMMA DigitsEndSomewhere ==
  ASSUME NEW s \in Strings
  PROVE  \E n : DigitsEnd(s, n)
<1>1. Len(s) \in Nat
  BY DEF Strings
<1> DEFINE T == {n \in Nat : n < Len(s) => s[n + 1] \notin DigitChars}
<1>2. Len(s) \in T /\ T \in SUBSET Nat
  BY <1>1
<1>3. PICK n \in T : \A m \in T : n <= m
  BY <1>2, LeastExists
<1>4. n \in 0..Len(s)
  BY <1>1, <1>2, <1>3
<1>5. \A k \in 1..n : s[k] \in DigitChars
  <2>1. ASSUME NEW k \in 1..n, s[k] \notin DigitChars PROVE FALSE
    <3>1. k - 1 \in Nat /\ (k - 1) + 1 = k /\ ~(n <= k - 1)
      BY <1>4
    <3> QED
      BY <1>3, <2>1, <3>1
  <2> QED
    BY <2>1
<1> QED
  BY <1>3, <1>4, <1>5 DEF DigitsEnd

\* What from_str reads: the sign and the n digits after it.
ReadsTo(s, n) ==
  LET negative == s[1] = "-"
      rest == IF negative THEN Tail(s) ELSE s
      digits == SubSeq(rest, 1, n)
  IN /\ DigitsEnd(rest, n)
     /\ digits \in Seq(DigitChars)
     /\ Leading(s) = IF negative THEN -NumberOf(digits) ELSE NumberOf(digits)

LEMMA LeadingReads ==
  ASSUME NEW s \in Strings, s # <<>>
  PROVE  \E n : ReadsTo(s, n)
<1> DEFINE negative == s[1] = "-"
           rest == IF negative THEN Tail(s) ELSE s
           Stops(n) == /\ \A k \in 1..n : Contains(Digits, rest[k])
                       /\ n < Len(rest) => ~Contains(Digits, rest[n + 1])
           stop == CHOOSE n \in 0..Len(rest) : Stops(n)
<1>1. rest \in Strings
  <2>1. Tail(s) \in Strings
    BY DEF Strings
  <2> QED
    BY <2>1
<1>2. Leading(s) = IF negative THEN -NumberOf(SubSeq(rest, 1, stop))
                   ELSE NumberOf(SubSeq(rest, 1, stop))
  BY DEF Leading
<1> HIDE DEF rest
<1>3. \A n \in 0..Len(rest) : Stops(n) <=> DigitsEnd(rest, n)
  BY IsDigit DEF DigitsEnd
<1>4. \E n \in 0..Len(rest) : Stops(n)
  <2>1. PICK n : DigitsEnd(rest, n)
    BY <1>1, DigitsEndSomewhere
  <2>2. n \in 0..Len(rest)
    BY <2>1 DEF DigitsEnd
  <2> HIDE DEF Stops
  <2> QED
    BY <1>3, <2>1, <2>2
<1>5. stop \in 0..Len(rest) /\ Stops(stop)
  <2> HIDE DEF Stops
  <2> QED
    BY <1>4
<1>6. DigitsEnd(rest, stop)
  <2> HIDE DEF Stops, stop
  <2> QED
    BY <1>3, <1>5
<1> HIDE DEF stop, Stops
<1>7. SubSeq(rest, 1, stop) \in Seq(DigitChars)
  <2>1. rest \in Seq(Chars) /\ stop \in 0..Len(rest) /\ Len(rest) \in Nat
    BY <1>1, <1>5 DEF Strings
  <2>2. SubSeq(rest, 1, stop) = [i \in 1..stop |-> rest[i]]
    BY <2>1
  <2>3. \A i \in 1..stop : rest[i] \in DigitChars
    BY <1>6 DEF DigitsEnd
  <2>4. [i \in 1..stop |-> rest[i]] \in Seq(DigitChars)
    BY <2>1, <2>3
  <2> QED
    BY <2>2, <2>4
<1>8. ReadsTo(s, stop)
  BY <1>2, <1>6, <1>7 DEF rest, ReadsTo
<1> QED
  BY <1>8

LEMMA FromStrFits ==
  ASSUME NEW s \in Strings
  PROVE  FromStr(s) \subseteq MinInt..MaxInt
<1>1. MinInt \in Int /\ MaxInt \in Int /\ MinInt < -3 /\ MaxInt > 2
  BY WordFacts
<1>2. CASE s = <<>>
  BY <1>2 DEF FromStr
<1>3. CASE s # <<>>
  <2> DEFINE n == Leading(s)
  <2>1. n \in Int
    <3>1. PICK k : ReadsTo(s, k)
      BY <1>3, LeadingReads
    <3> DEFINE digits == SubSeq(IF s[1] = "-" THEN Tail(s) ELSE s, 1, k)
    <3>2. digits \in Seq(DigitChars) /\ (n = NumberOf(digits) \/ n = -NumberOf(digits))
      BY <3>1 DEF ReadsTo
    <3>3. NumberOf(digits) \in Nat
      BY <3>2, NumberIsNat
    <3> HIDE DEF digits, n
    <3> QED
      BY <3>2, <3>3
  <2> HIDE DEF n
  <2>2. (CASE Fits(n) -> n [] n < MinInt -> MinInt [] n > MaxInt -> MaxInt) \in MinInt..MaxInt
    BY <1>1, <2>1 DEF Fits
  <2> QED
    BY <1>3, <2>2 DEF FromStr, n
<1> QED
  BY <1>2, <1>3

-----------------------------------------------------------------------------
(* Conversions, elements and the statements.                               *)

LEMMA ToStrOutcome ==
  ASSUME NEW v \in Value, NEW out \in ToStr(v)
  PROVE  Outcome(out)
<1>1. MinInt \in Int /\ MaxInt \in Int
  BY WordFacts
<1>2. CASE v.type = "string"
  BY <1>2 DEF ToStr, Outcome
<1>3. CASE v.type = "int"
  <2>1. Decimal(v.val) \in Strings
    BY <1>1, <1>3, ValueFacts, DecimalIsString
  <2>2. StrV(Decimal(v.val)) \in Value
    BY <2>1, StringIsValue
  <2>3. out = Ok(StrV(Decimal(v.val)))
    BY <1>3 DEF ToStr
  <2> QED
    BY <2>2, <2>3 DEF Outcome
<1>4. CASE v.type = "float"
  <2>1. PICK n \in MinInt..MaxInt : out = Ok(StrV(Append(Decimal(n), ".")))
    BY <1>4 DEF ToStr
  <2>2. Decimal(n) \in Strings
    BY <1>1, DecimalIsString
  <2>3. Append(Decimal(n), ".") \in Strings
    BY <2>2, AlphabetFacts DEF Strings
  <2>4. StrV(Append(Decimal(n), ".")) \in Value
    BY <2>3, StringIsValue
  <2> QED
    BY <2>1, <2>4 DEF Outcome
<1>5. CASE v.type = "bool"
  <2>1. <<"T">> \in Strings /\ <<"F">> \in Strings
    BY AlphabetFacts DEF Strings
  <2>2. StrV(<<"T">>) \in Value /\ StrV(<<"F">>) \in Value
    BY <2>1, StringIsValue
  <2>3. out = Ok(StrV(<<"T">>)) \/ out = Ok(StrV(<<"F">>))
    BY <1>5 DEF ToStr
  <2> QED
    BY <2>2, <2>3 DEF Outcome
<1>6. CASE v.type = "list"
  BY <1>6 DEF ToStr, Outcome, Ends
<1> QED
  BY <1>2, <1>3, <1>4, <1>5, <1>6, ValueFacts

LEMMA ToIntOutcome ==
  ASSUME NEW v \in Value, NEW out \in ToInt(v)
  PROVE  Outcome(out)
<1>1. MinInt \in Int /\ MaxInt \in Int /\ MinInt < -3 /\ MaxInt > 2
  BY WordFacts
<1>2. CASE v.type \in {"string", "float"}
  <2>1. PICK n \in MinInt..MaxInt : out = Ok(IntV(n))
    <3>1. CASE v.type = "string"
      <4>1. PICK n \in FromStr(v.val) : out = Ok(IntV(n))
        BY <3>1 DEF ToInt
      <4>2. n \in MinInt..MaxInt
        BY <3>1, ValueFacts, FromStrFits
      <4> QED
        BY <4>1, <4>2
    <3>2. CASE v.type = "float"
      BY <3>2 DEF ToInt
    <3> QED
      BY <1>2, <3>1, <3>2
  <2> QED
    BY <2>1, IntIsValue DEF Outcome
<1>3. CASE v.type = "int"
  BY <1>3 DEF ToInt, Outcome
<1>4. CASE v.type = "bool"
  <2>1. 0 \in MinInt..MaxInt /\ 1 \in MinInt..MaxInt
    BY <1>1
  <2>2. IntV(0) \in Value /\ IntV(1) \in Value
    BY <2>1, IntIsValue
  <2>3. out = Ok(IntV(0)) \/ out = Ok(IntV(1))
    BY <1>4 DEF ToInt
  <2> QED
    BY <2>2, <2>3 DEF Outcome
<1>5. CASE v.type = "list"
  BY <1>5 DEF ToInt, Outcome, Ends
<1> QED
  BY <1>2, <1>3, <1>4, <1>5, ValueFacts

LEMMA ToFloatOutcome ==
  ASSUME NEW v \in Value
  PROVE  Outcome(ToFloat(v))
BY FloatIsValue DEF ToFloat, Outcome, Ends

LEMMA ElementOutcome ==
  ASSUME NEW s \in Seq(Value), NEW k \in Int, NEW out \in Element(s, k)
  PROVE  Outcome(out)
<1>1. Len(s) \in Nat /\ DOMAIN s = 1..Len(s) /\ \A n \in 1..Len(s) : s[n] \in Value
  OBVIOUS
<1>2. CASE Abs(k) >= Len(s)
  BY <1>2 DEF Element, Outcome, Ends
<1>3. CASE 0 <= k /\ k < Len(s)
  <2>1. ~(Abs(k) >= Len(s))
    BY <1>1, <1>3 DEF Abs
  <2>2. out = Ok(s[k + 1]) /\ k + 1 \in 1..Len(s)
    BY <1>1, <1>3, <2>1 DEF Element
  <2> QED
    BY <1>1, <2>2 DEF Outcome
<1>4. CASE k < 0 /\ -k < Len(s)
  <2>1. ~(Abs(k) >= Len(s)) /\ ~(0 <= k /\ k < Len(s))
    BY <1>1, <1>4 DEF Abs
  <2>2. out = Fail("thrown") \/ \E n \in DOMAIN s : out = Ok(s[n])
    BY <1>4, <2>1 DEF Element
  <2> QED
    BY <1>1, <2>2 DEF Outcome, Ends
<1> QED
  BY <1>1, <1>2, <1>3, <1>4 DEF Abs

\* The lists hold values as long as what is put in them is one.
LEMMA ElementsKept ==
  ASSUME NEW s \in [Lists -> Seq(Value)], HaveElements(s)
  PROVE  lists' \in [Lists -> Seq(Value)]
BY DEF HaveElements

\* How an operation ends is what the status says.
LEMMA DoneKeeps ==
  ASSUME status = "running", NEW op, NEW args, NEW out, Outcome(out), Done(op, args, out)
  PROVE  /\ status' \in {"running", "thrown", "trap", "wild", "runaway"}
         /\ (status' = "running") = (did' = Nothing \/ did'.out.kind = "value")
<1>1. out.kind \in {"value"} \cup Ends
  BY OutcomeFacts
<1>2. did'.out = out
  BY DEF Done
<1>3. did' # Nothing
  <2>1. DOMAIN did' = {"op", "args", "out"} /\ DOMAIN Nothing = {"op"}
    BY DEF Done, Nothing
  <2>2. "out" \in {"op", "args", "out"} /\ "out" \notin {"op"}
    OBVIOUS
  <2> QED
    BY <2>1, <2>2
<1>4. CASE out.kind = "value"
  BY <1>2, <1>4 DEF Done
<1>5. CASE out.kind # "value"
  <2>1. status' = out.kind /\ status' \in Ends
    BY <1>1, <1>5 DEF Done
  <2>2. status' # "running"
    BY <2>1 DEF Ends
  <2> QED
    BY <1>2, <1>3, <1>5, <2>1, <2>2 DEF Ends
<1> QED
  BY <1>4, <1>5

LEMMA StoreKeeps ==
  ASSUME ETypeOK, status = "running", NEW x \in Names, NEW op, NEW args, NEW out,
         Outcome(out), Store(x, op, args, out)
  PROVE  ETypeOK'
<1>1. env' \in [Names -> Value \cup {Unset}]
  <2>1. CASE out.kind = "value"
    <3>1. out.value \in Value
      BY <2>1, OutcomeFacts
    <3>2. env' = [env EXCEPT ![x] = out.value]
      BY <2>1 DEF Store
    <3> QED
      BY <3>1, <3>2 DEF ETypeOK
  <2>2. CASE out.kind # "value"
    BY <2>2 DEF Store, ETypeOK
  <2> QED
    BY <2>1, <2>2
<1>2. lists' \in [Lists -> Seq(Value)]
  BY ElementsKept DEF Store, ETypeOK
<1>3. Done(op, args, out)
  BY DEF Store
<1> QED
  BY <1>1, <1>2, <1>3, DoneKeeps DEF ETypeOK

LEMMA BoundIsValue ==
  ASSUME ETypeOK, NEW y \in Bound
  PROVE  env[y] \in Value
BY DEF ETypeOK, Bound

LEMMA FailEnds == ASSUME NEW h \in Ends PROVE Outcome(Fail(h))
BY DEF Outcome

LEMMA AddElementKeeps ==
  ASSUME ETypeOK, status = "running", AddElement
  PROVE  ETypeOK'
<1>1. PICK y \in Bound, z \in Bound, op \in {"append"} \cup BinOps :
        /\ UNCHANGED env
        /\ IF IsList(env[y]) /\ op \in {"append", "Add"}
           THEN Added(y, z) /\ Done("extend", <<Contents(env[y]), env[z]>>, Ok(env[z]))
           ELSE UNCHANGED lists /\ Done("extend", <<Contents(env[y]), env[z]>>, Fail("thrown"))
  BY DEF AddElement
<1>2. env[y] \in Value /\ env[z] \in Value
  BY BoundIsValue
<1>3. Outcome(Ok(env[z])) /\ Outcome(Fail("thrown"))
  BY <1>2, FailEnds DEF Outcome, Ends
<1>4. CASE IsList(env[y]) /\ op \in {"append", "Add"}
  <2> DEFINE s == [lists EXCEPT ![env[y].val] = Append(@, env[z])]
  <2>1. env[y].val \in Lists
    BY <1>2, <1>4, ValueFacts DEF IsList
  <2>2. s \in [Lists -> Seq(Value)]
    BY <1>2, <2>1 DEF ETypeOK
  <2>3. HaveElements(s)
    BY <1>1, <1>4 DEF Added
  <2>4. lists' \in [Lists -> Seq(Value)]
    <3> HIDE DEF s
    <3> QED
      BY <2>2, <2>3, ElementsKept
  <2>5. Done("extend", <<Contents(env[y]), env[z]>>, Ok(env[z]))
    BY <1>1, <1>4
  <2> QED
    BY <1>1, <1>3, <2>4, <2>5, DoneKeeps DEF ETypeOK
<1>5. CASE ~(IsList(env[y]) /\ op \in {"append", "Add"})
  <2>1. UNCHANGED lists /\ Done("extend", <<Contents(env[y]), env[z]>>, Fail("thrown"))
    BY <1>1, <1>5
  <2> QED
    BY <1>1, <1>3, <2>1, DoneKeeps DEF ETypeOK
<1> QED
  BY <1>4, <1>5

LEMMA SetElementKeeps ==
  ASSUME ETypeOK, status = "running", SetElement
  PROVE  ETypeOK'
<1> DEFINE args(y, z) == <<Contents(env[y]), env[z]>>
           InList(y, z) == /\ IsList(env[y]) /\ env[z].type = "int"
                           /\ env[z].val + 1 \in DOMAIN lists[env[y].val]
<1>1. PICK y \in Bound, z \in Bound, w \in Bound :
        /\ UNCHANGED env
        /\ IF InList(y, z)
           THEN /\ IsList(env[w]) \/ env[w] \in Kept
                /\ HaveElements([lists EXCEPT ![env[y].val][env[z].val + 1] = env[w]])
                /\ Done("set", args(y, z), Ok(env[w]))
           ELSE UNCHANGED lists /\ Done("set", args(y, z), Fail("thrown"))
  BY DEF SetElement
<1>2. env[y] \in Value /\ env[z] \in Value /\ env[w] \in Value
  BY BoundIsValue
<1>3. Outcome(Ok(env[w])) /\ Outcome(Fail("thrown"))
  BY <1>2, FailEnds DEF Outcome, Ends
<1>4. CASE InList(y, z)
  <2> DEFINE s == [lists EXCEPT ![env[y].val][env[z].val + 1] = env[w]]
  <2>1. env[y].val \in Lists
    BY <1>2, <1>4, ValueFacts DEF IsList
  <2>2. s \in [Lists -> Seq(Value)]
    BY <1>2, <1>4, <2>1 DEF ETypeOK
  <2>3. HaveElements(s)
    BY <1>1, <1>4
  <2>4. lists' \in [Lists -> Seq(Value)]
    <3> HIDE DEF s
    <3> QED
      BY <2>2, <2>3, ElementsKept
  <2>5. Done("set", args(y, z), Ok(env[w]))
    BY <1>1, <1>4
  <2> QED
    BY <1>1, <1>3, <2>4, <2>5, DoneKeeps DEF ETypeOK
<1>5. CASE ~InList(y, z)
  <2>1. UNCHANGED lists /\ Done("set", args(y, z), Fail("thrown"))
    BY <1>1, <1>5
  <2> QED
    BY <1>1, <1>3, <2>1, DoneKeeps DEF ETypeOK
<1> QED
  BY <1>4, <1>5

LEMMA StepKeepsTypes ==
  ASSUME ETypeOK, ENext
  PROVE  ETypeOK'
<1>1. CASE status = "running" /\ (AddElement \/ SetElement)
  BY <1>1, AddElementKeeps, SetElementKeeps
<1>2. ASSUME status = "running", NEW x \in Names,
             \/ AssignConstant(x) \/ AssignName(x) \/ AssignBinOp(x)
             \/ AssignUnaryOp(x) \/ AssignCompare(x) \/ AssignBoolOp(x)
             \/ AssignConversion(x) \/ AssignPrint(x) \/ AssignList(x)
             \/ AssignElement(x)
      PROVE  \E op, args, out : Outcome(out) /\ Store(x, op, args, out)
  <2>1. CASE AssignConstant(x)
    <3>1. PICK c \in Constants : Store(x, "Constant", <<c>>, Ok(c))
      BY <2>1 DEF AssignConstant
    <3>2. Outcome(Ok(c))
      BY EvaluatorAssumption DEF Outcome, Value
    <3> QED
      BY <3>1, <3>2
  <2>2. CASE AssignName(x)
    <3>1. PICK y \in Bound : Store(x, "Name", <<env[y]>>, Ok(env[y]))
      BY <2>2 DEF AssignName
    <3>2. Outcome(Ok(env[y]))
      BY BoundIsValue DEF Outcome
    <3> QED
      BY <3>1, <3>2
  <2>3. CASE AssignBinOp(x)
    <3>1. PICK op \in BinOps, y \in Bound, z \in Bound :
            Store(x, op, <<env[y], env[z]>>, BinOp(op, env[y], env[z]))
      BY <2>3 DEF AssignBinOp
    <3>2. Outcome(BinOp(op, env[y], env[z]))
      BY BoundIsValue, BinOpOutcome
    <3> QED
      BY <3>1, <3>2
  <2>4. CASE AssignUnaryOp(x)
    <3>1. PICK op \in UnaryOps, y \in Bound :
            Store(x, op, <<env[y]>>, UnaryOp(op, env[y]))
      BY <2>4 DEF AssignUnaryOp
    <3>2. Outcome(UnaryOp(op, env[y]))
      BY BoundIsValue, UnaryOpOutcome
    <3> QED
      BY <3>1, <3>2
  <2>5. CASE AssignCompare(x)
    <3>1. PICK op \in CmpOps, y \in Bound, z \in Bound :
            \E out \in Compare(op, env[y], env[z]) : Store(x, op, <<env[y], env[z]>>, out)
      BY <2>5 DEF AssignCompare
    <3>2. PICK out \in Compare(op, env[y], env[z]) : Store(x, op, <<env[y], env[z]>>, out)
      BY <3>1
    <3>3. Outcome(out)
      BY BoundIsValue, CompareOutcome
    <3> QED
      BY <3>2, <3>3
  <2>6. CASE AssignBoolOp(x)
    <3>1. PICK op \in {"And", "Or"}, y \in Bound, z \in Bound :
            Store(x, op, <<env[y], env[z]>>, BoolOp(op, env[y], env[z]))
      BY <2>6 DEF AssignBoolOp
    <3>2. Outcome(BoolOp(op, env[y], env[z]))
      BY BoundIsValue, BoolOpOutcome
    <3> QED
      BY <3>1, <3>2
  <2>7. CASE AssignConversion(x)
    <3>1. PICK y \in Bound :
            \/ \E out \in ToStr(env[y]) : Store(x, "str", <<env[y]>>, out)
            \/ Store(x, "float", <<env[y]>>, ToFloat(env[y]))
            \/ \E out \in ToInt(env[y]) : Store(x, "int", <<env[y]>>, out)
      BY <2>7 DEF AssignConversion
    <3>2. env[y] \in Value
      BY BoundIsValue
    <3>3. CASE \E out \in ToStr(env[y]) : Store(x, "str", <<env[y]>>, out)
      BY <3>2, <3>3, ToStrOutcome
    <3>4. CASE Store(x, "float", <<env[y]>>, ToFloat(env[y]))
      BY <3>2, <3>4, ToFloatOutcome
    <3>5. CASE \E out \in ToInt(env[y]) : Store(x, "int", <<env[y]>>, out)
      BY <3>2, <3>5, ToIntOutcome
    <3> QED
      BY <3>1, <3>3, <3>4, <3>5
  <2>8. CASE AssignPrint(x)
    <3> DEFINE out(y) == IF env[y].type = "string" THEN Ok(env[y]) ELSE Fail("thrown")
    <3>1. PICK y \in Bound : Store(x, "print", <<env[y]>>, out(y))
      BY <2>8 DEF AssignPrint
    <3>2. Outcome(out(y))
      BY BoundIsValue, FailEnds DEF Outcome, Ends
    <3> QED
      BY <3>1, <3>2
  <2>9. CASE AssignList(x)
    <3>1. PICK l \in Lists \ Reached(env, lists) : Store(x, "list", <<>>, Ok(ListV(l)))
      BY <2>9 DEF AssignList
    <3>2. Outcome(Ok(ListV(l)))
      BY ListIsValue DEF Outcome
    <3> QED
      BY <3>1, <3>2
  <2>10. CASE AssignElement(x)
    <3> DEFINE Indexes(y, z) == IsList(env[y]) /\ env[z].type = "int"
               outs(y, z) == IF Indexes(y, z) THEN Element(lists[env[y].val], env[z].val)
                             ELSE {Fail("thrown")}
    <3>1. PICK y \in Bound, z \in Bound :
            \E out \in outs(y, z) : Store(x, "element", <<Contents(env[y]), env[z]>>, out)
      BY <2>10 DEF AssignElement
    <3>2. PICK out \in outs(y, z) : Store(x, "element", <<Contents(env[y]), env[z]>>, out)
      BY <3>1
    <3>3. CASE Indexes(y, z)
      <4>1. lists[env[y].val] \in Seq(Value) /\ env[z].val \in Int
        BY <3>3, BoundIsValue, ValueFacts, WordFacts DEF IsList, ETypeOK
      <4>2. out \in Element(lists[env[y].val], env[z].val)
        BY <3>2, <3>3
      <4> QED
        BY <3>2, <4>1, <4>2, ElementOutcome
    <3>4. CASE ~Indexes(y, z)
      <4>1. out = Fail("thrown")
        BY <3>2, <3>4
      <4> QED
        BY <3>2, <4>1, FailEnds DEF Ends
    <3> QED
      BY <3>3, <3>4
  <2> QED
    BY <1>2, <2>1, <2>2, <2>3, <2>4, <2>5, <2>6, <2>7, <2>8, <2>9, <2>10
<1>3. CASE Ended
  BY <1>3 DEF Ended, evars, ETypeOK
<1>4. CASE status = "running" /\ \E x \in Names :
             \/ AssignConstant(x) \/ AssignName(x) \/ AssignBinOp(x)
             \/ AssignUnaryOp(x) \/ AssignCompare(x) \/ AssignBoolOp(x)
             \/ AssignConversion(x) \/ AssignPrint(x) \/ AssignList(x)
             \/ AssignElement(x)
  BY <1>2, <1>4, StoreKeeps
<1> QED
  BY <1>1, <1>3, <1>4 DEF ENext

\* Every value a program computes is one of its type, integers inside the range
\* of an ssize_t, whatever the width of the machine, the constants and the
\* operations (interpret_expr: interpreter.cpp 100-843).
THEOREM ValuesFit == ESpec => []ETypeOK
<1>1. EInit => ETypeOK
  BY DEF EInit, ETypeOK
<1>2. ETypeOK /\ UNCHANGED evars => ETypeOK'
  BY DEF ETypeOK, evars
<1>3. ETypeOK /\ [ENext]_evars => ETypeOK'
  BY <1>2, StepKeepsTypes
<1> QED
  BY <1>1, <1>3, PTL DEF ESpec

-----------------------------------------------------------------------------
(* The comparisons are those of one order.                                 *)

LEMMA CodeFacts ==
  ASSUME NEW c \in Chars
  PROVE  Code(c) \in 1..15 /\ Alphabet[Code(c)] = c
<1>1. DOMAIN Alphabet = 1..15
  BY DEF Alphabet
<1>2. \E n \in DOMAIN Alphabet : Alphabet[n] = c
  BY DEF Chars, ToSet
<1>3. Code(c) \in DOMAIN Alphabet /\ Alphabet[Code(c)] = c
  BY <1>2 DEF Code
<1> QED
  BY <1>1, <1>3

\* No text is below one that is below it, nor below itself.
LEMMA BelowIsAsymmetric ==
  ASSUME NEW s \in Strings, NEW t \in Strings, Below(s, t), Below(t, s)
  PROVE  FALSE
<1>1. Len(s) \in Nat /\ Len(t) \in Nat
  BY DEF Strings
<1>2. PICK k \in 1..Len(t) :
        /\ \A j \in 1..(k - 1) : j <= Len(s) /\ s[j] = t[j]
        /\ k = Len(s) + 1 \/ (k <= Len(s) /\ Code(s[k]) < Code(t[k]))
  BY DEF Below
<1>3. PICK m \in 1..Len(s) :
        /\ \A j \in 1..(m - 1) : j <= Len(t) /\ t[j] = s[j]
        /\ m = Len(t) + 1 \/ (m <= Len(t) /\ Code(t[m]) < Code(s[m]))
  BY DEF Below
<1>4. ASSUME NEW j \in Int, j <= Len(s), j <= Len(t), j >= 1
      PROVE  Code(s[j]) \in Int /\ Code(t[j]) \in Int
  <2>1. s[j] \in Chars /\ t[j] \in Chars
    BY <1>1, <1>4 DEF Strings
  <2> QED
    BY <2>1, CodeFacts
<1>5. k \in Int /\ m \in Int /\ k >= 1 /\ m >= 1 /\ k <= Len(t) /\ m <= Len(s)
  BY <1>1
<1>6. CASE k < m
  <2>1. k \in 1..(m - 1) /\ k <= Len(s)
    BY <1>1, <1>5, <1>6
  <2>2. t[k] = s[k]
    BY <1>3, <2>1
  <2>3. Code(s[k]) < Code(t[k])
    BY <1>1, <1>2, <2>1
  <2> QED
    BY <1>4, <1>5, <2>1, <2>2, <2>3
<1>7. CASE m < k
  <2>1. m \in 1..(k - 1) /\ m <= Len(t)
    BY <1>1, <1>5, <1>7
  <2>2. t[m] = s[m]
    BY <1>2, <2>1
  <2>3. Code(t[m]) < Code(s[m])
    BY <1>1, <1>3, <2>1
  <2> QED
    BY <1>4, <1>5, <2>1, <2>2, <2>3
<1>8. CASE k = m
  <2>1. Code(s[k]) < Code(t[k]) /\ Code(t[k]) < Code(s[k])
    BY <1>1, <1>2, <1>3, <1>5, <1>8
  <2> QED
    BY <1>4, <1>5, <1>8, <2>1
<1> QED
  BY <1>5, <1>6, <1>7, <1>8

\* Of two texts one is below the other: the first place where they differ tells.
LEMMA BelowIsTotal ==
  ASSUME NEW s \in Strings, NEW t \in Strings, s # t
  PROVE  Below(s, t) \/ Below(t, s)
<1>1. /\ Len(s) \in Nat /\ Len(t) \in Nat
      /\ \A j \in 1..Len(s) : s[j] \in Chars
      /\ \A j \in 1..Len(t) : t[j] \in Chars
  BY DEF Strings
<1> DEFINE Same(j) == j <= Len(s) /\ j <= Len(t) /\ s[j] = t[j]
           T == {j \in Nat : j >= 1 /\ ~Same(j)}
<1>2. \E j \in Nat : j \in T
  <2>1. Len(s) + 1 \in Nat /\ Len(s) + 1 >= 1 /\ ~(Len(s) + 1 <= Len(s))
    BY <1>1
  <2> QED
    BY <2>1
<1>3. PICK k \in T : \A j \in T : k <= j
  <2> HIDE DEF T
  <2>1. T \in SUBSET Nat
    BY DEF T
  <2> QED
    BY <1>2, <2>1, LeastExists
<1>4. k \in Nat /\ k >= 1 /\ ~Same(k) /\ \A j \in 1..(k - 1) : Same(j)
  BY <1>3
<1>5. CASE k <= Len(s) /\ k <= Len(t)
  <2>1. s[k] # t[k] /\ s[k] \in Chars /\ t[k] \in Chars
    BY <1>1, <1>4, <1>5
  <2>2. Code(s[k]) \in Int /\ Code(t[k]) \in Int /\ Code(s[k]) # Code(t[k])
    BY <2>1, CodeFacts
  <2>3. CASE Code(s[k]) < Code(t[k])
    BY <1>1, <1>4, <1>5, <2>3 DEF Below
  <2>4. CASE Code(t[k]) < Code(s[k])
    BY <1>1, <1>4, <1>5, <2>4 DEF Below
  <2> QED
    BY <2>2, <2>3, <2>4
<1>6. CASE k > Len(s) /\ k <= Len(t)
  <2>1. k = Len(s) + 1
    <3>1. ASSUME k > Len(s) + 1 PROVE FALSE
      <4>1. Len(s) + 1 \in 1..(k - 1)
        BY <1>1, <1>4, <3>1
      <4> QED
        BY <1>1, <1>4, <4>1
    <3> QED
      BY <1>1, <1>4, <1>6, <3>1
  <2> QED
    BY <1>1, <1>4, <1>6, <2>1 DEF Below
<1>7. CASE k <= Len(s) /\ k > Len(t)
  <2>1. k = Len(t) + 1
    <3>1. ASSUME k > Len(t) + 1 PROVE FALSE
      <4>1. Len(t) + 1 \in 1..(k - 1)
        BY <1>1, <1>4, <3>1
      <4> QED
        BY <1>1, <1>4, <4>1
    <3> QED
      BY <1>1, <1>4, <1>7, <3>1
  <2> QED
    BY <1>1, <1>4, <1>7, <2>1 DEF Below
<1>8. CASE k > Len(s) /\ k > Len(t)
  <2>1. \A j \in 1..Len(s) : j <= Len(t) /\ s[j] = t[j]
    BY <1>1, <1>4, <1>8
  <2>2. \A j \in 1..Len(t) : j <= Len(s)
    BY <1>1, <1>4, <1>8
  <2>3. Len(s) <= Len(t) /\ Len(t) <= Len(s)
    BY <1>1, <2>1, <2>2
  <2> QED
    BY <1>1, <2>1, <2>3 DEF Strings
<1> QED
  BY <1>1, <1>4, <1>5, <1>6, <1>7, <1>8

\* Of two values of one type, exactly one of <, = and > holds.
LEMMA Trichotomy ==
  ASSUME NEW l \in Value, NEW r \in Value, l.type = r.type,
         l.type \in {"bool", "int", "string"}
  PROVE  /\ Less(l, r) => ~Less(r, l) /\ l # r
         /\ Less(r, l) => l # r
         /\ Less(l, r) \/ Less(r, l) \/ l = r
<1>1. l = r <=> l.val = r.val
  BY ValueFacts
<1>2. CASE l.type = "bool"
  <2>1. l.val \in BOOLEAN /\ r.val \in BOOLEAN
    BY <1>2, ValueFacts
  <2>2. (Less(l, r) <=> ~l.val /\ r.val) /\ (Less(r, l) <=> ~r.val /\ l.val)
    BY <1>2 DEF Less
  <2> QED
    BY <1>1, <2>1, <2>2
<1>3. CASE l.type = "int"
  <2>1. l.val \in Int /\ r.val \in Int
    <3>1. MinInt \in Int /\ MaxInt \in Int
      BY WordFacts
    <3>2. l.val \in MinInt..MaxInt /\ r.val \in MinInt..MaxInt
      BY <1>3, ValueFacts
    <3> QED
      BY <3>1, <3>2
  <2>2. (Less(l, r) <=> l.val < r.val) /\ (Less(r, l) <=> r.val < l.val)
    BY <1>3 DEF Less
  <2> QED
    BY <1>1, <2>1, <2>2
<1>4. CASE l.type = "string"
  <2>1. l.val \in Strings /\ r.val \in Strings
    BY <1>4, ValueFacts
  <2>2. (Less(l, r) <=> Below(l.val, r.val)) /\ (Less(r, l) <=> Below(r.val, l.val))
    BY <1>4 DEF Less
  <2> QED
    BY <1>1, <2>1, <2>2, BelowIsAsymmetric, BelowIsTotal
<1> QED
  BY <1>2, <1>3, <1>4

LEMMA OneTruth ==
  ASSUME NEW b \in BOOLEAN
  PROVE  {Ok(BoolV(b))} = {Ok(BoolV(TRUE))} <=> b
<1>1. CASE b
  BY <1>1
<1>2. CASE ~b
  <2>1. b = FALSE
    BY <1>2
  <2>2. Ok(BoolV(FALSE)).value.val # Ok(BoolV(TRUE)).value.val
    BY DEF Ok, BoolV
  <2> QED
    BY <1>2, <2>1, <2>2
<1> QED
  BY <1>1, <1>2

LEMMA ComparesInOneOrder ==
  ASSUME NEW l \in Value, NEW r \in Value, l.type = r.type, l.type \notin {"float", "list"}
  PROVE  LET Says(op) == Compare(op, l, r) = {Ok(BoolV(TRUE))}
         IN  /\ Cardinality({op \in {"Lt", "Eq", "Gt"} : Says(op)}) = 1
             /\ Says("LtE") = ~Says("Gt")
             /\ Says("GtE") = ~Says("Lt")
             /\ Says("NotEq") = ~Says("Eq")
<1> DEFINE Says(op) == Compare(op, l, r) = {Ok(BoolV(TRUE))}
<1>1. l.type \in {"bool", "int", "string"}
  BY ValueFacts
<1>2. /\ Less(l, r) \in BOOLEAN /\ Less(r, l) \in BOOLEAN
      /\ (l = r) \in BOOLEAN /\ (l # r) \in BOOLEAN
      /\ (~Less(l, r)) \in BOOLEAN /\ (~Less(r, l)) \in BOOLEAN
  BY <1>1, LessIsBoolean
<1>3. Compare("Eq", l, r) = {Ok(BoolV(l = r))} /\ Compare("NotEq", l, r) = {Ok(BoolV(l # r))}
  BY <1>1 DEF Compare
<1>4. Compare("Lt", l, r) = {Ok(BoolV(Less(l, r)))} /\ Compare("LtE", l, r) = {Ok(BoolV(~Less(r, l)))}
  BY <1>1 DEF Compare
<1>5. Compare("Gt", l, r) = {Ok(BoolV(Less(r, l)))} /\ Compare("GtE", l, r) = {Ok(BoolV(~Less(l, r)))}
  BY <1>1 DEF Compare
<1>6. /\ Says("Eq") <=> l = r
      /\ Says("NotEq") <=> l # r
      /\ Says("Lt") <=> Less(l, r)
      /\ Says("LtE") <=> ~Less(r, l)
      /\ Says("Gt") <=> Less(r, l)
      /\ Says("GtE") <=> ~Less(l, r)
  BY <1>2, <1>3, <1>4, <1>5, OneTruth
<1> HIDE DEF Says
<1>7. \E o : {op \in {"Lt", "Eq", "Gt"} : Says(op)} = {o}
  <2>1. CASE Less(l, r)
    <3>1. {op \in {"Lt", "Eq", "Gt"} : Says(op)} = {"Lt"}
      BY <1>1, <1>6, <2>1, Trichotomy
    <3> QED
      BY <3>1
  <2>2. CASE Less(r, l)
    <3>1. {op \in {"Lt", "Eq", "Gt"} : Says(op)} = {"Gt"}
      BY <1>1, <1>6, <2>2, Trichotomy
    <3> QED
      BY <3>1
  <2>3. CASE l = r
    <3>1. {op \in {"Lt", "Eq", "Gt"} : Says(op)} = {"Eq"}
      BY <1>1, <1>6, <2>3, Trichotomy
    <3> QED
      BY <3>1
  <2> QED
    BY <1>1, <2>1, <2>2, <2>3, Trichotomy
<1>8. Cardinality({op \in {"Lt", "Eq", "Gt"} : Says(op)}) = 1
  BY <1>7, FS_Singleton
<1>9. /\ Says("LtE") = ~Says("Gt")
      /\ Says("GtE") = ~Says("Lt")
      /\ Says("NotEq") = ~Says("Eq")
  <2>1. Says("LtE") \in BOOLEAN /\ Says("GtE") \in BOOLEAN /\ Says("NotEq") \in BOOLEAN
    BY DEF Says
  <2> QED
    BY <1>6, <2>1
<1> QED
  BY <1>8, <1>9 DEF Says

\* The comparisons of two booleans, two integers or two texts are those of one
\* total order, and each operator is the opposite of its negation (compare,
\* interpreter.cpp 357-458).
THEOREM ComparisonsAgree == ESpec => []OneOrder
<1>1. ETypeOK => OneOrder
  <2> SUFFICES ASSUME ETypeOK, NEW x \in Bound, NEW y \in Bound,
                      env[x].type = env[y].type, env[x].type \notin {"float", "list"}
               PROVE  LET l == env[x]
                          r == env[y]
                          Says(op) == Compare(op, l, r) = {Ok(BoolV(TRUE))}
                      IN /\ Cardinality({op \in {"Lt", "Eq", "Gt"} : Says(op)}) = 1
                         /\ Says("LtE") = ~Says("Gt")
                         /\ Says("GtE") = ~Says("Lt")
                         /\ Says("NotEq") = ~Says("Eq")
    BY DEF OneOrder
  <2>1. env[x] \in Value /\ env[y] \in Value
    BY BoundIsValue
  <2> QED
    BY <2>1, ComparesInOneOrder
<1> QED
  BY <1>1, ValuesFit, PTL

-----------------------------------------------------------------------------
(* from_str reads what to_string wrote.                                    *)

LEMMA NumberOfNothing == NumberOf(<<>>) = 0
<1>1. <<>> \in Seq(DigitChars) /\ Len(<<>>) = 0
  OBVIOUS
<1>2. PICK h : Reads(h, <<>>) /\ NumberOf(<<>>) = h[Len(<<>>)]
  BY <1>1, NumberSteps
<1> QED
  BY <1>1, <1>2 DEF Reads

LEMMA NumberOfLonger ==
  ASSUME NEW t \in Seq(DigitChars), NEW d \in DigitChars
  PROVE  NumberOf(Append(t, d)) = 10 * NumberOf(t) + DigitOf(d)
<1> DEFINE u == Append(t, d)
           L == Len(t)
<1>1. /\ L \in Nat /\ u \in Seq(DigitChars) /\ Len(u) = L + 1
      /\ \A n \in 1..L : u[n] = t[n]
      /\ u[L + 1] = d
  OBVIOUS
<1>2. PICK h : Reads(h, t) /\ NumberOf(t) = h[L]
  BY NumberSteps
<1> HIDE DEF u
<1>3. PICK g : Reads(g, u) /\ NumberOf(u) = g[Len(u)]
  BY <1>1, NumberSteps
<1> HIDE DEF L
<1> DEFINE T == {n \in Nat : n <= L => g[n] = h[n]}
<1>4. 0 \in T
  BY <1>2, <1>3 DEF Reads
<1>5. ASSUME NEW n \in Nat, n \in T PROVE n + 1 \in T
  <2>1. SUFFICES ASSUME n + 1 <= L PROVE g[n + 1] = h[n + 1]
    OBVIOUS
  <2>2. n \in 0..(Len(t) - 1) /\ n \in 0..(Len(u) - 1) /\ n + 1 \in 1..L
    BY <1>1, <2>1 DEF L
  <2>3. h[n + 1] = 10 * h[n] + DigitOf(t[n + 1])
    BY <1>2, <2>2 DEF Reads
  <2>4. g[n + 1] = 10 * g[n] + DigitOf(u[n + 1])
    BY <1>3, <2>2 DEF Reads
  <2>5. g[n] = h[n] /\ u[n + 1] = t[n + 1]
    BY <1>1, <1>5, <2>1, <2>2
  <2> QED
    BY <2>3, <2>4, <2>5
<1> HIDE DEF T
<1>6. \A n \in Nat : n \in T
  BY <1>4, <1>5, SetInduction
<1>7. g[L] = h[L]
  BY <1>1, <1>6 DEF T
<1>8. g[L + 1] = 10 * g[L] + DigitOf(u[L + 1])
  <2>1. L \in 0..(Len(u) - 1)
    BY <1>1
  <2> QED
    BY <1>3, <2>1 DEF Reads
<1> QED
  BY <1>1, <1>2, <1>3, <1>7, <1>8 DEF u

LEMMA NumberOfNumeral ==
  ASSUME NEW n \in Nat
  PROVE  NumberOf(Numeral[n]) = n
<1> DEFINE T == {m \in Nat : NumberOf(Numeral[m]) = m}
<1>1. ASSUME NEW m \in Nat, \A k \in Nat : k < m => k \in T PROVE m \in T
  <2>1. CASE m < 10
    <3>1. m + 1 \in 1..10 /\ (m + 1) - 1 = m
      BY <2>1
    <3>2. Numeral[m] = <<Digits[m + 1]>>
      BY <2>1, NumeralRecursion
    <3>3. <<Digits[m + 1]>> = Append(<<>>, Digits[m + 1])
      OBVIOUS
    <3>4. Digits[m + 1] \in DigitChars /\ <<>> \in Seq(DigitChars)
      BY <3>1 DEF DigitChars
    <3>5. DigitOf(Digits[m + 1]) = m
      BY <3>1, DigitOfDigit
    <3>6. NumberOf(Append(<<>>, Digits[m + 1])) = 10 * 0 + m
      BY <3>4, <3>5, NumberOfLonger, NumberOfNothing
    <3> QED
      BY <3>2, <3>3, <3>6
  <2>2. CASE ~(m < 10)
    <3>1. m \div 10 \in Nat /\ m \div 10 < m /\ 10 * (m \div 10) + (m % 10) = m
      BY <2>2
    <3>2. (m % 10) + 1 \in 1..10 /\ ((m % 10) + 1) - 1 = m % 10
      OBVIOUS
    <3>3. Numeral[m] = Append(Numeral[m \div 10], Digits[(m % 10) + 1])
      BY <2>2, NumeralRecursion
    <3>4. Digits[(m % 10) + 1] \in DigitChars
      BY <3>2 DEF DigitChars
    <3>5. Numeral[m \div 10] \in Seq(DigitChars)
      BY <3>1, NumeralRecursion
    <3>6. NumberOf(Numeral[m \div 10]) = m \div 10
      BY <1>1, <3>1
    <3>7. DigitOf(Digits[(m % 10) + 1]) = m % 10
      BY <3>2, DigitOfDigit
    <3>8. NumberOf(Numeral[m]) = 10 * (m \div 10) + (m % 10)
      BY <3>3, <3>4, <3>5, <3>6, <3>7, NumberOfLonger
    <3> QED
      BY <3>1, <3>8
  <2> QED
    BY <2>1, <2>2
<1> HIDE DEF T
<1>2. \A m \in Nat : m \in T
  BY <1>1, StrongInduction
<1> QED
  BY <1>2 DEF T

\* A text of digits is read to its end.
LEMMA DigitsEndLast ==
  ASSUME NEW t \in Seq(DigitChars), NEW n, DigitsEnd(t, n)
  PROVE  SubSeq(t, 1, n) = t
<1>1. Len(t) \in Nat /\ n \in 0..Len(t) /\ \A k \in 1..Len(t) : t[k] \in DigitChars
  BY DEF DigitsEnd
<1>2. n = Len(t)
  <2>1. ASSUME n < Len(t) PROVE FALSE
    <3>1. n + 1 \in 1..Len(t)
      BY <1>1, <2>1
    <3> QED
      BY <1>1, <2>1, <3>1 DEF DigitsEnd
  <2> QED
    BY <1>1, <2>1
<1> QED
  BY <1>1, <1>2

\* int(str(n)) = n.
LEMMA DecimalReadsBack ==
  ASSUME NEW n \in MinInt..MaxInt
  PROVE  FromStr(Decimal(n)) = {n}
<1>1. n \in Int /\ Fits(n)
  BY WordFacts DEF Fits
<1> DEFINE t == Numeral[Abs(n)]
           s == Decimal(n)
<1>2. Abs(n) \in Nat /\ (n < 0 => -n = Abs(n)) /\ (~(n < 0) => n = Abs(n))
  BY <1>1 DEF Abs
<1>3. t \in Seq(DigitChars) /\ NumberOf(t) = Abs(n)
  BY <1>2, NumeralRecursion, NumberOfNumeral
<1>4. t # <<>>
  <2>1. CASE Abs(n) < 10
    <3>1. t = <<Digits[Abs(n) + 1]>>
      BY <1>2, <2>1, NumeralRecursion
    <3> QED
      BY <3>1
  <2>2. CASE ~(Abs(n) < 10)
    <3>1. t = Append(Numeral[Abs(n) \div 10], Digits[(Abs(n) % 10) + 1])
      BY <1>2, <2>2, NumeralRecursion
    <3>2. Abs(n) \div 10 \in Nat
      BY <1>2
    <3>3. Numeral[Abs(n) \div 10] \in Seq(DigitChars)
      BY <3>2, NumeralRecursion
    <3>4. \A u \in Seq(DigitChars) : \A d : Append(u, d) # <<>>
      OBVIOUS
    <3> QED
      BY <3>1, <3>3, <3>4
  <2> QED
    BY <2>1, <2>2
<1>5. s = IF n < 0 THEN <<"-">> \o t ELSE t
  BY <1>2 DEF Decimal
<1>6. s \in Strings
  BY <1>1, DecimalIsString
<1>7. "-" \notin DigitChars
  BY DEF DigitChars, Digits
<1> HIDE DEF t, s
<1>8. Len(t) \in Nat /\ Len(t) >= 1 /\ t[1] \in DigitChars
  BY <1>3, <1>4
<1>9. /\ s # <<>> /\ (s[1] = "-" <=> n < 0)
      /\ (IF s[1] = "-" THEN Tail(s) ELSE s) = t
  <2>1. CASE n < 0
    <3>1. s = <<"-">> \o t
      BY <1>5, <2>1
    <3>2. s # <<>> /\ s[1] = "-" /\ Tail(s) = t
      BY <1>3, <3>1
    <3> QED
      BY <2>1, <3>2
  <2>2. CASE ~(n < 0)
    <3>1. s = t
      BY <1>5, <2>2
    <3> QED
      BY <1>4, <1>7, <1>8, <2>2, <3>1
  <2> QED
    BY <2>1, <2>2
<1>10. PICK k : ReadsTo(s, k)
  BY <1>6, <1>9, LeadingReads
<1>11. /\ DigitsEnd(t, k)
       /\ Leading(s) = IF n < 0 THEN -NumberOf(SubSeq(t, 1, k)) ELSE NumberOf(SubSeq(t, 1, k))
  BY <1>9, <1>10 DEF ReadsTo
<1>12. SubSeq(t, 1, k) = t
  BY <1>3, <1>11, DigitsEndLast
<1>13. Leading(s) = n
  <2>1. n < 0 => -Abs(n) = n
    BY <1>1, <1>2
  <2>2. Leading(s) = IF n < 0 THEN -NumberOf(t) ELSE NumberOf(t)
    BY <1>11, <1>12
  <2> QED
    BY <1>2, <1>3, <2>1, <2>2
<1>14. FromStr(s) = {n}
  <2>1. ~(n < MinInt) /\ ~(n > MaxInt)
    BY WordFacts
  <2>2. (CASE Fits(n) -> n [] n < MinInt -> MinInt [] n > MaxInt -> MaxInt) = n
    BY <1>1, <2>1
  <2> QED
    BY <1>9, <1>13, <2>2 DEF FromStr
<1> QED
  BY <1>14 DEF s

-----------------------------------------------------------------------------
(* Quotients.                                                              *)

LEMMA TimesKeepsOrder ==
  ASSUME NEW x \in Int, NEW y \in Int, NEW b \in Nat, x <= y
  PROVE  x * b <= y * b
<1>1. \A d \in Nat : d * b >= 0
  OBVIOUS
<1>2. y - x \in Nat /\ (y - x) * b = y * b - x * b
  OBVIOUS
<1>3. y * b \in Int /\ x * b \in Int
  OBVIOUS
<1> QED
  BY <1>1, <1>2, <1>3

\* q is the quotient of a by b, rounded down.
Divides(q, a, b) == q * b <= a /\ a < (q + 1) * b

LEMMA OneQuotient ==
  ASSUME NEW a \in Int, NEW b \in Nat \ {0}, NEW q \in Int, NEW p \in Int,
         Divides(q, a, b), Divides(p, a, b)
  PROVE  q = p
<1>1. ASSUME NEW x \in Int, NEW y \in Int, Divides(x, a, b), Divides(y, a, b), x < y
      PROVE  FALSE
  <2>1. x + 1 \in Int /\ x + 1 <= y
    BY <1>1
  <2>2. (x + 1) * b <= y * b
    BY <2>1, TimesKeepsOrder
  <2>3. (x + 1) * b \in Int /\ y * b \in Int
    BY <2>1
  <2> QED
    BY <1>1, <2>2, <2>3 DEF Divides
<1> QED
  BY <1>1

LEMMA QuotientIsSmall ==
  ASSUME NEW a \in Int, NEW b \in Nat \ {0}, NEW q \in Int, Divides(q, a, b)
  PROVE  q \in -Abs(a)..Abs(a)
<1>1. /\ q * b \in Int /\ (q + 1) * b \in Int /\ q + 1 \in Int
      /\ q * b <= a /\ a < (q + 1) * b
  BY DEF Divides
<1>2. ASSUME NEW x \in Nat PROVE x * b >= x
  BY <1>2
<1>3. ASSUME NEW x \in Int, x <= 0 PROVE x * b <= x
  <2>1. -x \in Nat /\ (-x) * b >= -x
    BY <1>2, <1>3
  <2>2. (-x) * b = -(x * b) /\ x * b \in Int
    BY <1>3
  <2> QED
    BY <2>1, <2>2
<1>4. CASE q >= 0
  <2>1. q * b >= q
    BY <1>2, <1>4
  <2> QED
    BY <1>1, <1>4, <2>1 DEF Abs
<1>5. CASE q < 0
  <2>1. (q + 1) * b <= q + 1
    BY <1>1, <1>3, <1>5
  <2> QED
    BY <1>1, <1>5, <2>1 DEF Abs
<1> QED
  BY <1>4, <1>5

LEMMA FloorQuotientIs ==
  ASSUME NEW l \in Int, NEW r \in Int, NEW q \in Int,
         \/ r > 0 /\ Divides(q, l, r)
         \/ r < 0 /\ Divides(q, -l, -r)
  PROVE  FloorQuotient(l, r) = q
<1> DEFINE P(x) == IF r > 0 THEN x * r <= l /\ l < (x + 1) * r
                   ELSE x * r >= l /\ l > (x + 1) * r
           R == -Abs(l)..Abs(l)
<1>1. -l \in Int /\ -r \in Int /\ Abs(-l) = Abs(l) /\ R \subseteq Int
  BY DEF Abs
<1>2. CASE r > 0
  <2>1. \A x \in Int : P(x) <=> Divides(x, l, r)
    BY <1>2 DEF Divides
  <2>2. r \in Nat \ {0} /\ Divides(q, l, r)
    BY <1>2
  <2>3. P(q) /\ q \in R
    BY <2>1, <2>2, QuotientIsSmall
  <2>4. \A x \in R : P(x) => x = q
    BY <1>1, <2>1, <2>2, OneQuotient
  <2>5. (CHOOSE x \in R : P(x)) = q
    <3> HIDE DEF P, R
    <3> QED
      BY <2>3, <2>4
  <2> QED
    BY <2>5 DEF FloorQuotient
<1>3. CASE r < 0
  <2>1. \A x \in Int : P(x) <=> Divides(x, -l, -r)
    <3> SUFFICES ASSUME NEW x \in Int PROVE P(x) <=> Divides(x, -l, -r)
      OBVIOUS
    <3>1. /\ x * (-r) = -(x * r) /\ (x + 1) * (-r) = -((x + 1) * r)
          /\ x * r \in Int /\ (x + 1) * r \in Int
      OBVIOUS
    <3> QED
      BY <1>3, <3>1 DEF Divides
  <2>2. -r \in Nat \ {0} /\ Divides(q, -l, -r)
    BY <1>3
  <2>3. P(q) /\ q \in R
    BY <1>1, <2>1, <2>2, QuotientIsSmall
  <2>4. \A x \in R : P(x) => x = q
    BY <1>1, <2>1, <2>2, OneQuotient
  <2>5. (CHOOSE x \in R : P(x)) = q
    <3> HIDE DEF P, R
    <3> QED
      BY <2>3, <2>4
  <2> QED
    BY <2>5 DEF FloorQuotient
<1> QED
  BY <1>2, <1>3

LEMMA DivDivides ==
  ASSUME NEW a \in Int, NEW b \in Nat \ {0}
  PROVE  a \div b \in Int /\ Divides(a \div b, a, b)
<1> DEFINE q == a \div b
           m == a % b
<1>1. q \in Int /\ m \in 0..(b - 1) /\ a = b * q + m
  BY DivisionLeaves
<1> HIDE DEF q, m
<1>2. b * q = q * b /\ (q + 1) * b = q * b + b /\ q * b \in Int
  BY <1>1
<1> QED
  BY <1>1, <1>2 DEF Divides, q

\* Where the signs agree, C++ division rounds as Python does.
LEMMA QuotientAgrees ==
  ASSUME NEW l \in Int, NEW r \in Int, r # 0, l * r >= 0
  PROVE  FloorQuotient(l, r) = Quotient(l, r)
<1>1. Quotient(l, r) = Abs(l) \div Abs(r)
  BY DEF Quotient
<1>2. CASE r > 0
  <2>1. l >= 0
    <3>1. ASSUME l < 0 PROVE FALSE
      <4>1. (-l) * r > 0 /\ (-l) * r = -(l * r) /\ l * r \in Int
        BY <1>2, <3>1
      <4> QED
        BY <4>1
    <3> QED
      BY <3>1
  <2>2. Abs(l) = l /\ Abs(r) = r /\ r \in Nat \ {0}
    BY <1>2, <2>1 DEF Abs
  <2> QED
    BY <1>1, <1>2, <2>2, DivDivides, FloorQuotientIs
<1>3. CASE r < 0
  <2>1. l <= 0
    <3>1. ASSUME l > 0 PROVE FALSE
      <4>1. l * (-r) > 0 /\ l * (-r) = -(l * r) /\ l * r \in Int
        BY <1>3, <3>1
      <4> QED
        BY <4>1
    <3> QED
      BY <3>1
  <2>2. Abs(l) = -l /\ Abs(r) = -r /\ -r \in Nat \ {0} /\ -l \in Int
    BY <1>3, <2>1 DEF Abs
  <2> QED
    BY <1>1, <1>3, <2>2, DivDivides, FloorQuotientIs
<1> QED
  BY <1>2, <1>3

LEMMA ShiftAgrees ==
  ASSUME NEW n \in Int, NEW k \in Nat
  PROVE  FloorQuotient(n, Pow2[k]) = ShiftRight(n, k)
<1>1. Pow2[k] \in Nat \ {0} /\ Pow2[k] > 0
  BY Pow2Facts
<1> QED
  BY <1>1, DivDivides, FloorQuotientIs DEF ShiftRight

\* The trap of a division is where Python has no value, or one that does not fit.
LEMMA DivisionAgrees ==
  ASSUME NEW l \in MinInt..MaxInt, NEW r \in MinInt..MaxInt, r # 0, l * r >= 0,
         Fits(FloorQuotient(l, r))
  PROVE  ~Traps(l, r) /\ FloorQuotient(l, r) = Quotient(l, r)
<1>1. l \in Int /\ r \in Int /\ MinInt \in Int /\ MaxInt \in Int /\ MaxInt = -MinInt - 1
  BY WordFacts
<1>2. FloorQuotient(l, r) = Quotient(l, r)
  BY <1>1, QuotientAgrees
<1>3. ASSUME l = MinInt, r = -1 PROVE FALSE
  <2>1. Abs(l) = -MinInt /\ Abs(r) = 1 /\ -MinInt \in Nat
    <3>1. MinInt < 0
      BY WordFacts
    <3>2. -MinInt \in Nat
      BY <1>1, <3>1
    <3>3. Abs(MinInt) = -MinInt
      BY <3>1 DEF Abs
    <3>4. \A x \in Int : x + 1 = 0 => Abs(x) = 1
      BY DEF Abs
    <3>5. r + 1 = 0
      BY <1>3
    <3> QED
      BY <1>1, <1>3, <3>2, <3>3, <3>4, <3>5
  <2>2. Quotient(l, r) = (-MinInt) \div 1
    BY <2>1 DEF Quotient
  <2>3. \A x \in Nat : x \div 1 = x
    OBVIOUS
  <2>4. Quotient(l, r) = -MinInt
    BY <2>1, <2>2, <2>3
  <2> QED
    BY <1>1, <1>2, <2>4 DEF Fits
<1> QED
  BY <1>2, <1>3 DEF Traps

-----------------------------------------------------------------------------
(* Strings.                                                                *)

\* t is s, n times.
Repeats(t, s, n) ==
  /\ Len(t) = n * Len(s)
  /\ \A k \in 1..(n * Len(s)) : t[k] = s[((k - 1) % Len(s)) + 1]

LEMMA RepeatsOnceMore ==
  ASSUME NEW S, NEW s \in Seq(S), NEW t \in Seq(S), NEW n \in Nat, Repeats(t, s, n)
  PROVE  Repeats(t \o s, s, n + 1)
<1> DEFINE L == Len(s)
           N == n * L
           u == t \o s
<1>1. L \in Nat /\ N \in Nat /\ (n + 1) * L = N + L /\ N = L * n
  OBVIOUS
<1>2. /\ Len(t) = N /\ Len(u) = N + L
      /\ \A k \in 1..N : u[k] = t[k]
      /\ \A k \in (N + 1)..(N + L) : u[k] = s[k - N]
  <2>1. Len(t) = N
    BY DEF Repeats
  <2> HIDE DEF N
  <2> QED
    BY <1>1, <2>1
<1>3. ASSUME NEW k \in 1..N PROVE u[k] = s[((k - 1) % L) + 1]
  BY <1>2, <1>3 DEF Repeats
<1> HIDE DEF u, L, N
<1>4. ASSUME NEW k \in (N + 1)..(N + L) PROVE u[k] = s[((k - 1) % L) + 1]
  <2> DEFINE j == (k - 1) - N
  <2>1. L \in Nat \ {0} /\ j \in 0..(L - 1) /\ k - 1 = L * n + j /\ j + 1 = k - N
    BY <1>1
  <2> HIDE DEF j
  <2>2. (L * n + j) % L = j
    <3>1. n \in Int
      OBVIOUS
    <3> QED
      BY <2>1, <3>1, ModUnique, Zenon
  <2>3. ((k - 1) % L) + 1 = k - N
    BY <2>1, <2>2
  <2> QED
    BY <1>2, <2>3
<1>5. \A k \in 1..(N + L) : k \in 1..N \/ k \in (N + 1)..(N + L)
  BY <1>1
<1> QED
  BY <1>1, <1>2, <1>3, <1>4, <1>5 DEF Repeats, u, L

LEMMA RepeatRepeats ==
  ASSUME NEW S, NEW s \in Seq(S), NEW times \in Nat
  PROVE  Repeats(Repeat(s, times), s, times)
<1>1. PICK h : Copies(h, S, s, times) /\ Repeat(s, times) = h[times]
  BY RepeatSteps
<1> DEFINE T == {n \in Nat : n <= times => Repeats(h[n], s, n)}
<1>2. 0 \in T
  <2>1. h[0] = <<>> /\ 0 * Len(s) = 0 /\ Len(<<>>) = 0
    BY <1>1 DEF Copies
  <2> QED
    BY <2>1 DEF Repeats
<1>3. ASSUME NEW n \in Nat, n \in T PROVE n + 1 \in T
  <2>1. SUFFICES ASSUME n + 1 <= times PROVE Repeats(h[n + 1], s, n + 1)
    OBVIOUS
  <2>2. n \in 0..(times - 1) /\ n \in 0..times
    BY <2>1
  <2>3. h[n] \in Seq(S) /\ h[n + 1] = h[n] \o s
    BY <1>1, <2>2 DEF Copies
  <2>4. Repeats(h[n], s, n)
    BY <1>3, <2>2
  <2> QED
    BY <2>3, <2>4, RepeatsOnceMore
<1> HIDE DEF T
<1>4. \A n \in Nat : n \in T
  BY <1>2, <1>3, SetInduction
<1> QED
  BY <1>1, <1>4 DEF T

-----------------------------------------------------------------------------
(* Bits of the two's complement.                                           *)

LEMMA PyBitIsABit ==
  ASSUME NEW n \in Int, NEW k \in Nat
  PROVE  PyBit(n, k) \in {0, 1}
<1>1. Pow2[k] \in Nat \ {0}
  BY Pow2Facts
<1>2. n \div Pow2[k] \in Int
  BY <1>1, DivisionLeaves
<1>3. \A x \in Int : x % 2 \in {0, 1}
  OBVIOUS
<1> QED
  BY <1>2, <1>3 DEF PyBit

LEMMA DoubleMod ==
  ASSUME NEW P \in Nat \ {0}, NEW n \in Int
  PROVE  n % (2 * P) = (n % P) + P * ((n \div P) % 2)
<1> DEFINE q == n \div P
           m == n % P
           d == q \div 2
           b == q % 2
           x == P * b + m
<1>1. q \in Int /\ m \in 0..(P - 1) /\ n = P * q + m
  BY DivisionLeaves
<1> HIDE DEF q, m
<1>2. d \in Int /\ b \in 0..1 /\ q = 2 * d + b
  BY <1>1
<1> HIDE DEF d, b
<1>3. n = (2 * P) * d + x
  <2>1. P * q = (2 * P) * d + P * b
    BY <1>1, <1>2
  <2>2. P * q \in Int /\ (2 * P) * d \in Int /\ P * b \in Int
    BY <1>1, <1>2
  <2> QED
    BY <1>1, <2>1, <2>2
<1>4. 2 * P \in Nat \ {0} /\ x \in 0..((2 * P) - 1)
  <2>1. P * b = 0 \/ P * b = P
    BY <1>2
  <2> QED
    BY <1>1, <2>1
<1> HIDE DEF x
<1>5. ((2 * P) * d + x) % (2 * P) = x
  BY <1>2, <1>4, ModUnique, Zenon
<1>6. n % (2 * P) = x
  BY <1>3, <1>5
<1>7. x = m + P * b
  BY <1>1, <1>2 DEF x
<1> QED
  BY <1>6, <1>7 DEF m, b, q

\* One more bit of a number.
LEMMA NextBit ==
  ASSUME NEW n \in Int, NEW k \in Nat
  PROVE  n % Pow2[k + 1] = (n % Pow2[k]) + Pow2[k] * PyBit(n, k)
<1>1. Pow2[k] \in Nat \ {0} /\ Pow2[k + 1] = 2 * Pow2[k]
  BY Pow2Facts
<1> QED
  BY <1>1, DoubleMod DEF PyBit

LEMMA BitFromMods ==
  ASSUME NEW a \in Int, NEW b \in Int, NEW k \in Nat,
         a % Pow2[k] = b % Pow2[k], a % Pow2[k + 1] = b % Pow2[k + 1]
  PROVE  PyBit(a, k) = PyBit(b, k)
<1>1. Pow2[k] \in Nat \ {0}
  BY Pow2Facts
<1>2. /\ b % Pow2[k + 1] = (b % Pow2[k]) + Pow2[k] * PyBit(a, k)
      /\ b % Pow2[k + 1] = (b % Pow2[k]) + Pow2[k] * PyBit(b, k)
  BY NextBit
<1>3. b % Pow2[k] \in Int /\ PyBit(a, k) \in {0, 1} /\ PyBit(b, k) \in {0, 1}
  <2>1. b % Pow2[k] \in 0..(Pow2[k] - 1)
    BY <1>1, DivisionLeaves
  <2> QED
    BY <1>1, <2>1, PyBitIsABit
<1>4. \A m, P \in Int, x, y \in {0, 1} : P # 0 /\ m + P * x = m + P * y => x = y
  OBVIOUS
<1> QED
  BY <1>1, <1>2, <1>3, <1>4

\* The low bits do not see a multiple of the word.
LEMMA LowBits ==
  ASSUME NEW b \in Int, NEW q \in Int
  PROVE  /\ \A j \in 0..Width : (b + Pow2[Width] * q) % Pow2[j] = b % Pow2[j]
         /\ \A k \in Places : PyBit(b + Pow2[Width] * q, k) = PyBit(b, k)
<1>0. Width \in Nat /\ Pow2[Width] \in Nat
  BY WordFacts
<1> DEFINE a == b + Pow2[Width] * q
<1>1. ASSUME NEW j \in 0..Width PROVE a % Pow2[j] = b % Pow2[j]
  <2>1. j \in Nat /\ Width - j \in Nat /\ j + (Width - j) = Width
    BY <1>0
  <2>2. Pow2[j] \in Nat \ {0} /\ Pow2[Width - j] \in Nat
    BY <2>1, Pow2Facts
  <2>3. Pow2[Width] = Pow2[j] * Pow2[Width - j]
    BY <2>1, Pow2Sum
  <2>4. Pow2[Width - j] * q \in Int /\ Pow2[Width] * q = Pow2[j] * (Pow2[Width - j] * q)
    BY <2>2, <2>3
  <2>5. (b + Pow2[j] * (Pow2[Width - j] * q)) % Pow2[j] = b % Pow2[j]
    BY <2>2, <2>4, ModMultiple, Zenon
  <2> QED
    BY <2>4, <2>5
<1>2. a \in Int
  BY <1>0
<1> HIDE DEF a
<1>3. ASSUME NEW k \in Places PROVE PyBit(a, k) = PyBit(b, k)
  <2>1. k \in Nat /\ k \in 0..Width /\ k + 1 \in 0..Width
    BY <1>0 DEF Places
  <2> QED
    BY <1>1, <1>2, <2>1, BitFromMods
<1> QED
  BY <1>1, <1>3 DEF a

LEMMA BitAgrees ==
  ASSUME NEW n \in Int, NEW k \in Places
  PROVE  Bit(n, k) = PyBit(n, k)
<1> DEFINE W == Pow2[Width]
           m == n % W
           q == n \div W
<1>1. W \in Nat \ {0}
  BY WordFacts
<1> HIDE DEF W
<1>2. m \in Int /\ q \in Int /\ n = W * q + m
  BY <1>1, DivisionLeaves
<1> HIDE DEF m, q
<1>3. n = m + W * q
  BY <1>1, <1>2
<1>4. PyBit(n, k) = PyBit(m, k)
  BY <1>2, <1>3, LowBits DEF W
<1> QED
  BY <1>4 DEF PyBit, Bit, m, W

LEMMA WrapMultiple ==
  ASSUME NEW n \in Int
  PROVE  \E q \in Int : Wrap(n) = n + Pow2[Width] * q
<1> DEFINE W == Pow2[Width]
           x == n - MinInt
           d == x \div W
<1>1. W \in Nat \ {0} /\ MinInt \in Int /\ x \in Int
  BY WordFacts
<1>2. Wrap(n) = (x % W) + MinInt
  BY DEF Wrap
<1>3. x + MinInt = n
  BY <1>1
<1> HIDE DEF W, x
<1>4. x % W \in Int /\ d \in Int /\ x = W * d + (x % W)
  BY <1>1, DivisionLeaves
<1> HIDE DEF d
<1>5. -d \in Int /\ W * (-d) = -(W * d) /\ W * d \in Int
  BY <1>1, <1>4
<1>6. Wrap(n) = n + W * (-d)
  BY <1>1, <1>2, <1>3, <1>4, <1>5
<1> QED
  BY <1>5, <1>6 DEF W

\* The bits of a number of the machine go on with its sign.
LEMMA SignBit ==
  ASSUME NEW n \in MinInt..MaxInt
  PROVE  PyBit(n, Width) = PyBit(n, Width - 1)
<1> DEFINE P == Pow2[Width - 1]
<1>1. /\ P \in Nat \ {0} /\ Pow2[Width] = 2 * P /\ n \in -P..(P - 1) /\ n \in Int
  BY WordFacts
<1> HIDE DEF P
<1>2. 2 * P \in Nat \ {0} /\ 0 \in Int /\ -1 \in Int
  BY <1>1
<1>3. /\ n \div P \in Int /\ Divides(n \div P, n, P)
      /\ n \div (2 * P) \in Int /\ Divides(n \div (2 * P), n, 2 * P)
  BY <1>1, <1>2, DivDivides
<1>4. CASE n >= 0
  <2>1. Divides(0, n, P) /\ Divides(0, n, 2 * P)
    BY <1>1, <1>4 DEF Divides
  <2>2. n \div P = 0 /\ n \div (2 * P) = 0
    BY <1>1, <1>2, <1>3, <2>1, OneQuotient
  <2> QED
    BY <1>1, <2>2 DEF PyBit, P
<1>5. CASE n < 0
  <2>1. Divides(-1, n, P) /\ Divides(-1, n, 2 * P)
    BY <1>1, <1>5 DEF Divides
  <2>2. n \div P = -1 /\ n \div (2 * P) = -1
    BY <1>1, <1>2, <1>3, <2>1, OneQuotient
  <2> QED
    BY <1>1, <2>2 DEF PyBit, P
<1> QED
  BY <1>1, <1>4, <1>5

\* A number has the bits it is made of.
LEMMA FromBitsBits ==
  ASSUME NEW bits \in Bits
  PROVE  \A k \in Places : PyBit(FromBits(bits), k) = bits[k]
<1>1. PICK f : Sums(f, bits) /\ FromBits(bits) = Wrap(f[Width])
  BY BitSums
<1>2. /\ f \in [Nat -> Nat] /\ f[0] = 0
      /\ \A n \in Places : f[n + 1] = f[n] + bits[n] * Pow2[n]
  BY <1>1 DEF Sums
<1>3. Width \in Nat /\ \A n \in Places : n \in Nat /\ n + 1 \in Nat /\ bits[n] \in {0, 1}
  BY WordFacts DEF Places, Bits
<1>4. \A n \in Nat : Pow2[n] \in Nat \ {0} /\ Pow2[n + 1] = 2 * Pow2[n]
  BY Pow2Facts
<1> DEFINE Low == {n \in Nat : n <= Width => f[n] < Pow2[n]}
<1>5. 0 \in Low
  BY <1>2, <1>4
<1>6. ASSUME NEW n \in Nat, n \in Low PROVE n + 1 \in Low
  <2>1. SUFFICES ASSUME n + 1 <= Width PROVE f[n + 1] < Pow2[n + 1]
    OBVIOUS
  <2>2. n \in Places
    BY <1>3, <2>1 DEF Places
  <2>3. f[n] \in Nat /\ f[n] < Pow2[n] /\ Pow2[n] \in Nat
    BY <1>2, <1>3, <1>4, <1>6, <2>1
  <2>4. f[n + 1] = f[n] + bits[n] * Pow2[n] /\ Pow2[n + 1] = 2 * Pow2[n]
    BY <1>2, <1>4, <2>2
  <2>5. bits[n] * Pow2[n] = 0 \/ bits[n] * Pow2[n] = Pow2[n]
    BY <1>3, <2>2, <2>3
  <2> QED
    BY <2>3, <2>4, <2>5
<1> HIDE DEF Low
<1>7. \A n \in Nat : n \in Low
  BY <1>5, <1>6, SetInduction
\* f[j] is what the lowest j bits of f[n] are.
<1>8. ASSUME NEW j \in Nat, j <= Width
      PROVE  \A n \in Nat : j + n <= Width => f[j + n] % Pow2[j] = f[j]
  <2> DEFINE T == {n \in Nat : j + n <= Width => f[j + n] % Pow2[j] = f[j]}
  <2>1. 0 \in T
    <3>1. f[j] \in Nat /\ f[j] < Pow2[j] /\ Pow2[j] \in Nat \ {0}
      BY <1>2, <1>4, <1>7, <1>8 DEF Low
    <3>2. \A x, y \in Nat : x < y => x % y = x
      OBVIOUS
    <3>3. f[j] % Pow2[j] = f[j] /\ j + 0 = j
      BY <3>1, <3>2
    <3> QED
      BY <3>3
  <2>2. ASSUME NEW n \in Nat, n \in T PROVE n + 1 \in T
    <3> SUFFICES ASSUME j + (n + 1) <= Width PROVE f[j + (n + 1)] % Pow2[j] = f[j]
      OBVIOUS
    <3>1. j + n \in Places /\ j + (n + 1) = (j + n) + 1 /\ j + n <= Width
      BY <1>3, <1>8 DEF Places
    <3>2. f[j + (n + 1)] = f[j + n] + bits[j + n] * Pow2[j + n]
      BY <1>2, <3>1
    <3>3. Pow2[j + n] = Pow2[j] * Pow2[n] /\ Pow2[j] \in Nat \ {0} /\ Pow2[n] \in Nat
      BY <1>4, Pow2Sum
    <3>4. bits[j + n] \in Int /\ f[j + n] \in Int
      BY <1>2, <1>3, <3>1
    <3>5. /\ Pow2[n] * bits[j + n] \in Int
          /\ bits[j + n] * Pow2[j + n] = Pow2[j] * (Pow2[n] * bits[j + n])
      BY <3>3, <3>4
    <3>6. (f[j + n] + Pow2[j] * (Pow2[n] * bits[j + n])) % Pow2[j] = f[j + n] % Pow2[j]
      BY <3>3, <3>4, <3>5, ModMultiple, Zenon
    <3> QED
      BY <2>2, <3>1, <3>2, <3>5, <3>6
  <2> HIDE DEF T
  <2>3. \A n \in Nat : n \in T
    BY <2>1, <2>2, SetInduction
  <2> QED
    BY <2>3 DEF T
<1>9. ASSUME NEW k \in Places PROVE PyBit(f[Width], k) = bits[k]
  <2>1. /\ k \in Nat /\ k + 1 \in Nat /\ Width - k \in Nat /\ Width - (k + 1) \in Nat
        /\ k + (Width - k) = Width /\ (k + 1) + (Width - (k + 1)) = Width
        /\ k <= Width /\ k + 1 <= Width /\ Width <= Width
    BY <1>3 DEF Places
  <2>2. f[Width] % Pow2[k] = f[k]
    BY <1>8, <2>1
  <2>3. f[Width] % Pow2[k + 1] = f[k + 1]
    BY <1>8, <2>1
  <2>4. f[Width] \in Int /\ f[k] \in Int
    BY <1>2, <1>3, <2>1
  <2>5. f[k + 1] = f[k] + Pow2[k] * PyBit(f[Width], k)
    BY <2>1, <2>2, <2>3, <2>4, NextBit
  <2>6. f[k + 1] = f[k] + bits[k] * Pow2[k]
    BY <1>2
  <2>7. \A m, P \in Int, x, y \in {0, 1} : P # 0 /\ m + P * x = m + y * P => x = y
    OBVIOUS
  <2>8. PyBit(f[Width], k) \in {0, 1} /\ bits[k] \in {0, 1} /\ Pow2[k] \in Nat \ {0}
    BY <1>3, <1>4, <2>1, <2>4, PyBitIsABit
  <2> QED
    BY <2>4, <2>5, <2>6, <2>7, <2>8
<1>10. f[Width] \in Int
  BY <1>2, <1>3
<1>11. PICK q \in Int : Wrap(f[Width]) = f[Width] + Pow2[Width] * q
  BY <1>10, WrapMultiple
<1> QED
  BY <1>1, <1>9, <1>10, <1>11, LowBits

\* A number is known by its bits.
LEMMA SameBits ==
  ASSUME NEW n \in -Pow2[Width]..(Pow2[Width] - 1), NEW m \in -Pow2[Width]..(Pow2[Width] - 1),
         \A k \in 0..Width : PyBit(n, k) = PyBit(m, k)
  PROVE  n = m
<1>1. Width \in Nat /\ Pow2[Width] \in Nat \ {0} /\ n \in Int /\ m \in Int
  BY WordFacts
<1> DEFINE T == {j \in Nat : j <= Width + 1 => n % Pow2[j] = m % Pow2[j]}
<1>2. 0 \in T
  <2>1. \A x \in Int : x % 1 = 0
    OBVIOUS
  <2> QED
    BY <1>1, <2>1, Pow2Recursion
<1>3. ASSUME NEW j \in Nat, j \in T PROVE j + 1 \in T
  <2>1. SUFFICES ASSUME j + 1 <= Width + 1 PROVE n % Pow2[j + 1] = m % Pow2[j + 1]
    OBVIOUS
  <2>2. j \in 0..Width /\ n % Pow2[j] = m % Pow2[j]
    BY <1>1, <1>3, <2>1
  <2> QED
    BY <1>1, <2>2, NextBit
<1> HIDE DEF T
<1>4. \A j \in Nat : j \in T
  BY <1>2, <1>3, SetInduction
<1> DEFINE D == Pow2[Width + 1]
<1>5. D \in Nat \ {0} /\ n - m < D /\ m - n < D
  BY <1>1, Pow2Facts
<1>6. n % D = m % D
  BY <1>1, <1>4 DEF T
<1> HIDE DEF D
<1> DEFINE x == n \div D
           y == m \div D
           z == n % D
<1>7. x \in Int /\ y \in Int /\ z \in Int /\ n = D * x + z /\ m = D * y + z
  BY <1>1, <1>5, <1>6, DivisionLeaves
<1> HIDE DEF x, y, z
<1>8. D * x \in Int /\ D * y \in Int /\ D * (x - y) = D * x - D * y /\ x - y \in Int
  BY <1>5, <1>7
<1>9. D * (x - y) < D /\ D * (x - y) > -D
  BY <1>5, <1>7, <1>8
<1>10. \A d \in Int : d >= 1 => D * d >= D
  BY <1>5
<1>11. \A d \in Int : d <= -1 => D * d <= -D
  <2> SUFFICES ASSUME NEW d \in Int, d <= -1 PROVE D * d <= -D
    OBVIOUS
  <2>1. -d \in Int /\ -d >= 1 /\ D * (-d) = -(D * d) /\ D * d \in Int
    BY <1>5
  <2>2. D * (-d) >= D
    BY <1>10, <2>1
  <2> QED
    BY <1>5, <2>1, <2>2
<1>12. x - y = 0
  <2>1. ~(x - y >= 1)
    BY <1>5, <1>8, <1>9, <1>10
  <2>2. ~(x - y <= -1)
    BY <1>5, <1>8, <1>9, <1>11
  <2> QED
    BY <1>8, <2>1, <2>2
<1> QED
  BY <1>5, <1>7, <1>8, <1>12

LEMMA OfItsBits ==
  ASSUME NEW n \in MinInt..MaxInt
  PROVE  OfBits(PyBits(n)) = n
<1> DEFINE R == -Pow2[Width]..(Pow2[Width] - 1)
<1>1. n \in R /\ R \subseteq Int /\ Width \in Nat
  BY WordFacts
<1>2. ASSUME NEW m \in R, PyBits(m) = PyBits(n) PROVE m = n
  <2>1. ASSUME NEW k \in 0..Width PROVE PyBit(m, k) = PyBit(n, k)
    <3>1. PyBit(m, k) \in {0, 1} /\ PyBit(n, k) \in {0, 1}
      BY <1>1, PyBitIsABit
    <3>2. PyBit(m, k) = 1 <=> PyBit(n, k) = 1
      BY <1>2 DEF PyBits
    <3> QED
      BY <3>1, <3>2
  <2> QED
    BY <1>1, <2>1, SameBits
<1>3. (CHOOSE m \in R : PyBits(m) = PyBits(n)) = n
  <2> HIDE DEF R
  <2> QED
    BY <1>1, <1>2
<1> QED
  BY <1>3 DEF OfBits

\* Bits put together place by place are those of the whole numbers.
LEMMA PlaceByPlace ==
  ASSUME NEW bits \in Bits, NEW B,
         \A k \in 0..Width :
           k \in B <=> bits[IF k = Width THEN Width - 1 ELSE k] = 1,
         B \subseteq 0..Width
  PROVE  OfBits(B) = FromBits(bits)
<1> DEFINE n == FromBits(bits)
<1>1. n \in MinInt..MaxInt /\ n \in Int
  BY FromBitsFits, WordFacts
<1>2. Width - 1 \in Places /\ \A k \in 0..Width : k = Width \/ k \in Places
  BY WordFacts DEF Places
<1>3. \A k \in Places : PyBit(n, k) = bits[k]
  BY FromBitsBits
<1>4. PyBit(n, Width) = bits[Width - 1]
  BY <1>1, <1>2, <1>3, SignBit
<1> HIDE DEF n
<1>5. \A k \in 0..Width : k \in PyBits(n) <=> k \in B
  <2> SUFFICES ASSUME NEW k \in 0..Width PROVE PyBit(n, k) = 1 <=> k \in B
    BY DEF PyBits
  <2>1. CASE k = Width
    BY <1>4, <2>1
  <2>2. CASE k # Width
    BY <1>2, <1>3, <2>2
  <2> QED
    BY <2>1, <2>2
<1>6. PyBits(n) = B
  BY <1>5 DEF PyBits
<1> QED
  BY <1>1, <1>6, OfItsBits DEF n

LEMMA BitwiseAgrees ==
  ASSUME NEW l \in MinInt..MaxInt, NEW r \in MinInt..MaxInt
  PROVE  /\ OrBits(l, r) = OfBits(PyBits(l) \cup PyBits(r))
         /\ AndBits(l, r) = OfBits(PyBits(l) \cap PyBits(r))
         /\ XorBits(l, r) = OfBits((PyBits(l) \cup PyBits(r)) \ (PyBits(l) \cap PyBits(r)))
<1> DEFINE place(k) == IF k = Width THEN Width - 1 ELSE k
<1>1. l \in Int /\ r \in Int
  BY WordFacts
<1>2. \A k \in 0..Width : place(k) \in Places
  BY WordFacts DEF Places
<1>3. \A k \in Places : Bit(l, k) \in {0, 1} /\ Bit(r, k) \in {0, 1}
  <2>1. \A k \in Places : k \in Nat
    BY WordFacts DEF Places
  <2> QED
    BY <1>1, <2>1, BitIsABit
<1>4. \A k \in 0..Width : /\ k \in PyBits(l) <=> Bit(l, place(k)) = 1
                          /\ k \in PyBits(r) <=> Bit(r, place(k)) = 1
  <2> SUFFICES ASSUME NEW k \in 0..Width
               PROVE  /\ PyBit(l, k) = 1 <=> Bit(l, place(k)) = 1
                      /\ PyBit(r, k) = 1 <=> Bit(r, place(k)) = 1
    BY DEF PyBits
  <2>1. /\ PyBit(l, place(k)) = Bit(l, place(k))
        /\ PyBit(r, place(k)) = Bit(r, place(k))
    BY <1>1, <1>2, BitAgrees
  <2>2. PyBit(l, k) = PyBit(l, place(k)) /\ PyBit(r, k) = PyBit(r, place(k))
    BY SignBit
  <2> QED
    BY <2>1, <2>2
<1>5. PyBits(l) \subseteq 0..Width /\ PyBits(r) \subseteq 0..Width
  BY DEF PyBits
<1>6. OrBits(l, r) = OfBits(PyBits(l) \cup PyBits(r))
  <2> DEFINE bits == [k \in Places |-> IF Bit(l, k) + Bit(r, k) > 0 THEN 1 ELSE 0]
  <2>1. bits \in Bits
    BY DEF Bits
  <2>2. \A k \in Places : bits[k] = 1 <=> Bit(l, k) = 1 \/ Bit(r, k) = 1
    BY <1>3
  <2>3. OrBits(l, r) = FromBits(bits)
    BY DEF OrBits, Places
  <2> HIDE DEF bits
  <2>4. \A k \in 0..Width : k \in PyBits(l) \cup PyBits(r) <=> bits[place(k)] = 1
    BY <1>2, <1>4, <2>2
  <2>5. PyBits(l) \cup PyBits(r) \subseteq 0..Width
    BY <1>5
  <2> QED
    BY <2>1, <2>3, <2>4, <2>5, PlaceByPlace
<1>7. AndBits(l, r) = OfBits(PyBits(l) \cap PyBits(r))
  <2> DEFINE bits == [k \in Places |-> Bit(l, k) * Bit(r, k)]
  <2>1. \A x, y \in {0, 1} : x * y \in {0, 1} /\ (x * y = 1 <=> x = 1 /\ y = 1)
    OBVIOUS
  <2>2. bits \in Bits
    BY <1>3, <2>1 DEF Bits
  <2>3. \A k \in Places : bits[k] = 1 <=> Bit(l, k) = 1 /\ Bit(r, k) = 1
    BY <1>3, <2>1
  <2>4. AndBits(l, r) = FromBits(bits)
    BY DEF AndBits, Places
  <2> HIDE DEF bits
  <2>5. \A k \in 0..Width : k \in PyBits(l) \cap PyBits(r) <=> bits[place(k)] = 1
    BY <1>2, <1>4, <2>3
  <2>6. PyBits(l) \cap PyBits(r) \subseteq 0..Width
    BY <1>5
  <2> QED
    BY <2>2, <2>4, <2>5, <2>6, PlaceByPlace
<1>8. XorBits(l, r) = OfBits((PyBits(l) \cup PyBits(r)) \ (PyBits(l) \cap PyBits(r)))
  <2> DEFINE bits == [k \in Places |-> (Bit(l, k) + Bit(r, k)) % 2]
             B == (PyBits(l) \cup PyBits(r)) \ (PyBits(l) \cap PyBits(r))
  <2>1. \A x, y \in {0, 1} : (x + y) % 2 \in {0, 1} /\ ((x + y) % 2 = 1 <=> (x = 1) # (y = 1))
    OBVIOUS
  <2>2. bits \in Bits
    BY <1>3, <2>1 DEF Bits
  <2>3. \A k \in Places : bits[k] = 1 <=> (Bit(l, k) = 1) # (Bit(r, k) = 1)
    BY <1>3, <2>1
  <2>4. XorBits(l, r) = FromBits(bits)
    BY DEF XorBits, Places
  <2> HIDE DEF bits
  <2>5. \A k \in 0..Width : k \in B <=> (k \in PyBits(l)) # (k \in PyBits(r))
    OBVIOUS
  <2>6. \A k \in 0..Width : k \in B <=> bits[place(k)] = 1
    BY <1>2, <1>4, <2>3, <2>5
  <2>7. B \subseteq 0..Width
    BY <1>5
  <2> HIDE DEF B
  <2>8. FromBits(bits) = OfBits(B)
    BY <2>2, <2>6, <2>7, PlaceByPlace
  <2> QED
    BY <2>4, <2>8 DEF B
<1> QED
  BY <1>6, <1>7, <1>8

-----------------------------------------------------------------------------
(* The operators give what Python gives.                                   *)

LEMMA IntAgrees ==
  ASSUME NEW l \in MinInt..MaxInt, NEW r \in MinInt..MaxInt, NEW op \in BinOps,
         Portable(op, l, r)
  PROVE  IntArith(op, l, r) = Ok(IntV(PyInt(op, l, r)))
<1>1. l \in Int /\ r \in Int /\ Width \in Nat
  BY WordFacts
<1>2. Fits(PyInt(op, l, r)) /\ PyDefined(op, l, r)
  BY DEF Portable
<1>3. \A n \in Int : Fits(n) => Wrap(n) = n
  BY WrapFacts
<1>4. CASE op = "Add"
  <2>1. PyInt(op, l, r) = l + r /\ IntArith(op, l, r) = Ok(IntV(Wrap(l + r)))
    BY <1>4 DEF PyInt, IntArith
  <2> QED
    BY <1>1, <1>2, <1>3, <2>1
<1>5. CASE op = "Sub"
  <2>1. PyInt(op, l, r) = l - r /\ IntArith(op, l, r) = Ok(IntV(Wrap(l - r)))
    BY <1>5 DEF PyInt, IntArith
  <2> QED
    BY <1>1, <1>2, <1>3, <2>1
<1>6. CASE op = "Mult"
  <2>1. PyInt(op, l, r) = l * r /\ IntArith(op, l, r) = Ok(IntV(Wrap(l * r)))
    BY <1>6 DEF PyInt, IntArith
  <2>2. l * r \in Int
    BY <1>1
  <2> QED
    BY <1>2, <1>3, <2>1, <2>2
<1>7. CASE op \in {"Mod", "FloorDiv"}
  <2>1. r # 0 /\ l * r >= 0 /\ Fits(FloorQuotient(l, r))
    BY <1>7 DEF Portable, PyDefined
  <2>2. ~Traps(l, r) /\ FloorQuotient(l, r) = Quotient(l, r)
    BY <2>1, DivisionAgrees
  <2>3. CASE op = "Mod"
    <3>1. PyInt(op, l, r) = l - r * FloorQuotient(l, r)
      BY <2>3 DEF PyInt
    <3>2. IntArith(op, l, r) = Ok(IntV(Remainder(l, r)))
      BY <2>2, <2>3 DEF IntArith
    <3> QED
      BY <2>2, <3>1, <3>2 DEF Remainder
  <2>4. CASE op = "FloorDiv"
    <3>1. PyInt(op, l, r) = FloorQuotient(l, r)
      BY <2>4 DEF PyInt
    <3>2. IntArith(op, l, r) = Ok(IntV(Quotient(l, r)))
      BY <2>2, <2>4 DEF IntArith
    <3> QED
      BY <2>2, <3>1, <3>2
  <2> QED
    BY <1>7, <2>3, <2>4
<1>8. CASE op = "Div"
  BY <1>2, <1>8 DEF PyDefined
<1>9. CASE op = "Pow"
  <2>1. r >= 0
    BY <1>2, <1>9 DEF PyDefined
  <2>2. PyInt(op, l, r) = IF r = 0 THEN 1 ELSE l^r
    BY <1>9 DEF PyInt
  <2>3. IntArith(op, l, r) = Ok(IntV(Power(l, r)))
    BY <1>9 DEF IntArith
  <2>4. CASE r = 0
    BY <2>2, <2>3, <2>4 DEF Power
  <2>5. CASE r > 0
    <3>1. Fits(l^r) /\ PyInt(op, l, r) = l^r
      BY <1>2, <2>2, <2>5
    <3>2. Double(l) = l /\ Double(r) = r /\ Double(l^r) = l^r
      BY <1>9, <3>1 DEF Portable, Double
    <3>3. Power(l, r) = l^r
      BY <1>1, <2>5, <3>1, <3>2 DEF Power
    <3> QED
      BY <2>3, <3>1, <3>3
  <2> QED
    BY <1>1, <2>1, <2>4, <2>5
<1>10. ASSUME op \in {"LShift", "RShift"} PROVE r \in Nat /\ r % Width = r
  <2>1. r >= 0 /\ r < Width
    BY <1>2, <1>10 DEF Portable, PyDefined
  <2>2. \A x, y \in Nat : x < y => x % y = x
    OBVIOUS
  <2> QED
    BY <1>1, <2>1, <2>2
<1>11. CASE op = "LShift"
  <2>1. /\ PyInt(op, l, r) = l * Pow2[r]
        /\ IntArith(op, l, r) = Ok(IntV(Wrap(l * Pow2[r % Width])))
    BY <1>11 DEF PyInt, IntArith
  <2>2. r % Width = r /\ l * Pow2[r] \in Int
    <3>1. r \in Nat /\ r % Width = r
      BY <1>10, <1>11
    <3>2. Pow2[r] \in Nat
      BY <3>1, Pow2Facts
    <3> QED
      BY <1>1, <3>1, <3>2
  <2> QED
    BY <1>2, <1>3, <2>1, <2>2
<1>12. CASE op = "RShift"
  <2>1. /\ PyInt(op, l, r) = FloorQuotient(l, Pow2[r])
        /\ IntArith(op, l, r) = Ok(IntV(ShiftRight(l, r % Width)))
    BY <1>12 DEF PyInt, IntArith
  <2>2. r \in Nat /\ r % Width = r
    BY <1>10, <1>12
  <2> QED
    BY <1>1, <2>1, <2>2, ShiftAgrees
<1>13. CASE op = "BitOr"
  BY <1>13, BitwiseAgrees DEF PyInt, IntArith
<1>14. CASE op = "BitXor"
  BY <1>14, BitwiseAgrees DEF PyInt, IntArith
<1>15. CASE op = "BitAnd"
  BY <1>15, BitwiseAgrees DEF PyInt, IntArith
<1> QED
  BY <1>4, <1>5, <1>6, <1>7, <1>8, <1>9, <1>11, <1>12, <1>13, <1>14, <1>15 DEF BinOps

LEMMA BoolAgrees ==
  ASSUME NEW l \in BOOLEAN, NEW r \in BOOLEAN, NEW op \in {"Add", "Sub", "Mult"}
  PROVE  LET n(b) == IF b THEN 1 ELSE 0
         IN  BoolArith(op, l, r) = Ok(IntV(PyInt(op, n(l), n(r))))
<1> DEFINE n(b) == IF b THEN 1 ELSE 0
<1>1. n(l /\ r) = n(l) * n(r)
  OBVIOUS
<1>2. CASE op = "Add"
  BY <1>2 DEF BoolArith, PyInt
<1>3. CASE op = "Sub"
  BY <1>3 DEF BoolArith, PyInt
<1>4. CASE op = "Mult"
  <2>1. BoolArith(op, l, r) = Ok(IntV(n(l /\ r))) /\ PyInt(op, n(l), n(r)) = n(l) * n(r)
    BY <1>4 DEF BoolArith, PyInt
  <2> QED
    BY <1>1, <2>1
<1> QED
  BY <1>2, <1>3, <1>4

LEMMA BinOpIsPython ==
  ASSUME did.op \in BinOps, did.args[1] \in Value, did.args[2] \in Value,
         did.out = BinOp(did.op, did.args[1], did.args[2])
  PROVE  BinOpAgrees
<1> DEFINE l == did.args[1]
           r == did.args[2]
           n(b) == IF b THEN 1 ELSE 0
<1>1. ASSUME l.type = "int", r.type = "int", Portable(did.op, l.val, r.val)
      PROVE  Result(IntV(PyInt(did.op, l.val, r.val)))
  <2>1. l.val \in MinInt..MaxInt /\ r.val \in MinInt..MaxInt
    BY <1>1, ValueFacts
  <2>2. did.out = IntArith(did.op, l.val, r.val)
    BY <1>1 DEF BinOp
  <2> QED
    BY <1>1, <2>1, <2>2, IntAgrees DEF Result
<1>2. ASSUME l.type = "bool", r.type = "bool", did.op \in {"Add", "Sub", "Mult"}
      PROVE  Result(IntV(PyInt(did.op, n(l.val), n(r.val))))
  <2>1. l.val \in BOOLEAN /\ r.val \in BOOLEAN
    BY <1>2, ValueFacts
  <2>2. did.out = BoolArith(did.op, l.val, r.val)
    BY <1>2 DEF BinOp
  <2> QED
    BY <1>2, <2>1, <2>2, BoolAgrees DEF Result
<1>3. ASSUME l.type = "string", r.type = "string", did.op = "Add"
      PROVE  Result(StrV(l.val \o r.val))
  BY <1>3 DEF BinOp, StringArith, Result
<1>4. ASSUME did.op = "Mult", l.type = "string", r.type = "int", r.val >= 0
      PROVE  /\ did.out.kind = "value" /\ Len(did.out.value.val) = r.val * Len(l.val)
             /\ \A k \in 1..(r.val * Len(l.val)) :
                  did.out.value.val[k] = l.val[((k - 1) % Len(l.val)) + 1]
  <2>1. r.val \in Nat /\ l.val \in Strings
    <3>1. r.val \in MinInt..MaxInt /\ MinInt \in Int /\ MaxInt \in Int
      BY <1>4, ValueFacts, WordFacts
    <3> QED
      BY <1>4, <3>1, ValueFacts
  <2>2. did.out = StringArith("Mult", l.val, r)
    BY <1>4 DEF BinOp
  <2>3. ~(r.val < 0)
    BY <2>1
  <2>4. StringArith("Mult", l.val, r) = Ok(StrV(Repeat(l.val, r.val)))
    BY <1>4, <2>3 DEF StringArith
  <2>5. did.out.kind = "value" /\ did.out.value.val = Repeat(l.val, r.val)
    BY <2>2, <2>4 DEF Ok, StrV
  <2>6. Repeats(Repeat(l.val, r.val), l.val, r.val)
    BY <2>1, RepeatRepeats DEF Strings
  <2> QED
    BY <2>5, <2>6 DEF Repeats
<1>5. \A type : Both(type) => l.type = type /\ r.type = type
  BY DEF Both
<1> QED
  BY <1>1, <1>2, <1>3, <1>4, <1>5 DEF BinOpAgrees

LEMMA ElementIsPython ==
  ASSUME DidInv, did.op \in {"element", "set"}
  PROVE  ElementAgrees
<1> DEFINE s == did.args[1].val
           k == did.args[2].val
<1> SUFFICES ASSUME did.args[1].type = "list", did.args[2].type = "int", k >= 0 \/ k < -Len(s)
             PROVE  IF k + 1 \in DOMAIN s
                    THEN did.op = "element" => did.out = Ok(s[k + 1])
                    ELSE did.out.kind = "thrown"
  BY DEF ElementAgrees
<1>1. /\ s \in Seq(Value) /\ k \in Int
      /\ did.op = "element" => did.out \in Element(s, k)
      /\ did.op = "set" /\ k + 1 \notin DOMAIN s => did.out = Fail("thrown")
  BY DEF DidInv
<1> HIDE DEF s, k
<1>2. Len(s) \in Nat /\ DOMAIN s = 1..Len(s)
  BY <1>1
<1>3. ASSUME k + 1 \in DOMAIN s PROVE Element(s, k) = {Ok(s[k + 1])}
  <2>1. 0 <= k /\ k < Len(s)
    BY <1>1, <1>2, <1>3
  <2>2. ~(Abs(k) >= Len(s))
    BY <1>1, <1>2, <2>1 DEF Abs
  <2> QED
    BY <1>1, <1>2, <2>1, <2>2 DEF Element
<1>4. ASSUME k + 1 \notin DOMAIN s PROVE Element(s, k) = {Fail("thrown")}
  <2>1. Abs(k) >= Len(s)
    <3>1. k >= Len(s) \/ k < -Len(s)
      BY <1>1, <1>2, <1>4
    <3> QED
      BY <1>1, <1>2, <3>1 DEF Abs
  <2>2. ~(0 <= k /\ k < Len(s)) /\ ~(k < 0 /\ -k < Len(s))
    BY <1>1, <1>2, <2>1 DEF Abs
  <2> QED
    BY <2>1, <2>2 DEF Element
<1>5. CASE k + 1 \in DOMAIN s
  BY <1>1, <1>3, <1>5
<1>6. CASE k + 1 \notin DOMAIN s
  <2>1. did.out = Fail("thrown")
    BY <1>1, <1>4, <1>6
  <2> QED
    BY <1>6, <2>1 DEF Fail
<1> QED
  BY <1>5, <1>6

\* The operands of an operation on a list.
LEMMA ContentsFacts ==
  ASSUME ETypeOK, NEW y \in Bound, NEW z \in Bound,
         Contents(env[y]).type = "list", env[z].type = "int"
  PROVE  /\ IsList(env[y]) /\ Contents(env[y]).val = lists[env[y].val]
         /\ lists[env[y].val] \in Seq(Value) /\ env[z].val \in Int
<1>1. env[y] \in Value /\ env[z] \in Value
  BY BoundIsValue
<1>2. IsList(env[y])
  <2>1. ASSUME ~IsList(env[y]) PROVE FALSE
    BY <2>1 DEF Contents, IsList
  <2> QED
    BY <2>1
<1>3. Contents(env[y]).val = lists[env[y].val] /\ env[y].val \in Lists
  BY <1>1, <1>2, ValueFacts DEF Contents, IsList
<1>4. env[z].val \in Int
  BY <1>1, ValueFacts, WordFacts
<1> QED
  BY <1>2, <1>3, <1>4 DEF ETypeOK

LEMMA StepKeepsDid ==
  ASSUME ETypeOK, DidInv, ENext
  PROVE  DidInv'
<1>1. ASSUME NEW op, NEW args, NEW out, Done(op, args, out),
             op \notin BinOps \cup {"element", "set"}
      PROVE  DidInv'
  <2>1. did'.op = op
    BY <1>1 DEF Done
  <2> QED
    BY <1>1, <2>1 DEF DidInv
<1>2. ASSUME NEW op \in BinOps, NEW l \in Value, NEW r \in Value,
             Done(op, <<l, r>>, BinOp(op, l, r))
      PROVE  DidInv'
  <2>1. did' = [op |-> op, args |-> <<l, r>>, out |-> BinOp(op, l, r)]
    BY <1>2 DEF Done
  <2>2. did'.op = op /\ did'.args[1] = l /\ did'.args[2] = r /\ did'.out = BinOp(op, l, r)
    BY <2>1
  <2>3. op \notin {"element", "set"}
    BY DEF BinOps
  <2> QED
    BY <2>2, <2>3 DEF DidInv
<1>3. ASSUME NEW op \in {"element", "set"}, NEW y \in Bound, NEW z \in Bound, NEW out,
             Done(op, <<Contents(env[y]), env[z]>>, out),
             ASSUME Contents(env[y]).type = "list", env[z].type = "int"
             PROVE  /\ op = "element" => out \in Element(lists[env[y].val], env[z].val)
                    /\ op = "set" /\ env[z].val + 1 \notin DOMAIN lists[env[y].val]
                         => out = Fail("thrown")
      PROVE  DidInv'
  <2>1. /\ did'.op = op /\ did'.out = out
        /\ did'.args[1] = Contents(env[y]) /\ did'.args[2] = env[z]
    BY <1>3 DEF Done
  <2>2. op \notin BinOps
    BY DEF BinOps
  <2>3. CASE Contents(env[y]).type = "list" /\ env[z].type = "int"
    BY <1>3, <2>1, <2>2, <2>3, ContentsFacts DEF DidInv
  <2>4. CASE ~(Contents(env[y]).type = "list" /\ env[z].type = "int")
    BY <2>1, <2>2, <2>4 DEF DidInv
  <2> QED
    BY <2>3, <2>4
<1>4. ASSUME NEW x \in Names, AssignBinOp(x) PROVE DidInv'
  <2>1. PICK op \in BinOps, y \in Bound, z \in Bound :
          Store(x, op, <<env[y], env[z]>>, BinOp(op, env[y], env[z]))
    BY <1>4 DEF AssignBinOp
  <2> QED
    BY <1>2, <2>1, BoundIsValue DEF Store
<1>5. ASSUME NEW x \in Names, AssignElement(x) PROVE DidInv'
  <2> DEFINE Indexes(y, z) == IsList(env[y]) /\ env[z].type = "int"
             outs(y, z) == IF Indexes(y, z) THEN Element(lists[env[y].val], env[z].val)
                           ELSE {Fail("thrown")}
  <2>1. PICK y \in Bound, z \in Bound :
          \E out \in outs(y, z) : Store(x, "element", <<Contents(env[y]), env[z]>>, out)
    BY <1>5 DEF AssignElement
  <2>2. PICK out \in outs(y, z) : Store(x, "element", <<Contents(env[y]), env[z]>>, out)
    BY <2>1
  <2>3. ASSUME Contents(env[y]).type = "list", env[z].type = "int"
        PROVE  out \in Element(lists[env[y].val], env[z].val)
    BY <2>2, <2>3, ContentsFacts
  <2>4. Done("element", <<Contents(env[y]), env[z]>>, out)
    BY <2>2 DEF Store
  <2> QED
    BY <1>3, <2>3, <2>4
<1>6. CASE SetElement
  <2> DEFINE args(y, z) == <<Contents(env[y]), env[z]>>
             InList(y, z) == /\ IsList(env[y]) /\ env[z].type = "int"
                             /\ env[z].val + 1 \in DOMAIN lists[env[y].val]
  <2>1. PICK y \in Bound, z \in Bound, w \in Bound :
          IF InList(y, z) THEN Done("set", args(y, z), Ok(env[w]))
          ELSE Done("set", args(y, z), Fail("thrown"))
    BY <1>6 DEF SetElement
  <2> DEFINE out == IF InList(y, z) THEN Ok(env[w]) ELSE Fail("thrown")
  <2>2. Done("set", args(y, z), out)
    BY <2>1
  <2>3. ASSUME env[z].val + 1 \notin DOMAIN lists[env[y].val] PROVE out = Fail("thrown")
    BY <2>3
  <2> HIDE DEF out
  <2> QED
    BY <1>3, <2>2, <2>3
<1>7. CASE AddElement
  <2>1. PICK args, out : Done("extend", args, out)
    BY <1>7 DEF AddElement
  <2>2. "extend" \notin BinOps \cup {"element", "set"}
    BY DEF BinOps
  <2> QED
    BY <1>1, <2>1, <2>2
<1>8. ASSUME NEW x \in Names,
             \/ AssignConstant(x) \/ AssignName(x) \/ AssignUnaryOp(x)
             \/ AssignCompare(x) \/ AssignBoolOp(x) \/ AssignConversion(x)
             \/ AssignPrint(x) \/ AssignList(x)
      PROVE  DidInv'
  <2> DEFINE Others == {"Constant", "Name", "str", "float", "int", "print", "list"}
                         \cup UnaryOps \cup CmpOps \cup {"And", "Or"}
  <2>1. \A op \in Others : op \notin BinOps \cup {"element", "set"}
    BY DEF BinOps, UnaryOps, CmpOps
  <2>2. \E op \in Others : \E args, out : Store(x, op, args, out)
    <3>1. CASE AssignConstant(x)
      BY <3>1 DEF AssignConstant
    <3>2. CASE AssignName(x)
      BY <3>2 DEF AssignName
    <3>3. CASE AssignUnaryOp(x)
      BY <3>3 DEF AssignUnaryOp
    <3>4. CASE AssignCompare(x)
      BY <3>4 DEF AssignCompare
    <3>5. CASE AssignBoolOp(x)
      BY <3>5 DEF AssignBoolOp
    <3>6. CASE AssignConversion(x)
      BY <3>6 DEF AssignConversion
    <3>7. CASE AssignPrint(x)
      BY <3>7 DEF AssignPrint
    <3>8. CASE AssignList(x)
      BY <3>8 DEF AssignList
    <3> QED
      BY <1>8, <3>1, <3>2, <3>3, <3>4, <3>5, <3>6, <3>7, <3>8
  <2> HIDE DEF Others
  <2>3. PICK op \in Others : \E args, out : Store(x, op, args, out)
    BY <2>2
  <2>4. PICK args, out : Store(x, op, args, out)
    BY <2>3
  <2> QED
    BY <1>1, <2>1, <2>4 DEF Store
<1>9. CASE Ended
  BY <1>9 DEF Ended, evars, DidInv
<1> QED
  BY <1>4, <1>5, <1>6, <1>7, <1>8, <1>9 DEF ENext

\* Arithmetic, bits, shifts, strings, conversions and indices give what Python
\* gives wherever the interpreter follows it, for every width of the machine's
\* word and every program: an operation records its operands and its result, and
\* the operators agree with Python's on all of them (interpreter.cpp 113-303,
\* 610-637, 748-843).
THEOREM PythonAgrees == ESpec => []AgreesWithPython
<1>1. EInit => DidInv
  BY DEF EInit, Nothing, DidInv, BinOps
<1>2. ETypeOK /\ DidInv /\ [ENext]_evars => DidInv'
  <2>1. DidInv /\ UNCHANGED evars => DidInv'
    BY DEF DidInv, evars
  <2> QED
    BY <2>1, StepKeepsDid
<1>3. ETypeOK /\ DidInv => AgreesWithPython
  <2> SUFFICES ASSUME ETypeOK, DidInv PROVE AgreesWithPython
    OBVIOUS
  <2>1. ASSUME did.op \in BinOps PROVE BinOpAgrees
    BY <2>1, BinOpIsPython DEF DidInv
  <2>2. ASSUME did.op \in {"element", "set"} PROVE ElementAgrees
    BY <2>2, ElementIsPython
  <2>3. StrAgrees
    <3> SUFFICES ASSUME NEW x \in Bound, env[x].type = "int"
                 PROVE  FromStr(Decimal(env[x].val)) = {env[x].val}
      BY DEF StrAgrees
    <3>1. env[x].val \in MinInt..MaxInt
      BY BoundIsValue, ValueFacts
    <3> QED
      BY <3>1, DecimalReadsBack
  <2> QED
    BY <2>1, <2>2, <2>3 DEF AgreesWithPython
<1> QED
  BY <1>1, <1>2, <1>3, ValuesFit, PTL DEF ESpec
=============================================================================
