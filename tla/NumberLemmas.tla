---------------------------- MODULE NumberLemmas ----------------------------
(***************************************************************************)
(* Least and greatest elements of sets of numbers, and integers modulo a   *)
(* word.  An argument that goes from one number to the next is made with   *)
(* the former: the least number of which a claim fails is not 0, and the   *)
(* claim holds of the one before it.                                       *)
(***************************************************************************)
EXTENDS Integers, FiniteSetsExt, WellFoundedInduction, TLAPS

\* A set of naturals that is not empty has a least element.
LEMMA LeastExists ==
  ASSUME NEW T \in SUBSET Nat, T # {}
  PROVE  \E m \in T : \A n \in T : m <= n
<1> DEFINE R == {ss \in Nat \X Nat : ss[1] < ss[2]}
<1>1. IsWellFoundedOn(OpToRel(<, Nat), Nat)
  BY NatLessThanWellFounded
<1>2. R = OpToRel(<, Nat)
  BY DEF OpToRel
<1>3. PICK x \in T : \A y \in T : <<y, x>> \notin R
  BY <1>1, <1>2, WFMin
<1>4. ASSUME NEW n \in T, n < x PROVE FALSE
  <2>1. <<n, x>> \in R
    BY <1>4
  <2> QED
    BY <2>1, <1>3
<1> QED
  BY <1>3, <1>4

\* Induction, for a set of numbers.
LEMMA SetInduction ==
  ASSUME NEW T, 0 \in T, \A n \in Nat : n \in T => n + 1 \in T
  PROVE  \A n \in Nat : n \in T
<1> DEFINE F == {n \in Nat : n \notin T}
<1>1. SUFFICES ASSUME F # {} PROVE FALSE
  OBVIOUS
<1>2. F \in SUBSET Nat
  OBVIOUS
<1>3. PICK i \in F : \A j \in F : i <= j
  BY <1>1, <1>2, LeastExists
<1>4. i - 1 \in Nat /\ (i - 1) + 1 = i /\ ~(i <= i - 1)
  BY <1>3
<1> QED
  BY <1>3, <1>4

\* Induction from all smaller numbers.
LEMMA StrongInduction ==
  ASSUME NEW T, \A n \in Nat : (\A m \in Nat : m < n => m \in T) => n \in T
  PROVE  \A n \in Nat : n \in T
<1> DEFINE F == {n \in Nat : n \notin T}
<1>1. SUFFICES ASSUME F # {} PROVE FALSE
  OBVIOUS
<1>2. F \in SUBSET Nat
  OBVIOUS
<1>3. PICK i \in F : \A j \in F : i <= j
  BY <1>1, <1>2, LeastExists
<1>4. \A m \in Nat : m < i => m \in T
  BY <1>3
<1> QED
  BY <1>3, <1>4

\* One that is bounded has a greatest, which is its Max.
LEMMA MaxIsGreatest ==
  ASSUME NEW k \in Nat, NEW S \in SUBSET (1..k), S # {}
  PROVE  Max(S) \in S /\ \A n \in S : n <= Max(S)
<1>1. \E m \in S : \A n \in S : m >= n
  <2> DEFINE T == {k - n : n \in S}
  <2>1. T \in SUBSET Nat /\ T # {}
    <3>1. \A n \in S : k - n \in Nat
      OBVIOUS
    <3> QED
      BY <3>1
  <2>2. PICK t \in T : \A u \in T : t <= u
    BY <2>1, LeastExists
  <2>3. PICK m \in S : t = k - m
    OBVIOUS
  <2>4. ASSUME NEW n \in S PROVE m >= n
    <3>1. k - m <= k - n
      BY <2>2, <2>3
    <3> QED
      BY <3>1
  <2> QED
    BY <2>4
<1>2. Max(S) = CHOOSE m \in S : \A n \in S : m >= n
  BY DEF Max
<1>3. Max(S) \in S /\ \A n \in S : Max(S) >= n
  BY <1>1, <1>2
<1> QED
  BY <1>3

-----------------------------------------------------------------------------
(* Integers modulo a word.                                                 *)

LEMMA ModUnique ==
  ASSUME NEW W \in Nat \ {0}, NEW q \in Int, NEW r \in 0..(W-1)
  PROVE  (W * q + r) % W = r
OBVIOUS

LEMMA DivisionLeaves ==
  ASSUME NEW W \in Nat \ {0}, NEW x \in Int
  PROVE  /\ (x % W) \in 0..(W-1)
         /\ x \div W \in Int
         /\ x = W * (x \div W) + (x % W)
OBVIOUS

\* A multiple of the word does not count.
LEMMA ModMultiple ==
  ASSUME NEW W \in Nat \ {0}, NEW q \in Int, NEW x \in Int
  PROVE  (x + W * q) % W = x % W
<1> DEFINE r == x % W
           d == x \div W
<1>1. r \in 0..(W-1) /\ d \in Int /\ x = W * d + r
  BY DivisionLeaves
<1> HIDE DEF r, d
<1>2. (W * (d + q) + r) % W = r
  BY <1>1, ModUnique
<1>3. ASSUME NEW p \in Int
      PROVE  W * p + W * q = W * (p + q)
  OBVIOUS
<1>4. x + W * q = W * (d + q) + r
  <2>1. W * d + W * q = W * (d + q)
    BY <1>1, <1>3
  <2>2. W * d \in Int /\ W * q \in Int /\ r \in Int
    BY <1>1
  <2> QED
    BY <1>1, <2>1, <2>2
<1> QED
  BY <1>2, <1>4 DEF r

\* A term may be wrapped before or after it is added or taken away.
LEMMA ModTerm ==
  ASSUME NEW W \in Nat \ {0}, NEW a \in Int, NEW b \in Int
  PROVE  /\ ((a % W) + b) % W = (a + b) % W
         /\ (b - (a % W)) % W = (b - a) % W
<1> DEFINE r == a % W
           d == a \div W
<1>1. r \in 0..(W-1) /\ d \in Int /\ a = W * d + r
  BY DivisionLeaves
<1> HIDE DEF r, d
<1>2. /\ W * d \in Int /\ r \in Int /\ -d \in Int
      /\ W * (-d) = -(W * d)
      /\ r + b \in Int /\ b - r \in Int
  BY <1>1
<1>3. ((r + b) + W * d) % W = (r + b) % W
  BY <1>2, <1>1, ModMultiple
<1>4. ((b - r) + W * (-d)) % W = (b - r) % W
  BY <1>2, ModMultiple
<1>5. a + b = (r + b) + W * d
  BY <1>1, <1>2
<1>6. b - a = (b - r) + W * (-d)
  BY <1>1, <1>2
<1> QED
  BY <1>3, <1>4, <1>5, <1>6 DEF r


-----------------------------------------------------------------------------
(* Recursive functions.                                                    *)

\* g follows the recursion on the numbers up to m: at a stop it has its start
\* value, elsewhere what a step makes of its value at a smaller number.
Follows(g, m, Stop, start, prev, step) ==
  \A n \in 0..m :
    g[n] = IF n \in Stop THEN start[n] ELSE step[<<n, g[prev[n]]>>]

IsRecursion(S, Stop, start, prev, step) ==
  /\ Stop \in SUBSET Nat /\ start \in [Nat -> S]
  /\ prev \in [Nat -> Nat] /\ \A n \in Nat \ Stop : prev[n] < n
  /\ step \in [Nat \X S -> S]

IsFunctionOf(f, S, Stop, start, prev, step) ==
  /\ f \in [Nat -> S]
  /\ \A n \in Nat : f[n] = IF n \in Stop THEN start[n] ELSE step[<<n, f[prev[n]]>>]

\* A definition by recursion on smaller numbers has a function that satisfies it.
LEMMA RecursionExists ==
  ASSUME NEW S, NEW Stop, NEW start, NEW prev, NEW step,
         IsRecursion(S, Stop, start, prev, step)
  PROVE  \E f : IsFunctionOf(f, S, Stop, start, prev, step)
<1>0. /\ Stop \in SUBSET Nat /\ start \in [Nat -> S]
      /\ prev \in [Nat -> Nat] /\ \A n \in Nat \ Stop : prev[n] < n
      /\ step \in [Nat \X S -> S]
  BY DEF IsRecursion
<1> DEFINE F(g, m) == Follows(g, m, Stop, start, prev, step)
<1>1. ASSUME NEW m1 \in Nat, NEW m2 \in Nat, NEW g1, NEW g2, F(g1, m1), F(g2, m2),
             NEW n \in Nat, n <= m1, n <= m2
      PROVE  g1[n] = g2[n]
  <2> DEFINE T == {i \in Nat : i <= m1 /\ i <= m2 /\ g1[i] # g2[i]}
  <2>1. SUFFICES ASSUME T # {} PROVE FALSE
    BY <1>1
  <2>2. PICK i \in T : \A j \in T : i <= j
    <3>1. T \in SUBSET Nat
      OBVIOUS
    <3> QED
      BY <2>1, <3>1, LeastExists
  <2>3. i \in Nat /\ i <= m1 /\ i <= m2 /\ g1[i] # g2[i]
    BY <2>2
  <2>4. /\ g1[i] = IF i \in Stop THEN start[i] ELSE step[<<i, g1[prev[i]]>>]
        /\ g2[i] = IF i \in Stop THEN start[i] ELSE step[<<i, g2[prev[i]]>>]
    <3>1. i \in 0..m1 /\ i \in 0..m2
      BY <2>3, <1>1
    <3> QED
      BY <3>1, <1>1 DEF Follows
  <2>5. i \notin Stop /\ prev[i] \in Nat /\ prev[i] < i
    BY <2>3, <2>4, <1>0
  <2>6. prev[i] \notin T
    BY <2>2, <2>3, <2>5
  <2>7. g1[prev[i]] = g2[prev[i]]
    BY <2>3, <2>5, <2>6, <1>1
  <2> QED
    BY <2>3, <2>4, <2>5, <2>7
<1>2. ASSUME NEW m \in Nat
      PROVE  \E g \in [0..m -> S] : F(g, m)
  <2> DEFINE T == {i \in Nat : ~ \E g \in [0..i -> S] : F(g, i)}
  <2>1. SUFFICES ASSUME T # {} PROVE FALSE
    BY <1>2
  <2>2. PICK i \in T : \A j \in T : i <= j
    <3>1. T \in SUBSET Nat
      OBVIOUS
    <3> QED
      BY <2>1, <3>1, LeastExists
  <2>3. i \in Nat /\ ~ \E g \in [0..i -> S] : F(g, i)
    BY <2>2
  <2>4. PICK g : i # 0 => g \in [0..(i - 1) -> S] /\ F(g, i - 1)
    <3>1. CASE i = 0
      BY <3>1
    <3>2. CASE i # 0
      <4>1. i - 1 \in Nat /\ ~(i <= i - 1)
        BY <2>3, <3>2
      <4>2. i - 1 \notin T
        BY <2>2, <4>1
      <4> QED
        BY <4>1, <4>2
    <3> QED
      BY <3>1, <3>2
  <2> DEFINE x == IF i \in Stop THEN start[i] ELSE step[<<i, g[prev[i]]>>]
             h == [n \in 0..i |-> IF n = i THEN x ELSE g[n]]
  <2>5. i \notin Stop => i # 0 /\ prev[i] \in 0..(i - 1)
    BY <2>3, <1>0
  <2>6. x \in S
    <3>1. CASE i \in Stop
      BY <3>1, <2>3, <1>0
    <3>2. CASE i \notin Stop
      <4>1. g[prev[i]] \in S
        BY <3>2, <2>4, <2>5
      <4>2. <<i, g[prev[i]]>> \in Nat \X S
        BY <4>1, <2>3
      <4> QED
        BY <3>2, <4>2, <1>0
    <3> QED
      BY <3>1, <3>2
  <2>7. \A n \in 0..i : n # i => i # 0 /\ n \in 0..(i - 1) /\ h[n] = g[n]
    BY <2>3
  <2>8. h[i] = x
    BY <2>3
  <2>9. h \in [0..i -> S]
    <3>1. \A n \in 0..i : n # i => g[n] \in S
      BY <2>4, <2>7
    <3> HIDE DEF x
    <3> QED
      BY <3>1, <2>6
  <2>10. ASSUME NEW n \in 0..i
         PROVE  h[n] = IF n \in Stop THEN start[n] ELSE step[<<n, h[prev[n]]>>]
    <3>1. n \in Nat /\ (n \notin Stop => prev[n] \in 0..i /\ prev[n] # i)
      BY <2>3, <1>0
    <3>2. n \notin Stop => h[prev[n]] = g[prev[n]]
      BY <3>1, <2>7
    <3>3. CASE n = i
      <4> HIDE DEF h
      <4> QED
        BY <3>2, <3>3, <2>8
    <3>4. CASE n # i
      <4>1. h[n] = g[n] /\ n \in 0..(i - 1) /\ i # 0
        BY <3>4, <2>7
      <4>2. g[n] = IF n \in Stop THEN start[n] ELSE step[<<n, g[prev[n]]>>]
        BY <4>1, <2>4 DEF Follows
      <4> HIDE DEF h
      <4> QED
        BY <4>1, <4>2, <3>2
    <3> QED
      BY <3>3, <3>4
  <2>11. F(h, i)
    <3> HIDE DEF h
    <3> QED
      BY <2>10 DEF Follows
  <2> HIDE DEF h
  <2> QED
    BY <2>3, <2>9, <2>11
<1> DEFINE G(m) == CHOOSE g \in [0..m -> S] : F(g, m)
           f == [n \in Nat |-> G(n)[n]]
<1>3. \A m \in Nat : G(m) \in [0..m -> S] /\ F(G(m), m)
  <2> HIDE DEF F
  <2> QED
    BY <1>2
<1> HIDE DEF G
<1>4. f \in [Nat -> S]
  <2>1. \A n \in Nat : n \in 0..n
    OBVIOUS
  <2>2. \A n \in Nat : G(n)[n] \in S
    BY <1>3, <2>1
  <2> QED
    BY <2>2
<1>5. ASSUME NEW n \in Nat
      PROVE  f[n] = IF n \in Stop THEN start[n] ELSE step[<<n, f[prev[n]]>>]
  <2>1. G(n)[n] = IF n \in Stop THEN start[n] ELSE step[<<n, G(n)[prev[n]]>>]
    <3>1. n \in 0..n
      OBVIOUS
    <3> QED
      BY <1>3, <3>1 DEF Follows
  <2>2. CASE n \in Stop
    BY <2>1, <2>2
  <2>3. CASE n \notin Stop
    <3>1. prev[n] \in Nat /\ prev[n] <= n /\ prev[n] <= prev[n]
      BY <2>3, <1>0
    <3>2. G(n)[prev[n]] = G(prev[n])[prev[n]]
      BY <3>1, <1>1, <1>3
    <3> QED
      BY <2>1, <2>3, <3>1, <3>2
  <2> QED
    BY <2>2, <2>3
<1> QED
  BY <1>4, <1>5 DEF IsFunctionOf

\* A definition that counts up from 0.
IsStep(S, step) == step \in [Nat \X S -> S]
CountsUp(f, S, base, step) ==
  f \in [Nat -> S] /\ f[0] = base /\ \A n \in Nat : f[n + 1] = step[<<n, f[n]>>]

LEMMA CountingExists ==
  ASSUME NEW S, NEW base \in S, NEW step, IsStep(S, step)
  PROVE  \E f : CountsUp(f, S, base, step)
<1> DEFINE start == [n \in Nat |-> base]
           prev == [n \in Nat |-> IF n = 0 THEN 0 ELSE n - 1]
           shifted == [p \in Nat \X S |-> IF p[1] = 0 THEN base ELSE step[<<p[1] - 1, p[2]>>]]
           Stop == {0}
<1>1. start \in [Nat -> S] /\ prev \in [Nat -> Nat] /\ Stop \in SUBSET Nat
  OBVIOUS
<1>2. \A n \in Nat \ Stop : prev[n] < n
  OBVIOUS
<1>3. shifted \in [Nat \X S -> S]
  <2>1. ASSUME NEW p \in Nat \X S PROVE shifted[p] \in S
    <3>1. p[1] # 0 => <<p[1] - 1, p[2]>> \in Nat \X S
      OBVIOUS
    <3>2. p[1] # 0 => step[<<p[1] - 1, p[2]>>] \in S
      BY <3>1 DEF IsStep
    <3>3. shifted[p] = IF p[1] = 0 THEN base ELSE step[<<p[1] - 1, p[2]>>]
      OBVIOUS
    <3> HIDE DEF shifted
    <3> QED
      BY <3>2, <3>3
  <2>2. shifted = [p \in Nat \X S |-> shifted[p]]
    OBVIOUS
  <2> HIDE DEF shifted
  <2> QED
    BY <2>1, <2>2
<1>4. IsRecursion(S, Stop, start, prev, shifted)
  <2> HIDE DEF start, prev, Stop, shifted
  <2> QED
    BY <1>1, <1>2, <1>3 DEF IsRecursion
<1>5. /\ start[0] = base /\ 0 \in Stop
      /\ \A n \in Nat : prev[n + 1] = n /\ n + 1 \notin Stop
  OBVIOUS
<1>6. ASSUME NEW n \in Nat, NEW v \in S PROVE shifted[<<n + 1, v>>] = step[<<n, v>>]
  <2>1. <<n + 1, v>> \in Nat \X S /\ (n + 1) - 1 = n /\ n + 1 # 0
    OBVIOUS
  <2> QED
    BY <2>1
<1> HIDE DEF start, prev, Stop, shifted
<1>7. PICK f : IsFunctionOf(f, S, Stop, start, prev, shifted)
  BY <1>4, RecursionExists
<1>8. /\ f \in [Nat -> S]
      /\ \A n \in Nat : f[n] = IF n \in Stop THEN start[n] ELSE shifted[<<n, f[prev[n]]>>]
  BY <1>7 DEF IsFunctionOf
<1>9. f[0] = base
  BY <1>5, <1>8
<1>10. ASSUME NEW n \in Nat PROVE f[n + 1] = step[<<n, f[n]>>]
  <2>1. n + 1 \in Nat /\ f[n] \in S
    BY <1>8
  <2>2. f[n + 1] = shifted[<<n + 1, f[n]>>]
    BY <1>5, <1>8, <2>1
  <2> QED
    BY <2>1, <2>2, <1>6
<1> QED
  BY <1>8, <1>9, <1>10 DEF CountsUp

\* The same up to L only.
IsCounted(h, L, base, step) ==
  h = [n \in 0..L |-> IF n = 0 THEN base ELSE step[<<n - 1, h[n - 1]>>]]

LEMMA CountedExists ==
  ASSUME NEW S, NEW base \in S, NEW step, IsStep(S, step), NEW L \in Nat
  PROVE  \E h : IsCounted(h, L, base, step)
<1>1. PICK f : CountsUp(f, S, base, step)
  BY CountingExists
<1>2. f[0] = base /\ \A n \in Nat : f[n + 1] = step[<<n, f[n]>>]
  BY <1>1 DEF CountsUp
<1> DEFINE h == [n \in 0..L |-> f[n]]
<1>3. ASSUME NEW n \in 0..L
      PROVE  h[n] = IF n = 0 THEN base ELSE step[<<n - 1, h[n - 1]>>]
  <2>1. n # 0 => n - 1 \in Nat /\ n - 1 \in 0..L /\ (n - 1) + 1 = n
    OBVIOUS
  <2>2. n # 0 => f[n] = step[<<n - 1, f[n - 1]>>]
    BY <1>2, <2>1
  <2> QED
    BY <1>2, <2>1, <2>2
<1>4. h = [n \in 0..L |-> h[n]]
  OBVIOUS
<1> HIDE DEF h
<1> QED
  BY <1>3, <1>4 DEF IsCounted

\* What counts up to L stays in S, and is determined.
LEMMA CountedSteps ==
  ASSUME NEW S, NEW base \in S, NEW step, IsStep(S, step), NEW L \in Nat, NEW h,
         IsCounted(h, L, base, step)
  PROVE  /\ h[0] = base
         /\ \A n \in 0..(L - 1) : h[n + 1] = step[<<n, h[n]>>]
         /\ \A n \in 0..L : h[n] \in S
<1>1. h[0] = base
  BY DEF IsCounted
<1>2. ASSUME NEW n \in 0..(L - 1) PROVE h[n + 1] = step[<<n, h[n]>>]
  <2>1. n + 1 \in 0..L /\ n + 1 # 0 /\ (n + 1) - 1 = n
    OBVIOUS
  <2> QED
    BY <2>1 DEF IsCounted
<1>3. \A n \in 0..L : h[n] \in S
  <2> DEFINE T == {n \in Nat : n \in 0..L => h[n] \in S}
  <2>1. 0 \in T
    BY <1>1
  <2>2. ASSUME NEW n \in Nat, n \in T PROVE n + 1 \in T
    <3>1. SUFFICES ASSUME n + 1 \in 0..L PROVE h[n + 1] \in S
      OBVIOUS
    <3>2. n \in 0..(L - 1) /\ n \in 0..L
      BY <3>1
    <3>3. <<n, h[n]>> \in Nat \X S
      BY <2>2, <3>2
    <3> QED
      BY <1>2, <3>2, <3>3 DEF IsStep
  <2> HIDE DEF T
  <2>3. \A n \in Nat : n \in T
    BY <2>1, <2>2, SetInduction
  <2> QED
    BY <2>3 DEF T
<1> QED
  BY <1>1, <1>2, <1>3
=============================================================================
