------------------------------- MODULE Arithmetic -------------------------------
(***************************************************************************)
(* Facts about numbers that the proofs rest on: remainders, what counters  *)
(* that only grow become when they are reduced to a slot or to a channel,  *)
(* the least of a set, by which inductions are made, and what follows for  *)
(* what is computed one position after another.                            *)
(***************************************************************************)
EXTENDS Integers, WellFoundedInduction, TLAPS

(* A remainder is below its modulus. *)
LEMMA ModRange ==
  ASSUME NEW m \in Nat \ {0}, NEW a \in Nat
  PROVE  a % m \in 0..(m - 1)
  OBVIOUS

(* Quotient and remainder put the number together again. *)
LEMMA DivMod ==
  ASSUME NEW m \in Nat \ {0}, NEW a \in Nat
  PROVE  a = m * (a \div m) + (a % m) /\ a \div m \in Nat
  BY Z3

(* Multiples of m closer than m are equal. *)
LEMMA CloseMultiples ==
  ASSUME NEW m \in Nat \ {0}, NEW x \in Int, m * x < m, -m < m * x
  PROVE  x = 0
  <1>1. x < 1
    <2>1. SUFFICES ASSUME x >= 1 PROVE FALSE
      BY Z3
    <2>2. m * x >= m
      BY <2>1, Z3
    <2> QED BY <2>2, Z3
  <1>2. x > -1
    <2>1. SUFFICES ASSUME x <= -1 PROVE FALSE
      BY Z3
    <2>2. m * x <= -m
      BY <2>1, Z3
    <2> QED BY <2>2, Z3
  <1> QED BY <1>1, <1>2, Z3

(* The remainder is the only way to write a number so. *)
LEMMA ModUnique ==
  ASSUME NEW m \in Nat \ {0}, NEW a \in Nat, NEW q \in Nat,
         NEW r \in 0..(m - 1), a = m * q + r
  PROVE  a % m = r
  <1>1. PICK p \in Nat : a = m * p + (a % m)
    BY DivMod
  <1>2. a % m \in 0..(m - 1)
    BY ModRange
  <1>3. m * (p - q) = r - (a % m)
    BY <1>1, <1>2, Z3
  <1>4. p - q = 0
    <2>1. p - q \in Int /\ m * (p - q) < m /\ -m < m * (p - q)
      BY <1>2, <1>3, Z3
    <2> QED BY <2>1, CloseMultiples
  <1> QED BY <1>1, <1>2, <1>4, Z3

(* Different positions less than a lap apart are different slots. *)
LEMMA ModInjective ==
  ASSUME NEW m \in Nat \ {0}, NEW a \in Nat, NEW b \in Nat,
         a < b, b < a + m
  PROVE  a % m # b % m
  <1>1. SUFFICES ASSUME a % m = b % m PROVE FALSE
    OBVIOUS
  <1>2. PICK p \in Nat : a = m * p + (a % m)
    BY DivMod
  <1>3. PICK q \in Nat : b = m * q + (b % m)
    BY DivMod
  <1>4. a % m \in Int
    BY ModRange
  <1>5. m * (q - p) = b - a
    BY <1>1, <1>2, <1>3, <1>4, Z3
  <1>6. q - p = 0
    <2>1. q - p \in Int /\ m * (q - p) < m /\ -m < m * (q - p)
      BY <1>5, Z3
    <2> QED BY <2>1, CloseMultiples
  <1> QED BY <1>5, <1>6, Z3

(* Going i further from a position, by less than a lap, wraps at most once. *)
LEMMA ModAdd ==
  ASSUME NEW m \in Nat \ {0}, NEW a \in Nat, NEW i \in 0..(m - 1)
  PROVE  (a + i) % m = IF (a % m) + i < m THEN (a % m) + i ELSE (a % m) + i - m
  <1>1. PICK q \in Nat : a = m * q + (a % m)
    BY DivMod
  <1>2. a % m \in 0..(m - 1)
    BY ModRange
  <1>3. CASE (a % m) + i < m
    <2>1. a + i = m * q + ((a % m) + i)
      BY <1>1, <1>2, Z3
    <2> QED BY <1>2, <1>3, <2>1, ModUnique
  <1>4. CASE ~((a % m) + i < m)
    <2>1. a + i = m * (q + 1) + ((a % m) + i - m)
      BY <1>1, <1>2, Z3
    <2>2. (a % m) + i - m \in 0..(m - 1) /\ a + i \in Nat /\ q + 1 \in Nat
      BY <1>2, <1>4, Z3
    <2>3. (a + i) % m = (a % m) + i - m
      BY <2>1, <2>2, ModUnique
    <2> QED BY <1>4, <2>3
  <1> QED BY <1>3, <1>4

(* Adding a multiple of m leaves the remainder alone. *)
LEMMA ModShift ==
  ASSUME NEW m \in Nat \ {0}, NEW a \in Nat, NEW b \in Nat, a % m = 0
  PROVE  (a + b) % m = b % m
  <1>1. PICK p \in Nat : a = m * p + (a % m)
    BY DivMod
  <1>2. PICK q \in Nat : b = m * q + (b % m)
    BY DivMod
  <1>3. b % m \in 0..(m - 1)
    BY ModRange
  <1>4. a + b = m * (p + q) + (b % m) /\ a + b \in Nat /\ p + q \in Nat
    BY <1>1, <1>2, <1>3, Z3
  <1> QED BY <1>3, <1>4, ModUnique

(* A multiple of m leaves nothing over. *)
LEMMA ModProduct ==
  ASSUME NEW m \in Nat \ {0}, NEW q \in Nat
  PROVE  (q * m) % m = 0 /\ q * m \in Nat
  <1>1. q * m \in Nat /\ q * m = m * q + 0
    BY Z3
  <1> QED BY <1>1, ModUnique

(* Positions that differ by whole laps are one slot. *)
LEMMA WholeLaps ==
  ASSUME NEW m \in Nat \ {0}, NEW a \in Nat, NEW b \in Nat, NEW z \in Int,
         a = b + m * z
  PROVE  a % m = b % m
  <1>1. PICK p \in Nat : b = m * p + (b % m)
    BY DivMod
  <1>2. b % m \in 0..(m - 1)
    BY ModRange
  <1>3. a = m * (p + z) + (b % m)
    BY <1>1, <1>2, Z3
  <1>4. p + z >= 0
    <2>1. SUFFICES ASSUME p + z <= -1 PROVE FALSE
      BY Z3
    <2>2. m * (p + z) <= -m
      BY <2>1, Z3
    <2> QED BY <1>2, <1>3, <2>2, Z3
  <1>5. p + z \in Nat
    BY <1>4
  <1> DEFINE q == p + z
  <1>6. q \in Nat /\ a = m * q + (b % m)
    BY <1>3, <1>5
  <1> HIDE DEF q
  <1> QED BY <1>2, <1>6, ModUnique

(* Stepping the remainder is stepping the number. *)
LEMMA ModNext ==
  ASSUME NEW m \in Nat \ {0}, NEW a \in Nat
  PROVE  ((a % m) + 1) % m = (a + 1) % m
  <1>1. PICK q \in Nat : a = m * q + (a % m)
    BY DivMod
  <1>2. a % m \in 0..(m - 1)
    BY ModRange
  <1> DEFINE b == (a % m) + 1
             c == a + 1
  <1>3. b = c + m * (0 - q) /\ 0 - q \in Int /\ b \in Nat /\ c \in Nat
    <2>1. a % m \in Nat
      BY <1>2
    <2>2. \A r \in Nat : a = m * q + r => r + 1 = (a + 1) + m * (0 - q)
      BY Z3
    <2>3. b = c + m * (0 - q)
      BY <1>1, <2>1, <2>2
    <2> QED BY <2>1, <2>3
  <1> HIDE DEF b, c
  <1>4. b % m = c % m
    BY <1>3, WholeLaps
  <1> QED BY <1>4 DEF b, c

(* Whole frames never exceed the samples they were counted from. *)
LEMMA WholeFramesFit ==
  ASSUME NEW m \in Nat \ {0}, NEW a \in Nat, NEW q \in Nat, q <= a \div m
  PROVE  q * m <= a
  <1>1. a = m * (a \div m) + (a % m) /\ a \div m \in Nat
    BY DivMod
  <1>2. a % m \in 0..(m - 1)
    BY ModRange
  <1>3. \A k \in Nat : q <= k => q * m <= m * k
    BY Z3
  <1> QED BY <1>1, <1>2, <1>3, Z3

(* Numbers, if there are any, have a least one. *)
LEMMA LeastIs ==
  ASSUME NEW T \in SUBSET Nat, T # {}
  PROVE  \E x \in T : \A y \in T : x <= y
  <1> DEFINE Below == OpToRel(<, Nat)
  <1>1. IsWellFoundedOn(Below, Nat)
    BY NatLessThanWellFounded
  <1>2. Below = {p \in Nat \X Nat : p[1] < p[2]}
    BY DEF OpToRel
  <1> HIDE DEF Below
  <1>3. PICK x \in T : \A y \in T : ~(<<y, x>> \in Below)
    BY <1>1, WFMin
  <1>4. ASSUME NEW y \in T
        PROVE  x <= y
    <2> DEFINE p == <<y, x>>
    <2>1. x \in Nat /\ y \in Nat
      OBVIOUS
    <2>2. p \in Nat \X Nat /\ p[1] = y /\ p[2] = x
      BY <2>1
    <2>3. ~(p \in Below)
      BY <1>3
    <2> HIDE DEF p
    <2>4. ~(p[1] < p[2])
      BY <1>2, <2>2, <2>3
    <2> QED BY <2>1, <2>2, <2>4
  <1> QED BY <1>4

(* What is computed one position after another, from a first value on. *)
Steps(f, S, first, n, next) ==
  /\ f \in [0..n -> S]
  /\ \A k \in 0..n : f[k] = IF k = 0 THEN first ELSE next[k][f[k - 1]]

(* It is computed for all of the positions. *)
LEMMA StepsExist ==
  ASSUME NEW S, NEW first, NEW n, NEW next,
         first \in S /\ n \in Nat /\ next \in [1..n -> [S -> S]]
  PROVE  \E f : Steps(f, S, first, n, next)
  <1> DEFINE Reaches(f, m) == /\ f \in [0..m -> S]
                              /\ \A k \in 0..m : f[k] = IF k = 0 THEN first
                                                       ELSE next[k][f[k - 1]]
             Stuck == {m \in Nat : m <= n /\ ~\E f : Reaches(f, m)}
  <1>1. SUFFICES ASSUME Stuck # {}
                 PROVE  FALSE
    <2>1. n \notin Stuck
      OBVIOUS
    <2>2. PICK f : Reaches(f, n)
      BY <2>1
    <2> QED BY <2>2 DEF Steps
  <1>2. PICK m \in Stuck : \A j \in Stuck : m <= j
    <2>1. Stuck \in SUBSET Nat
      OBVIOUS
    <2> HIDE DEF Stuck
    <2> QED BY <1>1, <2>1, LeastIs
  <1>3. m \in Nat /\ m <= n /\ ~\E f : Reaches(f, m)
    BY <1>2
  <1>4. CASE m = 0
    <2> DEFINE start == [k \in 0..0 |-> first]
    <2>1. start \in [0..0 -> S]
      OBVIOUS
    <2>3. \A k \in 0..0 : start[k] = first /\ k = 0
      OBVIOUS
    <2> HIDE DEF start
    <2>2. Reaches(start, 0)
      BY <2>1, <2>3
    <2> HIDE DEF Reaches
    <2> QED BY <1>3, <1>4, <2>2
  <1>5. CASE m # 0
    <2>1. m - 1 \in Nat /\ m - 1 <= n /\ m - 1 \notin Stuck
      <3>1. m - 1 \in Nat /\ m - 1 <= n /\ ~(m <= m - 1)
        BY <1>3, <1>5
      <3> HIDE DEF Stuck
      <3> QED BY <1>2, <3>1
    <2>2. PICK g : Reaches(g, m - 1)
      BY <2>1
    <2>3. m \in 1..n /\ m - 1 \in 0..(m - 1)
      BY <1>3, <1>5
    <2>4. g[m - 1] \in S /\ next[m][g[m - 1]] \in S
      BY <2>2, <2>3
    <2> DEFINE f == [k \in 0..m |-> IF k = m THEN next[m][g[m - 1]] ELSE g[k]]
    <2>5. ASSUME NEW k \in 0..m
          PROVE  f[k] \in S /\ f[k] = IF k = 0 THEN first ELSE next[k][f[k - 1]]
      <3>1. CASE k = m
        <4>1. f[m] = next[m][g[m - 1]] /\ f[m - 1] = g[m - 1]
          BY <1>3, <2>3
        <4> QED BY <1>5, <2>4, <3>1, <4>1
      <3>2. CASE k # m
        <4>1. k \in 0..(m - 1) /\ f[k] = g[k]
          BY <1>3, <3>2
        <4>2. g[k] \in S /\ g[k] = IF k = 0 THEN first ELSE next[k][g[k - 1]]
          BY <2>2, <4>1
        <4>3. k # 0 => k - 1 \in 0..m /\ k - 1 # m
          BY <1>3, <4>1
        <4>4. k # 0 => f[k - 1] = g[k - 1]
          BY <4>3
        <4> HIDE DEF f
        <4> QED BY <4>1, <4>2, <4>4
      <3> QED BY <3>1, <3>2
    <2>6. f \in [0..m -> S]
      <3>1. f = [k \in 0..m |-> f[k]]
        OBVIOUS
      <3> HIDE DEF f
      <3> QED BY <2>5, <3>1
    <2> HIDE DEF f
    <2>7. Reaches(f, m)
      BY <2>5, <2>6
    <2> HIDE DEF Reaches
    <2> QED BY <1>3, <2>7
  <1> QED BY <1>3, <1>4, <1>5

(* A set of places that has the first one, and with each one the next, has all. *)
LEMMA Climbs ==
  ASSUME NEW n \in Nat, NEW T, 0 \in T,
         \A k \in 1..n : k - 1 \in T => k \in T
  PROVE  \A k \in 0..n : k \in T
  <1> DEFINE Bad == {k \in Nat : k <= n /\ k \notin T}
  <1>1. SUFFICES ASSUME Bad # {}
                 PROVE  FALSE
    OBVIOUS
  <1>2. PICK k \in Bad : \A j \in Bad : k <= j
    <2>1. Bad \in SUBSET Nat
      OBVIOUS
    <2> HIDE DEF Bad
    <2> QED BY <1>1, <2>1, LeastIs
  <1>3. k \in Nat /\ k <= n /\ k \notin T
    BY <1>2
  <1>4. k # 0
    BY <1>3
  <1>5. k - 1 \in Nat /\ k - 1 <= n /\ ~(k <= k - 1) /\ k \in 1..n
    BY <1>3, <1>4
  <1>6. k - 1 \notin Bad
    <2> HIDE DEF Bad
    <2> QED BY <1>2, <1>5
  <1>7. k - 1 \in T
    BY <1>5, <1>6
  <1> QED BY <1>3, <1>5, <1>7

================================================================================
