-------------------------- MODULE FiniteSumLemmas --------------------------
(***************************************************************************)
(* What SumTo computes and how it moves when its summand does: the facts   *)
(* every accounting proof rests on.  Induction is over a SET of naturals   *)
(* (the numbers for which a statement holds), which the provers can        *)
(* instantiate, and rests on the well-foundedness of < on Nat.             *)
(***************************************************************************)
EXTENDS FiniteSums, WellFoundedInduction, TLAPS

\* A nonempty set of naturals has a least element.
LEMMA LeastNat ==
    ASSUME NEW T \in SUBSET Nat, T # {}
    PROVE  \E x \in T : \A y \in T : x <= y
<1> DEFINE R == {ss \in Nat \X Nat : ss[1] < ss[2]}
<1>1. IsWellFoundedOn(R, Nat)
  BY NatLessThanWellFounded DEF OpToRel
<1> HIDE DEF R
<1>2. PICK x \in T : \A y \in T : ~ (<<y, x>> \in R)
  BY <1>1, WFMin
<1>3. ASSUME NEW y \in T PROVE x <= y
  <2>1. ~ (<<y, x>> \in R)
    BY <1>2
  <2>2. <<y, x>> \in Nat \X Nat
    OBVIOUS
  <2>3. ~ (y < x)
    BY <2>1, <2>2 DEF R
  <2>. QED BY <2>3
<1>. QED BY <1>3

\* Induction for a set that holds 0 and is closed under successor.
LEMMA NatSetInduction ==
    ASSUME NEW S, 0 \in S, \A n \in Nat : n \in S => n + 1 \in S
    PROVE  \A n \in Nat : n \in S
<1> DEFINE T == {n \in Nat : n \notin S}
<1>1. SUFFICES ASSUME T # {} PROVE FALSE
  OBVIOUS
<1>2. PICK m \in T : \A y \in T : m <= y
  BY <1>1, LeastNat
<1>3. m \in Nat \ {0}
  BY <1>2
<1>4. m - 1 \in Nat /\ m - 1 \notin T
  BY <1>2, <1>3
<1>5. (m - 1) + 1 \in S
  BY <1>4
<1>. QED BY <1>2, <1>3, <1>5

-----------------------------------------------------------------------------

\* s solves the equations that define the prefix sums of f up to n.
IsPrefixSum(s, f, n) ==
    s = [k \in 0..n |-> IF k = 0 THEN 0 ELSE s[k-1] + f[k-1]]

\* The equations always have a solution.
LEMMA PrefixSumExists ==
    ASSUME NEW f, NEW n \in Nat
    PROVE  \E s : IsPrefixSum(s, f, n)
<1> DEFINE S == {m \in Nat : \E s : IsPrefixSum(s, f, m)}
<1>1. 0 \in S
  <2> DEFINE z == [k \in 0..0 |-> 0]
  <2>1. IsPrefixSum(z, f, 0)
    BY DEF IsPrefixSum
  <2>. QED BY <2>1
<1>2. ASSUME NEW m \in Nat, m \in S PROVE m + 1 \in S
  <2>1. PICK s : IsPrefixSum(s, f, m)
    BY <1>2
  <2> DEFINE t == [k \in 0..(m+1) |-> IF k = m + 1 THEN s[m] + f[m] ELSE s[k]]
  <2>2. ASSUME NEW k \in 0..(m+1)
        PROVE  t[k] = IF k = 0 THEN 0 ELSE t[k-1] + f[k-1]
    <3>1. CASE k = m + 1
      <4>1. t[k] = s[m] + f[m] /\ k # 0 /\ k - 1 = m
        BY <3>1
      <4>2. t[m] = s[m]
        OBVIOUS
      <4>. QED BY <4>1, <4>2
    <3>2. CASE k # m + 1
      <4>1. k \in 0..m /\ t[k] = s[k]
        BY <3>2
      <4>2. s[k] = IF k = 0 THEN 0 ELSE s[k-1] + f[k-1]
        BY <4>1, <2>1, Zenon DEF IsPrefixSum
      <4>3. k # 0 => t[k-1] = s[k-1]
        BY <4>1
      <4>. QED BY <4>1, <4>2, <4>3
    <3>. QED BY <3>1, <3>2
  <2>3. t = [k \in 0..(m+1) |-> IF k = 0 THEN 0 ELSE t[k-1] + f[k-1]]
    <3>1. DOMAIN t = 0..(m+1)
      OBVIOUS
    <3>2. t = [k \in 0..(m+1) |-> t[k]]
      OBVIOUS
    <3> HIDE DEF t
    <3>. QED BY <3>2, <2>2, Zenon
  <2>4. IsPrefixSum(t, f, m + 1)
    BY <2>3, Zenon DEF IsPrefixSum
  <2>. QED BY <2>4
<1> HIDE DEF S
<1>3. n \in S
  BY <1>1, <1>2, NatSetInduction
<1>. QED BY <1>3 DEF S

\* The recursive definition solves its own equations.
LEMMA PrefixSumEquations ==
    ASSUME NEW f, NEW n \in Nat
    PROVE  IsPrefixSum(PrefixSum(f, n), f, n)
<1>1. PrefixSum(f, n) =
        CHOOSE s : s = [k \in 0..n |-> IF k = 0 THEN 0 ELSE s[k-1] + f[k-1]]
  BY Zenon DEF PrefixSum
<1>. QED BY <1>1, PrefixSumExists, Zenon DEF IsPrefixSum

\* Two solutions agree wherever both are defined.
LEMMA PrefixSumsAgree ==
    ASSUME NEW f, NEW n \in Nat, NEW m \in Nat, NEW s, NEW t,
           IsPrefixSum(s, f, n), IsPrefixSum(t, f, m)
    PROVE  \A k \in Nat : k <= n /\ k <= m => s[k] = t[k]
<1> DEFINE S == {k \in Nat : k <= n /\ k <= m => s[k] = t[k]}
<1>1. ASSUME NEW k \in Nat, k <= n, k <= m
      PROVE  /\ s[k] = IF k = 0 THEN 0 ELSE s[k-1] + f[k-1]
             /\ t[k] = IF k = 0 THEN 0 ELSE t[k-1] + f[k-1]
  <2>1. k \in 0..n /\ k \in 0..m
    BY <1>1
  <2>. QED BY <2>1, Zenon DEF IsPrefixSum
<1>2. 0 \in S
  BY <1>1
<1>3. ASSUME NEW k \in Nat, k \in S PROVE k + 1 \in S
  <2>1. SUFFICES ASSUME k + 1 <= n, k + 1 <= m PROVE s[k+1] = t[k+1]
    OBVIOUS
  <2>2. s[k] = t[k]
    BY <1>3, <2>1
  <2>3. s[k+1] = s[k] + f[k] /\ t[k+1] = t[k] + f[k]
    <3>1. k + 1 # 0 /\ (k + 1) - 1 = k
      OBVIOUS
    <3>. QED BY <3>1, <2>1, <1>1
  <2>. QED BY <2>2, <2>3
<1> HIDE DEF S
<1>4. \A k \in Nat : k \in S
  BY <1>2, <1>3, NatSetInduction
<1>. QED BY <1>4 DEF S

-----------------------------------------------------------------------------

LEMMA SumZero == ASSUME NEW f PROVE SumTo(f, 0) = 0
<1>1. IsPrefixSum(PrefixSum(f, 0), f, 0)
  BY PrefixSumEquations
<1>2. 0 \in 0..0
  OBVIOUS
<1>3. PrefixSum(f, 0)[0] = 0
  BY <1>1, <1>2, Zenon DEF IsPrefixSum
<1>. QED BY <1>3 DEF SumTo

\* The recursion, in terms of SumTo alone.
LEMMA SumStep ==
    ASSUME NEW f, NEW n \in Nat
    PROVE  SumTo(f, n + 1) = SumTo(f, n) + f[n]
<1> DEFINE s == PrefixSum(f, n + 1)
           t == PrefixSum(f, n)
<1>1. IsPrefixSum(s, f, n + 1) /\ IsPrefixSum(t, f, n)
  BY PrefixSumEquations
<1> HIDE DEF s, t
<1>2. n + 1 \in 0..(n+1) /\ n + 1 # 0 /\ (n + 1) - 1 = n
  OBVIOUS
<1>3. s[n+1] = IF n + 1 = 0 THEN 0 ELSE s[(n+1)-1] + f[(n+1)-1]
  BY <1>1, <1>2, Zenon DEF IsPrefixSum
<1>4. s[n+1] = s[n] + f[n]
  BY <1>2, <1>3
<1>5. s[n] = t[n]
  BY <1>1, PrefixSumsAgree
<1>. QED BY <1>4, <1>5 DEF SumTo, s, t

LEMMA SumType ==
    ASSUME NEW N \in Nat, NEW f \in [0..N-1 -> Int]
    PROVE  /\ SumTo(f, N) \in Int
           /\ \A n \in 0..N : SumTo(f, n) \in Int
<1> DEFINE S == {n \in Nat : n <= N => SumTo(f, n) \in Int}
<1>1. 0 \in S
  BY SumZero
<1>2. ASSUME NEW n \in Nat, n \in S PROVE n + 1 \in S
  <2>1. SUFFICES ASSUME n + 1 <= N PROVE SumTo(f, n + 1) \in Int
    OBVIOUS
  <2>2. SumTo(f, n) \in Int /\ f[n] \in Int
    BY <1>2, <2>1
  <2>3. SumTo(f, n + 1) = SumTo(f, n) + f[n]
    BY SumStep
  <2>. QED BY <2>2, <2>3
<1> HIDE DEF S
<1>3. \A n \in Nat : n \in S
  BY <1>1, <1>2, NatSetInduction
<1>. QED BY <1>3 DEF S

\* Sums of naturals are naturals, and no summand exceeds the sum.
LEMMA SumOfNats ==
    ASSUME NEW N \in Nat, NEW f \in [0..N-1 -> Nat]
    PROVE  /\ SumTo(f, N) \in Nat
           /\ \A i \in 0..N-1 : f[i] <= SumTo(f, N)
<1> DEFINE S == {n \in Nat : n <= N =>
                    /\ SumTo(f, n) \in Nat
                    /\ \A i \in 0..n-1 : f[i] <= SumTo(f, n)}
<1>1. 0 \in S
  BY SumZero
<1>2. ASSUME NEW n \in Nat, n \in S PROVE n + 1 \in S
  <2>1. SUFFICES ASSUME n + 1 <= N
                 PROVE  /\ SumTo(f, n + 1) \in Nat
                        /\ \A i \in 0..(n+1)-1 : f[i] <= SumTo(f, n + 1)
    OBVIOUS
  <2>2. /\ SumTo(f, n) \in Nat
        /\ f[n] \in Nat
        /\ \A i \in 0..n-1 : f[i] \in Nat /\ f[i] <= SumTo(f, n)
    BY <1>2, <2>1
  <2>3. SumTo(f, n + 1) = SumTo(f, n) + f[n]
    BY SumStep
  <2>4. \A i \in 0..(n+1)-1 : i = n \/ i \in 0..n-1
    OBVIOUS
  <2>. QED BY <2>2, <2>3, <2>4
<1> HIDE DEF S
<1>3. N \in S
  BY <1>1, <1>2, NatSetInduction
<1>. QED BY <1>3 DEF S

\* Pointwise order carries over to the sums.
LEMMA SumMono ==
    ASSUME NEW N \in Nat, NEW f \in [0..N-1 -> Int], NEW g \in [0..N-1 -> Int],
           \A i \in 0..N-1 : f[i] <= g[i]
    PROVE  SumTo(f, N) <= SumTo(g, N)
<1> DEFINE S == {n \in Nat : n <= N => /\ SumTo(f, n) \in Int
                                       /\ SumTo(g, n) \in Int
                                       /\ SumTo(f, n) <= SumTo(g, n)}
<1>1. 0 \in S
  BY SumZero
<1>2. ASSUME NEW n \in Nat, n \in S PROVE n + 1 \in S
  <2>1. SUFFICES ASSUME n + 1 <= N
                 PROVE  /\ SumTo(f, n + 1) \in Int
                        /\ SumTo(g, n + 1) \in Int
                        /\ SumTo(f, n + 1) <= SumTo(g, n + 1)
    OBVIOUS
  <2>2. f[n] \in Int /\ g[n] \in Int /\ f[n] <= g[n]
    BY <2>1
  <2>3. /\ SumTo(f, n + 1) = SumTo(f, n) + f[n]
        /\ SumTo(g, n + 1) = SumTo(g, n) + g[n]
    BY SumStep
  <2>. QED BY <1>2, <2>1, <2>2, <2>3
<1> HIDE DEF S
<1>3. N \in S
  BY <1>1, <1>2, NatSetInduction
<1>. QED BY <1>3 DEF S

\* Only the values at 0 .. N-1 matter.
LEMMA SumEqual ==
    ASSUME NEW N \in Nat, NEW f \in [0..N-1 -> Int], NEW g \in [0..N-1 -> Int],
           \A i \in 0..N-1 : f[i] = g[i]
    PROVE  SumTo(f, N) = SumTo(g, N)
<1>1. SumTo(f, N) \in Int /\ SumTo(g, N) \in Int
  BY SumType
<1>2. SumTo(f, N) <= SumTo(g, N)
  BY SumMono
<1>3. SumTo(g, N) <= SumTo(f, N)
  BY SumMono
<1>. QED BY <1>1, <1>2, <1>3

\* Changing one summand changes the sum by the difference.
LEMMA SumUpdate ==
    ASSUME NEW N \in Nat, NEW f \in [0..N-1 -> Int], NEW g \in [0..N-1 -> Int],
           NEW j \in 0..N-1, \A i \in 0..N-1 : i # j => g[i] = f[i]
    PROVE  SumTo(g, N) = SumTo(f, N) + g[j] - f[j]
<1> DEFINE S == {n \in Nat : n <= N =>
                   /\ SumTo(f, n) \in Int
                   /\ SumTo(g, n) \in Int
                   /\ SumTo(g, n) = SumTo(f, n) + (IF j < n THEN g[j] - f[j] ELSE 0)}
<1>1. 0 \in S
  BY SumZero
<1>2. ASSUME NEW n \in Nat, n \in S PROVE n + 1 \in S
  <2>1. SUFFICES ASSUME n + 1 <= N
                 PROVE  /\ SumTo(f, n + 1) \in Int
                        /\ SumTo(g, n + 1) \in Int
                        /\ SumTo(g, n + 1) =
                             SumTo(f, n + 1) + (IF j < n + 1 THEN g[j] - f[j] ELSE 0)
    OBVIOUS
  <2>2. f[n] \in Int /\ g[n] \in Int /\ f[j] \in Int /\ g[j] \in Int
    BY <2>1
  <2>3. /\ SumTo(f, n + 1) = SumTo(f, n) + f[n]
        /\ SumTo(g, n + 1) = SumTo(g, n) + g[n]
    BY SumStep
  <2>4. CASE n = j
    BY <1>2, <2>1, <2>2, <2>3, <2>4
  <2>5. CASE n # j
    <3>1. g[n] = f[n]
      BY <2>1, <2>5
    <3>. QED BY <1>2, <2>1, <2>2, <2>3, <2>5, <3>1
  <2>. QED BY <2>4, <2>5
<1> HIDE DEF S
<1>3. N \in S
  BY <1>1, <1>2, NatSetInduction
<1>4. j < N /\ f[j] \in Int /\ g[j] \in Int
  OBVIOUS
<1>. QED BY <1>3, <1>4 DEF S

\* One step of the induction below, with the sums named.
LEMMA ShiftStep ==
    ASSUME NEW d \in Int, NEW sf \in Int, NEW sw \in Int, NEW fn \in Int, NEW wn \in Int
    PROVE  (sf + d * sw) + (fn + d * wn) = (sf + fn) + d * (sw + wn)
  OBVIOUS

\* The sum is linear: here f + d * w, what every summand gaining d per unit of
\* weight does to the total.
LEMMA SumShift ==
    ASSUME NEW N \in Nat, NEW f \in [0..N-1 -> Int], NEW w \in [0..N-1 -> Int],
           NEW g \in [0..N-1 -> Int], NEW d \in Int,
           \A i \in 0..N-1 : g[i] = f[i] + d * w[i]
    PROVE  SumTo(g, N) = SumTo(f, N) + d * SumTo(w, N)
<1> DEFINE S == {n \in Nat : n <= N => SumTo(g, n) = SumTo(f, n) + d * SumTo(w, n)}
<1>1. 0 \in S
  BY SumZero
<1>2. ASSUME NEW n \in Nat, n \in S PROVE n + 1 \in S
  <2>1. SUFFICES ASSUME n + 1 <= N
                 PROVE  SumTo(g, n + 1) = SumTo(f, n + 1) + d * SumTo(w, n + 1)
    OBVIOUS
  <2>2. n \in 0..N-1 /\ n \in 0..N
    BY <2>1
  <2>3. f[n] \in Int /\ w[n] \in Int
    BY <2>2
  <2>4. SumTo(f, n) \in Int /\ SumTo(w, n) \in Int
    BY <2>2, SumType
  <2>5. g[n] = f[n] + d * w[n]
    BY <2>2
  <2>6. SumTo(g, n) = SumTo(f, n) + d * SumTo(w, n)
    BY <1>2, <2>1
  <2>7. /\ SumTo(f, n + 1) = SumTo(f, n) + f[n]
        /\ SumTo(w, n + 1) = SumTo(w, n) + w[n]
        /\ SumTo(g, n + 1) = SumTo(g, n) + g[n]
    BY SumStep
  <2>8. (SumTo(f, n) + d * SumTo(w, n)) + (f[n] + d * w[n])
          = (SumTo(f, n) + f[n]) + d * (SumTo(w, n) + w[n])
    BY <2>3, <2>4, ShiftStep
  <2>. QED BY <2>5, <2>6, <2>7, <2>8, Zenon
<1> HIDE DEF S
<1>3. N \in S
  BY <1>1, <1>2, NatSetInduction
<1>. QED BY <1>3 DEF S

\* A sum of zeros.
LEMMA SumOfZeros ==
    ASSUME NEW N \in Nat, NEW f \in [0..N-1 -> Int], \A i \in 0..N-1 : f[i] = 0
    PROVE  SumTo(f, N) = 0
<1> DEFINE S == {n \in Nat : n <= N => SumTo(f, n) = 0}
<1>1. 0 \in S
  BY SumZero
<1>2. ASSUME NEW n \in Nat, n \in S PROVE n + 1 \in S
  <2>1. SUFFICES ASSUME n + 1 <= N PROVE SumTo(f, n + 1) = 0
    OBVIOUS
  <2>2. SumTo(f, n) = 0 /\ f[n] = 0
    BY <1>2, <2>1
  <2>3. SumTo(f, n + 1) = SumTo(f, n) + f[n]
    BY SumStep
  <2>. QED BY <2>2, <2>3
<1> HIDE DEF S
<1>3. N \in S
  BY <1>1, <1>2, NatSetInduction
<1>. QED BY <1>3 DEF S

-----------------------------------------------------------------------------
(* Truncating division, by which epochs are numbered and schedules shared. *)

\* A sum of naturals covers each of its terms.
LEMMA SumTerm ==
    ASSUME NEW N \in Nat, NEW f \in [0..N-1 -> Nat], NEW j \in 0..N-1
    PROVE  f[j] <= SumTo(f, N)
<1> DEFINE z == [i \in 0..N-1 |-> 0]
           g == [i \in 0..N-1 |-> IF i = j THEN f[j] ELSE 0]
<1>1. /\ z \in [0..N-1 -> Int] /\ g \in [0..N-1 -> Int] /\ f \in [0..N-1 -> Int]
      /\ z \in [0..N-1 -> Nat] /\ f[j] \in Nat
      /\ \A i \in 0..N-1 : z[i] = 0
      /\ \A i \in 0..N-1 : i # j => g[i] = z[i]
      /\ g[j] = f[j] /\ z[j] = 0
      /\ \A i \in 0..N-1 : g[i] <= f[i]
  OBVIOUS
<1> HIDE DEF z, g
<1>2. SumTo(z, N) = 0
  BY <1>1, SumOfZeros
<1>3. SumTo(g, N) = SumTo(z, N) + g[j] - z[j]
  <2>1. z \in [0..N-1 -> Int] /\ g \in [0..N-1 -> Int]
    BY <1>1
  <2>2. \A i \in 0..N-1 : i # j => g[i] = z[i]
    BY <1>1
  <2>. QED BY <2>1, <2>2, SumUpdate, Zenon
<1>4. SumTo(g, N) <= SumTo(f, N)
  BY <1>1, SumMono
<1>. QED BY <1>1, <1>2, <1>3, <1>4

\* Truncating division is monotone in the dividend.
LEMMA DivMono ==
    ASSUME NEW a \in Nat, NEW b \in Nat, NEW d \in Nat \ {0}, a <= b
    PROVE  a \div d \in Nat /\ b \div d \in Nat /\ a \div d <= b \div d
<1> DEFINE x == a \div d
           y == b \div d
<1>1. x \in Nat /\ d * x <= a
  OBVIOUS
<1>2. y \in Nat /\ b < d * (y + 1)
  OBVIOUS
<1> HIDE DEF x, y
<1>3. SUFFICES ASSUME x > y PROVE FALSE
  BY <1>1, <1>2 DEF x, y
<1>4. d * (y + 1) <= d * x
  <2>1. PICK k \in Nat : x = (y + 1) + k
    <3>1. x - (y + 1) \in Nat /\ x = (y + 1) + (x - (y + 1))
      BY <1>1, <1>2, <1>3
    <3>. QED BY <3>1
  <2>2. d * ((y + 1) + k) = d * (y + 1) + d * k
    BY <1>2
  <2>3. d * k \in Nat /\ d * (y + 1) \in Nat
    BY <1>2
  <2>. QED BY <2>1, <2>2, <2>3
<1>5. d * (y + 1) \in Int /\ d * x \in Int
  BY <1>1, <1>2
<1>. QED BY <1>1, <1>2, <1>4, <1>5
=============================================================================
