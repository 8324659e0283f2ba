--------------------------- MODULE IndexerProofs ---------------------------
(***************************************************************************)
(* Theorems about Ingest: what is folded and stored is exactly what the    *)
(* cluster finalised, for any number of transactions, programs, forks and  *)
(* crashes, any batch, and any way blocks share slots.                     *)
(***************************************************************************)
EXTENDS Ingest, Backfill, FiniteSumLemmas, SequenceTheorems, FiniteSetTheorems

-----------------------------------------------------------------------------
(* Recursion over 0 .. N, which the three recursive functions of the model *)
(* are instances of.                                                       *)

IsRecursion(f, v, N, grow) ==
    f = [n \in 0 .. N |-> IF n = 0 THEN v ELSE grow[n][f[n-1]]]

LEMMA RecursionExists ==
    ASSUME NEW V, NEW v \in V, NEW N \in Nat, NEW grow \in [1 .. N -> [V -> V]]
    PROVE  \E f \in [0 .. N -> V] : IsRecursion(f, v, N, grow)
<1> DEFINE S == {n \in Nat : n <= N => \E f \in [0 .. n -> V] : IsRecursion(f, v, n, grow)}
<1>1. 0 \in S
  <2> DEFINE f == [n \in 0 .. 0 |-> v]
  <2>1. f \in [0 .. 0 -> V] /\ IsRecursion(f, v, 0, grow)
    BY DEF IsRecursion
  <2>. QED BY <2>1
<1>2. ASSUME NEW n \in Nat, n \in S PROVE n + 1 \in S
  <2> SUFFICES ASSUME n + 1 <= N
               PROVE  \E g \in [0 .. n+1 -> V] : IsRecursion(g, v, n + 1, grow)
    OBVIOUS
  <2>1. PICK f \in [0 .. n -> V] : IsRecursion(f, v, n, grow)
    BY <1>2
  <2> DEFINE g == [k \in 0 .. n+1 |-> IF k = n + 1 THEN grow[n + 1][f[n]] ELSE f[k]]
  <2>2. n + 1 \in 1 .. N /\ f[n] \in V
    BY <2>1
  <2>3. g \in [0 .. n+1 -> V]
    <3>1. grow[n + 1][f[n]] \in V
      BY <2>2
    <3>2. ASSUME NEW k \in 0 .. n+1, k # n + 1 PROVE f[k] \in V
      BY <2>1, <3>2
    <3>. QED BY <3>1, <3>2
  <2>4. /\ n + 1 \in 0 .. n+1
        /\ \A i \in 0 .. n : i \in 0 .. n+1 /\ i # n + 1
    OBVIOUS
  <2>5. g[n+1] = grow[n + 1][f[n]] /\ \A i \in 0 .. n : g[i] = f[i]
    BY <2>4
  <2>6. g = [k \in 0 .. n+1 |-> g[k]]
    OBVIOUS
  <2> HIDE DEF g
  <2>7. ASSUME NEW k \in 0 .. n+1
        PROVE  g[k] = IF k = 0 THEN v ELSE grow[k][g[k-1]]
    <3>1. CASE k = n + 1
      <4>1. g[k] = grow[n + 1][f[n]] /\ g[n] = f[n] /\ k # 0 /\ k - 1 = n
        BY <2>5, <3>1
      <4>. QED BY <3>1, <4>1
    <3>2. CASE k # n + 1
      <4>1. k \in 0 .. n /\ g[k] = f[k]
        BY <2>5, <3>2
      <4>2. f[k] = IF k = 0 THEN v ELSE grow[k][f[k-1]]
        BY <4>1, <2>1, Zenon DEF IsRecursion
      <4>3. k # 0 => k - 1 \in 0 .. n
        BY <4>1
      <4>4. k # 0 => g[k-1] = f[k-1]
        BY <2>5, <4>3
      <4>. QED BY <4>1, <4>2, <4>4
    <3>. QED BY <3>1, <3>2
  <2>8. IsRecursion(g, v, n + 1, grow)
    BY <2>7, <2>6, Zenon DEF IsRecursion
  <2>. QED BY <2>3, <2>8
<1> HIDE DEF S
<1>3. N \in S
  BY <1>1, <1>2, NatSetInduction
<1>. QED BY <1>3 DEF S

-----------------------------------------------------------------------------
(* Lists. *)

LEMMA ToSetIndices ==
    ASSUME NEW T, NEW s \in Seq(T)
    PROVE  /\ DOMAIN s = 1 .. Len(s) /\ Len(s) \in Nat
           /\ \A i \in 1 .. Len(s) : s[i] \in ToSet(s) /\ s[i] \in T
           /\ \A x \in ToSet(s) : x \in T /\ \E i \in 1 .. Len(s) : s[i] = x
<1>1. DOMAIN s = 1 .. Len(s) /\ Len(s) \in Nat /\ \A i \in 1 .. Len(s) : s[i] \in T
  OBVIOUS
<1>. QED BY <1>1 DEF ToSet

\* Concatenation, Append and SubSeq under names of their own: the provers take
\* equations between sequences apart, and then no longer see what a lemma is about.
Join(s, t) == s \o t
Add(s, x) == Append(s, x)
Part(s, a, b) == SubSeq(s, a + 1, b)

Joined(u, s, t) ==
    /\ Len(u) = Len(s) + Len(t)
    /\ \A i \in 1 .. Len(s) : u[i] = s[i]
    /\ \A i \in 1 .. Len(t) : u[Len(s) + i] = t[i]
    /\ \A x : x \in ToSet(u) <=> x \in ToSet(s) \/ x \in ToSet(t)

LEMMA ToSetJoin ==
    ASSUME NEW T, NEW s \in Seq(T), NEW t \in Seq(T), NEW u, u = Join(s, t)
    PROVE  u \in Seq(T) /\ Joined(u, s, t)
<1>1. /\ u \in Seq(T) /\ Len(u) = Len(s) + Len(t)
      /\ Len(s) \in Nat /\ Len(t) \in Nat
      /\ \A i \in 1 .. Len(s) : u[i] = s[i]
      /\ \A i \in 1 .. Len(t) : u[Len(s) + i] = t[i]
  BY DEF Join
<1>2. ASSUME NEW x \in ToSet(u) PROVE x \in ToSet(s) \cup ToSet(t)
  <2>0. DOMAIN u = 1 .. Len(u)
    BY <1>1
  <2>1. PICK i \in 1 .. Len(u) : u[i] = x
    BY <2>0 DEF ToSet
  <2>2. CASE i \in 1 .. Len(s)
    BY <1>1, <2>1, <2>2, ToSetIndices
  <2>3. CASE i \notin 1 .. Len(s)
    <3>1. i - Len(s) \in 1 .. Len(t) /\ Len(s) + (i - Len(s)) = i
      BY <1>1, <2>3
    <3>2. x = t[i - Len(s)]
      BY <1>1, <2>1, <3>1
    <3>. QED BY <3>1, <3>2, ToSetIndices
  <2>. QED BY <2>2, <2>3
<1>3. ASSUME NEW x \in ToSet(s) PROVE x \in ToSet(u)
  <2>1. PICK i \in 1 .. Len(s) : s[i] = x
    BY ToSetIndices
  <2>2. i \in 1 .. Len(u) /\ u[i] = x
    BY <1>1, <2>1
  <2>. QED BY <1>1, <2>2, ToSetIndices
<1>4. ASSUME NEW x \in ToSet(t) PROVE x \in ToSet(u)
  <2>1. PICK i \in 1 .. Len(t) : t[i] = x
    BY ToSetIndices
  <2>2. Len(s) + i \in 1 .. Len(u) /\ u[Len(s) + i] = x
    BY <1>1, <2>1
  <2>. QED BY <1>1, <2>2, ToSetIndices
<1>. QED BY <1>1, <1>2, <1>3, <1>4 DEF Joined

Parted(u, s, a, b) ==
    /\ Len(u) = b - a
    /\ \A i \in 1 .. b - a : u[i] = s[a + i] /\ a + i \in 1 .. Len(s)
    /\ \A x : x \in ToSet(u) <=> \E i \in a+1 .. b : s[i] = x

LEMMA ToSetPart ==
    ASSUME NEW T, NEW s \in Seq(T), NEW a \in 0 .. Len(s), NEW b \in a .. Len(s),
           NEW u, u = Part(s, a, b)
    PROVE  u \in Seq(T) /\ Parted(u, s, a, b)
<1>1. /\ u \in Seq(T) /\ Len(u) = b - a /\ Len(s) \in Nat
      /\ \A i \in 1 .. b - a : u[i] = s[a + i] /\ a + i \in 1 .. Len(s)
  BY DEF Part
<1>2. ASSUME NEW x \in ToSet(u) PROVE \E i \in a+1 .. b : s[i] = x
  <2>1. PICK i \in 1 .. b - a : u[i] = x
    BY <1>1, ToSetIndices
  <2>2. a + i \in a+1 .. b /\ s[a + i] = x
    BY <1>1, <2>1
  <2>. QED BY <2>2
<1>3. ASSUME NEW i \in a+1 .. b PROVE s[i] \in ToSet(u)
  <2>1. PICK n \in 1 .. Len(u) : a + n = i
    <3>1. i - a \in 1 .. Len(u) /\ a + (i - a) = i
      BY <1>1
    <3>. QED BY <3>1
  <2>2. u[n] = s[i]
    BY <1>1, <2>1
  <2>. QED BY <1>1, <2>2, ToSetIndices
<1>. QED BY <1>1, <1>2, <1>3 DEF Parted

-----------------------------------------------------------------------------
(* Selections. *)

IsKept(f, s, wanted) ==
    f = [n \in 0 .. Len(s) |->
            IF n = 0 THEN <<>>
            ELSE IF s[n] \in wanted THEN Append(f[n-1], s[n]) ELSE f[n-1]]

LEMMA KeptEquations ==
    ASSUME NEW T, NEW s \in Seq(T), NEW wanted
    PROVE  /\ DOMAIN Kept(s, wanted) = 0 .. Len(s)
           /\ Kept(s, wanted)[0] = <<>>
           /\ \A n \in 1 .. Len(s) :
                Kept(s, wanted)[n] = IF s[n] \in wanted
                                     THEN Append(Kept(s, wanted)[n-1], s[n])
                                     ELSE Kept(s, wanted)[n-1]
<1> DEFINE N == Len(s)
           grow == [n \in 1 .. N |-> [x \in Seq(T) |->
                      IF s[n] \in wanted THEN Append(x, s[n]) ELSE x]]
<1>1. N \in Nat /\ \A n \in 1 .. N : s[n] \in T
  OBVIOUS
<1>2. grow \in [1 .. N -> [Seq(T) -> Seq(T)]]
  BY <1>1
<1>3. <<>> \in Seq(T)
  OBVIOUS
<1>4. \A n \in 1 .. N, x \in Seq(T) :
         grow[n][x] = IF s[n] \in wanted THEN Append(x, s[n]) ELSE x
  OBVIOUS
<1> HIDE DEF grow
<1>5. PICK f \in [0 .. N -> Seq(T)] : IsRecursion(f, <<>>, N, grow)
  BY <1>1, <1>2, <1>3, RecursionExists
<1>6. ASSUME NEW n \in 0 .. N
      PROVE  f[n] = IF n = 0 THEN <<>>
                    ELSE IF s[n] \in wanted THEN Append(f[n-1], s[n]) ELSE f[n-1]
  <2>1. f[n] = IF n = 0 THEN <<>> ELSE grow[n][f[n-1]]
    BY <1>5, Zenon DEF IsRecursion
  <2>2. n # 0 => n \in 1 .. N /\ f[n-1] \in Seq(T)
    BY <1>1, <1>5
  <2>. QED BY <1>4, <2>1, <2>2
<1>7. f = [n \in 0 .. N |-> f[n]]
  BY <1>5
<1>8. IsKept(f, s, wanted)
  BY <1>6, <1>7, Zenon DEF IsKept
<1>9. Kept(s, wanted) = CHOOSE g : IsKept(g, s, wanted)
  BY Zenon DEF Kept, IsKept
<1>10. IsKept(Kept(s, wanted), s, wanted)
  BY <1>8, <1>9, Zenon
<1> DEFINE k == Kept(s, wanted)
<1>11. k = [n \in 0 .. N |-> IF n = 0 THEN <<>>
                             ELSE IF s[n] \in wanted THEN Append(k[n-1], s[n]) ELSE k[n-1]]
  BY <1>10, Zenon DEF IsKept
<1> HIDE DEF k
<1>12. DOMAIN k = 0 .. N
  BY <1>11, Zenon
<1>13. \A n \in 0 .. N : k[n] = IF n = 0 THEN <<>>
                               ELSE IF s[n] \in wanted THEN Append(k[n-1], s[n]) ELSE k[n-1]
  BY <1>11, Zenon
<1>14. 0 \in 0 .. N /\ \A n \in 1 .. N : n \in 0 .. N /\ n # 0
  BY <1>1
<1>15. k[0] = <<>>
  BY <1>13, <1>14, Zenon
<1>16. \A n \in 1 .. N : k[n] = IF s[n] \in wanted THEN Append(k[n-1], s[n]) ELSE k[n-1]
  BY <1>13, <1>14, Zenon
<1>. QED BY <1>12, <1>15, <1>16 DEF k

\* One element comes before another somewhere in a list.
Precedes(x, y, s) == \E i, j \in DOMAIN s : i < j /\ s[i] = x /\ s[j] = y

\* What a filter returns: what is wanted, all of it, in the list's order.
LEMMA SelectContract ==
    ASSUME NEW T, NEW s \in Seq(T), NEW wanted
    PROVE  /\ Select(s, wanted) \in Seq(T)
           /\ ToSet(Select(s, wanted)) = ToSet(s) \cap wanted
           /\ \A i, j \in DOMAIN Select(s, wanted) :
                i < j => Precedes(Select(s, wanted)[i], Select(s, wanted)[j], s)
<1> DEFINE k == Kept(s, wanted)
           Upto(n) == {s[i] : i \in 1 .. n}
           Earlier(x, y, n) == \E i, j \in 1 .. n : i < j /\ s[i] = x /\ s[j] = y
           Good(n) == /\ k[n] \in Seq(T)
                      /\ ToSet(k[n]) = Upto(n) \cap wanted
                      /\ \A i, j \in 1 .. Len(k[n]) : i < j => Earlier(k[n][i], k[n][j], n)
           S == {n \in Nat : n <= Len(s) => Good(n)}
<1>0. Len(s) \in Nat /\ (\A n \in 1 .. Len(s) : s[n] \in T) /\ DOMAIN s = 1 .. Len(s)
  OBVIOUS
<1>1. /\ k[0] = <<>>
      /\ \A n \in 1 .. Len(s) :
            k[n] = IF s[n] \in wanted THEN Append(k[n-1], s[n]) ELSE k[n-1]
  BY KeptEquations
<1> HIDE DEF k
<1>2. 0 \in S
  <2>1. ToSet(<<>>) = {} /\ Upto(0) = {}
    BY DEF ToSet
  <2>2. <<>> \in Seq(T) /\ Len(<<>>) = 0 /\ \A i : i \notin 1 .. 0
    OBVIOUS
  <2> HIDE DEF Upto, Earlier
  <2>3. Good(0)
    BY <1>1, <2>1, <2>2
  <2>. QED BY <2>3
<1>3. ASSUME NEW n \in Nat, n \in S PROVE n + 1 \in S
  <2> SUFFICES ASSUME n + 1 <= Len(s) PROVE Good(n + 1)
    OBVIOUS
  <2>0. n + 1 \in 1 .. Len(s) /\ (n + 1) - 1 = n /\ n <= Len(s)
    BY <1>0
  <2>1. Good(n) /\ s[n+1] \in T
    BY <1>0, <1>3, <2>0
  <2>2. Upto(n + 1) = Upto(n) \cup {s[n+1]}
    <3>1. 1 .. n+1 = (1 .. n) \cup {n + 1}
      OBVIOUS
    <3>. QED BY <3>1
  <2>3. k[n+1] = IF s[n+1] \in wanted THEN Append(k[n], s[n+1]) ELSE k[n]
    BY <1>1, <2>0
  <2>4. \A x, y : Earlier(x, y, n) => Earlier(x, y, n + 1)
    OBVIOUS
  <2>5. CASE s[n+1] \notin wanted
    <3>1. k[n+1] = k[n] /\ Upto(n + 1) \cap wanted = Upto(n) \cap wanted
      BY <2>2, <2>3, <2>5
    <3> HIDE DEF Upto, Earlier
    <3>. QED BY <2>1, <2>4, <3>1
  <2>6. CASE s[n+1] \in wanted
    <3>1. k[n+1] = Append(k[n], s[n+1]) /\ k[n] \in Seq(T)
      BY <2>1, <2>3, <2>6
    <3>2. /\ k[n+1] \in Seq(T) /\ Len(k[n+1]) = Len(k[n]) + 1 /\ Len(k[n]) \in Nat
          /\ \A i \in 1 .. Len(k[n]) : k[n+1][i] = k[n][i]
          /\ k[n+1][Len(k[n]) + 1] = s[n+1]
      BY <2>1, <3>1
    <3>3. ToSet(k[n+1]) = ToSet(k[n]) \cup {s[n+1]}
      <4>1. DOMAIN k[n+1] = (DOMAIN k[n]) \cup {Len(k[n]) + 1}
        BY <3>1, <3>2
      <4>. QED BY <3>1, <3>2, <4>1 DEF ToSet
    <3>4. ToSet(k[n+1]) = Upto(n + 1) \cap wanted
      <4> HIDE DEF Upto
      <4>. QED BY <2>1, <2>2, <2>6, <3>3
    <3>5. ASSUME NEW i \in 1 .. Len(k[n+1]), NEW j \in 1 .. Len(k[n+1]), i < j
          PROVE  Earlier(k[n+1][i], k[n+1][j], n + 1)
      <4>1. i \in 1 .. Len(k[n]) /\ k[n+1][i] = k[n][i]
        BY <3>2, <3>5
      <4>2. CASE j \in 1 .. Len(k[n])
        <5>1. Earlier(k[n][i], k[n][j], n)
          BY <2>1, <3>5, <4>1, <4>2
        <5>. QED BY <2>4, <3>2, <4>1, <4>2, <5>1
      <4>3. CASE j = Len(k[n]) + 1
        <5>1. k[n][i] \in ToSet(k[n])
          BY <3>1, <4>1 DEF ToSet
        <5>2. PICK a \in 1 .. n : s[a] = k[n][i]
          BY <2>1, <5>1
        <5>. QED BY <3>2, <4>1, <4>3, <5>2
      <4>. QED BY <3>2, <4>2, <4>3
    <3>. QED BY <3>2, <3>4, <3>5
  <2>. QED BY <2>5, <2>6
<1>4. Len(s) \in S
  <2> HIDE DEF S
  <2>. QED BY <1>0, <1>2, <1>3, NatSetInduction
<1>5. Good(Len(s)) /\ Select(s, wanted) = k[Len(s)]
  BY <1>0, <1>4 DEF Select, k
<1>6. Upto(Len(s)) = ToSet(s)
  BY <1>0 DEF ToSet
<1>7. DOMAIN k[Len(s)] = 1 .. Len(k[Len(s)])
  BY <1>5
<1>8. ASSUME NEW x, NEW y, Earlier(x, y, Len(s)) PROVE Precedes(x, y, s)
  BY <1>0, <1>8 DEF Precedes
<1> HIDE DEF Upto, Earlier
<1>. QED BY <1>5, <1>6, <1>7, <1>8

-----------------------------------------------------------------------------
(* Folding a list into a projection. *)

Distinct(s) == \A i, j \in DOMAIN s : s[i].signature = s[j].signature => i = j

LEMMA ApplyType ==
    ASSUME NEW p \in Projection, NEW tx \in Transaction
    PROVE  apply_transaction(p, tx) \in Projection
<1>1. p.folded \in Seq(Transaction) /\ p.applied \in SUBSET Signatures /\ tx.signature \in Signatures
  BY DEF Projection, Transaction
<1>2. Append(p.folded, tx) \in Seq(Transaction)
  BY <1>1
<1>. QED BY <1>1, <1>2 DEF apply_transaction, Projection

IsApplied(f, p, txs) ==
    f = [n \in 0 .. Len(txs) |-> IF n = 0 THEN p ELSE apply_transaction(f[n-1], txs[n])]

LEMMA AppliedEquations ==
    ASSUME NEW p \in Projection, NEW txs \in Seq(Transaction)
    PROVE  /\ Applied(p, txs) \in [0 .. Len(txs) -> Projection]
           /\ Applied(p, txs)[0] = p
           /\ \A n \in 1 .. Len(txs) :
                Applied(p, txs)[n] = apply_transaction(Applied(p, txs)[n-1], txs[n])
<1> DEFINE N == Len(txs)
           grow == [n \in 1 .. N |-> [q \in Projection |-> apply_transaction(q, txs[n])]]
<1>1. N \in Nat /\ \A n \in 1 .. N : txs[n] \in Transaction
  OBVIOUS
<1>2. grow \in [1 .. N -> [Projection -> Projection]]
  BY <1>1, ApplyType
<1>4. \A n \in 1 .. N, q \in Projection : grow[n][q] = apply_transaction(q, txs[n])
  OBVIOUS
<1> HIDE DEF grow
<1>5. PICK f \in [0 .. N -> Projection] : IsRecursion(f, p, N, grow)
  BY <1>1, <1>2, RecursionExists
<1>6. ASSUME NEW n \in 0 .. N
      PROVE  f[n] = IF n = 0 THEN p ELSE apply_transaction(f[n-1], txs[n])
  <2>1. f[n] = IF n = 0 THEN p ELSE grow[n][f[n-1]]
    BY <1>5, Zenon DEF IsRecursion
  <2>2. n # 0 => n \in 1 .. N /\ f[n-1] \in Projection
    BY <1>1, <1>5
  <2>. QED BY <1>4, <2>1, <2>2, Zenon
<1>7. f = [n \in 0 .. N |-> f[n]]
  BY <1>5
<1>8. IsApplied(f, p, txs)
  BY <1>6, <1>7, Zenon DEF IsApplied
<1>9. Applied(p, txs) = CHOOSE g : IsApplied(g, p, txs)
  BY Zenon DEF Applied, IsApplied
<1>10. IsApplied(Applied(p, txs), p, txs)
  BY <1>8, <1>9, Zenon
<1> DEFINE a == Applied(p, txs)
<1>11. a = [n \in 0 .. N |-> IF n = 0 THEN p ELSE apply_transaction(a[n-1], txs[n])]
  BY <1>10, Zenon DEF IsApplied
<1> HIDE DEF a
<1>12. a = [n \in 0 .. N |-> a[n]]
  BY <1>11, Zenon
<1>13. \A n \in 0 .. N : a[n] = IF n = 0 THEN p ELSE apply_transaction(a[n-1], txs[n])
  BY <1>11, Zenon
<1>14. 0 \in 0 .. N /\ \A n \in 1 .. N : n \in 0 .. N /\ n # 0
  BY <1>1
<1>15. a[0] = p /\ \A n \in 1 .. N : a[n] = apply_transaction(a[n-1], txs[n])
  BY <1>13, <1>14, Zenon
<1> DEFINE S == {n \in Nat : n <= N => a[n] \in Projection}
<1>16. 0 \in S
  BY <1>15
<1>17. ASSUME NEW n \in Nat, n \in S PROVE n + 1 \in S
  <2> SUFFICES ASSUME n + 1 <= N PROVE a[n+1] \in Projection
    OBVIOUS
  <2>1. n + 1 \in 1 .. N /\ (n + 1) - 1 = n /\ n <= N
    BY <1>1
  <2>2. a[n] \in Projection /\ a[n+1] = apply_transaction(a[n], txs[n+1])
    BY <1>15, <1>17, <2>1
  <2>. QED BY <1>1, <2>1, <2>2, ApplyType
<1>18. \A n \in 0 .. N : a[n] \in Projection
  <2>1. \A n \in Nat : n \in S
    <3> HIDE DEF S
    <3>. QED BY <1>16, <1>17, NatSetInduction
  <2>. QED BY <2>1, <1>1
<1>19. a \in [0 .. N -> Projection]
  BY <1>12, <1>18
<1>. QED BY <1>15, <1>19 DEF a

LEMMA ApplyAllType ==
    ASSUME NEW p \in Projection, NEW txs \in Seq(Transaction)
    PROVE  ApplyAll(p, txs) \in Projection
  BY AppliedEquations DEF ApplyAll

LEMMA ApplyNothing ==
    ASSUME NEW p \in Projection
    PROVE  ApplyAll(p, <<>>) = p
<1>1. <<>> \in Seq(Transaction) /\ Len(<<>>) = 0
  OBVIOUS
<1>. QED BY <1>1, AppliedEquations DEF ApplyAll

\* A list may be folded in parts.
LEMMA ApplyParts ==
    ASSUME NEW p \in Projection, NEW s \in Seq(Transaction), NEW t \in Seq(Transaction)
    PROVE  ApplyAll(p, s \o t) = ApplyAll(ApplyAll(p, s), t)
<1> DEFINE u == s \o t
           q == ApplyAll(p, s)
           a == Applied(p, s)
           b == Applied(q, t)
           c == Applied(p, u)
<1>1. /\ u \in Seq(Transaction) /\ Len(u) = Len(s) + Len(t)
      /\ Len(s) \in Nat /\ Len(t) \in Nat
      /\ \A i \in 1 .. Len(s) : u[i] = s[i]
      /\ \A i \in 1 .. Len(t) : u[Len(s) + i] = t[i]
  OBVIOUS
<1>2. q \in Projection
  BY ApplyAllType
<1> HIDE DEF u
<1>3. /\ a[0] = p /\ \A n \in 1 .. Len(s) : a[n] = apply_transaction(a[n-1], s[n])
      /\ b[0] = q /\ \A n \in 1 .. Len(t) : b[n] = apply_transaction(b[n-1], t[n])
      /\ c[0] = p /\ \A n \in 1 .. Len(u) : c[n] = apply_transaction(c[n-1], u[n])
      /\ q = a[Len(s)]
  BY <1>1, <1>2, AppliedEquations DEF ApplyAll
<1> HIDE DEF a, b, c, q
<1> DEFINE S == {n \in Nat : n <= Len(s) => c[n] = a[n]}
<1>4. 0 \in S
  BY <1>3
<1>5. ASSUME NEW n \in Nat, n \in S PROVE n + 1 \in S
  <2> SUFFICES ASSUME n + 1 <= Len(s) PROVE c[n+1] = a[n+1]
    OBVIOUS
  <2>0. c[n] = a[n]
    BY <1>1, <1>5
  <2> HIDE DEF S
  <2>1. n + 1 \in 1 .. Len(s) /\ n + 1 \in 1 .. Len(u) /\ (n + 1) - 1 = n /\ c[n] = a[n]
    <3>1. Len(s) \in Nat /\ Len(u) \in Nat /\ Len(s) <= Len(u)
      BY <1>1
    <3>. QED BY <2>0, <3>1
  <2>2. c[n+1] = apply_transaction(c[n], u[n+1]) /\ a[n+1] = apply_transaction(a[n], s[n+1])
    BY <1>3, <2>1
  <2>. QED BY <1>1, <2>1, <2>2
<1>6. c[Len(s)] = a[Len(s)]
  <2>1. Len(s) \in S
    <3> HIDE DEF S
    <3>. QED BY <1>1, <1>4, <1>5, NatSetInduction
  <2>. QED BY <1>1, <2>1
<1> DEFINE R == {n \in Nat : n <= Len(t) => c[Len(s) + n] = b[n]}
<1>7. 0 \in R
  BY <1>1, <1>3, <1>6
<1>8. ASSUME NEW n \in Nat, n \in R PROVE n + 1 \in R
  <2> SUFFICES ASSUME n + 1 <= Len(t) PROVE c[Len(s) + (n + 1)] = b[n+1]
    OBVIOUS
  <2> DEFINE m == Len(s) + (n + 1)
  <2>0. c[Len(s) + n] = b[n]
    BY <1>8
  <2>1. /\ n + 1 \in 1 .. Len(t) /\ m \in 1 .. Len(u)
        /\ (n + 1) - 1 = n /\ m - 1 = Len(s) + n /\ c[Len(s) + n] = b[n]
    <3> HIDE DEF R, S
    <3>. QED BY <1>1, <2>0
  <2>2. u[m] = t[n+1]
    BY <1>1, <2>1
  <2> HIDE DEF m
  <2>3. c[m] = apply_transaction(c[Len(s) + n], t[n+1])
    <3>1. c[m] = apply_transaction(c[m-1], u[m])
      BY <1>3, <2>1
    <3>. QED BY <2>1, <2>2, <3>1
  <2>4. b[n+1] = apply_transaction(b[n], t[n+1])
    BY <1>3, <2>1
  <2>. QED BY <2>1, <2>3, <2>4 DEF m
<1>9. c[Len(u)] = b[Len(t)]
  <2>1. Len(t) \in R
    <3> HIDE DEF R
    <3>. QED BY <1>1, <1>7, <1>8, NatSetInduction
  <2>. QED BY <1>1, <2>1
<1>. QED BY <1>9 DEF ApplyAll, a, b, c, q, u

LEMMA AddToJoin ==
    ASSUME NEW T, NEW s \in Seq(T), NEW t \in Seq(T), NEW x \in T
    PROVE  Add(Join(s, t), x) = Join(s, Add(t, x))
  BY DEF Join, Add

\* What folding a list of different transactions adds: those not applied before, in
\* their order.
LEMMA ApplyFolds ==
    ASSUME NEW p \in Projection, NEW s \in Seq(Transaction), Distinct(s), NEW wanted,
           \A i \in DOMAIN s : s[i] \in wanted <=> s[i].signature \notin p.applied
    PROVE  /\ ApplyAll(p, s).folded = p.folded \o Select(s, wanted)
           /\ ApplyAll(p, s).applied = p.applied \cup SignaturesOf(s)
<1> DEFINE a == Applied(p, s)
           k == Kept(s, wanted)
           Seen(n) == {s[i].signature : i \in 1 .. n}
           Grown(n) == p.folded \o k[n]
           Good(n) == /\ k[n] \in Seq(Transaction)
                      /\ a[n].folded = Grown(n)
                      /\ a[n].applied = p.applied \cup Seen(n)
           S == {n \in Nat : n <= Len(s) => Good(n)}
<1>0. /\ Len(s) \in Nat /\ DOMAIN s = 1 .. Len(s)
      /\ \A n \in 1 .. Len(s) : s[n] \in Transaction
      /\ p.folded \in Seq(Transaction)
  BY DEF Projection
<1>1. /\ k[0] = <<>>
      /\ \A n \in 1 .. Len(s) :
            k[n] = IF s[n] \in wanted THEN Append(k[n-1], s[n]) ELSE k[n-1]
  BY KeptEquations
<1>2. /\ a[0] = p
      /\ \A n \in 1 .. Len(s) : a[n] = apply_transaction(a[n-1], s[n])
  BY AppliedEquations
<1> HIDE DEF k, a, Seen, Grown
<1>3. 0 \in S
  <2>1. <<>> \in Seq(Transaction) /\ Grown(0) = p.folded
    BY <1>0, <1>1 DEF Grown
  <2>2. Seen(0) = {}
    BY DEF Seen
  <2>3. Good(0)
    BY <1>1, <1>2, <2>1, <2>2
  <2>. QED BY <2>3
<1>4. ASSUME NEW n \in Nat, n \in S PROVE n + 1 \in S
  <2> SUFFICES ASSUME n + 1 <= Len(s) PROVE Good(n + 1)
    OBVIOUS
  <2>0. n + 1 \in 1 .. Len(s) /\ (n + 1) - 1 = n /\ n <= Len(s)
    BY <1>0
  <2>1. Good(n) /\ s[n+1] \in Transaction
    BY <1>0, <1>4, <2>0
  <2>2. Seen(n + 1) = Seen(n) \cup {s[n+1].signature}
    <3>1. 1 .. n+1 = (1 .. n) \cup {n + 1}
      OBVIOUS
    <3>. QED BY <3>1 DEF Seen
  <2>3. s[n+1].signature \notin Seen(n)
    <3>1. \A i \in 1 .. n : i \in DOMAIN s /\ i # n + 1
      BY <1>0, <2>0
    <3>. QED BY <1>0, <2>0, <3>1 DEF Distinct, Seen
  <2>4. s[n+1] \in wanted <=> s[n+1].signature \notin a[n].applied
    BY <1>0, <2>0, <2>1, <2>3
  <2>5. /\ k[n+1] = IF s[n+1] \in wanted THEN Append(k[n], s[n+1]) ELSE k[n]
        /\ a[n+1] = apply_transaction(a[n], s[n+1])
    BY <1>1, <1>2, <2>0
  <2>6. CASE s[n+1] \in wanted
    <3>0. /\ a[n+1] = [folded  |-> Append(a[n].folded, s[n+1]),
                       applied |-> a[n].applied \cup {s[n+1].signature}]
          /\ k[n+1] = Append(k[n], s[n+1])
      BY <2>4, <2>5, <2>6 DEF apply_transaction
    <3>1. /\ a[n+1].folded = Append(Grown(n), s[n+1])
          /\ a[n+1].applied = p.applied \cup Seen(n + 1)
      BY <2>1, <2>2, <3>0
    <3>2. Append(Grown(n), s[n+1]) = Grown(n + 1)
      <4>1. k[n] \in Seq(Transaction) /\ s[n+1] \in Transaction /\ p.folded \in Seq(Transaction)
        BY <1>0, <2>1
      <4>2. Add(Join(p.folded, k[n]), s[n+1]) = Join(p.folded, Add(k[n], s[n+1]))
        BY <4>1, AddToJoin
      <4>. QED BY <3>0, <4>2, Zenon DEF Grown, Join, Add
    <3>3. Append(k[n], s[n+1]) \in Seq(Transaction)
      BY <2>1
    <3>. QED BY <3>0, <3>1, <3>2, <3>3
  <2>7. CASE s[n+1] \notin wanted
    <3>1. Grown(n + 1) = Grown(n)
      BY <2>5, <2>7 DEF Grown
    <3>. QED BY <3>1, <2>1, <2>2, <2>4, <2>5, <2>7 DEF apply_transaction
  <2>. QED BY <2>6, <2>7
<1>5. Len(s) \in S
  <2> HIDE DEF S
  <2>. QED BY <1>0, <1>3, <1>4, NatSetInduction
<1>6. Seen(Len(s)) = SignaturesOf(s)
  BY <1>0 DEF SignaturesOf, Seen
<1>7. Good(Len(s))
  BY <1>0, <1>5
<1>. QED BY <1>6, <1>7 DEF ApplyAll, Select, a, k, Grown

-----------------------------------------------------------------------------
(* The stable sort. *)

IsGrouped(f, s, classes) ==
    f = [n \in 0 .. Len(classes) |->
            IF n = 0 THEN <<>> ELSE f[n-1] \o Select(s, classes[n])]

LEMMA GroupedEquations ==
    ASSUME NEW T, NEW s \in Seq(T), NEW classes \in Seq(SUBSET T)
    PROVE  /\ Grouped(s, classes)[0] = <<>>
           /\ \A n \in 1 .. Len(classes) :
                Grouped(s, classes)[n] = Join(Grouped(s, classes)[n-1], Select(s, classes[n]))
<1> DEFINE N == Len(classes)
           part(n) == Select(s, classes[n])
           grow == [n \in 1 .. N |-> [x \in Seq(T) |-> x \o part(n)]]
<1>1. N \in Nat
  OBVIOUS
<1>2. grow \in [1 .. N -> [Seq(T) -> Seq(T)]]
  <2>1. \A n \in 1 .. N : part(n) \in Seq(T)
    BY SelectContract
  <2> HIDE DEF part
  <2>. QED BY <2>1
<1>3. <<>> \in Seq(T)
  OBVIOUS
<1> HIDE DEF part
<1>4. \A n \in 1 .. N, x \in Seq(T) : grow[n][x] = Join(x, part(n))
  BY Zenon DEF Join
<1> HIDE DEF grow
<1>5. PICK f \in [0 .. N -> Seq(T)] : IsRecursion(f, <<>>, N, grow)
  BY <1>1, <1>2, <1>3, RecursionExists
<1>6. ASSUME NEW n \in 0 .. N
      PROVE  f[n] = IF n = 0 THEN <<>> ELSE Join(f[n-1], part(n))
  <2>1. f[n] = IF n = 0 THEN <<>> ELSE grow[n][f[n-1]]
    BY <1>5, Zenon DEF IsRecursion
  <2>2. n # 0 => n \in 1 .. N /\ f[n-1] \in Seq(T)
    <3>1. n # 0 => n \in 1 .. N /\ n - 1 \in 0 .. N
      BY <1>1
    <3>. QED BY <1>5, <3>1, Zenon
  <2>. QED BY <1>4, <2>1, <2>2, Zenon
<1>7. f = [n \in 0 .. N |-> f[n]]
  BY <1>5
<1>8. IsGrouped(f, s, classes)
  BY <1>6, <1>7, Zenon DEF IsGrouped, Join, part
<1>9. Grouped(s, classes) = CHOOSE g : IsGrouped(g, s, classes)
  BY Zenon DEF Grouped, IsGrouped
<1>10. IsGrouped(Grouped(s, classes), s, classes)
  BY <1>8, <1>9, Zenon
<1> DEFINE a == Grouped(s, classes)
<1>11. a = [n \in 0 .. N |-> IF n = 0 THEN <<>> ELSE Join(a[n-1], part(n))]
  BY <1>10, Zenon DEF IsGrouped, Join, part
<1> HIDE DEF a
<1>12. \A n \in 0 .. N : a[n] = IF n = 0 THEN <<>> ELSE Join(a[n-1], part(n))
  BY <1>11, Zenon
<1>13. 0 \in 0 .. N /\ \A n \in 1 .. N : n \in 0 .. N /\ n # 0
  BY <1>1
<1>14. a[0] = <<>> /\ \A n \in 1 .. N : a[n] = Join(a[n-1], part(n))
  BY <1>12, <1>13, Zenon
<1>. QED BY <1>14, Zenon DEF a, part

\* By class, and inside a class as in s.
InOrder(x, y, s, classes) ==
    \E a, b \in 1 .. Len(classes) :
        /\ x \in classes[a] /\ y \in classes[b]
        /\ a < b \/ (a = b /\ Precedes(x, y, s))

\* What the sort returns: what is in some class, by class, and inside a class in the
\* order of the list.
LEMMA SortByContract ==
    ASSUME NEW T, NEW s \in Seq(T), NEW classes \in Seq(SUBSET T)
    PROVE  /\ SortBy(s, classes) \in Seq(T)
           /\ \A x : x \in ToSet(SortBy(s, classes)) <=>
                       x \in ToSet(s) /\ \E n \in 1 .. Len(classes) : x \in classes[n]
           /\ \A i, j \in DOMAIN SortBy(s, classes) :
                i < j => InOrder(SortBy(s, classes)[i], SortBy(s, classes)[j], s, classes)
<1> DEFINE N == Len(classes)
           a == Grouped(s, classes)
           part(n) == Select(s, classes[n])
           Upto(x, n) == x \in ToSet(s) /\ \E m \in 1 .. n : x \in classes[m]
           Ordered(x, y) == InOrder(x, y, s, classes)
           Good(n) == /\ a[n] \in Seq(T)
                      /\ \A x : x \in ToSet(a[n]) <=> Upto(x, n)
                      /\ \A i, j \in 1 .. Len(a[n]) : i < j => Ordered(a[n][i], a[n][j])
           S == {n \in Nat : n <= N => Good(n)}
<1>0. N \in Nat
  OBVIOUS
<1>1. a[0] = <<>> /\ \A n \in 1 .. N : a[n] = Join(a[n-1], part(n))
  BY GroupedEquations, Zenon
<1>2. ASSUME NEW n \in 1 .. N
      PROVE  /\ part(n) \in Seq(T)
             /\ \A x : x \in ToSet(part(n)) <=> x \in ToSet(s) /\ x \in classes[n]
             /\ \A i, j \in 1 .. Len(part(n)) : i < j => Precedes(part(n)[i], part(n)[j], s)
  <2>1. /\ part(n) \in Seq(T)
        /\ ToSet(part(n)) = ToSet(s) \cap classes[n]
        /\ \A i, j \in DOMAIN part(n) : i < j => Precedes(part(n)[i], part(n)[j], s)
    BY SelectContract
  <2> HIDE DEF part
  <2>2. DOMAIN part(n) = 1 .. Len(part(n))
    BY <2>1
  <2>. QED BY <2>1, <2>2
<1> HIDE DEF a, part, Ordered
<1>3. 0 \in S
  <2>1. ToSet(<<>>) = {} /\ \A x : ~Upto(x, 0)
    BY DEF ToSet
  <2>2. <<>> \in Seq(T) /\ Len(<<>>) = 0 /\ \A i : i \notin 1 .. 0
    OBVIOUS
  <2>3. Good(0)
    <3> HIDE DEF Upto
    <3>. QED BY <1>1, <2>1, <2>2
  <2>. QED BY <2>3
<1>4. ASSUME NEW n \in Nat, n \in S PROVE n + 1 \in S
  <2> SUFFICES ASSUME n + 1 <= N PROVE Good(n + 1)
    OBVIOUS
  <2>0. n + 1 \in 1 .. N /\ (n + 1) - 1 = n /\ n <= N
    BY <1>0
  <2> DEFINE v == a[n]
             t == part(n + 1)
             u == a[n+1]
  <2>1. /\ v \in Seq(T) /\ \A x : x \in ToSet(v) <=> Upto(x, n)
        /\ \A i, j \in 1 .. Len(v) : i < j => Ordered(v[i], v[j])
    BY <1>4, <2>0
  <2>2. /\ t \in Seq(T)
        /\ \A x : x \in ToSet(t) <=> x \in ToSet(s) /\ x \in classes[n + 1]
        /\ \A i, j \in 1 .. Len(t) : i < j => Precedes(t[i], t[j], s)
    BY <1>2, <2>0
  <2>3. u = Join(v, t)
    BY <1>1, <2>0
  <2>4. \A x : Upto(x, n + 1) <=> Upto(x, n) \/ (x \in ToSet(s) /\ x \in classes[n + 1])
    BY <2>0
  <2> HIDE DEF v, t, u
  <2>5. /\ u \in Seq(T) /\ Len(u) = Len(v) + Len(t) /\ Len(v) \in Nat /\ Len(t) \in Nat
        /\ \A i \in 1 .. Len(v) : u[i] = v[i]
        /\ \A i \in 1 .. Len(t) : u[Len(v) + i] = t[i]
        /\ \A x : x \in ToSet(u) <=> x \in ToSet(v) \/ x \in ToSet(t)
    <3> HIDE DEF Upto
    <3>1. v \in Seq(T) /\ t \in Seq(T)
      BY <2>1, <2>2
    <3>2. u \in Seq(T) /\ Joined(u, v, t)
      BY <2>3, <3>1, ToSetJoin, Zenon
    <3>. QED BY <3>1, <3>2 DEF Joined
  <2>6. /\ \A i \in 1 .. Len(v) : Upto(v[i], n)
        /\ \A i \in 1 .. Len(t) : t[i] \in ToSet(t)
    <3> HIDE DEF Upto
    <3>. QED BY <2>1, <2>2, ToSetIndices
  <2>7. ASSUME NEW i \in 1 .. Len(u), NEW j \in 1 .. Len(u), i < j
        PROVE  Ordered(u[i], u[j])
    <3>1. CASE j \in 1 .. Len(v)
      <4>1. i \in 1 .. Len(v)
        BY <2>5, <2>7, <3>1
      <4>. QED BY <2>1, <2>5, <2>7, <3>1, <4>1
    <3>2. CASE j \notin 1 .. Len(v)
      <4> DEFINE jj == j - Len(v)
      <4>1. jj \in 1 .. Len(t) /\ Len(v) + jj = j
        BY <2>5, <3>2
      <4>2. u[j] = t[jj] /\ t[jj] \in ToSet(s) /\ t[jj] \in classes[n + 1]
        <5> HIDE DEF jj, Upto
        <5>. QED BY <2>2, <2>5, <2>6, <4>1
      <4>3. CASE i \in 1 .. Len(v)
        <5>1. PICK m \in 1 .. n : v[i] \in classes[m]
          BY <2>6, <4>3
        <5>2. m \in 1 .. N /\ m < n + 1
          BY <2>0
        <5>. QED BY <2>0, <2>5, <4>2, <4>3, <5>1, <5>2 DEF Ordered, InOrder
      <4>4. CASE i \notin 1 .. Len(v)
        <5> DEFINE ii == i - Len(v)
        <5>1. ii \in 1 .. Len(t) /\ Len(v) + ii = i /\ ii < jj
          BY <2>5, <2>7, <4>1, <4>4
        <5> HIDE DEF ii, jj, Upto
        <5>2. u[i] = t[ii] /\ t[ii] \in classes[n + 1]
          BY <2>2, <2>5, <2>6, <5>1
        <5>3. Precedes(t[ii], t[jj], s)
          BY <2>2, <4>1, <5>1
        <5>. QED BY <2>0, <4>2, <5>2, <5>3 DEF Ordered, InOrder
      <4>. QED BY <4>3, <4>4
    <3>. QED BY <3>1, <3>2
  <2>8. \A x : x \in ToSet(u) <=> Upto(x, n + 1)
    <3> HIDE DEF Upto
    <3>. QED BY <2>1, <2>2, <2>4, <2>5
  <2> HIDE DEF Upto
  <2>. QED BY <2>5, <2>7, <2>8 DEF u
<1>5. Good(N)
  <2>1. N \in S
    <3> HIDE DEF S
    <3>. QED BY <1>0, <1>3, <1>4, NatSetInduction
  <2> HIDE DEF Upto
  <2>. QED BY <1>0, <2>1
<1>6. SortBy(s, classes) = a[N]
  BY DEF SortBy, a
<1>7. DOMAIN a[N] = 1 .. Len(a[N])
  BY <1>5
<1>8. \A i, j \in DOMAIN SortBy(s, classes) :
         i < j => Ordered(SortBy(s, classes)[i], SortBy(s, classes)[j])
  BY <1>5, <1>6, <1>7
<1>. QED BY <1>5, <1>6, <1>8 DEF Ordered

LEMMA SlotsOf ==
    ASSUME NEW txs \in Seq(Transaction), NEW tx \in ToSet(txs)
    PROVE  tx \in Transaction /\ tx.slot \in 1 .. MaxSlot
<1>1. tx \in Transaction
  BY DEF ToSet
<1>. QED BY <1>1 DEF Transaction

\* fetch's sort: the same transactions, by slot, and inside a slot in the order of the
\* list.
LEMMA SortContract ==
    ASSUME NEW txs \in Seq(Transaction)
    PROVE  /\ sort_by_slot(txs) \in Seq(Transaction)
           /\ ToSet(sort_by_slot(txs)) = ToSet(txs)
           /\ \A i, j \in DOMAIN sort_by_slot(txs) : i < j =>
                LET tx == sort_by_slot(txs)[i]
                    ty == sort_by_slot(txs)[j]
                IN  tx.slot < ty.slot \/ (tx.slot = ty.slot /\ Precedes(tx, ty, txs))
<1> DEFINE sorted == SortBy(txs, BySlot)
<1>1. MaxSlot \in Nat
  BY ClusterAssumption
<1>2. /\ BySlot \in Seq(SUBSET Transaction) /\ Len(BySlot) = MaxSlot
      /\ \A n \in 1 .. MaxSlot : BySlot[n] = {tx \in Transaction : tx.slot = n}
  BY <1>1 DEF BySlot
<1>3. /\ sorted \in Seq(Transaction)
      /\ \A x : x \in ToSet(sorted) <=>
                  x \in ToSet(txs) /\ \E n \in 1 .. Len(BySlot) : x \in BySlot[n]
      /\ \A i, j \in DOMAIN sorted : i < j => InOrder(sorted[i], sorted[j], txs, BySlot)
  BY <1>2, SortByContract
<1> HIDE DEF sorted
<1>4. ToSet(sorted) = ToSet(txs)
  BY <1>2, <1>3, SlotsOf
<1>5. ASSUME NEW i \in DOMAIN sorted, NEW j \in DOMAIN sorted, i < j
      PROVE  \/ sorted[i].slot < sorted[j].slot
             \/ sorted[i].slot = sorted[j].slot /\ Precedes(sorted[i], sorted[j], txs)
  <2>1. InOrder(sorted[i], sorted[j], txs, BySlot)
    BY <1>3, <1>5
  <2>2. PICK a, b \in 1 .. MaxSlot :
           /\ sorted[i] \in BySlot[a] /\ sorted[j] \in BySlot[b]
           /\ a < b \/ (a = b /\ Precedes(sorted[i], sorted[j], txs))
    BY <1>2, <2>1 DEF InOrder
  <2>3. sorted[i].slot = a /\ sorted[j].slot = b
    BY <1>2, <2>2
  <2>. QED BY <2>2, <2>3
<1>6. sort_by_slot(txs) = sorted
  BY DEF sort_by_slot, sorted
<1>. QED BY <1>3, <1>4, <1>5, <1>6

-----------------------------------------------------------------------------
(* What poll takes from its lists. *)

LEMMA SameSequence ==
    ASSUME NEW T, NEW s \in Seq(T), NEW t \in Seq(T),
           Len(s) = Len(t), \A i \in 1 .. Len(s) : s[i] = t[i]
    PROVE  s = t
  OBVIOUS

LEMMA TransactionFields ==
    ASSUME NEW tx \in Transaction
    PROVE  /\ tx.slot \in Nat /\ tx.slot \in 1 .. MaxSlot
           /\ tx.signature \in Signatures /\ tx.signature # NoSignature
  BY IngestAssumption, ClusterAssumption DEF Transaction

LEMMA MinOfNat ==
    ASSUME NEW I \in SUBSET Nat, I # {}
    PROVE  Min(I) \in I /\ \A i \in I : Min(I) <= i
  BY LeastNat DEF Min

LEMMA PartsJoin ==
    ASSUME NEW T, NEW s \in Seq(T), NEW a \in 0 .. Len(s)
    PROVE  /\ Part(s, 0, a) \in Seq(T) /\ Part(s, a, Len(s)) \in Seq(T)
           /\ Join(Part(s, 0, a), Part(s, a, Len(s))) = s
<1> DEFINE u == Part(s, 0, a)
           v == Part(s, a, Len(s))
           w == Join(u, v)
<1>1. /\ u \in Seq(T) /\ Len(u) = a /\ \A i \in 1 .. a : u[i] = s[i]
      /\ v \in Seq(T) /\ Len(v) = Len(s) - a /\ \A i \in 1 .. Len(s) - a : v[i] = s[a + i]
      /\ Len(s) \in Nat /\ a \in Nat
  BY DEF Part
<1> HIDE DEF u, v
<1>2. /\ w \in Seq(T) /\ Len(w) = Len(u) + Len(v)
      /\ \A i \in 1 .. Len(u) : w[i] = u[i]
      /\ \A i \in 1 .. Len(v) : w[Len(u) + i] = v[i]
  BY <1>1 DEF Join
<1> HIDE DEF w
<1>3. ASSUME NEW i \in 1 .. Len(s) PROVE w[i] = s[i]
  <2>1. CASE i <= a
    BY <1>1, <1>2, <2>1
  <2>2. CASE i > a
    <3>1. PICK n \in 1 .. Len(s) - a : a + n = i
      <4>1. i - a \in 1 .. Len(s) - a /\ a + (i - a) = i
        BY <1>1, <2>2
      <4>. QED BY <4>1
    <3>. QED BY <1>1, <1>2, <3>1
  <2>. QED BY <1>1, <2>1, <2>2
<1>4. w = s
  BY <1>1, <1>2, <1>3, SameSequence
<1>. QED BY <1>1, <1>4 DEF u, v, w

\* Everything up to and including the cursor's signature is dropped, if it is there.
LEMMA AfterCursor ==
    ASSUME NEW txs \in Seq(Transaction)
    PROVE  \E a \in 0 .. Len(txs) :
             /\ after_cursor(txs) = Part(txs, a, Len(txs))
             /\ a = 0 => \A i \in 1 .. Len(txs) : txs[i].signature # ingestor.cursor.signature
             /\ a > 0 => txs[a].signature = ingestor.cursor.signature
<1> DEFINE I == {i \in 1 .. Len(txs) : txs[i].signature = ingestor.cursor.signature}
           a == IF I # {} THEN Min(I) ELSE 0
<1>1. after_cursor(txs) = SubSeq(txs, a + 1, Len(txs))
  BY DEF after_cursor, SelectInSeq
<1>2. I \in SUBSET Nat /\ Len(txs) \in Nat
  OBVIOUS
<1>3. I # {} => Min(I) \in I
  <2> HIDE DEF I
  <2>. QED BY <1>2, MinOfNat
<1>4. /\ a \in 0 .. Len(txs)
      /\ a = 0 => \A i \in 1 .. Len(txs) : txs[i].signature # ingestor.cursor.signature
      /\ a > 0 => txs[a].signature = ingestor.cursor.signature
  BY <1>2, <1>3
<1> HIDE DEF a
<1>. QED BY <1>1, <1>4, Zenon DEF Part

\* What settles is the prefix up to the finalised slot.
LEMMA Settling ==
    ASSUME NEW txs \in Seq(Transaction), finalized_slot \in Nat
    PROVE  \E m \in 0 .. Len(txs) :
             /\ settling(txs) = Part(txs, 0, m)
             /\ \A i \in 1 .. m : txs[i].slot <= finalized_slot
<1> DEFINE I == {i \in 1 .. Len(txs) : txs[i].slot > finalized_slot}
           o == IF I # {} THEN Min(I) ELSE 0
           m == IF o = 0 THEN Len(txs) ELSE o - 1
<1>1. settling(txs) = SubSeq(txs, 1, m)
  BY DEF settling, SelectInSeq
<1>2. I \in SUBSET Nat /\ Len(txs) \in Nat
  OBVIOUS
<1>3. I # {} => Min(I) \in I /\ \A i \in I : Min(I) <= i
  <2> HIDE DEF I
  <2>. QED BY <1>2, MinOfNat
<1>4. m \in 0 .. Len(txs) /\ \A i \in 1 .. m : i \in 1 .. Len(txs) /\ i \notin I
  <2>1. CASE I = {}
    BY <1>2, <2>1
  <2>2. CASE I # {}
    <3>1. o \in I /\ \A i \in I : o <= i
      BY <1>3, <2>2
    <3>2. o \in 1 .. Len(txs)
      BY <3>1
    <3> HIDE DEF o, I
    <3>3. m = o - 1 /\ m \in 0 .. Len(txs)
      BY <1>2, <3>2
    <3>4. \A i \in 1 .. m : i \in 1 .. Len(txs) /\ ~(o <= i)
      BY <1>2, <3>2, <3>3
    <3>. QED BY <3>1, <3>3, <3>4
  <2>. QED BY <2>1, <2>2
<1>5. \A i \in 1 .. Len(txs) : txs[i] \in Transaction
  OBVIOUS
<1> HIDE DEF m
<1>6. ASSUME NEW i \in 1 .. m PROVE txs[i].slot <= finalized_slot
  <2>1. i \in 1 .. Len(txs) /\ ~(txs[i].slot > finalized_slot)
    BY <1>4
  <2>2. txs[i].slot \in Nat
    BY <1>5, <2>1, TransactionFields
  <2>. QED BY <2>1, <2>2
<1>7. settling(txs) = Part(txs, 0, m)
  BY <1>1 DEF Part
<1>. QED BY <1>4, <1>6, <1>7

\* A poll's window is cut from the sorted list.
LEMMA Window ==
    ASSUME NEW txs \in Seq(Transaction), txs = sort_by_slot(merged)
    PROVE  \E a \in 0 .. Len(txs) : \E b \in a .. Len(txs) :
             /\ window = Part(txs, a, b)
             /\ a = 0 => \A i \in 1 .. Len(txs) : txs[i].signature # ingestor.cursor.signature
             /\ a > 0 => txs[a].signature = ingestor.cursor.signature
<1>1. PICK a \in 0 .. Len(txs) :
        /\ after_cursor(txs) = Part(txs, a, Len(txs))
        /\ a = 0 => \A i \in 1 .. Len(txs) : txs[i].signature # ingestor.cursor.signature
        /\ a > 0 => txs[a].signature = ingestor.cursor.signature
  BY AfterCursor
<1> DEFINE rest == Part(txs, a, Len(txs))
           n == IF Len(rest) < Limit THEN Len(rest) ELSE Limit
<1>2. rest \in Seq(Transaction) /\ Len(rest) = Len(txs) - a /\ Len(txs) \in Nat
  BY DEF Part
<1>3. window = SubSeq(rest, 1, n)
  BY <1>1 DEF window, truncate
<1> HIDE DEF rest
<1>4. Limit \in Nat
  BY IngestAssumption, ClusterAssumption
<1>5. n \in Nat /\ n <= Len(txs) - a /\ a + n \in a .. Len(txs)
  BY <1>2, <1>4
<1> HIDE DEF n
<1>6. SubSeq(rest, 1, n) = Part(txs, a, a + n)
  BY <1>5 DEF rest, Part
<1>. QED BY <1>1, <1>3, <1>5, <1>6, Zenon

LEMMA CommonPrefix ==
    ASSUME NEW T, NEW s \in Seq(T), NEW t \in Seq(T)
    PROVE  /\ Len(LongestCommonPrefix({s, t})) \in Nat
           /\ Len(LongestCommonPrefix({s, t})) <= Len(s)
           /\ Len(LongestCommonPrefix({s, t})) <= Len(t)
           /\ \A i \in 1 .. Len(LongestCommonPrefix({s, t})) : s[i] = t[i]
<1> DEFINE C == CommonPrefixes({s, t})
           p == LongestCommonPrefix({s, t})
<1>1. ASSUME NEW q \in C
      PROVE  q \in Seq(T) /\ IsPrefix(q, s) /\ IsPrefix(q, t)
  BY DEF CommonPrefixes, Prefixes
<1>2. <<>> \in C
  <2>1. SubSeq(s, 1, 0) = <<>> /\ 0 \in 0 .. Len(s)
    OBVIOUS
  <2>2. <<>> \in Prefixes(s)
    BY <2>1 DEF Prefixes
  <2>3. \A x \in {s, t} : IsPrefix(<<>>, x)
    BY DEF IsPrefix
  <2>. QED BY <2>2, <2>3 DEF CommonPrefixes
<1> HIDE DEF C
<1>3. \E q \in C : \A other \in C : Len(other) <= Len(q)
  <2> DEFINE gap(q) == Len(s) - Len(q)
             G == {gap(q) : q \in C}
  <2>1. \A q \in C : Len(q) \in Nat /\ Len(q) <= Len(s) /\ gap(q) \in Nat
    BY <1>1 DEF IsPrefix
  <2>2. G \in SUBSET Nat /\ G # {}
    BY <1>2, <2>1
  <2>3. PICK x \in G : \A y \in G : x <= y
    <3> HIDE DEF G
    <3>. QED BY <2>2, LeastNat
  <2>4. PICK q \in C : x = gap(q)
    OBVIOUS
  <2>5. \A other \in C : gap(q) <= gap(other)
    BY <2>3, <2>4
  <2>6. Len(s) \in Nat
    OBVIOUS
  <2>. QED BY <2>1, <2>4, <2>5, <2>6
<1>4. p = CHOOSE q \in C : \A other \in C : Len(other) <= Len(q)
  BY Zenon DEF LongestCommonPrefix, C
<1>5. p \in C
  BY <1>3, <1>4, Zenon
<1> HIDE DEF p
<1>6. p \in Seq(T) /\ IsPrefix(p, s) /\ IsPrefix(p, t)
  BY <1>1, <1>5
<1>7. /\ Len(p) \in Nat /\ Len(p) <= Len(s) /\ Len(p) <= Len(t)
      /\ \A i \in 1 .. Len(p) : s[i] = t[i]
  BY <1>6 DEF IsPrefix
<1>. QED BY <1>7 DEF p

LEMMA NamesType ==
    ASSUME NEW s \in Seq(Transaction)
    PROVE  /\ names(s) \in Seq(Signatures) /\ Len(names(s)) = Len(s)
           /\ \A i \in 1 .. Len(s) : names(s)[i] = s[i].signature
<1>1. Len(s) \in Nat /\ DOMAIN s = 1 .. Len(s) /\ \A i \in 1 .. Len(s) : s[i] \in Transaction
  OBVIOUS
<1>2. names(s) = [i \in 1 .. Len(s) |-> s[i].signature]
  BY <1>1 DEF names
<1>3. \A i \in 1 .. Len(s) : s[i].signature \in Signatures
  BY <1>1, TransactionFields
<1>. QED BY <1>1, <1>2, <1>3

LEMMA NamesJoin ==
    ASSUME NEW s \in Seq(Transaction), NEW t \in Seq(Transaction)
    PROVE  Join(names(s), names(t)) = names(Join(s, t))
<1> DEFINE u == Join(s, t)
           v == names(s)
           w == names(t)
           x == Join(v, w)
           y == names(u)
<1>1. /\ u \in Seq(Transaction) /\ Len(u) = Len(s) + Len(t)
      /\ Len(s) \in Nat /\ Len(t) \in Nat
      /\ \A i \in 1 .. Len(s) : u[i] = s[i]
      /\ \A i \in 1 .. Len(t) : u[Len(s) + i] = t[i]
  BY DEF Join
<1> HIDE DEF u
<1>2. /\ v \in Seq(Signatures) /\ Len(v) = Len(s) /\ \A i \in 1 .. Len(s) : v[i] = s[i].signature
      /\ w \in Seq(Signatures) /\ Len(w) = Len(t) /\ \A i \in 1 .. Len(t) : w[i] = t[i].signature
      /\ y \in Seq(Signatures) /\ Len(y) = Len(u) /\ \A i \in 1 .. Len(u) : y[i] = u[i].signature
  BY <1>1, NamesType
<1> HIDE DEF v, w, y
<1>3. /\ x \in Seq(Signatures) /\ Len(x) = Len(v) + Len(w)
      /\ \A i \in 1 .. Len(v) : x[i] = v[i]
      /\ \A i \in 1 .. Len(w) : x[Len(v) + i] = w[i]
  <2>1. v \in Seq(Signatures) /\ w \in Seq(Signatures)
    BY <1>2
  <2>. QED BY <2>1 DEF Join
<1> HIDE DEF x
<1>4. ASSUME NEW i \in 1 .. Len(x) PROVE x[i] = y[i]
  <2>0. i \in 1 .. Len(s) + Len(t) /\ i \in 1 .. Len(u)
    BY <1>1, <1>2, <1>3
  <2>1. CASE i <= Len(s)
    <3>1. i \in 1 .. Len(s) /\ i \in 1 .. Len(v)
      BY <1>1, <1>2, <2>0, <2>1
    <3>2. x[i] = s[i].signature /\ y[i] = u[i].signature /\ u[i] = s[i]
      BY <1>1, <1>2, <1>3, <2>0, <3>1, Zenon
    <3>. QED BY <3>2
  <2>2. CASE i > Len(s)
    <3>1. PICK n \in 1 .. Len(t) : Len(s) + n = i
      <4>1. i - Len(s) \in 1 .. Len(t) /\ Len(s) + (i - Len(s)) = i
        BY <1>1, <2>0, <2>2
      <4>. QED BY <4>1
    <3>2. x[i] = t[n].signature /\ y[i] = u[i].signature /\ u[i] = t[n]
      <4>1. x[Len(v) + n] = w[n] /\ w[n] = t[n].signature /\ Len(v) + n = i
        BY <1>2, <1>3, <3>1, Zenon
      <4>. QED BY <4>1, <1>1, <1>2, <2>0, <3>1, Zenon
    <3>. QED BY <3>2
  <2>. QED BY <1>1, <2>0, <2>1, <2>2
<1>5. x = y
  <2>1. Len(x) = Len(y)
    BY <1>1, <1>2, <1>3
  <2>. QED BY <1>2, <1>3, <1>4, <2>1, SameSequence
<1>. QED BY <1>5 DEF u, v, w, x, y

-----------------------------------------------------------------------------
(* The inductive invariant. *)

FirstProgram(signature) ==
    CHOOSE a \in Touches[signature] : \A b \in Touches[signature] : a <= b

FirstAddress(tx) == FirstProgram(tx.signature)

\* The order in which poll applies the transactions of one slot: by the first program
\* that lists them, then as the cluster did.
AppliedBefore(list, i, j) ==
    \/ FirstAddress(list[i]) < FirstAddress(list[j])
    \/ FirstAddress(list[i]) = FirstAddress(list[j]) /\ i < j

\* The ledger: by slot, each transaction once, and nothing forgotten that the
\* database does not have.
LedgerInv ==
    /\ \A i, j \in DOMAIN ledger : i < j => ledger[i].slot <= ledger[j].slot
    /\ Distinct(ledger)
    /\ \A i \in 1 .. pruned : ledger[i] \in ToSet(store.folded)

\* What a cursor says of the transactions folded up to it.
FoldedTo(folded, cursor, list, slot) ==
    /\ \A i \in DOMAIN folded :
         folded[i] \in ToSet(list) /\ folded[i].slot <= slot /\ folded[i].slot <= cursor.slot
    /\ \A i, j \in DOMAIN folded :
         i < j => folded[i].signature # folded[j].signature /\ folded[i].slot <= folded[j].slot
    /\ (cursor = NoCursor /\ folded = <<>>) \/ cursor \in ToSet(folded)
    /\ \A i \in DOMAIN list : list[i].slot < cursor.slot => list[i] \in ToSet(folded)
    /\ \A i, j \in DOMAIN list :
         list[j] = cursor /\ list[i].slot = cursor.slot /\ AppliedBefore(list, i, j)
            => list[i] \in ToSet(folded)

\* The database.
StoreInv ==
    /\ FoldedTo(store.folded, store.cursor, ledger, final)
    /\ store.events = ToSet(store.folded)

\* The finalised projection: what a slot served again would repeat is known.
FinalizedInv ==
    /\ FoldedTo(ingestor.finalized.folded, ingestor.cursor, ledger, final)
    /\ ingestor.finalized.applied \subseteq SignaturesOf(ingestor.finalized.folded)
    /\ \A i \in DOMAIN ingestor.finalized.folded :
         ingestor.finalized.folded[i].slot >= ingestor.cursor.slot
            => ingestor.finalized.folded[i].signature \in ingestor.finalized.applied

\* Head is the replay over it.
HeadOver(i) ==
    /\ i.head = ApplyAll(i.finalized, i.replay)
    /\ i.pending = names(i.replay)
    /\ Distinct(i.replay)
    /\ \A n \in DOMAIN i.replay :
         i.replay[n] \in ToSet(i.finalized.folded)
            <=> i.replay[n].signature \in i.finalized.applied

HeadInv == HeadOver(ingestor)

\* Memory and database, by where the loop is.
LoopInv ==
    /\ pc # "fetching" => merged = <<>> /\ next = 1
    /\ pc # "committing" => settled = <<>>
    /\ pc \in {"polling", "fetching"} =>
         ingestor.finalized.folded = store.folded /\ ingestor.cursor = store.cursor
    /\ pc = "committing" =>
         /\ Len(store.folded) <= Len(ingestor.finalized.folded)
         /\ \A i \in DOMAIN store.folded : ingestor.finalized.folded[i] = store.folded[i]
         /\ ToSet(ingestor.finalized.folded) = ToSet(store.folded) \cup ToSet(settled)
         /\ store.cursor.slot <= ingestor.cursor.slot
         /\ settled = <<>> =>
              ingestor.finalized.folded = store.folded /\ ingestor.cursor = store.cursor

\* What has been asked so far is complete up to the finality read before it, and in
\* the order of AppliedBefore.
FetchInv ==
    /\ finalized_slot <= final
    /\ ingestor.cursor.slot <= finalized_slot
    /\ Distinct(merged)
    /\ \A i \in DOMAIN merged :
         /\ merged[i].slot >= ingestor.cursor.slot
         /\ merged[i].slot <= finalized_slot
              => merged[i] \in ToSet(ledger) /\ FirstAddress(merged[i]) < next
    /\ \A i \in DOMAIN ledger :
         ledger[i].slot <= finalized_slot /\ ledger[i].signature \in SignaturesOf(merged)
            => ledger[i] \in ToSet(merged)
    /\ \A i \in DOMAIN ledger :
         (/\ pruned < i
          /\ ledger[i].slot >= ingestor.cursor.slot
          /\ ledger[i].slot <= finalized_slot
          /\ FirstAddress(ledger[i]) < next)
            => ledger[i] \in ToSet(merged)
    /\ \A i, j \in DOMAIN merged, a, b \in DOMAIN ledger :
         (/\ i < j /\ merged[i] = ledger[a] /\ merged[j] = ledger[b]
          /\ ledger[a].slot <= finalized_slot /\ ledger[b].slot <= finalized_slot)
            => AppliedBefore(ledger, a, b)

IInv ==
    /\ TypeOK /\ LedgerInv /\ StoreInv /\ FinalizedInv /\ HeadInv /\ LoopInv
    /\ pc = "fetching" => FetchInv

-----------------------------------------------------------------------------
(* What a poll does to the memory. *)

Ingestor ==
    [finalized : Projection, head : Projection, pending : Seq(Signatures),
     cursor : Cursor, replay : Seq(Transaction)]

ReplayedOver(finalized, cursor, txs) ==
    [finalized |-> finalized, head |-> ApplyAll(finalized, txs), pending |-> names(txs),
     cursor |-> cursor, replay |-> txs]

\* However much of the last batch the new one agrees with, the outcome is the new one
\* replayed over what is final.
LEMMA AbsorbedIsReplay ==
    ASSUME ingestor \in Ingestor, HeadInv, NEW batch \in Seq(Transaction)
    PROVE  Absorbed(batch) = ReplayedOver(ingestor.finalized, ingestor.cursor, batch)
<1> DEFINE n == Len(LongestCommonPrefix({ingestor.replay, batch}))
           shared == SubSeq(batch, 1, n)
           fresh == Part(batch, n, Len(batch))
           F == ingestor.finalized
           base == IF n < Len(ingestor.replay) THEN rebuild_head_from_finalized(shared)
                   ELSE ingestor
<1>0. ingestor.replay \in Seq(Transaction) /\ F \in Projection
  BY DEF Ingestor
<1>1. /\ n \in Nat /\ n <= Len(ingestor.replay) /\ n <= Len(batch)
      /\ \A i \in 1 .. n : ingestor.replay[i] = batch[i]
  BY <1>0, CommonPrefix
<1>2. Absorbed(batch) = [base EXCEPT !.head = ApplyAll(@, fresh),
                                     !.pending = Join(@, names(fresh)),
                                     !.replay = Join(@, fresh)]
  BY Zenon DEF Absorbed, Part, Join
<1> HIDE DEF n
<1>3. n \in 0 .. Len(batch) /\ shared = Part(batch, 0, n)
  BY <1>1 DEF Part
<1>4. shared \in Seq(Transaction) /\ fresh \in Seq(Transaction) /\ Join(shared, fresh) = batch
  BY <1>3, PartsJoin, Zenon
<1>5. n = Len(ingestor.replay) => ingestor.replay = shared
  <2> SUFFICES ASSUME n = Len(ingestor.replay) PROVE ingestor.replay = shared
    OBVIOUS
  <2>1. Len(shared) = n /\ \A i \in 1 .. n : shared[i] = batch[i]
    BY <1>3
  <2> HIDE DEF shared
  <2>. QED BY <1>0, <1>1, <1>4, <2>1, SameSequence
<1> HIDE DEF shared, fresh
<1>6. base = ReplayedOver(F, ingestor.cursor, shared)
  <2>1. CASE n < Len(ingestor.replay)
    <3>1. base = rebuild_head_from_finalized(shared)
      BY <2>1
    <3>. QED BY <3>1 DEF rebuild_head_from_finalized, ReplayedOver, Ingestor
  <2>2. CASE ~(n < Len(ingestor.replay))
    <3>1. base = ingestor /\ ingestor.replay = shared
      <4>1. n = Len(ingestor.replay)
        BY <1>0, <1>1, <2>2
      <4>. QED BY <1>5, <2>2, <4>1
    <3>2. ingestor.head = ApplyAll(F, shared) /\ ingestor.pending = names(shared)
      BY <3>1 DEF HeadInv, HeadOver
    <3> HIDE DEF base
    <3>. QED BY <3>1, <3>2 DEF ReplayedOver, Ingestor
  <2>. QED BY <2>1, <2>2
<1> HIDE DEF base
<1>7. ApplyAll(ApplyAll(F, shared), fresh) = ApplyAll(F, batch)
  BY <1>0, <1>4, ApplyParts, Zenon DEF Join
<1>8. Join(names(shared), names(fresh)) = names(batch)
  BY <1>4, NamesJoin, Zenon
<1>9. Absorbed(batch) = [finalized |-> F, head |-> ApplyAll(ApplyAll(F, shared), fresh),
                         pending |-> Join(names(shared), names(fresh)),
                         cursor |-> ingestor.cursor, replay |-> Join(shared, fresh)]
  BY <1>2, <1>6 DEF ReplayedOver
<1>. QED BY <1>4, <1>7, <1>8, <1>9, Zenon DEF ReplayedOver

LEMMA ApplyJoin ==
    ASSUME NEW p \in Projection, NEW s \in Seq(Transaction), NEW t \in Seq(Transaction),
           NEW u, Join(s, t) = u
    PROVE  ApplyAll(p, u) = ApplyAll(ApplyAll(p, s), t)
  BY ApplyParts DEF Join

Whole(i) ==
    i = [finalized |-> i.finalized, head |-> i.head, pending |-> i.pending,
         cursor |-> i.cursor, replay |-> i.replay]

Made(f, h, p, c, r) ==
    [finalized |-> f, head |-> h, pending |-> p, cursor |-> c, replay |-> r]
Put(i, f, p, c, r) ==
    [i EXCEPT !.finalized = f, !.cursor = c, !.replay = r, !.pending = p]

LEMMA Advanced ==
    ASSUME NEW i, Whole(i), NEW f, NEW p, NEW c, NEW r
    PROVE  Put(i, f, p, c, r) = Made(f, i.head, p, c, r)
<1> DEFINE j == [i EXCEPT !.finalized = f, !.cursor = c, !.replay = r, !.pending = p]
<1>1. DOMAIN i = {"finalized", "head", "pending", "cursor", "replay"}
  BY DEF Whole
<1>2. DOMAIN j = {"finalized", "head", "pending", "cursor", "replay"}
  BY <1>1
<1>3. /\ j.finalized = f /\ j.head = i.head /\ j.pending = p /\ j.cursor = c /\ j.replay = r
  BY <1>1
<1>4. j = [x \in DOMAIN j |-> j[x]]
  OBVIOUS
<1> HIDE DEF j
<1>5. j = [finalized |-> f, head |-> i.head, pending |-> p, cursor |-> c, replay |-> r]
  BY <1>2, <1>3, <1>4
<1>. QED BY <1>5 DEF j, Put, Made

CursorAfter(cursor, promoted) == IF promoted = <<>> THEN cursor ELSE Last(promoted)

LEMMA AdvanceIsReplay ==
    ASSUME NEW F \in Projection, NEW cursor, NEW batch \in Seq(Transaction),
           NEW m \in 0 .. Len(batch), NEW promoted, promoted = Part(batch, 0, m),
           NEW rest, rest = Part(batch, m, Len(batch))
    PROVE  advance_finality(ReplayedOver(F, cursor, batch), promoted)
             = ReplayedOver(ApplyAll(F, promoted),
                            CursorAfter(cursor, promoted), rest)
<1>1. promoted \in Seq(Transaction) /\ rest \in Seq(Transaction) /\ Join(promoted, rest) = batch
  BY PartsJoin, Zenon
<1>2. Len(promoted) = m /\ Len(rest) = Len(batch) - m /\ Len(batch) \in Nat
      /\ \A i \in 1 .. Len(batch) - m : rest[i] = batch[m + i] /\ m + i \in 1 .. Len(batch)
  BY DEF Part
<1>3. ApplyAll(F, batch) = ApplyAll(ApplyAll(F, promoted), rest)
  BY <1>1, ApplyJoin
<1>4. SubSeq(batch, m + 1, Len(batch)) = rest
  BY DEF Part
<1>5. SubSeq(names(batch), m + 1, Len(names(batch))) = names(rest)
  <2> DEFINE x == names(batch)
             y == names(rest)
             z == SubSeq(x, m + 1, Len(x))
  <2>1. /\ x \in Seq(Signatures) /\ Len(x) = Len(batch)
        /\ \A i \in 1 .. Len(batch) : x[i] = batch[i].signature
        /\ y \in Seq(Signatures) /\ Len(y) = Len(rest)
        /\ \A i \in 1 .. Len(rest) : y[i] = rest[i].signature
    BY <1>1, NamesType
  <2> HIDE DEF x, y
  <2>2. /\ z \in Seq(Signatures) /\ Len(z) = Len(x) - m
        /\ \A i \in 1 .. Len(x) - m : z[i] = x[m + i]
    BY <1>2, <2>1
  <2> HIDE DEF z
  <2>3. ASSUME NEW i \in 1 .. Len(z) PROVE z[i] = y[i]
    <3>1. z[i] = x[m + i] /\ m + i \in 1 .. Len(batch) /\ i \in 1 .. Len(rest)
          /\ rest[i] = batch[m + i]
      BY <1>2, <2>1, <2>2
    <3>. QED BY <2>1, <3>1, Zenon
  <2>4. Len(z) = Len(y)
    BY <1>2, <2>1, <2>2
  <2>5. z = y
    BY <2>1, <2>2, <2>3, <2>4, SameSequence
  <2>. QED BY <2>5 DEF x, y, z
<1> DEFINE r == ReplayedOver(F, cursor, batch)
<1>6. /\ r.finalized = F /\ r.head = ApplyAll(F, batch) /\ r.pending = names(batch)
      /\ r.cursor = cursor /\ r.replay = batch
      /\ r = [finalized |-> r.finalized, head |-> r.head, pending |-> r.pending,
              cursor |-> r.cursor, replay |-> r.replay]
  BY Zenon DEF ReplayedOver
<1>7. /\ SubSeq(r.replay, Len(promoted) + 1, Len(r.replay)) = rest
      /\ SubSeq(r.pending, Len(promoted) + 1, Len(r.pending)) = names(rest)
  BY <1>2, <1>4, <1>5, <1>6, Zenon
<1> HIDE DEF r
<1>8. advance_finality(r, promoted)
        = [finalized |-> ApplyAll(r.finalized, promoted), head |-> r.head,
           pending |-> SubSeq(r.pending, Len(promoted) + 1, Len(r.pending)),
           cursor |-> IF promoted = <<>> THEN r.cursor ELSE Last(promoted),
           replay |-> SubSeq(r.replay, Len(promoted) + 1, Len(r.replay))]
  <2> DEFINE c == IF promoted = <<>> THEN r.cursor ELSE Last(promoted)
             p == SubSeq(r.pending, Len(promoted) + 1, Len(r.pending))
             q == SubSeq(r.replay, Len(promoted) + 1, Len(r.replay))
             f == ApplyAll(r.finalized, promoted)
  <2>1. advance_finality(r, promoted) = Put(r, f, p, c, q)
    BY Zenon DEF advance_finality, Put
  <2>2. Whole(r)
    BY <1>6, Zenon DEF Whole
  <2> HIDE DEF c, p, q, f
  <2>3. Put(r, f, p, c, q) = Made(f, r.head, p, c, q)
    BY <2>2, Advanced, Zenon
  <2>. QED BY <2>1, <2>3, Zenon DEF c, p, q, f, Made
<1>. QED BY <1>3, <1>6, <1>7, <1>8, Zenon DEF ReplayedOver, CursorAfter, r

\* Logs are those of the transaction as it is in the ledger now.
LEMMA LogsFor ==
    ASSUME ledger \in Seq(Transaction), pruned \in 0 .. Len(ledger), LogsAvailable,
           NEW txs \in Seq(Transaction), txs = window
    PROVE  /\ logs_for(txs) \in Seq(Transaction)
           /\ Len(logs_for(txs)) = Len(txs)
           /\ \A i \in 1 .. Len(txs) :
                logs_for(txs)[i] \in ToSet(ledger) /\ logs_for(txs)[i].signature = txs[i].signature
<1>1. /\ Len(txs) \in Nat /\ DOMAIN txs = 1 .. Len(txs)
      /\ \A x \in ToSet(ledger) : x \in Transaction
  BY ToSetIndices
<1>2. ASSUME NEW i \in 1 .. Len(txs)
      PROVE  \E tx \in ToSet(ledger) : tx.signature = txs[i].signature
  <2>1. txs[i].signature \in SignaturesOf(window)
    BY <1>1 DEF SignaturesOf
  <2>2. Listed = Part(ledger, pruned, Len(ledger))
    BY DEF Listed, Part
  <2>3. Listed \in Seq(Transaction) /\ Parted(Listed, ledger, pruned, Len(ledger))
    BY <2>2, ToSetPart
  <2>4. PICK n \in DOMAIN Listed : Listed[n].signature = txs[i].signature
    BY <2>1 DEF LogsAvailable, SignaturesOf
  <2>5. Listed[n] \in ToSet(ledger)
    <3>1. Len(ledger) \in Nat /\ n \in 1 .. Len(ledger) - pruned
      BY <2>3, <2>4 DEF Parted
    <3>. QED BY <2>3, <3>1, ToSetIndices DEF Parted
  <2>. QED BY <2>4, <2>5
<1> DEFINE log(i) == CHOOSE tx \in ToSet(ledger) : tx.signature = txs[i].signature
<1>3. \A i \in 1 .. Len(txs) : log(i) \in ToSet(ledger) /\ log(i).signature = txs[i].signature
  BY <1>2
<1>4. logs_for(txs) = [i \in 1 .. Len(txs) |-> log(i)]
  BY <1>1 DEF logs_for, Entry
<1> HIDE DEF log
<1>5. \A i \in 1 .. Len(txs) : log(i) \in Transaction
  BY <1>1, <1>3
<1>. QED BY <1>1, <1>3, <1>4, <1>5

-----------------------------------------------------------------------------
(* Typing, and the initial state. *)

LEMMA CursorType ==
    /\ NoCursor \in Cursor /\ NoProjection \in Projection
    /\ \A tx \in Transaction : tx \in Cursor /\ tx # NoCursor
    /\ \A cursor \in Cursor : cursor.slot \in Nat
  BY IngestAssumption, ClusterAssumption DEF NoCursor, NoProjection, Cursor, Projection, Transaction

LEMMA RestoredIsReplay ==
    ASSUME NEW cursor, NEW p \in Projection
    PROVE  restore(cursor, p) = ReplayedOver(p, cursor, <<>>)
<1>1. ApplyAll(p, <<>>) = p
  BY ApplyNothing
<1>2. names(<<>>) = <<>>
  BY DEF names
<1> DEFINE head == ApplyAll(p, <<>>)
           pending == names(<<>>)
<1> HIDE DEF head, pending
<1>3. restore(cursor, p) = [finalized |-> p, head |-> head, pending |-> pending,
                            cursor |-> cursor, replay |-> <<>>]
  BY <1>1, <1>2 DEF restore, head, pending
<1>. QED BY <1>3 DEF ReplayedOver, head, pending

LEMMA ReplayType ==
    ASSUME NEW cursor \in Cursor, NEW p \in Projection, NEW txs \in Seq(Transaction)
    PROVE  ReplayedOver(p, cursor, txs) \in Ingestor
<1>1. ApplyAll(p, txs) \in Projection /\ names(txs) \in Seq(Signatures)
  BY ApplyAllType, NamesType
<1>. QED BY <1>1 DEF ReplayedOver, Ingestor

\* Nothing is folded, and nothing is before the cursor.
LEMMA NothingFolded ==
    ASSUME NEW list \in Seq(Transaction), NEW slot
    PROVE  FoldedTo(<<>>, NoCursor, list, slot)
<1>1. DOMAIN <<>> = {}
  OBVIOUS
<1>2. ASSUME NEW i \in DOMAIN list
      PROVE  ~(list[i].slot < NoCursor.slot) /\ list[i] # NoCursor
  <2>1. list[i] \in Transaction
    OBVIOUS
  <2>2. list[i].slot \in Nat /\ list[i] # NoCursor /\ NoCursor.slot = 0
    BY <2>1, TransactionFields, CursorType DEF NoCursor
  <2>. QED BY <2>2
<1>. QED BY <1>1, <1>2 DEF FoldedTo

LEMMA Forgotten ==
    ASSUME NEW list \in Seq(Transaction), NEW slot, NEW i,
           i = restore(NoCursor, NoProjection)
    PROVE  /\ i \in Ingestor
           /\ FoldedTo(i.finalized.folded, i.cursor, list, slot)
           /\ i.finalized.folded = <<>> /\ i.finalized.applied = {} /\ i.replay = <<>>
           /\ i = ReplayedOver(i.finalized, i.cursor, i.replay)
<1>1. i = ReplayedOver(NoProjection, NoCursor, <<>>)
  BY RestoredIsReplay, CursorType
<1>2. i.finalized = NoProjection /\ i.cursor = NoCursor /\ i.replay = <<>>
  BY <1>1 DEF ReplayedOver
<1>3. i \in Ingestor
  <2>1. <<>> \in Seq(Transaction)
    OBVIOUS
  <2>. QED BY <1>1, <2>1, ReplayType, CursorType
<1>4. i.finalized.folded = <<>> /\ i.finalized.applied = {}
  BY <1>2 DEF NoProjection
<1>5. FoldedTo(i.finalized.folded, i.cursor, list, slot)
  BY <1>2, <1>4, NothingFolded
<1>6. i = ReplayedOver(i.finalized, i.cursor, i.replay)
  BY <1>1, <1>2, Zenon
<1>. QED BY <1>2, <1>3, <1>4, <1>5, <1>6

LEMMA HeadOf ==
    ASSUME NEW i, i = ReplayedOver(i.finalized, i.cursor, i.replay),
           Distinct(i.replay),
           \A n \in DOMAIN i.replay :
             i.replay[n] \in ToSet(i.finalized.folded)
               <=> i.replay[n].signature \in i.finalized.applied
    PROVE  HeadOver(i)
<1> DEFINE f == i.finalized
           c == i.cursor
           r == i.replay
<1>1. i.head = ApplyAll(f, r) /\ i.pending = names(r)
  <2> HIDE DEF f, c, r
  <2>1. i = ReplayedOver(f, c, r)
    BY DEF f, c, r
  <2>. QED BY <2>1 DEF ReplayedOver
<1>. QED BY <1>1, Zenon DEF HeadOver

LEMMA InvariantInitially == Init => IInv
<1> SUFFICES ASSUME Init PROVE IInv
  OBVIOUS
<1>1. /\ ingestor \in Ingestor
      /\ FoldedTo(ingestor.finalized.folded, ingestor.cursor, ledger, final)
      /\ ingestor.finalized.folded = <<>> /\ ingestor.finalized.applied = {}
      /\ ingestor.replay = <<>>
      /\ ingestor = ReplayedOver(ingestor.finalized, ingestor.cursor, ingestor.replay)
  <2>1. ledger \in Seq(Transaction) /\ ingestor = restore(NoCursor, NoProjection)
    BY DEF Init
  <2>. QED BY <2>1, Forgotten, Zenon
<1>2. TypeOK
  BY <1>1, IngestAssumption, ClusterAssumption, CursorType DEF Init, TypeOK, Ingestor
<1>3. LedgerInv
  BY DEF Init, LedgerInv, Distinct
<1>4. StoreInv
  <2>1. store.folded = <<>> /\ store.cursor = NoCursor /\ store.events = {}
        /\ ledger \in Seq(Transaction)
    BY DEF Init
  <2>2. ToSet(<<>>) = {}
    BY DEF ToSet
  <2>. QED BY <2>1, <2>2, NothingFolded DEF StoreInv
<1>5. FinalizedInv
  BY <1>1 DEF FinalizedInv
<1>6. HeadInv
  BY <1>1, HeadOf DEF Distinct, HeadInv
<1>7. LoopInv /\ pc # "fetching"
  BY DEF Init, LoopInv
<1>. QED BY <1>2, <1>3, <1>4, <1>5, <1>6, <1>7 DEF IInv

-----------------------------------------------------------------------------
(* The cluster moves on: what is final stays where it is. *)

FinalKept(list, slot, list2) ==
    /\ \A i \in DOMAIN list : list[i].slot <= slot => i \in DOMAIN list2 /\ list2[i] = list[i]
    /\ \A i \in DOMAIN list2 : list2[i].slot <= slot => i \in DOMAIN list /\ list[i] = list2[i]

LEMMA CursorFinal ==
    ASSUME NEW folded \in Seq(Transaction), NEW cursor \in Cursor,
           NEW list \in Seq(Transaction), NEW slot \in Nat,
           FoldedTo(folded, cursor, list, slot)
    PROVE  cursor.slot \in Nat /\ cursor.slot <= slot
<1>1. CASE cursor = NoCursor
  BY <1>1 DEF NoCursor
<1>2. CASE cursor # NoCursor
  <2>1. PICK i \in DOMAIN folded : folded[i] = cursor
    BY <1>2 DEF FoldedTo, ToSet
  <2>. QED BY <2>1, CursorType DEF FoldedTo
<1>. QED BY <1>1, <1>2

LEMMA FinalEntries ==
    ASSUME NEW list \in Seq(Transaction), NEW list2 \in Seq(Transaction), NEW slot \in Nat,
           FinalKept(list, slot, list2), NEW tx \in Transaction, tx.slot <= slot
    PROVE  tx \in ToSet(list) <=> tx \in ToSet(list2)
  BY DEF FinalKept, ToSet

LEMMA FoldedStays ==
    ASSUME NEW folded \in Seq(Transaction), NEW cursor \in Cursor,
           NEW list \in Seq(Transaction), NEW list2 \in Seq(Transaction),
           NEW slot \in Nat, NEW slot2 \in Nat, slot <= slot2,
           FoldedTo(folded, cursor, list, slot), FinalKept(list, slot, list2)
    PROVE  FoldedTo(folded, cursor, list2, slot2)
<1>0. cursor.slot \in Nat /\ cursor.slot <= slot
  BY CursorFinal
<1>1. ASSUME NEW i \in DOMAIN folded
      PROVE  folded[i] \in ToSet(list2) /\ folded[i].slot <= slot2 /\ folded[i].slot <= cursor.slot
  <2>1. folded[i] \in Transaction
    OBVIOUS
  <2>2. folded[i] \in ToSet(list) /\ folded[i].slot <= slot /\ folded[i].slot <= cursor.slot
    BY DEF FoldedTo
  <2>3. folded[i] \in ToSet(list2)
    BY <2>1, <2>2, FinalEntries
  <2>. QED BY <2>1, <2>2, <2>3, TransactionFields
<1>2. ASSUME NEW i \in DOMAIN list2, list2[i].slot <= cursor.slot
      PROVE  i \in DOMAIN list /\ list[i] = list2[i]
  <2>1. list2[i].slot \in Nat
    BY TransactionFields
  <2>. QED BY <1>0, <1>2, <2>1 DEF FinalKept
<1>3. ASSUME NEW i \in DOMAIN list2, list2[i].slot < cursor.slot
      PROVE  list2[i] \in ToSet(folded)
  <2>1. list2[i].slot \in Nat
    BY TransactionFields
  <2>. QED BY <1>0, <1>2, <1>3, <2>1 DEF FoldedTo
<1>4. ASSUME NEW i \in DOMAIN list2, NEW j \in DOMAIN list2,
             list2[j] = cursor, list2[i].slot = cursor.slot, AppliedBefore(list2, i, j)
      PROVE  list2[i] \in ToSet(folded)
  <2>1. i \in DOMAIN list /\ list[i] = list2[i] /\ j \in DOMAIN list /\ list[j] = list2[j]
    BY <1>0, <1>2, <1>4
  <2>2. AppliedBefore(list, i, j)
    BY <1>4, <2>1, Zenon DEF AppliedBefore
  <2>. QED BY <1>4, <2>1, <2>2 DEF FoldedTo
<1>5. /\ \A i, j \in DOMAIN folded :
           i < j => folded[i].signature # folded[j].signature /\ folded[i].slot <= folded[j].slot
      /\ (cursor = NoCursor /\ folded = <<>>) \/ cursor \in ToSet(folded)
  BY DEF FoldedTo
<1>. QED BY <1>1, <1>3, <1>4, <1>5 DEF FoldedTo

ProcessUnchanged == UNCHANGED <<pc, next, finalized_slot, merged, settled, ingestor, store, crashes>>

LEMMA IngestorType ==
    ASSUME TypeOK
    PROVE  /\ ingestor \in Ingestor
           /\ ingestor.finalized \in Projection /\ ingestor.cursor \in Cursor
           /\ ingestor.replay \in Seq(Transaction)
           /\ ingestor.finalized.folded \in Seq(Transaction)
           /\ ingestor.finalized.applied \in SUBSET Signatures
           /\ store.folded \in Seq(Transaction) /\ store.cursor \in Cursor
           /\ store.events \in SUBSET Transaction
           /\ store = [cursor |-> store.cursor, folded |-> store.folded, events |-> store.events]
           /\ ledger \in Seq(Transaction) /\ final \in Nat
           /\ merged \in Seq(Transaction) /\ finalized_slot \in Nat
           /\ pruned \in 0 .. Len(ledger) /\ Len(ledger) \in Nat /\ next \in Nat
  BY IngestAssumption, ClusterAssumption DEF TypeOK, Ingestor, Projection

LEMMA ClusterStep ==
    ASSUME IInv, ProcessUnchanged, TypeOK', LedgerInv',
           FinalKept(ledger, final, ledger'), final <= final', pruned <= pruned'
    PROVE  IInv'
<1>1. /\ ledger \in Seq(Transaction) /\ ledger' \in Seq(Transaction)
      /\ final \in Nat /\ final' \in Nat
      /\ ingestor.finalized.folded \in Seq(Transaction) /\ ingestor.cursor \in Cursor
      /\ store.folded \in Seq(Transaction) /\ store.cursor \in Cursor
  BY IngestorType, IngestAssumption, ClusterAssumption DEF IInv, TypeOK
<1>2. ingestor' = ingestor /\ store' = store
  BY DEF ProcessUnchanged
<1>3. FoldedTo(store.folded, store.cursor, ledger', final')
  BY <1>1, FoldedStays DEF IInv, StoreInv
<1>4. FoldedTo(ingestor.finalized.folded, ingestor.cursor, ledger', final')
  BY <1>1, FoldedStays DEF IInv, FinalizedInv
<1>5. StoreInv'
  BY <1>2, <1>3 DEF IInv, StoreInv
<1>6. FinalizedInv'
  BY <1>2, <1>4 DEF IInv, FinalizedInv
<1>7. HeadInv'
  BY <1>2 DEF IInv, HeadInv
<1>8. LoopInv'
  BY <1>2 DEF IInv, LoopInv, ProcessUnchanged
<1>9. ASSUME pc' = "fetching" PROVE FetchInv'
  <2>1. FetchInv /\ pc = "fetching"
    BY <1>9 DEF IInv, ProcessUnchanged
  <2>2. UNCHANGED <<next, finalized_slot, merged, ingestor>>
    BY DEF ProcessUnchanged
  <2>3. /\ finalized_slot \in Nat /\ finalized_slot <= final
        /\ merged \in Seq(Transaction) /\ pruned \in Nat /\ pruned' \in Nat
        /\ Len(ledger) \in Nat /\ Len(ledger') \in Nat
    <3>1. TypeOK /\ finalized_slot <= final
      BY <2>1 DEF IInv, FetchInv
    <3>2. ledger' \in Seq(Transaction) /\ pruned' \in 0 .. Len(ledger')
      BY DEF TypeOK
    <3>. QED BY <3>1, <3>2, IngestorType
  <2>4. \A i \in DOMAIN merged : merged[i] \in Transaction
    BY <2>3
  <2>5. ASSUME NEW i \in DOMAIN ledger', ledger'[i].slot <= finalized_slot
        PROVE  i \in DOMAIN ledger /\ ledger'[i] = ledger[i]
    <3>1. ledger'[i].slot \in Nat
      BY <1>1, TransactionFields
    <3>. QED BY <1>1, <2>3, <2>5, <3>1 DEF FinalKept
  <2>6. ASSUME NEW i \in DOMAIN merged
        PROVE  /\ merged[i].slot >= ingestor.cursor.slot
               /\ merged[i].slot <= finalized_slot
                    => merged[i] \in ToSet(ledger') /\ FirstAddress(merged[i]) < next
    <3>1. merged[i].slot <= finalized_slot
            => merged[i] \in ToSet(ledger) /\ merged[i].slot <= final
      BY <1>1, <2>1, <2>3, <2>4, TransactionFields DEF FetchInv
    <3>2. merged[i].slot <= finalized_slot => merged[i] \in ToSet(ledger')
      BY <1>1, <2>4, <3>1, FinalEntries
    <3>. QED BY <2>1, <3>2 DEF FetchInv
  <2>7. ASSUME NEW i \in DOMAIN ledger',
               ledger'[i].slot <= finalized_slot, ledger'[i].signature \in SignaturesOf(merged)
        PROVE  ledger'[i] \in ToSet(merged)
    BY <2>1, <2>5, <2>7 DEF FetchInv
  <2>8. ASSUME NEW i \in DOMAIN ledger', pruned' < i,
               ledger'[i].slot >= ingestor.cursor.slot, ledger'[i].slot <= finalized_slot,
               FirstAddress(ledger'[i]) < next
        PROVE  ledger'[i] \in ToSet(merged)
    <3>1. i \in DOMAIN ledger /\ ledger'[i] = ledger[i]
      BY <2>5, <2>8
    <3>2. pruned < i
      <4>1. i \in Nat
        BY <1>1, <3>1
      <4>. QED BY <2>3, <2>8, <4>1
    <3>. QED BY <2>1, <2>8, <3>1, <3>2 DEF FetchInv
  <2>9. ASSUME NEW i \in DOMAIN merged, NEW j \in DOMAIN merged,
               NEW a \in DOMAIN ledger', NEW b \in DOMAIN ledger',
               i < j, merged[i] = ledger'[a], merged[j] = ledger'[b],
               ledger'[a].slot <= finalized_slot, ledger'[b].slot <= finalized_slot
        PROVE  AppliedBefore(ledger', a, b)
    <3>1. /\ a \in DOMAIN ledger /\ ledger'[a] = ledger[a]
          /\ b \in DOMAIN ledger /\ ledger'[b] = ledger[b]
      BY <2>5, <2>9
    <3>2. AppliedBefore(ledger, a, b)
      BY <2>1, <2>9, <3>1 DEF FetchInv
    <3>. QED BY <3>1, <3>2 DEF AppliedBefore
  <2>10. finalized_slot <= final' /\ ingestor.cursor.slot <= finalized_slot /\ Distinct(merged)
    BY <1>1, <2>1, <2>3 DEF FetchInv
  <2>. QED BY <2>2, <2>6, <2>7, <2>8, <2>9, <2>10 DEF FetchInv
<1>. QED BY <1>5, <1>6, <1>7, <1>8, <1>9 DEF IInv

LEMMA LedgerElements ==
    ASSUME IInv
    PROVE  /\ DOMAIN ledger = 1 .. Len(ledger)
           /\ \A i \in 1 .. Len(ledger) : ledger[i] \in Transaction /\ ledger[i].slot \in Nat
           /\ \A i \in 1 .. pruned : i \in 1 .. Len(ledger) /\ ledger[i].slot <= final
<1>1. /\ ledger \in Seq(Transaction) /\ pruned \in 0 .. Len(ledger) /\ final \in Nat
      /\ store.folded \in Seq(Transaction)
  BY IngestorType DEF IInv
<1>2. ASSUME NEW i \in 1 .. pruned PROVE ledger[i].slot <= final
  <2>1. ledger[i] \in ToSet(store.folded)
    BY DEF IInv, LedgerInv
  <2>2. PICK n \in DOMAIN store.folded : store.folded[n] = ledger[i]
    BY <2>1 DEF ToSet
  <2>. QED BY <2>2 DEF IInv, StoreInv, FoldedTo
<1>3. \A i \in 1 .. Len(ledger) : ledger[i] \in Transaction
  BY <1>1
<1>4. \A i \in 1 .. pruned : i \in 1 .. Len(ledger)
  BY <1>1
<1>. QED BY <1>1, <1>2, <1>3, <1>4, TransactionFields

\* By slot, and each transaction once.
ChainOrder(list) ==
    /\ \A i, j \in DOMAIN list : i < j => list[i].slot <= list[j].slot
    /\ Distinct(list)

\* A block lands above all that is there and above what is final.
LEMMA ConfirmEffect ==
    ASSUME ledger \in Seq(Transaction), final \in Nat, ChainOrder(ledger),
           NEW block \in Seq(Signatures), IsInjective(block),
           NEW slot \in 1 .. MaxSlot, Confirm(block, slot)
    PROVE  /\ ledger' \in Seq(Transaction) /\ ChainOrder(ledger')
           /\ Len(ledger) \in Nat /\ Len(ledger') \in Nat /\ Len(ledger) <= Len(ledger')
           /\ FinalKept(ledger, final, ledger')
           /\ UNCHANGED <<final, rollbacks>>
           /\ \A i \in 1 .. Len(ledger') :
                \/ i \in 1 .. Len(ledger) /\ ledger'[i] = ledger[i] /\ ledger[i].slot < slot
                \/ /\ i \notin 1 .. Len(ledger) /\ ledger'[i].slot = slot
                   /\ \E n \in DOMAIN block : ledger'[i].signature = block[n]
<1> DEFINE new == [i \in DOMAIN block |-> [signature |-> block[i], slot |-> slot]]
           N == Len(ledger)
           m == Len(block)
<1>0. /\ N \in Nat /\ DOMAIN ledger = 1 .. N /\ MaxSlot \in Nat /\ slot \in Nat
      /\ \A i \in 1 .. N : ledger[i] \in Transaction /\ ledger[i].slot \in Nat
  BY ClusterAssumption, TransactionFields
<1>1. m \in Nat /\ block \in [1 .. m -> Signatures]
  OBVIOUS
<1> HIDE DEF m
<1>2. /\ new \in Seq(Transaction) /\ Len(new) = m
      /\ \A i \in 1 .. m : new[i].signature = block[i] /\ new[i].slot = slot
  <2>1. DOMAIN block = 1 .. m /\ \A i \in 1 .. m : block[i] \in Signatures
    BY <1>1
  <2>2. \A i \in 1 .. m : [signature |-> block[i], slot |-> slot] \in Transaction
    BY <2>1 DEF Transaction
  <2>3. new = [i \in 1 .. m |-> [signature |-> block[i], slot |-> slot]]
    BY <2>1
  <2>. QED BY <1>1, <2>2, <2>3
<1>3. ledger' = Join(ledger, new)
  BY DEF Confirm, Join
<1> HIDE DEF new
<1>4. /\ ledger' \in Seq(Transaction) /\ Len(ledger') = N + m
      /\ DOMAIN ledger' = 1 .. N + m
      /\ \A i \in 1 .. N : ledger'[i] = ledger[i]
      /\ \A i \in 1 .. m : ledger'[N + i] = new[i]
  <2>1. ledger \in Seq(Transaction) /\ new \in Seq(Transaction)
    BY <1>0, <1>2
  <2>2. ledger' \in Seq(Transaction) /\ Joined(ledger', ledger, new)
    BY <1>3, <2>1, ToSetJoin, Zenon
  <2>3. DOMAIN ledger' = 1 .. Len(ledger')
    BY <2>2
  <2>. QED BY <1>2, <2>2, <2>3 DEF Joined
<1> HIDE DEF N
<1>5. ASSUME NEW i \in 1 .. N + m
      PROVE  \/ i \in 1 .. N /\ ledger'[i] = ledger[i]
             \/ i \notin 1 .. N
                /\ \E n \in 1 .. m : i = N + n /\ ledger'[i].signature = block[n]
                /\ ledger'[i].slot = slot
  <2>1. CASE i \in 1 .. N
    BY <1>4, <2>1
  <2>2. CASE i \notin 1 .. N
    <3>1. PICK n \in 1 .. m : i = N + n
      <4>1. i - N \in 1 .. m /\ i = N + (i - N)
        BY <1>0, <1>1, <2>2
      <4>. QED BY <4>1
    <3>2. ledger'[i] = new[n]
      BY <1>4, <3>1
    <3>. QED BY <1>2, <2>2, <3>1, <3>2
  <2>. QED BY <2>1, <2>2
<1>6. ASSUME NEW i \in 1 .. N PROVE ledger[i].slot < slot /\ ledger[i].slot \in Nat
  <2>1. ledger[i].slot \in Nat /\ ledger[N].slot \in Nat /\ N \in 1 .. N /\ DOMAIN ledger = 1 .. N
    BY <1>0
  <2>2. ledger[i].slot <= ledger[N].slot
    <3>1. CASE i = N
      BY <2>1, <3>1
    <3>2. CASE i # N
      BY <1>0, <2>1, <3>2 DEF ChainOrder
    <3>. QED BY <3>1, <3>2
  <2>3. LastSlot = ledger[N].slot
    <3>1. ledger # <<>>
      BY <1>0 DEF N
    <3>. QED BY <3>1 DEF LastSlot, Last, N
  <2>4. slot > LastSlot
    BY DEF Confirm
  <2>. QED BY <1>0, <2>1, <2>2, <2>3, <2>4
<1>7. ChainOrder(ledger')
  <2>1. ASSUME NEW i \in DOMAIN ledger', NEW j \in DOMAIN ledger', i < j
        PROVE  ledger'[i].slot <= ledger'[j].slot
    <3>1. i \in 1 .. N + m /\ j \in 1 .. N + m
      BY <1>4
    <3>2. CASE j \in 1 .. N
      <4>1. i \in 1 .. N /\ DOMAIN ledger = 1 .. N
        BY <1>0, <2>1, <3>1, <3>2
      <4>. QED BY <1>4, <2>1, <3>2, <4>1 DEF ChainOrder
    <3>3. CASE j \notin 1 .. N
      <4>1. ledger'[j].slot = slot
        BY <1>5, <3>1, <3>3
      <4>2. ledger'[i].slot <= slot
        BY <1>0, <1>5, <1>6, <3>1
      <4>. QED BY <4>1, <4>2
    <3>. QED BY <3>2, <3>3
  <2>2. ASSUME NEW i \in DOMAIN ledger', NEW j \in DOMAIN ledger',
               ledger'[i].signature = ledger'[j].signature
        PROVE  i = j
    <3>0. i \in 1 .. N + m /\ j \in 1 .. N + m /\ DOMAIN ledger = 1 .. N
      BY <1>0, <1>4
    <3>1. ASSUME NEW x \in 1 .. N, NEW n \in 1 .. m PROVE ledger[x].signature # block[n]
      <4>1. block[n] \in ToSet(block)
        BY <1>1 DEF ToSet
      <4>2. ledger[x].signature \in SignaturesOf(ledger)
        BY <3>0 DEF SignaturesOf
      <4>3. ToSet(block) \cap SignaturesOf(ledger) = {}
        BY DEF Confirm
      <4>. QED BY <4>1, <4>2, <4>3
    <3>2. CASE i \in 1 .. N /\ j \in 1 .. N
      <4>1. ledger[i].signature = ledger[j].signature
        BY <1>4, <2>2, <3>2
      <4>. QED BY <3>0, <3>2, <4>1 DEF ChainOrder, Distinct
    <3>3. CASE i \in 1 .. N /\ j \notin 1 .. N
      BY <1>5, <2>2, <3>0, <3>1, <3>3
    <3>4. CASE i \notin 1 .. N /\ j \in 1 .. N
      BY <1>5, <2>2, <3>0, <3>1, <3>4
    <3>5. CASE i \notin 1 .. N /\ j \notin 1 .. N
      <4>1. PICK n \in 1 .. m : i = N + n /\ ledger'[i].signature = block[n]
        BY <1>5, <3>0, <3>5
      <4>2. PICK k \in 1 .. m : j = N + k /\ ledger'[j].signature = block[k]
        BY <1>5, <3>0, <3>5
      <4>3. IsInjective(block)
        OBVIOUS
      <4>4. n = k
        BY <1>1, <2>2, <4>1, <4>2, <4>3 DEF IsInjective
      <4>. QED BY <4>1, <4>2, <4>4
    <3>. QED BY <3>2, <3>3, <3>4, <3>5
  <2>. QED BY <2>1, <2>2 DEF ChainOrder, Distinct
<1>8. FinalKept(ledger, final, ledger')
  <2>1. ASSUME NEW i \in DOMAIN ledger PROVE i \in DOMAIN ledger' /\ ledger'[i] = ledger[i]
    BY <1>0, <1>1, <1>4
  <2>2. ASSUME NEW i \in DOMAIN ledger', ledger'[i].slot <= final
        PROVE  i \in DOMAIN ledger /\ ledger[i] = ledger'[i]
    <3>1. i \in 1 .. N + m /\ slot > final /\ DOMAIN ledger = 1 .. N
      BY <1>0, <1>4 DEF Confirm
    <3>2. ledger'[i].slot # slot
      BY <1>0, <2>2, <3>1
    <3>. QED BY <1>5, <3>1, <3>2
  <2>. QED BY <2>1, <2>2 DEF FinalKept
<1>9. UNCHANGED <<final, rollbacks>>
  BY DEF Confirm
<1>10. \A i \in 1 .. Len(ledger') :
         \/ i \in 1 .. Len(ledger) /\ ledger'[i] = ledger[i] /\ ledger[i].slot < slot
         \/ /\ i \notin 1 .. Len(ledger) /\ ledger'[i].slot = slot
            /\ \E n \in DOMAIN block : ledger'[i].signature = block[n]
  <2>1. DOMAIN block = 1 .. m
    BY <1>1
  <2>. QED BY <1>4, <1>5, <1>6, <2>1 DEF N
<1>. QED BY <1>0, <1>1, <1>4, <1>7, <1>8, <1>9, <1>10 DEF N

LEMMA LandKeeps ==
    ASSUME IInv, NEW block \in Blocks, NEW slot \in 1 .. MaxSlot, Land(block, slot)
    PROVE  IInv'
<1>1. /\ ledger \in Seq(Transaction) /\ pruned \in 0 .. Len(ledger) /\ final \in Nat
      /\ DOMAIN ledger = 1 .. Len(ledger) /\ ChainOrder(ledger)
  BY IngestorType, LedgerElements DEF IInv, LedgerInv, ChainOrder
<1>2. block \in Seq(Signatures) /\ IsInjective(block)
  <2>1. PICK m \in 1 .. MaxBlock : block \in [1 .. m -> Signatures]
    BY DEF Blocks
  <2>2. m \in Nat
    BY <2>1, IngestAssumption
  <2>. QED BY <2>1, <2>2 DEF Blocks
<1>3. Confirm(block, slot)
  BY DEF Land
<1>4. /\ ledger' \in Seq(Transaction) /\ ChainOrder(ledger')
      /\ Len(ledger) \in Nat /\ Len(ledger') \in Nat /\ Len(ledger) <= Len(ledger')
      /\ FinalKept(ledger, final, ledger')
      /\ UNCHANGED <<final, rollbacks>>
      /\ \A i \in 1 .. Len(ledger) : ledger'[i] = ledger[i]
  <2>1. \A i \in 1 .. Len(ledger) : i \in 1 .. Len(ledger')
    BY <1>1, <1>2, <1>3, ConfirmEffect
  <2>. QED BY <1>1, <1>2, <1>3, <2>1, ConfirmEffect
<1>5. ProcessUnchanged /\ UNCHANGED <<pruned>>
  BY Zenon DEF Land, ProcessUnchanged, locals
<1>6. TypeOK'
  <2>1. TypeOK /\ pruned \in 0 .. Len(ledger')
    BY <1>1, <1>4 DEF IInv
  <2>. QED BY <1>4, <1>5, <2>1 DEF TypeOK, ProcessUnchanged
<1>7. LedgerInv'
  <2>1. \A i \in 1 .. pruned' : ledger'[i] \in ToSet(store'.folded)
    <3>1. \A i \in 1 .. pruned : i \in 1 .. Len(ledger)
      BY <1>1, <1>4
    <3>. QED BY <1>4, <1>5, <3>1 DEF IInv, LedgerInv, ProcessUnchanged
  <2>. QED BY <1>4, <2>1 DEF LedgerInv, ChainOrder
<1>. QED BY <1>1, <1>4, <1>5, <1>6, <1>7, ClusterStep

\* What is taken back is a suffix of what is not final.
LEMMA TakeBackEffect ==
    ASSUME ledger \in Seq(Transaction), final \in Nat, ChainOrder(ledger),
           NEW kept \in 0 .. Len(ledger) - 1, TakeBack(kept)
    PROVE  /\ ledger' \in Seq(Transaction) /\ ChainOrder(ledger')
           /\ Len(ledger') = kept /\ kept \in Nat
           /\ FinalKept(ledger, final, ledger')
           /\ UNCHANGED final
           /\ \A i \in 1 .. kept : i \in 1 .. Len(ledger) /\ ledger'[i] = ledger[i]
           /\ \A i \in 1 .. Len(ledger) : ledger[i].slot <= final => i \in 1 .. kept
<1>0. /\ Len(ledger) \in Nat /\ DOMAIN ledger = 1 .. Len(ledger)
      /\ kept \in 0 .. Len(ledger) /\ kept + 1 \in 1 .. Len(ledger)
      /\ \A i \in 1 .. Len(ledger) : ledger[i].slot \in Nat
  BY TransactionFields
<1>1. ledger' = Part(ledger, 0, kept)
  BY DEF TakeBack, Part
<1>2. /\ ledger' \in Seq(Transaction) /\ Len(ledger') = kept /\ DOMAIN ledger' = 1 .. kept
      /\ \A i \in 1 .. kept : ledger'[i] = ledger[i] /\ i \in 1 .. Len(ledger)
  BY <1>0, <1>1 DEF Part
<1>3. ASSUME NEW i \in 1 .. Len(ledger), ledger[i].slot <= final PROVE i \in 1 .. kept
  <2>1. SUFFICES ASSUME i >= kept + 1 PROVE FALSE
    BY <1>0
  <2>2. /\ ledger[i].slot \in Nat /\ ledger[kept + 1].slot \in Nat /\ DOMAIN ledger = 1 .. Len(ledger)
    BY <1>0
  <2>3. ledger[kept + 1].slot <= ledger[i].slot
    <3>1. CASE i = kept + 1
      BY <2>2, <3>1
    <3>2. CASE i # kept + 1
      <4>1. kept + 1 < i
        BY <1>0, <2>1, <3>2
      <4>. QED BY <1>0, <2>2, <4>1 DEF ChainOrder
    <3>. QED BY <3>1, <3>2
  <2>4. final < ledger[kept + 1].slot
    BY DEF TakeBack
  <2>. QED BY <1>0, <1>3, <2>2, <2>3, <2>4
<1>4. ChainOrder(ledger')
  <2>1. \A i, j \in DOMAIN ledger' : i < j => ledger'[i].slot <= ledger'[j].slot
    BY <1>0, <1>2 DEF ChainOrder
  <2>2. \A i, j \in DOMAIN ledger' : ledger'[i].signature = ledger'[j].signature => i = j
    BY <1>0, <1>2 DEF ChainOrder, Distinct
  <2>. QED BY <2>1, <2>2 DEF ChainOrder, Distinct
<1>5. FinalKept(ledger, final, ledger')
  BY <1>0, <1>2, <1>3 DEF FinalKept
<1>6. UNCHANGED final
  BY DEF TakeBack
<1>. QED BY <1>0, <1>2, <1>3, <1>4, <1>5, <1>6

LEMMA RollbackKeeps ==
    ASSUME IInv, NEW kept \in 0 .. Len(ledger) - 1, Rollback(kept)
    PROVE  IInv'
<1>1. /\ ledger \in Seq(Transaction) /\ pruned \in 0 .. Len(ledger) /\ final \in Nat
      /\ DOMAIN ledger = 1 .. Len(ledger) /\ ChainOrder(ledger) /\ Len(ledger) \in Nat
  BY IngestorType, LedgerElements DEF IInv, LedgerInv, ChainOrder
<1>2. TakeBack(kept)
  BY DEF Rollback
<1>3. /\ ledger' \in Seq(Transaction) /\ ChainOrder(ledger')
      /\ Len(ledger') = kept /\ kept \in Nat
      /\ FinalKept(ledger, final, ledger')
      /\ UNCHANGED final
      /\ \A i \in 1 .. kept : i \in 1 .. Len(ledger) /\ ledger'[i] = ledger[i]
      /\ \A i \in 1 .. Len(ledger) : ledger[i].slot <= final => i \in 1 .. kept
  BY <1>1, <1>2, TakeBackEffect
<1>4. ProcessUnchanged /\ UNCHANGED pruned
  BY Zenon DEF Rollback, ProcessUnchanged, locals
<1>5. \A i \in 1 .. pruned : i \in 1 .. kept
  BY <1>3, LedgerElements
<1>6. TypeOK'
  <2>1. pruned \in 0 .. kept
    <3>1. pruned = 0 \/ pruned \in 1 .. pruned
      BY <1>1
    <3>. QED BY <1>1, <1>3, <1>5, <3>1
  <2>2. rollbacks' \in 0 .. MaxRollbacks
    BY ClusterAssumption DEF IInv, TypeOK, Rollback, TakeBack
  <2>. QED BY <1>3, <1>4, <2>1, <2>2 DEF IInv, TypeOK, ProcessUnchanged
<1>7. LedgerInv'
  <2>1. \A i \in 1 .. pruned' : ledger'[i] \in ToSet(store'.folded)
    BY <1>3, <1>4, <1>5 DEF IInv, LedgerInv, ProcessUnchanged
  <2>. QED BY <1>3, <2>1 DEF LedgerInv, ChainOrder
<1>. QED BY <1>1, <1>3, <1>4, <1>6, <1>7, ClusterStep

LEMMA SameLedgerKept ==
    ASSUME ledger' = ledger
    PROVE  FinalKept(ledger, final, ledger')
  BY DEF FinalKept

LEMMA FinalizeKeeps ==
    ASSUME IInv, NEW slot \in 1 .. MaxSlot, Finalize(slot)
    PROVE  IInv'
<1>1. ProcessUnchanged /\ UNCHANGED <<ledger, pruned, rollbacks>> /\ final' = slot /\ slot > final
  BY Zenon DEF Finalize, FinalizeUpTo, ProcessUnchanged, locals
<1>2. TypeOK'
  BY <1>1, IngestAssumption, ClusterAssumption DEF IInv, TypeOK, ProcessUnchanged
<1>3. LedgerInv'
  BY <1>1 DEF IInv, LedgerInv, ProcessUnchanged
<1>4. pruned <= pruned' /\ final <= final'
  BY <1>1, IngestorType, IngestAssumption, ClusterAssumption DEF IInv
<1>. QED BY <1>1, <1>2, <1>3, <1>4, SameLedgerKept, ClusterStep

LEMMA PruneKeeps ==
    ASSUME IInv, NEW n \in DOMAIN ledger, Prune(n)
    PROVE  IInv'
<1>1. /\ ProcessUnchanged /\ UNCHANGED <<ledger, final, rollbacks>>
      /\ pruned' = n /\ n > pruned
      /\ ToSet(SubSeq(ledger, 1, n)) \subseteq ToSet(store.folded)
  BY Zenon DEF Prune, ProcessUnchanged, locals
<1>2. n \in 1 .. Len(ledger) /\ Len(ledger) \in Nat /\ ledger \in Seq(Transaction)
      /\ pruned \in Nat /\ final \in Nat
  BY LedgerElements, IngestorType DEF IInv
<1>3. TypeOK'
  BY <1>1, <1>2 DEF IInv, TypeOK, ProcessUnchanged
<1>4. ASSUME NEW i \in 1 .. n PROVE ledger[i] \in ToSet(store.folded)
  <2>1. /\ SubSeq(ledger, 1, n)[i] = ledger[i] /\ i \in DOMAIN SubSeq(ledger, 1, n)
    BY <1>2
  <2>2. ledger[i] \in ToSet(SubSeq(ledger, 1, n))
    BY <2>1 DEF ToSet
  <2>. QED BY <1>1, <2>2
<1>5. LedgerInv'
  BY <1>1, <1>4 DEF IInv, LedgerInv, ProcessUnchanged
<1>6. pruned <= pruned' /\ final <= final'
  BY <1>1, <1>2
<1>. QED BY <1>1, <1>3, <1>5, <1>6, SameLedgerKept, ClusterStep

-----------------------------------------------------------------------------
(* The process. *)

\* A process that ends leaves the database as it is.
LEMMA EndKeeps ==
    ASSUME IInv, UNCHANGED <<cluster, store>>, ClearLocals, pc' = "down",
           ingestor' = restore(NoCursor, NoProjection), crashes' \in 0 .. MaxCrashes
    PROVE  IInv'
<1>1. /\ UNCHANGED <<ledger, final, pruned, rollbacks, store>>
      /\ ledger \in Seq(Transaction)
  BY IngestorType, Zenon DEF IInv, cluster
<1>2. /\ ingestor' \in Ingestor
      /\ FoldedTo(ingestor'.finalized.folded, ingestor'.cursor, ledger', final')
      /\ ingestor'.finalized.folded = <<>> /\ ingestor'.finalized.applied = {}
      /\ ingestor'.replay = <<>>
      /\ ingestor' = ReplayedOver(ingestor'.finalized, ingestor'.cursor, ingestor'.replay)
  BY <1>1, Forgotten, Zenon
<1>3. /\ next' = 1 /\ finalized_slot' = 0 /\ merged' = <<>> /\ settled' = <<>>
  BY DEF ClearLocals, ClearRequest
<1>4. TypeOK'
  <2>1. /\ <<>> \in Seq(Transaction) /\ 1 \in 1 .. NumAddresses + 1 /\ 0 \in 0 .. MaxSlot
    BY IngestAssumption, ClusterAssumption
  <2>. QED BY <1>1, <1>2, <1>3, <2>1 DEF IInv, TypeOK, Ingestor
<1>5. LedgerInv' /\ StoreInv'
  BY <1>1 DEF IInv, LedgerInv, StoreInv
<1>6. FinalizedInv'
  BY <1>2 DEF FinalizedInv
<1>7. HeadInv'
  <2>1. /\ Distinct(ingestor'.replay)
        /\ \A i \in DOMAIN ingestor'.replay :
             ingestor'.replay[i] \in ToSet(ingestor'.finalized.folded)
               <=> ingestor'.replay[i].signature \in ingestor'.finalized.applied
    BY <1>2 DEF Distinct
  <2>. QED BY <1>2, <2>1, HeadOf, Zenon DEF HeadInv
<1>8. LoopInv' /\ pc' # "fetching"
  BY <1>3 DEF LoopInv
<1>. QED BY <1>4, <1>5, <1>6, <1>7, <1>8 DEF IInv

LEMMA OpenKeeps ==
    ASSUME IInv, open
    PROVE  IInv'
<1>1. /\ UNCHANGED <<ledger, final, pruned, rollbacks, next, finalized_slot, merged, settled,
                     store, crashes>>
      /\ pc = "down" /\ pc' = "polling" /\ ingestor' = load
  BY Zenon DEF open, cluster, locals
<1>2. /\ ledger \in Seq(Transaction) /\ store.folded \in Seq(Transaction) /\ store.cursor \in Cursor
      /\ store.events \in SUBSET Transaction
  BY IngestorType DEF IInv
<1>3. store.events = ToSet(store.folded)
  BY DEF IInv, StoreInv
<1> DEFINE p == [folded |-> store.folded, applied |-> read_applied(store.cursor.slot)]
<1>4. \A i \in DOMAIN store.folded : store.folded[i] \in Transaction /\ store.folded[i] \in ToSet(store.folded)
  BY <1>2 DEF ToSet
<1>5. /\ read_applied(store.cursor.slot) \subseteq SignaturesOf(store.folded)
      /\ \A i \in DOMAIN store.folded :
           store.folded[i].slot >= store.cursor.slot
             => store.folded[i].signature \in read_applied(store.cursor.slot)
      /\ read_applied(store.cursor.slot) \subseteq Signatures
  BY <1>3, <1>4, TransactionFields DEF read_applied, SignaturesOf, ToSet
<1>6. p \in Projection /\ p.folded = store.folded /\ p.applied = read_applied(store.cursor.slot)
  BY <1>2, <1>5 DEF Projection
<1> HIDE DEF p
<1>7. ingestor' = ReplayedOver(p, store.cursor, <<>>)
  <2>1. ingestor' = restore(store.cursor, p)
    BY <1>1 DEF load, p
  <2>. QED BY <1>6, <2>1, RestoredIsReplay
<1>8. ingestor'.finalized = p /\ ingestor'.cursor = store.cursor /\ ingestor'.replay = <<>>
  BY <1>7 DEF ReplayedOver
<1>9. ingestor' \in Ingestor
  <2>1. <<>> \in Seq(Transaction)
    OBVIOUS
  <2>. QED BY <1>2, <1>6, <1>7, <2>1, ReplayType
<1>10. TypeOK'
  BY <1>1, <1>9 DEF IInv, TypeOK, Ingestor
<1>11. LedgerInv' /\ StoreInv'
  BY <1>1 DEF IInv, LedgerInv, StoreInv
<1>12. FinalizedInv'
  BY <1>1, <1>5, <1>6, <1>8 DEF IInv, StoreInv, FinalizedInv
<1>13. HeadInv'
  <2>1. /\ Distinct(ingestor'.replay)
        /\ \A i \in DOMAIN ingestor'.replay :
             ingestor'.replay[i] \in ToSet(ingestor'.finalized.folded)
               <=> ingestor'.replay[i].signature \in ingestor'.finalized.applied
    BY <1>8 DEF Distinct
  <2>2. ingestor' = ReplayedOver(ingestor'.finalized, ingestor'.cursor, ingestor'.replay)
    BY <1>7, <1>8, Zenon
  <2>. QED BY <2>1, <2>2, HeadOf, Zenon DEF HeadInv
<1>14. LoopInv' /\ pc' # "fetching"
  BY <1>1, <1>6, <1>8 DEF IInv, LoopInv
<1>. QED BY <1>10, <1>11, <1>12, <1>13, <1>14 DEF IInv

LEMMA ReadFinalityKeeps ==
    ASSUME IInv, read_finality
    PROVE  IInv'
<1>1. /\ UNCHANGED <<ledger, final, pruned, rollbacks, next, merged, settled,
                     ingestor, store, crashes>>
      /\ pc = "polling" /\ pc' = "fetching" /\ finalized_slot' = final
  BY Zenon DEF read_finality, cluster
<1>2. TypeOK'
  BY <1>1 DEF IInv, TypeOK
<1>3. LedgerInv' /\ StoreInv' /\ FinalizedInv' /\ HeadInv'
  BY <1>1 DEF IInv, LedgerInv, StoreInv, FinalizedInv, HeadInv
<1>4. merged = <<>> /\ next = 1 /\ LoopInv'
  BY <1>1 DEF IInv, LoopInv
<1>5. FetchInv'
  <2>1. ingestor.cursor.slot <= final /\ final \in Nat
    BY IngestorType, CursorFinal DEF IInv, FinalizedInv
  <2>2. SignaturesOf(<<>>) = {} /\ Distinct(<<>>) /\ DOMAIN <<>> = {}
    BY DEF SignaturesOf, Distinct
  <2>3. ASSUME NEW i \in DOMAIN ledger PROVE ~(FirstAddress(ledger[i]) < 1)
    <3>1. ledger[i].signature \in Signatures
      BY LedgerElements, TransactionFields
    <3>2. Touches[ledger[i].signature] \in SUBSET Nat /\ Touches[ledger[i].signature] # {}
          /\ \A x \in Touches[ledger[i].signature] : x >= 1
      BY <3>1, IngestAssumption, ClusterAssumption
    <3>3. FirstAddress(ledger[i]) \in Touches[ledger[i].signature]
      BY <3>2, LeastNat DEF FirstAddress, FirstProgram
    <3>. QED BY <3>2, <3>3
  <2>. QED BY <1>1, <1>4, <2>1, <2>2, <2>3 DEF FetchInv
<1>. QED BY <1>2, <1>3, <1>4, <1>5 DEF IInv

LEMMA CommitKeeps ==
    ASSUME IInv, commit
    PROVE  IInv'
<1> DEFINE F == ingestor.finalized.folded
<1>1. /\ UNCHANGED <<ledger, final, pruned, rollbacks, next, finalized_slot, merged,
                     ingestor, crashes>>
      /\ pc = "committing" /\ pc' = "polling" /\ settled' = <<>>
      /\ store' = IF settled = <<>> THEN store
                  ELSE [cursor |-> ingestor.cursor, folded |-> F,
                        events |-> store.events \cup ToSet(settled)]
  BY Zenon DEF commit, cluster
<1>2. /\ ToSet(F) = ToSet(store.folded) \cup ToSet(settled)
      /\ settled = <<>> => F = store.folded /\ ingestor.cursor = store.cursor
  BY <1>1 DEF IInv, LoopInv
<1>3. store.events = ToSet(store.folded)
  BY DEF IInv, StoreInv
<1>4. store'.cursor = ingestor.cursor /\ store'.folded = F /\ store'.events = ToSet(F)
  <2>1. CASE settled = <<>>
    <3>1. ToSet(<<>>) = {}
      BY DEF ToSet
    <3>. QED BY <1>1, <1>2, <1>3, <2>1, <3>1
  <2>2. CASE settled # <<>>
    BY <1>1, <1>2, <1>3, <2>2
  <2>. QED BY <2>1, <2>2
<1>5. TypeOK'
  <2>1. ingestor.cursor \in Cursor /\ F \in Seq(Transaction)
    BY IngestorType DEF IInv
  <2>2. ToSet(F) \subseteq Transaction
    BY <2>1, ToSetIndices
  <2>3. store' \in [cursor : Cursor, folded : Seq(Transaction), events : SUBSET Transaction]
    BY <1>1, <1>2, <1>3, <2>1, <2>2, IngestorType DEF IInv, TypeOK
  <2>4. <<>> \in Seq(Transaction)
    OBVIOUS
  <2>. QED BY <1>1, <2>3, <2>4 DEF IInv, TypeOK
<1>6. LedgerInv'
  <2>1. \A i \in 1 .. pruned : ledger[i] \in ToSet(F)
    BY <1>2 DEF IInv, LedgerInv
  <2>. QED BY <1>1, <1>4, <2>1 DEF IInv, LedgerInv
<1>7. StoreInv'
  BY <1>1, <1>4 DEF IInv, FinalizedInv, StoreInv
<1>8. FinalizedInv' /\ HeadInv'
  BY <1>1 DEF IInv, FinalizedInv, HeadInv
<1>9. LoopInv' /\ pc' # "fetching"
  BY <1>1, <1>4 DEF IInv, LoopInv
<1>. QED BY <1>5, <1>6, <1>7, <1>8, <1>9 DEF IInv

-----------------------------------------------------------------------------
(* Asking one address. *)

LEMMA FirstAddressType ==
    ASSUME NEW tx \in Transaction
    PROVE  /\ FirstAddress(tx) \in Touches[tx.signature]
           /\ FirstAddress(tx) \in Nat
           /\ \A b \in Touches[tx.signature] : b \in Nat /\ FirstAddress(tx) <= b
<1>1. Touches[tx.signature] \in SUBSET Nat /\ Touches[tx.signature] # {}
  BY TransactionFields, IngestAssumption, ClusterAssumption
<1>. QED BY <1>1, LeastNat DEF FirstAddress, FirstProgram

LEMMA SignaturesAreElements ==
    ASSUME NEW s, NEW signature
    PROVE  signature \in SignaturesOf(s) <=> \E tx \in ToSet(s) : tx.signature = signature
  BY DEF SignaturesOf, ToSet

LEMMA Listing ==
    ASSUME IInv, NEW new, new = unlisted(signatures_after(next, ingestor.cursor.slot))
    PROVE  /\ new \in Seq(Transaction)
           /\ \A tx : tx \in ToSet(new) <=>
                /\ \E i \in 1 .. Len(ledger) : pruned < i /\ ledger[i] = tx
                /\ next \in Touches[tx.signature] /\ tx.slot >= ingestor.cursor.slot
                /\ tx.signature \notin SignaturesOf(merged)
           /\ \A i, j \in 1 .. Len(new) : i < j =>
                \E a, b \in 1 .. Len(ledger) : a < b /\ ledger[a] = new[i] /\ ledger[b] = new[j]
<1> DEFINE list == Listed
           slot == ingestor.cursor.slot
           asked == {tx \in ToSet(list) : next \in Touches[tx.signature] /\ tx.slot >= slot}
           sigs == Select(list, asked)
           fresh == {tx \in ToSet(sigs) : tx.signature \notin SignaturesOf(merged)}
<1>0. ledger \in Seq(Transaction) /\ pruned \in 0 .. Len(ledger) /\ Len(ledger) \in Nat
  BY IngestorType DEF IInv
<1>1. new = Select(sigs, fresh)
  BY DEF unlisted, signatures_after
<1>2. list = Part(ledger, pruned, Len(ledger))
  BY DEF Listed, Part
<1> HIDE DEF list
<1>3. list \in Seq(Transaction) /\ Parted(list, ledger, pruned, Len(ledger))
  BY <1>0, <1>2, ToSetPart
<1>4. /\ \A x : x \in ToSet(list) <=> \E i \in 1 .. Len(ledger) : pruned < i /\ ledger[i] = x
      /\ \A i, j \in DOMAIN list : i < j =>
           \E a, b \in 1 .. Len(ledger) : a < b /\ ledger[a] = list[i] /\ ledger[b] = list[j]
  <2>1. \A i \in pruned + 1 .. Len(ledger) : i \in 1 .. Len(ledger) /\ pruned < i
    BY <1>0
  <2>2. \A i \in 1 .. Len(ledger) : pruned < i => i \in pruned + 1 .. Len(ledger)
    BY <1>0
  <2>3. \A x : x \in ToSet(list) <=> \E i \in 1 .. Len(ledger) : pruned < i /\ ledger[i] = x
    BY <1>3, <2>1, <2>2 DEF Parted
  <2>4. ASSUME NEW i \in DOMAIN list, NEW j \in DOMAIN list, i < j
        PROVE  \E a, b \in 1 .. Len(ledger) : a < b /\ ledger[a] = list[i] /\ ledger[b] = list[j]
    <3>1. i \in 1 .. Len(ledger) - pruned /\ j \in 1 .. Len(ledger) - pruned
      BY <1>0, <1>3 DEF Parted
    <3>2. /\ list[i] = ledger[pruned + i] /\ pruned + i \in 1 .. Len(ledger)
          /\ list[j] = ledger[pruned + j] /\ pruned + j \in 1 .. Len(ledger)
      BY <1>3, <3>1 DEF Parted
    <3>3. pruned + i < pruned + j
      BY <1>0, <2>4, <3>1
    <3>. QED BY <3>2, <3>3
  <2>. QED BY <2>3, <2>4
<1> HIDE DEF asked
<1>5. /\ sigs \in Seq(Transaction) /\ ToSet(sigs) = ToSet(list) \cap asked
      /\ \A i, j \in DOMAIN sigs : i < j => Precedes(sigs[i], sigs[j], list)
  BY <1>3, SelectContract
<1> HIDE DEF sigs, fresh
<1>6. /\ new \in Seq(Transaction) /\ ToSet(new) = ToSet(sigs) \cap fresh
      /\ \A i, j \in DOMAIN new : i < j => Precedes(new[i], new[j], sigs)
  BY <1>1, <1>5, SelectContract
<1>7. \A tx : tx \in ToSet(new) <=>
        /\ tx \in ToSet(list)
        /\ next \in Touches[tx.signature] /\ tx.slot >= slot
        /\ tx.signature \notin SignaturesOf(merged)
  BY <1>5, <1>6 DEF asked, fresh
<1>8. ASSUME NEW i \in 1 .. Len(new), NEW j \in 1 .. Len(new), i < j
      PROVE  \E a, b \in 1 .. Len(ledger) : a < b /\ ledger[a] = new[i] /\ ledger[b] = new[j]
  <2>1. i \in DOMAIN new /\ j \in DOMAIN new
    BY <1>6
  <2>2. PICK p \in DOMAIN sigs, q \in DOMAIN sigs : p < q /\ sigs[p] = new[i] /\ sigs[q] = new[j]
    BY <1>6, <1>8, <2>1 DEF Precedes
  <2>3. PICK a \in DOMAIN list, b \in DOMAIN list : a < b /\ list[a] = new[i] /\ list[b] = new[j]
    BY <1>5, <2>2 DEF Precedes
  <2>4. PICK x \in 1 .. Len(ledger), y \in 1 .. Len(ledger) :
          x < y /\ ledger[x] = list[a] /\ ledger[y] = list[b]
    BY <1>4, <2>3
  <2>. QED BY <2>3, <2>4
<1>. QED BY <1>4, <1>6, <1>7, <1>8

LEMMA FetchKeeps ==
    ASSUME IInv, fetch_address
    PROVE  IInv'
<1> DEFINE new == unlisted(signatures_after(next, ingestor.cursor.slot))
           M == Len(merged)
<1>1. /\ UNCHANGED <<ledger, final, pruned, rollbacks, pc, finalized_slot, settled,
                     ingestor, store, crashes>>
      /\ pc = "fetching" /\ next <= NumAddresses /\ next' = next + 1
      /\ merged' = Join(merged, new)
  BY Zenon DEF fetch_address, cluster, Join
<1>2. /\ new \in Seq(Transaction)
      /\ \A tx : tx \in ToSet(new) <=>
           /\ \E i \in 1 .. Len(ledger) : pruned < i /\ ledger[i] = tx
           /\ next \in Touches[tx.signature] /\ tx.slot >= ingestor.cursor.slot
           /\ tx.signature \notin SignaturesOf(merged)
      /\ \A i, j \in 1 .. Len(new) : i < j =>
           \E a, b \in 1 .. Len(ledger) : a < b /\ ledger[a] = new[i] /\ ledger[b] = new[j]
  BY Listing, Zenon
<1> HIDE DEF new
<1>3. /\ merged \in Seq(Transaction) /\ M \in Nat /\ Len(new) \in Nat
      /\ next \in Nat /\ finalized_slot \in Nat /\ DOMAIN merged = 1 .. M
      /\ \A i \in 1 .. M : merged[i] \in Transaction /\ merged[i] \in ToSet(merged)
      /\ \A i \in 1 .. Len(new) : new[i] \in Transaction /\ new[i] \in ToSet(new)
  <2>1. merged \in Seq(Transaction) /\ next \in Nat /\ finalized_slot \in Nat
    BY IngestorType DEF IInv
  <2>. QED BY <1>2, <2>1, ToSetIndices
<1>4. merged' \in Seq(Transaction) /\ Joined(merged', merged, new)
  BY <1>1, <1>2, <1>3, ToSetJoin, Zenon
<1>5. /\ DOMAIN merged' = 1 .. M + Len(new)
      /\ \A i \in 1 .. M : merged'[i] = merged[i]
      /\ \A i \in 1 .. Len(new) : merged'[M + i] = new[i]
      /\ \A x : x \in ToSet(merged') <=> x \in ToSet(merged) \/ x \in ToSet(new)
  <2>1. DOMAIN merged' = 1 .. Len(merged')
    BY <1>4
  <2>. QED BY <1>4, <2>1 DEF Joined
<1> HIDE DEF M
<1>6. ASSUME NEW i \in DOMAIN merged'
      PROVE  \/ i \in 1 .. M /\ merged'[i] = merged[i]
             \/ \E n \in 1 .. Len(new) : i = M + n /\ merged'[i] = new[n]
  <2>1. CASE i \in 1 .. M
    BY <1>5, <2>1
  <2>2. CASE i \notin 1 .. M
    <3>1. PICK n \in 1 .. Len(new) : i = M + n
      <4>1. i - M \in 1 .. Len(new) /\ i = M + (i - M)
        BY <1>3, <1>5, <2>2
      <4>. QED BY <4>1
    <3>. QED BY <1>5, <3>1
  <2>. QED BY <2>1, <2>2
<1>7. FetchInv /\ LedgerInv
  BY <1>1 DEF IInv
<1>8. /\ DOMAIN ledger = 1 .. Len(ledger)
      /\ \A i \in 1 .. Len(ledger) : ledger[i] \in Transaction
  BY LedgerElements
<1>9. \A tx \in ToSet(new) : tx \in Transaction /\ FirstAddress(tx) <= next /\ FirstAddress(tx) \in Nat
  BY <1>2, <1>8, FirstAddressType
<1>10. TypeOK'
  <2>1. next' \in 1 .. NumAddresses + 1
    BY <1>1, IngestAssumption, ClusterAssumption DEF IInv, TypeOK
  <2>. QED BY <1>1, <1>4, <2>1 DEF IInv, TypeOK
<1>11. LedgerInv' /\ StoreInv' /\ FinalizedInv' /\ HeadInv'
  BY <1>1 DEF IInv, LedgerInv, StoreInv, FinalizedInv, HeadInv
<1>12. LoopInv'
  BY <1>1 DEF IInv, LoopInv
<1>13. FetchInv'
  <2>1. Distinct(merged')
    <3> SUFFICES ASSUME NEW i \in DOMAIN merged', NEW j \in DOMAIN merged',
                        merged'[i].signature = merged'[j].signature
                 PROVE  i = j
      BY DEF Distinct
    <3>1. ASSUME NEW k \in 1 .. M, NEW n \in 1 .. Len(new) PROVE merged[k].signature # new[n].signature
      <4>1. new[n].signature \notin SignaturesOf(merged)
        BY <1>2, <1>3
      <4>. QED BY <1>3, <4>1 DEF SignaturesOf
    <3>2. ASSUME NEW k \in 1 .. Len(new), NEW n \in 1 .. Len(new), k < n
          PROVE  new[k].signature # new[n].signature
      <4>1. PICK a \in 1 .. Len(ledger), b \in 1 .. Len(ledger) :
              a < b /\ ledger[a] = new[k] /\ ledger[b] = new[n]
        BY <1>2, <3>2
      <4>. QED BY <1>7, <1>8, <4>1 DEF LedgerInv, Distinct
    <3>3. CASE i \in 1 .. M /\ j \in 1 .. M
      <4>1. merged[i].signature = merged[j].signature
        BY <1>5, <3>3
      <4>. QED BY <1>3, <1>7, <3>3, <4>1 DEF FetchInv, Distinct
    <3>4. CASE i \notin 1 .. M /\ j \notin 1 .. M
      <4>1. PICK k \in 1 .. Len(new) : i = M + k /\ merged'[i] = new[k]
        BY <1>6, <3>4
      <4>2. PICK n \in 1 .. Len(new) : j = M + n /\ merged'[j] = new[n]
        BY <1>6, <3>4
      <4>3. ~(k < n) /\ ~(n < k)
        BY <3>2, <4>1, <4>2
      <4>. QED BY <1>3, <4>1, <4>2, <4>3
    <3>5. CASE i \in 1 .. M /\ j \notin 1 .. M
      <4>1. PICK n \in 1 .. Len(new) : merged'[j] = new[n]
        BY <1>6, <3>5
      <4>. QED BY <1>5, <3>1, <3>5, <4>1
    <3>6. CASE i \notin 1 .. M /\ j \in 1 .. M
      <4>1. PICK n \in 1 .. Len(new) : merged'[i] = new[n]
        BY <1>6, <3>6
      <4>. QED BY <1>5, <3>1, <3>6, <4>1
    <3>. QED BY <3>3, <3>4, <3>5, <3>6
  <2>2. ASSUME NEW i \in DOMAIN merged'
        PROVE  /\ merged'[i].slot >= ingestor.cursor.slot
               /\ merged'[i].slot <= finalized_slot
                    => merged'[i] \in ToSet(ledger) /\ FirstAddress(merged'[i]) < next + 1
    <3>1. CASE i \in 1 .. M
      <4>1. FirstAddress(merged[i]) \in Nat /\ merged'[i] = merged[i]
        BY <1>3, <1>5, <3>1, FirstAddressType
      <4>. QED BY <1>3, <1>7, <3>1, <4>1 DEF FetchInv
    <3>2. CASE i \notin 1 .. M
      <4>1. PICK n \in 1 .. Len(new) : merged'[i] = new[n]
        BY <1>6, <3>2
      <4>2. new[n] \in ToSet(new)
        BY <1>3
      <4>3. new[n] \in ToSet(ledger) /\ new[n].slot >= ingestor.cursor.slot
        BY <1>2, <1>8, <4>2 DEF ToSet
      <4>. QED BY <1>3, <1>9, <4>1, <4>2, <4>3
    <3>. QED BY <3>1, <3>2
  <2>3. ASSUME NEW i \in DOMAIN ledger,
               ledger[i].slot <= finalized_slot, ledger[i].signature \in SignaturesOf(merged')
        PROVE  ledger[i] \in ToSet(merged')
    <3>1. CASE ledger[i].signature \in SignaturesOf(merged)
      BY <1>5, <1>7, <2>3, <3>1 DEF FetchInv
    <3>2. CASE ledger[i].signature \notin SignaturesOf(merged)
      <4>1. PICK tx \in ToSet(merged') : tx.signature = ledger[i].signature
        BY <2>3, SignaturesAreElements
      <4>2. tx \in ToSet(new)
        BY <1>5, <3>2, <4>1, SignaturesAreElements
      <4>3. PICK k \in DOMAIN ledger : ledger[k] = tx
        BY <1>2, <1>8, <4>2
      <4>4. k = i
        BY <1>7, <4>1, <4>3 DEF LedgerInv, Distinct
      <4>. QED BY <4>1, <4>3, <4>4
    <3>. QED BY <3>1, <3>2
  <2>4. ASSUME NEW i \in DOMAIN ledger, pruned < i,
               ledger[i].slot >= ingestor.cursor.slot, ledger[i].slot <= finalized_slot,
               FirstAddress(ledger[i]) < next + 1
        PROVE  ledger[i] \in ToSet(merged')
    <3>0. FirstAddress(ledger[i]) \in Nat /\ FirstAddress(ledger[i]) \in Touches[ledger[i].signature]
      BY <1>8, FirstAddressType
    <3>1. CASE FirstAddress(ledger[i]) < next
      BY <1>5, <1>7, <2>4, <3>1 DEF FetchInv
    <3>2. CASE ~(FirstAddress(ledger[i]) < next)
      <4>1. FirstAddress(ledger[i]) = next
        BY <1>3, <2>4, <3>0, <3>2
      <4>2. CASE ledger[i].signature \in SignaturesOf(merged)
        BY <1>5, <1>7, <2>4, <4>2 DEF FetchInv
      <4>3. CASE ledger[i].signature \notin SignaturesOf(merged)
        <5>1. ledger[i] \in ToSet(new)
          BY <1>2, <1>8, <2>4, <3>0, <4>1, <4>3
        <5>. QED BY <1>5, <5>1
      <4>. QED BY <4>2, <4>3
    <3>. QED BY <3>1, <3>2
  <2>5. ASSUME NEW i \in DOMAIN merged', NEW j \in DOMAIN merged',
               NEW a \in DOMAIN ledger, NEW b \in DOMAIN ledger,
               i < j, merged'[i] = ledger[a], merged'[j] = ledger[b],
               ledger[a].slot <= finalized_slot, ledger[b].slot <= finalized_slot
        PROVE  AppliedBefore(ledger, a, b)
    <3>1. CASE j \in 1 .. M
      <4>1. i \in 1 .. M
        BY <1>3, <1>5, <2>5, <3>1
      <4>2. merged[i] = ledger[a] /\ merged[j] = ledger[b]
        BY <1>5, <2>5, <3>1, <4>1
      <4>. QED BY <1>3, <1>7, <2>5, <3>1, <4>1, <4>2 DEF FetchInv
    <3>2. CASE j \notin 1 .. M
      <4>1. PICK n \in 1 .. Len(new) : j = M + n /\ merged'[j] = new[n]
        BY <1>6, <3>2
      <4>2. next \in Touches[ledger[b].signature] /\ ledger[b] \in ToSet(new)
            /\ ledger[b].signature \notin SignaturesOf(merged)
        BY <1>2, <1>3, <2>5, <4>1
      <4>3. FirstAddress(ledger[b]) = next
        <5>1. ~(FirstAddress(ledger[b]) < next)
          <6> SUFFICES ASSUME FirstAddress(ledger[b]) < next PROVE FALSE
            OBVIOUS
          <6>1. PICK k \in 1 .. Len(ledger) : pruned < k /\ ledger[k] = ledger[b]
            BY <1>2, <4>2
          <6>2. ledger[b].slot >= ingestor.cursor.slot
            BY <1>2, <4>2
          <6>3. ledger[b] \in ToSet(merged)
            BY <1>7, <1>8, <2>5, <6>1, <6>2 DEF FetchInv
          <6>. QED BY <4>2, <6>3, SignaturesAreElements
        <5>. QED BY <1>3, <1>9, <4>2, <5>1
      <4>4. CASE i \in 1 .. M
        <5>1. merged[i] = ledger[a]
          BY <1>5, <2>5, <4>4
        <5>2. FirstAddress(ledger[a]) < next
          BY <1>3, <1>7, <2>5, <4>4, <5>1 DEF FetchInv
        <5>. QED BY <4>3, <5>2 DEF AppliedBefore
      <4>5. CASE i \notin 1 .. M
        <5>1. PICK k \in 1 .. Len(new) : i = M + k /\ merged'[i] = new[k]
          BY <1>6, <4>5
        <5>2. k < n
          BY <1>3, <2>5, <4>1, <5>1
        <5>3. PICK x \in 1 .. Len(ledger), y \in 1 .. Len(ledger) :
                x < y /\ ledger[x] = new[k] /\ ledger[y] = new[n]
          BY <1>2, <5>2
        <5>4. x = a /\ y = b
          BY <1>7, <1>8, <2>5, <4>1, <5>1, <5>3 DEF LedgerInv, Distinct
        <5>5. FirstAddress(ledger[a]) <= next /\ FirstAddress(ledger[a]) \in Nat
          BY <1>3, <1>9, <2>5, <5>1
        <5>6. FirstAddress(ledger[a]) < next \/ FirstAddress(ledger[a]) = next
          BY <1>3, <5>5
        <5>. QED BY <4>3, <5>3, <5>4, <5>6 DEF AppliedBefore
      <4>. QED BY <4>4, <4>5
    <3>. QED BY <3>1, <3>2
  <2>6. finalized_slot <= final /\ ingestor.cursor.slot <= finalized_slot
    BY <1>7 DEF FetchInv
  <2>. QED BY <1>1, <2>1, <2>2, <2>3, <2>4, <2>5, <2>6 DEF FetchInv
<1>. QED BY <1>10, <1>11, <1>12, <1>13 DEF IInv

-----------------------------------------------------------------------------
(* A poll. *)

SlotOrder(s, list) ==
    \A i, j \in DOMAIN s : i < j =>
        s[i].slot < s[j].slot \/ (s[i].slot = s[j].slot /\ Precedes(s[i], s[j], list))

\* The batch, of which m entries are promoted, is cut from the sorted lists after the
\* a-th entry.
Polled(sorted, a, batch, m) ==
    /\ ToSet(sorted) = ToSet(merged) /\ SlotOrder(sorted, merged)
    /\ a = 0 => \A i \in 1 .. Len(sorted) : sorted[i].signature # ingestor.cursor.signature
    /\ a > 0 => sorted[a].signature = ingestor.cursor.signature
    /\ Distinct(batch)
    /\ \A i \in 1 .. Len(batch) :
         batch[i] \in ToSet(ledger) /\ batch[i].slot >= ingestor.cursor.slot
    /\ a + m <= Len(sorted)
    /\ \A i \in 1 .. m : batch[i] = sorted[a + i] /\ batch[i].slot <= finalized_slot
    /\ settled' = Part(batch, 0, m)
    /\ ingestor' = ReplayedOver(ApplyAll(ingestor.finalized, settled'),
                                CursorAfter(ingestor.cursor, settled'),
                                Part(batch, m, Len(batch)))

LEMMA SameSignature ==
    ASSUME NEW s, Distinct(s), NEW x \in ToSet(s), NEW y \in ToSet(s),
           x.signature = y.signature
    PROVE  x = y
  BY DEF Distinct, ToSet

LEMMA SortedDistinct ==
    ASSUME NEW s \in Seq(Transaction), NEW list \in Seq(Transaction), Distinct(list),
           ToSet(s) = ToSet(list), SlotOrder(s, list)
    PROVE  Distinct(s)
<1>1. ASSUME NEW i \in DOMAIN s, NEW j \in DOMAIN s, i < j
      PROVE  s[i].signature # s[j].signature
  <2>1. s[i] \in ToSet(list) /\ s[j] \in ToSet(list) /\ s[i].slot \in Nat
    BY ToSetIndices, TransactionFields
  <2>2. s[i] = s[j] => ~(s[i].slot < s[j].slot)
    BY <2>1
  <2>3. CASE Precedes(s[i], s[j], list)
    BY <2>3 DEF Precedes, Distinct
  <2>. QED BY <1>1, <2>1, <2>2, <2>3, SameSignature DEF SlotOrder
<1>2. ASSUME NEW i \in DOMAIN s, NEW j \in DOMAIN s, i # j
      PROVE  i < j \/ j < i
  <2>1. i \in Nat /\ j \in Nat
    OBVIOUS
  <2>. QED BY <1>2, <2>1
<1>. QED BY <1>1, <1>2 DEF Distinct

LEMMA PollEffect ==
    ASSUME IInv, poll
    PROVE  \E sorted \in Seq(Transaction), batch \in Seq(Transaction) :
             \E a \in 0 .. Len(sorted), m \in 0 .. Len(batch) : Polled(sorted, a, batch, m)
<1> DEFINE sorted == sort_by_slot(merged)
           w == window
           batch == logs_for(w)
           promoted == settling(batch)
           F == ingestor.finalized
<1>0. /\ merged \in Seq(Transaction) /\ ledger \in Seq(Transaction)
      /\ pruned \in 0 .. Len(ledger) /\ finalized_slot \in Nat
      /\ ingestor \in Ingestor /\ F \in Projection /\ ingestor.cursor \in Cursor
      /\ LogsAvailable /\ ~Contradiction /\ pc = "fetching"
      /\ FetchInv /\ LedgerInv /\ HeadInv
  BY IngestorType DEF IInv, poll
<1>1. sorted \in Seq(Transaction) /\ ToSet(sorted) = ToSet(merged) /\ SlotOrder(sorted, merged)
  BY <1>0, SortContract DEF SlotOrder
<1>2. Distinct(sorted)
  BY <1>0, <1>1, SortedDistinct DEF FetchInv
<1> HIDE DEF sorted
<1>3. PICK a \in 0 .. Len(sorted), b \in 0 .. Len(sorted) :
        /\ a <= b /\ w = Part(sorted, a, b)
        /\ a = 0 => \A i \in 1 .. Len(sorted) : sorted[i].signature # ingestor.cursor.signature
        /\ a > 0 => sorted[a].signature = ingestor.cursor.signature
  <2>1. PICK a \in 0 .. Len(sorted) : \E b \in a .. Len(sorted) :
          /\ w = Part(sorted, a, b)
          /\ a = 0 => \A i \in 1 .. Len(sorted) : sorted[i].signature # ingestor.cursor.signature
          /\ a > 0 => sorted[a].signature = ingestor.cursor.signature
    BY <1>1, Window DEF sorted
  <2>2. PICK b \in a .. Len(sorted) :
          /\ w = Part(sorted, a, b)
          /\ a = 0 => \A i \in 1 .. Len(sorted) : sorted[i].signature # ingestor.cursor.signature
          /\ a > 0 => sorted[a].signature = ingestor.cursor.signature
    BY <2>1
  <2>3. b \in 0 .. Len(sorted) /\ a <= b
    BY <1>1
  <2>. QED BY <2>2, <2>3
<1>4. w \in Seq(Transaction) /\ Parted(w, sorted, a, b)
  <2>1. b \in a .. Len(sorted)
    BY <1>1, <1>3
  <2>. QED BY <1>1, <1>3, <2>1, ToSetPart, Zenon
<1> HIDE DEF w
<1>5. /\ batch \in Seq(Transaction) /\ Len(batch) = Len(w)
      /\ \A i \in 1 .. Len(w) :
           batch[i] \in ToSet(ledger) /\ batch[i].signature = w[i].signature
  BY <1>0, <1>4, LogsFor DEF w
<1>6. \A tx \in ToSet(batch) : ~(tx.slot < ingestor.cursor.slot)
  BY <1>0 DEF Contradiction, w
<1> HIDE DEF batch
<1>7. /\ Len(batch) = b - a /\ Len(batch) \in Nat /\ Len(sorted) \in Nat
      /\ DOMAIN batch = 1 .. Len(batch)
      /\ \A i \in 1 .. Len(batch) :
           /\ batch[i] \in ToSet(ledger) /\ batch[i] \in ToSet(batch)
           /\ batch[i].slot \in Nat
           /\ a + i \in 1 .. Len(sorted) /\ batch[i].signature = sorted[a + i].signature
  <2>1. /\ Len(batch) \in Nat /\ Len(sorted) \in Nat
        /\ DOMAIN batch = 1 .. Len(batch)
        /\ \A i \in 1 .. Len(batch) : batch[i] \in ToSet(batch) /\ batch[i] \in Transaction
    BY <1>1, <1>5, ToSetIndices
  <2>2. Len(batch) = b - a
    BY <1>4, <1>5 DEF Parted
  <2>3. \A i \in 1 .. Len(batch) : batch[i].slot \in Nat
    BY <2>1, TransactionFields
  <2>. QED BY <1>4, <1>5, <2>1, <2>2, <2>3 DEF Parted
<1>8. Distinct(batch)
  <2> SUFFICES ASSUME NEW i \in 1 .. Len(batch), NEW j \in 1 .. Len(batch),
                      batch[i].signature = batch[j].signature
               PROVE  i = j
    BY <1>7 DEF Distinct
  <2>1. sorted[a + i].signature = sorted[a + j].signature
        /\ a + i \in DOMAIN sorted /\ a + j \in DOMAIN sorted
    BY <1>1, <1>7
  <2>2. a + i = a + j
    BY <1>2, <2>1 DEF Distinct
  <2>. QED BY <1>3, <2>2
<1>9. \A i \in 1 .. Len(batch) : batch[i].slot >= ingestor.cursor.slot
  BY <1>0, <1>6, <1>7, CursorType
<1>10. PICK m \in 0 .. Len(batch) :
         promoted = Part(batch, 0, m) /\ \A i \in 1 .. m : batch[i].slot <= finalized_slot
  BY <1>0, <1>5, Settling
<1>11. ASSUME NEW i \in 1 .. m PROVE batch[i] = sorted[a + i]
  <2>1. i \in 1 .. Len(batch)
    BY <1>7
  <2>2. /\ batch[i] \in ToSet(ledger) /\ batch[i].slot <= finalized_slot
        /\ batch[i].signature = sorted[a + i].signature /\ a + i \in 1 .. Len(sorted)
    BY <1>7, <1>10, <2>1
  <2>3. sorted[a + i] \in ToSet(merged)
    BY <1>1, <2>2, ToSetIndices
  <2>4. batch[i].signature \in SignaturesOf(merged)
    BY <2>2, <2>3, SignaturesAreElements
  <2>5. batch[i] \in ToSet(merged)
    BY <1>0, <2>2, <2>4 DEF FetchInv, ToSet
  <2>. QED BY <1>0, <2>2, <2>3, <2>5, SameSignature DEF FetchInv
<1>12. Absorbed(batch) = ReplayedOver(F, ingestor.cursor, batch)
  BY <1>0, <1>5, AbsorbedIsReplay
<1>13. Absorbed(batch).replay = batch
  BY <1>12 DEF ReplayedOver
<1>14. /\ settled' = promoted
       /\ ingestor' = advance_finality(Absorbed(batch), promoted)
  <2>1. \E absorbed \in {Absorbed(batch)} :
          /\ ingestor' = advance_finality(absorbed, settling(absorbed.replay))
          /\ settled' = settling(absorbed.replay)
    BY Zenon DEF poll, batch, w
  <2>. QED BY <1>13, <2>1, Zenon
<1> HIDE DEF promoted
<1>15. ingestor' = ReplayedOver(ApplyAll(F, promoted),
                                CursorAfter(ingestor.cursor, promoted),
                                Part(batch, m, Len(batch)))
  <2> DEFINE rest == Part(batch, m, Len(batch))
             cursor == ingestor.cursor
  <2>1. rest = Part(batch, m, Len(batch)) /\ promoted = Part(batch, 0, m)
    BY <1>10
  <2>2. F \in Projection /\ batch \in Seq(Transaction)
    BY <1>0, <1>5
  <2> HIDE DEF rest, F, cursor
  <2>3. advance_finality(ReplayedOver(F, cursor, batch), promoted)
          = ReplayedOver(ApplyAll(F, promoted),
                         CursorAfter(cursor, promoted), rest)
    BY <2>1, <2>2, AdvanceIsReplay
  <2>. QED BY <1>12, <1>14, <2>3, Zenon DEF rest, cursor
<1>16. a + m <= Len(sorted)
  BY <1>3, <1>7
<1>17. Polled(sorted, a, batch, m)
  BY <1>1, <1>3, <1>7, <1>8, <1>9, <1>10, <1>11, <1>14, <1>15, <1>16, Zenon DEF Polled
<1>. QED BY <1>1, <1>5, <1>17

\* Nothing that is before the last of the promoted, where poll applies it, was left out.
LEMMA NothingBeforeIsLeftOut ==
    ASSUME IInv, poll,
           NEW sorted \in Seq(Transaction), NEW batch \in Seq(Transaction),
           NEW a \in 0 .. Len(sorted), NEW m \in 1 .. Len(batch), Polled(sorted, a, batch, m),
           NEW i \in DOMAIN ledger, NEW j \in DOMAIN ledger, ledger[j] = batch[m],
           \/ ledger[i].slot < batch[m].slot
           \/ ledger[i].slot = batch[m].slot /\ AppliedBefore(ledger, i, j)
    PROVE  \/ ledger[i] \in ToSet(ingestor.finalized.folded)
           \/ \E k \in 1 .. m : ledger[i] = batch[k]
<1> DEFINE folded == ingestor.finalized.folded
           cursor == ingestor.cursor
           tx == ledger[i]
<1>0. /\ Len(sorted) \in Nat /\ Len(batch) \in Nat /\ m \in Nat /\ a \in Nat
      /\ finalized_slot \in Nat /\ pruned \in 0 .. Len(ledger) /\ next \in Nat
      /\ cursor \in Cursor /\ folded \in Seq(Transaction) /\ merged \in Seq(Transaction)
      /\ FetchInv /\ LedgerInv /\ FoldedTo(folded, cursor, ledger, final)
      /\ folded = store.folded /\ cursor = store.cursor /\ next > NumAddresses
  <2>1. pc = "fetching" /\ next > NumAddresses
    BY DEF poll
  <2>2. /\ FetchInv /\ LedgerInv /\ FoldedTo(folded, cursor, ledger, final)
        /\ folded = store.folded /\ cursor = store.cursor
    BY <2>1 DEF IInv, FinalizedInv, LoopInv
  <2>. QED BY <2>1, <2>2, IngestorType DEF IInv
<1>1. /\ DOMAIN ledger = 1 .. Len(ledger) /\ tx \in Transaction /\ tx.slot \in Nat
      /\ tx \in ToSet(ledger) /\ i \in Nat /\ j \in Nat
      /\ FirstAddress(tx) \in Nat /\ FirstAddress(ledger[j]) \in Nat
      /\ FirstAddress(tx) < next
  <2>1. DOMAIN ledger = 1 .. Len(ledger) /\ tx \in Transaction /\ ledger[j] \in Transaction
        /\ Len(ledger) \in Nat
    BY LedgerElements, IngestorType DEF IInv
  <2>2. FirstAddress(tx) \in 1 .. NumAddresses
    BY <2>1, FirstAddressType, TransactionFields, IngestAssumption, ClusterAssumption
  <2>3. FirstAddress(tx) \in Nat /\ FirstAddress(ledger[j]) \in Nat /\ tx.slot \in Nat
    BY <2>1, FirstAddressType, TransactionFields
  <2>4. FirstAddress(tx) < next
    BY <1>0, <2>2, IngestAssumption, ClusterAssumption
  <2>5. tx \in ToSet(ledger)
    BY DEF ToSet
  <2>. QED BY <2>1, <2>3, <2>4, <2>5
<1>2. /\ ToSet(sorted) = ToSet(merged) /\ SlotOrder(sorted, merged) /\ Distinct(sorted)
      /\ a = 0 => \A k \in 1 .. Len(sorted) : sorted[k].signature # cursor.signature
      /\ a > 0 => sorted[a].signature = cursor.signature
      /\ a + m <= Len(sorted)
      /\ \A k \in 1 .. m : batch[k] = sorted[a + k] /\ batch[k].slot <= finalized_slot
  <2>1. /\ ToSet(sorted) = ToSet(merged) /\ SlotOrder(sorted, merged)
        /\ a = 0 => \A k \in 1 .. Len(sorted) : sorted[k].signature # cursor.signature
        /\ a > 0 => sorted[a].signature = cursor.signature
        /\ a + m <= Len(sorted)
        /\ \A k \in 1 .. m : batch[k] = sorted[a + k] /\ batch[k].slot <= finalized_slot
    BY DEF Polled
  <2>2. Distinct(sorted)
    BY <1>0, <2>1, SortedDistinct DEF FetchInv
  <2>. QED BY <2>1, <2>2
<1>3. /\ batch[m] = sorted[a + m] /\ a + m \in 1 .. Len(sorted)
      /\ batch[m].slot <= finalized_slot /\ batch[m].slot \in Nat
  <2>1. m \in 1 .. m /\ a + m \in 1 .. Len(sorted)
    BY <1>0, <1>2
  <2>2. batch[m] \in Transaction
    OBVIOUS
  <2>. QED BY <1>2, <2>1, <2>2, TransactionFields
<1>4. tx.slot <= finalized_slot
  <2>1. tx.slot <= batch[m].slot
    <3>1. tx.slot < batch[m].slot \/ tx.slot = batch[m].slot
      OBVIOUS
    <3>. QED BY <1>1, <1>3, <3>1
  <2>2. finalized_slot \in Nat
    BY <1>0
  <2>3. tx.slot \in Nat /\ batch[m].slot \in Nat /\ batch[m].slot <= finalized_slot
    BY <1>1, <1>3
  <2>. QED BY <2>1, <2>2, <2>3
<1> HIDE DEF folded, cursor
<1>5. CASE tx.slot < cursor.slot
  BY <1>0, <1>5 DEF FoldedTo, folded
<1>6. CASE i \in 1 .. pruned
  BY <1>0, <1>6 DEF LedgerInv, folded
<1>7. CASE ~(tx.slot < cursor.slot) /\ i \notin 1 .. pruned
  <2>1. cursor.slot \in Nat /\ tx.slot >= cursor.slot /\ pruned < i
    <3>1. cursor.slot \in Nat
      BY <1>0, CursorType
    <3>2. pruned \in Nat /\ ~ (i \in 1 .. pruned)
      BY <1>0, <1>7
    <3>3. i \in Nat /\ i > 0
      BY <1>1
    <3>4. pruned < i
      BY <3>2, <3>3
    <3>. QED BY <1>1, <1>7, <3>1, <3>4
  <2>2. tx \in ToSet(merged)
    BY <1>0, <1>1, <1>4, <2>1 DEF FetchInv, cursor
  <2>3. PICK k \in 1 .. Len(sorted) : sorted[k] = tx
    BY <1>2, <2>2, ToSetIndices
  <2>4. CASE k <= a
    <3>0. a \in 1 .. Len(sorted) /\ a > 0
      BY <1>0, <2>3, <2>4
    <3>1. sorted[a].signature = cursor.signature /\ sorted[a] \in Transaction
      BY <1>2, <3>0
    <3>2. cursor # NoCursor
      BY <3>1, TransactionFields DEF NoCursor
    <3>3. cursor \in ToSet(folded)
      BY <1>0, <3>2 DEF FoldedTo
    <3>4. PICK c \in DOMAIN ledger : ledger[c] = cursor
      <4>1. PICK n \in DOMAIN folded : folded[n] = cursor
        BY <3>3 DEF ToSet
      <4>. QED BY <1>0, <4>1 DEF FoldedTo, ToSet
    <3>5. CASE k = a
      <4>1. ledger[i].signature = ledger[c].signature
        BY <2>3, <3>1, <3>4, <3>5
      <4>2. tx = cursor
        BY <1>0, <3>4, <4>1 DEF LedgerInv, Distinct
      <4>. QED BY <3>3, <4>2 DEF folded
    <3>6. CASE k # a
      <4>1. k < a /\ k \in DOMAIN sorted /\ a \in DOMAIN sorted
        <5>1. DOMAIN sorted = 1 .. Len(sorted) /\ k \in Nat /\ a \in Nat
          BY <1>0
        <5>. QED BY <2>4, <3>0, <3>6, <5>1
      <4>2. sorted[a] = cursor
        <5>1. sorted[a] \in ToSet(merged)
          BY <1>2, <3>0, ToSetIndices
        <5>2. cursor.signature \in SignaturesOf(merged)
          BY <3>1, <5>1, SignaturesAreElements
        <5>3. cursor.slot <= finalized_slot
          BY <1>0 DEF FetchInv, cursor
        <5>4. cursor \in ToSet(merged)
          BY <1>0, <3>4, <5>2, <5>3 DEF FetchInv
        <5>5. Distinct(merged)
          BY <1>0 DEF FetchInv
        <5>. QED BY <3>1, <5>1, <5>4, <5>5, SameSignature
      <4>3. tx.slot = cursor.slot /\ Precedes(tx, cursor, merged)
        <5>1. SlotOrder(sorted, merged)
          BY <1>2
        <5>2. \/ tx.slot < cursor.slot
              \/ tx.slot = cursor.slot /\ Precedes(tx, cursor, merged)
          BY <2>3, <4>1, <4>2, <5>1 DEF SlotOrder
        <5>. QED BY <1>1, <2>1, <5>2
      <4>4. PICK p \in DOMAIN merged, q \in DOMAIN merged : p < q /\ merged[p] = tx /\ merged[q] = cursor
        BY <4>3 DEF Precedes
      <4>5. cursor.slot <= finalized_slot
        BY <1>0 DEF FetchInv, cursor
      <4>6. AppliedBefore(ledger, i, c)
        BY <1>0, <1>4, <3>4, <4>4, <4>5 DEF FetchInv
      <4>. QED BY <1>0, <3>4, <4>3, <4>6 DEF FoldedTo, folded
    <3>. QED BY <3>5, <3>6
  <2>5. CASE a < k /\ k <= a + m
    <3>1. PICK n \in 1 .. m : k = a + n
      <4>1. k - a \in 1 .. m /\ k = a + (k - a)
        BY <1>0, <2>3, <2>5
      <4>. QED BY <4>1
    <3>2. tx = batch[n]
      BY <1>2, <2>3, <3>1
    <3>. QED BY <3>2
  <2>6. CASE a + m < k
    <3>1. a + m \in DOMAIN sorted /\ k \in DOMAIN sorted
      BY <1>3, <2>3
    <3>2. \/ ledger[j].slot < tx.slot
          \/ ledger[j].slot = tx.slot /\ Precedes(ledger[j], tx, merged)
      BY <1>2, <1>3, <2>3, <2>6, <3>1 DEF SlotOrder
    <3>3. tx.slot = ledger[j].slot /\ AppliedBefore(ledger, i, j) /\ Precedes(ledger[j], tx, merged)
      BY <1>1, <1>3, <3>2
    <3>4. PICK p \in DOMAIN merged, q \in DOMAIN merged :
            p < q /\ merged[p] = ledger[j] /\ merged[q] = tx
      BY <3>3 DEF Precedes
    <3>5. AppliedBefore(ledger, j, i)
      BY <1>0, <1>3, <1>4, <3>4 DEF FetchInv
    <3>6. FALSE
      BY <1>1, <3>3, <3>5 DEF AppliedBefore
    <3>. QED BY <3>6
  <2>. QED BY <1>0, <2>3, <2>4, <2>5, <2>6
<1>. QED BY <1>5, <1>6, <1>7

\* What a batch folds anew: the promoted that are not in the projection yet.
FoldsAnew(f, p, promoted, batch, m) ==
    /\ \A i \in 1 .. Len(batch) :
         batch[i] \in ToSet(p.folded) <=> batch[i].signature \in p.applied
    /\ promoted \in Seq(Transaction) /\ Parted(promoted, batch, 0, m)
    /\ f \in Projection
    /\ \E new \in Seq(Transaction) :
         /\ f.folded = Join(p.folded, new)
         /\ ToSet(new) = ToSet(promoted) \ ToSet(p.folded)
         /\ \A i, j \in DOMAIN new : i < j => Precedes(new[i], new[j], promoted)
    /\ f.applied = p.applied \cup SignaturesOf(promoted)

LEMMA PromotedFold ==
    ASSUME IInv, poll,
           NEW sorted \in Seq(Transaction), NEW batch \in Seq(Transaction),
           NEW a \in 0 .. Len(sorted), NEW m \in 0 .. Len(batch), Polled(sorted, a, batch, m),
           NEW promoted, promoted = Part(batch, 0, m),
           NEW f, f = ApplyAll(ingestor.finalized, promoted)
    PROVE  FoldsAnew(f, ingestor.finalized, promoted, batch, m)
<1> DEFINE p == ingestor.finalized
           cursor == ingestor.cursor
           wanted == ToSet(promoted) \ ToSet(p.folded)
           new == Select(promoted, wanted)
<1>0. /\ p \in Projection /\ p.folded \in Seq(Transaction) /\ p.applied \in SUBSET Signatures
      /\ cursor \in Cursor /\ LedgerInv /\ FinalizedInv /\ FoldedTo(p.folded, cursor, ledger, final)
      /\ ledger \in Seq(Transaction)
  BY IngestorType DEF IInv, FinalizedInv
<1>1. ASSUME NEW i \in 1 .. Len(batch)
      PROVE  batch[i] \in ToSet(p.folded) <=> batch[i].signature \in p.applied
  <2>0. batch[i] \in ToSet(ledger) /\ batch[i].slot >= cursor.slot
    BY DEF Polled
  <2>1. ASSUME batch[i] \in ToSet(p.folded) PROVE batch[i].signature \in p.applied
    BY <1>0, <2>0, <2>1 DEF FinalizedInv, ToSet
  <2>2. ASSUME batch[i].signature \in p.applied PROVE batch[i] \in ToSet(p.folded)
    <3>1. PICK n \in DOMAIN p.folded : p.folded[n].signature = batch[i].signature
      BY <1>0, <2>2 DEF FinalizedInv, SignaturesOf
    <3>2. p.folded[n] \in ToSet(ledger) /\ Distinct(ledger)
      BY <1>0 DEF FoldedTo, LedgerInv
    <3>3. p.folded[n] = batch[i]
      BY <2>0, <3>1, <3>2, SameSignature
    <3>. QED BY <3>3 DEF ToSet
  <2>. QED BY <2>1, <2>2
<1>2. promoted \in Seq(Transaction) /\ Parted(promoted, batch, 0, m)
  <2>1. 0 \in 0 .. Len(batch) /\ m \in 0 .. Len(batch) /\ Len(batch) \in Nat
    OBVIOUS
  <2>. QED BY <2>1, ToSetPart, Zenon
<1>3. /\ DOMAIN promoted = 1 .. m
      /\ \A i \in 1 .. m : promoted[i] = batch[i] /\ i \in 1 .. Len(batch)
  BY <1>2 DEF Parted
<1>4. Distinct(promoted)
  <2>1. Distinct(batch) /\ DOMAIN batch = 1 .. Len(batch)
    BY DEF Polled
  <2>. QED BY <1>3, <2>1 DEF Distinct
<1>5. \A i \in DOMAIN promoted : promoted[i] \in wanted <=> promoted[i].signature \notin p.applied
  <2>1. \A i \in DOMAIN promoted : promoted[i] \in ToSet(promoted)
    BY DEF ToSet
  <2>. QED BY <1>1, <1>3, <2>1
<1> HIDE DEF wanted
<1>6. /\ ApplyAll(p, promoted).folded = Join(p.folded, new)
      /\ ApplyAll(p, promoted).applied = p.applied \cup SignaturesOf(promoted)
  BY <1>0, <1>2, <1>4, <1>5, ApplyFolds DEF Join
<1>7. /\ new \in Seq(Transaction)
      /\ ToSet(new) = ToSet(promoted) \cap wanted
      /\ \A i, j \in DOMAIN new : i < j => Precedes(new[i], new[j], promoted)
  BY <1>2, SelectContract
<1>8. ToSet(new) = ToSet(promoted) \ ToSet(p.folded)
  BY <1>7 DEF wanted
<1>9. f \in Projection
  BY <1>0, <1>2, ApplyAllType
<1> HIDE DEF new
<1>. QED BY <1>1, <1>2, <1>6, <1>7, <1>8, <1>9 DEF FoldsAnew

LEMMA PollKeeps ==
    ASSUME IInv, poll
    PROVE  IInv'
<1> DEFINE p == ingestor.finalized
           cursor == ingestor.cursor
           promoted == settled'
           f == ingestor'.finalized
           cursor2 == ingestor'.cursor
<1>1. PICK sorted \in Seq(Transaction), batch \in Seq(Transaction) :
        \E a \in 0 .. Len(sorted), m \in 0 .. Len(batch) : Polled(sorted, a, batch, m)
  BY PollEffect
<1>2. PICK a \in 0 .. Len(sorted), m \in 0 .. Len(batch) : Polled(sorted, a, batch, m)
  BY <1>1
<1>3. /\ UNCHANGED <<ledger, final, pruned, rollbacks, store, crashes>>
      /\ pc = "fetching" /\ pc' = "committing"
      /\ next' = 1 /\ finalized_slot' = 0 /\ merged' = <<>>
  BY Zenon DEF poll, cluster, ClearRequest
<1>4. /\ p \in Projection /\ p.folded \in Seq(Transaction) /\ p.applied \in SUBSET Signatures
      /\ cursor \in Cursor /\ cursor.slot \in Nat /\ LedgerInv /\ FetchInv /\ FinalizedInv
      /\ FoldedTo(p.folded, cursor, ledger, final)
      /\ ledger \in Seq(Transaction) /\ final \in Nat /\ finalized_slot \in Nat
      /\ p.folded = store.folded /\ cursor = store.cursor
  BY <1>3, IngestorType, CursorType DEF IInv, FinalizedInv, LoopInv
<1> DEFINE rest == Part(batch, m, Len(batch))
<1>5. /\ promoted = Part(batch, 0, m)
      /\ ingestor' = ReplayedOver(ApplyAll(p, promoted), CursorAfter(cursor, promoted), rest)
  BY <1>2, Zenon DEF Polled
<1>6. /\ f = ApplyAll(p, promoted) /\ cursor2 = CursorAfter(cursor, promoted)
      /\ ingestor'.replay = rest
  BY <1>5 DEF ReplayedOver
<1> HIDE DEF promoted, f, cursor2
<1>7. /\ \A i \in 1 .. Len(batch) : batch[i] \in ToSet(p.folded) <=> batch[i].signature \in p.applied
      /\ promoted \in Seq(Transaction) /\ Parted(promoted, batch, 0, m)
      /\ f \in Projection
      /\ \E new \in Seq(Transaction) :
           /\ f.folded = Join(p.folded, new)
           /\ ToSet(new) = ToSet(promoted) \ ToSet(p.folded)
           /\ \A i, j \in DOMAIN new : i < j => Precedes(new[i], new[j], promoted)
      /\ f.applied = p.applied \cup SignaturesOf(promoted)
  <2>1. FoldsAnew(f, p, promoted, batch, m)
    <3>1. promoted = Part(batch, 0, m) /\ f = ApplyAll(p, promoted)
      BY <1>5, <1>6
    <3>. QED BY <1>2, <3>1, PromotedFold
  <2>. QED BY <2>1 DEF FoldsAnew
<1>8. PICK new \in Seq(Transaction) :
        /\ f.folded = Join(p.folded, new)
        /\ ToSet(new) = ToSet(promoted) \ ToSet(p.folded)
        /\ \A i, j \in DOMAIN new : i < j => Precedes(new[i], new[j], promoted)
  BY <1>7
<1> DEFINE N == Len(p.folded)
<1>9. /\ f.folded \in Seq(Transaction)
      /\ DOMAIN f.folded = 1 .. N + Len(new) /\ Len(f.folded) = N + Len(new)
      /\ DOMAIN p.folded = 1 .. N /\ N \in Nat /\ Len(new) \in Nat /\ DOMAIN new = 1 .. Len(new)
      /\ \A i \in 1 .. N : f.folded[i] = p.folded[i]
      /\ \A i \in 1 .. Len(new) : f.folded[N + i] = new[i]
      /\ ToSet(f.folded) = ToSet(p.folded) \cup ToSet(promoted)
  <2>1. f.folded \in Seq(Transaction) /\ Joined(f.folded, p.folded, new)
    BY <1>4, <1>8, ToSetJoin
  <2>2. DOMAIN f.folded = 1 .. Len(f.folded)
    BY <2>1
  <2>3. ToSet(f.folded) = ToSet(p.folded) \cup ToSet(promoted)
    BY <1>8, <2>1 DEF Joined
  <2>4. DOMAIN p.folded = 1 .. N /\ N \in Nat /\ Len(new) \in Nat /\ DOMAIN new = 1 .. Len(new)
    BY <1>4
  <2>. QED BY <2>1, <2>2, <2>3, <2>4 DEF Joined
<1> HIDE DEF N
<1>10. ASSUME NEW i \in DOMAIN f.folded
       PROVE  \/ i \in 1 .. N /\ f.folded[i] = p.folded[i]
              \/ \E n \in 1 .. Len(new) : i = N + n /\ f.folded[i] = new[n]
  <2>1. CASE i \in 1 .. N
    BY <1>9, <2>1
  <2>2. CASE i \notin 1 .. N
    <3>1. PICK n \in 1 .. Len(new) : i = N + n
      <4>1. i - N \in 1 .. Len(new) /\ i = N + (i - N)
        BY <1>9, <2>2
      <4>. QED BY <4>1
    <3>. QED BY <1>9, <3>1
  <2>. QED BY <2>1, <2>2
<1>11. /\ Len(batch) \in Nat /\ DOMAIN batch = 1 .. Len(batch) /\ m \in Nat
       /\ \A i \in 1 .. Len(batch) :
            /\ batch[i] \in Transaction /\ batch[i].slot \in Nat
            /\ batch[i] \in ToSet(ledger) /\ batch[i].slot >= cursor.slot
       /\ DOMAIN promoted = 1 .. m /\ Len(promoted) = m
       /\ \A i \in 1 .. m : /\ i \in 1 .. Len(batch) /\ promoted[i] = batch[i]
                            /\ promoted[i].slot <= finalized_slot
       /\ Distinct(batch)
  <2>1. /\ \A i \in 1 .. Len(batch) : batch[i] \in ToSet(ledger) /\ batch[i].slot >= cursor.slot
        /\ \A i \in 1 .. m : batch[i].slot <= finalized_slot
        /\ Distinct(batch)
    BY <1>2 DEF Polled
  <2>2. Len(batch) \in Nat /\ DOMAIN batch = 1 .. Len(batch)
        /\ \A i \in 1 .. Len(batch) : batch[i] \in Transaction
    OBVIOUS
  <2>3. /\ DOMAIN promoted = 1 .. m /\ Len(promoted) = m
        /\ \A i \in 1 .. m : i \in 1 .. Len(batch) /\ promoted[i] = batch[i]
    BY <1>7, <2>2 DEF Parted
  <2>4. \A i \in 1 .. Len(batch) : batch[i].slot \in Nat
    BY <2>2, TransactionFields
  <2>5. \A i \in 1 .. Len(batch) :
           /\ batch[i] \in Transaction /\ batch[i].slot \in Nat
           /\ batch[i] \in ToSet(ledger) /\ batch[i].slot >= cursor.slot
    BY <2>1, <2>2, <2>4
  <2>6. \A i \in 1 .. m : /\ i \in 1 .. Len(batch) /\ promoted[i] = batch[i]
                          /\ promoted[i].slot <= finalized_slot
    <3> SUFFICES ASSUME NEW i \in 1 .. m
                 PROVE  /\ i \in 1 .. Len(batch) /\ promoted[i] = batch[i]
                        /\ promoted[i].slot <= finalized_slot
      OBVIOUS
    <3>1. i \in 1 .. Len(batch) /\ promoted[i] = batch[i] /\ batch[i].slot <= finalized_slot
      BY <2>1, <2>3
    <3>. QED BY <3>1
  <2>7. m \in Nat
    BY <2>2
  <2> HIDE DEF promoted
  <2>. QED BY <2>1, <2>2, <2>3, <2>5, <2>6, <2>7
<1>12. ASSUME NEW tx \in ToSet(promoted)
       PROVE  /\ tx \in ToSet(ledger) /\ tx \in Transaction /\ tx.slot \in Nat
              /\ tx.slot >= cursor.slot /\ tx.slot <= final
  <2>1. PICK i \in 1 .. m : promoted[i] = tx
    BY <1>11 DEF ToSet
  <2>2. finalized_slot <= final
    BY <1>4 DEF FetchInv
  <2>3. /\ tx \in ToSet(ledger) /\ tx \in Transaction /\ tx.slot \in Nat
        /\ tx.slot >= cursor.slot /\ tx.slot <= finalized_slot
    <3>1. i \in 1 .. Len(batch) /\ batch[i] = tx /\ tx.slot <= finalized_slot
      BY <1>11, <2>1
    <3>. QED BY <1>11, <3>1
  <2>. QED BY <1>4, <2>2, <2>3
<1>13. ASSUME NEW i \in 1 .. m, NEW j \in 1 .. m, i < j PROVE promoted[i].slot <= promoted[j].slot
  <2>1. SlotOrder(sorted, merged) /\ a + m <= Len(sorted)
        /\ \A k \in 1 .. m : batch[k] = sorted[a + k]
    BY <1>2 DEF Polled
  <2>2. a + i \in DOMAIN sorted /\ a + j \in DOMAIN sorted /\ a + i < a + j
    BY <1>13, <1>11, <2>1
  <2>3. \A x, y \in DOMAIN sorted : x < y => sorted[x].slot <= sorted[y].slot
    <3> SUFFICES ASSUME NEW x \in DOMAIN sorted, NEW y \in DOMAIN sorted, x < y
                 PROVE  sorted[x].slot <= sorted[y].slot
      OBVIOUS
    <3>1. sorted[x].slot \in Nat /\ sorted[y].slot \in Nat
      BY TransactionFields
    <3>2. sorted[x].slot < sorted[y].slot \/ sorted[x].slot = sorted[y].slot
      BY <2>1, Zenon DEF SlotOrder
    <3>. QED BY <3>1, <3>2
  <2>4. sorted[a + i].slot <= sorted[a + j].slot
    BY <2>2, <2>3
  <2>. QED BY <1>11, <2>1, <2>4
<1>14. /\ cursor2 \in Cursor /\ cursor2.slot \in Nat /\ cursor.slot <= cursor2.slot
       /\ promoted = <<>> => cursor2 = cursor
       /\ promoted # <<>> => m \in 1 .. m /\ m \in 1 .. Len(batch) /\ cursor2 = promoted[m]
                             /\ cursor2 \in ToSet(promoted)
       /\ \A tx \in ToSet(promoted) : tx.slot <= cursor2.slot
  <2>1. CASE promoted = <<>>
    <3>1. cursor2 = cursor /\ ToSet(promoted) = {}
      BY <1>6, <2>1 DEF CursorAfter, ToSet
    <3>. QED BY <1>4, <2>1, <3>1
  <2>2. CASE promoted # <<>>
    <3>1. m \in 1 .. m /\ cursor2 = promoted[m]
      BY <1>6, <1>7, <1>11, <2>2 DEF CursorAfter, Last
    <3>2. cursor2 \in ToSet(promoted)
      BY <1>11, <3>1 DEF ToSet
    <3>3. ASSUME NEW tx \in ToSet(promoted) PROVE tx.slot <= cursor2.slot
      <4>1. PICK i \in 1 .. m : promoted[i] = tx
        BY <1>11 DEF ToSet
      <4>2. CASE i = m
        BY <1>12, <3>1, <4>1, <4>2
      <4>3. CASE i # m
        <5>1. i < m
          BY <1>11, <4>3
        <5>. QED BY <1>13, <3>1, <4>1, <5>1
      <4>. QED BY <4>2, <4>3
    <3>. QED BY <1>4, <1>11, <1>12, <2>2, <3>1, <3>2, <3>3, CursorType
  <2>. QED BY <2>1, <2>2
<1>15. ASSUME NEW tx \in ToSet(f.folded)
       PROVE  /\ tx \in ToSet(ledger) /\ tx \in Transaction /\ tx.slot \in Nat
              /\ tx.slot <= final /\ tx.slot <= cursor2.slot
  <2>1. CASE tx \in ToSet(promoted)
    BY <1>12, <1>14, <2>1
  <2>2. CASE tx \in ToSet(p.folded)
    <3>1. PICK i \in DOMAIN p.folded : p.folded[i] = tx
      BY <2>2 DEF ToSet
    <3>2. tx \in ToSet(ledger) /\ tx.slot <= final /\ tx.slot <= cursor.slot
      BY <1>4, <3>1 DEF FoldedTo
    <3>3. tx \in Transaction /\ tx.slot \in Nat
      BY <1>4, <3>2, ToSetIndices, TransactionFields
    <3>. QED BY <1>4, <1>14, <3>2, <3>3
  <2>. QED BY <1>9, <2>1, <2>2
<1>16. ASSUME NEW i \in DOMAIN f.folded, NEW j \in DOMAIN f.folded, i < j
       PROVE  f.folded[i].signature # f.folded[j].signature /\ f.folded[i].slot <= f.folded[j].slot
  <2>0. Distinct(ledger) /\ \A k \in 1 .. Len(new) : new[k] \in ToSet(new)
    BY <1>4, <1>9 DEF LedgerInv, ToSet
  <2>1. CASE j \in 1 .. N
    <3>1. i \in 1 .. N
      BY <1>9, <1>16, <2>1
    <3>2. /\ p.folded[i].signature # p.folded[j].signature
          /\ p.folded[i].slot <= p.folded[j].slot
      <4>1. i \in DOMAIN p.folded /\ j \in DOMAIN p.folded
        BY <1>9, <2>1, <3>1
      <4>. QED BY <1>4, <1>16, <4>1 DEF FoldedTo
    <3>3. f.folded[i] = p.folded[i] /\ f.folded[j] = p.folded[j]
      BY <1>9, <2>1, <3>1
    <3>. QED BY <3>2, <3>3
  <2>2. CASE j \notin 1 .. N
    <3>1. PICK n \in 1 .. Len(new) : j = N + n /\ f.folded[j] = new[n]
      BY <1>10, <2>2
    <3>2. new[n] \in ToSet(promoted) /\ new[n] \notin ToSet(p.folded)
      BY <1>8, <2>0
    <3>3. CASE i \in 1 .. N
      <4>1. f.folded[i] = p.folded[i] /\ p.folded[i] \in ToSet(p.folded)
        BY <1>9, <3>3 DEF ToSet
      <4>2. p.folded[i].slot <= cursor.slot /\ p.folded[i] \in ToSet(ledger)
            /\ p.folded[i].slot \in Nat
        BY <1>4, <1>9, <1>15, <3>3, <4>1 DEF FoldedTo
      <4>3. p.folded[i] # new[n]
        BY <3>2, <4>1
      <4>4. new[n] \in ToSet(ledger) /\ new[n].slot >= cursor.slot /\ new[n].slot \in Nat
        BY <1>12, <3>2
      <4>5. p.folded[i].signature # new[n].signature
        BY <2>0, <4>2, <4>3, <4>4, SameSignature
      <4>6. cursor.slot \in Nat
        BY <1>4
      <4>7. p.folded[i].slot <= new[n].slot
        BY <4>2, <4>4, <4>6
      <4>. QED BY <3>1, <4>1, <4>5, <4>7
    <3>4. CASE i \notin 1 .. N
      <4>1. PICK k \in 1 .. Len(new) : i = N + k /\ f.folded[i] = new[k]
        BY <1>10, <3>4
      <4>2. k < n
        BY <1>9, <1>16, <3>1, <4>1
      <4>3. PICK x \in 1 .. m, y \in 1 .. m : x < y /\ promoted[x] = new[k] /\ promoted[y] = new[n]
        <5>1. Precedes(new[k], new[n], promoted)
          BY <1>8, <1>9, <4>2
        <5>. QED BY <1>11, <5>1 DEF Precedes
      <4>4. promoted[x].slot <= promoted[y].slot
        BY <1>13, <4>3
      <4>5. promoted[x].signature # promoted[y].signature
        <5>1. /\ x \in DOMAIN batch /\ y \in DOMAIN batch /\ x # y /\ Distinct(batch)
              /\ promoted[x] = batch[x] /\ promoted[y] = batch[y]
          BY <1>11, <4>3
        <5>. QED BY <5>1 DEF Distinct
      <4>. QED BY <3>1, <4>1, <4>3, <4>4, <4>5
    <3>. QED BY <3>3, <3>4
  <2>. QED BY <2>1, <2>2
<1>17. ASSUME NEW i \in DOMAIN ledger,
              \/ ledger[i].slot < cursor2.slot
              \/ \E j \in DOMAIN ledger : /\ ledger[j] = cursor2
                                          /\ ledger[i].slot = cursor2.slot
                                          /\ AppliedBefore(ledger, i, j)
       PROVE  ledger[i] \in ToSet(f.folded)
  <2>1. CASE promoted = <<>>
    <3>1. cursor2 = cursor
      BY <1>14, <2>1
    <3>2. ledger[i] \in ToSet(p.folded)
      BY <1>4, <1>17, <3>1 DEF FoldedTo
    <3>. QED BY <1>9, <3>2
  <2>2. CASE promoted # <<>>
    <3>1. m \in 1 .. Len(batch) /\ cursor2 = batch[m] /\ cursor2 \in ToSet(ledger)
      BY <1>11, <1>12, <1>14, <2>2
    <3>2. PICK j \in DOMAIN ledger :
            /\ ledger[j] = batch[m]
            /\ \/ ledger[i].slot < batch[m].slot
               \/ ledger[i].slot = batch[m].slot /\ AppliedBefore(ledger, i, j)
      BY <1>17, <3>1 DEF ToSet
    <3>3. \/ ledger[i] \in ToSet(p.folded)
          \/ \E k \in 1 .. m : ledger[i] = batch[k]
      BY <1>2, <3>1, <3>2, NothingBeforeIsLeftOut
    <3>4. \A k \in 1 .. m : batch[k] \in ToSet(promoted)
      BY <1>11 DEF ToSet
    <3>. QED BY <1>9, <3>3, <3>4
  <2>. QED BY <2>1, <2>2
<1>18. (cursor2 = NoCursor /\ f.folded = <<>>) \/ cursor2 \in ToSet(f.folded)
  <2>1. CASE promoted # <<>>
    BY <1>9, <1>14, <2>1
  <2>2. CASE promoted = <<>>
    <3>1. cursor2 = cursor /\ f = p
      BY <1>4, <1>6, <1>14, <2>2, ApplyNothing
    <3>. QED BY <1>4, <3>1 DEF FoldedTo
  <2>. QED BY <2>1, <2>2
<1>19. FoldedTo(f.folded, cursor2, ledger, final)
  <2>1. \A i \in DOMAIN f.folded : f.folded[i] \in ToSet(f.folded)
    BY DEF ToSet
  <2>. QED BY <1>15, <1>16, <1>17, <1>18, <2>1 DEF FoldedTo

<1>20. FinalizedInv'
  <2>1. f.applied \subseteq SignaturesOf(f.folded)
    <3>1. ASSUME NEW s \in p.applied PROVE s \in SignaturesOf(f.folded)
      <4>1. s \in SignaturesOf(p.folded)
        BY <1>4 DEF FinalizedInv
      <4>. QED BY <1>9, <4>1, SignaturesAreElements
    <3>2. ASSUME NEW s \in SignaturesOf(promoted) PROVE s \in SignaturesOf(f.folded)
      BY <1>9, SignaturesAreElements
    <3>. QED BY <1>7, <3>1, <3>2
  <2>2. ASSUME NEW i \in DOMAIN f.folded, f.folded[i].slot >= cursor2.slot
        PROVE  f.folded[i].signature \in f.applied
    <3>1. f.folded[i] \in ToSet(f.folded)
      BY DEF ToSet
    <3>2. CASE f.folded[i] \in ToSet(promoted)
      BY <1>7, <3>2, SignaturesAreElements
    <3>3. CASE f.folded[i] \in ToSet(p.folded)
      <4>1. PICK n \in DOMAIN p.folded : p.folded[n] = f.folded[i]
        BY <3>3 DEF ToSet
      <4>2. p.folded[n].slot >= cursor.slot
        BY <1>4, <1>14, <1>15, <2>2, <3>1, <4>1
      <4>3. p.folded[n].signature \in p.applied
        BY <1>4, <4>2 DEF FinalizedInv
      <4>. QED BY <1>7, <4>1, <4>3
    <3>. QED BY <1>9, <3>1, <3>2, <3>3
  <2>3. FoldedTo(ingestor'.finalized.folded, ingestor'.cursor, ledger', final')
    BY <1>3, <1>19 DEF f, cursor2
  <2>. QED BY <2>1, <2>2, <2>3 DEF FinalizedInv, f, cursor2
<1>21. /\ rest \in Seq(Transaction) /\ DOMAIN rest = 1 .. Len(batch) - m
       /\ \A i \in 1 .. Len(batch) - m : rest[i] = batch[m + i] /\ m + i \in 1 .. Len(batch)
  <2>1. rest \in Seq(Transaction) /\ Parted(rest, batch, m, Len(batch))
    <3>1. m \in 0 .. Len(batch) /\ Len(batch) \in m .. Len(batch)
      BY <1>11
    <3>. QED BY <3>1, ToSetPart
  <2>. QED BY <2>1 DEF Parted
<1> HIDE DEF rest
<1>22. HeadInv'
  <2>1. Distinct(rest)
    <3> SUFFICES ASSUME NEW i \in 1 .. Len(batch) - m, NEW j \in 1 .. Len(batch) - m,
                        rest[i].signature = rest[j].signature
                 PROVE  i = j
      BY <1>21 DEF Distinct
    <3>1. /\ m + i \in DOMAIN batch /\ m + j \in DOMAIN batch
          /\ batch[m + i].signature = batch[m + j].signature
      BY <1>11, <1>21
    <3>2. m + i = m + j
      BY <1>11, <3>1 DEF Distinct
    <3>. QED BY <1>11, <3>2
  <2>2. ASSUME NEW i \in DOMAIN rest
        PROVE  rest[i] \in ToSet(f.folded) <=> rest[i].signature \in f.applied
    <3>1. /\ rest[i] \in ToSet(ledger) /\ Distinct(ledger)
          /\ rest[i] \in ToSet(p.folded) <=> rest[i].signature \in p.applied
      BY <1>4, <1>7, <1>11, <1>21 DEF LedgerInv
    <3>2. rest[i] \in ToSet(promoted) => rest[i].signature \in SignaturesOf(promoted)
      BY SignaturesAreElements
    <3>3. ASSUME rest[i].signature \in SignaturesOf(promoted) PROVE rest[i] \in ToSet(promoted)
      <4>1. PICK tx \in ToSet(promoted) : tx.signature = rest[i].signature
        BY <3>3, SignaturesAreElements
      <4>2. tx = rest[i]
        BY <1>12, <3>1, <4>1, SameSignature
      <4>. QED BY <4>1, <4>2
    <3>. QED BY <1>7, <1>9, <3>1, <3>2, <3>3
  <2>3. ingestor' = ReplayedOver(ingestor'.finalized, ingestor'.cursor, ingestor'.replay)
    BY <1>5, <1>6, Zenon DEF f, cursor2
  <2>4. /\ Distinct(ingestor'.replay)
        /\ \A i \in DOMAIN ingestor'.replay :
             ingestor'.replay[i] \in ToSet(ingestor'.finalized.folded)
               <=> ingestor'.replay[i].signature \in ingestor'.finalized.applied
    BY <1>6, <2>1, <2>2 DEF f
  <2>. QED BY <2>3, <2>4, HeadOf, Zenon DEF HeadInv
<1>23. LoopInv'
  <2>1. /\ Len(store.folded) <= Len(f.folded)
        /\ \A i \in DOMAIN store.folded : f.folded[i] = store.folded[i]
        /\ ToSet(f.folded) = ToSet(store.folded) \cup ToSet(promoted)
        /\ store.cursor.slot <= cursor2.slot
    <3>1. p.folded = store.folded /\ cursor = store.cursor
      BY <1>4
    <3>2. /\ Len(p.folded) <= Len(f.folded)
          /\ \A i \in DOMAIN p.folded : f.folded[i] = p.folded[i]
          /\ ToSet(f.folded) = ToSet(p.folded) \cup ToSet(promoted)
      BY <1>9 DEF N
    <3>3. cursor.slot <= cursor2.slot
      BY <1>14
    <3> HIDE DEF p, cursor
    <3>. QED BY <3>1, <3>2, <3>3, Zenon
  <2>2. promoted = <<>> => f.folded = store.folded /\ cursor2 = store.cursor
    BY <1>4, <1>6, <1>14, ApplyNothing
  <2>. QED BY <1>3, <2>1, <2>2 DEF LoopInv, f, cursor2, promoted
<1>24. TypeOK'
  <2>1. ingestor' \in Ingestor
    <3>1. ingestor' = ReplayedOver(f, cursor2, rest)
      BY <1>5, <1>6, Zenon
    <3>. QED BY <1>7, <1>14, <1>21, <3>1, ReplayType
  <2>2. <<>> \in Seq(Transaction) /\ 1 \in 1 .. NumAddresses + 1 /\ 0 \in 0 .. MaxSlot
    BY IngestAssumption, ClusterAssumption
  <2>3. settled' \in Seq(Transaction)
    BY <1>7 DEF promoted
  <2>. QED BY <1>3, <2>1, <2>2, <2>3 DEF IInv, TypeOK, Ingestor
<1>25. LedgerInv' /\ StoreInv'
  BY <1>3 DEF IInv, LedgerInv, StoreInv
<1>. QED BY <1>3, <1>20, <1>22, <1>23, <1>24, <1>25 DEF IInv


-----------------------------------------------------------------------------
(* The invariant, and what it says. *)

LEMMA StepKeeps ==
    ASSUME IInv, Process \/ Crash
    PROVE  IInv'
<1>1. CASE open
  BY <1>1, OpenKeeps
<1>2. CASE read_finality
  BY <1>2, ReadFinalityKeeps
<1>3. CASE fetch_address
  BY <1>3, FetchKeeps
<1>4. CASE poll
  BY <1>4, PollKeeps
<1>5. CASE commit
  BY <1>5, CommitKeeps
<1>6. CASE fail
  <2>1. crashes' \in 0 .. MaxCrashes
    BY <1>6 DEF fail, IInv, TypeOK
  <2>. QED BY <1>6, <2>1, EndKeeps, Zenon DEF fail
<1>7. CASE Crash
  <2>1. crashes' \in 0 .. MaxCrashes
    BY <1>7, IngestAssumption, ClusterAssumption DEF Crash, IInv, TypeOK
  <2>. QED BY <1>7, <2>1, EndKeeps, Zenon DEF Crash
<1>. QED BY <1>1, <1>2, <1>3, <1>4, <1>5, <1>6, <1>7 DEF Process

LEMMA StutterKeeps ==
    ASSUME IInv, UNCHANGED vars
    PROVE  IInv'
<1>1. UNCHANGED <<ledger, final, pruned, rollbacks, pc, next, finalized_slot, merged, settled,
                  ingestor, store, crashes>>
  BY DEF vars
<1>2. TypeOK'
  BY <1>1 DEF IInv, TypeOK
<1>3. LedgerInv' /\ StoreInv'
  BY <1>1 DEF IInv, LedgerInv, StoreInv
<1>4. FinalizedInv' /\ HeadInv'
  BY <1>1 DEF IInv, FinalizedInv, HeadInv
<1>5. LoopInv'
  BY <1>1 DEF IInv, LoopInv
<1>6. (pc = "fetching" => FetchInv)'
  BY <1>1 DEF IInv, FetchInv
<1>. QED BY <1>2, <1>3, <1>4, <1>5, <1>6 DEF IInv

LEMMA NextKeeps == IInv /\ [Next]_vars => IInv'
<1> SUFFICES ASSUME IInv, [Next]_vars PROVE IInv'
  OBVIOUS
<1>1. CASE Process \/ Crash
  BY <1>1, StepKeeps
<1>2. CASE \E block \in Blocks, slot \in 1 .. MaxSlot : Land(block, slot)
  BY <1>2, LandKeeps
<1>3. CASE \E kept \in 0 .. Len(ledger) - 1 : Rollback(kept)
  BY <1>3, RollbackKeeps
<1>4. CASE \E slot \in 1 .. MaxSlot : Finalize(slot)
  BY <1>4, FinalizeKeeps
<1>5. CASE \E n \in DOMAIN ledger : Prune(n)
  BY <1>5, PruneKeeps
<1>6. CASE UNCHANGED vars
  BY <1>6, StutterKeeps
<1>. QED BY <1>1, <1>2, <1>3, <1>4, <1>5, <1>6 DEF Next

\* The inductive invariant holds in every reachable state.
THEOREM IngestInvariant == Spec => []IInv
<1>1. Init => IInv
  BY InvariantInitially
<1>2. IInv /\ [Next]_vars => IInv'
  BY NextKeeps
<1>. QED BY <1>1, <1>2, PTL DEF Spec

\* Memory, database and cluster keep their types: an address asked for is one that is
\* followed, and the cluster's index never forgets more than there is.
THEOREM IngestTypeCorrect == Spec => []TypeOK
<1>1. IInv => TypeOK
  BY DEF IInv
<1>. QED BY <1>1, IngestInvariant, PTL

LEMMA FoldedToIsSettled ==
    ASSUME TypeOK, NEW folded \in Seq(Transaction), NEW cursor \in Cursor,
           FoldedTo(folded, cursor, ledger, final)
    PROVE  Settled(folded, cursor)
<1>1. /\ ledger \in Seq(Transaction) /\ final \in Nat /\ cursor.slot \in Nat
      /\ DOMAIN ledger = 1 .. Len(ledger)
  BY CursorType DEF TypeOK
<1>2. ToSet(folded) \subseteq InSlots(ledger, 1, final)
  <2> SUFFICES ASSUME NEW i \in DOMAIN folded PROVE folded[i] \in InSlots(ledger, 1, final)
    BY DEF ToSet
  <2>1. folded[i] \in ToSet(ledger) /\ folded[i].slot <= final
    BY DEF FoldedTo
  <2>2. folded[i] \in Transaction
    OBVIOUS
  <2>3. folded[i].slot \in 1 .. MaxSlot
    BY <2>2, TransactionFields
  <2>. QED BY <2>1, <2>3 DEF InSlots
<1>3. \A i, j \in DOMAIN folded :
        i < j => folded[i].signature # folded[j].signature /\ folded[i].slot <= folded[j].slot
  BY DEF FoldedTo
<1>4. InSlots(ledger, 1, cursor.slot - 1) \subseteq ToSet(folded)
  <2> SUFFICES ASSUME NEW i \in DOMAIN ledger, ledger[i].slot <= cursor.slot - 1
               PROVE  ledger[i] \in ToSet(folded)
    BY DEF InSlots, ToSet
  <2>1. ledger[i].slot \in Nat
    BY <1>1, TransactionFields
  <2>2. ledger[i].slot < cursor.slot
    BY <1>1, <2>1
  <2>. QED BY <2>2 DEF FoldedTo
<1>5. ASSUME folded # <<>> PROVE cursor \in ToSet(folded) /\ cursor.slot = Last(folded).slot
  <2>1. cursor \in ToSet(folded)
    BY <1>5 DEF FoldedTo
  <2>2. /\ Len(folded) \in Nat /\ DOMAIN folded = 1 .. Len(folded)
        /\ \A i \in 1 .. Len(folded) : folded[i] \in Transaction
    OBVIOUS
  <2>3. PICK i \in 1 .. Len(folded) : folded[i] = cursor
    BY <2>1, <2>2 DEF ToSet
  <2>4. Len(folded) \in 1 .. Len(folded)
    BY <2>2, <2>3
  <2>5. folded[Len(folded)].slot \in Nat /\ folded[Len(folded)].slot <= cursor.slot
    BY <2>2, <2>4, TransactionFields DEF FoldedTo
  <2>6. cursor.slot <= folded[Len(folded)].slot
    <3>1. CASE i = Len(folded)
      BY <1>1, <2>3, <3>1
    <3>2. CASE i # Len(folded)
      <4>1. i < Len(folded)
        <5>1. Len(folded) \in Nat /\ i \in Nat /\ i <= Len(folded)
          OBVIOUS
        <5>. QED BY <3>2, <5>1
      <4>. QED BY <1>3, <2>2, <2>3, <2>4, <4>1
    <3>. QED BY <3>1, <3>2
  <2>7. Last(folded) = folded[Len(folded)]
    BY DEF Last
  <2>. QED BY <1>1, <2>1, <2>5, <2>6, <2>7
<1>. QED BY <1>2, <1>3, <1>4, <1>5 DEF Settled

\* Neither the memory nor the database misses, repeats or invents a transaction that
\* the cluster finalised, however polls, blocks, rollbacks, crashes, restarts and
\* commits interleave, whatever the limit of a batch and however many addresses.
THEOREM FinalizedExactlyAlways == Spec => []FinalizedExactly
<1>1. IInv => FinalizedExactly
  <2> SUFFICES ASSUME IInv PROVE FinalizedExactly
    OBVIOUS
  <2>1. /\ TypeOK /\ store.folded \in Seq(Transaction) /\ store.cursor \in Cursor
        /\ ingestor.finalized.folded \in Seq(Transaction) /\ ingestor.cursor \in Cursor
    BY IngestorType DEF IInv, TypeOK
  <2>2. Settled(store.folded, store.cursor)
    BY <2>1, FoldedToIsSettled DEF IInv, StoreInv
  <2>3. Settled(ingestor.finalized.folded, ingestor.cursor)
    BY <2>1, FoldedToIsSettled DEF IInv, FinalizedInv
  <2>. QED BY <2>2, <2>3 DEF FinalizedExactly, IInv, StoreInv
<1>. QED BY <1>1, IngestInvariant, PTL

\* What the API serves is the finalised projection with what is pending over it, and
\* pending names it, also after a rollback has taken back part of it.
THEOREM HeadAlwaysFollows == Spec => []HeadIsFinalizedPlusPending
<1>1. IInv => HeadIsFinalizedPlusPending
  <2> SUFFICES ASSUME IInv PROVE HeadIsFinalizedPlusPending
    OBVIOUS
  <2> DEFINE p == ingestor.finalized
             txs == ingestor.replay
             wanted == ToSet(txs) \ ToSet(p.folded)
  <2>1. p \in Projection /\ txs \in Seq(Transaction)
    BY IngestorType DEF IInv
  <2>2. /\ ingestor.head = ApplyAll(p, txs) /\ ingestor.pending = names(txs)
        /\ Distinct(txs)
        /\ \A n \in DOMAIN txs : txs[n] \in ToSet(p.folded) <=> txs[n].signature \in p.applied
    BY Zenon DEF IInv, HeadInv, HeadOver
  <2>3. \A i \in DOMAIN txs : txs[i] \in wanted <=> txs[i].signature \notin p.applied
    BY <2>2 DEF ToSet
  <2>4. ApplyAll(p, txs).folded = p.folded \o Select(txs, wanted)
    BY <2>1, <2>2, <2>3, ApplyFolds
  <2>. QED BY <2>2, <2>4, Zenon DEF HeadIsFinalizedPlusPending
<1>. QED BY <1>1, IngestInvariant, PTL

LEMMA PrefixOf ==
    ASSUME NEW T, NEW s \in Seq(T), NEW t \in Seq(T),
           Len(s) <= Len(t), \A i \in DOMAIN s : t[i] = s[i]
    PROVE  IsPrefix(s, t)
<1>1. SubSeq(t, 1, Len(s)) = s
  OBVIOUS
<1>. QED BY <1>1 DEF IsPrefix

LEMMA OnlyExtends ==
    ASSUME IInv, [Next]_vars
    PROVE  /\ IsPrefix(store.folded, store'.folded)
           /\ store.cursor.slot <= store'.cursor.slot
<1>1. store.folded \in Seq(Transaction) /\ store.cursor.slot \in Nat
  BY CursorType DEF IInv, TypeOK
<1>2. CASE store' = store
  <2>1. IsPrefix(store.folded, store.folded)
    BY <1>1, PrefixOf
  <2>. QED BY <1>1, <1>2, <2>1
<1>3. CASE commit
  <2>1. CASE settled = <<>>
    BY <1>2, <1>3, <2>1 DEF commit
  <2>2. CASE settled # <<>>
    <3>1. /\ pc = "committing"
          /\ store'.folded = ingestor.finalized.folded /\ store'.cursor = ingestor.cursor
      BY <1>3, <2>2 DEF commit
    <3>2. /\ Len(store.folded) <= Len(ingestor.finalized.folded)
          /\ \A i \in DOMAIN store.folded : ingestor.finalized.folded[i] = store.folded[i]
          /\ store.cursor.slot <= ingestor.cursor.slot
          /\ ingestor.finalized.folded \in Seq(Transaction)
      BY <3>1, IngestorType DEF IInv, LoopInv
    <3>3. IsPrefix(store.folded, ingestor.finalized.folded)
      BY <1>1, <3>2, PrefixOf
    <3>. QED BY <3>1, <3>2, <3>3
  <2>. QED BY <2>1, <2>2
<1>4. Next => store' = store \/ commit
  BY DEF Next, Process, open, read_finality, fetch_address, poll, fail, Crash,
         Land, Rollback, Finalize, Prune
<1>. QED BY <1>2, <1>3, <1>4 DEF vars

\* No stored row is ever taken back: what is committed extends what was, across
\* rollbacks, crashes and restarts.
THEOREM StoreAlwaysExtends == Spec => StoreOnlyExtends
<1>1. IInv /\ [Next]_vars =>
        [/\ IsPrefix(store.folded, store'.folded)
         /\ store.cursor.slot <= store'.cursor.slot]_vars
  BY OnlyExtends
<1>. QED BY <1>1, IngestInvariant, PTL DEF Spec, StoreOnlyExtends
-----------------------------------------------------------------------------
(***************************************************************************)
(* Backfill.                                                               *)
(***************************************************************************)

\* The order of the pages is that of the chain when no slot holds transactions
\* recorded first under two programs: BackfillGap shows what happens to one that does.
NoSlotIsShared ==
    \A block \in SlotContents : \A i, j \in DOMAIN block :
        FirstProgram(block[i]) = FirstProgram(block[j])

\* What is still below a bound: nothing up to it has the signature of the bound.
Below(list, x, signature) == \A z \in 1 .. x : list[z].signature # signature

\* The order newest_first gives two positions.
Ahead(txs, p, q) == txs[p].slot > txs[q].slot \/ (txs[p].slot = txs[q].slot /\ p < q)

\* Whatever the answers hold of the signatures S comes before whatever is older than
\* the x-th of the ledger.
AllAhead(list, txs, S, x) ==
    \A p \in DOMAIN txs : txs[p].signature \in S =>
       /\ txs[p].slot >= list[x].slot
       /\ \A q \in DOMAIN txs, y \in 1 .. x - 1 : txs[q] = list[y] => Ahead(txs, p, q)

\* The answers cannot step over the x-th: it is among them, or they hold a page of
\* what comes before anything older.
Screened(list, txs, x) ==
    \E S \in SUBSET SignaturesOf(txs) :
       /\ list[x].signature \in S \/ Cardinality(S) = Limit
       /\ AllAhead(list, txs, S, x)

BackfillTypeOK ==
    /\ ledger \in Seq(Transaction) /\ final \in 0 .. MaxSlot
    /\ pc \in {"down", "stepping", "fetching"}
    /\ next \in 1 .. NumAddresses + 1 /\ finalized_slot \in 0 .. MaxSlot
    /\ merged \in Seq(Transaction)
    /\ descent \in [slot : 0 .. MaxSlot, signature : Signatures \cup {NoSignature},
                    complete : BOOLEAN]

\* What was yielded is history, and what is owed was.
RowsInv ==
    /\ rows \subseteq Succeeded(Finalized)
    /\ owed \subseteq Succeeded(Finalized)
    /\ pc = "fetching" => finalized_slot <= final
    /\ pc # "fetching" => merged = <<>> /\ next = 1

BInv == BackfillTypeOK /\ ChainOrder(ledger) /\ RowsInv

SlotsUnshared(list) ==
    \A i, j \in DOMAIN list : list[i].slot = list[j].slot => FirstAddress(list[i]) = FirstAddress(list[j])

\* What is owed and not yielded is below the bound.
OwedInv ==
    /\ pc = "down" => owed = {}
    /\ \A tx \in owed \ rows :
         /\ ~descent.complete
         /\ \E x \in DOMAIN ledger : ledger[x] = tx /\ Below(ledger, x, descent.signature)

\* What has been asked so far.
PageInv ==
    /\ ~descent.complete
    /\ \A tx \in owed : tx.slot <= finalized_slot
    /\ Distinct(merged)
    /\ \A i \in DOMAIN merged :
         /\ FirstAddress(merged[i]) < next
         /\ merged[i].slot <= finalized_slot => merged[i] \in ToSet(ledger)
    /\ \A x \in DOMAIN ledger :
         ledger[x].slot <= finalized_slot /\ ledger[x].signature \in SignaturesOf(merged)
            => ledger[x] \in ToSet(merged)
    /\ \A x \in DOMAIN ledger :
         (/\ ledger[x].slot <= finalized_slot
          /\ Below(ledger, x, descent.signature)
          /\ FirstAddress(ledger[x]) < next)
            => Screened(ledger, merged, x)

DescentInv == SlotsUnshared(ledger) /\ OwedInv /\ (pc = "fetching" => PageInv)

LEMMA BackfillTypes ==
    ASSUME BInv
    PROVE  /\ ledger \in Seq(Transaction) /\ merged \in Seq(Transaction)
           /\ Len(ledger) \in Nat /\ DOMAIN ledger = 1 .. Len(ledger)
           /\ Len(merged) \in Nat /\ DOMAIN merged = 1 .. Len(merged)
           /\ final \in Nat /\ finalized_slot \in Nat /\ next \in Nat
           /\ \A i \in 1 .. Len(ledger) : ledger[i] \in Transaction /\ ledger[i].slot \in Nat
           /\ \A i \in 1 .. Len(merged) : merged[i] \in Transaction /\ merged[i].slot \in Nat
<1>1. /\ ledger \in Seq(Transaction) /\ merged \in Seq(Transaction)
      /\ final \in Nat /\ finalized_slot \in Nat /\ next \in Nat
  BY ClusterAssumption DEF BInv, BackfillTypeOK
<1>2. /\ Len(ledger) \in Nat /\ DOMAIN ledger = 1 .. Len(ledger)
      /\ Len(merged) \in Nat /\ DOMAIN merged = 1 .. Len(merged)
      /\ \A i \in 1 .. Len(ledger) : ledger[i] \in Transaction
      /\ \A i \in 1 .. Len(merged) : merged[i] \in Transaction
  BY <1>1
<1>. QED BY <1>1, <1>2, TransactionFields

-----------------------------------------------------------------------------
(* One answer. *)

\* What is older than a signature, newest first.
LEMMA BeforeContract ==
    ASSUME ledger \in Seq(Transaction), NEW signature, NEW older, older = Before(signature)
    PROVE  \E n \in 0 .. Len(ledger) :
             /\ older \in Seq(Transaction) /\ Len(older) = n
             /\ \A i \in 1 .. n : older[i] = ledger[n - i + 1] /\ n - i + 1 \in 1 .. n
             /\ \A x \in 1 .. Len(ledger) : x <= n <=> Below(ledger, x, signature)
<1> DEFINE I == {i \in 1 .. Len(ledger) : ledger[i].signature = signature}
           at == IF I # {} THEN Min(I) ELSE 0
           n == IF at = 0 THEN Len(ledger) ELSE at - 1
<1>1. older = Reverse(SubSeq(ledger, 1, n))
  BY DEF Before, SelectInSeq
<1>2. I \in SUBSET Nat /\ Len(ledger) \in Nat
  OBVIOUS
<1>3. I # {} => Min(I) \in I /\ \A i \in I : Min(I) <= i
  <2> HIDE DEF I
  <2>. QED BY <1>2, MinOfNat
<1>4. n \in 0 .. Len(ledger)
  BY <1>2, <1>3
<1>5. ASSUME NEW x \in 1 .. Len(ledger) PROVE x <= n <=> Below(ledger, x, signature)
  <2>1. CASE I = {}
    <3>1. n = Len(ledger)
      BY <2>1
    <3>2. \A z \in 1 .. x : z \in 1 .. Len(ledger)
      BY <1>2
    <3>. QED BY <1>2, <2>1, <3>1, <3>2 DEF Below
  <2>2. CASE I # {}
    <3>1. /\ Min(I) \in 1 .. Len(ledger) /\ ledger[Min(I)].signature = signature
          /\ n = Min(I) - 1
      BY <1>2, <1>3, <2>2
    <3>2. \A z \in 1 .. Len(ledger) : ledger[z].signature = signature => Min(I) <= z
      BY <1>3, <2>2
    <3> DEFINE least == Min(I)
    <3> HIDE DEF least, I, n
    <3>3. n = least - 1 /\ least \in 1 .. Len(ledger) /\ ledger[least].signature = signature
          /\ \A z \in 1 .. Len(ledger) : ledger[z].signature = signature => least <= z
      BY <3>1, <3>2 DEF least
    <3>4. CASE x <= n
      BY <1>2, <3>3, <3>4 DEF Below
    <3>5. CASE x > n
      <4>1. least \in 1 .. x
        BY <1>2, <3>3, <3>5
      <4>. QED BY <1>2, <3>3, <3>5, <4>1 DEF Below
    <3>. QED BY <1>2, <3>3, <3>4, <3>5
  <2>. QED BY <2>1, <2>2
<1> HIDE DEF n
<1>6. /\ older \in Seq(Transaction) /\ Len(older) = n
      /\ \A i \in 1 .. n : older[i] = ledger[n - i + 1] /\ n - i + 1 \in 1 .. n
  <2> DEFINE upto == SubSeq(ledger, 1, n)
  <2>1. /\ upto \in Seq(Transaction) /\ Len(upto) = n
        /\ \A i \in 1 .. n : upto[i] = ledger[i] /\ upto[i] \in Transaction
    BY <1>2, <1>4
  <2> HIDE DEF upto
  <2>2. older = [i \in 1 .. n |-> upto[n - i + 1]]
    BY <1>1, <2>1 DEF Reverse, upto
  <2>3. \A i \in 1 .. n : n - i + 1 \in 1 .. n
    BY <1>2, <1>4
  <2>. QED BY <1>4, <2>1, <2>2, <2>3
<1>. QED BY <1>4, <1>5, <1>6

\* The newest n of a list.
IsNewest(u, s, n, m) ==
    /\ m <= n /\ (m < Len(s) => m = n)
    /\ Len(u) = m /\ \A i \in 1 .. m : u[i] = s[i] /\ i \in 1 .. Len(s)

LEMMA NewestContract ==
    ASSUME NEW T, NEW s \in Seq(T), NEW n \in Nat, NEW u, u = Newest(s, n)
    PROVE  u \in Seq(T) /\ \E m \in 0 .. Len(s) : IsNewest(u, s, n, m)
<1> DEFINE m == IF Len(s) < n THEN Len(s) ELSE n
<1>1. u = SubSeq(s, 1, m)
  BY DEF Newest
<1>2. Len(s) \in Nat /\ m \in 0 .. Len(s) /\ m <= n /\ (m < Len(s) => m = n)
  OBVIOUS
<1> HIDE DEF m
<1>3. u \in Seq(T) /\ Len(u) = m /\ \A i \in 1 .. m : u[i] = s[i] /\ i \in 1 .. Len(s)
  BY <1>1, <1>2
<1>. QED BY <1>2, <1>3 DEF IsNewest

\* What an address answers: transactions of the ledger that touch it, newest first;
\* and one below the bound is among them, or the answer is full of newer ones.
IsAnswer(answer, address, signature) ==
    /\ answer \in Seq(Transaction)
    /\ \A i \in 1 .. Len(answer) :
         address \in Touches[answer[i].signature] /\ answer[i] \in ToSet(ledger)
    /\ \A i, j \in 1 .. Len(answer) : i < j =>
         \E a, b \in 1 .. Len(ledger) : a > b /\ ledger[a] = answer[i] /\ ledger[b] = answer[j]
    /\ \A x \in 1 .. Len(ledger) :
         Below(ledger, x, signature) /\ address \in Touches[ledger[x].signature]
           => \/ ledger[x] \in ToSet(answer)
              \/ /\ Len(answer) = Limit
                 /\ \A i \in 1 .. Len(answer) :
                      \E w \in 1 .. Len(ledger) : w > x /\ ledger[w] = answer[i]

LEMMA AnswerType ==
    ASSUME ledger \in Seq(Transaction), NEW address, NEW signature
    PROVE  signatures_before(address, signature) \in Seq(Transaction)
<1> DEFINE older == Before(signature)
           sel == Select(older, {tx \in Transaction : address \in Touches[tx.signature]})
           K == IF Limit < Page THEN Limit ELSE Page
           answer == signatures_before(address, signature)
<1>1. older \in Seq(Transaction)
  BY BeforeContract
<1> HIDE DEF older
<1>2. sel \in Seq(Transaction) /\ K \in Nat
  BY <1>1, SelectContract, ClusterAssumption, BackfillAssumption
<1>3. answer = Newest(sel, K)
  BY DEF signatures_before, older
<1> HIDE DEF sel, K, answer
<1>4. answer \in Seq(Transaction)
  BY <1>2, <1>3, NewestContract
<1>. QED BY <1>4 DEF answer

LEMMA AnswerContract ==
    ASSUME ledger \in Seq(Transaction), Distinct(ledger), Limit <= Page,
           NEW address, NEW signature, NEW answer, answer = signatures_before(address, signature)
    PROVE  IsAnswer(answer, address, signature)
<1> DEFINE older == Before(signature)
           wanted == {tx \in Transaction : address \in Touches[tx.signature]}
           sel == Select(older, wanted)
           K == IF Limit < Page THEN Limit ELSE Page
<1>1. K = Limit /\ K \in Nat
  BY ClusterAssumption, BackfillAssumption
<1>2. answer = Newest(sel, K)
  BY DEF signatures_before
<1>3. PICK n \in 0 .. Len(ledger) :
        /\ older \in Seq(Transaction) /\ Len(older) = n
        /\ \A i \in 1 .. n : older[i] = ledger[n - i + 1] /\ n - i + 1 \in 1 .. n
        /\ \A x \in 1 .. Len(ledger) : x <= n <=> Below(ledger, x, signature)
  BY BeforeContract
<1> HIDE DEF older, K
<1>4. /\ sel \in Seq(Transaction) /\ ToSet(sel) = ToSet(older) \cap wanted
      /\ \A i, j \in DOMAIN sel : i < j => Precedes(sel[i], sel[j], older)
  BY <1>3, SelectContract
<1> HIDE DEF sel
<1>5. PICK m \in 0 .. Len(sel) :
        /\ m <= K /\ (m < Len(sel) => m = K)
        /\ answer \in Seq(Transaction) /\ Len(answer) = m
        /\ \A i \in 1 .. m : answer[i] = sel[i] /\ i \in 1 .. Len(sel)
  <2>1. K \in Nat /\ sel \in Seq(Transaction) /\ answer = Newest(sel, K)
    BY <1>1, <1>2, <1>4
  <2>2. answer \in Seq(Transaction) /\ \E m \in 0 .. Len(sel) : IsNewest(answer, sel, K, m)
    BY <2>1, NewestContract
  <2>. QED BY <2>2 DEF IsNewest
<1>6. /\ Len(ledger) \in Nat /\ DOMAIN ledger = 1 .. Len(ledger) /\ n \in Nat /\ m \in Nat
      /\ DOMAIN older = 1 .. n /\ DOMAIN sel = 1 .. Len(sel) /\ Len(sel) \in Nat
      /\ \A i \in 1 .. n : i \in 1 .. Len(ledger)
  BY <1>3, <1>4, <1>5
<1>7. \A i \in 1 .. n : older[i] \in ToSet(ledger)
  <2> SUFFICES ASSUME NEW i \in 1 .. n PROVE older[i] \in ToSet(ledger)
    OBVIOUS
  <2>1. older[i] = ledger[n - i + 1] /\ n - i + 1 \in DOMAIN ledger
    BY <1>3, <1>6
  <2>. QED BY <2>1 DEF ToSet
<1>8. ASSUME NEW x, NEW y, Precedes(x, y, older)
      PROVE  \E a, b \in 1 .. Len(ledger) : a > b /\ ledger[a] = x /\ ledger[b] = y
  <2>1. PICK p \in 1 .. n, q \in 1 .. n : p < q /\ older[p] = x /\ older[q] = y
    BY <1>6, <1>8 DEF Precedes
  <2>2. /\ n - p + 1 \in 1 .. Len(ledger) /\ n - q + 1 \in 1 .. Len(ledger)
        /\ ledger[n - p + 1] = x /\ ledger[n - q + 1] = y /\ n - p + 1 > n - q + 1
    BY <1>3, <1>6, <2>1
  <2>. QED BY <2>2
<1>9. ASSUME NEW i \in 1 .. Len(answer)
      PROVE  address \in Touches[answer[i].signature] /\ answer[i] \in ToSet(ledger)
  <2>1. answer[i] \in ToSet(sel)
    BY <1>5, <1>6 DEF ToSet
  <2>2. answer[i] \in wanted /\ answer[i] \in ToSet(older)
    BY <1>4, <2>1
  <2>3. answer[i] \in ToSet(ledger)
    BY <1>6, <1>7, <2>2 DEF ToSet
  <2>. QED BY <2>2, <2>3
<1>10. ASSUME NEW i \in 1 .. Len(answer), NEW j \in 1 .. Len(answer), i < j
       PROVE  \E a, b \in 1 .. Len(ledger) :
                a > b /\ ledger[a] = answer[i] /\ ledger[b] = answer[j]
  <2>1. Precedes(answer[i], answer[j], older)
    BY <1>4, <1>5, <1>6, <1>10
  <2>. QED BY <1>8, <2>1
<1>11. ASSUME NEW x \in 1 .. Len(ledger),
              Below(ledger, x, signature), address \in Touches[ledger[x].signature],
              ledger[x] \notin ToSet(answer)
       PROVE  /\ Len(answer) = Limit
              /\ \A i \in 1 .. Len(answer) :
                   \E w \in 1 .. Len(ledger) : w > x /\ ledger[w] = answer[i]
  <2>1. ledger[x] \in ToSet(older)
    <3>1. x <= n /\ n - x + 1 \in 1 .. n
      BY <1>3, <1>6, <1>11
    <3>2. older[n - x + 1] = ledger[n - (n - x + 1) + 1] /\ n - (n - x + 1) + 1 = x
      BY <1>3, <1>6, <3>1
    <3>. QED BY <1>6, <3>1, <3>2 DEF ToSet
  <2>2. PICK k \in 1 .. Len(sel) : sel[k] = ledger[x]
    <3>1. ledger[x] \in wanted
      BY <1>11
    <3>2. ledger[x] \in ToSet(sel)
      BY <1>4, <2>1, <3>1
    <3>. QED BY <1>6, <3>2 DEF ToSet
  <2>3. k > m
    <3>1. ~ (k \in 1 .. m)
      <4> SUFFICES ASSUME k \in 1 .. m PROVE FALSE
        OBVIOUS
      <4>1. answer[k] = ledger[x] /\ k \in DOMAIN answer
        BY <1>5, <2>2
      <4>. QED BY <1>11, <4>1 DEF ToSet
    <3>. QED BY <1>6, <3>1
  <2>4. Len(answer) = Limit
    BY <1>1, <1>5, <1>6, <2>3
  <2>5. ASSUME NEW i \in 1 .. Len(answer)
        PROVE  \E w \in 1 .. Len(ledger) : w > x /\ ledger[w] = answer[i]
    <3>1. Precedes(answer[i], ledger[x], older)
      <4>1. i \in DOMAIN sel /\ k \in DOMAIN sel /\ i < k /\ answer[i] = sel[i]
        BY <1>5, <1>6, <2>3
      <4>. QED BY <1>4, <2>2, <4>1
    <3>2. PICK a \in 1 .. Len(ledger), b \in 1 .. Len(ledger) :
            a > b /\ ledger[a] = answer[i] /\ ledger[b] = ledger[x]
      BY <1>8, <3>1
    <3>3. b = x
      BY <1>6, <3>2 DEF Distinct
    <3>. QED BY <3>2, <3>3
  <2>. QED BY <2>4, <2>5
<1>12. answer \in Seq(Transaction)
  BY <1>5
<1>. QED BY <1>9, <1>10, <1>11, <1>12 DEF IsAnswer

\* What of it is new.
LEMMA UnlistedContract ==
    ASSUME NEW answer \in Seq(Transaction), NEW new, new = unlisted(answer)
    PROVE  /\ new \in Seq(Transaction)
           /\ \A tx : tx \in ToSet(new)
                        <=> tx \in ToSet(answer) /\ tx.signature \notin SignaturesOf(merged)
           /\ \A i, j \in DOMAIN new : i < j => Precedes(new[i], new[j], answer)
<1> DEFINE fresh == {tx \in ToSet(answer) : tx.signature \notin SignaturesOf(merged)}
<1>1. new = Select(answer, fresh)
  BY DEF unlisted
<1> HIDE DEF fresh
<1>2. /\ new \in Seq(Transaction) /\ ToSet(new) = ToSet(answer) \cap fresh
      /\ \A i, j \in DOMAIN new : i < j => Precedes(new[i], new[j], answer)
  BY <1>1, SelectContract
<1>. QED BY <1>2 DEF fresh

-----------------------------------------------------------------------------
(* One page. *)

\* The order of the pages.
NewestFirst(s, list) ==
    \A i, j \in DOMAIN s : i < j =>
       \/ s[i].slot > s[j].slot
       \/ s[i].slot = s[j].slot /\ Precedes(s[i], s[j], list)

LEMMA NewestFirstContract ==
    ASSUME NEW txs \in Seq(Transaction), NEW sorted, sorted = newest_first(txs)
    PROVE  sorted \in Seq(Transaction) /\ ToSet(sorted) = ToSet(txs) /\ NewestFirst(sorted, txs)
<1>1. MaxSlot \in Nat
  BY ClusterAssumption
<1>2. /\ FromTheTip \in Seq(SUBSET Transaction) /\ Len(FromTheTip) = MaxSlot
      /\ \A n \in 1 .. MaxSlot : FromTheTip[n] = {tx \in Transaction : tx.slot = MaxSlot + 1 - n}
  BY <1>1 DEF FromTheTip
<1>3. /\ sorted \in Seq(Transaction)
      /\ \A x : x \in ToSet(sorted) <=>
                  x \in ToSet(txs) /\ \E n \in 1 .. Len(FromTheTip) : x \in FromTheTip[n]
      /\ \A i, j \in DOMAIN sorted : i < j => InOrder(sorted[i], sorted[j], txs, FromTheTip)
  BY <1>2, SortByContract DEF newest_first
<1>4. ToSet(sorted) = ToSet(txs)
  <2> SUFFICES ASSUME NEW x \in ToSet(txs) PROVE \E n \in 1 .. MaxSlot : x \in FromTheTip[n]
    BY <1>2, <1>3
  <2>1. x \in Transaction /\ x.slot \in 1 .. MaxSlot
    BY SlotsOf
  <2>2. MaxSlot + 1 - x.slot \in 1 .. MaxSlot /\ MaxSlot + 1 - (MaxSlot + 1 - x.slot) = x.slot
    BY <1>1, <2>1
  <2>. QED BY <1>2, <2>1, <2>2
<1>5. ASSUME NEW i \in DOMAIN sorted, NEW j \in DOMAIN sorted, i < j
      PROVE  \/ sorted[i].slot > sorted[j].slot
             \/ sorted[i].slot = sorted[j].slot /\ Precedes(sorted[i], sorted[j], txs)
  <2>1. InOrder(sorted[i], sorted[j], txs, FromTheTip)
    BY <1>3, <1>5
  <2>2. PICK a, b \in 1 .. MaxSlot :
           /\ sorted[i] \in FromTheTip[a] /\ sorted[j] \in FromTheTip[b]
           /\ a < b \/ (a = b /\ Precedes(sorted[i], sorted[j], txs))
    BY <1>2, <2>1 DEF InOrder
  <2>3. sorted[i].slot = MaxSlot + 1 - a /\ sorted[j].slot = MaxSlot + 1 - b
    BY <1>2, <2>2
  <2>4. MaxSlot + 1 - a > MaxSlot + 1 - b \/ a = b
    BY <1>1, <2>2
  <2>. QED BY <2>2, <2>3, <2>4
<1>. QED BY <1>3, <1>4, <1>5 DEF NewestFirst

\* A page: no more than the limit, in order, and ahead of what it leaves out.
LEMMA PageContract ==
    ASSUME merged \in Seq(Transaction)
    PROVE  /\ page \in Seq(Transaction) /\ Len(page) \in Nat /\ DOMAIN page = 1 .. Len(page)
           /\ Len(page) <= Limit
           /\ page = <<>> => merged = <<>>
           /\ \A i \in 1 .. Len(page) : page[i] \in ToSet(merged) /\ page[i] \in Transaction
           /\ \A tx \in ToSet(merged) :
                \/ \E k \in 1 .. Len(page) : page[k] = tx
                \/ \A k \in 1 .. Len(page) :
                     \/ page[k].slot > tx.slot
                     \/ page[k].slot = tx.slot /\ Precedes(page[k], tx, merged)
<1> DEFINE sorted == newest_first(merged)
<1>1. Limit \in Nat \ {0}
  BY ClusterAssumption
<1>2. sorted \in Seq(Transaction) /\ ToSet(sorted) = ToSet(merged) /\ NewestFirst(sorted, merged)
  BY NewestFirstContract
<1>3. page = Newest(sorted, Limit)
  BY DEF page
<1> HIDE DEF sorted
<1> DEFINE u == page
<1>4. u = Newest(sorted, Limit)
  BY <1>3
<1> HIDE DEF u
<1>5. u \in Seq(Transaction) /\ \E m \in 0 .. Len(sorted) : IsNewest(u, sorted, Limit, m)
  BY <1>1, <1>2, <1>4, NewestContract
<1>6. PICK m \in 0 .. Len(sorted) :
        /\ m <= Limit /\ (m < Len(sorted) => m = Limit)
        /\ Len(u) = m /\ \A i \in 1 .. m : u[i] = sorted[i] /\ i \in 1 .. Len(sorted)
  BY <1>5 DEF IsNewest
<1>7. /\ DOMAIN sorted = 1 .. Len(sorted) /\ Len(sorted) \in Nat /\ m \in Nat
      /\ DOMAIN u = 1 .. m /\ Len(u) \in Nat
      /\ \A i \in 1 .. Len(sorted) : sorted[i] \in Transaction
  BY <1>2, <1>5, <1>6
<1>8. ASSUME NEW i \in 1 .. m PROVE u[i] \in ToSet(merged) /\ u[i] \in Transaction
  <2>1. sorted[i] \in ToSet(sorted) /\ u[i] = sorted[i]
    BY <1>6, <1>7 DEF ToSet
  <2>. QED BY <1>2, <1>6, <1>7, <2>1
<1>9. ASSUME NEW tx \in ToSet(merged)
      PROVE  \/ \E k \in 1 .. m : u[k] = tx
             \/ \A k \in 1 .. m :
                  \/ u[k].slot > tx.slot
                  \/ u[k].slot = tx.slot /\ Precedes(u[k], tx, merged)
  <2>1. PICK n \in 1 .. Len(sorted) : sorted[n] = tx
    BY <1>2, <1>7 DEF ToSet
  <2>2. CASE n \in 1 .. m
    BY <1>6, <2>1, <2>2
  <2>3. CASE n \notin 1 .. m
    <3>1. ASSUME NEW k \in 1 .. m
          PROVE  \/ u[k].slot > tx.slot
                 \/ u[k].slot = tx.slot /\ Precedes(u[k], tx, merged)
      <4>1. k \in DOMAIN sorted /\ n \in DOMAIN sorted /\ k < n /\ u[k] = sorted[k]
        BY <1>6, <1>7, <2>3
      <4>. QED BY <1>2, <2>1, <4>1 DEF NewestFirst
    <3>. QED BY <3>1
  <2>. QED BY <2>2, <2>3
<1>10. ASSUME u = <<>> PROVE merged = <<>>
  <2>1. m = 0
    BY <1>6, <1>10
  <2>2. Len(sorted) = 0
    BY <1>1, <1>6, <1>7, <2>1
  <2>3. ToSet(merged) = {}
    BY <1>2, <1>7, <2>2 DEF ToSet
  <2>4. \A i \in 1 .. Len(merged) : merged[i] \in ToSet(merged)
    BY ToSetIndices
  <2>. QED BY <2>3, <2>4
<1>11. /\ u \in Seq(Transaction) /\ Len(u) \in Nat /\ DOMAIN u = 1 .. Len(u) /\ Len(u) <= Limit
       /\ u = <<>> => merged = <<>>
       /\ \A i \in 1 .. Len(u) : u[i] \in ToSet(merged) /\ u[i] \in Transaction
       /\ \A tx \in ToSet(merged) :
            \/ \E k \in 1 .. Len(u) : u[k] = tx
            \/ \A k \in 1 .. Len(u) :
                 \/ u[k].slot > tx.slot
                 \/ u[k].slot = tx.slot /\ Precedes(u[k], tx, merged)
  BY <1>5, <1>6, <1>7, <1>8, <1>9, <1>10
<1>. QED BY <1>11 DEF u

\* The image of an interval is no larger than it.
LEMMA SignaturesOfPart ==
    ASSUME NEW txs \in Seq(Transaction), NEW n \in Nat, n <= Len(txs),
           NEW S, \A s \in S : \E k \in 1 .. n : txs[k].signature = s
    PROVE  IsFiniteSet(S) /\ Cardinality(S) \in Nat /\ Cardinality(S) <= n
<1> DEFINE T == {txs[k].signature : k \in 1 .. n}
           f == [k \in 1 .. n |-> txs[k].signature]
<1>1. IsFiniteSet(1 .. n) /\ Cardinality(1 .. n) = n
  BY FS_Interval
<1>2. f \in Surjection(1 .. n, T)
  BY DEF Surjection
<1>3. IsFiniteSet(T) /\ Cardinality(T) <= n
  <2> HIDE DEF f, T
  <2>. QED BY <1>1, <1>2, FS_Surjection
<1>4. S \in SUBSET T
  OBVIOUS
<1>5. IsFiniteSet(S) /\ Cardinality(S) <= Cardinality(T)
  <2> HIDE DEF T
  <2>. QED BY <1>3, <1>4, FS_Subset
<1>6. Cardinality(S) \in Nat /\ Cardinality(T) \in Nat
  <2> HIDE DEF T
  <2>. QED BY <1>3, <1>5, FS_CardinalityType
<1>. QED BY <1>3, <1>5, <1>6

\* As many signatures as an answer has transactions.
LEMMA SignaturesCount ==
    ASSUME NEW txs \in Seq(Transaction), Distinct(txs)
    PROVE  IsFiniteSet(SignaturesOf(txs)) /\ Cardinality(SignaturesOf(txs)) = Len(txs)
<1> DEFINE N == Len(txs)
           f == [k \in 1 .. N |-> txs[k].signature]
           T == SignaturesOf(txs)
<1>1. N \in Nat /\ DOMAIN txs = 1 .. N
  OBVIOUS
<1>2. IsFiniteSet(1 .. N) /\ Cardinality(1 .. N) = N
  <2> HIDE DEF N
  <2>. QED BY <1>1, FS_Interval
<1>3. f \in Bijection(1 .. N, T)
  <2> HIDE DEF N
  <2>1. T = {txs[k].signature : k \in 1 .. N}
    BY <1>1 DEF SignaturesOf
  <2>2. \A i, j \in 1 .. N : txs[i].signature = txs[j].signature => i = j
    BY <1>1 DEF Distinct
  <2> HIDE DEF T
  <2>3. f \in [1 .. N -> T] /\ \A t \in T : \E k \in 1 .. N : f[k] = t
    BY <2>1
  <2>4. \A i, j \in 1 .. N : f[i] = f[j] => i = j
    BY <2>2
  <2> HIDE DEF f
  <2>. QED BY <2>3, <2>4 DEF Bijection, Injection, Surjection, IsInjective
<1>4. ExistsBijection(1 .. N, T)
  <2> HIDE DEF f
  <2>. QED BY <1>3 DEF ExistsBijection
<1> HIDE DEF N, T
<1>5. IsFiniteSet(T) /\ Cardinality(T) = N
  BY <1>2, <1>4, FS_Bijection
<1>. QED BY <1>5 DEF N, T

\* Whatever a full page does not hold and was below the bound is below the next bound.
LEMMA PageStepsOverNothing ==
    ASSUME BInv, PageInv, next > NumAddresses, page # <<>>,
           NEW x \in 1 .. Len(ledger), ledger[x].slot <= finalized_slot,
           Below(ledger, x, descent.signature),
           \A k \in 1 .. Len(page) : page[k] # ledger[x]
    PROVE  Below(ledger, x, Last(page).signature)
<1> DEFINE L == Len(page)
           last == page[L]
<1>1. /\ page \in Seq(Transaction) /\ L \in Nat
      /\ L <= Limit
      /\ \A i \in 1 .. L : page[i] \in ToSet(merged) /\ page[i] \in Transaction
      /\ \A tx \in ToSet(merged) :
           \/ \E k \in 1 .. L : page[k] = tx
           \/ \A k \in 1 .. L :
                \/ page[k].slot > tx.slot
                \/ page[k].slot = tx.slot /\ Precedes(page[k], tx, merged)
  BY BackfillTypes, PageContract
<1>2. L \in 1 .. L /\ Last(page) = last
  BY <1>1 DEF Last
<1> HIDE DEF L
<1>3. /\ Distinct(merged) /\ DOMAIN merged = 1 .. Len(merged)
      /\ \A i \in 1 .. Len(merged) : merged[i] \in Transaction /\ merged[i].slot \in Nat
      /\ DOMAIN ledger = 1 .. Len(ledger) /\ Len(ledger) \in Nat
      /\ \A i \in 1 .. Len(ledger) : ledger[i] \in Transaction /\ ledger[i].slot \in Nat
      /\ finalized_slot \in Nat /\ next \in Nat /\ NumAddresses \in Nat /\ Limit \in Nat
      /\ ChainOrder(ledger)
      /\ \A i \in DOMAIN ledger :
           ledger[i].slot <= finalized_slot /\ ledger[i].signature \in SignaturesOf(merged)
              => ledger[i] \in ToSet(merged)
  BY BackfillTypes, ClusterAssumption DEF PageInv, BInv
<1>4. Screened(ledger, merged, x)
  <2>1. FirstAddress(ledger[x]) \in 1 .. NumAddresses
    <3>1. /\ FirstAddress(ledger[x]) \in Touches[ledger[x].signature]
          /\ ledger[x].signature \in Signatures
      BY <1>3, FirstAddressType, TransactionFields
    <3>. QED BY <3>1, ClusterAssumption
  <2>2. FirstAddress(ledger[x]) < next
    BY <1>3, <2>1
  <2>. QED BY <1>3, <2>2 DEF PageInv
<1>5. PICK S \in SUBSET SignaturesOf(merged) :
        /\ ledger[x].signature \in S \/ Cardinality(S) = Limit
        /\ AllAhead(ledger, merged, S, x)
  BY <1>4 DEF Screened
<1> SUFFICES ASSUME NEW z \in 1 .. x, ledger[z].signature = last.signature
             PROVE  FALSE
  BY <1>2 DEF Below
<1>6. /\ z \in 1 .. Len(ledger) /\ last \in ToSet(merged) /\ last \in Transaction
      /\ ledger[z].slot <= finalized_slot
  <2>1. z \in 1 .. Len(ledger)
    BY <1>3
  <2>2. ledger[z].slot <= ledger[x].slot
    <3>1. CASE z = x
      BY <1>3, <3>1
    <3>2. CASE z # x
      <4>1. z < x
        BY <1>3, <3>2
      <4>. QED BY <1>3, <2>1, <4>1 DEF ChainOrder
    <3>. QED BY <3>1, <3>2
  <2>. QED BY <1>1, <1>2, <1>3, <2>1, <2>2
<1>7. ledger[z] = last
  <2>1. ledger[z].signature \in SignaturesOf(merged)
    BY <1>6, SignaturesAreElements
  <2>2. ledger[z] \in ToSet(merged)
    BY <1>3, <1>6, <2>1
  <2>. QED BY <1>3, <1>6, <2>2, SameSignature
<1>8. PICK q \in 1 .. Len(merged) : merged[q] = last
  BY <1>3, <1>6 DEF ToSet
<1>9. z \in 1 .. x - 1
  <2>1. z # x
    <3>1. L \in 1 .. Len(page) /\ ledger[z] = page[L]
      BY <1>2, <1>7 DEF L
    <3>. QED BY <3>1
  <2>. QED BY <1>3, <2>1
<1>10. ASSUME NEW p \in 1 .. Len(merged), merged[p].signature \in S
       PROVE  \E k \in 1 .. L - 1 : page[k] = merged[p]
  <2>1. Ahead(merged, p, q)
    BY <1>3, <1>5, <1>7, <1>8, <1>9, <1>10 DEF AllAhead
  <2>2. p # q
    BY <1>3, <2>1 DEF Ahead
  <2>3. ~ (last.slot > merged[p].slot)
    BY <1>3, <1>8, <2>1 DEF Ahead
  <2>4. ~ (last.slot = merged[p].slot /\ Precedes(last, merged[p], merged))
    <3> SUFFICES ASSUME last.slot = merged[p].slot,
                        NEW i \in DOMAIN merged, NEW j \in DOMAIN merged,
                        i < j, merged[i] = last, merged[j] = merged[p]
                 PROVE  FALSE
      BY DEF Precedes
    <3>1. i = q /\ j = p
      BY <1>3, <1>8 DEF Distinct
    <3>2. p < q
      BY <1>3, <1>8, <2>1 DEF Ahead
    <3>. QED BY <3>1, <3>2
  <2>5. merged[p] \in ToSet(merged)
    BY <1>3 DEF ToSet
  <2>6. PICK k \in 1 .. L : page[k] = merged[p]
    BY <1>1, <1>2, <2>3, <2>4, <2>5
  <2>7. k # L
    <3> SUFFICES ASSUME k = L PROVE FALSE
      OBVIOUS
    <3>1. merged[p] = merged[q]
      BY <1>8, <2>6
    <3>. QED BY <1>3, <2>2, <3>1 DEF Distinct
  <2>8. k \in 1 .. L - 1
    BY <1>1, <2>7
  <2>. QED BY <2>6, <2>8
<1>11. ASSUME NEW s \in S PROVE \E k \in 1 .. L - 1 : page[k].signature = s
  <2>1. PICK p \in 1 .. Len(merged) : merged[p].signature = s
    BY <1>3, <1>5 DEF SignaturesOf
  <2>. QED BY <1>10, <2>1
<1>12. CASE ledger[x].signature \in S
  <2>1. ledger[x].signature \in SignaturesOf(merged)
    BY <1>5, <1>12
  <2>2. ledger[x] \in ToSet(merged)
    BY <1>3, <2>1
  <2>3. PICK p \in 1 .. Len(merged) : merged[p] = ledger[x]
    BY <1>3, <2>2 DEF ToSet
  <2>4. PICK k \in 1 .. L - 1 : page[k] = ledger[x]
    BY <1>10, <1>12, <2>3
  <2>5. k \in 1 .. L
    BY <1>1, <2>4
  <2>. QED BY <2>4, <2>5 DEF L
<1>13. CASE Cardinality(S) = Limit
  <2>1. L - 1 \in Nat /\ L - 1 <= Len(page)
    BY <1>1, <1>2 DEF L
  <2>2. Cardinality(S) <= L - 1
    BY <1>1, <1>11, <2>1, SignaturesOfPart
  <2>. QED BY <1>1, <1>3, <1>13, <2>2
<1>. QED BY <1>5, <1>12, <1>13

-----------------------------------------------------------------------------
(* What is yielded is history. *)

LEMMA EntryContract ==
    ASSUME NEW signature \in SignaturesOf(ledger)
    PROVE  Entry(signature) \in ToSet(ledger) /\ Entry(signature).signature = signature
<1>1. \E tx \in ToSet(ledger) : tx.signature = signature
  BY SignaturesAreElements
<1>. QED BY <1>1 DEF Entry

LEMMA YieldIsHistory ==
    ASSUME BInv, pc = "fetching", PageAvailable
    PROVE  {tx \in logs_of(succeeded(page)) : tx.slot <= finalized_slot} \subseteq Succeeded(Finalized)
<1> SUFFICES ASSUME NEW y \in succeeded(page), Entry(y.signature).slot <= finalized_slot
             PROVE  Entry(y.signature) \in Succeeded(Finalized)
  BY DEF logs_of
<1>1. y.signature \in SignaturesOf(ledger) /\ y.signature \notin Failed
  BY DEF PageAvailable, succeeded, Succeeded
<1>2. Entry(y.signature) \in ToSet(ledger) /\ Entry(y.signature).signature = y.signature
  BY <1>1, EntryContract
<1>3. Entry(y.signature).slot \in Nat /\ finalized_slot \in Nat /\ final \in Nat
      /\ finalized_slot <= final
  <2>1. ledger \in Seq(Transaction)
    BY BackfillTypes
  <2>. QED BY <1>2, <2>1, BackfillTypes, SlotsOf, TransactionFields DEF BInv, RowsInv
<1>. QED BY <1>1, <1>2, <1>3 DEF Succeeded, Finalized

LEMMA FinalizedStays ==
    ASSUME ledger \in Seq(Transaction), ledger' \in Seq(Transaction), final \in Nat, final' \in Nat,
           FinalKept(ledger, final, ledger'), final <= final'
    PROVE  Succeeded(Finalized) \subseteq Succeeded(Finalized)'
<1> SUFFICES ASSUME NEW tx \in ToSet(ledger), tx.slot <= final, tx.signature \notin Failed
             PROVE  tx \in ToSet(ledger') /\ tx.slot <= final'
  BY DEF Succeeded, Finalized
<1>1. tx \in Transaction /\ tx.slot \in Nat
  BY SlotsOf, TransactionFields
<1>. QED BY <1>1, FinalEntries

\* How the cluster moves.
ChainStep ==
    /\ ledger' \in Seq(Transaction) /\ final' \in 0 .. MaxSlot /\ final' \in Nat
    /\ ChainOrder(ledger') /\ FinalKept(ledger, final, ledger') /\ final <= final'

LEMMA ClusterMovesEffect ==
    ASSUME BInv, ClusterMoves
    PROVE  /\ UNCHANGED <<pc, next, finalized_slot, merged, descent, rows, owed, crashes>>
           /\ ChainStep
           /\ NoSlotIsShared /\ SlotsUnshared(ledger) => SlotsUnshared(ledger')
<1>1. UNCHANGED <<pc, next, finalized_slot, merged, descent, rows, owed, crashes>>
  BY Zenon DEF ClusterMoves, request
<1>2. /\ ledger \in Seq(Transaction) /\ final \in Nat /\ final \in 0 .. MaxSlot
      /\ ChainOrder(ledger)
      /\ DOMAIN ledger = 1 .. Len(ledger) /\ Len(ledger) \in Nat /\ MaxSlot \in Nat
      /\ \A i \in 1 .. Len(ledger) : ledger[i].slot \in Nat
  BY BackfillTypes, ClusterAssumption DEF BInv, BackfillTypeOK
<1>3. ASSUME NEW block \in SlotContents, NEW slot \in 1 .. MaxSlot, Confirm(block, slot)
      PROVE  ChainStep /\ (NoSlotIsShared /\ SlotsUnshared(ledger) => SlotsUnshared(ledger'))
  <2>1. block \in Seq(Signatures) /\ IsInjective(block)
    BY BackfillAssumption
  <2>2. /\ ledger' \in Seq(Transaction) /\ ChainOrder(ledger')
        /\ FinalKept(ledger, final, ledger') /\ final' = final
        /\ \A i \in 1 .. Len(ledger') :
             \/ i \in 1 .. Len(ledger) /\ ledger'[i] = ledger[i] /\ ledger[i].slot < slot
             \/ /\ i \notin 1 .. Len(ledger) /\ ledger'[i].slot = slot
                /\ \E n \in DOMAIN block : ledger'[i].signature = block[n]
    BY <1>2, <1>3, <2>1, ConfirmEffect
  <2>3. ChainStep
    BY <1>2, <2>2 DEF ChainStep
  <2>4. ASSUME NoSlotIsShared, SlotsUnshared(ledger),
               NEW i \in 1 .. Len(ledger'), NEW j \in 1 .. Len(ledger'),
               ledger'[i].slot = ledger'[j].slot
        PROVE  FirstAddress(ledger'[i]) = FirstAddress(ledger'[j])
    <3>1. CASE i \in 1 .. Len(ledger) /\ j \in 1 .. Len(ledger)
      BY <1>2, <2>2, <2>4, <3>1 DEF SlotsUnshared
    <3>2. CASE i \notin 1 .. Len(ledger) /\ j \notin 1 .. Len(ledger)
      BY <2>2, <2>4, <3>2 DEF NoSlotIsShared, FirstAddress
    <3>3. CASE ~ (i \in 1 .. Len(ledger) <=> j \in 1 .. Len(ledger))
      <4>1. slot \in Nat
        OBVIOUS
      <4>. QED BY <1>2, <2>2, <2>4, <3>3, <4>1
    <3>. QED BY <3>1, <3>2, <3>3
  <2>5. DOMAIN ledger' = 1 .. Len(ledger')
    BY <2>2
  <2>. QED BY <2>3, <2>4, <2>5 DEF SlotsUnshared
<1>4. ASSUME NEW kept \in 0 .. Len(ledger) - 1, TakeBack(kept)
      PROVE  ChainStep /\ (NoSlotIsShared /\ SlotsUnshared(ledger) => SlotsUnshared(ledger'))
  <2>1. /\ ledger' \in Seq(Transaction) /\ ChainOrder(ledger')
        /\ Len(ledger') = kept
        /\ FinalKept(ledger, final, ledger') /\ final' = final
        /\ \A i \in 1 .. kept : i \in 1 .. Len(ledger) /\ ledger'[i] = ledger[i]
    BY <1>2, <1>4, TakeBackEffect
  <2>2. DOMAIN ledger' = 1 .. kept
    BY <2>1
  <2>3. ChainStep
    BY <1>2, <2>1 DEF ChainStep
  <2>. QED BY <1>2, <2>1, <2>2, <2>3 DEF SlotsUnshared
<1>5. ASSUME NEW slot \in 1 .. MaxSlot, FinalizeUpTo(slot)
      PROVE  ChainStep /\ (NoSlotIsShared /\ SlotsUnshared(ledger) => SlotsUnshared(ledger'))
  <2>1. ledger' = ledger /\ final' = slot /\ final < final'
    BY <1>2, <1>5 DEF FinalizeUpTo
  <2>2. FinalKept(ledger, final, ledger')
    BY <2>1, SameLedgerKept
  <2>. QED BY <1>2, <2>1, <2>2 DEF ChainStep
<1>. QED BY <1>1, <1>3, <1>4, <1>5 DEF ClusterMoves

LEMMA BackfillStarts ==
    ASSUME BackfillInit
    PROVE  BInv /\ DescentInv
<1>1. BackfillTypeOK
  BY ClusterAssumption DEF BackfillInit, BackfillTypeOK, new_descent
<1>2. ChainOrder(ledger) /\ SlotsUnshared(ledger)
  BY DEF BackfillInit, ChainOrder, Distinct, SlotsUnshared
<1>. QED BY <1>1, <1>2 DEF BackfillInit, BInv, RowsInv, DescentInv, OwedInv

Descent(slot, signature, complete) ==
    [slot |-> slot, signature |-> signature, complete |-> complete]

LEMMA DescentType ==
    ASSUME NEW slot \in 0 .. MaxSlot, NEW signature \in Signatures \cup {NoSignature},
           NEW complete \in BOOLEAN
    PROVE  /\ Descent(slot, signature, complete)
                 \in [slot : 0 .. MaxSlot, signature : Signatures \cup {NoSignature},
                      complete : BOOLEAN]
           /\ Descent(slot, signature, complete).signature = signature
           /\ Descent(slot, signature, complete).complete = complete
  BY DEF Descent

LEMMA DescentUpdates ==
    ASSUME NEW d, d = Descent(d.slot, d.signature, d.complete), NEW slot, NEW signature
    PROVE  /\ [d EXCEPT !.complete = TRUE] = Descent(d.slot, d.signature, TRUE)
           /\ [d EXCEPT !.slot = slot, !.signature = signature] = Descent(slot, signature, d.complete)
<1> DEFINE e == [d EXCEPT !.complete = TRUE]
           j == [d EXCEPT !.slot = slot, !.signature = signature]
<1>1. DOMAIN d = {"slot", "signature", "complete"}
  BY DEF Descent
<1>2. /\ DOMAIN e = {"slot", "signature", "complete"} /\ e = [x \in DOMAIN e |-> e[x]]
      /\ e.slot = d.slot /\ e.signature = d.signature /\ e.complete = TRUE
  BY <1>1
<1>3. /\ DOMAIN j = {"slot", "signature", "complete"} /\ j = [x \in DOMAIN j |-> j[x]]
      /\ j.slot = slot /\ j.signature = signature /\ j.complete = d.complete
  BY <1>1
<1> HIDE DEF e, j
<1>4. e = Descent(d.slot, d.signature, TRUE)
  BY <1>2 DEF Descent
<1>5. j = Descent(slot, signature, d.complete)
  BY <1>3 DEF Descent
<1>. QED BY <1>4, <1>5 DEF e, j

LEMMA DescentFields ==
    ASSUME BInv
    PROVE  /\ descent = Descent(descent.slot, descent.signature, descent.complete)
           /\ descent.slot \in 0 .. MaxSlot
           /\ descent.signature \in Signatures \cup {NoSignature}
           /\ descent.complete \in BOOLEAN
  BY DEF BInv, BackfillTypeOK, Descent

LEMMA HistoryKept ==
    ASSUME BInv, [BackfillNext]_backfill_vars
    PROVE  BInv'
<1> USE DEF BInv
<1>0. /\ MaxSlot \in Nat /\ NumAddresses \in Nat
      /\ new_descent \in [slot : 0 .. MaxSlot, signature : Signatures \cup {NoSignature},
                          complete : BOOLEAN]
  BY ClusterAssumption DEF new_descent
<1>1. CASE begin
  <2>1. /\ UNCHANGED <<ledger, final, next, finalized_slot, merged, rows>>
        /\ pc = "down" /\ pc' = "stepping" /\ descent' = new_descent
        /\ owed' = Succeeded(Finalized)
    BY <1>1 DEF begin, chain, request
  <2>2. Finalized' = Finalized
    BY <2>1 DEF Finalized
  <2>. QED BY <1>0, <2>1, <2>2 DEF BackfillTypeOK, RowsInv, Succeeded
<1>2. CASE step_finality
  <2>1. /\ UNCHANGED <<ledger, final, next, merged, descent, rows, owed>>
        /\ pc' = "fetching" /\ finalized_slot' = final
    BY <1>2 DEF step_finality, chain
  <2>2. Finalized' = Finalized /\ final \in Nat
    BY <2>1, BackfillTypes DEF Finalized
  <2>. QED BY <2>1, <2>2 DEF BackfillTypeOK, RowsInv, Succeeded
<1>3. CASE page_address
  <2>1. /\ UNCHANGED <<ledger, final, pc, finalized_slot, descent, rows, owed>>
        /\ pc = "fetching" /\ next <= NumAddresses /\ next' = next + 1
        /\ merged' = Join(merged, unlisted(signatures_before(next, descent.signature)))
    BY <1>3 DEF page_address, chain, Join
  <2>2. Finalized' = Finalized
    BY <2>1 DEF Finalized
  <2>3. merged' \in Seq(Transaction)
    <3>1. signatures_before(next, descent.signature) \in Seq(Transaction)
      BY BackfillTypes, AnswerType
    <3>2. unlisted(signatures_before(next, descent.signature)) \in Seq(Transaction)
      BY <3>1, UnlistedContract
    <3>. QED BY <2>1, <3>2, BackfillTypes, ToSetJoin
  <2>4. next' \in 1 .. NumAddresses + 1
    BY <1>0, <2>1 DEF BackfillTypeOK
  <2>. QED BY <2>1, <2>2, <2>3, <2>4 DEF BackfillTypeOK, RowsInv, Succeeded
<1>4. CASE reach_genesis
  <2>1. /\ UNCHANGED <<ledger, final, rows, owed>>
        /\ pc' = "stepping" /\ next' = 1 /\ finalized_slot' = 0 /\ merged' = <<>>
        /\ descent' = [descent EXCEPT !.complete = TRUE]
    BY <1>4 DEF reach_genesis, ClearRequest, chain
  <2>3. descent' \in [slot : 0 .. MaxSlot, signature : Signatures \cup {NoSignature},
                      complete : BOOLEAN]
    <3>1. descent' = Descent(descent.slot, descent.signature, TRUE)
      BY <2>1, DescentFields, DescentUpdates
    <3>. QED BY <3>1, DescentFields, DescentType
  <2>2. Finalized' = Finalized
    BY <2>1 DEF Finalized
  <2>. QED BY <1>0, <2>1, <2>2, <2>3 DEF BackfillTypeOK, RowsInv, Succeeded
<1>5. CASE step
  <2>1. /\ UNCHANGED <<ledger, final, owed>>
        /\ pc = "fetching" /\ pc' = "stepping"
        /\ next' = 1 /\ finalized_slot' = 0 /\ merged' = <<>>
        /\ PageAvailable /\ page # <<>> /\ descent' = Descended
        /\ rows' = rows \cup {tx \in logs_of(succeeded(page)) : tx.slot <= finalized_slot}
    BY <1>5 DEF step, PageIsHere, ClearRequest, chain, covered
  <2>2. Finalized' = Finalized
    BY <2>1 DEF Finalized
  <2>3. rows' \subseteq Succeeded(Finalized)
    BY <2>1, YieldIsHistory DEF RowsInv
  <2>4. descent' \in [slot : 0 .. MaxSlot, signature : Signatures \cup {NoSignature},
                      complete : BOOLEAN]
    <3>1. Last(page) \in Transaction
      <4>1. page \in Seq(Transaction)
        BY BackfillTypes, PageContract
      <4>. QED BY <2>1, <4>1 DEF Last
    <3>2. Last(page).slot \in 1 .. MaxSlot /\ Last(page).signature \in Signatures
      BY <3>1, TransactionFields
    <3>3. descent' = Descent(Last(page).slot, Last(page).signature, descent.complete)
      BY <2>1, DescentFields, DescentUpdates DEF Descended, covered
    <3>. QED BY <1>0, <3>2, <3>3, DescentFields, DescentType
  <2>. QED BY <1>0, <2>1, <2>2, <2>3, <2>4 DEF BackfillTypeOK, RowsInv, Succeeded
<1>6. CASE Ends
  <2>1. /\ UNCHANGED <<ledger, final, rows>>
        /\ pc' = "down" /\ next' = 1 /\ finalized_slot' = 0 /\ merged' = <<>>
        /\ descent' = new_descent /\ owed' = {}
    BY <1>6 DEF Ends, ClearRequest, chain
  <2>2. Finalized' = Finalized
    BY <2>1 DEF Finalized
  <2>. QED BY <1>0, <2>1, <2>2 DEF BackfillTypeOK, RowsInv, Succeeded
<1>7. CASE ClusterMoves
  <2>1. UNCHANGED <<pc, next, finalized_slot, merged, descent, rows, owed>> /\ ChainStep
    BY <1>7, ClusterMovesEffect
  <2>2. Succeeded(Finalized) \subseteq Succeeded(Finalized)'
    BY <2>1, BackfillTypes, FinalizedStays DEF ChainStep
  <2>3. pc' = "fetching" => finalized_slot' <= final'
    BY <2>1, BackfillTypes DEF ChainStep, RowsInv
  <2>4. BackfillTypeOK'
    BY <2>1 DEF BackfillTypeOK, ChainStep
  <2>5. RowsInv'
    BY <2>1, <2>2, <2>3 DEF RowsInv
  <2>. QED BY <2>1, <2>4, <2>5 DEF ChainStep
<1>8. CASE UNCHANGED backfill_vars
  <2>1. UNCHANGED <<ledger, final, pc, next, finalized_slot, merged, descent, rows, owed>>
    BY <1>8 DEF backfill_vars
  <2>. QED BY <2>1 DEF BackfillTypeOK, RowsInv, Succeeded, Finalized
<1>. QED BY <1>1, <1>2, <1>3, <1>4, <1>5, <1>6, <1>7, <1>8
         DEF BackfillNext, Caller, step_fails, CallerCrash

LEMMA BackfillHistory == BackfillSpec => []BInv
<1>1. BackfillInit => BInv
  BY BackfillStarts
<1>2. BInv /\ [BackfillNext]_backfill_vars => BInv'
  BY HistoryKept
<1>. QED BY <1>1, <1>2, PTL DEF BackfillSpec

\* Whatever a backfill has yielded happened and can no longer be taken back, whatever
\* the cluster confirms, finalises or takes back between two of its requests, wherever
\* it crashed or failed, and for every limit, page size and set of addresses.
THEOREM RowsAreAlwaysHistory == BackfillSpec => []RowsAreHistory
<1>1. BInv => RowsAreHistory
  BY DEF BInv, RowsInv, RowsAreHistory
<1>. QED BY <1>1, BackfillHistory, PTL

-----------------------------------------------------------------------------
(* An answer steps over nothing. *)

LEMMA SlotsFollow ==
    ASSUME BInv, NEW y \in 1 .. Len(ledger), NEW x \in 1 .. Len(ledger), y <= x
    PROVE  ledger[y].slot <= ledger[x].slot
<1>1. CASE y = x
  BY <1>1, BackfillTypes
<1>2. CASE y # x
  <2>1. y < x
    BY <1>2, BackfillTypes
  <2>. QED BY <2>1, BackfillTypes DEF BInv, ChainOrder
<1>. QED BY <1>1, <1>2

\* The answers so far and a new one.
Extends(txs, old, new) ==
    /\ txs \in Seq(Transaction) /\ DOMAIN txs = 1 .. Len(old) + Len(new)
    /\ \A i \in 1 .. Len(old) : txs[i] = old[i]
    /\ \A i \in 1 .. Len(new) : txs[Len(old) + i] = new[i]
    /\ \A i \in DOMAIN txs :
         \/ i \in 1 .. Len(old) /\ txs[i] = old[i]
         \/ \E n \in 1 .. Len(new) : i = Len(old) + n /\ txs[i] = new[n]
    /\ \A tx : tx \in ToSet(txs) <=> tx \in ToSet(old) \/ tx \in ToSet(new)

LEMMA JoinExtends ==
    ASSUME NEW old \in Seq(Transaction), NEW new \in Seq(Transaction),
           NEW txs, txs = Join(old, new)
    PROVE  Extends(txs, old, new)
<1>1. txs \in Seq(Transaction) /\ Joined(txs, old, new)
  BY ToSetJoin
<1> DEFINE M == Len(old)  N == Len(new)
<1>2. /\ M \in Nat /\ N \in Nat /\ DOMAIN txs = 1 .. M + N
      /\ \A i \in 1 .. M : txs[i] = old[i]
      /\ \A i \in 1 .. N : txs[M + i] = new[i]
      /\ \A tx : tx \in ToSet(txs) <=> tx \in ToSet(old) \/ tx \in ToSet(new)
  <2>1. DOMAIN txs = 1 .. Len(txs)
    BY <1>1
  <2>. QED BY <1>1, <2>1 DEF Joined
<1> HIDE DEF M, N
<1>3. ASSUME NEW i \in DOMAIN txs
      PROVE  \/ i \in 1 .. M /\ txs[i] = old[i]
             \/ \E n \in 1 .. N : i = M + n /\ txs[i] = new[n]
  <2>1. CASE i \in 1 .. M
    BY <1>2, <2>1
  <2>2. CASE i \notin 1 .. M
    <3>1. i - M \in 1 .. N /\ i = M + (i - M)
      BY <1>2, <2>2
    <3>. QED BY <1>2, <3>1
  <2>. QED BY <2>1, <2>2
<1>. QED BY <1>1, <1>2, <1>3 DEF Extends, M, N

\* What an answer adds, over the answers before it.
Added(new, answer) ==
    /\ new \in Seq(Transaction) /\ Len(new) \in Nat /\ DOMAIN new = 1 .. Len(new)
    /\ \A tx : tx \in ToSet(new)
                 <=> tx \in ToSet(answer) /\ tx.signature \notin SignaturesOf(merged)
    /\ \A i, j \in 1 .. Len(new) : i < j => Precedes(new[i], new[j], answer)

LEMMA UnlistedIsAdded ==
    ASSUME NEW answer \in Seq(Transaction), NEW new, new = unlisted(answer)
    PROVE  Added(new, answer)
<1>1. /\ new \in Seq(Transaction)
      /\ \A tx : tx \in ToSet(new)
                   <=> tx \in ToSet(answer) /\ tx.signature \notin SignaturesOf(merged)
      /\ \A i, j \in DOMAIN new : i < j => Precedes(new[i], new[j], answer)
  BY UnlistedContract
<1>2. Len(new) \in Nat /\ DOMAIN new = 1 .. Len(new)
  BY <1>1
<1>. QED BY <1>1, <1>2 DEF Added

\* What was screened by the earlier answers stays so.
LEMMA StaysScreened ==
    ASSUME BInv, NEW answer \in Seq(Transaction), NEW new, Added(new, answer),
           NEW txs, Extends(txs, merged, new),
           NEW x \in 1 .. Len(ledger), Screened(ledger, merged, x)
    PROVE  Screened(ledger, txs, x)
<1>1. PICK S \in SUBSET SignaturesOf(merged) :
        /\ ledger[x].signature \in S \/ Cardinality(S) = Limit
        /\ AllAhead(ledger, merged, S, x)
  BY DEF Screened
<1>2. /\ Len(merged) \in Nat /\ DOMAIN merged = 1 .. Len(merged)
      /\ \A i \in 1 .. Len(ledger) : ledger[i].slot \in Nat
      /\ \A i \in 1 .. Len(merged) : merged[i].slot \in Nat
      /\ Len(ledger) \in Nat /\ Len(new) \in Nat
  BY BackfillTypes DEF Added
<1>3. S \in SUBSET SignaturesOf(txs)
  <2> SUFFICES ASSUME NEW s \in SignaturesOf(merged) PROVE s \in SignaturesOf(txs)
    OBVIOUS
  <2>. QED BY SignaturesAreElements DEF Extends
<1>4. ASSUME NEW p \in DOMAIN txs, txs[p].signature \in S
      PROVE  p \in 1 .. Len(merged) /\ txs[p] = merged[p]
  <2>1. \A n \in 1 .. Len(new) : new[n].signature \notin SignaturesOf(merged)
    BY DEF Added, ToSet
  <2>. QED BY <1>4, <2>1 DEF Extends
<1>5. ASSUME NEW p \in DOMAIN txs, txs[p].signature \in S
      PROVE  /\ txs[p].slot >= ledger[x].slot
             /\ \A q \in DOMAIN txs, y \in 1 .. x - 1 : txs[q] = ledger[y] => Ahead(txs, p, q)
  <2>1. p \in 1 .. Len(merged) /\ txs[p] = merged[p] /\ merged[p].slot >= ledger[x].slot
    BY <1>1, <1>2, <1>4, <1>5 DEF AllAhead
  <2>2. ASSUME NEW q \in DOMAIN txs, NEW y \in 1 .. x - 1, txs[q] = ledger[y]
        PROVE  Ahead(txs, p, q)
    <3>1. CASE q \in 1 .. Len(merged)
      <4>1. txs[q] = merged[q]
        BY <3>1 DEF Extends
      <4>2. Ahead(merged, p, q)
        BY <1>1, <1>2, <1>5, <2>1, <2>2, <3>1, <4>1 DEF AllAhead
      <4>. QED BY <2>1, <4>1, <4>2 DEF Ahead
    <3>2. CASE q \notin 1 .. Len(merged)
      <4>1. p < q
        <5>1. PICK n \in 1 .. Len(new) : q = Len(merged) + n
          BY <3>2 DEF Extends
        <5>. QED BY <1>2, <2>1, <5>1
      <4>2. y \in 1 .. Len(ledger) /\ y <= x
        BY <1>2
      <4>3. ledger[y].slot <= ledger[x].slot
        BY <4>2, SlotsFollow
      <4>. QED BY <1>2, <2>1, <2>2, <4>1, <4>2, <4>3 DEF Ahead
    <3>. QED BY <3>1, <3>2
  <2>. QED BY <2>1, <2>2
<1>6. AllAhead(ledger, txs, S, x)
  BY <1>5 DEF AllAhead
<1>. QED BY <1>1, <1>3, <1>6 DEF Screened

LEMMA AnswerDistinct ==
    ASSUME BInv, NEW answer, NEW address, NEW signature, IsAnswer(answer, address, signature)
    PROVE  Distinct(answer)
<1>1. /\ answer \in Seq(Transaction)
      /\ DOMAIN ledger = 1 .. Len(ledger) /\ Distinct(ledger)
  BY BackfillTypes DEF IsAnswer, BInv, ChainOrder
<1>2. DOMAIN answer = 1 .. Len(answer) /\ Len(answer) \in Nat
  BY <1>1
<1> SUFFICES ASSUME NEW i \in 1 .. Len(answer), NEW j \in 1 .. Len(answer), i < j
             PROVE  answer[i].signature # answer[j].signature
  BY <1>2 DEF Distinct
<1>3. PICK a \in 1 .. Len(ledger), b \in 1 .. Len(ledger) :
        a > b /\ ledger[a] = answer[i] /\ ledger[b] = answer[j]
  BY DEF IsAnswer
<1>4. a \in DOMAIN ledger /\ b \in DOMAIN ledger /\ a # b
  BY <1>1, <1>3
<1>5. ledger[a].signature # ledger[b].signature
  BY <1>1, <1>4 DEF Distinct
<1>. QED BY <1>3, <1>5

\* The address that is first to list a transaction screens it.
LEMMA AnswerScreens ==
    ASSUME BInv, SlotsUnshared(ledger), PageInv,
           NEW answer, IsAnswer(answer, next, descent.signature), NEW new, Added(new, answer),
           NEW txs, Extends(txs, merged, new),
           NEW x \in 1 .. Len(ledger), ledger[x].slot <= finalized_slot,
           Below(ledger, x, descent.signature), FirstAddress(ledger[x]) = next
    PROVE  Screened(ledger, txs, x)
<1> DEFINE Newer(w) == w >= x /\ ledger[w] \in ToSet(answer)
           S == {ledger[w].signature : w \in {v \in 1 .. Len(ledger) : Newer(v)}}
<1>1. /\ Len(merged) \in Nat /\ DOMAIN merged = 1 .. Len(merged)
      /\ DOMAIN ledger = 1 .. Len(ledger) /\ Len(ledger) \in Nat
      /\ \A i \in 1 .. Len(ledger) : ledger[i] \in Transaction /\ ledger[i].slot \in Nat
      /\ \A i \in 1 .. Len(merged) : merged[i] \in Transaction /\ merged[i].slot \in Nat
      /\ finalized_slot \in Nat /\ Distinct(ledger) /\ next \in Nat
      /\ Len(new) \in Nat /\ DOMAIN new = 1 .. Len(new)
      /\ answer \in Seq(Transaction) /\ DOMAIN answer = 1 .. Len(answer) /\ Len(answer) \in Nat
  <2>1. answer \in Seq(Transaction)
    BY DEF IsAnswer
  <2>2. DOMAIN answer = 1 .. Len(answer) /\ Len(answer) \in Nat
    BY <2>1
  <2>. QED BY <2>1, <2>2, BackfillTypes DEF Added, BInv, ChainOrder
<1>2. next \in Touches[ledger[x].signature]
  BY <1>1, FirstAddressType
<1>3. \/ ledger[x] \in ToSet(answer)
      \/ /\ Len(answer) = Limit
         /\ \A i \in 1 .. Len(answer) :
              \E w \in 1 .. Len(ledger) : w > x /\ ledger[w] = answer[i]
  BY <1>2 DEF IsAnswer
<1>4. \A s \in S : \E w \in 1 .. Len(ledger) : Newer(w) /\ ledger[w].signature = s
  OBVIOUS
<1>5. \A w \in 1 .. Len(ledger) : Newer(w) => ledger[w].signature \in S
  OBVIOUS
<1>6. S \in SUBSET SignaturesOf(txs)
  <2> SUFFICES ASSUME NEW w \in 1 .. Len(ledger), Newer(w)
               PROVE  ledger[w].signature \in SignaturesOf(txs)
    BY <1>4
  <2>1. CASE ledger[w].signature \in SignaturesOf(merged)
    BY <2>1, SignaturesAreElements DEF Extends
  <2>2. CASE ledger[w].signature \notin SignaturesOf(merged)
    <3>1. ledger[w] \in ToSet(new)
      BY <2>2 DEF Added
    <3>. QED BY <3>1, SignaturesAreElements DEF Extends
  <2>. QED BY <2>1, <2>2
<1>7. ledger[x].signature \in S \/ Cardinality(S) = Limit
  <2>1. CASE ledger[x] \in ToSet(answer)
    <3>1. Newer(x)
      BY <1>1, <2>1
    <3>. QED BY <1>5, <3>1
  <2>2. CASE /\ Len(answer) = Limit
             /\ \A i \in 1 .. Len(answer) :
                  \E w \in 1 .. Len(ledger) : w > x /\ ledger[w] = answer[i]
    <3>1. ASSUME NEW i \in 1 .. Len(answer) PROVE answer[i].signature \in S
      <4>1. PICK w \in 1 .. Len(ledger) : w > x /\ ledger[w] = answer[i]
        BY <2>2
      <4>2. Newer(w)
        BY <1>1, <4>1 DEF ToSet
      <4>. QED BY <1>5, <4>1, <4>2
    <3>2. ASSUME NEW s \in S PROVE s \in SignaturesOf(answer)
      BY <1>4, <3>2, SignaturesAreElements
    <3> HIDE DEF S
    <3>3. S = SignaturesOf(answer)
      BY <1>1, <3>1, <3>2 DEF SignaturesOf
    <3>4. Distinct(answer)
      BY AnswerDistinct
    <3>. QED BY <1>1, <2>2, <3>3, <3>4, SignaturesCount
  <2>. QED BY <1>3, <2>1, <2>2
<1> HIDE DEF S
<1>8. ASSUME NEW p \in DOMAIN txs, txs[p].signature \in S
      PROVE  /\ txs[p].slot >= ledger[x].slot
             /\ \A q \in DOMAIN txs, y \in 1 .. x - 1 : txs[q] = ledger[y] => Ahead(txs, p, q)
  <2>1. PICK w \in 1 .. Len(ledger) : Newer(w) /\ ledger[w].signature = txs[p].signature
    BY <1>4, <1>8
  <2>2. ledger[x].slot <= ledger[w].slot
    BY <1>1, <2>1, SlotsFollow
  <2>3. \A y \in 1 .. x - 1 : y \in 1 .. Len(ledger) /\ ledger[y].slot <= ledger[x].slot
    BY <1>1, SlotsFollow
  <2>4. CASE p \in 1 .. Len(merged) /\ txs[p] = merged[p]
    <3>1. FirstAddress(ledger[w]) < next
      BY <1>1, <2>1, <2>4 DEF PageInv, FirstAddress
    <3>2. ledger[w].slot > ledger[x].slot
      <4>1. ledger[w].slot # ledger[x].slot
        BY <1>1, <3>1 DEF SlotsUnshared
      <4>. QED BY <1>1, <2>2, <4>1
    <3>3. merged[p].slot > ledger[x].slot
      <4>1. CASE merged[p].slot <= finalized_slot
        <5>1. merged[p] \in ToSet(ledger) /\ ledger[w] \in ToSet(ledger)
          BY <1>1, <2>4, <4>1 DEF PageInv, ToSet
        <5>2. merged[p] = ledger[w]
          BY <1>1, <2>1, <2>4, <5>1, SameSignature
        <5>. QED BY <3>2, <5>2
      <4>2. CASE ~ (merged[p].slot <= finalized_slot)
        BY <1>1, <2>4, <4>2
      <4>. QED BY <4>1, <4>2
    <3>. QED BY <1>1, <2>3, <2>4, <3>3 DEF Ahead
  <2>5. CASE \E n \in 1 .. Len(new) : p = Len(merged) + n /\ txs[p] = new[n]
    <3>1. PICK n \in 1 .. Len(new) : p = Len(merged) + n /\ txs[p] = new[n]
      BY <2>5
    <3>2. new[n] \in ToSet(answer)
      BY <1>1, <3>1 DEF Added, ToSet
    <3>3. txs[p] = ledger[w]
      <4>1. txs[p] \in ToSet(ledger)
        <5>1. PICK i \in 1 .. Len(answer) : answer[i] = new[n]
          BY <1>1, <3>2 DEF ToSet
        <5>2. answer[i] \in ToSet(ledger)
          BY DEF IsAnswer
        <5>. QED BY <3>1, <5>1, <5>2
      <4>2. ledger[w] \in ToSet(ledger)
        BY <1>1 DEF ToSet
      <4>. QED BY <1>1, <2>1, <4>1, <4>2, SameSignature
    <3>4. ASSUME NEW q \in DOMAIN txs, NEW y \in 1 .. x - 1, txs[q] = ledger[y]
          PROVE  Ahead(txs, p, q)
      <4>1. CASE ledger[y].slot < ledger[w].slot
        BY <1>1, <2>3, <3>3, <3>4, <4>1 DEF Ahead
      <4>2. CASE ~ (ledger[y].slot < ledger[w].slot)
        <5>1. ledger[y].slot = ledger[w].slot /\ ledger[y].slot = ledger[x].slot
          BY <1>1, <2>2, <2>3, <4>2
        <5>2. FirstAddress(ledger[y]) = next
          BY <1>1, <2>3, <5>1 DEF SlotsUnshared
        <5>3. ~ (q \in 1 .. Len(merged) /\ txs[q] = merged[q])
          BY <1>1, <3>4, <5>2 DEF PageInv
        <5>4. PICK r \in 1 .. Len(new) : q = Len(merged) + r /\ txs[q] = new[r]
          BY <5>3 DEF Extends
        <5>5. w > y /\ w # y
          BY <1>1, <2>1, <2>3
        <5>6. n # r
          BY <1>1, <2>3, <3>1, <3>3, <3>4, <5>4, <5>5 DEF Distinct
        <5>7. ~ (r < n)
          <6> SUFFICES ASSUME r < n PROVE FALSE
            OBVIOUS
          <6>1. Precedes(new[r], new[n], answer)
            BY DEF Added
          <6>2. PICK i \in 1 .. Len(answer), j \in 1 .. Len(answer) :
                  i < j /\ answer[i] = ledger[y] /\ answer[j] = ledger[w]
            BY <1>1, <3>1, <3>3, <3>4, <5>4, <6>1 DEF Precedes
          <6>3. PICK a \in 1 .. Len(ledger), b \in 1 .. Len(ledger) :
                  a > b /\ ledger[a] = ledger[y] /\ ledger[b] = ledger[w]
            BY <6>2 DEF IsAnswer
          <6>4. a = y /\ b = w
            BY <1>1, <2>3, <6>3 DEF Distinct
          <6>. QED BY <1>1, <2>3, <5>5, <6>3, <6>4
        <5>8. p < q
          BY <1>1, <3>1, <5>4, <5>6, <5>7
        <5>. QED BY <3>3, <3>4, <5>1, <5>8 DEF Ahead
      <4>. QED BY <4>1, <4>2
    <3>5. txs[p].slot >= ledger[x].slot
      BY <1>1, <2>2, <3>3
    <3>. QED BY <3>4, <3>5
  <2>. QED BY <2>4, <2>5 DEF Extends
<1>9. AllAhead(ledger, txs, S, x)
  BY <1>8 DEF AllAhead
<1>. QED BY <1>6, <1>7, <1>9 DEF Screened

LEMMA PageAddressKeeps ==
    ASSUME BInv, BInv', DescentInv, Limit <= Page, page_address
    PROVE  DescentInv'
<1> DEFINE answer == signatures_before(next, descent.signature)
           new == unlisted(answer)
           txs == merged'
           M == Len(merged)
<1>1. /\ UNCHANGED <<ledger, final, pc, finalized_slot, descent, rows, owed>>
      /\ pc = "fetching" /\ next' = next + 1
      /\ txs = Join(merged, new)
  BY DEF page_address, chain, Join
<1>2. /\ ledger \in Seq(Transaction) /\ Distinct(ledger) /\ merged \in Seq(Transaction)
      /\ DOMAIN ledger = 1 .. Len(ledger)
      /\ \A i \in 1 .. Len(ledger) : ledger[i] \in Transaction
      /\ M \in Nat /\ DOMAIN merged = 1 .. M /\ next \in Nat
      /\ \A i \in 1 .. M : merged[i] \in Transaction
      /\ PageInv /\ OwedInv /\ SlotsUnshared(ledger)
  BY <1>1, BackfillTypes DEF BInv, ChainOrder, DescentInv
<1> HIDE DEF answer, new, M, txs
<1>3. IsAnswer(answer, next, descent.signature)
  BY <1>2, AnswerContract DEF answer
<1>4. answer \in Seq(Transaction) /\ Distinct(answer)
  <2>1. answer \in Seq(Transaction)
    BY <1>3 DEF IsAnswer
  <2>2. Distinct(answer)
    BY <1>3, AnswerDistinct
  <2>. QED BY <2>1, <2>2
<1>5. Added(new, answer)
  BY <1>4, UnlistedIsAdded DEF new
<1>6. Extends(txs, merged, new)
  BY <1>1, <1>2, <1>5, JoinExtends DEF Added
<1>7. ASSUME NEW n \in 1 .. Len(new)
      PROVE  /\ new[n] \in Transaction /\ new[n] \in ToSet(new)
             /\ new[n] \in ToSet(ledger) /\ next \in Touches[new[n].signature]
             /\ new[n].signature \notin SignaturesOf(merged)
  <2>1. new[n] \in ToSet(new) /\ new[n] \in Transaction
    BY <1>5 DEF Added, ToSet
  <2>2. new[n] \in ToSet(answer) /\ new[n].signature \notin SignaturesOf(merged)
    BY <1>5, <2>1 DEF Added
  <2>3. PICK i \in 1 .. Len(answer) : answer[i] = new[n]
    BY <1>4, <2>2, ToSetIndices
  <2>. QED BY <1>3, <2>1, <2>2, <2>3 DEF IsAnswer
<1>8. Distinct(txs)
  <2> SUFFICES ASSUME NEW i \in DOMAIN txs, NEW j \in DOMAIN txs, i < j
               PROVE  txs[i].signature # txs[j].signature
    <3>1. \A i \in DOMAIN txs : i \in Int
      BY <1>6 DEF Extends
    <3>. QED BY <3>1 DEF Distinct
  <2>1. CASE i \in 1 .. M /\ j \in 1 .. M
    <3>1. txs[i] = merged[i] /\ txs[j] = merged[j]
      BY <1>6, <2>1 DEF Extends, M
    <3>2. Distinct(merged) /\ i \in DOMAIN merged /\ j \in DOMAIN merged /\ i # j
      BY <1>2, <2>1 DEF PageInv
    <3>. QED BY <3>1, <3>2 DEF Distinct
  <2>2. CASE i \in 1 .. M /\ j \notin 1 .. M
    <3>1. PICK n \in 1 .. Len(new) : txs[j] = new[n]
      BY <1>6, <2>2 DEF Extends, M
    <3>2. txs[i].signature \in SignaturesOf(merged)
      BY <1>2, <1>6, <2>2 DEF Extends, SignaturesOf, M
    <3>. QED BY <1>7, <3>1, <3>2
  <2>3. CASE i \notin 1 .. M
    <3>1. j \notin 1 .. M
      BY <1>2, <1>6, <2>3 DEF Extends
    <3>2. PICK n \in 1 .. Len(new) : i = M + n /\ txs[i] = new[n]
      BY <1>6, <2>3 DEF Extends, M
    <3>3. PICK k \in 1 .. Len(new) : j = M + k /\ txs[j] = new[k]
      BY <1>6, <3>1 DEF Extends, M
    <3>4. n < k
      BY <1>2, <3>2, <3>3
    <3>5. Precedes(new[n], new[k], answer)
      BY <1>5, <3>4 DEF Added
    <3>6. PICK a \in DOMAIN answer, b \in DOMAIN answer :
            a < b /\ answer[a] = new[n] /\ answer[b] = new[k]
      BY <3>5 DEF Precedes
    <3>7. a # b
      BY <1>4, <3>6
    <3>. QED BY <1>4, <3>2, <3>3, <3>6, <3>7 DEF Distinct
  <2>. QED BY <2>1, <2>2, <2>3
<1>9. ASSUME NEW i \in DOMAIN txs
      PROVE  /\ FirstAddress(txs[i]) < next + 1
             /\ txs[i].slot <= finalized_slot => txs[i] \in ToSet(ledger)
  <2>1. CASE i \in 1 .. M /\ txs[i] = merged[i]
    <3>1. FirstAddress(merged[i]) \in Nat
      BY <1>2, <2>1, FirstAddressType
    <3>. QED BY <1>2, <2>1, <3>1 DEF PageInv
  <2>2. CASE \E n \in 1 .. Len(new) : i = M + n /\ txs[i] = new[n]
    <3>1. PICK n \in 1 .. Len(new) : txs[i] = new[n]
      BY <2>2
    <3>2. FirstAddress(new[n]) \in Nat /\ FirstAddress(new[n]) <= next
      BY <1>7, FirstAddressType
    <3>. QED BY <1>2, <1>7, <3>1, <3>2
  <2>. QED BY <1>6, <2>1, <2>2 DEF Extends, M
<1>10. ASSUME NEW x \in DOMAIN ledger, ledger[x].slot <= finalized_slot,
              ledger[x].signature \in SignaturesOf(txs)
       PROVE  ledger[x] \in ToSet(txs)
  <2>1. CASE ledger[x].signature \in SignaturesOf(merged)
    BY <1>2, <1>6, <1>10, <2>1 DEF PageInv, Extends
  <2>2. CASE ledger[x].signature \notin SignaturesOf(merged)
    <3>1. PICK tx \in ToSet(txs) : tx.signature = ledger[x].signature
      BY <1>10, SignaturesAreElements
    <3>2. tx \in ToSet(new)
      BY <1>6, <2>2, <3>1, SignaturesAreElements DEF Extends
    <3>3. PICK n \in 1 .. Len(new) : new[n] = tx
      BY <1>5, <3>2, ToSetIndices DEF Added
    <3>4. tx = ledger[x]
      <4>1. ledger[x] \in ToSet(ledger)
        BY DEF ToSet
      <4>. QED BY <1>2, <1>7, <3>1, <3>3, <4>1, SameSignature
    <3>. QED BY <3>1, <3>4
  <2>. QED BY <2>1, <2>2
<1>11. ASSUME NEW x \in DOMAIN ledger, ledger[x].slot <= finalized_slot,
              Below(ledger, x, descent.signature), FirstAddress(ledger[x]) < next + 1
       PROVE  Screened(ledger, txs, x)
  <2>0. x \in 1 .. Len(ledger) /\ FirstAddress(ledger[x]) \in Nat
    BY <1>2, FirstAddressType
  <2>1. CASE FirstAddress(ledger[x]) < next
    <3>1. Screened(ledger, merged, x)
      BY <1>2, <1>11, <2>1 DEF PageInv
    <3>. QED BY <1>4, <1>5, <1>6, <2>0, <3>1, StaysScreened
  <2>2. CASE FirstAddress(ledger[x]) = next
    BY <1>2, <1>3, <1>5, <1>6, <1>11, <2>0, <2>2, AnswerScreens
  <2>. QED BY <1>2, <1>11, <2>0, <2>1, <2>2
<1>12. PageInv'
  <2>1. ~descent.complete /\ \A tx \in owed : tx.slot <= finalized_slot
    BY <1>2 DEF PageInv
  <2>. QED BY <1>1, <1>8, <1>9, <1>10, <1>11, <2>1 DEF PageInv, txs
<1>13. OwedInv' /\ SlotsUnshared(ledger')
  BY <1>1, <1>2 DEF OwedInv
<1>. QED BY <1>12, <1>13 DEF DescentInv


-----------------------------------------------------------------------------
(* The other steps of the descent. *)

LEMMA BeginKeeps ==
    ASSUME BInv, DescentInv, begin
    PROVE  DescentInv'
<1>1. /\ UNCHANGED <<ledger, rows>> /\ pc' = "stepping"
      /\ descent' = new_descent /\ owed' = Succeeded(Finalized)
  BY DEF begin, chain
<1>2. descent'.signature = NoSignature /\ descent'.complete = FALSE
  BY <1>1 DEF new_descent
<1>3. ASSUME NEW tx \in owed'
      PROVE  \E x \in DOMAIN ledger : ledger[x] = tx /\ Below(ledger, x, NoSignature)
  <2>1. tx \in ToSet(ledger)
    BY <1>1, <1>3 DEF Succeeded, Finalized
  <2>2. PICK x \in 1 .. Len(ledger) : ledger[x] = tx
    BY <2>1, BackfillTypes DEF ToSet
  <2>3. \A z \in 1 .. x : z \in 1 .. Len(ledger)
    BY BackfillTypes
  <2>4. Below(ledger, x, NoSignature)
    BY <2>3, BackfillTypes, TransactionFields DEF Below
  <2>. QED BY <2>2, <2>4, BackfillTypes
<1>4. OwedInv'
  BY <1>1, <1>2, <1>3 DEF OwedInv
<1>. QED BY <1>1, <1>4 DEF DescentInv

LEMMA StepFinalityKeeps ==
    ASSUME BInv, DescentInv, step_finality
    PROVE  DescentInv'
<1>1. /\ UNCHANGED <<ledger, final, next, merged, descent, rows, owed>>
      /\ pc = "stepping" /\ pc' = "fetching" /\ finalized_slot' = final /\ ~descent.complete
  BY DEF step_finality, chain
<1>2. merged = <<>> /\ next = 1 /\ owed \subseteq Succeeded(Finalized)
  BY <1>1 DEF BInv, RowsInv
<1>3. \A tx \in owed : tx.slot <= final
  BY <1>2 DEF Succeeded, Finalized
<1>4. Distinct(merged) /\ DOMAIN merged = {} /\ SignaturesOf(merged) = {}
  BY <1>2 DEF Distinct, SignaturesOf
<1>5. \A x \in DOMAIN ledger : ~ (FirstAddress(ledger[x]) < 1)
  <2> SUFFICES ASSUME NEW x \in DOMAIN ledger PROVE ~ (FirstAddress(ledger[x]) < 1)
    OBVIOUS
  <2>1. ledger[x] \in Transaction
    BY BackfillTypes
  <2>2. FirstAddress(ledger[x]) \in Touches[ledger[x].signature] /\ ledger[x].signature \in Signatures
    BY <2>1, FirstAddressType, TransactionFields
  <2>3. FirstAddress(ledger[x]) \in 1 .. NumAddresses
    BY <2>2, ClusterAssumption
  <2>. QED BY <2>3, ClusterAssumption
<1>6. PageInv'
  BY <1>1, <1>2, <1>3, <1>4, <1>5 DEF PageInv
<1>. QED BY <1>1, <1>6 DEF DescentInv, OwedInv

LEMMA ReachGenesisKeeps ==
    ASSUME BInv, DescentInv, reach_genesis
    PROVE  DescentInv'
<1>1. /\ UNCHANGED <<ledger, rows, owed>>
      /\ pc = "fetching" /\ pc' = "stepping" /\ next > NumAddresses /\ page = <<>>
  BY DEF reach_genesis, PageIsHere, chain, covered
<1>2. merged = <<>>
  BY <1>1, BackfillTypes, PageContract
<1>3. owed \ rows = {}
  <2> SUFFICES ASSUME NEW tx \in owed \ rows PROVE FALSE
    OBVIOUS
  <2>1. PICK x \in DOMAIN ledger : ledger[x] = tx /\ Below(ledger, x, descent.signature)
    BY DEF DescentInv, OwedInv
  <2>2. ledger[x].slot <= finalized_slot
    BY <1>1, <2>1 DEF DescentInv, PageInv
  <2>3. FirstAddress(ledger[x]) < next
    <3>1. ledger[x] \in Transaction
      BY BackfillTypes
    <3>2. FirstAddress(ledger[x]) \in Touches[ledger[x].signature] /\ ledger[x].signature \in Signatures
      BY <3>1, FirstAddressType, TransactionFields
    <3>3. FirstAddress(ledger[x]) \in 1 .. NumAddresses
      BY <3>2, ClusterAssumption
    <3>. QED BY <1>1, <3>3, BackfillTypes, ClusterAssumption
  <2>4. Screened(ledger, merged, x)
    BY <1>1, <2>1, <2>2, <2>3 DEF DescentInv, PageInv
  <2>5. SignaturesOf(merged) = {}
    BY <1>2 DEF SignaturesOf
  <2>6. Cardinality({}) = Limit
    BY <2>4, <2>5 DEF Screened
  <2>. QED BY <2>6, FS_EmptySet, ClusterAssumption
<1>. QED BY <1>1, <1>3 DEF DescentInv, OwedInv

LEMMA EndsKeeps ==
    ASSUME DescentInv, Ends
    PROVE  DescentInv'
<1>1. UNCHANGED ledger /\ pc' = "down" /\ owed' = {}
  BY DEF Ends, chain
<1>. QED BY <1>1 DEF DescentInv, OwedInv

\* What a page yields of the ledger, and what it leaves.
LEMMA PageIsDecided ==
    ASSUME BInv, PageInv, pc = "fetching", next > NumAddresses, page # <<>>, PageAvailable,
           NEW x \in 1 .. Len(ledger), ledger[x].slot <= finalized_slot,
           ledger[x].signature \notin Failed,
           Below(ledger, x, descent.signature),
           ledger[x] \notin {tx \in logs_of(succeeded(page)) : tx.slot <= finalized_slot}
    PROVE  Below(ledger, x, Last(page).signature)
<1>1. ASSUME NEW k \in 1 .. Len(page), page[k] = ledger[x] PROVE FALSE
  <2>1. ledger[x] \in succeeded(page)
    <3>1. DOMAIN page = 1 .. Len(page)
      BY BackfillTypes, PageContract
    <3>. QED BY <1>1, <3>1 DEF succeeded, Succeeded, ToSet
  <2>2. ledger[x] \in ToSet(ledger) /\ Distinct(ledger)
    BY BackfillTypes DEF BInv, ChainOrder, ToSet
  <2>3. ledger[x].signature \in SignaturesOf(ledger)
    BY <2>2, SignaturesAreElements
  <2>4. Entry(ledger[x].signature) = ledger[x]
    BY <2>2, <2>3, EntryContract, SameSignature
  <2>5. ledger[x] \in logs_of(succeeded(page))
    BY <2>1, <2>4 DEF logs_of
  <2>. QED BY <2>5
<1>. QED BY <1>1, PageStepsOverNothing

LEMMA StepDescends ==
    ASSUME BInv, DescentInv, step
    PROVE  DescentInv'
<1>1. /\ UNCHANGED <<ledger, owed>>
      /\ pc = "fetching" /\ pc' = "stepping" /\ next > NumAddresses
      /\ PageAvailable /\ page # <<>> /\ descent' = Descended
      /\ rows' = rows \cup {tx \in logs_of(succeeded(page)) : tx.slot <= finalized_slot}
  BY DEF step, PageIsHere, chain, covered
<1>2. PageInv /\ OwedInv /\ SlotsUnshared(ledger) /\ ~descent.complete
  BY <1>1 DEF DescentInv, PageInv
<1>3. descent' = Descent(Last(page).slot, Last(page).signature, descent.complete)
  BY <1>1, DescentFields, DescentUpdates DEF Descended, covered
<1>4. descent'.signature = Last(page).signature /\ descent'.complete = descent.complete
  BY <1>3 DEF Descent
<1>5. ASSUME NEW tx \in owed \ rows'
      PROVE  \E x \in DOMAIN ledger : ledger[x] = tx /\ Below(ledger, x, Last(page).signature)
  <2>1. tx \in owed \ rows
        /\ tx \notin {u \in logs_of(succeeded(page)) : u.slot <= finalized_slot}
    BY <1>1, <1>5
  <2>2. PICK x \in DOMAIN ledger : ledger[x] = tx /\ Below(ledger, x, descent.signature)
    BY <1>2, <2>1 DEF OwedInv
  <2>3. x \in 1 .. Len(ledger) /\ ledger[x].slot <= finalized_slot
    BY <1>2, <2>1, <2>2, BackfillTypes DEF PageInv
  <2>4. ledger[x].signature \notin Failed
    BY <2>1, <2>2 DEF BInv, RowsInv, Succeeded
  <2>5. Below(ledger, x, Last(page).signature)
    BY <1>1, <1>2, <2>1, <2>2, <2>3, <2>4, PageIsDecided
  <2>. QED BY <2>2, <2>5
<1>6. OwedInv'
  BY <1>1, <1>2, <1>4, <1>5 DEF OwedInv
<1>. QED BY <1>1, <1>2, <1>6 DEF DescentInv

\* Two lists that agree up to a place say the same of it.
LEMMA SameUpTo ==
    ASSUME NEW list, NEW list2, NEW x \in Nat, x > 0, \A z \in 1 .. x : list2[z] = list[z],
           NEW txs, NEW signature
    PROVE  /\ Below(list, x, signature) <=> Below(list2, x, signature)
           /\ Screened(list, txs, x) => Screened(list2, txs, x)
<1>1. list2[x] = list[x] /\ \A y \in 1 .. x - 1 : list2[y] = list[y]
  OBVIOUS
<1>2. ASSUME NEW S, AllAhead(list, txs, S, x) PROVE AllAhead(list2, txs, S, x)
  BY <1>1, <1>2 DEF AllAhead
<1>. QED BY <1>1, <1>2 DEF Below, Screened

LEMMA ClusterMovesKeeps ==
    ASSUME BInv, DescentInv, NoSlotIsShared, ClusterMoves
    PROVE  DescentInv'
<1>1. /\ UNCHANGED <<pc, next, finalized_slot, merged, descent, rows, owed>>
      /\ ChainStep /\ SlotsUnshared(ledger')
  BY ClusterMovesEffect DEF DescentInv
<1>2. /\ ledger \in Seq(Transaction) /\ ledger' \in Seq(Transaction)
      /\ final \in Nat /\ finalized_slot \in Nat
      /\ DOMAIN ledger = 1 .. Len(ledger) /\ Len(ledger) \in Nat
      /\ \A i \in 1 .. Len(ledger) : ledger[i].slot \in Nat
      /\ ChainOrder(ledger) /\ ChainOrder(ledger') /\ FinalKept(ledger, final, ledger')
  BY <1>1, BackfillTypes DEF ChainStep, BInv
<1>3. /\ DOMAIN ledger' = 1 .. Len(ledger') /\ Len(ledger') \in Nat
      /\ \A i \in 1 .. Len(ledger') : ledger'[i] \in Transaction /\ ledger'[i].slot \in Nat
  <2>1. /\ DOMAIN ledger' = 1 .. Len(ledger') /\ Len(ledger') \in Nat
        /\ \A i \in 1 .. Len(ledger') : ledger'[i] \in Transaction
    BY <1>2
  <2>. QED BY <2>1, TransactionFields
<1>4. ASSUME NEW x \in DOMAIN ledger, ledger[x].slot <= final
      PROVE  /\ x \in DOMAIN ledger' /\ x \in Nat /\ x > 0
             /\ \A z \in 1 .. x : ledger'[z] = ledger[z]
  <2>1. \A z \in 1 .. x : z \in DOMAIN ledger /\ ledger[z].slot <= final
    <3> SUFFICES ASSUME NEW z \in 1 .. x PROVE z \in DOMAIN ledger /\ ledger[z].slot <= final
      OBVIOUS
    <3>1. z \in 1 .. Len(ledger) /\ x \in 1 .. Len(ledger) /\ z <= x
      BY <1>2
    <3>2. ledger[z].slot <= ledger[x].slot
      BY <3>1, SlotsFollow
    <3>. QED BY <1>2, <1>4, <3>1, <3>2
  <2>. QED BY <1>2, <1>4, <2>1 DEF FinalKept
<1>5. ASSUME NEW x \in DOMAIN ledger', ledger'[x].slot <= final
      PROVE  x \in DOMAIN ledger /\ ledger[x] = ledger'[x]
  BY <1>2, <1>5 DEF FinalKept
<1>6. OwedInv'
  <2> SUFFICES ASSUME NEW tx \in owed \ rows
               PROVE  /\ ~descent.complete
                      /\ \E x \in DOMAIN ledger' :
                           ledger'[x] = tx /\ Below(ledger', x, descent.signature)
    BY <1>1 DEF OwedInv, DescentInv
  <2>1. PICK x \in DOMAIN ledger : ledger[x] = tx /\ Below(ledger, x, descent.signature)
    BY DEF DescentInv, OwedInv
  <2>2. ledger[x].slot <= final
    BY <2>1 DEF BInv, RowsInv, Succeeded, Finalized
  <2>3. /\ x \in DOMAIN ledger' /\ x \in Nat /\ x > 0
        /\ \A z \in 1 .. x : ledger'[z] = ledger[z]
    BY <1>4, <2>2
  <2>4. Below(ledger', x, descent.signature) /\ ledger'[x] = tx
    <3>1. ledger'[x] = ledger[x]
      BY <2>3
    <3>. QED BY <2>1, <2>3, <3>1 DEF Below
  <2>. QED BY <2>3, <2>4 DEF DescentInv, OwedInv
<1>7. ASSUME pc = "fetching" PROVE PageInv'
  <2>1. PageInv /\ finalized_slot <= final
    BY <1>7 DEF DescentInv, BInv, RowsInv
  <2>2. ASSUME NEW i \in DOMAIN merged, merged[i].slot <= finalized_slot
        PROVE  merged[i] \in ToSet(ledger')
    <3>1. merged[i] \in Transaction /\ merged[i].slot <= final /\ merged[i] \in ToSet(ledger)
      BY <1>2, <2>1, <2>2, BackfillTypes DEF PageInv
    <3>. QED BY <1>2, <3>1, FinalEntries
  <2>3. ASSUME NEW x \in DOMAIN ledger', ledger'[x].slot <= finalized_slot
        PROVE  /\ x \in DOMAIN ledger /\ ledger[x] = ledger'[x]
               /\ x \in Nat /\ x > 0 /\ \A z \in 1 .. x : ledger'[z] = ledger[z]
    <3>1. ledger'[x].slot <= final
      BY <1>2, <1>3, <2>1, <2>3
    <3>2. x \in DOMAIN ledger /\ ledger[x] = ledger'[x]
      BY <1>5, <3>1
    <3>. QED BY <1>4, <3>1, <3>2
  <2>4. ASSUME NEW x \in DOMAIN ledger', ledger'[x].slot <= finalized_slot,
               ledger'[x].signature \in SignaturesOf(merged)
        PROVE  ledger'[x] \in ToSet(merged)
    BY <2>1, <2>3, <2>4 DEF PageInv
  <2>5. ASSUME NEW x \in DOMAIN ledger', ledger'[x].slot <= finalized_slot,
               Below(ledger', x, descent.signature), FirstAddress(ledger'[x]) < next
        PROVE  Screened(ledger', merged, x)
    <3>1. /\ x \in DOMAIN ledger /\ ledger[x] = ledger'[x]
          /\ x \in Nat /\ x > 0 /\ \A z \in 1 .. x : ledger'[z] = ledger[z]
      BY <2>3, <2>5
    <3>2. Below(ledger, x, descent.signature)
      BY <2>5, <3>1, SameUpTo
    <3>3. Screened(ledger, merged, x)
      BY <2>1, <2>5, <3>1, <3>2 DEF PageInv
    <3>. QED BY <3>1, <3>3, SameUpTo
  <2>6. /\ ~descent.complete /\ \A tx \in owed : tx.slot <= finalized_slot
        /\ Distinct(merged) /\ \A i \in DOMAIN merged : FirstAddress(merged[i]) < next
    BY <2>1 DEF PageInv
  <2>. QED BY <1>1, <2>2, <2>4, <2>5, <2>6 DEF PageInv
<1>. QED BY <1>1, <1>6, <1>7 DEF DescentInv

LEMMA DescentKept ==
    ASSUME Limit <= Page, NoSlotIsShared, BInv, BInv', DescentInv,
           [BackfillNext]_backfill_vars
    PROVE  DescentInv'
<1>1. CASE UNCHANGED backfill_vars
  <2>1. UNCHANGED <<ledger, pc, next, finalized_slot, merged, descent, rows, owed>>
    BY <1>1 DEF backfill_vars
  <2>. QED BY <2>1 DEF DescentInv, OwedInv, PageInv
<1>2. CASE Ends
  BY <1>2, EndsKeeps
<1>3. CASE BackfillNext
  BY <1>2, <1>3, BeginKeeps, StepFinalityKeeps, PageAddressKeeps, ReachGenesisKeeps,
     StepDescends, ClusterMovesKeeps
     DEF BackfillNext, Caller, step_fails, CallerCrash
<1>. QED BY <1>1, <1>3

\* What was final when a descent began has been yielded, or is still below the bound the
\* descent asks from: no page steps over it, whatever is confirmed, finalised or taken
\* back between two requests, with however many addresses, failures among what they
\* list, and items in a page: given that a request may answer a full page, and that no
\* slot holds transactions recorded first under two programs.
THEOREM NothingIsEverSteppedOver ==
    ASSUME Limit <= Page, NoSlotIsShared
    PROVE  BackfillSpec => []NothingSteppedOver
<1>1. BackfillInit => BInv /\ DescentInv
  BY BackfillStarts
<1>2. BInv /\ DescentInv /\ [BackfillNext]_backfill_vars => (BInv /\ DescentInv)'
  BY HistoryKept, DescentKept
<1>3. ASSUME BInv, DescentInv PROVE NothingSteppedOver
  <2> SUFFICES ASSUME NEW tx \in owed \ rows
               PROVE  ~descent.complete /\ tx \in ToSet(Before(descent.signature))
    BY DEF NothingSteppedOver
  <2>1. PICK x \in 1 .. Len(ledger) : ledger[x] = tx /\ Below(ledger, x, descent.signature)
    BY <1>3, BackfillTypes DEF DescentInv, OwedInv
  <2> DEFINE older == Before(descent.signature)
  <2>2. ledger \in Seq(Transaction) /\ Len(ledger) \in Nat
    BY <1>3, BackfillTypes
  <2>3. PICK n \in 0 .. Len(ledger) :
          /\ older \in Seq(Transaction) /\ Len(older) = n
          /\ \A i \in 1 .. n : older[i] = ledger[n - i + 1] /\ n - i + 1 \in 1 .. n
          /\ \A y \in 1 .. Len(ledger) : y <= n <=> Below(ledger, y, descent.signature)
    BY <2>2, BeforeContract
  <2> HIDE DEF older
  <2>4. x <= n /\ n - x + 1 \in 1 .. n /\ n - (n - x + 1) + 1 = x
    BY <2>1, <2>2, <2>3
  <2>5. older[n - x + 1] = tx
    BY <2>1, <2>3, <2>4
  <2>6. tx \in ToSet(older)
    BY <2>3, <2>4, <2>5 DEF ToSet
  <2>7. ~descent.complete
    BY <1>3 DEF DescentInv, OwedInv
  <2>. QED BY <2>6, <2>7 DEF older
<1>. QED BY <1>1, <1>2, <1>3, PTL DEF BackfillSpec
=============================================================================
