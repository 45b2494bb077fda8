--------------------------- MODULE SortedListsProofs ---------------------------
(***************************************************************************)
(* Sorted lists of finite sets: places number the elements, pieces of any  *)
(* size leave out nothing and follow one another, and InOrder lists each   *)
(* element once, in order.                                                 *)
(***************************************************************************)
EXTENDS SortedLists, Sequences, FiniteSetTheorems, TLAPS

\* The quotient rounded up finds the piece of place r.
LEMMA PieceOf ==
    ASSUME NEW n \in Nat \ {0}, NEW c \in Nat, NEW r \in 1 .. c
    PROVE  \E i \in 1 .. (c + n - 1) \div n : (i - 1) * n < r /\ r <= i * n
<1> DEFINE q == (r + n - 1) \div n
           all == (c + n - 1) \div n
<1>1. q \in Int /\ all \in Int
  OBVIOUS
<1>2. q * n <= r + n - 1 /\ r + n - 1 < q * n + n
  OBVIOUS
<1>3. all * n <= c + n - 1 /\ c + n - 1 < all * n + n
  OBVIOUS
<1> HIDE DEF q, all
<1>4. q * n \in Int /\ all * n \in Int
  BY <1>1
<1>5. (q - 1) * n = q * n - n /\ (all + 1) * n = all * n + n
  BY <1>1
<1>6. q <= all
  <2> SUFFICES ASSUME q >= all + 1
               PROVE  FALSE
    BY <1>1
  <2>1. q * n >= (all + 1) * n
    BY <1>1
  <2> QED
    BY <1>2, <1>3, <1>4, <1>5, <2>1
<1>7. q >= 1
  <2> SUFFICES ASSUME q <= 0
               PROVE  FALSE
    BY <1>1
  <2>1. q * n <= 0
    BY <1>1
  <2> QED
    BY <1>2, <1>4, <2>1
<1>8. q \in 1 .. all
  BY <1>1, <1>6, <1>7
<1>9. (q - 1) * n < r /\ r <= q * n
  BY <1>2, <1>4, <1>5
<1> QED
  BY <1>8, <1>9 DEF all

\* Places are numbers from 1 on, ascending with the keys.
LEMMA Ranks ==
    ASSUME NEW keys \in SUBSET Int, IsFiniteSet(keys)
    PROVE  /\ Cardinality(keys) \in Nat
           /\ \A k \in keys : Rank(k, keys) \in 1 .. Cardinality(keys)
           /\ \A k, m \in keys : k < m => Rank(k, keys) < Rank(m, keys)
<1>. DEFINE UpTo(k) == {m \in keys : m <= k}
<1>1. Cardinality(keys) \in Nat
  BY FS_CardinalityType
<1>2. ASSUME NEW k \in keys
      PROVE  /\ IsFiniteSet(UpTo(k)) /\ Cardinality(UpTo(k)) \in Nat
             /\ Cardinality(UpTo(k)) \in 1 .. Cardinality(keys)
  <2>1. k \in UpTo(k) /\ UpTo(k) \in SUBSET keys
    BY <1>2
  <2>2. IsFiniteSet(UpTo(k)) /\ Cardinality(UpTo(k)) <= Cardinality(keys)
    BY <2>1, FS_Subset
  <2>3. Cardinality(UpTo(k)) \in Nat /\ Cardinality(UpTo(k)) # 0
    BY <2>1, <2>2, FS_CardinalityType, FS_EmptySet
  <2>. QED
    BY <1>1, <2>2, <2>3
<1>3. ASSUME NEW k \in keys, NEW m \in keys, k < m
      PROVE  Cardinality(UpTo(k)) < Cardinality(UpTo(m))
  <2>1. UpTo(k) \in SUBSET UpTo(m) /\ m \in UpTo(m) /\ m \notin UpTo(k)
    <3>1. k \in Int /\ m \in Int /\ \A x \in keys : x \in Int
      OBVIOUS
    <3>2. \A x \in keys : x <= k => x <= m
      BY <1>3, <3>1
    <3>3. m <= m /\ ~(m <= k)
      BY <1>3, <3>1
    <3>. QED
      BY <3>2, <3>3
  <2>2. /\ Cardinality(UpTo(k)) <= Cardinality(UpTo(m))
        /\ Cardinality(UpTo(k)) # Cardinality(UpTo(m))
    BY <1>2, <2>1, FS_Subset
  <2>. QED
    BY <1>2, <2>2
<1>. QED
  BY <1>1, <1>2, <1>3 DEF Rank

\* Every place is that of a key.
LEMMA PlacesAreTaken ==
    ASSUME NEW keys \in SUBSET Int, IsFiniteSet(keys),
           NEW i \in 1 .. Cardinality(keys)
    PROVE  \E k \in keys : Rank(k, keys) = i
<1>. DEFINE n == Cardinality(keys)
            f == [k \in keys |-> Rank(k, keys)]
<1>1. n \in Nat /\ f \in [keys -> 1 .. n]
  BY Ranks
<1>2. ASSUME NEW k \in keys, NEW m \in keys, k # m
      PROVE  f[k] # f[m]
  <2>1. k < m \/ m < k
    BY <1>2
  <2>2. /\ Rank(k, keys) \in Int /\ Rank(m, keys) \in Int
        /\ k < m => Rank(k, keys) < Rank(m, keys)
        /\ m < k => Rank(m, keys) < Rank(k, keys)
    BY Ranks
  <2>. QED
    BY <2>1, <2>2
<1>3. f \in Injection(keys, 1 .. n)
  BY <1>1, <1>2 DEF Injection, IsInjective
<1>4. IsFiniteSet(1 .. n) /\ Cardinality(1 .. n) = n
  BY <1>1, FS_Interval
<1>5. f \in Surjection(keys, 1 .. n)
  BY <1>3, <1>4, FS_Injection
<1>. QED
  BY <1>5 DEF Surjection

\* A finite set of integers has a least and a greatest element.
LEMMA Extremes ==
    ASSUME NEW keys \in SUBSET Int, IsFiniteSet(keys), keys # {}
    PROVE  \E lo, hi \in keys : \A k \in keys : lo <= k /\ k <= hi
<1>1. Cardinality(keys) \in Nat /\ Cardinality(keys) # 0
  BY FS_CardinalityType, FS_EmptySet
<1>2. PICK lo \in keys : Rank(lo, keys) = 1
  BY <1>1, PlacesAreTaken
<1>3. PICK hi \in keys : Rank(hi, keys) = Cardinality(keys)
  BY <1>1, PlacesAreTaken
<1>4. ASSUME NEW k \in keys
      PROVE  lo <= k /\ k <= hi
  <2>1. Rank(k, keys) \in 1 .. Cardinality(keys)
    BY Ranks
  <2>2. k < lo => Rank(k, keys) < 1
    BY <1>2, Ranks
  <2>3. hi < k => Cardinality(keys) < Rank(k, keys)
    BY <1>3, Ranks
  <2>. QED
    BY <1>1, <2>1, <2>2, <2>3
<1>. QED
  BY <1>4

\* The pieces of a set are a sequence of its subsets that covers it.
LEMMA PiecesCover ==
    ASSUME NEW keys \in SUBSET Int, IsFiniteSet(keys), NEW n \in Nat \ {0}
    PROVE  /\ Pieces(keys, n) \in Seq(SUBSET keys)
           /\ DOMAIN Pieces(keys, n) = 1 .. (Cardinality(keys) + n - 1) \div n
           /\ \A i \in DOMAIN Pieces(keys, n) : Pieces(keys, n)[i] = Piece(keys, n, i)
           /\ \A k \in keys : \E i \in DOMAIN Pieces(keys, n) : k \in Pieces(keys, n)[i]
<1>1. Cardinality(keys) \in Nat
  BY Ranks
<1>. DEFINE all == (Cardinality(keys) + n - 1) \div n
<1>2. all \in Nat
  BY <1>1
<1>. HIDE DEF all
<1>3. Pieces(keys, n) = [i \in 1 .. all |-> Piece(keys, n, i)]
  BY DEF Pieces, all
<1>4. \A i \in 1 .. all : Piece(keys, n, i) \in SUBSET keys
  BY DEF Piece
<1>5. Pieces(keys, n) \in Seq(SUBSET keys)
  BY <1>2, <1>3, <1>4
<1>6. ASSUME NEW k \in keys
      PROVE  \E i \in 1 .. all : k \in Piece(keys, n, i)
  <2>1. Rank(k, keys) \in 1 .. Cardinality(keys)
    BY Ranks
  <2>2. PICK i \in 1 .. all : (i - 1) * n < Rank(k, keys) /\ Rank(k, keys) <= i * n
    BY <1>1, <2>1, PieceOf DEF all
  <2>. QED
    BY <2>2 DEF Piece
<1>. QED
  BY <1>3, <1>5, <1>6 DEF all

\* No piece is empty, and each comes before the next.
LEMMA PiecesAscend ==
    ASSUME NEW keys \in SUBSET Int, IsFiniteSet(keys), NEW n \in Nat \ {0},
           NEW i \in DOMAIN Pieces(keys, n)
    PROVE  /\ Pieces(keys, n)[i] # {}
           /\ \A j \in DOMAIN Pieces(keys, n) : i < j =>
                \A k \in Pieces(keys, n)[i], m \in Pieces(keys, n)[j] : k < m
<1>. DEFINE c == Cardinality(keys)
            all == (c + n - 1) \div n
<1>1. c \in Nat /\ DOMAIN Pieces(keys, n) = 1 .. all
      /\ \A j \in 1 .. all : Pieces(keys, n)[j] = Piece(keys, n, j)
  BY Ranks, PiecesCover
<1>2. all \in Int /\ all * n <= c + n - 1
  BY <1>1
<1>. HIDE DEF c, all
<1>3. i \in 1 .. all
  BY <1>1
<1>4. (i - 1) * n + 1 \in 1 .. c
  <2>1. (all - i) * n >= 0 /\ (i - 1) * n >= 0
    BY <1>2, <1>3
  <2>2. /\ (all - i) * n = all * n - i * n /\ (i - 1) * n = i * n - n
        /\ all * n \in Int /\ i * n \in Int
    BY <1>2, <1>3
  <2>. QED
    BY <1>1, <1>2, <2>1, <2>2
<1>5. PICK first \in keys : Rank(first, keys) = (i - 1) * n + 1
  BY <1>4, PlacesAreTaken DEF c
<1>6. (i - 1) * n < (i - 1) * n + 1 /\ (i - 1) * n + 1 <= i * n
  <2>1. (i - 1) * n = i * n - n /\ i * n \in Int
    BY <1>3
  <2>. QED
    BY <2>1
<1>7. Pieces(keys, n)[i] # {}
  BY <1>1, <1>3, <1>5, <1>6 DEF Piece
<1>8. ASSUME NEW j \in 1 .. all, i < j,
             NEW k \in Piece(keys, n, i), NEW m \in Piece(keys, n, j)
      PROVE  k < m
  <2>1. /\ k \in keys /\ m \in keys
        /\ Rank(k, keys) <= i * n /\ (j - 1) * n < Rank(m, keys)
    BY <1>8 DEF Piece
  <2>2. i * n <= (j - 1) * n /\ i * n \in Int /\ (j - 1) * n \in Int
    <3>1. (j - 1 - i) * n >= 0
      BY <1>2, <1>3, <1>8
    <3>2. (j - 1 - i) * n = (j - 1) * n - i * n /\ i * n \in Int /\ (j - 1) * n \in Int
      BY <1>3
    <3>. QED
      BY <3>1, <3>2
  <2>3. /\ Rank(k, keys) \in Int /\ Rank(m, keys) \in Int
        /\ m < k => Rank(m, keys) < Rank(k, keys)
    <3>1. Rank(k, keys) \in 1 .. Cardinality(keys) /\ Rank(m, keys) \in 1 .. Cardinality(keys)
      BY <2>1, Ranks
    <3>2. m < k => Rank(m, keys) < Rank(k, keys)
      BY <2>1, Ranks
    <3>. QED
      BY <3>1, <3>2
  <2>4. k \in Int /\ m \in Int
    BY <2>1
  <2>5. ASSUME NEW a \in Int, NEW b \in Int, NEW c1 \in Int, NEW c2 \in Int,
               a <= c1, c1 <= c2, c2 < b
        PROVE  a < b
    BY <2>5
  <2>6. Rank(k, keys) < Rank(m, keys)
    BY <2>1, <2>2, <2>3, <2>5
  <2>. QED
    BY <2>3, <2>4, <2>6
<1>. QED
  BY <1>1, <1>3, <1>7, <1>8

\* What it takes for InOrder.
IsStrictTotalOrder(before, set) ==
    /\ \A x \in set : <<x, x>> \notin before
    /\ \A x, y, z \in set : <<x, y>> \in before /\ <<y, z>> \in before => <<x, z>> \in before
    /\ \A x, y \in set : x # y => <<x, y>> \in before \/ <<y, x>> \in before

\* InOrder is a sequence that has each element of the set in one place, those
\* before it in places before.
LEMMA InOrderLists ==
    ASSUME NEW set, IsFiniteSet(set), NEW before, IsStrictTotalOrder(before, set)
    PROVE  /\ InOrder(set, before) \in Seq(set)
           /\ DOMAIN InOrder(set, before) = 1 .. Cardinality(set)
           /\ Len(InOrder(set, before)) = Cardinality(set)
           /\ \A x \in set : \E i \in DOMAIN InOrder(set, before) : InOrder(set, before)[i] = x
           /\ \A i, j \in DOMAIN InOrder(set, before) :
                i < j <=> <<InOrder(set, before)[i], InOrder(set, before)[j]>> \in before
           /\ \A i, j \in DOMAIN InOrder(set, before) :
                InOrder(set, before)[i] = InOrder(set, before)[j] => i = j
<1>. DEFINE n == Cardinality(set)
            Below(x) == {y \in set : <<y, x>> \in before}
            f == [x \in set |-> Cardinality(Below(x)) + 1]
            list == InOrder(set, before)
<1>1. n \in Nat
  BY FS_CardinalityType
<1>2. ASSUME NEW x \in set
      PROVE  /\ IsFiniteSet(Below(x)) /\ Cardinality(Below(x)) \in Nat
             /\ Cardinality(Below(x)) < n
  <2>1. Below(x) \in SUBSET set /\ Below(x) # set
    BY <1>2 DEF IsStrictTotalOrder
  <2>2. IsFiniteSet(Below(x)) /\ Cardinality(Below(x)) <= n /\ Cardinality(Below(x)) # n
    BY <2>1, FS_Subset
  <2>3. Cardinality(Below(x)) \in Nat
    BY <2>2, FS_CardinalityType
  <2>. QED
    BY <1>1, <2>2, <2>3
<1>3. ASSUME NEW x \in set, NEW y \in set, <<x, y>> \in before
      PROVE  Cardinality(Below(x)) < Cardinality(Below(y))
  <2>1. Below(x) \in SUBSET Below(y) /\ x \in Below(y) /\ x \notin Below(x)
    BY <1>3 DEF IsStrictTotalOrder
  <2>2. /\ Cardinality(Below(x)) <= Cardinality(Below(y))
        /\ Cardinality(Below(x)) # Cardinality(Below(y))
    BY <1>2, <2>1, FS_Subset
  <2>. QED
    BY <1>2, <2>2
<1>4. f \in [set -> 1 .. n]
  <2>1. ASSUME NEW x \in set PROVE Cardinality(Below(x)) + 1 \in 1 .. n
    <3>1. Cardinality(Below(x)) \in Nat /\ Cardinality(Below(x)) < n
      BY <1>2, <2>1
    <3>. HIDE DEF Below, n
    <3>. QED
      BY <1>1, <3>1
  <2>. QED
    BY <2>1
<1>5. ASSUME NEW x \in set, NEW y \in set, x # y
      PROVE  f[x] # f[y]
  <2>1. <<x, y>> \in before \/ <<y, x>> \in before
    BY <1>5 DEF IsStrictTotalOrder
  <2>2. Cardinality(Below(x)) < Cardinality(Below(y))
        \/ Cardinality(Below(y)) < Cardinality(Below(x))
    BY <1>3, <2>1
  <2>3. Cardinality(Below(x)) \in Nat /\ Cardinality(Below(y)) \in Nat
    BY <1>2
  <2>. QED
    BY <2>2, <2>3
<1>6. f \in Injection(set, 1 .. n)
  BY <1>4, <1>5 DEF Injection, IsInjective
<1>7. IsFiniteSet(1 .. n) /\ Cardinality(1 .. n) = n
  BY <1>1, FS_Interval
<1>8. f \in Surjection(set, 1 .. n)
  BY <1>6, <1>7, FS_Injection
<1>9. ASSUME NEW i \in 1 .. n
      PROVE  list[i] \in set /\ f[list[i]] = i
  <2>1. PICK x \in set : f[x] = i
    BY <1>8 DEF Surjection
  <2>2. Cardinality(Below(x)) = i - 1
    BY <1>2, <2>1
  <2>3. list[i] = CHOOSE z \in set : Cardinality(Below(z)) = i - 1
    BY DEF InOrder
  <2>4. list[i] \in set /\ Cardinality(Below(list[i])) = i - 1
    BY <2>2, <2>3
  <2>. QED
    BY <2>4
<1>10. DOMAIN list = 1 .. n
  BY DEF InOrder
<1>11. list = [i \in 1 .. n |-> list[i]]
  <2>1. list = [i \in 1 .. n |-> CHOOSE x \in set : Cardinality(Below(x)) = i - 1]
    BY DEF InOrder
  <2>. HIDE DEF list, Below, n
  <2>. QED
    BY <2>1
<1>. HIDE DEF list, f
<1>12. list \in Seq(set) /\ Len(list) = n
  BY <1>1, <1>9, <1>10, <1>11
<1>13. ASSUME NEW x \in set
       PROVE  \E i \in 1 .. n : list[i] = x
  <2>1. f[x] \in 1 .. n
    BY <1>4
  <2>2. list[f[x]] \in set /\ f[list[f[x]]] = f[x]
    BY <1>9, <2>1
  <2>3. list[f[x]] = x
    BY <1>5, <2>2
  <2>. QED
    BY <2>1, <2>3
<1>14. ASSUME NEW i \in 1 .. n, NEW j \in 1 .. n
       PROVE  /\ list[i] = list[j] => i = j
              /\ i < j <=> <<list[i], list[j]>> \in before
  <2>1. list[i] \in set /\ list[j] \in set /\ f[list[i]] = i /\ f[list[j]] = j
    BY <1>9
  <2>2. <<list[i], list[j]>> \in before => i < j
    <3>1. HAVE <<list[i], list[j]>> \in before
    <3>2. Cardinality(Below(list[i])) < Cardinality(Below(list[j]))
      BY <1>3, <2>1, <3>1
    <3>3. Cardinality(Below(list[i])) \in Nat /\ Cardinality(Below(list[j])) \in Nat
      BY <1>2, <2>1
    <3>. QED
      BY <2>1, <3>2, <3>3 DEF f
  <2>3. <<list[j], list[i]>> \in before => j < i
    <3>1. HAVE <<list[j], list[i]>> \in before
    <3>2. Cardinality(Below(list[j])) < Cardinality(Below(list[i]))
      BY <1>3, <2>1, <3>1
    <3>3. Cardinality(Below(list[i])) \in Nat /\ Cardinality(Below(list[j])) \in Nat
      BY <1>2, <2>1
    <3>. QED
      BY <2>1, <3>2, <3>3 DEF f
  <2>4. i < j => <<list[i], list[j]>> \in before
    BY <2>1, <2>3 DEF IsStrictTotalOrder
  <2>. QED
    BY <2>1, <2>2, <2>4
<1>. QED
  BY <1>10, <1>12, <1>13, <1>14 DEF list

===============================================================================
