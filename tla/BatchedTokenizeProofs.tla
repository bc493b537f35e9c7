------------------------ MODULE BatchedTokenizeProofs ------------------------
(***************************************************************************)
(* Proof that the schedules of BatchedTokenize are invisible, for any number*)
(* of callers, workers, splits and buckets and any width of a location: a  *)
(* call returns the ids of its splits in their order, or the error of one  *)
(* of them, whichever workers took its pieces, in whichever order.         *)
(***************************************************************************)
EXTENDS BatchedTokenize, Folding, FiniteSetTheorems

(***************************************************************************)
(* Numbers: division, and powers as constants.                             *)
(***************************************************************************)

\* The pool has at least one worker, and finitely many.
LEMMA WorkersNumber == Cardinality(Workers) \in Nat \ {0}
BY BatchedAssumption, FS_CardinalityType, FS_EmptySet

\* The quotient is the most times b goes into a.
LEMMA Division ==
  ASSUME NEW a \in Nat, NEW b \in Nat \ {0}
  PROVE  a \div b \in Nat /\ b * (a \div b) <= a /\ a < b * (a \div b) + b
OBVIOUS

\* Quotient and remainder of a number that is given as such.
LEMMA DivisionIs ==
  ASSUME NEW q \in Nat, NEW b \in Nat \ {0}, NEW r \in 0..b - 1
  PROVE  (q * b + r) \div b = q /\ (q * b + r) % b = r
OBVIOUS

\* A number below the modulus is its own remainder: an ordinal that fits is kept.
LEMMA Remains ==
  ASSUME NEW a \in Nat, NEW b \in Nat \ {0}, a < b
  PROVE  a % b = a
OBVIOUS

\* A product of naturals is a natural.
LEMMA Product ==
  ASSUME NEW a \in Nat, NEW b \in Nat
  PROVE  a * b \in Nat
OBVIOUS

\* A product grows with its factor.
LEMMA ProductGrows ==
  ASSUME NEW a \in Nat, NEW b \in Nat, NEW c \in Nat, a <= b
  PROVE  a * c <= b * c
OBVIOUS

\* The powers of two of the constants are positive numbers.
LEMMA Powers ==
   2 ^ BucketBits \in Nat \ {0} /\ 2 ^ Width \in Nat \ {0} /\ MaxWorkers \in Nat \ {0} /\ MaxWorkers = 2 ^ BucketBits
BY BatchedAssumption

\* DivCeil(a, b) is the least number of pieces of b that cover a.
LEMMA DivCeilIs ==
  ASSUME NEW a \in Nat \ {0}, NEW b \in Nat \ {0}
  PROVE  DivCeil(a, b) \in Nat \ {0} /\ (DivCeil(a, b) - 1) * b < a /\ a <= DivCeil(a, b) * b
<1> DEFINE q == (a + b - 1) \div b
<1>1. q \in Nat /\ b * q <= a + b - 1 /\ a + b - 1 < b * q + b
  <2>1. a + b - 1 \in Nat
    OBVIOUS
  <2> QED
    BY <2>1, Division
<1> HIDE DEF q
<1>2. q # 0
  BY <1>1
<1>3. (q - 1) * b = b * q - b /\ q * b = b * q
  BY <1>1
<1> QED
  BY <1>1, <1>2, <1>3 DEF DivCeil, q

(***************************************************************************)
(* par_chunks cuts the splits in runs that cover them.                     *)
(***************************************************************************)

\* cut is the ends of count runs that cover 1..n, none of them empty.
Boundaries(n, count, cut) ==
  /\ count \in Nat \ {0}
  /\ cut \in [0..count -> 0..n]
  /\ cut[0] = 0 /\ cut[count] = n
  /\ \A p, q \in 0..count : p < q => cut[p] < cut[q]

\* The chunks are the runs between such ends, whatever the number of workers.
LEMMA ChunksCut ==
  ASSUME NEW n \in Nat \ {0}
  PROVE  \E count, cut :
           /\ Boundaries(n, count, cut)
           /\ Chunks(n) = [j \in 1..count |->
                [i \in 1..cut[j] - cut[j - 1] |-> cut[j - 1] + i]]
<1> DEFINE size  == DivCeil(n, Cardinality(Workers))
           count == DivCeil(n, size)
           cut   == [j \in 0..count |-> Smaller(j * size, n)]
<1>1. size \in Nat \ {0}
  BY WorkersNumber, DivCeilIs
<1>2. Chunks(n) = [j \in 1..count |->
        [i \in 1..Smaller(size, n - (j - 1) * size) |-> (j - 1) * size + i]]
  BY DEF Chunks
<1> HIDE DEF size
<1>3. count \in Nat \ {0} /\ (count - 1) * size < n /\ n <= count * size
  BY <1>1, DivCeilIs
<1> HIDE DEF count
<1>4. ASSUME NEW j \in 0..count
      PROVE  j * size \in Nat /\ (j < count => j * size < n /\ (j + 1) * size = j * size + size)
  <2>1. j * size \in Nat /\ (j + 1) * size = j * size + size
    BY <1>1
  <2>2. CASE j < count
    <3>1. j <= count - 1 /\ count - 1 \in Nat /\ j \in Nat
      BY <2>2, <1>3
    <3>2. j * size <= (count - 1) * size
      BY <3>1, <1>1, ProductGrows
    <3> QED
      BY <2>1, <3>2, <1>3, <1>1, <3>1, Product
  <2> QED
    BY <2>1, <2>2
<1>5. ASSUME NEW j \in 0..count
      PROVE  cut[j] = Smaller(j * size, n) /\ cut[j] \in 0..n /\ (j < count => cut[j] = j * size /\ cut[j] < n)
  BY <1>4, <1>3 DEF Smaller
<1>6. cut[0] = 0 /\ cut[count] = n
  BY <1>1, <1>3 DEF Smaller
<1>7. ASSUME NEW p \in 0..count, NEW q \in 0..count, p < q
      PROVE  cut[p] < cut[q]
  <2>1. p < count /\ p + 1 \in Nat /\ p + 1 <= q /\ q \in Nat
    BY <1>7, <1>3
  <2>2. (p + 1) * size <= q * size
    BY <2>1, <1>1, ProductGrows
  <2>3. cut[p] = p * size /\ cut[p] < n /\ cut[q] = Smaller(q * size, n)
    BY <2>1, <1>5
  <2>4. p * size < q * size
    BY <2>1, <2>2, <1>4, <1>1
  <2> HIDE DEF cut
  <2> QED
    BY <2>3, <2>4 DEF Smaller
<1>8. ASSUME NEW j \in 1..count
      PROVE  /\ cut[j] - cut[j - 1] = Smaller(size, n - (j - 1) * size)
             /\ cut[j - 1] = (j - 1) * size
  <2>1. j - 1 \in 0..count /\ j \in 0..count /\ j - 1 < count /\ (j - 1) + 1 = j
    BY <1>3
  <2>2. cut[j - 1] = (j - 1) * size /\ cut[j] = Smaller(j * size, n) /\ (j - 1) * size \in Nat
        /\ j * size = (j - 1) * size + size
    BY <2>1, <1>5, <1>4
  <2> HIDE DEF cut
  <2> DEFINE z == (j - 1) * size
  <2> HIDE DEF z
  <2>3. Smaller(z + size, n) - z = Smaller(size, n - z)
    BY <2>2, <1>1 DEF Smaller, z
  <2> QED
    BY <2>2, <2>3 DEF z
<1>9. Chunks(n) = [j \in 1..count |-> [i \in 1..cut[j] - cut[j - 1] |-> cut[j - 1] + i]]
  BY <1>2, <1>8
<1>10. Boundaries(n, count, cut)
  BY <1>3, <1>5, <1>6, <1>7 DEF Boundaries
<1> HIDE DEF cut
<1> QED
  BY <1>9, <1>10

\* Every index lies between two neighbouring ends, and no others.
LEMMA BoundariesCover ==
  ASSUME NEW n \in Nat \ {0}, NEW count, NEW cut, Boundaries(n, count, cut), NEW i \in 1..n
  PROVE  \E p \in 1..count : \A q \in 1..count : (cut[q - 1] < i /\ i <= cut[q]) <=> p = q
<1> DEFINE D == {q \in 0..count : i <= cut[q]}
<1>1. D \in SUBSET Nat /\ count \in D
  BY DEF Boundaries
<1>2. PICK p \in D : \A q \in D : p <= q
  BY <1>1, Least
<1>3. p \in 0..count /\ i <= cut[p] /\ p # 0
  BY <1>2 DEF Boundaries
<1>4. p - 1 \in 0..count /\ p - 1 \notin D
  BY <1>1, <1>2, <1>3
<1>5. cut[p - 1] < i
  BY <1>4 DEF Boundaries
<1>6. ASSUME NEW q \in 1..count, cut[q - 1] < i, i <= cut[q]
      PROVE  p = q
  <2>1. q - 1 \in 0..count /\ q \in 0..count /\ count \in Nat
    BY DEF Boundaries
  <2>2. p <= q
    BY <1>2, <1>6, <2>1
  <2>3. ~ p < q
    <3> SUFFICES ASSUME p < q PROVE FALSE
      OBVIOUS
    <3>1. p = q - 1 \/ p < q - 1
      BY <1>3, <2>1
    <3>2. cut[p] <= cut[q - 1]
      BY <3>1, <1>3, <2>1 DEF Boundaries
    <3> QED
      BY <3>2, <1>3, <1>6, <2>1 DEF Boundaries
  <2> QED
    BY <2>2, <2>3, <1>3
<1>7. p \in 1..count
  BY <1>3 DEF Boundaries
<1> QED
  BY <1>3, <1>5, <1>6, <1>7

(***************************************************************************)
(* Buckets: what has been pushed after each of the splits.                 *)
(***************************************************************************)

\* There is a bucket, and its number fits the bits kept for it.
LEMMA WorkerCountIs ==
  ASSUME NEW n \in Nat \ {0}
  PROVE  WorkerCount(n) \in Nat \ {0} /\ WorkerCount(n) <= MaxWorkers
BY WorkersNumber, Powers DEF WorkerCount, Smaller

\* A split has one of the buckets.
LEMMA BucketIs ==
  ASSUME NEW splits \in Seq(Items), NEW i \in 1..Len(splits)
  PROVE  Bucket(splits, i) \in 0..WorkerCount(Len(splits)) - 1
<1>1. Len(splits) \in Nat \ {0} /\ splits[i] \in Items
  OBVIOUS
<1>2. HashOf[splits[i]] \in Nat
  BY <1>1, BatchedAssumption
<1> QED
  BY <1>1, <1>2, WorkerCountIs DEF Bucket

\* f is the table of the buckets after each of the splits.
Fills(splits, f) ==
  f = [i \in 0..Len(splits) |->
        IF i = 0
        THEN [b \in 1..WorkerCount(Len(splits)) |-> <<>>]
        ELSE [f[i - 1] EXCEPT ![Bucket(splits, i) + 1] = Append(@, i)]]

\* The table of the model is such a table, if there is one.
LEMMA FillingFills ==
  ASSUME NEW splits, \E f : Fills(splits, f)
  PROVE  Fills(splits, Filling(splits))
BY DEF Filling, Fills

\* There is such a table for the splits of every call: one push after the other.
LEMMA SomeFills ==
  ASSUME NEW splits \in Seq(Items), Len(splits) # 0
  PROVE  \E f : Fills(splits, f)
<1> DEFINE n == Len(splits)
           none == [b \in 1..WorkerCount(n) |-> <<>>]
           step(g, i) == [g[i - 1] EXCEPT ![Bucket(splits, i) + 1] = Append(@, i)]
           P(m, g) == \A i \in 0..m : g[i] = IF i = 0 THEN none ELSE step(g, i)
           S == {m \in 0..n : \E g : g = [i \in 0..n |-> g[i]] /\ P(m, g)}
<1>1. 0 \in S
  <2> DEFINE g == [i \in 0..n |-> none]
  <2> HIDE DEF none
  <2>1. g = [i \in 0..n |-> g[i]] /\ 0 \in 0..n /\ g[0] = none
    OBVIOUS
  <2>2. P(0, g)
    BY <2>1
  <2> HIDE DEF P, g
  <2> QED
    BY <2>1, <2>2
<1>2. ASSUME NEW m \in Nat, m < n, m \in S
      PROVE  m + 1 \in S
  <2>1. PICK g : g = [i \in 0..n |-> g[i]] /\ P(m, g)
    BY <1>2
  <2> DEFINE x == step(g, m + 1)
             h == [i \in 0..n |-> IF i = m + 1 THEN x ELSE g[i]]
  <2>2. h = [i \in 0..n |-> h[i]]
    OBVIOUS
  <2>3. h[m + 1] = x /\ \A i \in 0..m : h[i] = g[i]
    BY <1>2
  <2> HIDE DEF h
  <2>4. x = [g[m] EXCEPT ![Bucket(splits, m + 1) + 1] = Append(@, m + 1)] /\ h[m] = g[m]
    BY <2>3
  <2> HIDE DEF x, none
  <2>5. ASSUME NEW i \in 0..m + 1
        PROVE  h[i] = IF i = 0 THEN none ELSE step(h, i)
    <3>1. CASE i = m + 1
      <4>1. i - 1 = m /\ i # 0
        BY <3>1
      <4> QED
        BY <3>1, <4>1, <2>3, <2>4
    <3>2. CASE i # m + 1
      <4>1. i \in 0..m /\ (i # 0 => i - 1 \in 0..m)
        BY <3>2
      <4>2. h[i] = g[i] /\ (i # 0 => h[i - 1] = g[i - 1])
        BY <4>1, <2>3
      <4>3. g[i] = IF i = 0 THEN none ELSE step(g, i)
        BY <4>1, <2>1
      <4> QED
        BY <4>2, <4>3
    <3> QED
      BY <3>1, <3>2
  <2>6. P(m + 1, h)
    BY <2>5
  <2>7. m + 1 \in 0..n
    BY <1>2
  <2> HIDE DEF P
  <2> QED
    BY <2>2, <2>6, <2>7
<1>3. n \in S
  <2>1. n \in Nat
    OBVIOUS
  <2> HIDE DEF S, n
  <2> QED
    BY <1>1, <1>2, <2>1, UpTo
<1>4. PICK g : g = [i \in 0..n |-> g[i]] /\ P(n, g)
  BY <1>3
<1>5. Fills(splits, g)
  <2>1. \A i \in 0..n : g[i] = IF i = 0 THEN none ELSE step(g, i)
    BY <1>4
  <2>2. g = [i \in 0..n |-> IF i = 0 THEN none ELSE step(g, i)]
    BY <1>4, <2>1
  <2> QED
    BY <2>2 DEF Fills
<1> QED
  BY <1>5

\* What the buckets hold after i splits: only indices of their own content, and each
\* of the first i where its ordinal, the length of its bucket before it, says.
FilledTo(splits, f, i) ==
  /\ f[i] \in [1..WorkerCount(Len(splits)) -> Seq(1..Len(splits))]
  /\ \A b \in 1..WorkerCount(Len(splits)) :
       /\ Len(f[i][b]) <= i
       /\ \A o \in 1..Len(f[i][b]) : Bucket(splits, f[i][b][o]) = b - 1
  /\ \A l \in 1..i :
       LET b == Bucket(splits, l) + 1
           o == Len(f[l - 1][b]) + 1
       IN  o \in 1..Len(f[i][b]) /\ f[i][b][o] = l /\ o <= l

\* The buckets hold this after every split, and so after the last.
LEMMA FilledSoFar ==
  ASSUME NEW splits \in Seq(Items), Len(splits) # 0, NEW f, Fills(splits, f)
  PROVE  FilledTo(splits, f, Len(splits))
<1> DEFINE n == Len(splits)
           w == WorkerCount(n)
           S == {i \in 0..n : FilledTo(splits, f, i)}
<1>0. n \in Nat \ {0} /\ w \in Nat \ {0}
  BY WorkerCountIs
<1>1. 0 \in S
  <2>1. f[0] = [b \in 1..w |-> <<>>]
    BY <1>0 DEF Fills
  <2>2. f[0] \in [1..w -> Seq(1..n)] /\ \A b \in 1..w : Len(f[0][b]) = 0
    BY <2>1
  <2> QED
    BY <2>2, <1>0 DEF FilledTo
<1>2. ASSUME NEW m \in Nat, m < n, m \in S
      PROVE  m + 1 \in S
  <2>1. FilledTo(splits, f, m) /\ m + 1 \in 1..n /\ m + 1 \in 0..n
    BY <1>2
  <2> DEFINE c == Bucket(splits, m + 1) + 1
             old == f[m]
             new == f[m + 1]
  <2>2. c \in 1..w /\ Bucket(splits, m + 1) = c - 1
    <3>1. Bucket(splits, m + 1) \in 0..w - 1
      BY <2>1, BucketIs
    <3> QED
      BY <3>1, <1>0
  <2>3. new = [old EXCEPT ![c] = Append(@, m + 1)]
    <3>1. (m + 1) - 1 = m /\ m + 1 # 0
      BY <1>2
    <3> QED
      BY <2>1, <3>1 DEF Fills
  <2>4. /\ old \in [1..w -> Seq(1..n)]
        /\ \A b \in 1..w :
             Len(old[b]) <= m /\ \A o \in 1..Len(old[b]) : Bucket(splits, old[b][o]) = b - 1
    BY <2>1 DEF FilledTo
  <2>5. \A l \in 1..m :
          LET b == Bucket(splits, l) + 1
              o == Len(f[l - 1][b]) + 1
          IN  o \in 1..Len(old[b]) /\ old[b][o] = l /\ o <= l
    BY <2>1 DEF FilledTo
  <2> HIDE DEF old, new, c
  <2>6. new \in [1..w -> Seq(1..n)] /\ new[c] = Append(old[c], m + 1)
        /\ \A b \in 1..w : b # c => new[b] = old[b]
    <3>1. old[c] \in Seq(1..n) /\ Append(old[c], m + 1) \in Seq(1..n)
      BY <2>1, <2>2, <2>4
    <3> QED
      BY <2>2, <2>3, <2>4, <3>1
  <2>7. ASSUME NEW b \in 1..w
        PROVE  /\ old[b] \in Seq(1..n) /\ Len(old[b]) <= Len(new[b]) /\ Len(new[b]) <= m + 1
               /\ \A o \in 1..Len(old[b]) : new[b][o] = old[b][o]
               /\ \A o \in 1..Len(new[b]) : Bucket(splits, new[b][o]) = b - 1
    <3>1. old[b] \in Seq(1..n) /\ Len(old[b]) \in Nat /\ Len(old[b]) <= m
      BY <2>4
    <3>2. CASE b = c
      <4>1. /\ Len(new[b]) = Len(old[b]) + 1 /\ new[b][Len(old[b]) + 1] = m + 1
            /\ \A o \in 1..Len(old[b]) : new[b][o] = old[b][o]
        <5>1. new[b] = Append(old[b], m + 1)
          BY <2>6, <3>2
        <5> QED
          BY <5>1, <3>1, <2>1, AppendProperties
      <4>2. ASSUME NEW o \in 1..Len(new[b])
            PROVE  Bucket(splits, new[b][o]) = b - 1
        <5>1. o \in 1..Len(old[b]) \/ o = Len(old[b]) + 1
          BY <4>1, <3>1
        <5> QED
          BY <4>1, <5>1, <2>2, <2>4, <3>2
      <4> QED
        BY <3>1, <4>1, <4>2, <1>2
    <3>3. CASE b # c
      BY <2>4, <2>6, <3>1, <3>3, <1>2
    <3> QED
      BY <3>2, <3>3
  <2>8. ASSUME NEW l \in 1..m + 1
        PROVE  LET b == Bucket(splits, l) + 1
                   o == Len(f[l - 1][b]) + 1
               IN  o \in 1..Len(new[b]) /\ new[b][o] = l /\ o <= l
    <3> DEFINE b == Bucket(splits, l) + 1
               o == Len(f[l - 1][b]) + 1
    <3>1. b \in 1..w
      <4>1. Bucket(splits, l) \in 0..w - 1
        BY <2>1, BucketIs
      <4> QED
        BY <4>1, <1>0
    <3>2. CASE l = m + 1
      <4>1. b = c /\ o = Len(old[c]) + 1
        BY <3>2 DEF old, c
      <4>2. old[c] \in Seq(1..n) /\ Len(old[c]) <= m
        BY <2>2, <2>4
      <4> HIDE DEF b, o
      <4>3. o \in 1..Len(new[b]) /\ new[b][o] = l /\ o <= l
        BY <2>6, <4>1, <4>2, <3>2, <2>1
      <4> QED
        BY <4>3 DEF b, o
    <3>3. CASE l # m + 1
      <4>1. l \in 1..m
        BY <3>3
      <4>2. o \in 1..Len(old[b]) /\ old[b][o] = l /\ o <= l
        BY <4>1, <2>5
      <4> HIDE DEF b, o
      <4>3. o \in 1..Len(new[b]) /\ new[b][o] = l /\ o <= l
        <5>1. old[b] \in Seq(1..n) /\ Len(old[b]) <= Len(new[b]) /\ new[b] \in Seq(1..n) /\ new[b][o] = old[b][o]
          BY <2>6, <2>7, <3>1, <4>2
        <5> QED
          BY <4>2, <5>1
      <4> QED
        BY <4>3 DEF b, o
    <3> QED
      BY <3>2, <3>3
  <2>9. FilledTo(splits, f, m + 1)
    <3>1. \A b \in 1..w : Len(new[b]) <= m + 1 /\ \A o \in 1..Len(new[b]) : Bucket(splits, new[b][o]) = b - 1
      BY <2>7
    <3> QED
      BY <2>6, <2>8, <3>1 DEF FilledTo, new
  <2> QED
    BY <2>1, <2>9
<1>3. n \in S
  <2>1. n \in Nat
    BY <1>0
  <2> HIDE DEF S, n
  <2> QED
    BY <1>1, <1>2, <2>1, UpTo
<1> QED
  BY <1>3

\* The buckets of a call hold its splits.
LEMMA Filled ==
  ASSUME NEW splits \in Seq(Items), Len(splits) # 0
  PROVE  FilledTo(splits, Filling(splits), Len(splits))
BY FilledSoFar, FillingFills, SomeFills

\* A location leads back to its split: it fits in Width bits if the splits are as few
\* as the guard on MAX_AFFINITY_SPLITS allows, so that bucket and ordinal can be read
\* from it, and the ordinal is the place of the split in the bucket.
LEMMA LocationIs ==
  ASSUME NEW splits \in Seq(Items), Len(splits) # 0, Len(splits) <= MaxAffinitySplits,
         NEW i \in 1..Len(splits)
  PROVE  LET loc == Location(splits, i)
             b   == loc % 2 ^ BucketBits
             pos == loc \div 2 ^ BucketBits
         IN  /\ b + 1 \in 1..WorkerCount(Len(splits))
             /\ pos \in Nat
             /\ pos + 1 \in 1..Len(Filling(splits)[Len(splits)][b + 1])
             /\ Filling(splits)[Len(splits)][b + 1][pos + 1] = i
<1> DEFINE n == Len(splits)
           base == 2 ^ BucketBits
           all  == 2 ^ Width
           bucket == Bucket(splits, i)
           ordinal == Len(Filling(splits)[i - 1][bucket + 1])
<1>1. n \in Nat \ {0} /\ base \in Nat \ {0} /\ all \in Nat \ {0}
  BY Powers
<1>2. bucket \in 0..WorkerCount(n) - 1 /\ WorkerCount(n) <= base /\ WorkerCount(n) \in Nat
  BY <1>1, BucketIs, WorkerCountIs, Powers
<1>3. /\ ordinal + 1 \in 1..Len(Filling(splits)[n][bucket + 1])
      /\ Filling(splits)[n][bucket + 1][ordinal + 1] = i
      /\ ordinal + 1 <= i
  BY Filled DEF FilledTo
<1>4. Location(splits, i) = (ordinal * base + bucket) % all
  BY DEF Location
<1>5. base * n <= all - 1
  <2> DEFINE m == (all - 1) \div base
  <2>1. m \in Nat /\ base * m <= all - 1
    <3>1. all - 1 \in Nat
      BY <1>1
    <3> HIDE DEF all, base
    <3> QED
      BY <1>1, <3>1, Division
  <2>2. n <= m
    BY DEF MaxAffinitySplits
  <2> HIDE DEF m, n, base, all
  <2>3. n * base <= m * base /\ n * base = base * n /\ m * base = base * m
    BY <1>1, <2>1, <2>2, ProductGrows
  <2> QED
    BY <1>1, <2>1, <2>3, Product
<1>6. ordinal \in Nat
  <2>1. FilledTo(splits, Filling(splits), n)
    BY Filled
  <2>2. bucket + 1 \in 1..WorkerCount(n)
    BY <1>2
  <2>3. Filling(splits)[n][bucket + 1] \in Seq(1..n)
    BY <2>1, <2>2 DEF FilledTo
  <2>4. Len(Filling(splits)[n][bucket + 1]) \in Nat
    BY <2>3
  <2> QED
    BY <1>3, <2>4
<1> HIDE DEF n, base, all, bucket, ordinal
<1>7. ordinal * base + bucket \in Nat /\ ordinal * base + bucket < all
  <2>1. i \in Nat /\ i <= n /\ ordinal + 1 \in Nat /\ ordinal + 1 <= n
    BY <1>3, <1>6 DEF n
  <2>2. (ordinal + 1) * base <= n * base /\ n * base = base * n
    BY <1>1, <2>1, ProductGrows
  <2>3. (ordinal + 1) * base = ordinal * base + base /\ ordinal * base \in Nat
    BY <1>1, <1>6
  <2>4. bucket < base
    BY <1>1, <1>2
  <2> QED
    BY <1>1, <1>2, <1>5, <2>2, <2>3, <2>4
<1>8. Location(splits, i) = ordinal * base + bucket
  BY <1>1, <1>4, <1>7, Remains
<1>9. Location(splits, i) % base = bucket /\ Location(splits, i) \div base = ordinal
  <2>1. bucket \in 0..base - 1
    BY <1>1, <1>2
  <2> QED
    BY <1>1, <1>6, <1>8, <2>1, DivisionIs
<1>10. bucket + 1 \in 1..WorkerCount(n)
  BY <1>2
<1> QED
  BY <1>3, <1>6, <1>9, <1>10 DEF n, base

(***************************************************************************)
(* Every split is in one piece of its schedule.                            *)
(***************************************************************************)

\* The schedules.
Modes == {"sequential", "contiguous", "affine"}

\* The splits may be scheduled so: only the caller handles a call of none.
Scheduled(splits, mode) ==
  /\ splits \in Seq(Items)
  /\ mode \in Modes
  /\ mode # "sequential" => Len(splits) # 0

\* The pieces of a schedule: every split is in one of them and in no other.
Partitions(splits, pieces) ==
  /\ pieces \in Seq(Seq(1..Len(splits)))
  /\ \A i \in 1..Len(splits) :
       \E p \in 1..Len(pieces) :
         \A q \in 1..Len(pieces) : Contains(pieces[q], i) <=> p = q

\* Each of the three schedules puts every split in exactly one piece.
LEMMA PiecesPartition ==
  ASSUME NEW splits, NEW mode, Scheduled(splits, mode)
  PROVE  Partitions(splits, Pieces(splits, mode))
<1> DEFINE n == Len(splits)
           pieces == Pieces(splits, mode)
<1>0. splits \in Seq(Items) /\ n \in Nat
  BY DEF Scheduled
<1>1. CASE mode = "sequential"
  <2> DEFINE all == [i \in 1..n |-> i]
  <2>1. pieces = <<all>>
    BY <1>1 DEF Pieces
  <2>2. all \in Seq(1..n) /\ Len(all) = n /\ \A i \in 1..n : all[i] = i
    BY <1>0
  <2> HIDE DEF all, pieces
  <2>3. pieces \in Seq(Seq(1..n)) /\ Len(pieces) = 1 /\ pieces[1] = all
    BY <2>1, <2>2
  <2>4. ASSUME NEW i \in 1..n
        PROVE  \A q \in 1..Len(pieces) : Contains(pieces[q], i) <=> 1 = q
    BY <1>0, <2>2, <2>3 DEF Contains
  <2>5. 1 \in 1..Len(pieces)
    BY <2>3
  <2> QED
    BY <2>3, <2>4, <2>5 DEF Partitions, pieces
<1>2. CASE mode = "contiguous"
  <2>1. n \in Nat \ {0} /\ pieces = Chunks(n)
    BY <1>0, <1>2 DEF Scheduled, Pieces
  <2>2. PICK count, cut :
          /\ Boundaries(n, count, cut)
          /\ pieces = [j \in 1..count |-> [i \in 1..cut[j] - cut[j - 1] |-> cut[j - 1] + i]]
    BY <2>1, ChunksCut
  <2>3. ASSUME NEW j \in 1..count
        PROVE  /\ pieces[j] \in Seq(1..n)
               /\ \A i \in 1..n : Contains(pieces[j], i) <=> cut[j - 1] < i /\ i <= cut[j]
    <3>1. cut[j - 1] \in 0..n /\ cut[j] \in 0..n /\ cut[j - 1] < cut[j]
      <4>1. j - 1 \in 0..count /\ j \in 0..count /\ j - 1 < j
        BY <2>2 DEF Boundaries
      <4> QED
        BY <2>2, <4>1 DEF Boundaries
    <3> DEFINE a == cut[j - 1]
               b == cut[j]
    <3>2. pieces[j] = [i \in 1..b - a |-> a + i]
      BY <2>2
    <3>3. a \in Nat /\ b \in Nat /\ a < b /\ b <= n
      BY <3>1, <1>0
    <3> HIDE DEF a, b, pieces, n
    <3>4. b - a \in Nat /\ \A i \in 1..b - a : a + i \in 1..n
      BY <3>3, <1>0 DEF n
    <3>5. pieces[j] \in Seq(1..n) /\ Len(pieces[j]) = b - a /\ \A i \in 1..b - a : pieces[j][i] = a + i
      <4> DEFINE d == b - a
      <4>1. d \in Nat /\ pieces[j] = [i \in 1..d |-> a + i] /\ \A i \in 1..d : a + i \in 1..n
        BY <3>2, <3>4
      <4> HIDE DEF d
      <4>2. pieces[j] \in [1..d -> 1..n]
        BY <4>1
      <4>3. pieces[j] \in Seq(1..n) /\ Len(pieces[j]) = d
        BY <4>1, <4>2, Tabled
      <4>4. \A i \in 1..d : pieces[j][i] = a + i
        BY <4>1
      <4> QED
        BY <4>3, <4>4 DEF d
    <3>6. ASSUME NEW i \in 1..n
          PROVE  Contains(pieces[j], i) <=> a < i /\ i <= b
      <4>1. CASE a < i /\ i <= b
        <5>1. i - a \in 1..b - a /\ a + (i - a) = i
          BY <4>1, <3>3
        <5> QED
          BY <4>1, <5>1, <3>5 DEF Contains
      <4>2. CASE ~ (a < i /\ i <= b)
        BY <4>2, <3>3, <3>5 DEF Contains
      <4> QED
        BY <4>1, <4>2
    <3> QED
      BY <3>5, <3>6 DEF a, b
  <2> HIDE DEF pieces
  <2>4. pieces \in Seq(Seq(1..n)) /\ Len(pieces) = count
    <3>1. count \in Nat
      BY <2>2 DEF Boundaries
    <3>2. pieces \in [1..count -> Seq(1..n)]
      BY <2>2, <2>3
    <3> QED
      BY <3>1, <3>2
  <2>5. ASSUME NEW i \in 1..n
        PROVE  \E p \in 1..count : \A q \in 1..count : Contains(pieces[q], i) <=> p = q
    <3>1. PICK p \in 1..count : \A q \in 1..count : (cut[q - 1] < i /\ i <= cut[q]) <=> p = q
      BY <2>1, <2>2, BoundariesCover
    <3> QED
      BY <3>1, <2>3
  <2> QED
    BY <2>4, <2>5 DEF Partitions, pieces
<1>3. CASE mode = "affine"
  <2> DEFINE f == Filling(splits)
             w == WorkerCount(n)
  <2>1. n # 0 /\ n \in Nat \ {0} /\ pieces = f[n]
    BY <1>0, <1>3 DEF Scheduled, Pieces
  <2>2. FilledTo(splits, f, n)
    BY <1>0, <2>1, Filled
  <2>3. w \in Nat
    BY <2>1, WorkerCountIs
  <2> HIDE DEF f, pieces
  <2>4. pieces \in [1..w -> Seq(1..n)]
    BY <2>1, <2>2 DEF FilledTo
  <2> HIDE DEF w
  <2>5. pieces \in Seq(Seq(1..n)) /\ Len(pieces) = w
    BY <2>3, <2>4
  <2>6. ASSUME NEW i \in 1..n
        PROVE  \E p \in 1..w : \A q \in 1..w : Contains(pieces[q], i) <=> p = q
    <3> DEFINE p == Bucket(splits, i) + 1
               o == Len(f[i - 1][p]) + 1
    <3>1. o \in 1..Len(pieces[p]) /\ pieces[p][o] = i
      BY <2>1, <2>2 DEF FilledTo
    <3>2. p \in 1..w
      <4>1. Bucket(splits, i) \in 0..w - 1
        BY <1>0, BucketIs DEF w
      <4> QED
        BY <4>1, <2>3
    <3>3. Contains(pieces[p], i)
      BY <3>1 DEF Contains
    <3>4. ASSUME NEW q \in 1..w, Contains(pieces[q], i)
          PROVE  p = q
      <4>1. PICK l \in 1..Len(pieces[q]) : pieces[q][l] = i
        BY <3>4 DEF Contains
      <4>2. Bucket(splits, i) = q - 1
        BY <4>1, <2>1, <2>2 DEF FilledTo, w
      <4> QED
        BY <4>2
    <3> HIDE DEF p
    <3> QED
      BY <3>2, <3>3, <3>4
  <2> QED
    BY <2>5, <2>6 DEF Partitions, pieces
<1> QED
  BY <1>1, <1>2, <1>3 DEF Scheduled, Modes

(***************************************************************************)
(* Reassembly gives the ids in the order of the splits.                    *)
(***************************************************************************)

\* A call that is through: every piece holds all its ids.
Through(k) ==
  /\ Scheduled(k.splits, k.mode)
  /\ k.mode = "affine" => Len(k.splits) <= MaxAffinitySplits
  /\ k.work \in Seq(Works)
  /\ Len(k.work) = Len(Pieces(k.splits, k.mode))
  /\ \A p \in 1..Len(k.work) :
       LET n == Len(Pieces(k.splits, k.mode)[p])
       IN  /\ k.work[p].ids = FlattenSeq(IdsOfFirst(k, p, n))
           /\ \A j \in 1..n :
                /\ k.splits[Pieces(k.splits, k.mode)[p][j]] \notin Bad
                /\ k.work[p].ends[j] = Len(FlattenSeq(IdsOfFirst(k, p, j)))

\* When every piece has ended and none has failed, every piece is through.
LEMMA DoneIsThrough ==
  ASSUME NEW k \in Calls, CallSound(k), Closed(k), ~ k.failed
  PROVE  Through(k)
<1>1. k.splits \in Seq(Items) /\ k.mode \in Modes /\ k.work \in Seq(Works)
  BY BatchedAssumption DEF Calls, Modes
<1>2. k.mode # "sequential" => Len(k.splits) # 0
  BY <1>1 DEF CallSound
<1>3. ASSUME NEW p \in 1..Len(k.work)
      PROVE  PieceSound(k, p) /\ Len(k.work[p].ends) = Len(Pieces(k.splits, k.mode)[p])
  <2>1. p \in DOMAIN k.work
    BY <1>1
  <2>2. PieceSound(k, p) /\ k.work[p].state \in {"done", "failed", "skipped"}
    BY <2>1 DEF CallSound, Closed
  <2> QED
    BY <2>2 DEF PieceSound
<1>4. ASSUME NEW p \in 1..Len(k.work)
      PROVE  LET n == Len(Pieces(k.splits, k.mode)[p])
             IN  /\ k.work[p].ids = FlattenSeq(IdsOfFirst(k, p, n))
                 /\ \A j \in 1..n :
                      /\ k.splits[Pieces(k.splits, k.mode)[p][j]] \notin Bad
                      /\ k.work[p].ends[j] = Len(FlattenSeq(IdsOfFirst(k, p, j)))
  BY <1>3 DEF PieceSound
<1> QED
  BY <1>1, <1>2, <1>4 DEF Through, Scheduled, CallSound

\* A call that is through has met every split, and none was bad.
LEMMA NoneBad ==
  ASSUME NEW k, Through(k), NEW i \in 1..Len(k.splits)
  PROVE  k.splits[i] \notin Bad
<1>1. Partitions(k.splits, Pieces(k.splits, k.mode))
  BY PiecesPartition DEF Through
<1>2. PICK p \in 1..Len(k.work) : Contains(Pieces(k.splits, k.mode)[p], i)
  BY <1>1 DEF Partitions, Through
<1> QED
  BY <1>2 DEF Contains, Through

\* The ids of each split, in the order of the splits.
AllIds(splits) == [i \in 1..Len(splits) |-> IdsOf[splits[i]]]

\* The ids of the splits of a call are sequences of ids.
LEMMA AllIdsType ==
  ASSUME NEW splits \in Seq(Items)
  PROVE  AllIds(splits) \in Seq(Seq(Nat)) /\ Len(AllIds(splits)) = Len(splits)
<1>1. \A i \in 1..Len(splits) : IdsOf[splits[i]] \in Seq(Nat)
  BY BatchedAssumption
<1>2. AllIds(splits) \in [1..Len(splits) -> Seq(Nat)] /\ Len(splits) \in Nat
  BY <1>1 DEF AllIds
<1> QED
  BY <1>2, Tabled

\* So are the ids of the first splits of a piece.
LEMMA PieceIdsType ==
  ASSUME NEW k, Scheduled(k.splits, k.mode),
         NEW p \in 1..Len(Pieces(k.splits, k.mode)),
         NEW n \in Nat, n <= Len(Pieces(k.splits, k.mode)[p])
  PROVE  IdsOfFirst(k, p, n) \in Seq(Seq(Nat)) /\ Len(IdsOfFirst(k, p, n)) = n
<1> DEFINE todo == Pieces(k.splits, k.mode)[p]
<1>1. Pieces(k.splits, k.mode) \in Seq(Seq(1..Len(k.splits)))
  BY PiecesPartition DEF Partitions
<1>2. todo \in Seq(1..Len(k.splits)) /\ n <= Len(todo)
  BY <1>1
<1> HIDE DEF todo
<1>3. \A j \in 1..n : k.splits[todo[j]] \in Items
  BY <1>2 DEF Scheduled
<1>4. [j \in 1..n |-> IdsOf[k.splits[todo[j]]]] \in [1..n -> Seq(Nat)]
  BY <1>3, BatchedAssumption
<1>5. IdsOfFirst(k, p, n) \in [1..n -> Seq(Nat)]
  BY <1>4 DEF IdsOfFirst, todo
<1> QED
  BY <1>5, Tabled

\* The ids of the only piece are those of all splits.
LEMMA GatherSequential ==
  ASSUME NEW k, Through(k), k.mode = "sequential"
  PROVE  Gathered(k) = FlattenSeq(AllIds(k.splits))
<1> DEFINE n == Len(k.splits)
           all == [i \in 1..n |-> i]
           parts == [p \in DOMAIN k.work |-> k.work[p].ids]
<1>1. k.splits \in Seq(Items) /\ k.work \in Seq(Works) /\ n \in Nat
  BY DEF Through, Scheduled
<1>2. Pieces(k.splits, k.mode) = <<all>>
  BY DEF Pieces
<1>3. all \in Seq(1..n) /\ Len(all) = n /\ \A i \in 1..n : all[i] = i
  BY <1>1
<1> HIDE DEF all
<1>4. Len(k.work) = 1 /\ Len(Pieces(k.splits, k.mode)[1]) = n
  BY <1>2, <1>3 DEF Through
<1>5. k.work[1].ids = FlattenSeq(IdsOfFirst(k, 1, n))
  BY <1>4 DEF Through
<1>6. IdsOfFirst(k, 1, n) = AllIds(k.splits)
  BY <1>2, <1>3 DEF IdsOfFirst, AllIds
<1>7. FlattenSeq(AllIds(k.splits)) \in Seq(Nat)
  BY <1>1, AllIdsType, FlattenType
<1>8. parts = <<k.work[1].ids>>
  BY <1>1, <1>4
<1>9. FlattenSeq(parts) = k.work[1].ids
  BY <1>5, <1>6, <1>7, <1>8, FlattenOne
<1> QED
  BY <1>5, <1>6, <1>9 DEF Gathered

\* The ids of the chunks, one after the other, are those of all splits.
LEMMA GatherContiguous ==
  ASSUME NEW k, Through(k), k.mode = "contiguous"
  PROVE  Gathered(k) = FlattenSeq(AllIds(k.splits))
<1> DEFINE n == Len(k.splits)
           pieces == Pieces(k.splits, k.mode)
           parts == [p \in DOMAIN k.work |-> k.work[p].ids]
           s == AllIds(k.splits)
<1>1. k.splits \in Seq(Items) /\ k.work \in Seq(Works) /\ n \in Nat \ {0} /\ pieces = Chunks(n)
      /\ Scheduled(k.splits, k.mode)
  BY DEF Through, Scheduled, Pieces
<1>2. PICK count, cut :
        /\ Boundaries(n, count, cut)
        /\ pieces = [j \in 1..count |-> [i \in 1..cut[j] - cut[j - 1] |-> cut[j - 1] + i]]
  <2>1. \E count, cut :
          /\ Boundaries(n, count, cut)
          /\ Chunks(n) = [j \in 1..count |-> [i \in 1..cut[j] - cut[j - 1] |-> cut[j - 1] + i]]
    BY <1>1, ChunksCut
  <2> HIDE DEF pieces, n
  <2> QED
    BY <1>1, <2>1
<1>3. s \in Seq(Seq(Nat)) /\ Len(s) = n /\ \A i \in 1..n : s[i] = IdsOf[k.splits[i]]
  BY <1>1, AllIdsType DEF AllIds
<1> HIDE DEF s
<1>4. Len(k.work) = Len(pieces) /\ Len(pieces) = count /\ count \in Nat
  <2>1. count \in Nat
    BY <1>2 DEF Boundaries
  <2> QED
    BY <1>2, <2>1 DEF Through
<1>5. ASSUME NEW p \in 1..count
      PROVE  /\ parts[p] \in Seq(Nat)
             /\ parts[p] = FlattenSeq([i \in 1..cut[p] - cut[p - 1] |-> s[cut[p - 1] + i]])
             /\ cut[p - 1] <= cut[p]
  <2>1. cut[p - 1] \in 0..n /\ cut[p] \in 0..n /\ cut[p - 1] < cut[p]
    <3>1. p - 1 \in 0..count /\ p \in 0..count /\ p - 1 < p
      BY <1>4
    <3> QED
      BY <3>1, <1>2 DEF Boundaries
  <2> DEFINE a == cut[p - 1]
             d == cut[p] - cut[p - 1]
  <2>2. a \in Nat /\ d \in Nat /\ a + d <= n /\ cut[p] = a + d
    BY <2>1, <1>1
  <2>3. pieces[p] = [i \in 1..d |-> a + i]
    BY <1>2
  <2> HIDE DEF a, d, pieces, n
  <2>4. Len(pieces[p]) = d
    BY <2>2, <2>3
  <2>5. k.work[p].ids = FlattenSeq(IdsOfFirst(k, p, d)) /\ parts[p] = k.work[p].ids
    <3>1. p \in 1..Len(k.work) /\ p \in DOMAIN k.work
      BY <1>1, <1>4
    <3>2. k.work[p].ids = FlattenSeq(IdsOfFirst(k, p, Len(pieces[p])))
      BY <3>1 DEF Through, pieces
    <3>3. parts[p] = k.work[p].ids
      BY <3>1
    <3> QED
      BY <2>4, <3>2, <3>3
  <2>6. IdsOfFirst(k, p, d) = [i \in 1..d |-> s[a + i]]
    <3>1. \A i \in 1..d : a + i \in 1..n
      BY <2>2, <1>1
    <3>2. \A i \in 1..d : s[a + i] = IdsOf[k.splits[a + i]] /\ pieces[p][i] = a + i
      BY <3>1, <1>3, <2>3
    <3> QED
      BY <3>2 DEF IdsOfFirst, pieces
  <2>7. IdsOfFirst(k, p, d) \in Seq(Seq(Nat))
    <3>1. d <= Len(pieces[p]) /\ p \in 1..Len(pieces)
      BY <1>4, <2>2, <2>4
    <3> QED
      BY <1>1, <2>2, <3>1, PieceIdsType DEF pieces
  <2>8. FlattenSeq(IdsOfFirst(k, p, d)) \in Seq(Nat)
    BY <2>7, FlattenType
  <2> QED
    BY <2>1, <2>5, <2>6, <2>8, <1>1 DEF a, d
<1>6. parts \in Seq(Seq(Nat)) /\ Len(parts) = count
  <2>0. DOMAIN k.work = 1..count
    BY <1>1, <1>4
  <2>1. parts \in [1..count -> Seq(Nat)]
    <3>1. parts = [p \in 1..count |-> k.work[p].ids]
      BY <2>0
    <3>2. \A p \in 1..count : k.work[p].ids \in Seq(Nat)
      BY <1>5, <3>1
    <3> HIDE DEF parts
    <3> QED
      BY <3>1, <3>2
  <2> QED
    BY <2>1, <1>4, Tabled
<1>7. cut \in [0..count -> 0..Len(s)] /\ cut[0] = 0 /\ cut[count] = Len(s)
  BY <1>2, <1>3 DEF Boundaries
<1> HIDE DEF parts
<1>8. FlattenSeq(parts) = FlattenSeq(s)
  <2>1. \A p \in 1..count : cut[p - 1] <= cut[p]
    BY <1>5
  <2>2. \A p \in 1..count :
          parts[p] = FlattenSeq([i \in 1..cut[p] - cut[p - 1] |-> s[cut[p - 1] + i]])
    BY <1>5
  <2> QED
    <3>1. Concatenates(Nat, s, count, cut, parts)
      BY <1>3, <1>4, <1>6, <1>7, <2>1, <2>2 DEF Concatenates
    <3> QED
      BY <3>1, FlattenPieces
<1> QED
  BY <1>8 DEF Gathered, s, parts

\* The ids cut out of the buckets by location are those of each split.
LEMMA GatherAffine ==
  ASSUME NEW k, Through(k), k.mode = "affine"
  PROVE  Gathered(k) = FlattenSeq(AllIds(k.splits))
<1> DEFINE n == Len(k.splits)
           pieces == Pieces(k.splits, k.mode)
<1>1. k.splits \in Seq(Items) /\ k.work \in Seq(Works) /\ n \in Nat /\ n # 0 /\ n <= MaxAffinitySplits
      /\ Scheduled(k.splits, k.mode) /\ pieces = Filling(k.splits)[n]
  BY DEF Through, Scheduled, Pieces
<1>2. pieces \in Seq(Seq(1..n)) /\ Len(k.work) = Len(pieces)
  BY <1>1, PiecesPartition DEF Partitions, Through
<1>3. Len(pieces) = WorkerCount(n)
  <2>1. FilledTo(k.splits, Filling(k.splits), n)
    BY <1>1, Filled
  <2>2. pieces \in [1..WorkerCount(n) -> Seq(1..n)] /\ WorkerCount(n) \in Nat
    BY <1>1, <2>1, WorkerCountIs DEF FilledTo
  <2> HIDE DEF pieces
  <2> QED
    BY <2>2, Tabled
<1>4. ASSUME NEW i \in 1..n
      PROVE  Slice(k, i) = IdsOf[k.splits[i]]
  <2> DEFINE loc == Location(k.splits, i)
             p == (loc % 2 ^ BucketBits) + 1
             m == (loc \div 2 ^ BucketBits) + 1
             pos == loc \div 2 ^ BucketBits
             all == Len(pieces[p])
             s == IdsOfFirst(k, p, all)
             at == k.work[p]
  <2>1. p \in 1..Len(pieces) /\ pos \in Nat /\ m \in 1..all /\ pieces[p][m] = i
    BY <1>1, <1>3, LocationIs
  <2>2. m = pos + 1 /\ pos = m - 1
    BY <2>1
  <2>3. Slice(k, i) = SubSeq(at.ids, (IF pos = 0 THEN 0 ELSE at.ends[pos]) + 1, at.ends[m])
    BY DEF Slice
  <2> HIDE DEF loc, p, m, pos, pieces
  <2>4. all \in Nat /\ all <= all
    BY <1>2, <2>1
  <2>5. at.ids = FlattenSeq(s) /\ \A j \in 1..all : at.ends[j] = Len(FlattenSeq(IdsOfFirst(k, p, j)))
    BY <1>2, <2>1 DEF Through, pieces
  <2>6. s \in Seq(Seq(Nat)) /\ Len(s) = all
    BY <1>1, <2>1, <2>4, PieceIdsType DEF pieces
  <2>7. ASSUME NEW j \in 1..all
        PROVE  IdsOfFirst(k, p, j) = First(s, j)
    BY <2>4 DEF IdsOfFirst, First
  <2>8. s[m] = IdsOf[k.splits[i]]
    BY <2>1 DEF IdsOfFirst, pieces
  <2>9. First(s, 0) = <<>>
    BY DEF First
  <2>10. Len(FlattenSeq(First(s, 0))) = 0
    BY <2>9, FlattenOfNone
  <2> HIDE DEF s, at, all
  <2>11. (IF pos = 0 THEN 0 ELSE at.ends[pos]) = Len(FlattenSeq(First(s, m - 1)))
    <3>1. CASE pos = 0
      BY <3>1, <2>2, <2>10
    <3>2. CASE pos # 0
      <4>1. pos \in 1..all
        <5>1. pos \in Nat /\ pos + 1 \in 1..all
          BY <2>1, <2>2
        <5> QED
          BY <3>2, <5>1, <2>4
      <4> QED
        BY <3>2, <4>1, <2>2, <2>5, <2>7
    <3> QED
      BY <3>1, <3>2
  <2>12. at.ends[m] = Len(FlattenSeq(First(s, m)))
    BY <2>1, <2>5, <2>7
  <2>13. m \in 1..Len(s)
    BY <2>1, <2>6
  <2>14. SubSeq(FlattenSeq(s), Len(FlattenSeq(First(s, m - 1))) + 1, Len(FlattenSeq(First(s, m)))) = s[m]
    BY <2>6, <2>13, FlattenSlice
  <2> QED
    BY <2>3, <2>5, <2>8, <2>11, <2>12, <2>14
<1>5. [i \in 1..n |-> Slice(k, i)] = AllIds(k.splits)
  BY <1>4 DEF AllIds
<1> QED
  BY <1>5 DEF Gathered

\* Whatever the schedule, what is gathered is what tokenizing the splits one after the
\* other gives.
LEMMA GatheredIs ==
  ASSUME NEW k \in Calls, CallSound(k), Closed(k), ~ k.failed
  PROVE  Gathered(k) \in Seq(Nat) /\ Gathered(k) = Expected(k.splits)
<1>1. Through(k)
  BY DoneIsThrough
<1>2. k.splits \in Seq(Items) /\ k.mode \in Modes /\ DOMAIN k.splits = 1..Len(k.splits)
  BY <1>1 DEF Through, Scheduled
<1>3. Gathered(k) = FlattenSeq(AllIds(k.splits))
  BY <1>1, <1>2, GatherSequential, GatherContiguous, GatherAffine DEF Modes
<1>4. ~ \E i \in DOMAIN k.splits : k.splits[i] \in Bad
  BY <1>1, <1>2, NoneBad
<1>5. FlattenSeq(AllIds(k.splits)) \in Seq(Nat)
  BY <1>2, AllIdsType, FlattenType
<1> QED
  BY <1>3, <1>4, <1>5 DEF Expected, AllIds

(***************************************************************************)
(* What a step does to a call.                                             *)
(***************************************************************************)

\* A sound call is scheduled as its mode says.
LEMMA ScheduledCall ==
  ASSUME NEW k \in Calls, CallSound(k)
  PROVE  Scheduled(k.splits, k.mode)
BY BatchedAssumption DEF Calls, CallSound, Scheduled, Modes

\* A call is its five fields, of their types.
LEMMA CallFields ==
  ASSUME NEW k \in Calls
  PROVE  /\ k = [splits |-> k.splits, mode |-> k.mode, failed |-> k.failed,
                 work |-> k.work, result |-> k.result]
         /\ k.splits \in Inputs /\ k.splits \in Seq(Items) /\ k.mode \in Modes
         /\ k.failed \in BOOLEAN
         /\ k.work \in Seq(Works) /\ DOMAIN k.work = 1..Len(k.work)
         /\ k.result \in Seq(Nat) \cup {Error, Idle}
BY BatchedAssumption DEF Calls, Modes

\* A call is the record of its fields.
LEMMA CallRecord ==
  ASSUME NEW k \in Calls
  PROVE  k = [splits |-> k.splits, mode |-> k.mode, failed |-> k.failed,
              work |-> k.work, result |-> k.result]
BY DEF Calls

\* What a call is with other work.
LEMMA CallWork ==
  ASSUME NEW k \in Calls, NEW work
  PROVE  [k EXCEPT !.work = work]
         = [splits |-> k.splits, mode |-> k.mode, failed |-> k.failed,
            work |-> work, result |-> k.result]
BY DEF Calls

\* What a call is with another mark of failure.
LEMMA CallFailed ==
  ASSUME NEW k \in Calls, NEW failed
  PROVE  [k EXCEPT !.failed = failed]
         = [splits |-> k.splits, mode |-> k.mode, failed |-> failed,
            work |-> k.work, result |-> k.result]
BY DEF Calls

\* A record of five fields of their types is a call.
LEMMA CallBuild ==
  ASSUME NEW k, NEW splits \in Inputs, NEW mode \in Modes, NEW failed \in BOOLEAN,
         NEW work \in Seq(Works), NEW result \in Seq(Nat) \cup {Error, Idle},
         k = [splits |-> splits, mode |-> mode, failed |-> failed,
              work |-> work, result |-> result]
  PROVE  k \in Calls
BY DEF Calls, Modes

\* A piece that a step leaves alone stays sound.
LEMMA PieceKept ==
  ASSUME NEW k, NEW m, NEW p,
         m.splits = k.splits, m.mode = k.mode, m.work[p] = k.work[p],
         k.failed => m.failed, PieceSound(k, p)
  PROVE  PieceSound(m, p)
BY DEF PieceSound, IdsOfFirst

\* A call begins sound, under any schedule Mode may choose.
LEMMA NewCallSound ==
  ASSUME NEW splits \in Inputs, NEW content_affine \in BOOLEAN, NEW k,
         k = [splits |-> splits, mode |-> Mode(splits, content_affine), failed |-> FALSE,
              work |-> [p \in 1..Len(Pieces(splits, Mode(splits, content_affine))) |-> Queued],
              result |-> Idle]
  PROVE  k \in Calls /\ CallSound(k)
<1> DEFINE mode == Mode(splits, content_affine)
           n    == Len(Pieces(splits, mode))
           work == [p \in 1..n |-> Queued]
<1>1. splits \in Seq(Items) /\ mode \in Modes /\ Len(splits) \in Nat /\ Threshold \in Nat \ {0}
  BY BatchedAssumption DEF Mode, Modes
<1>2. /\ mode # "sequential" => Len(splits) > 0
      /\ mode = "affine" => Len(splits) <= MaxAffinitySplits
  BY <1>1 DEF Mode
<1>3. Pieces(splits, mode) \in Seq(Seq(1..Len(splits)))
  BY <1>1, <1>2, PiecesPartition DEF Scheduled, Partitions
<1>4. k.splits = splits /\ k.mode = mode /\ k.failed = FALSE /\ k.work = work /\ k.result = Idle
  OBVIOUS
<1>5. Queued \in Works
  BY DEF Queued, Works
<1> HIDE DEF mode
<1>6. n \in Nat /\ \A p \in 1..n : Pieces(splits, mode)[p] \in Seq(1..Len(splits))
  BY <1>3
<1>7. work \in Seq(Works) /\ Len(work) = n
  <2> HIDE DEF n
  <2>1. work \in [1..n -> Works]
    BY <1>5
  <2> QED
    BY <1>6, <2>1, Tabled
<1>8. k \in Calls
  <2>1. k = [splits |-> splits, mode |-> mode, failed |-> FALSE, work |-> work, result |-> Idle]
    BY DEF mode
  <2> HIDE DEF work
  <2> QED
    BY <2>1, <1>1, <1>7, CallBuild
<1>9. ASSUME NEW p \in 1..n
      PROVE  PieceSound(k, p)
  <2>1. k.work[p] = Queued
    BY <1>4
  <2>2. Len(k.work[p].ends) = 0 /\ k.work[p].ids = <<>> /\ k.work[p].state = "queued"
    BY <2>1 DEF Queued
  <2>3. IdsOfFirst(k, p, 0) = <<>>
    BY DEF IdsOfFirst
  <2>4. FlattenSeq(IdsOfFirst(k, p, 0)) = <<>>
    BY <2>3, FlattenOfNone
  <2>5. Len(Pieces(k.splits, k.mode)[p]) \in Nat
    BY <1>4, <1>6
  <2>6. 0 <= Len(Pieces(k.splits, k.mode)[p]) /\ 1..0 = {}
    BY <2>5
  <2> QED
    BY <2>2, <2>4, <2>6 DEF PieceSound
<1>10. DOMAIN k.work = 1..n
  BY <1>4
<1>11. CallSound(k)
  BY <1>2, <1>4, <1>7, <1>9, <1>10 DEF CallSound
<1> QED
  BY <1>8, <1>11

\* m is a sound call that differs from k in piece p at most, and in whether it
\* has failed.
Follows(k, p, m) ==
  /\ m \in Calls /\ CallSound(m)
  /\ m.mode = k.mode /\ m.result = k.result /\ DOMAIN m.work = DOMAIN k.work
  /\ \A q \in DOMAIN k.work : q # p => m.work[q] = k.work[q]

\* m is k with another state of piece p.
Restated(k, p, state, m) == m = [k EXCEPT !.work[p].state = state]

\* Taking, leaving or skipping a piece keeps the call sound: done must mean through,
\* and only a call that has failed may leave a piece out.
LEMMA RestatedSound ==
  ASSUME NEW k \in Calls, CallSound(k), NEW p \in DOMAIN k.work, NEW state, NEW m,
         Restated(k, p, state, m),
         state \in {"queued", "running", "done", "failed", "skipped"},
         state = "done" => Len(k.work[p].ends) = Len(Pieces(k.splits, k.mode)[p]),
         state \in {"failed", "skipped"} => k.failed,
         k.result # Idle => state \in {"done", "failed", "skipped"}
  PROVE  /\ Follows(k, p, m)
         /\ m.work[p].state = state
<1> DEFINE at == k.work[p]
           now == [at EXCEPT !.state = state]
           work == [k.work EXCEPT ![p] = now]
<1>1. m = [splits |-> k.splits, mode |-> k.mode, failed |-> k.failed, work |-> work, result |-> k.result]
  <2>1. m = [k EXCEPT !.work = work]
    BY CallRecord DEF Restated
  <2> HIDE DEF work
  <2> QED
    BY <2>1, CallWork
<1>2. at \in Works /\ now \in Works /\ now.ids = at.ids /\ now.ends = at.ends /\ now.state = state
  <2>1. at \in Works
    BY CallFields
  <2> HIDE DEF at
  <2> QED
    BY <2>1 DEF Works
<1> HIDE DEF now
<1>3. work \in Seq(Works) /\ Len(work) = Len(k.work) /\ DOMAIN work = DOMAIN k.work
  BY <1>2, CallFields
<1>4. work[p] = now /\ \A q \in DOMAIN k.work : q # p => work[q] = k.work[q]
  BY <1>3
<1> HIDE DEF work
<1>5. m \in Calls
  BY <1>1, <1>3, CallFields, CallBuild
<1>6. m.splits = k.splits /\ m.mode = k.mode /\ m.failed = k.failed /\ m.work = work /\ m.result = k.result
  BY <1>1
<1>7. ASSUME NEW q \in DOMAIN k.work
      PROVE  PieceSound(m, q)
  <2>1. PieceSound(k, q)
    BY DEF CallSound
  <2>2. CASE q # p
    BY <1>4, <1>6, <2>1, <2>2, PieceKept
  <2>3. CASE q = p
    <3>1. m.work[q] = now /\ k.work[q] = at
      BY <1>4, <1>6, <2>3
    <3>2. \A n : IdsOfFirst(m, q, n) = IdsOfFirst(k, q, n)
      BY <1>6 DEF IdsOfFirst
    <3> QED
      BY <1>2, <1>6, <2>1, <2>3, <3>1, <3>2 DEF PieceSound
  <2> QED
    BY <2>2, <2>3
<1>8. CallSound(m)
  <2>1. m.result # Idle => Closed(m) /\ m.result = Expected(m.splits)
    <3>1. ASSUME m.result # Idle, NEW q \in DOMAIN k.work
          PROVE  m.work[q].state \in {"done", "failed", "skipped"}
      <4>1. k.work[q].state \in {"done", "failed", "skipped"}
        BY <1>6, <3>1 DEF CallSound, Closed
      <4> QED
        BY <1>2, <1>4, <1>6, <3>1, <4>1
    <3> QED
      BY <1>3, <1>6, <3>1 DEF CallSound, Closed
  <2> QED
    BY <1>3, <1>6, <1>7, <2>1 DEF CallSound
<1> QED
  BY <1>2, <1>3, <1>4, <1>5, <1>6, <1>8 DEF Follows

\* m is k when the next split of piece p has been tokenized, or was bad.
WentOn(k, p, m) ==
  LET at   == k.work[p]
      item == k.splits[Pieces(k.splits, k.mode)[p][Len(at.ends) + 1]]
      ids  == at.ids \o IdsOf[item]
  IN  IF item \in Bad
      THEN m = [k EXCEPT !.failed = TRUE, !.work[p].state = "failed"]
      ELSE m = [k EXCEPT !.work[p] = [at EXCEPT !.ids = ids, !.ends = Append(@, Len(ids))]]

\* A split that cannot be tokenized fails its piece and its call.
LEMMA FailedSound ==
  ASSUME NEW k \in Calls, CallSound(k), NEW p \in DOMAIN k.work, NEW m,
         k.result = Idle,
         \E i \in DOMAIN k.splits : k.splits[i] \in Bad,
         m = [k EXCEPT !.failed = TRUE, !.work[p].state = "failed"]
  PROVE  /\ Follows(k, p, m)
         /\ m.work[p].state = "failed"
<1> DEFINE l == [k EXCEPT !.failed = TRUE]
<1>1. l = [splits |-> k.splits, mode |-> k.mode, failed |-> TRUE, work |-> k.work, result |-> k.result]
  BY CallFailed
<1>2. m = [l EXCEPT !.work[p].state = "failed"]
  BY CallFields
<1>3. l.splits = k.splits /\ l.mode = k.mode /\ l.failed = TRUE /\ l.work = k.work /\ l.result = k.result
  BY <1>1
<1> HIDE DEF l
<1>4. l \in Calls
  BY <1>1, CallFields, CallBuild
<1>5. \A q \in DOMAIN k.work : PieceSound(l, q)
  BY <1>3, PieceKept DEF CallSound
<1>6. CallSound(l)
  BY <1>3, <1>5 DEF CallSound
<1>7. Restated(l, p, "failed", m)
  BY <1>2 DEF Restated
<1> QED
  <2>1. Follows(l, p, m) /\ m.work[p].state = "failed"
    BY <1>3, <1>4, <1>6, <1>7, RestatedSound
  <2> QED
    BY <1>3, <2>1 DEF Follows

\* A good split is tokenized: item is that split and ids are those of the piece.
Advanced(k, p, at, item, ids, m) ==
  /\ at = k.work[p]
  /\ at.state \in {"queued", "running"}
  /\ Len(at.ends) < Len(Pieces(k.splits, k.mode)[p])
  /\ item = k.splits[Pieces(k.splits, k.mode)[p][Len(at.ends) + 1]]
  /\ item \notin Bad
  /\ ids = at.ids \o IdsOf[item]
  /\ m = [k EXCEPT !.work[p] = [at EXCEPT !.ids = ids, !.ends = Append(@, Len(ids))]]

\* The pieces of a call, and the work on them, are of their types.
LEMMA PieceType ==
  ASSUME NEW k \in Calls, CallSound(k), NEW p \in DOMAIN k.work
  PROVE  /\ Pieces(k.splits, k.mode)[p] \in Seq(1..Len(k.splits))
         /\ p \in 1..Len(Pieces(k.splits, k.mode))
         /\ k.work[p] \in Works
<1>1. Pieces(k.splits, k.mode) \in Seq(Seq(1..Len(k.splits)))
  BY ScheduledCall, PiecesPartition DEF Partitions
<1>2. p \in 1..Len(Pieces(k.splits, k.mode)) /\ k.work[p] \in Works
  BY CallFields DEF CallSound
<1> QED
  BY <1>1, <1>2

\* The ids of the next split are the next in the order of the piece.
LEMMA OneMoreSplit ==
  ASSUME NEW k \in Calls, CallSound(k), NEW p \in DOMAIN k.work, NEW n \in Nat,
         n < Len(Pieces(k.splits, k.mode)[p]),
         NEW item, item = k.splits[Pieces(k.splits, k.mode)[p][n + 1]]
  PROVE  /\ IdsOf[item] \in Seq(Nat)
         /\ IdsOfFirst(k, p, n) \in Seq(Seq(Nat))
         /\ IdsOfFirst(k, p, n + 1) = Append(IdsOfFirst(k, p, n), IdsOf[item])
<1> DEFINE todo == Pieces(k.splits, k.mode)[p]
           a == IdsOfFirst(k, p, n)
           b == IdsOfFirst(k, p, n + 1)
<1>1. todo \in Seq(1..Len(k.splits)) /\ p \in 1..Len(Pieces(k.splits, k.mode))
  BY PieceType
<1>2. n + 1 \in Nat /\ n <= Len(todo) /\ n + 1 <= Len(todo) /\ n + 1 \in 1..Len(todo)
  BY <1>1
<1>3. IdsOf[item] \in Seq(Nat)
  <2>1. todo[n + 1] \in 1..Len(k.splits)
    BY <1>1, <1>2
  <2>2. item \in Items
    BY <2>1, CallFields
  <2> QED
    BY <2>2, BatchedAssumption
<1>4. a \in Seq(Seq(Nat)) /\ Len(a) = n
  BY <1>1, <1>2, ScheduledCall, PieceIdsType
<1>5. b \in Seq(Seq(Nat)) /\ Len(b) = n + 1
  BY <1>1, <1>2, ScheduledCall, PieceIdsType
<1>6. b[n + 1] = IdsOf[item] /\ \A j \in 1..n : b[j] = a[j]
  BY DEF IdsOfFirst
<1> DEFINE U == Seq(Nat)
           x == IdsOf[item]
<1> HIDE DEF a, b, U, x
<1>7. a \in Seq(U) /\ b \in Seq(U) /\ x \in U
  BY <1>3, <1>4, <1>5 DEF U, x
<1> DEFINE y == Append(a, x)
<1>8. y \in Seq(U) /\ Len(y) = n + 1 /\ y[n + 1] = x /\ \A j \in 1..n : y[j] = a[j]
  BY <1>4, <1>7, AppendProperties
<1>9. b[n + 1] = x
  BY <1>6 DEF x
<1> HIDE DEF y
<1>10. ASSUME NEW j \in 1..n + 1
       PROVE  b[j] = y[j]
  <2>1. CASE j = n + 1
    BY <1>8, <1>9, <2>1
  <2>2. CASE j \in 1..n
    BY <1>6, <1>8, <2>2
  <2> QED
    BY <2>1, <2>2
<1>11. b = y
  BY <1>5, <1>7, <1>8, <1>10, SeqEqual
<1> QED
  BY <1>3, <1>4, <1>11 DEF a, b, x, y

\* A split that is tokenized keeps its piece, and the call, sound.
LEMMA AdvancedSound ==
  ASSUME NEW k \in Calls, CallSound(k), NEW p \in DOMAIN k.work, NEW m, NEW item, NEW ids, NEW at,
         k.result = Idle, Advanced(k, p, at, item, ids, m)
  PROVE  /\ Follows(k, p, m)
         /\ m.work[p].state = at.state
<1> DEFINE todo == Pieces(k.splits, k.mode)[p]
           n == Len(at.ends)
           now == [at EXCEPT !.ids = ids, !.ends = Append(@, Len(ids))]
           work == [k.work EXCEPT ![p] = now]
<1>1. m = [splits |-> k.splits, mode |-> k.mode, failed |-> k.failed, work |-> work, result |-> k.result]
  <2>1. m = [k EXCEPT !.work = work]
    BY CallRecord DEF Advanced
  <2> HIDE DEF work
  <2> QED
    BY <2>1, CallWork
<1>2. at = k.work[p] /\ at \in Works /\ at.ids \in Seq(Nat) /\ at.ends \in Seq(Nat) /\ n \in Nat
  <2>1. at = k.work[p] /\ at \in Works
    BY PieceType DEF Advanced
  <2> QED
    BY <2>1 DEF Works
<1>3. n < Len(todo) /\ item \notin Bad /\ item = k.splits[todo[n + 1]] /\ ids = at.ids \o IdsOf[item]
  BY DEF Advanced
<1>4. todo \in Seq(1..Len(k.splits)) /\ Len(todo) \in Nat
  BY PieceType
<1>5. PieceSound(k, p)
  BY DEF CallSound
<1>6. /\ IdsOf[item] \in Seq(Nat) /\ IdsOfFirst(k, p, n) \in Seq(Seq(Nat))
      /\ IdsOfFirst(k, p, n + 1) = Append(IdsOfFirst(k, p, n), IdsOf[item])
  <2> HIDE DEF n
  <2> QED
    BY <1>2, <1>3, OneMoreSplit
<1>7. ids \in Seq(Nat) /\ Len(ids) \in Nat
  <2> DEFINE x == IdsOf[item]
  <2>1. ids = at.ids \o x /\ x \in Seq(Nat)
    BY <1>3, <1>6
  <2> HIDE DEF x
  <2>2. ids \in Seq(Nat)
    BY <1>2, <2>1, ConcatProperties
  <2> QED
    BY <2>2
<1>8. ids = FlattenSeq(IdsOfFirst(k, p, n + 1))
  <2>1. at.ids = FlattenSeq(IdsOfFirst(k, p, n))
    BY <1>2, <1>5 DEF PieceSound
  <2>2. FlattenSeq(Append(IdsOfFirst(k, p, n), IdsOf[item]))
        = FlattenSeq(IdsOfFirst(k, p, n)) \o IdsOf[item]
    BY <1>6, FlattenAppend
  <2> QED
    BY <1>3, <1>6, <2>1, <2>2
<1>9. /\ now \in Works /\ now.ids = ids /\ now.ends = Append(at.ends, Len(ids)) /\ now.state = at.state
  <2> DEFINE ends == Append(at.ends, Len(ids))
  <2>1. ends \in Seq(Nat)
    BY <1>2, <1>7
  <2>2. now = [at EXCEPT !.ids = ids, !.ends = ends]
    BY <1>2 DEF Works
  <2> HIDE DEF now, ends
  <2>3. now \in Works /\ now.ids = ids /\ now.ends = ends /\ now.state = at.state
    BY <1>2, <1>7, <2>1, <2>2 DEF Works
  <2> QED
    BY <2>3 DEF ends
<1>10. Len(now.ends) = n + 1 /\ now.ends[n + 1] = Len(ids) /\ \A j \in 1..n : now.ends[j] = at.ends[j]
  <2> HIDE DEF now
  <2> QED
    BY <1>2, <1>7, <1>9, AppendProperties
<1> HIDE DEF now
<1>11. work \in Seq(Works) /\ Len(work) = Len(k.work) /\ DOMAIN work = DOMAIN k.work
  BY <1>9, CallFields
<1>12. work[p] = now /\ \A q \in DOMAIN k.work : q # p => work[q] = k.work[q]
  BY <1>11
<1> HIDE DEF work
<1>13. m \in Calls
  BY <1>1, <1>11, CallFields, CallBuild
<1>14. m.splits = k.splits /\ m.mode = k.mode /\ m.failed = k.failed /\ m.work = work /\ m.result = k.result
  BY <1>1
<1>15. PieceSound(m, p)
  <2>1. \A i : IdsOfFirst(m, p, i) = IdsOfFirst(k, p, i)
    BY <1>14 DEF IdsOfFirst
  <2>2. ASSUME NEW j \in 1..n + 1
        PROVE  /\ k.splits[todo[j]] \notin Bad
               /\ now.ends[j] = Len(FlattenSeq(IdsOfFirst(k, p, j)))
    <3>1. CASE j = n + 1
      BY <3>1, <1>3, <1>8, <1>10
    <3>2. CASE j # n + 1
      <4>1. j \in 1..n
        BY <3>2, <1>2
      <4> QED
        BY <4>1, <1>2, <1>5, <1>10 DEF PieceSound
    <3> QED
      BY <3>1, <3>2
  <2>3. m.work[p] = now /\ Pieces(m.splits, m.mode)[p] = todo
    BY <1>12, <1>14
  <2>4. n + 1 <= Len(todo)
    <3> HIDE DEF n, todo
    <3> QED
      BY <1>2, <1>3, <1>4
  <2>5. at.state \in {"queued", "running"}
    BY DEF Advanced
  <2> HIDE DEF n, todo
  <2> QED
    BY <1>8, <1>9, <1>10, <1>14, <2>1, <2>2, <2>3, <2>4, <2>5 DEF PieceSound
<1>16. ASSUME NEW q \in DOMAIN k.work, q # p
       PROVE  PieceSound(m, q)
  BY <1>12, <1>14, <1>16, PieceKept DEF CallSound
<1>17. CallSound(m)
  BY <1>11, <1>14, <1>15, <1>16 DEF CallSound
<1> QED
  BY <1>9, <1>11, <1>12, <1>13, <1>14, <1>17 DEF Follows

\* One turn of a worker's loop keeps the call sound, whether it succeeds or not.
LEMMA WentOnSound ==
  ASSUME NEW k \in Calls, CallSound(k), NEW p \in DOMAIN k.work, NEW m,
         WentOn(k, p, m),
         k.work[p].state \in {"queued", "running"},
         Len(Pieces(k.splits, k.mode)[p]) - Len(k.work[p].ends) > 0
  PROVE  /\ k.result = Idle
         /\ Follows(k, p, m)
         /\ m.work[p].state \in {k.work[p].state, "failed"}
<1> DEFINE at == k.work[p]
           todo == Pieces(k.splits, k.mode)[p]
           item == k.splits[todo[Len(at.ends) + 1]]
           ids == at.ids \o IdsOf[item]
<1>1. k.result = Idle
  BY DEF CallSound, Closed
<1>2. at \in Works /\ todo \in Seq(1..Len(k.splits))
  BY PieceType
<1>3. Len(at.ends) \in Nat
  BY <1>2 DEF Works
<1>4. Len(at.ends) < Len(todo) /\ Len(at.ends) + 1 \in 1..Len(todo)
  <2>1. Len(todo) \in Nat
    BY <1>2
  <2>2. Len(todo) - Len(at.ends) > 0
    OBVIOUS
  <2> HIDE DEF todo, at
  <2> QED
    BY <1>3, <2>1, <2>2
<1>5. CASE item \in Bad
  <2>1. todo[Len(at.ends) + 1] \in DOMAIN k.splits
    BY <1>2, <1>4, CallFields
  <2>2. \E i \in DOMAIN k.splits : k.splits[i] \in Bad
    BY <1>5, <2>1
  <2>3. m = [k EXCEPT !.failed = TRUE, !.work[p].state = "failed"]
    BY <1>5 DEF WentOn
  <2> HIDE DEF item, todo, at
  <2> QED
    BY <1>1, <2>2, <2>3, FailedSound
<1>6. CASE item \notin Bad
  <2>1. Advanced(k, p, at, item, ids, m)
    BY <1>4, <1>6 DEF WentOn, Advanced
  <2> HIDE DEF item, ids
  <2>2. Follows(k, p, m) /\ m.work[p].state = at.state
    BY <1>1, <2>1, AdvancedSound
  <2> QED
    BY <1>1, <2>2
<1> QED
  BY <1>5, <1>6

\* The answer of a call whose pieces have all ended is the one expected.
LEMMA GatheredSound ==
  ASSUME NEW k \in Calls, CallSound(k), Closed(k), NEW m,
         m = [k EXCEPT !.result = IF k.failed THEN Error ELSE Gathered(k)]
  PROVE  /\ m \in Calls /\ CallSound(m)
<1> DEFINE result == IF k.failed THEN Error ELSE Gathered(k)
<1>1. result \in Seq(Nat) \cup {Error, Idle} /\ result = Expected(k.splits)
  <2>1. CASE k.failed
    BY <2>1 DEF CallSound, Expected
  <2>2. CASE ~ k.failed
    BY <2>2, GatheredIs
  <2> QED
    BY <2>1, <2>2
<1>2. m = [splits |-> k.splits, mode |-> k.mode, failed |-> k.failed, work |-> k.work, result |-> result]
  BY CallFields
<1> HIDE DEF result
<1>3. m \in Calls
  BY <1>1, <1>2, CallFields, CallBuild
<1>4. m.splits = k.splits /\ m.mode = k.mode /\ m.failed = k.failed /\ m.work = k.work /\ m.result = result
  BY <1>2
<1>5. \A q \in DOMAIN k.work : PieceSound(m, q)
  BY <1>4, PieceKept DEF CallSound
<1>6. CallSound(m)
  BY <1>1, <1>4, <1>5 DEF CallSound, Closed
<1> QED
  BY <1>3, <1>6

(***************************************************************************)
(* What a step does to the workers.                                        *)
(***************************************************************************)

\* Only the call of c changes, to m.
Changes(c, m) ==
  /\ call' = [call EXCEPT ![c] = m]
  /\ m \in Calls \cup {Idle}
  /\ m # Idle => CallSound(m)

\* If a step changes one call and leaves it sound, all calls are sound.
LEMMA CallsSound ==
  ASSUME IInv, NEW c \in Callers, NEW m, Changes(c, m)
  PROVE  /\ call' \in [Callers -> Calls \cup {Idle}]
         /\ \A d \in Callers : call'[d] # Idle => CallSound(call'[d])
         /\ call'[c] = m /\ \A d \in Callers : d # c => call'[d] = call[d]
<1>1. /\ call \in [Callers -> Calls \cup {Idle}]
      /\ \A d \in Callers : call[d] # Idle => CallSound(call[d])
  BY DEF IInv
<1>2. call' = [call EXCEPT ![c] = m] /\ m \in Calls \cup {Idle} /\ (m # Idle => CallSound(m))
  BY DEF Changes
<1>3. call'[c] = m /\ \A d \in Callers : d # c => call'[d] = call[d]
  BY <1>1, <1>2
<1>4. call' \in [Callers -> Calls \cup {Idle}]
  BY <1>1, <1>2
<1>5. ASSUME NEW d \in Callers, call'[d] # Idle
      PROVE  CallSound(call'[d])
  BY <1>1, <1>2, <1>3, <1>5
<1> QED
  BY <1>3, <1>4, <1>5

\* A call is told apart from none.
LEMMA NotIdle ==
  ASSUME NEW k \in Calls
  PROVE  k # Idle
BY BatchedAssumption

\* A call in progress is sound.
LEMMA CallOf ==
  ASSUME IInv, NEW c \in Callers, call[c] # Idle
  PROVE  call[c] \in Calls /\ CallSound(call[c])
BY DEF IInv

\* A worker has a piece of a call that waits.
LEMMA TaskOf ==
  ASSUME IInv, NEW w \in Workers, task[w] # Idle
  PROVE  /\ task[w] \in Callers \X Nat /\ task[w][1] \in Callers
         /\ call[task[w][1]] # Idle
         /\ call[task[w][1]].result = Idle
         /\ task[w][2] \in DOMAIN call[task[w][1]].work
         /\ call[task[w][1]].work[task[w][2]].state \in {"running", "failed"}
BY DEF IInv, TaskSound

\* Workers keep what they have when only a call changes, in a piece that nobody
\* holds or that stays held.
LEMMA TasksKept ==
  ASSUME IInv, NEW c \in Callers, call[c] # Idle, NEW p, NEW m,
         Follows(call[c], p, m), Changes(c, m), UNCHANGED <<affinity, task>>,
         call[c].work[p].state \in {"running", "failed"} => m.work[p].state \in {"running", "failed"}
  PROVE  IInv'
<1>1. m \in Calls /\ m.result = call[c].result /\ DOMAIN m.work = DOMAIN call[c].work /\ m # Idle
      /\ \A q \in DOMAIN call[c].work : q # p => m.work[q] = call[c].work[q]
  BY NotIdle DEF Follows
<1>2. ASSUME NEW w \in Workers, task[w] # Idle
      PROVE  /\ call'[task[w][1]] # Idle
             /\ call'[task[w][1]].result = Idle
             /\ task[w][2] \in DOMAIN call'[task[w][1]].work
             /\ call'[task[w][1]].work[task[w][2]].state \in {"running", "failed"}
  <2> DEFINE d == task[w][1]
             q == task[w][2]
  <2>1. /\ d \in Callers /\ call[d] # Idle /\ call[d].result = Idle
        /\ q \in DOMAIN call[d].work /\ call[d].work[q].state \in {"running", "failed"}
    BY <1>2, TaskOf
  <2> HIDE DEF d, q
  <2>2. CASE d = c
    <3>1. call'[d] = m
      BY <2>2, CallsSound
    <3>2. m.work[q].state \in {"running", "failed"}
      BY <1>1, <2>1, <2>2
    <3>3. call'[d] # Idle /\ call'[d].result = Idle /\ q \in DOMAIN call'[d].work
          /\ call'[d].work[q].state \in {"running", "failed"}
      BY <1>1, <2>1, <2>2, <3>1, <3>2
    <3> QED
      BY <3>3 DEF d, q
  <2>3. CASE d # c
    <3>1. call'[d] = call[d]
      BY <2>1, <2>3, CallsSound
    <3> QED
      BY <2>1, <3>1 DEF d, q
  <2> QED
    BY <2>2, <2>3
<1>3. TaskSound'
  BY <1>2 DEF TaskSound, IInv
<1>4. /\ call' \in [Callers -> Calls \cup {Idle}]
      /\ \A d \in Callers : call'[d] # Idle => CallSound(call'[d])
  BY CallsSound
<1> QED
  BY <1>3, <1>4 DEF IInv

\* The same when no worker holds a piece of the call, whatever becomes of it.
LEMMA TasksElsewhere ==
  ASSUME IInv, NEW c \in Callers, NEW m, Changes(c, m), task' = task,
         \A w \in Workers : task[w] # Idle => task[w][1] # c
  PROVE  call' \in [Callers -> Calls \cup {Idle}]
         /\ (\A d \in Callers : call'[d] # Idle => CallSound(call'[d]))
         /\ task' \in [Workers -> (Callers \X Nat) \cup {Idle}]
         /\ TaskSound'
<1>1. ASSUME NEW w \in Workers, task[w] # Idle
      PROVE  call'[task[w][1]] = call[task[w][1]]
  BY <1>1, TaskOf, CallsSound
<1>2. TaskSound'
  BY <1>1 DEF TaskSound, IInv
<1> QED
  BY <1>2, CallsSound DEF IInv

\* Tokenize is one turn on the call it is about.
LEMMA TokenizeIs ==
  ASSUME NEW c, NEW p, Tokenize(c, p)
  PROVE  \E m : call' = [call EXCEPT ![c] = m] /\ WentOn(call[c], p, m)
<1> DEFINE k == call[c]
           at == k.work[p]
           item == k.splits[Pieces(k.splits, k.mode)[p][Len(at.ends) + 1]]
           ids == at.ids \o IdsOf[item]
           failed == [k EXCEPT !.failed = TRUE, !.work[p].state = "failed"]
           longer == [k EXCEPT !.work[p] = [at EXCEPT !.ids = ids, !.ends = Append(at.ends, Len(ids))]]
<1>1. CASE item \in Bad
  <2>1. WentOn(k, p, failed)
    BY <1>1 DEF WentOn
  <2>2. call' = [call EXCEPT ![c] = failed]
    BY <1>1 DEF Tokenize
  <2> HIDE DEF failed
  <2> QED
    BY <2>1, <2>2
<1>2. CASE item \notin Bad
  <2>1. WentOn(k, p, longer)
    BY <1>2 DEF WentOn
  <2>2. call' = [call EXCEPT ![c] = longer]
    BY <1>2 DEF Tokenize
  <2> HIDE DEF longer
  <2> QED
    BY <2>1, <2>2
<1> QED
  BY <1>1, <1>2

\* Nobody encodes, and nobody works, at first.
LEMMA InitSound == Init => IInv
BY DEF Init, IInv, TaskSound

(***************************************************************************)
(* The steps.                                                              *)
(***************************************************************************)

\* A call that begins has no workers yet.
LEMMA BeginSound ==
  ASSUME IInv, NEW c \in Callers, NEW splits \in Inputs, NEW prefers \in BOOLEAN,
         Begin(c, splits, prefers)
  PROVE  IInv'
<1> DEFINE takes == prefers /\ Len(splits) >= Threshold
           mode  == Mode(splits, takes /\ affinity)
           m == [splits |-> splits, mode |-> mode, failed |-> FALSE,
                 work |-> [p \in 1..Len(Pieces(splits, mode)) |-> Queued], result |-> Idle]
<1>1. call[c] = Idle /\ call' = [call EXCEPT ![c] = m] /\ task' = task
      /\ affinity' = (affinity /\ ~ takes)
  BY DEF Begin
<1>2. m \in Calls /\ CallSound(m)
  <2>1. (takes /\ affinity) \in BOOLEAN
    OBVIOUS
  <2> QED
    BY <2>1, NewCallSound
<1> HIDE DEF m
<1>3. Changes(c, m)
  BY <1>1, <1>2 DEF Changes
<1>4. \A w \in Workers : task[w] # Idle => task[w][1] # c
  BY <1>1, TaskOf
<1>5. affinity' \in BOOLEAN
  BY <1>1
<1> QED
  BY <1>1, <1>3, <1>4, <1>5, TasksElsewhere DEF IInv

\* A worker takes a piece nobody has.
LEMMA TakeSound ==
  ASSUME IInv, NEW w \in Workers, NEW c \in Callers, NEW p, Take(w, c, p)
  PROVE  IInv'
<1> DEFINE k == call[c]
           m == [k EXCEPT !.work[p].state = "running"]
<1>1. /\ task[w] = Idle /\ k # Idle /\ p \in DOMAIN k.work /\ k.work[p].state = "queued"
      /\ task' = [task EXCEPT ![w] = <<c, p>>] /\ call' = [call EXCEPT ![c] = m] /\ affinity' = affinity
  BY DEF Take
<1>2. k \in Calls /\ CallSound(k) /\ Restated(k, p, "running", m)
  BY <1>1, CallOf DEF Restated
<1> HIDE DEF m, k
<1>3. k.result = Idle
  BY <1>1, <1>2 DEF CallSound, Closed
<1>4. Follows(k, p, m) /\ m.work[p].state = "running"
  BY <1>1, <1>2, <1>3, RestatedSound
<1>5. m \in Calls /\ CallSound(m) /\ m # Idle /\ m.result = Idle /\ DOMAIN m.work = DOMAIN k.work
      /\ \A q \in DOMAIN k.work : q # p => m.work[q] = k.work[q]
  BY <1>3, <1>4, NotIdle DEF Follows
<1>6. Changes(c, m)
  BY <1>1, <1>5 DEF Changes
<1>7. p \in Nat /\ <<c, p>> \in Callers \X Nat /\ <<c, p>> # Idle
  <2>1. p \in Nat
    BY <1>1, <1>2, CallFields
  <2> QED
    BY <2>1, BatchedAssumption
<1>8. task \in [Workers -> (Callers \X Nat) \cup {Idle}]
  BY DEF IInv
<1>9. /\ task' \in [Workers -> (Callers \X Nat) \cup {Idle}]
      /\ task'[w] = <<c, p>> /\ \A v \in Workers : v # w => task'[v] = task[v]
  BY <1>1, <1>7, <1>8
<1>10. ASSUME NEW v \in Workers, task[v] # Idle
       PROVE  task[v] # <<c, p>>
  <2>1. call[task[v][1]].work[task[v][2]].state \in {"running", "failed"}
    BY <1>10, TaskOf
  <2> QED
    BY <1>1, <2>1 DEF k
<1>11. ASSUME NEW v \in Workers, task'[v] # Idle
       PROVE  /\ call'[task'[v][1]] # Idle
              /\ call'[task'[v][1]].result = Idle
              /\ task'[v][2] \in DOMAIN call'[task'[v][1]].work
              /\ call'[task'[v][1]].work[task'[v][2]].state \in {"running", "failed"}
  <2>1. CASE v = w
    <3>1. call'[c] = m
      BY <1>6, CallsSound
    <3>2. task'[v][1] = c /\ task'[v][2] = p
      BY <1>9, <2>1
    <3> QED
      BY <1>1, <1>4, <1>5, <3>1, <3>2
  <2>2. CASE v # w
    <3> DEFINE d == task[v][1]
               q == task[v][2]
    <3>1. task'[v] = task[v] /\ task[v] # Idle
      BY <1>9, <1>11, <2>2
    <3>2. /\ task[v] = <<d, q>> /\ d \in Callers /\ call[d] # Idle /\ call[d].result = Idle
          /\ q \in DOMAIN call[d].work /\ call[d].work[q].state \in {"running", "failed"}
      BY <3>1, TaskOf
    <3> HIDE DEF d, q
    <3>3. CASE d = c
      <4>1. call'[d] = m /\ q # p
        BY <1>6, <1>10, <3>1, <3>2, <3>3, CallsSound
      <4>2. m.work[q] = call[d].work[q]
        BY <1>5, <3>2, <3>3, <4>1 DEF k
      <4>3. call'[d] # Idle /\ call'[d].result = Idle /\ q \in DOMAIN call'[d].work
            /\ call'[d].work[q].state \in {"running", "failed"}
        BY <1>5, <3>2, <3>3, <4>1, <4>2 DEF k
      <4> QED
        BY <3>1, <4>3 DEF d, q
    <3>4. CASE d # c
      <4>1. call'[d] = call[d]
        BY <1>6, <3>2, <3>4, CallsSound
      <4> QED
        BY <3>1, <3>2, <4>1 DEF d, q
    <3> QED
      BY <3>3, <3>4
  <2> QED
    BY <2>1, <2>2
<1>12. \A v, u \in Workers : task'[v] = task'[u] /\ task'[v] # Idle => v = u
  BY <1>9, <1>10 DEF IInv, TaskSound
<1>13. TaskSound'
  BY <1>11, <1>12 DEF TaskSound
<1>14. /\ call' \in [Callers -> Calls \cup {Idle}]
       /\ \A d \in Callers : call'[d] # Idle => CallSound(call'[d])
  BY <1>6, CallsSound
<1> QED
  BY <1>1, <1>9, <1>13, <1>14 DEF IInv

\* A worker goes on with its own piece, of whichever call.
LEMMA WorkOnSound ==
  ASSUME IInv, NEW w \in Workers, WorkOn(w)
  PROVE  IInv'
<1> DEFINE c == task[w][1]
           p == task[w][2]
           k == call[c]
<1>1. /\ task[w] # Idle /\ k.work[p].state = "running" /\ Left(c, p) > 0 /\ Tokenize(c, p)
      /\ UNCHANGED <<affinity, task>>
  BY DEF WorkOn
<1>2. c \in Callers /\ k # Idle /\ p \in DOMAIN k.work
  BY <1>1, TaskOf
<1> HIDE DEF c, p
<1>3. k \in Calls /\ CallSound(k)
  BY <1>2, CallOf
<1>4. PICK m : call' = [call EXCEPT ![c] = m] /\ WentOn(k, p, m)
  BY <1>1, TokenizeIs
<1>5. Len(Pieces(k.splits, k.mode)[p]) - Len(k.work[p].ends) > 0
  BY <1>1 DEF Left
<1> HIDE DEF k
<1>6. Follows(k, p, m) /\ m.work[p].state \in {k.work[p].state, "failed"}
  BY <1>1, <1>2, <1>3, <1>4, <1>5, WentOnSound
<1>7. Changes(c, m)
  BY <1>4, <1>6 DEF Changes, Follows
<1> QED
  BY <1>1, <1>2, <1>6, <1>7, TasksKept DEF k

\* A caller goes on with its only piece.
LEMMA WorkAloneSound ==
  ASSUME IInv, NEW c \in Callers, WorkAlone(c)
  PROVE  IInv'
<1> DEFINE k == call[c]
<1>1. /\ k # Idle /\ k.mode = "sequential" /\ k.work[1].state = "queued" /\ UNCHANGED <<affinity, task>>
      /\ IF Left(c, 1) > 0
         THEN Tokenize(c, 1)
         ELSE call' = [call EXCEPT ![c].work[1].state = "done"]
  BY DEF WorkAlone
<1>2. k \in Calls /\ CallSound(k)
  BY <1>1, CallOf
<1>3. 1 \in DOMAIN k.work
  <2>1. Len(Pieces(k.splits, k.mode)) = 1
    BY <1>1 DEF Pieces
  <2> QED
    BY <1>2, <2>1, CallFields DEF CallSound
<1>4. k.result = Idle
  BY <1>1, <1>2, <1>3 DEF CallSound, Closed
<1>5. CASE Left(c, 1) > 0
  <2>1. PICK m : call' = [call EXCEPT ![c] = m] /\ WentOn(k, 1, m)
    BY <1>1, <1>5, TokenizeIs
  <2>2. Len(Pieces(k.splits, k.mode)[1]) - Len(k.work[1].ends) > 0
    BY <1>5 DEF Left
  <2> HIDE DEF k
  <2>3. Follows(k, 1, m)
    BY <1>1, <1>2, <1>3, <2>1, <2>2, WentOnSound
  <2>4. Changes(c, m)
    BY <2>1, <2>3 DEF Changes, Follows
  <2>5. k.work[1].state \notin {"running", "failed"}
    BY <1>1
  <2> QED
    BY <1>1, <2>3, <2>4, <2>5, TasksKept DEF k
<1>6. CASE ~ Left(c, 1) > 0
  <2> DEFINE m == [k EXCEPT !.work[1].state = "done"]
  <2>1. call' = [call EXCEPT ![c] = m] /\ Restated(k, 1, "done", m)
    BY <1>1, <1>6 DEF Restated
  <2> HIDE DEF m
  <2>2. Len(k.work[1].ends) = Len(Pieces(k.splits, k.mode)[1])
    <3>1. Pieces(k.splits, k.mode)[1] \in Seq(1..Len(k.splits)) /\ k.work[1] \in Works
      BY <1>2, <1>3, PieceType
    <3>2. Len(Pieces(k.splits, k.mode)[1]) \in Nat /\ Len(k.work[1].ends) \in Nat
      BY <3>1 DEF Works
    <3>3. Len(k.work[1].ends) <= Len(Pieces(k.splits, k.mode)[1])
      BY <1>2, <1>3 DEF CallSound, PieceSound
    <3>4. ~ Len(Pieces(k.splits, k.mode)[1]) - Len(k.work[1].ends) > 0
      BY <1>6 DEF Left
    <3> DEFINE all == Len(Pieces(k.splits, k.mode)[1])
               met == Len(k.work[1].ends)
    <3> HIDE DEF all, met
    <3>5. all \in Nat /\ met \in Nat /\ met <= all /\ ~ all - met > 0
      BY <3>2, <3>3, <3>4 DEF all, met
    <3>6. met = all
      BY <3>5
    <3> QED
      BY <3>6 DEF all, met
  <2> HIDE DEF k
  <2>3. Follows(k, 1, m)
    BY <1>2, <1>3, <1>4, <2>1, <2>2, RestatedSound
  <2>4. Changes(c, m)
    BY <2>1, <2>3 DEF Changes, Follows
  <2>5. k.work[1].state \notin {"running", "failed"}
    BY <1>1
  <2> QED
    BY <1>1, <2>3, <2>4, <2>5, TasksKept DEF k
<1> QED
  BY <1>5, <1>6

\* A piece is skipped only in a call that has failed.
LEMMA SkipSound ==
  ASSUME IInv, NEW c \in Callers, NEW p, Skip(c, p)
  PROVE  IInv'
<1> DEFINE k == call[c]
           m == [k EXCEPT !.work[p].state = "skipped"]
<1>1. /\ k # Idle /\ k.failed /\ p \in DOMAIN k.work /\ k.work[p].state = "queued"
      /\ call' = [call EXCEPT ![c] = m] /\ UNCHANGED <<affinity, task>>
  BY DEF Skip
<1>2. k \in Calls /\ CallSound(k) /\ Restated(k, p, "skipped", m)
  BY <1>1, CallOf DEF Restated
<1> HIDE DEF m, k
<1>3. Follows(k, p, m)
  BY <1>1, <1>2, RestatedSound
<1>4. Changes(c, m)
  BY <1>1, <1>3 DEF Changes, Follows
<1>5. k.work[p].state \notin {"running", "failed"}
  BY <1>1
<1> QED
  BY <1>1, <1>3, <1>4, <1>5, TasksKept DEF k

\* A worker leaves a piece that is through or has failed.
LEMMA LeaveSound ==
  ASSUME IInv, NEW w \in Workers, Leave(w)
  PROVE  IInv'
<1> DEFINE c == task[w][1]
           p == task[w][2]
           k == call[c]
           s == k.work[p].state
           new == IF s = "failed" THEN s ELSE "done"
           m == [k EXCEPT !.work[p].state = new]
<1>1. /\ task[w] # Idle /\ (s = "failed" \/ Left(c, p) = 0)
      /\ call' = [call EXCEPT ![c] = m]
      /\ task' = [task EXCEPT ![w] = Idle] /\ affinity' = affinity
  BY DEF Leave
<1>2. /\ task[w] = <<c, p>> /\ c \in Callers /\ k # Idle /\ k.result = Idle /\ p \in DOMAIN k.work
      /\ s \in {"running", "failed"}
  <2>1. /\ task[w] \in Callers \X Nat /\ c \in Callers /\ k # Idle /\ k.result = Idle
        /\ p \in DOMAIN k.work /\ s \in {"running", "failed"}
    BY <1>1, TaskOf
  <2>2. task[w] = <<task[w][1], task[w][2]>>
    BY <2>1
  <2> QED
    BY <2>1, <2>2
<1> HIDE DEF c, p
<1>3. k \in Calls /\ CallSound(k) /\ Restated(k, p, new, m)
  BY <1>2, CallOf DEF Restated
<1>4. /\ new \in {"done", "failed"} /\ (new = "failed" => k.failed)
      /\ new = "done" => Len(k.work[p].ends) = Len(Pieces(k.splits, k.mode)[p])
  <2>1. s = "failed" => k.failed
    BY <1>2, <1>3 DEF CallSound, PieceSound
  <2>2. CASE s = "failed"
    BY <2>1, <2>2
  <2>3. CASE s # "failed"
    <3>1. Pieces(k.splits, k.mode)[p] \in Seq(1..Len(k.splits)) /\ k.work[p] \in Works
      BY <1>2, <1>3, PieceType
    <3>2. Len(Pieces(k.splits, k.mode)[p]) \in Nat /\ Len(k.work[p].ends) \in Nat
      BY <3>1 DEF Works
    <3>3. Len(Pieces(k.splits, k.mode)[p]) - Len(k.work[p].ends) = 0
      BY <1>1, <2>3 DEF Left
    <3>4. Len(k.work[p].ends) = Len(Pieces(k.splits, k.mode)[p])
      BY <3>2, <3>3
    <3> QED
      BY <2>3, <3>4
  <2> QED
    BY <2>2, <2>3
<1> HIDE DEF k, m, new
<1>5. Follows(k, p, m)
  BY <1>2, <1>3, <1>4, RestatedSound
<1>6. m \in Calls /\ CallSound(m) /\ m # Idle /\ m.result = Idle /\ DOMAIN m.work = DOMAIN k.work
      /\ \A q \in DOMAIN k.work : q # p => m.work[q] = k.work[q]
  BY <1>2, <1>5, NotIdle DEF Follows
<1>7. Changes(c, m)
  BY <1>1, <1>6 DEF Changes
<1>8. task \in [Workers -> (Callers \X Nat) \cup {Idle}]
  BY DEF IInv
<1>9. /\ task' \in [Workers -> (Callers \X Nat) \cup {Idle}]
      /\ task'[w] = Idle /\ \A v \in Workers : v # w => task'[v] = task[v]
  BY <1>1, <1>8
<1>10. ASSUME NEW v \in Workers, task'[v] # Idle
       PROVE  /\ call'[task'[v][1]] # Idle
              /\ call'[task'[v][1]].result = Idle
              /\ task'[v][2] \in DOMAIN call'[task'[v][1]].work
              /\ call'[task'[v][1]].work[task'[v][2]].state \in {"running", "failed"}
  <2> DEFINE d == task[v][1]
             q == task[v][2]
  <2>1. task'[v] = task[v] /\ task[v] # Idle /\ v # w
    BY <1>9, <1>10
  <2>2. /\ task[v] = <<d, q>> /\ d \in Callers /\ call[d] # Idle /\ call[d].result = Idle
        /\ q \in DOMAIN call[d].work /\ call[d].work[q].state \in {"running", "failed"}
    BY <2>1, TaskOf
  <2>3. task[v] # task[w]
    BY <1>1, <2>1 DEF IInv, TaskSound
  <2> HIDE DEF d, q
  <2>4. CASE d = c
    <3>1. call'[d] = m /\ q # p
      BY <1>2, <1>7, <2>2, <2>3, <2>4, CallsSound
    <3>2. m.work[q] = call[d].work[q]
      BY <1>6, <2>2, <2>4, <3>1 DEF k
    <3>3. call'[d] # Idle /\ call'[d].result = Idle /\ q \in DOMAIN call'[d].work
          /\ call'[d].work[q].state \in {"running", "failed"}
      BY <1>6, <2>2, <2>4, <3>1, <3>2 DEF k
    <3> QED
      BY <2>1, <3>3 DEF d, q
  <2>5. CASE d # c
    <3>1. call'[d] = call[d]
      BY <1>2, <1>7, <2>2, <2>5, CallsSound
    <3> QED
      BY <2>1, <2>2, <3>1 DEF d, q
  <2> QED
    BY <2>4, <2>5
<1>11. \A v, u \in Workers : task'[v] = task'[u] /\ task'[v] # Idle => v = u
  BY <1>9 DEF IInv, TaskSound
<1>12. TaskSound'
  BY <1>10, <1>11 DEF TaskSound
<1>13. /\ call' \in [Callers -> Calls \cup {Idle}]
       /\ \A d \in Callers : call'[d] # Idle => CallSound(call'[d])
  BY <1>2, <1>7, CallsSound
<1> QED
  BY <1>1, <1>9, <1>12, <1>13 DEF IInv

\* A call is answered when no worker has a piece of it.
LEMMA GatherSound ==
  ASSUME IInv, NEW c \in Callers, Gather(c)
  PROVE  IInv'
<1> DEFINE k == call[c]
           m == [k EXCEPT !.result = IF k.failed THEN Error ELSE Gathered(k)]
<1>1. k # Idle /\ Ended(c) /\ call' = [call EXCEPT ![c] = m] /\ UNCHANGED <<affinity, task>>
  BY DEF Gather
<1>2. k \in Calls /\ CallSound(k)
  BY <1>1, CallOf
<1>3. Closed(k) /\ \A w \in Workers : task[w] # Idle => task[w][1] # c
  BY <1>1 DEF Ended, Closed
<1>4. m \in Calls /\ CallSound(m)
  <2> HIDE DEF k
  <2> QED
    BY <1>2, <1>3, GatheredSound
<1> HIDE DEF k, m
<1>5. Changes(c, m)
  BY <1>1, <1>4 DEF Changes
<1> QED
  BY <1>1, <1>3, <1>5, TasksElsewhere DEF IInv

\* A call that returns leaves no worker behind: one at a piece of it would have kept it
\* from being answered.
LEMMA ReturnSound ==
  ASSUME IInv, NEW c \in Callers, Return(c)
  PROVE  IInv'
<1>1. /\ call[c] # Idle /\ call[c].result # Idle
      /\ call' = [call EXCEPT ![c] = Idle] /\ UNCHANGED <<affinity, task>>
  BY DEF Return
<1>2. Changes(c, Idle)
  BY <1>1 DEF Changes
<1>3. \A w \in Workers : task[w] # Idle => task[w][1] # c
  BY <1>1, TaskOf
<1> QED
  BY <1>1, <1>2, <1>3, TasksElsewhere DEF IInv

\* Every step keeps the invariant.
LEMMA NextSound == IInv /\ [Next]_vars => IInv'
<1> SUFFICES ASSUME IInv, [Next]_vars
             PROVE  IInv'
  OBVIOUS
<1>1. ASSUME NEW c \in Callers, NEW splits \in Inputs, NEW prefers \in BOOLEAN,
             Begin(c, splits, prefers)
      PROVE  IInv'
  BY <1>1, BeginSound
<1>2. ASSUME NEW c \in Callers, WorkAlone(c)
      PROVE  IInv'
  BY <1>2, WorkAloneSound
<1>3. ASSUME NEW c \in Callers, Gather(c)
      PROVE  IInv'
  BY <1>3, GatherSound
<1>4. ASSUME NEW c \in Callers, Return(c)
      PROVE  IInv'
  BY <1>4, ReturnSound
<1>5. ASSUME NEW c \in Callers, NEW p, Skip(c, p)
      PROVE  IInv'
  BY <1>5, SkipSound
<1>6. ASSUME NEW c \in Callers, NEW p, NEW w \in Workers, Take(w, c, p)
      PROVE  IInv'
  BY <1>6, TakeSound
<1>7. ASSUME NEW w \in Workers, WorkOn(w)
      PROVE  IInv'
  BY <1>7, WorkOnSound
<1>8. ASSUME NEW w \in Workers, Leave(w)
      PROVE  IInv'
  BY <1>8, LeaveSound
<1>9. CASE UNCHANGED vars
  BY <1>9 DEF vars, IInv, TaskSound
<1> QED
  BY <1>1, <1>2, <1>3, <1>4, <1>5, <1>6, <1>7, <1>8, <1>9 DEF Next

(***************************************************************************)
(* The theorems.                                                           *)
(***************************************************************************)

\* The invariant holds in every reachable state: pieces hold the ids of the splits they
\* have been through, workers hold pieces of calls that wait, answers are as expected.
THEOREM Invariance == Spec => []IInv
<1>1. Init => IInv
  BY InitSound
<1>2. IInv /\ [Next]_vars => IInv'
  BY NextSound
<1> QED
  BY <1>1, <1>2, PTL DEF Spec

\* Counting the pieces that hold a split gives one.
LEMMA EachInOnePiece ==
  ASSUME NEW k \in Calls, CallSound(k), NEW i \in DOMAIN k.splits
  PROVE  Cardinality({p \in DOMAIN k.work : Contains(Pieces(k.splits, k.mode)[p], i)}) = 1
<1> DEFINE pieces == Pieces(k.splits, k.mode)
           holders == {p \in DOMAIN k.work : Contains(pieces[p], i)}
<1>1. i \in 1..Len(k.splits) /\ DOMAIN k.work = 1..Len(pieces)
  BY CallFields DEF CallSound
<1>2. Partitions(k.splits, pieces)
  BY ScheduledCall, PiecesPartition
<1>3. PICK p \in 1..Len(pieces) : \A q \in 1..Len(pieces) : Contains(pieces[q], i) <=> p = q
  BY <1>1, <1>2 DEF Partitions
<1>4. holders = {p}
  BY <1>1, <1>3
<1> QED
  BY <1>4, FS_Singleton

\* tokenize_batched and tokenize_batched_affine put every split in exactly one piece of
\* work, and a worker holds a piece only while the caller, whose buffer it reads, waits.
THEOREM TypesHold == Spec => []TypeOK
<1>1. IInv => TypeOK
  <2> SUFFICES ASSUME IInv
               PROVE  TypeOK
    OBVIOUS
  <2>1. ASSUME NEW c \in Callers, call[c] # Idle, NEW i \in DOMAIN call[c].splits
        PROVE  Cardinality({p \in DOMAIN call[c].work :
                 Contains(Pieces(call[c].splits, call[c].mode)[p], i)}) = 1
    BY <2>1, CallOf, EachInOnePiece
  <2> QED
    BY <2>1 DEF TypeOK, IInv, TaskSound
<1> QED
  BY <1>1, Invariance, PTL

\* Whatever the schedule (the caller alone, chunks, buckets by content), and whatever
\* calls share the workers, an encode call returns the ids of its splits in their order,
\* or the error of one of them.
THEOREM AlwaysInOrder == Spec => []InOrder
<1>1. IInv => InOrder
  BY DEF IInv, CallSound, InOrder
<1> QED
  BY <1>1, Invariance, PTL

\* A step that goes on with a call, or ends it, and leaves the others alone.
Resumes(c) == call[c] # Idle /\ \E m : call' = [call EXCEPT ![c] = m]

\* Tokenizing a split goes on with its call.
LEMMA TokenizeResumes ==
  ASSUME NEW c, NEW p, call[c] # Idle, Tokenize(c, p)
  PROVE  Resumes(c)
BY TokenizeIs DEF Resumes

\* A worker that leaves a piece goes on with the call of the piece.
LEMMA LeaveResumes ==
  ASSUME IInv, NEW w \in Workers, Leave(w)
  PROVE  affinity' = affinity /\ task[w][1] \in Callers /\ Resumes(task[w][1])
<1> DEFINE c == task[w][1]
           p == task[w][2]
           k == call[c]
           s == k.work[p].state
           new == IF s = "failed" THEN s ELSE "done"
           m == [k EXCEPT !.work[p].state = new]
<1>1. /\ task[w] # Idle /\ (s = "failed" \/ Left(c, p) = 0)
      /\ call' = [call EXCEPT ![c] = m]
      /\ task' = [task EXCEPT ![w] = Idle] /\ affinity' = affinity
  BY DEF Leave
<1>2. c \in Callers /\ k # Idle
  BY <1>1, TaskOf
<1> HIDE DEF m, c
<1>3. Resumes(c)
  BY <1>1, <1>2 DEF Resumes
<1> QED
  BY <1>1, <1>2, <1>3 DEF c

\* Only encode makes calls, and only it spends the flag: whatever else happens goes on
\* with a call there is.
LEMMA BeginsOrResumes ==
  ASSUME IInv, Next
  PROVE  \/ \E c \in Callers, splits \in Inputs, prefers \in BOOLEAN : Begin(c, splits, prefers)
         \/ affinity' = affinity /\ \E c \in Callers : Resumes(c)
<1>1. ASSUME NEW c \in Callers, WorkAlone(c)
      PROVE  affinity' = affinity /\ Resumes(c)
  <2>1. CASE Left(c, 1) > 0
    BY <1>1, <2>1, TokenizeResumes DEF WorkAlone
  <2>2. CASE ~ (Left(c, 1) > 0)
    BY <1>1, <2>2 DEF WorkAlone, Resumes
  <2> QED
    BY <2>1, <2>2
<1>2. ASSUME NEW c \in Callers, Gather(c)
      PROVE  affinity' = affinity /\ Resumes(c)
  BY <1>2 DEF Gather, Resumes
<1>3. ASSUME NEW c \in Callers, Return(c)
      PROVE  affinity' = affinity /\ Resumes(c)
  BY <1>3 DEF Return, Resumes
<1>4. ASSUME NEW c \in Callers, NEW p, Skip(c, p)
      PROVE  affinity' = affinity /\ Resumes(c)
  BY <1>4 DEF Skip, Resumes
<1>5. ASSUME NEW c \in Callers, NEW p, NEW w \in Workers, Take(w, c, p)
      PROVE  affinity' = affinity /\ Resumes(c)
  BY <1>5 DEF Take, Resumes
<1>6. ASSUME NEW w \in Workers, WorkOn(w)
      PROVE  affinity' = affinity /\ task[w][1] \in Callers /\ Resumes(task[w][1])
  BY <1>6, TaskOf, TokenizeResumes DEF WorkOn
<1>7. ASSUME NEW w \in Workers, Leave(w)
      PROVE  affinity' = affinity /\ task[w][1] \in Callers /\ Resumes(task[w][1])
  BY <1>7, LeaveResumes
<1> QED
  BY <1>1, <1>2, <1>3, <1>4, <1>5, <1>6, <1>7 DEF Next

\* take_content_affinity gives the schedule by content to one call only, and to a call
\* that runs in parallel: the flag is swapped away by the call that is scheduled so, by
\* no call its caller handles alone, and never comes back.
THEOREM FlagSpentOnce == Spec => FlagWellSpent
<1>1. ASSUME IInv, NEW c \in Callers, NEW splits \in Inputs, NEW prefers \in BOOLEAN,
             Begin(c, splits, prefers)
      PROVE  /\ affinity' => affinity
             /\ call[c] = Idle /\ call'[c] # Idle
             /\ \A d \in Callers : d # c => call'[d] = call[d]
             /\ call'[c].mode = "affine" => affinity /\ ~ affinity'
             /\ affinity /\ ~ affinity' => call'[c].mode # "sequential"
  <2> DEFINE takes == prefers /\ Len(splits) >= Threshold
             mode  == Mode(splits, takes /\ affinity)
             m == [splits |-> splits, mode |-> mode, failed |-> FALSE,
                   work |-> [p \in 1..Len(Pieces(splits, mode)) |-> Queued], result |-> Idle]
  <2>1. call[c] = Idle /\ call' = [call EXCEPT ![c] = m] /\ affinity' = (affinity /\ ~ takes)
    BY <1>1 DEF Begin
  <2>2. m \in Calls
    <3>1. (takes /\ affinity) \in BOOLEAN
      OBVIOUS
    <3> QED
      BY <1>1, <3>1, NewCallSound
  <2>3. m.mode = mode
    OBVIOUS
  <2>4. mode = "affine" => takes /\ affinity
    BY DEF Mode
  <2>5. takes => mode # "sequential"
    <3>1. Len(splits) \in Nat /\ Threshold \in Nat
      BY BatchedAssumption
    <3> QED
      BY <3>1 DEF Mode
  <2> HIDE DEF m, mode, takes
  <2>6. call'[c] = m /\ m # Idle /\ \A d \in Callers : d # c => call'[d] = call[d]
    BY <1>1, <2>1, <2>2, NotIdle DEF IInv
  <2> QED
    BY <2>1, <2>3, <2>4, <2>5, <2>6
<1>2. ASSUME IInv, NEW c \in Callers, Resumes(c), NEW d \in Callers, call[d] = Idle
      PROVE  call'[d] = Idle
  BY <1>2 DEF Resumes, IInv
<1>3. IInv /\ [Next]_vars =>
        [/\ affinity' => affinity
         /\ \A c \in Callers :
              call[c] = Idle /\ call'[c] # Idle /\ call'[c].mode = "affine" =>
                affinity /\ ~ affinity'
         /\ affinity /\ ~ affinity' =>
              \E c \in Callers :
                /\ call[c] = Idle
                /\ call'[c] # Idle
                /\ call'[c].mode # "sequential"]_vars
  <2> SUFFICES ASSUME IInv, Next
               PROVE  /\ affinity' => affinity
                      /\ \A c \in Callers :
                           call[c] = Idle /\ call'[c] # Idle /\ call'[c].mode = "affine" =>
                             affinity /\ ~ affinity'
                      /\ affinity /\ ~ affinity' =>
                           \E c \in Callers :
                             /\ call[c] = Idle
                             /\ call'[c] # Idle
                             /\ call'[c].mode # "sequential"
    BY DEF vars
  <2>1. CASE \E c \in Callers, splits \in Inputs, prefers \in BOOLEAN : Begin(c, splits, prefers)
    BY <1>1, <2>1
  <2>2. CASE affinity' = affinity /\ \E c \in Callers : Resumes(c)
    BY <1>2, <2>2
  <2> QED
    BY <2>1, <2>2, BeginsOrResumes
<1> QED
  BY <1>3, Invariance, PTL DEF Spec, FlagWellSpent
==============================================================================
