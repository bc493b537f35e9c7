--------------------------- MODULE FlatCacheProofs ---------------------------
(***************************************************************************)
(* What keeps the unchecked accesses of a FlatCache inside its pools and   *)
(* its probe loops finite, for any table size, any hashes, any lengths and *)
(* any number of updates in place that the offsets have room for.          *)
(***************************************************************************)
EXTENDS FlatCache, WellFoundedInduction, FiniteSetTheorems, SequenceTheorems, TLAPS

\* IInv of a table, apart from the variables that hold it.
Sound(table, p, bytes, n, u) ==
  /\ table \in [0..Size - 1 -> Slot]
  /\ p \in Seq(Nat)
  /\ bytes \in Seq(Nat)
  /\ n \in Nat
  /\ u \in 0..MaxUpdates
  /\ \A i \in Filled(table) :
       /\ table[i].offset + table[i].len <= Len(p)
       /\ table[i].key_offset + table[i].key_len <= Len(bytes)
  /\ n = Cardinality(Filled(table))
  /\ n < Size
  /\ Len(p) <= (n + u) * MaxLen
  /\ Len(bytes) <= n * MaxLen
  /\ n <= MaxLoad

LEMMA SoundIsIInv == IInv <=> Sound(slots, pool, key_pool, count, updates)
  BY DEF IInv, Sound, TypeOK, InBounds, ProbesEnd, PoolsFit, Occupied

LEMMA Sizes ==
  /\ MaxLoad \in Nat
  /\ MaxLoad < Size
  BY FlatCacheAssumption DEF MaxLoad

LEMMA HashType == ASSUME NEW k \in Keys PROVE Hash(k) \in Nat \ {EMPTY_SLOT}
  BY FlatCacheAssumption DEF Hash, EMPTY_SLOT

LEMMA SlotFields ==
  ASSUME NEW x \in Slot
  PROVE  /\ x.hash \in Nat
         /\ x.offset \in 0..Wrap - 1 /\ x.offset \in Int
         /\ x.len \in 0..MaxLen /\ x.len \in Int
         /\ x.key_offset \in 0..Wrap - 1 /\ x.key_offset \in Int
         /\ x.key_len \in 0..MaxLen /\ x.key_len \in Int
  BY DEF Slot

LEMMA SlotBuild ==
  ASSUME NEW h \in Nat, NEW o \in Nat, o < Wrap, NEW l \in Nat, l <= MaxLen,
         NEW ko \in Nat, ko < Wrap, NEW kl \in Nat, kl <= MaxLen
  PROVE  [hash |-> h, offset |-> o, len |-> l, key_offset |-> ko, key_len |-> kl]
           \in Slot
  BY FlatCacheAssumption DEF Slot

(* ------------------------------- Probing -------------------------------- *)

\* What is left of a multiple of s and a number below s.
LEMMA Remainder ==
  ASSUME NEW s \in Nat \ {0}, NEW q \in Nat, NEW j \in 0..s - 1
  PROVE  (s * q + j) % s = j
<1> DEFINE a == s * q + j
           t == a \div s
           r == a % s
<1>1. a \in Nat
  OBVIOUS
<1>2. t \in Int /\ r \in 0..s - 1 /\ a = s * t + r
  BY <1>1
<1>3. s * (q - t) = r - j
  BY <1>2
<1>4. ~ q - t >= 1
  <2> SUFFICES ASSUME q - t >= 1 PROVE FALSE
    OBVIOUS
  <2>1. s * (q - t) >= s
    BY <1>2
  <2> QED
    BY <1>2, <1>3, <2>1
<1>5. ~ q - t <= -1
  <2> SUFFICES ASSUME q - t <= -1 PROVE FALSE
    OBVIOUS
  <2>1. s * (q - t) <= - s
    BY <1>2
  <2> QED
    BY <1>2, <1>3, <2>1
<1>6. q - t = 0
  BY <1>2, <1>4, <1>5
<1>7. r = j
  BY <1>2, <1>3, <1>6
<1> QED
  BY <1>7

LEMMA RemainderRange ==
  ASSUME NEW s \in Nat \ {0}, NEW a \in Nat
  PROVE  a % s \in 0..s - 1
  OBVIOUS

LEMMA Smallest ==
  ASSUME NEW D \in SUBSET Nat, D # {}
  PROVE  \E m \in D : \A e \in D : m <= e
<1>1. PICK m \in D : \A e \in D : <<e, m>> \notin OpToRel(<, Nat)
  BY WFMin, NatLessThanWellFounded
<1>2. \A e \in D : ~ e < m
  BY <1>1 DEF OpToRel
<1> QED
  BY <1>2

\* Going on from any home, a probe comes to every slot.
LEMMA EverySlotIsProbed ==
  ASSUME NEW h \in Nat, NEW j \in 0..Size - 1
  PROVE  \E d \in 0..Size - 1 : (h + d) % Size = j
<1> DEFINE r == h % Size
           q == h \div Size
           d == IF j >= r THEN j - r ELSE j - r + Size
<1>1. Size \in Nat /\ Size > 0
  BY FlatCacheAssumption
<1>2. r \in 0..Size - 1 /\ q \in Nat /\ h = Size * q + r
  BY <1>1
<1>3. d \in 0..Size - 1
  BY <1>1, <1>2
<1>4. h + d = Size * q + j \/ h + d = Size * (q + 1) + j
  BY <1>1, <1>2
<1>5. (h + d) % Size = j
  <2> HIDE DEF d, q, r
  <2>1. \A x \in Nat : (Size * x + j) % Size = j
    BY <1>1, Remainder
  <2>2. q + 1 \in Nat /\ q \in Nat
    BY <1>2
  <2> QED
    BY <1>4, <2>1, <2>2
<1> QED
  BY <1>3, <1>5

LEMMA FilledFacts ==
  ASSUME NEW table
  PROVE  /\ IsFiniteSet(Filled(table))
         /\ Cardinality(Filled(table)) \in Nat
<1>1. IsFiniteSet(0..Size - 1)
  BY FlatCacheAssumption, FS_Interval
<1>2. Filled(table) \in SUBSET (0..Size - 1)
  BY DEF Filled
<1> QED
  BY <1>1, <1>2, FS_Subset, FS_CardinalityType

\* A table with a slot to spare stops every probe in the table.
LEMMA ProbeStops ==
  ASSUME NEW table, NEW bytes, NEW k \in Keys,
         Cardinality(Filled(table)) < Size
  PROVE  /\ Probe(table, bytes, k) \in 0..Size - 1
         /\ Ends(table, bytes, k, Probe(table, bytes, k))
<1> DEFINE Stops(d) == Ends(table, bytes, k, At(k, d))
           D == {d \in 0..Size - 1 : Stops(d)}
           First(d) == d \in 0..Size - 1 /\ Stops(d) /\ \A e \in 0..d - 1 : ~ Stops(e)
<1>1. PICK j \in 0..Size - 1 : table[j].hash = EMPTY_SLOT
  <2>1. Filled(table) # 0..Size - 1
    BY FlatCacheAssumption, FS_Interval
  <2> QED
    BY <2>1 DEF Filled
<1>2. PICK d \in 0..Size - 1 : At(k, d) = j
  BY HashType, EverySlotIsProbed DEF At
<1>3. D # {} /\ D \in SUBSET Nat
  <2>1. Stops(d)
    BY <1>1, <1>2 DEF Ends
  <2> QED
    BY <2>1, FlatCacheAssumption
<1>4. PICK m \in D : \A e \in D : m <= e
  BY <1>3, Smallest
<1>5. First(m)
  BY <1>3, <1>4, FlatCacheAssumption
<1> DEFINE c == CHOOSE x \in 0..Size - 1 : Stops(x) /\ \A e \in 0..x - 1 : ~ Stops(e)
<1>6. c \in 0..Size - 1 /\ Stops(c)
  BY <1>5
<1>7. Probe(table, bytes, k) = At(k, c)
  BY DEF Probe
<1>8. At(k, c) \in 0..Size - 1
  <2>1. Hash(k) + c \in Nat /\ Size \in Nat \ {0}
    BY <1>6, HashType, FlatCacheAssumption
  <2> QED
    BY <2>1, RemainderRange DEF At
<1> QED
  BY <1>6, <1>7, <1>8

(* ------------------------------ Inserting ------------------------------- *)

\* An empty table of the same slots is sound.
LEMMA EmptiedIsSound ==
  ASSUME slots \in [0..Size - 1 -> Slot]
  PROVE  Sound(Emptied, <<>>, <<>>, 0, 0)
<1>1. Emptied \in [0..Size - 1 -> Slot]
  BY DEF Emptied, Slot, EMPTY_SLOT
<1>2. Filled(Emptied) = {}
  BY DEF Emptied, Filled
<1>3. <<>> \in Seq(Nat) /\ Len(<<>>) = 0
  BY EmptySeq
<1>4. MaxLen \in Nat /\ MaxUpdates \in Nat /\ Size > 0
  BY FlatCacheAssumption
<1> QED
  BY <1>1, <1>2, <1>3, <1>4, Sizes, FS_EmptySet DEF Sound

\* Pools that fit never wrap an offset.
LEMMA NoWrap ==
  ASSUME NEW n \in Nat, n <= MaxLoad, NEW u \in 0..MaxUpdates,
         NEW a \in Nat, a <= (n + u) * MaxLen
  PROVE  a < Wrap /\ a % Wrap = a
<1>1. MaxLen \in Nat /\ MaxUpdates \in Nat /\ Wrap \in Nat
      /\ (MaxLoad + MaxUpdates) * MaxLen < Wrap
  BY FlatCacheAssumption
<1>2. (n + u) * MaxLen <= (MaxLoad + MaxUpdates) * MaxLen
  <2> DEFINE x == n + u
             y == MaxLoad + MaxUpdates
  <2>1. x \in Nat /\ y \in Nat /\ x <= y
    BY <1>1, Sizes
  <2> HIDE DEF x, y
  <2>2. x * MaxLen <= y * MaxLen
    BY <2>1, <1>1
  <2> QED
    BY <2>2 DEF x, y
<1>3. a < Wrap
  BY <1>1, <1>2, Sizes
<1> QED
  BY <1>1, <1>3

\* One more run of at most w units fits where m runs did.
LEMMA OneMore ==
  ASSUME NEW a \in Nat, NEW b \in Nat, NEW m \in Nat, NEW w \in Nat,
         a <= m * w, b <= w
  PROVE  a + b <= (m + 1) * w
<1>1. (m + 1) * w = m * w + w
  OBVIOUS
<1> DEFINE x == m * w
<1>2. x \in Nat /\ a <= x /\ (m + 1) * w = x + w
  BY <1>1
<1> HIDE DEF x
<1> QED
  BY <1>2

\* Inserting keeps a table with room sound.
LEMMA PutIntoSound ==
  ASSUME NEW table, NEW p, NEW bytes, NEW n, NEW u,
         Sound(table, p, bytes, n, u), n < MaxLoad,
         NEW k \in Keys, NEW ids \in Seq(Nat),
         PutInto(table, p, bytes, n, u, k, ids)
  PROVE  Sound(slots', pool', key_pool', count', updates')
<1> DEFINE i == Probe(table, bytes, k)
           Entry(hash, key_offset, key_len) ==
             [hash |-> hash, offset |-> Len(p) % Wrap, len |-> Len(ids),
              key_offset |-> key_offset, key_len |-> key_len]
           s == Entry(table[i].hash, table[i].key_offset, table[i].key_len)
           new == Entry(Hash(k), Len(bytes) % Wrap, Len(k))
<1>1. i \in 0..Size - 1
  BY ProbeStops DEF Sound
<1>2. k \in Seq(Nat) /\ Len(k) \in Nat /\ Len(ids) \in Nat
  BY FlatCacheAssumption, LenProperties
<1>3. /\ table[i] \in Slot
      /\ p \in Seq(Nat) /\ bytes \in Seq(Nat)
      /\ Len(p) \in Nat /\ Len(bytes) \in Nat
      /\ n \in Nat /\ u \in 0..MaxUpdates
      /\ MaxLen \in Nat /\ MaxUpdates \in Nat /\ Wrap \in Nat
  BY <1>1, FlatCacheAssumption, LenProperties DEF Sound
<1>fit. Len(p) <= (n + u) * MaxLen /\ Len(bytes) <= n * MaxLen
  BY DEF Sound
<1>4. Len(p) < Wrap /\ Len(p) % Wrap = Len(p)
  BY <1>3, NoWrap DEF Sound
<1>5. Len(bytes) < Wrap /\ Len(bytes) % Wrap = Len(bytes)
  <2>1. Len(bytes) <= (n + 0) * MaxLen /\ 0 \in 0..MaxUpdates
    BY <1>3 DEF Sound
  <2> QED
    BY <1>3, <2>1, NoWrap DEF Sound
<1>6. /\ p \o ids \in Seq(Nat)
      /\ Len(p \o ids) = Len(p) + Len(ids)
      /\ bytes \o k \in Seq(Nat)
      /\ Len(bytes \o k) = Len(bytes) + Len(k)
  BY <1>2, <1>3, ConcatProperties
<1>7. CASE /\ table[i].hash = EMPTY_SLOT
           /\ Fits(k, ids)
           /\ slots' = [table EXCEPT ![i] = new]
           /\ pool' = p \o ids
           /\ key_pool' = bytes \o k
           /\ count' = n + 1
           /\ updates' = u
  <2>0. /\ pool' = p \o ids /\ key_pool' = bytes \o k
        /\ count' = n + 1 /\ updates' = u
        /\ Len(k) <= MaxLen /\ Len(ids) <= MaxLen
    BY <1>7 DEF Fits
  <2>1. new = [hash |-> Hash(k), offset |-> Len(p), len |-> Len(ids),
               key_offset |-> Len(bytes), key_len |-> Len(k)]
    BY <1>4, <1>5
  <2>2. new \in Slot
    BY <2>1, <1>2, <1>3, <1>4, <1>5, <1>7, HashType, SlotBuild DEF Fits
  <2>3. slots' \in [0..Size - 1 -> Slot]
    BY <1>7, <2>2 DEF Sound
  <2>4. Filled(slots') = Filled(table) \cup {i} /\ i \notin Filled(table)
    BY <1>1, <1>7, <2>1, HashType DEF Filled, Sound
  <2>5. Cardinality(Filled(slots')) = n + 1
    BY <2>4, FilledFacts, FS_AddElement DEF Sound
  <2>6. ASSUME NEW j \in Filled(slots')
        PROVE  /\ slots'[j].offset + slots'[j].len <= Len(pool')
               /\ slots'[j].key_offset + slots'[j].key_len <= Len(key_pool')
    <3>1. CASE j = i
      <4>1. slots'[j] = new
        BY <3>1, <1>1, <1>7 DEF Sound
      <4>2. /\ new.offset = Len(p) /\ new.len = Len(ids)
            /\ new.key_offset = Len(bytes) /\ new.key_len = Len(k)
        BY <2>1
      <4>3. /\ Len(pool') = Len(p) + Len(ids)
            /\ Len(key_pool') = Len(bytes) + Len(k)
        BY <2>0, <1>6
      <4> HIDE DEF new, i
      <4> QED
        BY <4>1, <4>2, <4>3, <1>2, <1>3
    <3>2. CASE j # i
      <4>1. j \in Filled(table) /\ slots'[j] = table[j] /\ table[j] \in Slot
        BY <3>2, <2>4, <1>7 DEF Sound, Filled
      <4>2. /\ table[j].offset + table[j].len <= Len(p)
            /\ table[j].key_offset + table[j].key_len <= Len(bytes)
        BY <4>1 DEF Sound
      <4>3. /\ table[j].offset + table[j].len \in Int
            /\ table[j].key_offset + table[j].key_len \in Int
        BY <4>1, SlotFields
      <4>4. Len(pool') >= Len(p) /\ Len(key_pool') >= Len(bytes)
            /\ Len(pool') \in Nat /\ Len(key_pool') \in Nat
        BY <2>0, <1>2, <1>3, <1>6
      <4> QED
        BY <4>1, <4>2, <4>3, <4>4, <1>3
    <3> QED
      BY <3>1, <3>2
  <2>7. Len(pool') <= (count' + updates') * MaxLen
    <3>1. n + u \in Nat
      BY <1>3
    <3>2. Len(p) + Len(ids) <= ((n + u) + 1) * MaxLen
      BY <3>1, <2>0, <1>2, <1>3, <1>fit, OneMore
    <3>3. (n + u) + 1 = count' + updates'
      BY <2>0, <1>3
    <3> HIDE DEF i
    <3> QED
      BY <3>2, <3>3, <2>0, <1>6
  <2>8. Len(key_pool') <= count' * MaxLen
    <3>1. Len(bytes) + Len(k) <= (n + 1) * MaxLen
      BY <2>0, <1>2, <1>3, <1>fit, OneMore
    <3>2. Len(key_pool') = Len(bytes) + Len(k) /\ count' = n + 1
      BY <2>0, <1>6
    <3> HIDE DEF i
    <3> QED
      BY <3>1, <3>2
  <2>9. count' \in Nat /\ count' <= MaxLoad /\ count' < Size
    <3>1. MaxLoad < Size /\ MaxLoad \in Nat /\ Size \in Nat
      BY Sizes, FlatCacheAssumption
    <3> HIDE DEF i
    <3> QED
      BY <3>1, <2>0, <1>3
  <2> QED
    BY <2>3, <2>5, <2>6, <2>7, <2>8, <2>9, <1>3, <1>6, <1>7 DEF Sound
<1>8. CASE /\ table[i].hash # EMPTY_SLOT
           /\ Len(ids) <= MaxLen
           /\ u < MaxUpdates
           /\ slots' = [table EXCEPT ![i] =
                Entry(@.hash, @.key_offset, @.key_len)]
           /\ pool' = p \o ids
           /\ key_pool' = bytes
           /\ count' = n
           /\ updates' = u + 1
  <2>1. s = [hash |-> table[i].hash, offset |-> Len(p), len |-> Len(ids),
             key_offset |-> table[i].key_offset, key_len |-> table[i].key_len]
    BY <1>4
  <2>2. s \in Slot
    <3>1. /\ table[i].hash \in Nat
          /\ table[i].key_offset \in Nat /\ table[i].key_offset < Wrap
          /\ table[i].key_len \in Nat /\ table[i].key_len <= MaxLen
      BY <1>3, SlotFields
    <3> HIDE DEF s, i
    <3> QED
      BY <2>1, <3>1, <1>2, <1>3, <1>4, <1>8, SlotBuild
  <2>3. slots' = [table EXCEPT ![i] = s] /\ slots' \in [0..Size - 1 -> Slot]
    BY <1>8, <2>2 DEF Sound
  <2>4. Filled(slots') = Filled(table) /\ i \in Filled(table)
    BY <1>1, <1>8, <2>1, <2>3 DEF Filled, Sound
  <2>5. ASSUME NEW j \in Filled(slots')
        PROVE  /\ slots'[j].offset + slots'[j].len <= Len(pool')
               /\ slots'[j].key_offset + slots'[j].key_len <= Len(key_pool')
    <3>1. j \in Filled(table) /\ table[j] \in Slot
      BY <2>4 DEF Sound, Filled
    <3>2. /\ table[j].offset + table[j].len <= Len(p)
          /\ table[j].key_offset + table[j].key_len <= Len(bytes)
      BY <3>1 DEF Sound
    <3>3. /\ table[j].offset + table[j].len \in Int
          /\ table[j].key_offset + table[j].key_len \in Int
      BY <3>1, SlotFields
    <3>4. CASE j = i
      <4>1. slots'[j] = s
        BY <3>4, <1>1, <2>3 DEF Sound
      <4> QED
        BY <4>1, <2>1, <3>2, <3>3, <3>4, <1>2, <1>3, <1>6, <1>8
    <3>5. CASE j # i
      <4>1. slots'[j] = table[j]
        BY <3>5, <2>3, <3>1 DEF Sound, Filled
      <4> QED
        BY <4>1, <3>2, <3>3, <1>2, <1>3, <1>6, <1>8
    <3> QED
      BY <3>4, <3>5
  <2>6. Len(pool') <= (count' + updates') * MaxLen
    <3>1. n + u \in Nat
      BY <1>3
    <3>2. pool' = p \o ids /\ count' = n /\ updates' = u + 1 /\ Len(ids) <= MaxLen
      BY <1>8
    <3>3. Len(p) + Len(ids) <= ((n + u) + 1) * MaxLen
      BY <3>1, <3>2, <1>2, <1>3, <1>fit, OneMore
    <3>4. (n + u) + 1 = count' + updates'
      BY <3>2, <1>3
    <3> QED
      BY <3>2, <3>3, <3>4, <1>6
  <2>7. updates' \in 0..MaxUpdates
    BY <1>3, <1>8
  <2> QED
    BY <2>3, <2>4, <2>5, <2>6, <2>7, <1>3, <1>6, <1>8 DEF Sound
<1>9. CASE /\ slots' = table
           /\ pool' = p
           /\ key_pool' = bytes
           /\ count' = n
           /\ updates' = u
  BY <1>9 DEF Sound
<1> QED
  BY <1>7, <1>8, <1>9 DEF PutInto

(* ------------------------------- Theorems ------------------------------- *)

LEMMA InitSound == Init => IInv
<1> SUFFICES ASSUME Init PROVE Sound(slots, pool, key_pool, count, updates)
  BY SoundIsIInv
<1>1. slots \in [0..Size - 1 -> Slot]
  <2>1. MaxLen \in Nat /\ Wrap \in Nat /\ Wrap > 0 /\ 0 \in Nat
    <3>1. MaxLen \in Nat /\ Wrap \in Nat /\ MaxUpdates \in Nat
          /\ (MaxLoad + MaxUpdates) * MaxLen < Wrap
      BY FlatCacheAssumption
    <3>2. \A x, y \in Nat : x * y >= 0
      OBVIOUS
    <3>3. MaxLoad + MaxUpdates \in Nat
      BY <3>1, Sizes
    <3>4. (MaxLoad + MaxUpdates) * MaxLen >= 0
      BY <3>1, <3>2, <3>3
    <3> QED
      BY <3>1, <3>3, <3>4
  <2>2. [hash |-> EMPTY_SLOT, offset |-> 0, len |-> 0,
         key_offset |-> 0, key_len |-> 0] \in Slot
    BY <2>1, SlotBuild DEF EMPTY_SLOT
  <2> QED
    BY <2>2 DEF Init
<1>2. Filled(slots) = {}
  BY DEF Init, Filled
<1>3. <<>> \in Seq(Nat) /\ Len(<<>>) = 0
  BY EmptySeq
<1>4. MaxLen \in Nat /\ MaxUpdates \in Nat /\ Size > 0
  BY FlatCacheAssumption
<1>5. pool = <<>> /\ key_pool = <<>> /\ count = 0 /\ updates = 0
  BY DEF Init
<1> QED
  BY <1>1, <1>2, <1>3, <1>4, <1>5, Sizes, FS_EmptySet DEF Sound

LEMMA NextSound == IInv /\ [Next]_vars => IInv'
<1> SUFFICES ASSUME Sound(slots, pool, key_pool, count, updates), [Next]_vars
             PROVE  Sound(slots', pool', key_pool', count', updates')
  BY SoundIsIInv DEF IInv, Sound, TypeOK, InBounds, ProbesEnd, PoolsFit, Occupied
<1>1. Sound(Emptied, <<>>, <<>>, 0, 0)
  BY EmptiedIsSound DEF Sound
<1>2. CASE Clear
  BY <1>1, <1>2 DEF Clear
<1>3. ASSUME NEW e \in Entries, Put(e[1], e[2])
      PROVE  Sound(slots', pool', key_pool', count', updates')
  <2>1. e[1] \in Keys /\ e[2] \in Seq(Nat)
    BY FlatCacheAssumption
  <2>2. CASE count >= MaxLoad
    <3>1. PutInto(Emptied, <<>>, <<>>, 0, 0, e[1], e[2])
      BY <1>3, <2>2 DEF Put
    <3>2. 0 < MaxLoad
      BY FlatCacheAssumption DEF MaxLoad
    <3> QED
      BY <1>1, <2>1, <3>1, <3>2, PutIntoSound
  <2>3. CASE ~ count >= MaxLoad
    <3>1. PutInto(slots, pool, key_pool, count, updates, e[1], e[2])
      BY <1>3, <2>3 DEF Put
    <3>2. count < MaxLoad
      BY <2>3, Sizes DEF Sound
    <3> QED
      BY <2>1, <3>1, <3>2, PutIntoSound
  <2> QED
    BY <2>2, <2>3
<1>4. CASE UNCHANGED vars
  BY <1>4 DEF vars, Sound
<1> QED
  BY <1>2, <1>3, <1>4 DEF Next

\* In every reachable state of a FlatCache its slots point inside its pools, its
\* count is exact and no offset has wrapped.
THEOREM FlatInvariance == Spec => []IInv
<1>1. Init => IInv
  BY InitSound
<1>2. IInv /\ [Next]_vars => IInv'
  BY NextSound
<1> QED
  BY <1>1, <1>2, PTL DEF Spec

\* The unchecked reads of get_hashed and insert_hashed stay inside the pools.
THEOREM ReadsInBounds == Spec => []InBounds
<1>1. IInv => InBounds
  BY DEF IInv
<1> QED
  BY <1>1, FlatInvariance, PTL

\* There is always an empty slot, so the probe loops of get_hashed and
\* insert_hashed end.
THEOREM LoopsEnd == Spec => []ProbesEnd
<1>1. IInv => ProbesEnd
  BY DEF IInv
<1> QED
  BY <1>1, FlatInvariance, PTL

(***************************************************************************)
(* FlatCache implements CacheMap: a table with open addressing, stale      *)
(* slots, pools that are only appended to and a load check that empties    *)
(* everything is a map, for any size, any hashes and any lengths.          *)
(***************************************************************************)

(***************************************************************************)
(* The inductive invariant: what open addressing needs to find a key.      *)
(***************************************************************************)

\* The key an occupied slot points to, and the ids.
Held(table, bytes, i) ==
  SubSeq(bytes, table[i].key_offset + 1, table[i].key_offset + table[i].key_len)

Given(table, p, i) ==
  SubSeq(p, table[i].offset + 1, table[i].offset + table[i].len)

\* A probe for k comes to slot i over occupied slots only.
Reached(table, k, i) ==
  \E d \in 0..Size - 1 :
    At(k, d) = i /\ \A e \in 0..d - 1 : At(k, e) \in Filled(table)

\* Every occupied slot holds a key under its own hash, where a probe for that
\* key comes to; and no key is held twice.
Indexed(table, bytes) ==
  /\ \A i \in Filled(table) :
       /\ Held(table, bytes, i) \in Keys
       /\ table[i].hash = Hash(Held(table, bytes, i))
       /\ Reached(table, Held(table, bytes, i), i)
  /\ \A i, j \in Filled(table) :
       Held(table, bytes, i) = Held(table, bytes, j) => i = j

MapInv == IInv /\ Indexed(slots, key_pool)

\* Get, apart from the variables.
GetIn(table, p, bytes, k) ==
  IF Probe(table, bytes, k) \in Filled(table)
  THEN Given(table, p, Probe(table, bytes, k))
  ELSE None

(***************************************************************************)
(* Pools that grow at their end.                                           *)
(***************************************************************************)

LEMMA RangeKept ==
  ASSUME NEW p \in Seq(Nat), NEW q \in Seq(Nat), NEW o \in Nat, NEW l \in Nat,
         o + l <= Len(p)
  PROVE  SubSeq(p \o q, o + 1, o + l) = SubSeq(p, o + 1, o + l)
<1>1. CASE l = 0
  BY <1>1, SubSeqEmpty
<1>2. CASE l # 0
  <2>1. o + 1 \in 1..Len(p) /\ o + l \in 1..Len(p)
    BY <1>2, LenProperties
  <2> QED BY <2>1, SubSeqOfConcat1
<1> QED BY <1>1, <1>2

LEMMA RangeAdded ==
  ASSUME NEW p \in Seq(Nat), NEW q \in Seq(Nat)
  PROVE  SubSeq(p \o q, Len(p) + 1, Len(p) + Len(q)) = q
<1>1. Len(p) \in Nat /\ Len(q) \in Nat
  BY LenProperties
<1>2. CASE Len(q) = 0
  <2>1. SubSeq(p \o q, Len(p) + 1, Len(p) + Len(q)) = <<>>
    BY <1>1, <1>2, SubSeqEmpty
  <2> QED BY <1>2, <2>1, EmptySeq
<1>3. CASE Len(q) # 0
  <2> DEFINE m == Len(p) + 1
             n == Len(p) + Len(q)
  <2>1. m \in Len(p) + 1 .. Len(p) + Len(q) /\ n \in Len(p) + 1 .. Len(p) + Len(q)
        /\ m - Len(p) = 1 /\ n - Len(p) = Len(q)
    BY <1>1, <1>3
  <2>2. SubSeq(p \o q, m, n) = SubSeq(q, m - Len(p), n - Len(p))
    BY <2>1, SubSeqOfConcat2
  <2> QED BY <2>1, <2>2, SubSeqFull
<1> QED BY <1>2, <1>3

(***************************************************************************)
(* Probing.                                                                *)
(***************************************************************************)

\* Probe is the first slot at which a probe can stop.
LEMMA ProbeFirst ==
  ASSUME NEW table, NEW bytes, NEW k \in Keys,
         Cardinality(Filled(table)) < Size
  PROVE  \E d \in 0..Size - 1 :
           /\ Probe(table, bytes, k) = At(k, d)
           /\ Ends(table, bytes, k, At(k, d))
           /\ \A e \in 0..d - 1 : ~ Ends(table, bytes, k, At(k, e))
<1> DEFINE Stops(d) == Ends(table, bytes, k, At(k, d))
           First(d) == Stops(d) /\ \A e \in 0..d - 1 : ~ Stops(e)
           D == {d \in 0..Size - 1 : Stops(d)}
<1>1. PICK j \in 0..Size - 1 : table[j].hash = EMPTY_SLOT
  <2>1. Filled(table) # 0..Size - 1
    BY FlatCacheAssumption, FS_Interval
  <2> QED BY <2>1 DEF Filled
<1>2. PICK d \in 0..Size - 1 : At(k, d) = j
  BY HashType, EverySlotIsProbed DEF At
<1>3. D # {} /\ D \in SUBSET Nat
  <2>1. Stops(d)
    BY <1>1, <1>2 DEF Ends
  <2> QED BY <2>1, FlatCacheAssumption
<1>4. PICK m \in D : \A e \in D : m <= e
  BY <1>3, Smallest
<1>5. m \in 0..Size - 1 /\ First(m)
  BY <1>3, <1>4, FlatCacheAssumption
<1> DEFINE c == CHOOSE x \in 0..Size - 1 : First(x)
<1>6. c \in 0..Size - 1 /\ First(c)
  BY <1>5
<1>7. Probe(table, bytes, k) = At(k, c)
  BY DEF Probe
<1> HIDE DEF c
<1> QED BY <1>6, <1>7

\* A probe finds the slot that holds its key, and an empty one when there is
\* none.
LEMMA Finds ==
  ASSUME NEW table \in [0..Size - 1 -> Slot], NEW bytes, NEW k \in Keys,
         Cardinality(Filled(table)) < Size, Indexed(table, bytes)
  PROVE  /\ Probe(table, bytes, k) \in 0..Size - 1
         /\ \A i \in Filled(table) :
              Held(table, bytes, i) = k => Probe(table, bytes, k) = i
         /\ Probe(table, bytes, k) \in Filled(table) =>
              Held(table, bytes, Probe(table, bytes, k)) = k
<1>1. PICK d \in 0..Size - 1 :
        /\ Probe(table, bytes, k) = At(k, d)
        /\ Ends(table, bytes, k, At(k, d))
        /\ \A e \in 0..d - 1 : ~ Ends(table, bytes, k, At(k, e))
  BY ProbeFirst
<1>2. Probe(table, bytes, k) \in 0..Size - 1
  BY ProbeStops
<1>3. At(k, d) \in Filled(table) => Held(table, bytes, At(k, d)) = k
  BY <1>1 DEF Ends, Matches, Filled, Held
<1>4. ASSUME NEW i \in Filled(table), Held(table, bytes, i) = k
      PROVE  At(k, d) = i
  <2>1. PICK f \in 0..Size - 1 :
          At(k, f) = i /\ \A e \in 0..f - 1 : At(k, e) \in Filled(table)
    BY <1>4 DEF Indexed, Reached
  <2>2. Ends(table, bytes, k, At(k, f))
    BY <1>4, <2>1 DEF Indexed, Ends, Matches, Held
  <2>3. ~ (f < d)
    <3>1. f < d => f \in 0..d - 1
      BY FlatCacheAssumption
    <3> QED BY <1>1, <2>2, <3>1
  <2>4. CASE d = f
    BY <2>1, <2>4
  <2>5. CASE d < f
    <3>1. d \in 0..f - 1
      BY <2>5, FlatCacheAssumption
    <3>2. At(k, d) \in Filled(table) /\ Held(table, bytes, At(k, d)) = k
      BY <2>1, <3>1, <1>3
    <3> QED BY <1>4, <3>2 DEF Indexed
  <2> QED BY <2>3, <2>4, <2>5, FlatCacheAssumption
<1> QED BY <1>1, <1>2, <1>3, <1>4

\* Get is GetIn of the variables.
LEMMA GetIs ==
  ASSUME MapInv, NEW k \in Keys
  PROVE  Get(k) = GetIn(slots, pool, key_pool, k)
<1>1. Probe(slots, key_pool, k) \in 0..Size - 1
  BY ProbeStops DEF MapInv, IInv, ProbesEnd, Occupied
<1> QED BY <1>1 DEF Get, GetIn, Given, Filled

(***************************************************************************)
(* Writing a slot.                                                         *)
(***************************************************************************)

\* table2 is table with k and ids in slot i, whatever the pools have become.
WrittenAt(i, k, ids, table, p, bytes, table2, p2, bytes2) ==
  /\ table \in [0..Size - 1 -> Slot] /\ Cardinality(Filled(table)) < Size
  /\ table2 \in [0..Size - 1 -> Slot] /\ Cardinality(Filled(table2)) < Size
  /\ Filled(table2) = Filled(table) \cup {i}
  /\ \A j \in Filled(table2) :
       /\ Held(table2, bytes2, j) = IF j = i THEN k ELSE Held(table, bytes, j)
       /\ table2[j].hash = IF j = i THEN Hash(k) ELSE table[j].hash
       /\ Given(table2, p2, j) = IF j = i THEN ids ELSE Given(table, p, j)

\* Writing k with ids where a probe for k stops, be the slot new or k's own.
LEMMA Written ==
  ASSUME NEW table, NEW table2, NEW p, NEW p2, NEW bytes, NEW bytes2,
         NEW k \in Keys, NEW ids, NEW i, i = Probe(table, bytes, k),
         Indexed(table, bytes),
         WrittenAt(i, k, ids, table, p, bytes, table2, p2, bytes2)
  PROVE  /\ Indexed(table2, bytes2)
         /\ \A k2 \in Keys :
              GetIn(table2, p2, bytes2, k2) =
                IF k2 = k THEN ids ELSE GetIn(table, p, bytes, k2)
<1>0. /\ table \in [0..Size - 1 -> Slot] /\ Cardinality(Filled(table)) < Size
      /\ table2 \in [0..Size - 1 -> Slot] /\ Cardinality(Filled(table2)) < Size
      /\ Filled(table2) = Filled(table) \cup {i}
      /\ \A j \in Filled(table2) :
           /\ Held(table2, bytes2, j) = IF j = i THEN k ELSE Held(table, bytes, j)
           /\ table2[j].hash = IF j = i THEN Hash(k) ELSE table[j].hash
           /\ Given(table2, p2, j) = IF j = i THEN ids ELSE Given(table, p, j)
  BY DEF WrittenAt
<1>1. /\ i \in 0..Size - 1
      /\ \A j \in Filled(table) : Held(table, bytes, j) = k => i = j
      /\ i \in Filled(table) => Held(table, bytes, i) = k
  BY <1>0, Finds
<1>2. Reached(table, k, i)
  <2>1. CASE i \in Filled(table)
    BY <1>1, <2>1 DEF Indexed
  <2>2. CASE i \notin Filled(table)
    <3>1. PICK d \in 0..Size - 1 :
            /\ i = At(k, d)
            /\ \A e \in 0..d - 1 : ~ Ends(table, bytes, k, At(k, e))
      BY <1>0, ProbeFirst
    <3>2. ASSUME NEW e \in 0..d - 1 PROVE At(k, e) \in Filled(table)
      <4>1. At(k, e) \in 0..Size - 1
        <5>1. Hash(k) + e \in Nat /\ Size \in Nat \ {0}
          BY HashType, FlatCacheAssumption
        <5> QED BY <5>1, RemainderRange DEF At
      <4> QED BY <3>1, <4>1 DEF Ends, Filled
    <3> QED BY <3>1, <3>2 DEF Reached
  <2> QED BY <2>1, <2>2
<1>3. \A k2, j : Reached(table, k2, j) => Reached(table2, k2, j)
  BY <1>0 DEF Reached
<1>4. ASSUME NEW j \in Filled(table2)
      PROVE  /\ Held(table2, bytes2, j) \in Keys
             /\ table2[j].hash = Hash(Held(table2, bytes2, j))
             /\ Reached(table2, Held(table2, bytes2, j), j)
  <2>1. CASE j = i
    BY <1>0, <1>2, <1>3, <2>1
  <2>2. CASE j # i
    <3>1. j \in Filled(table)
      BY <1>0, <2>2
    <3> QED BY <1>0, <1>3, <2>2, <3>1 DEF Indexed
  <2> QED BY <2>1, <2>2
<1>5. ASSUME NEW j1 \in Filled(table2), NEW j2 \in Filled(table2),
             Held(table2, bytes2, j1) = Held(table2, bytes2, j2)
      PROVE  j1 = j2
  <2>1. CASE j1 = i \/ j2 = i
    BY <1>0, <1>1, <1>5, <2>1
  <2>2. CASE j1 # i /\ j2 # i
    BY <1>0, <1>5, <2>2 DEF Indexed
  <2> QED BY <2>1, <2>2
<1>6. Indexed(table2, bytes2)
  BY <1>4, <1>5 DEF Indexed
<1>7. ASSUME NEW k2 \in Keys
      PROVE  GetIn(table2, p2, bytes2, k2) =
               IF k2 = k THEN ids ELSE GetIn(table, p, bytes, k2)
  <2> DEFINE at  == Probe(table, bytes, k2)
             at2 == Probe(table2, bytes2, k2)
  <2>1. /\ \A j \in Filled(table) : Held(table, bytes, j) = k2 => at = j
        /\ at \in Filled(table) => Held(table, bytes, at) = k2
    BY <1>0, Finds
  <2>2. /\ \A j \in Filled(table2) : Held(table2, bytes2, j) = k2 => at2 = j
        /\ at2 \in Filled(table2) => Held(table2, bytes2, at2) = k2
    BY <1>0, <1>6, Finds
  <2> HIDE DEF at, at2
  <2>3. CASE k2 = k
    <3>1. at2 = i /\ i \in Filled(table2)
      BY <1>0, <2>2, <2>3
    <3> QED BY <1>0, <2>3, <3>1 DEF GetIn, at2
  <2>4. CASE k2 # k /\ at \in Filled(table)
    <3>1. at # i /\ at \in Filled(table2) /\ Held(table2, bytes2, at) = k2
      BY <1>0, <1>1, <2>1, <2>4
    <3>2. at2 = at
      BY <2>2, <3>1
    <3> QED BY <1>0, <2>4, <3>1, <3>2 DEF GetIn, at, at2
  <2>5. CASE k2 # k /\ at \notin Filled(table)
    <3>1. at2 \notin Filled(table2)
      <4> SUFFICES ASSUME at2 \in Filled(table2) PROVE FALSE
        OBVIOUS
      <4>1. Held(table2, bytes2, at2) = k2 /\ at2 # i
        BY <1>0, <2>2, <2>5
      <4>2. at2 \in Filled(table) /\ Held(table, bytes, at2) = k2
        BY <1>0, <4>1
      <4> QED BY <2>1, <2>5, <4>2
    <3> QED BY <2>5, <3>1 DEF GetIn, at, at2
  <2> QED BY <2>3, <2>4, <2>5
<1> QED BY <1>6, <1>7

\* An empty table finds nothing.
LEMMA EmptyFinds ==
  ASSUME NEW table, NEW p, NEW bytes, Filled(table) = {}
  PROVE  /\ Indexed(table, bytes)
         /\ \A k \in Keys : GetIn(table, p, bytes, k) = None
BY DEF Indexed, GetIn

\* As many keys are found as slots are occupied.
LEMMA Counted ==
  ASSUME NEW table, NEW p, NEW bytes, NEW n, NEW u,
         Sound(table, p, bytes, n, u), Indexed(table, bytes)
  PROVE  Cardinality({k \in Keys : GetIn(table, p, bytes, k) # None}) = n
<1> DEFINE S == Filled(table)
           T == {k \in Keys : GetIn(table, p, bytes, k) # None}
           f == [i \in S |-> Held(table, bytes, i)]
<1>1. /\ table \in [0..Size - 1 -> Slot] /\ Cardinality(S) = n /\ n < Size
      /\ IsFiniteSet(S)
  BY FilledFacts DEF Sound
<1>2. ASSUME NEW i \in S PROVE Given(table, p, i) # None
  <2>1. table[i] \in Slot /\ p \in Seq(Nat)
    BY DEF Sound, Filled
  <2>2. table[i].offset \in Nat /\ table[i].len \in Nat
        /\ table[i].offset + table[i].len <= Len(p) /\ Len(p) \in Nat
    <3>1. table[i].offset + table[i].len <= Len(p)
      BY DEF Sound
    <3>2. Wrap \in Nat /\ MaxLen \in Nat
      BY FlatCacheAssumption
    <3>3. table[i].offset \in 0..Wrap - 1 /\ table[i].len \in 0..MaxLen
      BY <2>1, SlotFields
    <3> QED BY <2>1, <3>1, <3>2, <3>3, LenProperties
  <2> DEFINE a == table[i].offset + 1
             b == table[i].offset + table[i].len
  <2>3. a \in Int /\ b \in Int /\ \A j \in a..b : p[j] \in Nat
    <3>1. \A j \in a..b : j \in 1..Len(p)
      BY <2>2
    <3> QED BY <2>1, <2>2, <3>1, ElementOfSeq
  <2>4. SubSeq(p, a, b) \in Seq(Nat)
    BY <2>3, SubSeqProperties
  <2> QED BY <2>4, FlatCacheAssumption DEF Given
<1>3. \A k \in Keys :
        /\ \A i \in S : Held(table, bytes, i) = k => Probe(table, bytes, k) = i
        /\ Probe(table, bytes, k) \in S =>
             Held(table, bytes, Probe(table, bytes, k)) = k
  BY <1>1, Finds
<1>4. ASSUME NEW i \in S PROVE Held(table, bytes, i) \in T
  BY <1>2, <1>3 DEF Indexed, GetIn
<1>5. ASSUME NEW k \in T PROVE \E i \in S : Held(table, bytes, i) = k
  BY <1>3 DEF GetIn
<1>6. f \in Surjection(S, T)
  BY <1>4, <1>5 DEF Surjection
<1>7. f \in Injection(S, T)
  <2>1. f \in [S -> T]
    BY <1>4
  <2>2. \A i, j \in S : f[i] = f[j] => i = j
    BY DEF Indexed
  <2> QED BY <2>1, <2>2 DEF Injection, IsInjective
<1> HIDE DEF f
<1> QED BY <1>1, <1>6, <1>7, FS_Surjection

(***************************************************************************)
(* insert_hashed.                                                          *)
(***************************************************************************)

\* Where the ranges of an occupied slot lie.
LEMMA Ranges ==
  ASSUME NEW table, NEW p, NEW bytes, NEW n, NEW u,
         Sound(table, p, bytes, n, u), NEW j \in Filled(table)
  PROVE  /\ table[j].offset \in Nat /\ table[j].len \in Nat
         /\ table[j].offset + table[j].len <= Len(p)
         /\ table[j].key_offset \in Nat /\ table[j].key_len \in 0..MaxLen
         /\ table[j].key_len \in Nat
         /\ table[j].key_offset + table[j].key_len <= Len(bytes)
<1>1. table[j] \in Slot
  BY DEF Sound, Filled
<1>2. Wrap \in Nat /\ MaxLen \in Nat
  BY FlatCacheAssumption
<1>3. /\ table[j].offset + table[j].len <= Len(p)
      /\ table[j].key_offset + table[j].key_len <= Len(bytes)
  BY DEF Sound
<1>4. /\ table[j].offset \in 0..Wrap - 1 /\ table[j].len \in 0..MaxLen
      /\ table[j].key_offset \in 0..Wrap - 1 /\ table[j].key_len \in 0..MaxLen
  BY <1>1, SlotFields
<1> QED BY <1>2, <1>3, <1>4

\* The pools grow at their ends: what a slot pointed to, it still points to.
LEMMA RangesKept ==
  ASSUME NEW table, NEW p, NEW bytes, NEW n, NEW u,
         Sound(table, p, bytes, n, u), NEW j \in Filled(table),
         NEW q \in Seq(Nat), NEW k \in Seq(Nat)
  PROVE  /\ Given(table, p \o q, j) = Given(table, p, j)
         /\ Held(table, bytes \o k, j) = Held(table, bytes, j)
<1>1. p \in Seq(Nat) /\ bytes \in Seq(Nat)
  BY DEF Sound
<1>2. /\ table[j].offset \in Nat /\ table[j].len \in Nat
      /\ table[j].offset + table[j].len <= Len(p)
      /\ table[j].key_offset \in Nat /\ table[j].key_len \in Nat
      /\ table[j].key_offset + table[j].key_len <= Len(bytes)
  BY Ranges
<1>3. PICK o, l : o = table[j].offset /\ l = table[j].len
  OBVIOUS
<1>4. SubSeq(p \o q, o + 1, o + l) = SubSeq(p, o + 1, o + l)
  <2>1. o \in Nat /\ l \in Nat /\ o + l <= Len(p)
    BY <1>2, <1>3
  <2> QED BY <1>1, <2>1, RangeKept, Zenon
<1>5. PICK ko, kl : ko = table[j].key_offset /\ kl = table[j].key_len
  OBVIOUS
<1>6. SubSeq(bytes \o k, ko + 1, ko + kl) = SubSeq(bytes, ko + 1, ko + kl)
  <2>1. ko \in Nat /\ kl \in Nat /\ ko + kl <= Len(bytes)
    BY <1>2, <1>5
  <2> QED BY <1>1, <2>1, RangeKept, Zenon
<1> QED BY <1>3, <1>4, <1>5, <1>6 DEF Given, Held

\* The offsets of a table with room have not wrapped.
LEMMA OffsetsExact ==
  ASSUME NEW table, NEW p, NEW bytes, NEW n, NEW u, Sound(table, p, bytes, n, u)
  PROVE  /\ Len(p) \in Nat /\ Len(p) % Wrap = Len(p)
         /\ Len(bytes) \in Nat /\ Len(bytes) % Wrap = Len(bytes)
<1>1. /\ p \in Seq(Nat) /\ bytes \in Seq(Nat) /\ n \in Nat /\ u \in 0..MaxUpdates
      /\ n <= MaxLoad /\ Len(p) <= (n + u) * MaxLen /\ Len(bytes) <= n * MaxLen
  BY DEF Sound
<1>2. Len(p) \in Nat /\ Len(bytes) \in Nat
  BY <1>1, LenProperties
<1>3. Len(p) % Wrap = Len(p)
  BY <1>1, <1>2, NoWrap
<1>4. Len(bytes) % Wrap = Len(bytes)
  <2>1. 0 \in 0..MaxUpdates /\ n + 0 = n
    BY <1>1, FlatCacheAssumption
  <2> QED BY <1>1, <1>2, <2>1, NoWrap
<1> QED BY <1>2, <1>3, <1>4

\* insert_hashed on a table with room is an update of the map, if key and ids
\* fit, and nothing otherwise.
LEMMA PutIntoMaps ==
  ASSUME NEW table, NEW p, NEW bytes, NEW n, NEW u,
         Sound(table, p, bytes, n, u), n < MaxLoad, Indexed(table, bytes),
         NEW k \in Keys, NEW ids \in Seq(Nat),
         PutInto(table, p, bytes, n, u, k, ids)
  PROVE  /\ Indexed(slots', key_pool')
         /\ \A k2 \in Keys :
              GetIn(slots', pool', key_pool', k2) =
                IF k2 = k /\ Fits(k, ids) THEN ids ELSE GetIn(table, p, bytes, k2)
<1> DEFINE i == Probe(table, bytes, k)
           Entry(hash, key_offset, key_len) ==
             [hash |-> hash, offset |-> Len(p) % Wrap, len |-> Len(ids),
              key_offset |-> key_offset, key_len |-> key_len]
           s == Entry(table[i].hash, table[i].key_offset, table[i].key_len)
           new == Entry(Hash(k), Len(bytes) % Wrap, Len(k))
<1>1. /\ table \in [0..Size - 1 -> Slot] /\ Cardinality(Filled(table)) < Size
      /\ p \in Seq(Nat) /\ bytes \in Seq(Nat) /\ k \in Seq(Nat)
  BY FlatCacheAssumption DEF Sound
<1>2. Sound(slots', pool', key_pool', count', updates')
  BY PutIntoSound
<1>3. slots' \in [0..Size - 1 -> Slot] /\ Cardinality(Filled(slots')) < Size
  BY <1>2 DEF Sound
<1>4. i \in 0..Size - 1 /\ (i \in Filled(table) => Held(table, bytes, i) = k)
  BY <1>1, Finds
<1>5. Len(p) \in Nat /\ Len(p) % Wrap = Len(p)
      /\ Len(bytes) \in Nat /\ Len(bytes) % Wrap = Len(bytes)
  BY OffsetsExact
<1>6. SubSeq(p \o ids, Len(p) + 1, Len(p) + Len(ids)) = ids
      /\ SubSeq(bytes \o k, Len(bytes) + 1, Len(bytes) + Len(k)) = k
  BY <1>1, RangeAdded
<1> HIDE DEF i
<1>7. CASE /\ table[i].hash = EMPTY_SLOT
           /\ Fits(k, ids)
           /\ slots' = [table EXCEPT ![i] = new]
           /\ pool' = p \o ids
           /\ key_pool' = bytes \o k
  <2>1. /\ new.hash = Hash(k) /\ new.offset = Len(p) /\ new.len = Len(ids)
        /\ new.key_offset = Len(bytes) /\ new.key_len = Len(k)
    BY <1>5
  <2> HIDE DEF new
  <2>2. /\ slots'[i] = new
        /\ \A j \in 0..Size - 1 : j # i => slots'[j] = table[j]
    BY <1>1, <1>4, <1>7
  <2>3. Filled(slots') = Filled(table) \cup {i}
    BY <1>4, <2>1, <2>2, HashType DEF Filled
  <2>4. ASSUME NEW j \in Filled(slots')
        PROVE  /\ Held(slots', key_pool', j) =
                    IF j = i THEN k ELSE Held(table, bytes, j)
               /\ slots'[j].hash = IF j = i THEN Hash(k) ELSE table[j].hash
               /\ Given(slots', pool', j) = IF j = i THEN ids ELSE Given(table, p, j)
    <3>1. CASE j = i
      BY <1>6, <1>7, <2>1, <2>2, <3>1 DEF Held, Given
    <3>2. CASE j # i
      <4>1. j \in Filled(table) /\ slots'[j] = table[j]
        BY <2>2, <2>3, <3>2 DEF Filled
      <4>2. Given(table, p \o ids, j) = Given(table, p, j)
            /\ Held(table, bytes \o k, j) = Held(table, bytes, j)
        BY <1>1, <4>1, RangesKept
      <4>3. Given(slots', pool', j) = Given(table, p \o ids, j)
            /\ Held(slots', key_pool', j) = Held(table, bytes \o k, j)
        BY <1>7, <4>1 DEF Given, Held
      <4> QED BY <3>2, <4>1, <4>2, <4>3
    <3> QED BY <3>1, <3>2
  <2>5. /\ Indexed(slots', key_pool')
        /\ \A k2 \in Keys : GetIn(slots', pool', key_pool', k2) =
             IF k2 = k THEN ids ELSE GetIn(table, p, bytes, k2)
    <3>1. PICK t2, p2, b2 : t2 = slots' /\ p2 = pool' /\ b2 = key_pool'
      OBVIOUS
    <3>2. WrittenAt(i, k, ids, table, p, bytes, t2, p2, b2)
      BY <1>1, <1>3, <2>3, <2>4, <3>1 DEF WrittenAt
    <3>3. i = Probe(table, bytes, k)
      BY DEF i
    <3>4. /\ Indexed(t2, b2)
          /\ \A k2 \in Keys : GetIn(t2, p2, b2, k2) =
               IF k2 = k THEN ids ELSE GetIn(table, p, bytes, k2)
      BY <3>2, <3>3, Written
    <3> QED BY <3>1, <3>4
  <2> QED BY <1>7, <2>5
<1>8. CASE /\ table[i].hash # EMPTY_SLOT
           /\ Len(ids) <= MaxLen
           /\ slots' = [table EXCEPT ![i] = s]
           /\ pool' = p \o ids
           /\ key_pool' = bytes
  <2>1. /\ s.hash = table[i].hash /\ s.offset = Len(p) /\ s.len = Len(ids)
        /\ s.key_offset = table[i].key_offset /\ s.key_len = table[i].key_len
    BY <1>5
  <2> HIDE DEF s
  <2>2. /\ slots'[i] = s
        /\ \A j \in 0..Size - 1 : j # i => slots'[j] = table[j]
    BY <1>1, <1>4, <1>8
  <2>3. i \in Filled(table) /\ Filled(slots') = Filled(table) \cup {i}
    BY <1>4, <1>8, <2>1, <2>2 DEF Filled
  <2>4. Held(table, bytes, i) = k /\ table[i].hash = Hash(k)
    BY <1>4, <2>3 DEF Indexed
  <2>5. ASSUME NEW j \in Filled(slots')
        PROVE  /\ Held(slots', key_pool', j) =
                    IF j = i THEN k ELSE Held(table, bytes, j)
               /\ slots'[j].hash = IF j = i THEN Hash(k) ELSE table[j].hash
               /\ Given(slots', pool', j) = IF j = i THEN ids ELSE Given(table, p, j)
    <3>1. CASE j = i
      BY <1>6, <1>8, <2>1, <2>2, <2>4, <3>1 DEF Held, Given
    <3>2. CASE j # i
      <4>1. j \in Filled(table) /\ slots'[j] = table[j]
        BY <2>2, <2>3, <3>2 DEF Filled
      <4>2. Given(table, p \o ids, j) = Given(table, p, j)
        BY <1>1, <4>1, RangesKept
      <4>3. Given(slots', pool', j) = Given(table, p \o ids, j)
            /\ Held(slots', key_pool', j) = Held(table, bytes, j)
        BY <1>8, <4>1 DEF Given, Held
      <4> QED BY <3>2, <4>1, <4>2, <4>3
    <3> QED BY <3>1, <3>2
  <2>6. /\ Indexed(slots', key_pool')
        /\ \A k2 \in Keys : GetIn(slots', pool', key_pool', k2) =
             IF k2 = k THEN ids ELSE GetIn(table, p, bytes, k2)
    <3>1. PICK t2, p2, b2 : t2 = slots' /\ p2 = pool' /\ b2 = key_pool'
      OBVIOUS
    <3>2. WrittenAt(i, k, ids, table, p, bytes, t2, p2, b2)
      BY <1>1, <1>3, <2>3, <2>5, <3>1 DEF WrittenAt
    <3>3. i = Probe(table, bytes, k)
      BY DEF i
    <3>4. /\ Indexed(t2, b2)
          /\ \A k2 \in Keys : GetIn(t2, p2, b2, k2) =
               IF k2 = k THEN ids ELSE GetIn(table, p, bytes, k2)
      BY <3>2, <3>3, Written
    <3> QED BY <3>1, <3>4
  <2>7. Fits(k, ids)
    <3>1. /\ table[i].key_offset \in Nat /\ table[i].key_len \in 0..MaxLen
          /\ table[i].key_offset + table[i].key_len <= Len(bytes)
      BY <2>3, Ranges
    <3>2. Len(k) = table[i].key_len
      <4> DEFINE a == table[i].key_offset + 1
                 b == table[i].key_offset + table[i].key_len
      <4>1. a \in Int /\ b \in Int /\ MaxLen \in Nat /\ table[i].key_len \in Nat
        BY <3>1, FlatCacheAssumption
      <4>2. \A j \in a..b : bytes[j] \in Nat
        <5>1. \A j \in a..b : j \in 1..Len(bytes)
          BY <1>5, <3>1, <4>1
        <5> QED BY <1>1, <5>1, ElementOfSeq
      <4>3. Len(SubSeq(bytes, a, b)) = IF a <= b THEN b - a + 1 ELSE 0
        BY <4>1, <4>2, SubSeqProperties
      <4>4. k = SubSeq(bytes, a, b)
        BY <2>4 DEF Held
      <4>5. Len(k) = IF a <= b THEN b - a + 1 ELSE 0
        BY <4>3, <4>4
      <4>6. PICK o, l : o = table[i].key_offset /\ l = table[i].key_len
        OBVIOUS
      <4>7. o \in Nat /\ l \in Nat
        BY <3>1, <4>1, <4>6
      <4>8. Len(k) = IF o + 1 <= o + l THEN (o + l) - (o + 1) + 1 ELSE 0
        BY <4>5, <4>6
      <4>9. Len(k) = l
        BY <4>7, <4>8
      <4> QED BY <4>6, <4>9
    <3> QED BY <1>8, <3>1, <3>2, FlatCacheAssumption DEF Fits
  <2> QED BY <2>6, <2>7
<1>9. CASE /\ IF table[i].hash = EMPTY_SLOT
              THEN ~ Fits(k, ids)
              ELSE Len(ids) > MaxLen
           /\ slots' = table
           /\ pool' = p
           /\ key_pool' = bytes
  <2>1. ~ Fits(k, ids)
    BY <1>1, <1>9, LenProperties, FlatCacheAssumption DEF Fits
  <2> QED BY <1>9, <2>1 DEF Indexed
<1> QED BY <1>7, <1>8, <1>9 DEF PutInto, i

(***************************************************************************)
(* The refinement.                                                         *)
(***************************************************************************)

\* CacheMap counts with the same Cardinality.
LEMMA SameCardinality ==
  ASSUME NEW S
  PROVE  Map!Cardinality(S) = Cardinality(S)
BY DEF Map!Cardinality, Cardinality, Map!IsFiniteSet, IsFiniteSet

LEMMA Gets ==
  MapInv => /\ Sound(slots, pool, key_pool, count, updates)
            /\ Indexed(slots, key_pool)
            /\ [k \in Keys |-> Get(k)] =
                 [k \in Keys |-> GetIn(slots, pool, key_pool, k)]
BY SoundIsIInv, GetIs DEF MapInv

LEMMA EmptiedFinds ==
  ASSUME NEW p, NEW bytes
  PROVE  /\ Filled(Emptied) = {}
         /\ Indexed(Emptied, bytes)
         /\ \A k \in Keys : GetIn(Emptied, p, bytes, k) = None
<1>1. Filled(Emptied) = {}
  BY DEF Emptied, Filled
<1> QED BY <1>1, EmptyFinds

LEMMA InitMaps == Init => MapInv /\ Map!Init
<1> SUFFICES ASSUME Init PROVE MapInv /\ Map!Init
  OBVIOUS
<1>1. Filled(slots) = {}
  BY DEF Init, Filled
<1>2. /\ Indexed(slots, key_pool)
      /\ \A k \in Keys : GetIn(slots, pool, key_pool, k) = None
  BY <1>1, EmptyFinds
<1>3. MapInv
  BY <1>2, InitSound DEF MapInv
<1>4. \A k \in Keys : Get(k) = None
  BY <1>2, <1>3, GetIs
<1> QED BY <1>3, <1>4 DEF Map!Init

\* The keys the map is found to hold are as many as the cache has counted.
LEMMA RoomIs ==
  ASSUME MapInv
  PROVE  Map!Room([k \in Keys |-> Get(k)]) =
           IF count >= MaxLoad THEN [k \in Keys |-> None]
                               ELSE [k \in Keys |-> Get(k)]
<1> DEFINE m == [k \in Keys |-> Get(k)]
<1>1. \A k \in Keys : m[k] = GetIn(slots, pool, key_pool, k)
  BY GetIs
<1>2. {k \in Keys : m[k] # None} =
        {k \in Keys : GetIn(slots, pool, key_pool, k) # None}
  BY <1>1
<1> HIDE DEF m
<1>3. Cardinality({k \in Keys : m[k] # None}) = count
  BY <1>2, Gets, Counted
<1>4. Map!Cardinality({k \in Keys : m[k] # None}) = count
  BY <1>3, SameCardinality
<1>5. Map!Room(m) = IF count >= MaxLoad THEN [k \in Keys |-> None] ELSE m
  BY <1>4 DEF Map!Room
<1> QED BY <1>5 DEF m

LEMMA PutMaps ==
  ASSUME MapInv, MapInv', NEW k \in Keys, NEW ids \in Seq(Nat),
         NEW room, room = Map!Room([k2 \in Keys |-> Get(k2)]),
         \A k2 \in Keys :
           GetIn(slots', pool', key_pool', k2) =
             IF k2 = k /\ Fits(k, ids) THEN ids ELSE room[k2]
  PROVE  Map!Put(k, ids)
<1>1. room = [k2 \in Keys |-> room[k2]]
  BY RoomIs
<1>2. ASSUME NEW k2 \in Keys
      PROVE  Get(k2)' = GetIn(slots', pool', key_pool', k2)
  <2>1. Probe(slots', key_pool', k2) \in 0..Size - 1
    BY ProbeStops DEF MapInv, IInv, ProbesEnd, Occupied, Filled
  <2> QED BY <2>1 DEF Get, GetIn, Given, Filled
<1>3. [k2 \in Keys |-> Get(k2)]' =
        [k2 \in Keys |-> IF k2 = k /\ Fits(k, ids) THEN ids ELSE room[k2]]
  BY <1>2
<1>4. [k2 \in Keys |-> IF k2 = k /\ Fits(k, ids) THEN ids ELSE room[k2]] =
        IF Fits(k, ids) THEN [room EXCEPT ![k] = ids] ELSE room
  BY <1>1
<1> QED BY <1>3, <1>4 DEF Map!Put

\* Every step keeps the invariant and is a step of the map or leaves it alone.
LEMMA NextMaps ==
  MapInv /\ [Next]_vars => MapInv' /\ [Map!Next]_[k \in Keys |-> Get(k)]
<1> SUFFICES ASSUME MapInv, [Next]_vars
             PROVE  MapInv' /\ [Map!Next]_[k \in Keys |-> Get(k)]
  OBVIOUS
<1>1. IInv'
  BY NextSound DEF MapInv
<1>2. Sound(slots, pool, key_pool, count, updates)
      /\ Indexed(slots, key_pool)
  BY Gets
<1>3. CASE Clear
  <2>1. slots' = Emptied /\ key_pool' = <<>> /\ pool' = <<>>
    BY <1>3 DEF Clear
  <2>2. Indexed(slots', key_pool')
        /\ \A k \in Keys : GetIn(slots', pool', key_pool', k) = None
    BY <2>1, EmptiedFinds
  <2>3. MapInv'
    BY <1>1, <2>2 DEF MapInv, Indexed, Held, Filled, Reached
  <2>4. \A k \in Keys : Get(k)' = None
    <3> SUFFICES ASSUME NEW k \in Keys PROVE Get(k)' = None
      OBVIOUS
    <3>1. Cardinality(Filled(Emptied)) < Size
      <4>1. Cardinality(Filled(Emptied)) = 0
        BY EmptiedFinds, FS_EmptySet
      <4>2. Size \in Nat /\ Size >= 2
        BY FlatCacheAssumption
      <4> QED BY <4>1, <4>2
    <3>2. Probe(Emptied, <<>>, k) \in 0..Size - 1
      BY <3>1, ProbeStops
    <3>3. Emptied[Probe(Emptied, <<>>, k)].hash = EMPTY_SLOT
      BY <3>2, EmptiedFinds DEF Filled
    <3> QED BY <2>1, <3>3 DEF Get
  <2> QED BY <2>3, <2>4 DEF Map!Next, Map!Forget
<1>4. ASSUME NEW e \in Entries, Put(e[1], e[2])
      PROVE  MapInv' /\ Map!Next
  <2>1. e[1] \in Keys /\ e[2] \in Seq(Nat)
    BY FlatCacheAssumption
  <2>2. PICK room : room = Map!Room([k2 \in Keys |-> Get(k2)])
    OBVIOUS
  <2>3. /\ Indexed(slots', key_pool')
        /\ \A k2 \in Keys :
             GetIn(slots', pool', key_pool', k2) =
               IF k2 = e[1] /\ Fits(e[1], e[2]) THEN e[2] ELSE room[k2]
    <3>1. CASE count >= MaxLoad
      <4>1. PutInto(Emptied, <<>>, <<>>, 0, 0, e[1], e[2])
        BY <1>4, <3>1 DEF Put
      <4>2. Sound(Emptied, <<>>, <<>>, 0, 0) /\ 0 < MaxLoad
        <5>1. slots \in [0..Size - 1 -> Slot]
          BY <1>2 DEF Sound
        <5>2. 0 < MaxLoad
          BY FlatCacheAssumption DEF MaxLoad
        <5> QED BY <5>1, <5>2, EmptiedIsSound
      <4>3. \A k2 \in Keys : room[k2] = GetIn(Emptied, <<>>, <<>>, k2)
        BY <2>2, <3>1, RoomIs, EmptiedFinds
      <4>4. Indexed(Emptied, <<>>)
        BY EmptiedFinds
      <4> QED BY <2>1, <4>1, <4>2, <4>3, <4>4, PutIntoMaps
    <3>2. CASE ~ (count >= MaxLoad)
      <4>1. PutInto(slots, pool, key_pool, count, updates, e[1], e[2])
        BY <1>4, <3>2 DEF Put
      <4>2. count < MaxLoad
        BY <1>2, <3>2, Sizes DEF Sound
      <4>3. \A k2 \in Keys : room[k2] = GetIn(slots, pool, key_pool, k2)
        BY <2>2, <3>2, RoomIs, GetIs
      <4> QED BY <1>2, <2>1, <4>1, <4>2, <4>3, PutIntoMaps
    <3> QED BY <3>1, <3>2
  <2>4. MapInv'
    BY <1>1, <2>3 DEF MapInv, Indexed, Held, Filled, Reached
  <2>5. Map!Put(e[1], e[2])
    BY <2>1, <2>2, <2>3, <2>4, PutMaps
  <2> QED BY <2>4, <2>5 DEF Map!Next
<1>5. CASE UNCHANGED vars
  <2>1. slots' = slots /\ pool' = pool /\ key_pool' = key_pool
    BY <1>5 DEF vars
  <2>2. MapInv'
    BY <1>1, <1>2, <2>1 DEF MapInv, Indexed, Held, Filled, Reached
  <2>3. [k \in Keys |-> Get(k)]' = [k \in Keys |-> Get(k)]
    BY <2>1 DEF Get, Probe, Ends, Matches
  <2> QED BY <2>2, <2>3
<1> QED BY <1>3, <1>4, <1>5 DEF Next

\* A FlatCache is a map that forgets everything when it is full: whatever
\* collides, is overwritten in place or goes stale, get_hashed returns what
\* insert_hashed stored last under that very key.
THEOREM FlatIsMap == Spec => IsMap
<1>1. Init => MapInv /\ Map!Init
  BY InitMaps
<1>2. MapInv /\ [Next]_vars => MapInv' /\ [Map!Next]_[k \in Keys |-> Get(k)]
  BY NextMaps
<1> QED BY <1>1, <1>2, PTL DEF Spec, IsMap, Map!Spec
=============================================================================
