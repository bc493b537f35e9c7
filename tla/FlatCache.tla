------------------------------ MODULE FlatCache ------------------------------
(***************************************************************************)
(* FlatCache of src/src/models/bpe.rs as it lies in memory: a table of     *)
(* slots with open addressing, and two pools that slots point into with    *)
(* offsets and lengths of fixed width.  Emptying the table resets only the *)
(* hashes of the slots; what else they hold goes stale.  The code reads    *)
(* the pools with get_unchecked.                                           *)
(***************************************************************************)
EXTENDS Sequences, Integers, FiniteSets

CONSTANTS
  Keys,        \* pretokens, as sequences of bytes
  Entries,     \* pretokens with ids they may be stored with
  RawHash,     \* [Keys -> Nat]: the hash before it is kept off EMPTY_SLOT
  Size,        \* slots
  MaxLen,      \* u16::MAX
  Wrap,        \* 2^32: where offsets wrap around
  MaxUpdates,  \* bound of the model: updates in place between two clears
  None

EMPTY_SLOT == 0

\* max_load of a table of Size slots.
MaxLoad == (Size * 3) \div 4

ASSUME FlatCacheAssumption ==
  /\ Size \in Nat /\ Size >= 2
  /\ MaxLen \in Nat
  /\ Wrap \in Nat
  /\ MaxUpdates \in Nat
  /\ (MaxLoad + MaxUpdates) * MaxLen < Wrap
  /\ RawHash \in [Keys -> Nat]
  /\ \A k \in Keys : k \in Seq(Nat)
  /\ Entries \subseteq Keys \X Seq(Nat)
  /\ None \notin Seq(Nat)

VARIABLES
  slots,     \* [0..Size - 1 -> Slot]
  pool,      \* ids
  key_pool,  \* bytes
  count,     \* occupied slots
  updates    \* updates in place since the last clear

vars == <<slots, pool, key_pool, count, updates>>

\* Mutation of Hash: a hash may be the mark of an empty slot.
HashRaw(k) == RawHash[k]

\* pretoken_hash.
Hash(k) == IF RawHash[k] = EMPTY_SLOT THEN 1 ELSE RawHash[k]

Slot == [hash : Nat, offset : 0..Wrap - 1, len : 0..MaxLen,
         key_offset : 0..Wrap - 1, key_len : 0..MaxLen]

Init ==
  /\ slots = [i \in 0..Size - 1 |->
       [hash |-> EMPTY_SLOT, offset |-> 0, len |-> 0,
        key_offset |-> 0, key_len |-> 0]]
  /\ pool = <<>>
  /\ key_pool = <<>>
  /\ count = 0
  /\ updates = 0

(* ------------------------------- Probing -------------------------------- *)

\* The d-th slot that is probed for k.
At(k, d) == (Hash(k) + d) % Size

\* Mutation of Matches: only the hashes are compared.
MatchesHash(table, bytes, k, i) == table[i].hash = Hash(k)

Matches(table, bytes, k, i) ==
  /\ table[i].hash = Hash(k)
  /\ SubSeq(bytes, table[i].key_offset + 1,
            table[i].key_offset + table[i].key_len) = k

Ends(table, bytes, k, i) ==
  table[i].hash = EMPTY_SLOT \/ Matches(table, bytes, k, i)

\* The slot the loops of get_hashed and insert_hashed stop at.
Probe(table, bytes, k) ==
  LET Stops(d) == Ends(table, bytes, k, At(k, d))
  IN  At(k, CHOOSE d \in 0..Size - 1 : Stops(d) /\ \A e \in 0..d - 1 : ~ Stops(e))

\* get_hashed.
Get(k) ==
  LET s == slots[Probe(slots, key_pool, k)]
  IN  IF s.hash = EMPTY_SLOT
      THEN None
      ELSE SubSeq(pool, s.offset + 1, s.offset + s.len)

(* ------------------------------- Actions -------------------------------- *)

\* Mutation of Emptied: the slots keep their hashes.
EmptiedNot == slots

Emptied == [i \in 0..Size - 1 |-> [slots[i] EXCEPT !.hash = EMPTY_SLOT]]

\* clear, when the cache is claimed for another instance.
Clear ==
  /\ slots' = Emptied
  /\ pool' = <<>>
  /\ key_pool' = <<>>
  /\ count' = 0
  /\ updates' = 0

Fits(k, ids) == Len(ids) <= MaxLen /\ Len(k) <= MaxLen

\* The rest of insert_hashed, for a table with room.  An update in place appends
\* the ids and leaves the old ones where they are.
PutInto(table, p, bytes, n, u, k, ids) ==
  LET i == Probe(table, bytes, k)
      Entry(hash, key_offset, key_len) ==
        [hash |-> hash, offset |-> Len(p) % Wrap, len |-> Len(ids),
         key_offset |-> key_offset, key_len |-> key_len]
  IN  \/ /\ table[i].hash = EMPTY_SLOT
         /\ Fits(k, ids)
         /\ slots' = [table EXCEPT ![i] =
              Entry(Hash(k), Len(bytes) % Wrap, Len(k))]
         /\ pool' = p \o ids
         /\ key_pool' = bytes \o k
         /\ count' = n + 1
         /\ updates' = u
      \/ /\ table[i].hash # EMPTY_SLOT
         /\ Len(ids) <= MaxLen
         /\ u < MaxUpdates
         /\ slots' = [table EXCEPT ![i] =
              Entry(@.hash, @.key_offset, @.key_len)]
         /\ pool' = p \o ids
         /\ key_pool' = bytes
         /\ count' = n
         /\ updates' = u + 1
      \/ /\ IF table[i].hash = EMPTY_SLOT
            THEN ~ Fits(k, ids)
            ELSE Len(ids) > MaxLen
         /\ slots' = table
         /\ pool' = p
         /\ key_pool' = bytes
         /\ count' = n
         /\ updates' = u

\* Mutation of Put: a full cache loses its slots but keeps counting.
PutKeepsCount(k, ids) ==
  IF count >= MaxLoad
  THEN PutInto(Emptied, <<>>, <<>>, count, 0, k, ids)
  ELSE PutInto(slots, pool, key_pool, count, updates, k, ids)

\* insert_hashed: the load is tested before the key is looked for.
Put(k, ids) ==
  IF count >= MaxLoad
  THEN PutInto(Emptied, <<>>, <<>>, 0, 0, k, ids)
  ELSE PutInto(slots, pool, key_pool, count, updates, k, ids)

Next == Clear \/ \E e \in Entries : Put(e[1], e[2])

Spec == Init /\ [][Next]_vars

(* ------------------------------ Properties ------------------------------ *)

Filled(table) == {i \in 0..Size - 1 : table[i].hash # EMPTY_SLOT}

Occupied == Filled(slots)

TypeOK ==
  /\ slots \in [0..Size - 1 -> Slot]
  /\ pool \in Seq(Nat)
  /\ key_pool \in Seq(Nat)
  /\ count \in Nat
  /\ updates \in 0..MaxUpdates

\* What the code reads without a bounds check is inside the pools, however many
\* entries were replaced or dropped before.
InBounds ==
  \A i \in Occupied :
    /\ slots[i].offset + slots[i].len <= Len(pool)
    /\ slots[i].key_offset + slots[i].key_len <= Len(key_pool)

\* Every probe comes to an end: count is exact and leaves a slot empty.
ProbesEnd == count = Cardinality(Occupied) /\ count < Size

\* The pools never outgrow an offset.
PoolsFit ==
  /\ Len(pool) <= (count + updates) * MaxLen
  /\ Len(key_pool) <= count * MaxLen
  /\ count <= MaxLoad

\* The inductive invariant.
IInv == TypeOK /\ InBounds /\ ProbesEnd /\ PoolsFit

Map == INSTANCE CacheMap WITH map <- [k \in Keys |-> Get(k)]

\* A look-up returns what was stored last under its key, whatever collided.
IsMap == Map!Spec
=============================================================================
