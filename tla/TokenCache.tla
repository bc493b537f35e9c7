----------------------------- MODULE TokenCache -----------------------------
(***************************************************************************)
(* The two-level token cache of src/src/models/bpe.rs.  Every thread has   *)
(* one FlatCache per path (TL_BPE_CACHE for encoded text, TL_FUSED_CACHE   *)
(* for raw bytes) which it uses for whatever tokenizer instance runs on it;*)
(* every instance has one SharedCache per path, split into mutex-guarded   *)
(* FlatCache shards.  A look-up, a merge and the insertions that follow it *)
(* are separate steps, and the shards change between them.                 *)
(*                                                                         *)
(* A FlatCache is abstracted to the map it implements, the instance id it  *)
(* is tagged with and the number of id ranges appended to its pool since   *)
(* the last clear.                                                         *)
(***************************************************************************)
EXTENDS Pretokens, FiniteSets

CONSTANTS
  Threads,     \* OS threads: Python threads, rayon and pool workers
  None,        \* no entry
  Long,        \* pretokens with more than u16::MAX bytes or ids
  Shards,      \* shard numbers of a SharedCache
  ShardOf,     \* [Keys -> Shards]: the top bits of the hash
  LocalLoad,   \* max_load of a thread-local FlatCache
  SharedLoad,  \* max_load of a shard
  MaxBpes      \* bound of the model: instances ever created

\* How far a call is with the pretoken it is about to answer, or its outcome.
Stages == {"lookup", "shared", "merge", "publish", "done", "failed"}

ASSUME TokenCacheAssumption ==
  /\ None \notin Results
  /\ Idle \notin [path : Paths, bpe : Nat, keys : Seq(Keys), batch : BOOLEAN,
                  out : Seq(Results), stage : Stages]
  /\ Long \subseteq Keys
  /\ ShardOf \in [Keys -> Shards]
  /\ LocalLoad \in Nat \ {0}
  /\ SharedLoad \in Nat \ {0}
  /\ MaxBpes \in Nat

VARIABLES
  vocab,      \* vocab[b]: the vocabulary and merges of instance b
  local,      \* local[t][p]: the thread-local caches
  shared,     \* shared[b][p][s]: the shards of an instance
  call        \* per thread: Idle, or the call in progress

vars == <<vocab, local, shared, call>>

(* ------------------------------ FlatCache ------------------------------- *)

\* No id yet: instance ids start at 1, a fresh FlatCache carries 0.
NoBpe == 0

Cleared(id) == [bpe_id |-> id, map |-> [k \in Keys |-> None], pool |-> 0]

\* The occupied slots, FlatCache::count.
Count(c) == Cardinality({k \in Keys : c.map[k] # None})

\* Mutation of Insert: clearing empties the slots but not the pool.
InsertKeepsPool(c, load, k, ids) ==
  LET base == IF Count(c) >= load THEN Cleared(c.bpe_id) ELSE c
  IN  [bpe_id |-> base.bpe_id, map |-> [base.map EXCEPT ![k] = ids],
       pool |-> c.pool + 1]

\* FlatCache::insert_hashed: the load check clears before the key is even
\* looked for, an update in place appends to the pool as a new entry does, and
\* what does not fit u16 lengths is dropped after the clear.
Insert(c, load, k, ids) ==
  LET base == IF Count(c) >= load THEN Cleared(c.bpe_id) ELSE c
  IN  IF k \in Long
      THEN base
      ELSE [bpe_id |-> base.bpe_id, map |-> [base.map EXCEPT ![k] = ids],
            pool |-> base.pool + 1]

\* Mutation of Claim: the tag changes but the entries stay.
ClaimKeepsEntries(c, b) == [c EXCEPT !.bpe_id = b]

\* The test every write to a thread-local cache makes first.
Claim(c, b) == IF c.bpe_id # b THEN Cleared(b) ELSE c

(* -------------------------------- Calls --------------------------------- *)

In(t, stage) == call[t] # Idle /\ call[t].stage = stage

\* While a pretoken is being answered: the one after the answered ones.
Key(c) == c.keys[Len(c.out) + 1]

Val(c, k) == Ids(c.path, vocab[c.bpe], k)

\* The stage that follows once n pretokens are answered.
After(c, n) == IF n = Len(c.keys) THEN "done" ELSE "lookup"

\* The current pretoken is answered and nothing is left to publish for it.
Push(t, ids) ==
  call' = [call EXCEPT ![t].out = Append(@, ids),
                       ![t].stage = After(call[t], Len(call[t].out) + 1)]

Store(t, c) == local' = [local EXCEPT ![t][call[t].path] = c]

Mine(t) == local[t][call[t].path]

Shard(t, k) == shared[call[t].bpe][call[t].path][ShardOf[k]]

Init ==
  /\ vocab = <<>>
  /\ local = [t \in Threads |-> [p \in Paths |-> Cleared(NoBpe)]]
  /\ shared = <<>>
  /\ call = [t \in Threads |-> Idle]

\* A FlatCache shard that is not allocated yet is an empty one.
FreshShards == [p \in Paths |-> [s \in Shards |-> Cleared(NoBpe)]]

\* Bpe::new takes the next instance id.
NewBpe(v) ==
  /\ Len(vocab) < MaxBpes
  /\ vocab' = Append(vocab, v)
  /\ shared' = Append(shared, FreshShards)
  /\ UNCHANGED <<local, call>>

\* Bpe::clone copies the tables but neither the id nor the caches.
CloneBpe(b) ==
  /\ Len(vocab) < MaxBpes
  /\ vocab' = Append(vocab, vocab[b])
  /\ shared' = Append(shared, FreshShards)
  /\ UNCHANGED <<local, call>>

\* tokenize_into and tokenize_into_fused: one pretoken, or an empty input.
\* The whole-input match of the encoded path precedes every cache.
BeginOne(t, p, b, keys) ==
  /\ call[t] = Idle
  /\ Len(keys) <= 1
  /\ \A i \in DOMAIN keys : keys[i] \notin Ready
  /\ LET new(out, stage) ==
           call' = [call EXCEPT ![t] =
             [path |-> p, bpe |-> b, keys |-> keys, batch |-> FALSE,
              out |-> out, stage |-> stage]]
     IN  IF keys = <<>> THEN new(<<>>, "done")
         ELSE IF p = "encoded" /\ keys[1] \in Shortcut[vocab[b]]
         THEN new(<<Ids(p, vocab[b], keys[1])>>, "done")
         ELSE new(<<>>, "lookup")
  /\ UNCHANGED <<vocab, local, shared>>

\* tokenize_batch_fused_impl borrows the thread's cache for all its splits.
BeginBatch(t, b, keys) ==
  /\ call[t] = Idle
  /\ "fused" \in Paths
  /\ call' = [call EXCEPT ![t] =
       [path |-> "fused", bpe |-> b, keys |-> keys, batch |-> TRUE,
        out |-> <<>>, stage |-> IF keys = <<>> THEN "done" ELSE "lookup"]]
  /\ local' = [local EXCEPT ![t]["fused"] = Claim(@, b)]
  /\ UNCHANGED <<vocab, shared>>

\* A split that carries its token id.
PassReady(t) ==
  /\ In(t, "lookup")
  /\ LET k == Key(call[t]) IN k \in Ready /\ Push(t, Val(call[t], k))
  /\ UNCHANGED <<vocab, local, shared>>

\* Mutation of LookupLocal: the tag is not compared.
LookupUntagged(t) ==
  /\ In(t, "lookup")
  /\ LET k == Key(call[t])
     IN  /\ k \notin Ready
         /\ IF Mine(t).map[k] # None
            THEN Push(t, Mine(t).map[k])
            ELSE call' = [call EXCEPT ![t].stage = "shared"]
  /\ UNCHANGED <<vocab, local, shared>>

\* The thread-local look-up; a single call ignores the cache of another id.
LookupLocal(t) ==
  /\ In(t, "lookup")
  /\ LET k   == Key(call[t])
         hit == /\ Mine(t).map[k] # None
                /\ call[t].batch \/ Mine(t).bpe_id = call[t].bpe
     IN  /\ k \notin Ready
         /\ IF hit
            THEN Push(t, Mine(t).map[k])
            ELSE call' = [call EXCEPT ![t].stage = "shared"]
  /\ UNCHANGED <<vocab, local, shared>>

\* The look-up under the shard's mutex, and the copy of a hit to the
\* thread-local cache.
LookupShared(t) ==
  /\ In(t, "shared")
  /\ LET k   == Key(call[t])
         ids == Shard(t, k).map[k]
     IN  IF ids = None
         THEN /\ call' = [call EXCEPT ![t].stage = "merge"]
              /\ UNCHANGED local
         ELSE /\ Store(t, Insert(Claim(Mine(t), call[t].bpe), LocalLoad, k, ids))
              /\ Push(t, ids)
  /\ UNCHANGED <<vocab, shared>>

\* ignore_merges: a whole-vocabulary token is answered as it is; only a batch
\* remembers it, and only for its own thread.
MatchWhole(t) ==
  /\ In(t, "merge")
  /\ call[t].path = "fused"
  /\ LET k == Key(call[t])
     IN  /\ k \in Whole[vocab[call[t].bpe]]
         /\ IF call[t].batch
            THEN Store(t, Insert(Mine(t), LocalLoad, k, Val(call[t], k)))
            ELSE UNCHANGED local
         /\ Push(t, Val(call[t], k))
  /\ UNCHANGED <<vocab, shared>>

\* Mutation of Merge: a batch stops at a pretoken that cannot be tokenized but
\* does not report it.
MergeSwallowsError(t) ==
  /\ In(t, "merge")
  /\ LET k == Key(call[t])
         v == vocab[call[t].bpe]
     IN  /\ ~ (call[t].path = "fused" /\ k \in Whole[v])
         /\ IF k \in Fails[v]
            THEN /\ call' = [call EXCEPT ![t].stage = "done"]
                 /\ UNCHANGED local
            ELSE /\ call' = [call EXCEPT ![t].stage = "publish",
                                         ![t].out = Append(@, Val(call[t], k))]
                 /\ Store(t, Insert(Claim(Mine(t), call[t].bpe),
                                    LocalLoad, k, Val(call[t], k)))
  /\ UNCHANGED <<vocab, shared>>

\* The merge procedure and the insertion in the thread-local cache; a
\* character without a token fails the whole call.
Merge(t) ==
  /\ In(t, "merge")
  /\ LET k == Key(call[t])
         v == vocab[call[t].bpe]
     IN  /\ ~ (call[t].path = "fused" /\ k \in Whole[v])
         /\ IF k \in Fails[v]
            THEN /\ call' = [call EXCEPT ![t].stage = "failed"]
                 /\ UNCHANGED local
            ELSE /\ call' = [call EXCEPT ![t].stage = "publish",
                                         ![t].out = Append(@, Val(call[t], k))]
                 /\ Store(t, Insert(Claim(Mine(t), call[t].bpe),
                                    LocalLoad, k, Val(call[t], k)))
  /\ UNCHANGED <<vocab, shared>>

\* Mutation of Publish: the ids are taken from the start of the batch's output.
PublishFromStart(t) ==
  /\ In(t, "publish")
  /\ LET c == call[t]
         n == Len(c.out)
         k == c.keys[n]
     IN  /\ shared' = [shared EXCEPT ![c.bpe][c.path][ShardOf[k]] =
                         Insert(@, SharedLoad, k, c.out[1])]
         /\ call' = [call EXCEPT ![t].stage = After(c, n)]
  /\ UNCHANGED <<vocab, local>>

\* The insertion under the shard's mutex of what Merge has just answered.
Publish(t) ==
  /\ In(t, "publish")
  /\ LET c == call[t]
         n == Len(c.out)
         k == c.keys[n]
     IN  /\ shared' = [shared EXCEPT ![c.bpe][c.path][ShardOf[k]] =
                         Insert(@, SharedLoad, k, c.out[n])]
         /\ call' = [call EXCEPT ![t].stage = After(c, n)]
  /\ UNCHANGED <<vocab, local>>

Finish(t) ==
  /\ In(t, "done") \/ In(t, "failed")
  /\ call' = [call EXCEPT ![t] = Idle]
  /\ UNCHANGED <<vocab, local, shared>>

Next ==
  \/ \E v \in Vocabs : NewBpe(v)
  \/ \E b \in 1..Len(vocab) : CloneBpe(b)
  \/ \E t \in Threads :
       \/ \E p \in Paths, b \in 1..Len(vocab), keys \in Batches :
            BeginOne(t, p, b, keys)
       \/ \E b \in 1..Len(vocab), keys \in Batches : BeginBatch(t, b, keys)
       \/ PassReady(t)
       \/ LookupLocal(t)
       \/ LookupShared(t)
       \/ MatchWhole(t)
       \/ Merge(t)
       \/ Publish(t)
       \/ Finish(t)

Spec == Init /\ [][Next]_vars

(* ------------------------------ Properties ------------------------------ *)

Caches == [bpe_id : Nat, map : [Keys -> Results \cup {None}], pool : Nat]

Calls == [path : Paths, bpe : 1..Len(vocab), keys : Seq(Keys),
          batch : BOOLEAN, out : Seq(Results), stage : Stages]

TypeOK ==
  /\ vocab \in Seq(Vocabs)
  /\ local \in [Threads -> [Paths -> Caches]]
  /\ shared \in Seq([Paths -> [Shards -> Caches]])
  /\ Len(shared) = Len(vocab)
  /\ call \in [Threads -> Calls \cup {Idle}]

\* c holds nothing but what vocabulary v gives on path p, and nothing for a
\* pretoken that cannot be tokenized.
Coherent(c, p, v) ==
  \A k \in Keys :
    c.map[k] = None \/ (c.map[k] = Ids(p, v, k) /\ ~ Fatal(p, v, k))

\* A cache tagged with an instance holds answers of that very instance; one that
\* is not tagged yet is empty.
Tagged(c, p) ==
  IF c.bpe_id = NoBpe
  THEN \A k \in Keys : c.map[k] = None
  ELSE c.bpe_id \in 1..Len(vocab) /\ Coherent(c, p, vocab[c.bpe_id])

\* Whatever instances ran on a thread before, and in whatever order, what its
\* caches return is an answer of the instance that asks.
LocalCoherent == \A t \in Threads, p \in Paths : Tagged(local[t][p], p)

\* A shard holds answers of the instance that owns it, whichever threads race
\* to fill it.
SharedCoherent ==
  \A b \in 1..Len(vocab), p \in Paths, s \in Shards :
    Coherent(shared[b][p][s], p, vocab[b])

\* A call in progress has answered a prefix of its pretokens, rightly; it fails
\* only for a pretoken that cannot be tokenized; and while a batch is in
\* progress its thread's cache stays tagged with its instance.
InProgress(c, v, tag) ==
  /\ Len(c.out) <= Len(c.keys)
  /\ \A i \in 1..Len(c.out) :
       c.out[i] = Ids(c.path, v, c.keys[i]) /\ ~ Fatal(c.path, v, c.keys[i])
  /\ c.stage \in {"lookup", "shared", "merge"} =>
       /\ Len(c.out) < Len(c.keys)
       /\ c.path = "encoded" => Key(c) \notin Shortcut[v]
  /\ c.stage \in {"shared", "merge"} => Key(c) \notin Ready
  /\ c.stage = "publish" => c.out # <<>>
  /\ c.stage = "done" => Len(c.out) = Len(c.keys)
  /\ c.stage = "failed" => \E i \in DOMAIN c.keys : Fatal(c.path, v, c.keys[i])
  /\ c.path = "encoded" => Len(c.keys) <= 1
  /\ c.batch => c.path = "fused" /\ tag = c.bpe

Progressing(t) ==
  InProgress(call[t], vocab[call[t].bpe], local[t]["fused"].bpe_id)

CallCoherent == \A t \in Threads : call[t] # Idle => Progressing(t)

\* The inductive invariant.
IInv == TypeOK /\ LocalCoherent /\ SharedCoherent /\ CallCoherent

\* Pool growth between two clears, although updates in place append without
\* being counted.  A thread-local cache is never updated in place; a shard is,
\* when threads miss together, but at most once per thread and entry.
PoolBounded ==
  /\ \A t \in Threads, p \in Paths : local[t][p].pool = Count(local[t][p])
  /\ \A b \in 1..Len(vocab), p \in Paths, s \in Shards :
       shared[b][p][s].pool <=
         Cardinality(Threads) * Count(shared[b][p][s])

AnswerOf(c) ==
  CASE c.stage = "done"   -> c.out
    [] c.stage = "failed" -> Error
    [] OTHER              -> Pending

RequestOf(c) ==
  IF c = Idle THEN Idle
  ELSE [path |-> c.path, bpe |-> c.bpe, keys |-> c.keys, answer |-> AnswerOf(c)]

Promise == INSTANCE Tokenizing WITH
  request <- [t \in Threads |-> RequestOf(call[t])]

\* Every call, batched or not, cached or not, is answered by the vocabulary of
\* its own instance: the caches implement Tokenizing.
Implements == Promise!Spec
=============================================================================
