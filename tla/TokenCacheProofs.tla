-------------------------- MODULE TokenCacheProofs --------------------------
(***************************************************************************)
(* Proofs about TokenCache, for any number of threads, instances, shards   *)
(* and pretokens and any cache load bounds.                                *)
(***************************************************************************)
EXTENDS TokenCache, SequenceTheorems, FiniteSetTheorems, TLAPS

(***************************************************************************)
(* Lemmas about the cache operators.                                       *)
(***************************************************************************)

\* Clearing gives a cache that is tagged as asked and coherent with anything.
LEMMA ClearedOK ==
  ASSUME NEW id \in Nat, NEW p, NEW v
  PROVE  /\ Cleared(id) \in Caches
         /\ Cleared(id).bpe_id = id
         /\ \A k \in Keys : Cleared(id).map[k] = None
         /\ Coherent(Cleared(id), p, v)
BY DEF Cleared, Caches, Coherent

\* Claiming a cache for an instance keeps it coherent if it was tagged with that
\* instance, and makes it so if it was not.
LEMMA ClaimOK ==
  ASSUME NEW c \in Caches, NEW b \in Nat, NEW p, NEW v,
         c.bpe_id = b => Coherent(c, p, v)
  PROVE  /\ Claim(c, b) \in Caches
         /\ Claim(c, b).bpe_id = b
         /\ Coherent(Claim(c, b), p, v)
BY ClearedOK DEF Claim

\* Inserting the right ids of a tokenizable pretoken keeps a cache coherent,
\* whether or not the load check clears it and the entry fits.
LEMMA InsertOK ==
  ASSUME NEW c \in Caches, NEW load, NEW k \in Keys, NEW p \in Paths,
         NEW v \in Vocabs, Coherent(c, p, v), ~ Fatal(p, v, k)
  PROVE  /\ Insert(c, load, k, Ids(p, v, k)) \in Caches
         /\ Insert(c, load, k, Ids(p, v, k)).bpe_id = c.bpe_id
         /\ Coherent(Insert(c, load, k, Ids(p, v, k)), p, v)
<1> DEFINE base == IF Count(c) >= load THEN Cleared(c.bpe_id) ELSE c
           ids == Ids(p, v, k)
<1>1. c.bpe_id \in Nat
  BY DEF Caches
<1>2. base \in Caches /\ base.bpe_id = c.bpe_id /\ Coherent(base, p, v)
  BY <1>1, ClearedOK
<1>3. ids \in Results
  BY DEF Ids, Results
<1> HIDE DEF base, ids
<1>4. CASE k \in Long
  <2>1. Insert(c, load, k, ids) = base
    BY <1>4 DEF Insert, base
  <2> QED BY <2>1, <1>2 DEF ids
<1>5. CASE k \notin Long
  <2> DEFINE new == [bpe_id |-> base.bpe_id,
                     map |-> [base.map EXCEPT ![k] = ids],
                     pool |-> base.pool + 1]
  <2>1. Insert(c, load, k, ids) = new
    BY <1>5 DEF Insert, base
  <2>2. [base.map EXCEPT ![k] = ids] \in [Keys -> Results \cup {None}]
    BY <1>2, <1>3 DEF Caches
  <2>5. new \in Caches /\ new.bpe_id = base.bpe_id
    BY <1>2, <2>2 DEF Caches
  <2>3. \A kk \in Keys : new.map[kk] = IF kk = k THEN ids ELSE base.map[kk]
    BY <1>2 DEF Caches
  <2>4. Coherent(new, p, v)
    BY <1>2, <2>3 DEF Coherent, ids
  <2> QED BY <2>1, <2>5, <2>4, <1>2 DEF ids
<1> QED BY <1>4, <1>5

(***************************************************************************)
(* The inductive invariant.                                                *)
(***************************************************************************)

LEMMA NotIdle ==
  ASSUME IInv, NEW c \in Calls
  PROVE  c # Idle
BY TokenCacheAssumption DEF IInv, TypeOK, Calls

LEMMA InitIInv == Init => IInv
<1> SUFFICES ASSUME Init PROVE IInv
  OBVIOUS
<1>1. TypeOK
  BY ClearedOK DEF Init, TypeOK, NoBpe
<1>2. LocalCoherent
  BY ClearedOK DEF Init, LocalCoherent, Tagged, NoBpe
<1>3. SharedCoherent
  BY DEF Init, SharedCoherent
<1>4. CallCoherent
  BY DEF Init, CallCoherent
<1> QED BY <1>1, <1>2, <1>3, <1>4 DEF IInv

\* A step of one thread that touches its own call and its own caches only.
LEMMA ThreadStep ==
  ASSUME IInv, NEW t \in Threads, UNCHANGED <<vocab, shared>>,
         NEW c \in Calls \cup {Idle}, call' = [call EXCEPT ![t] = c],
         NEW lc \in [Paths -> Caches], local' = [local EXCEPT ![t] = lc],
         \A p \in Paths : Tagged(lc[p], p),
         c # Idle => Progressing(t)'
  PROVE  IInv'
<1>1. TypeOK'
  BY DEF IInv, TypeOK, Calls
<1>2. LocalCoherent'
  <2> SUFFICES ASSUME NEW u \in Threads, NEW p \in Paths
               PROVE  Tagged(local[u][p], p)'
    BY DEF LocalCoherent
  <2>1. local'[u][p] = IF u = t THEN lc[p] ELSE local[u][p]
    BY DEF IInv, TypeOK
  <2>2. Tagged(IF u = t THEN lc[p] ELSE local[u][p], p)
    BY DEF IInv, LocalCoherent
  <2> QED BY <2>1, <2>2 DEF Tagged
<1>3. SharedCoherent'
  BY DEF IInv, SharedCoherent
<1>4. CallCoherent'
  <2> SUFFICES ASSUME NEW u \in Threads, call'[u] # Idle
               PROVE  Progressing(u)'
    BY DEF CallCoherent
  <2>1. CASE u = t
    BY <2>1 DEF IInv, TypeOK
  <2>2. CASE u # t
    <3>1. call'[u] = call[u] /\ local'[u] = local[u]
      BY <2>2 DEF IInv, TypeOK
    <3>2. Progressing(u)
      BY <3>1 DEF IInv, CallCoherent
    <3> QED BY <3>1, <3>2 DEF Progressing
  <2> QED BY <2>1, <2>2
<1> QED BY <1>1, <1>2, <1>3, <1>4 DEF IInv

\* What the invariant says of a thread that is in a call.
LEMMA InCall ==
  ASSUME IInv, NEW t \in Threads, call[t] # Idle
  PROVE  /\ call[t] \in Calls
         /\ Progressing(t)
         /\ call[t].bpe \in 1..Len(vocab) /\ call[t].bpe # NoBpe
         /\ vocab[call[t].bpe] \in Vocabs
         /\ call[t].path \in Paths
         /\ local[t] \in [Paths -> Caches]
         /\ \A p \in Paths : Tagged(local[t][p], p)
<1>1. call[t] \in Calls
  BY DEF IInv, TypeOK
<1>2. call[t].bpe \in 1..Len(vocab) /\ vocab \in Seq(Vocabs)
  BY <1>1 DEF IInv, TypeOK, Calls
<1>3. call[t].bpe # NoBpe /\ vocab[call[t].bpe] \in Vocabs
  BY <1>2 DEF NoBpe
<1>4. Progressing(t) /\ local[t] \in [Paths -> Caches] /\ call[t].path \in Paths
  BY <1>1 DEF IInv, CallCoherent, TypeOK, Calls
<1>5. \A p \in Paths : Tagged(local[t][p], p)
  BY DEF IInv, LocalCoherent
<1> QED BY <1>1, <1>2, <1>3, <1>4, <1>5

\* The pretoken a call is about to answer.
LEMMA KeyOK ==
  ASSUME IInv, NEW t \in Threads, call[t] # Idle,
         call[t].stage \in {"lookup", "shared", "merge"}
  PROVE  /\ Key(call[t]) \in Keys
         /\ Key(call[t]) = call[t].keys[Len(call[t].out) + 1]
         /\ Len(call[t].out) \in Nat
         /\ Len(call[t].out) + 1 \in 1..Len(call[t].keys)
<1>1. Len(call[t].out) < Len(call[t].keys) /\ call[t].keys \in Seq(Keys)
      /\ call[t].out \in Seq(Results)
  BY InCall DEF Progressing, InProgress, Calls
<1> QED BY <1>1 DEF Key

\* Answering the current pretoken with the ids of its own vocabulary.
LEMMA PushStep ==
  ASSUME IInv, NEW t \in Threads, call[t] # Idle,
         call[t].stage \in {"lookup", "shared", "merge"},
         ~ Fatal(call[t].path, vocab[call[t].bpe], Key(call[t])),
         UNCHANGED <<vocab, shared>>,
         NEW lc \in [Paths -> Caches], local' = [local EXCEPT ![t] = lc],
         \A p \in Paths : Tagged(lc[p], p),
         call[t].batch => lc["fused"].bpe_id = call[t].bpe,
         Push(t, Val(call[t], Key(call[t])))
  PROVE  IInv' /\ call'[t] # Idle
<1> DEFINE c   == call[t]
           v   == vocab[c.bpe]
           k   == Key(c)
           ids == Val(c, k)
           out == Append(c.out, ids)
           n   == Len(c.out) + 1
           new == [c EXCEPT !.out = out, !.stage = After(c, n)]
<1>1. c \in Calls /\ Progressing(t) /\ v \in Vocabs /\ c.path \in Paths
  BY InCall
<1>2. k \in Keys /\ n \in 1..Len(c.keys) /\ k = c.keys[n]
  BY KeyOK
<1>3. ids \in Results
  BY <1>1, <1>2 DEF Val, Ids, Results
<1>4. out \in Seq(Results) /\ Len(out) = n
      /\ \A i \in 1..n : out[i] = IF i = n THEN ids ELSE c.out[i]
  BY <1>1, <1>3 DEF Calls
<1>5. new \in Calls
  BY <1>1, <1>4 DEF Calls, After, Stages
<1>6. call' = [call EXCEPT ![t] = new]
  BY DEF Push
<1>7. /\ new.path = c.path /\ new.bpe = c.bpe /\ new.keys = c.keys
      /\ new.batch = c.batch /\ new.out = out /\ new.stage = After(c, n)
  BY <1>1 DEF Calls
<1>8. call'[t] = new /\ local'[t] = lc
  BY <1>6 DEF IInv, TypeOK
<1>9. InProgress(new, v, lc["fused"].bpe_id)
  <2>1. c.keys \in Seq(Keys) /\ c.batch \in BOOLEAN
    BY <1>1 DEF Calls
  <2>2. \A i \in 1..n : /\ out[i] = Ids(c.path, v, c.keys[i])
                        /\ ~ Fatal(c.path, v, c.keys[i])
    <3> SUFFICES ASSUME NEW i \in 1..n
                 PROVE  /\ out[i] = Ids(c.path, v, c.keys[i])
                        /\ ~ Fatal(c.path, v, c.keys[i])
      OBVIOUS
    <3>1. CASE i = n
      BY <3>1, <1>2, <1>4 DEF Val
    <3>2. CASE i # n
      <4>1. i \in 1..Len(c.out)
        BY <3>2, <1>1 DEF Calls
      <4> QED BY <4>1, <3>2, <1>1, <1>4 DEF Progressing, InProgress
    <3> QED BY <3>1, <3>2
  <2>3. CASE n = Len(c.keys)
    <3>1. new.stage = "done"
      BY <2>3, <1>7 DEF After
    <3> HIDE DEF new, out, ids, k
    <3> QED
      BY <3>1, <2>1, <2>2, <2>3, <1>1, <1>2, <1>4, <1>7
      DEF Progressing, InProgress
  <2>4. CASE n # Len(c.keys)
    <3>1. new.stage = "lookup" /\ n < Len(c.keys) /\ c.path # "encoded"
      BY <2>1, <2>4, <1>1, <1>2, <1>7 DEF After, Progressing, InProgress
    <3> HIDE DEF new, out, ids, k
    <3> QED
      BY <3>1, <2>1, <2>2, <1>1, <1>2, <1>4, <1>7
      DEF Progressing, InProgress
  <2> QED BY <2>3, <2>4
<1>10. Progressing(t)'
  BY <1>7, <1>8, <1>9 DEF Progressing
<1> HIDE DEF new
<1> QED BY <1>5, <1>8, <1>6, <1>10, ThreadStep, NotIdle

\* A step that leaves the caches alone and only moves a call to another stage.
LEMMA StageStep ==
  ASSUME IInv, NEW t \in Threads, call[t] # Idle, NEW s \in Stages,
         UNCHANGED <<vocab, shared, local>>,
         call' = [call EXCEPT ![t].stage = s],
         InProgress([call[t] EXCEPT !.stage = s], vocab[call[t].bpe],
                    local[t]["fused"].bpe_id)
  PROVE  IInv' /\ call'[t] # Idle
<1> DEFINE new == [call[t] EXCEPT !.stage = s]
<1>1. call[t] \in Calls /\ local[t] \in [Paths -> Caches]
      /\ \A p \in Paths : Tagged(local[t][p], p)
  BY InCall
<1>2. new \in Calls /\ new.bpe = call[t].bpe
  BY <1>1 DEF Calls
<1>3. call' = [call EXCEPT ![t] = new] /\ call'[t] = new
  BY DEF IInv, TypeOK
<1>4. local' = [local EXCEPT ![t] = local[t]]
  BY DEF IInv, TypeOK
<1>5. Progressing(t)'
  BY <1>2, <1>3 DEF Progressing
<1> HIDE DEF new
<1> QED BY <1>1, <1>2, <1>3, <1>4, <1>5, ThreadStep, NotIdle

\* The insertion of the current pretoken in the thread's own cache.
LEMMA FillOK ==
  ASSUME IInv, NEW t \in Threads, call[t] # Idle, NEW k \in Keys,
         ~ Fatal(call[t].path, vocab[call[t].bpe], k),
         Store(t, Insert(Claim(Mine(t), call[t].bpe), LocalLoad, k,
                         Val(call[t], k)))
  PROVE  \E lc \in [Paths -> Caches] :
           /\ local' = [local EXCEPT ![t] = lc]
           /\ \A p \in Paths : Tagged(lc[p], p)
           /\ call[t].batch => lc["fused"].bpe_id = call[t].bpe
<1> DEFINE c  == call[t]
           v  == vocab[c.bpe]
           d  == Insert(Claim(Mine(t), c.bpe), LocalLoad, k, Val(c, k))
           lc == [local[t] EXCEPT ![c.path] = d]
<1>1. /\ c \in Calls /\ Progressing(t) /\ v \in Vocabs /\ c.path \in Paths
      /\ local[t] \in [Paths -> Caches] /\ c.bpe \in 1..Len(vocab)
      /\ c.bpe # NoBpe /\ \A p \in Paths : Tagged(local[t][p], p)
  BY InCall
<1>2. c.bpe \in Nat
  BY <1>1 DEF IInv, TypeOK
<1>3. Mine(t) \in Caches /\ (Mine(t).bpe_id = c.bpe => Coherent(Mine(t), c.path, v))
  BY <1>1 DEF Mine, Tagged
<1>4. /\ Claim(Mine(t), c.bpe) \in Caches
      /\ Claim(Mine(t), c.bpe).bpe_id = c.bpe
      /\ Coherent(Claim(Mine(t), c.bpe), c.path, v)
  BY <1>2, <1>3, ClaimOK
<1>5. d \in Caches /\ d.bpe_id = c.bpe /\ Coherent(d, c.path, v)
  BY <1>1, <1>4, InsertOK DEF Val
<1>6. Tagged(d, c.path)
  BY <1>1, <1>5 DEF Tagged
<1> HIDE DEF d
<1>7. lc \in [Paths -> Caches] /\ \A p \in Paths : Tagged(lc[p], p)
  BY <1>1, <1>5, <1>6
<1>8. local' = [local EXCEPT ![t] = lc]
  BY DEF Store, d
<1>9. c.batch => lc["fused"].bpe_id = c.bpe
  BY <1>1, <1>5 DEF Progressing, InProgress
<1> QED BY <1>7, <1>8, <1>9

(***************************************************************************)
(* One lemma per action.                                                   *)
(***************************************************************************)

LEMMA NewInstance ==
  ASSUME IInv, NEW v \in Vocabs,
         vocab' = Append(vocab, v), shared' = Append(shared, FreshShards),
         UNCHANGED <<local, call>>
  PROVE  IInv'
<1>1. vocab \in Seq(Vocabs) /\ shared \in Seq([Paths -> [Shards -> Caches]])
      /\ Len(shared) = Len(vocab)
  BY DEF IInv, TypeOK
<1>2. /\ FreshShards \in [Paths -> [Shards -> Caches]]
      /\ \A p \in Paths, s \in Shards : Coherent(FreshShards[p][s], p, v)
  BY ClearedOK DEF FreshShards, NoBpe
<1>3. /\ Len(vocab') = Len(vocab) + 1 /\ Len(shared') = Len(shared) + 1
      /\ vocab' \in Seq(Vocabs) /\ shared' \in Seq([Paths -> [Shards -> Caches]])
      /\ \A b \in 1..Len(vocab) : vocab'[b] = vocab[b] /\ shared'[b] = shared[b]
      /\ vocab'[Len(vocab) + 1] = v /\ shared'[Len(vocab) + 1] = FreshShards
  BY <1>1, <1>2
<1>4. Len(vocab) \in Nat
  BY <1>1
<1>5. TypeOK'
  BY <1>1, <1>3, <1>4 DEF IInv, TypeOK, Calls
<1>6. LocalCoherent'
  BY <1>3, <1>4 DEF IInv, LocalCoherent, Tagged
<1>7. SharedCoherent'
  <2> SUFFICES ASSUME NEW b \in 1..Len(vocab'), NEW p \in Paths, NEW s \in Shards
               PROVE  Coherent(shared'[b][p][s], p, vocab'[b])
    BY DEF SharedCoherent
  <2>1. CASE b = Len(vocab) + 1
    BY <2>1, <1>2, <1>3
  <2>2. CASE b # Len(vocab) + 1
    <3>1. b \in 1..Len(vocab)
      BY <2>2, <1>3, <1>4
    <3> QED BY <3>1, <1>3 DEF IInv, SharedCoherent
  <2> QED BY <2>1, <2>2
<1>8. CallCoherent'
  <2> SUFFICES ASSUME NEW t \in Threads, call[t] # Idle
               PROVE  Progressing(t)'
    BY DEF CallCoherent
  <2>1. Progressing(t) /\ call[t].bpe \in 1..Len(vocab)
    BY InCall
  <2> QED BY <2>1, <1>3 DEF Progressing
<1> QED BY <1>5, <1>6, <1>7, <1>8 DEF IInv

LEMMA CallStep ==
  ASSUME IInv, NEW t \in Threads, UNCHANGED <<vocab, shared>>,
         NEW r \in Calls, call' = [call EXCEPT ![t] = r],
         NEW lc \in [Paths -> Caches], local' = [local EXCEPT ![t] = lc],
         \A q \in Paths : Tagged(lc[q], q),
         InProgress(r, vocab[r.bpe], lc["fused"].bpe_id)
  PROVE  IInv' /\ call'[t] # Idle
<1>1. call'[t] = r /\ local'[t] = lc
  BY DEF IInv, TypeOK
<1>2. Progressing(t)'
  BY <1>1 DEF Progressing
<1> QED BY <1>1, <1>2, ThreadStep, NotIdle

LEMMA BeginOneStep ==
  ASSUME IInv, NEW t \in Threads, NEW p \in Paths, NEW b \in 1..Len(vocab),
         NEW keys \in Batches, BeginOne(t, p, b, keys)
  PROVE  IInv' /\ call'[t] # Idle
<1>1. /\ local[t] \in [Paths -> Caches] /\ local' = [local EXCEPT ![t] = local[t]]
      /\ \A q \in Paths : Tagged(local[t][q], q)
      /\ vocab[b] \in Vocabs /\ keys \in Seq(Keys)
  BY TokenizingAssumption DEF IInv, TypeOK, LocalCoherent, BeginOne
<1> DEFINE new(out, stage) ==
             [path |-> p, bpe |-> b, keys |-> keys, batch |-> FALSE,
              out |-> out, stage |-> stage]
<1>2. /\ Len(keys) <= 1 /\ UNCHANGED <<vocab, shared>>
      /\ call' = [call EXCEPT ![t] =
           IF keys = <<>> THEN new(<<>>, "done")
           ELSE IF p = "encoded" /\ keys[1] \in Shortcut[vocab[b]]
           THEN new(<<Ids(p, vocab[b], keys[1])>>, "done")
           ELSE new(<<>>, "lookup")]
  BY DEF BeginOne
<1>8. Len(keys) <= 1
  BY DEF BeginOne
<1>3. SUFFICES ASSUME NEW r, call' = [call EXCEPT ![t] = r],
                      \/ keys = <<>> /\ r = new(<<>>, "done")
                      \/ /\ keys # <<>> /\ p = "encoded"
                         /\ keys[1] \in Shortcut[vocab[b]]
                         /\ r = new(<<Ids(p, vocab[b], keys[1])>>, "done")
                      \/ /\ keys # <<>>
                         /\ p = "encoded" => keys[1] \notin Shortcut[vocab[b]]
                         /\ r = new(<<>>, "lookup")
               PROVE  r \in Calls /\ InProgress(r, vocab[b], local[t]["fused"].bpe_id)
                      /\ r.bpe = b
  BY <1>1, <1>2, CallStep
<1>7. keys # <<>> => Len(keys) = 1
  <2> SUFFICES ASSUME keys # <<>> PROVE Len(keys) = 1
    OBVIOUS
  <2>1. Len(keys) \in Nat /\ Len(keys) # 0
    BY <1>1, EmptySeq
  <2> DEFINE n == Len(keys)
  <2>2. n \in Nat /\ n # 0 /\ n <= 1
    BY <2>1, <1>8
  <2> HIDE DEF n
  <2>3. n = 1
    BY <2>2
  <2> QED BY <2>3 DEF n
<1>4. CASE keys = <<>> /\ r = new(<<>>, "done")
  BY <1>1, <1>4 DEF Calls, Stages, InProgress
<1>5. CASE /\ keys # <<>> /\ p = "encoded" /\ keys[1] \in Shortcut[vocab[b]]
           /\ r = new(<<Ids(p, vocab[b], keys[1])>>, "done")
  <2> DEFINE ids == Ids(p, vocab[b], keys[1])
  <2>1. Len(keys) = 1 /\ keys[1] \in Keys
    BY <1>1, <1>2, <1>5, EmptySeq
  <2>2. ids \in Results
    BY <1>1, <2>1 DEF Ids, Results
  <2>3. ~ Fatal(p, vocab[b], keys[1])
    BY <1>5 DEF Fatal, Known
  <2>4. /\ r.path = p /\ r.bpe = b /\ r.keys = keys /\ r.batch = FALSE
        /\ r.out = <<ids>> /\ r.stage = "done" /\ r \in Calls
    BY <2>2, <1>1, <1>5 DEF Calls, Stages
  <2>5. Len(r.out) = 1 /\ r.out[1] = Ids(p, vocab[b], keys[1])
    BY <2>4
  <2>6. \A i \in 1..Len(r.out) : /\ r.out[i] = Ids(r.path, vocab[b], r.keys[i])
                                 /\ ~ Fatal(r.path, vocab[b], r.keys[i])
    BY <2>3, <2>4, <2>5
  <2>8. Len(r.keys) = 1
    BY <2>1, <2>4
  <2>7. InProgress(r, vocab[b], local[t]["fused"].bpe_id)
    BY <2>8, <2>4, <2>5, <2>6 DEF InProgress
  <2> QED BY <2>4, <2>7
<1>6. CASE /\ keys # <<>> /\ r = new(<<>>, "lookup")
           /\ p = "encoded" => keys[1] \notin Shortcut[vocab[b]]
  <2>1. Len(keys) = 1
    BY <1>6, <1>7
  <2>2. /\ r.path = p /\ r.bpe = b /\ r.keys = keys /\ r.batch = FALSE
        /\ r.out = <<>> /\ r.stage = "lookup" /\ r \in Calls
    BY <1>1, <1>6 DEF Calls, Stages
  <2>3. Key(r) = keys[1]
    BY <2>2 DEF Key
  <2>5. Len(r.out) = 0 /\ Len(r.keys) = 1
    BY <2>1, <2>2
  <2>4. InProgress(r, vocab[b], local[t]["fused"].bpe_id)
    BY <2>2, <2>3, <2>5, <1>6 DEF InProgress
  <2> QED BY <2>2, <2>4
<1> QED BY <1>3, <1>4, <1>5, <1>6

LEMMA BeginBatchStep ==
  ASSUME IInv, NEW t \in Threads, NEW b \in 1..Len(vocab),
         NEW keys \in Batches, BeginBatch(t, b, keys)
  PROVE  IInv' /\ call'[t] # Idle
<1> DEFINE lc == [local[t] EXCEPT !["fused"] = Claim(@, b)]
           stage == IF keys = <<>> THEN "done" ELSE "lookup"
<1>1. /\ local[t] \in [Paths -> Caches] /\ "fused" \in Paths
      /\ \A q \in Paths : Tagged(local[t][q], q)
      /\ keys \in Seq(Keys) /\ b \in Nat /\ b # NoBpe
  BY TokenizingAssumption DEF IInv, TypeOK, LocalCoherent, BeginBatch, NoBpe
<1>2. /\ Claim(local[t]["fused"], b) \in Caches
      /\ Claim(local[t]["fused"], b).bpe_id = b
      /\ Coherent(Claim(local[t]["fused"], b), "fused", vocab[b])
  BY <1>1, ClaimOK DEF Tagged
<1>3. /\ lc \in [Paths -> Caches] /\ lc["fused"].bpe_id = b
      /\ \A q \in Paths : Tagged(lc[q], q)
  BY <1>1, <1>2 DEF Tagged
<1>4. local' = [local EXCEPT ![t] = lc] /\ UNCHANGED <<vocab, shared>>
  BY DEF BeginBatch
<1> DEFINE r == [path |-> "fused", bpe |-> b, keys |-> keys, batch |-> TRUE,
                 out |-> <<>>, stage |-> stage]
<1>5. call' = [call EXCEPT ![t] = r]
  BY DEF BeginBatch
<1>6. r \in Calls /\ r.bpe = b
  BY <1>1 DEF Calls, Stages
<1>7. InProgress(r, vocab[b], lc["fused"].bpe_id)
  <2>1. Len(keys) \in Nat /\ (keys # <<>> => Len(keys) > 0)
    BY <1>1, EmptySeq
  <2> QED BY <2>1, <1>1, <1>3 DEF InProgress
<1> HIDE DEF lc, r
<1> QED BY <1>3, <1>4, <1>5, <1>6, <1>7, CallStep

LEMMA PassReadyStep ==
  ASSUME IInv, NEW t \in Threads, PassReady(t)
  PROVE  IInv' /\ call'[t] # Idle
<1>1. /\ call[t] # Idle /\ call[t].stage = "lookup" /\ Key(call[t]) \in Ready
      /\ Push(t, Val(call[t], Key(call[t]))) /\ UNCHANGED <<vocab, local, shared>>
  BY DEF PassReady, In
<1>2. ~ Fatal(call[t].path, vocab[call[t].bpe], Key(call[t]))
  BY <1>1 DEF Fatal, Known
<1>3. /\ local[t] \in [Paths -> Caches] /\ local' = [local EXCEPT ![t] = local[t]]
      /\ \A p \in Paths : Tagged(local[t][p], p)
      /\ call[t].batch => local[t]["fused"].bpe_id = call[t].bpe
  BY <1>1, InCall DEF IInv, TypeOK, Progressing, InProgress
<1> QED BY <1>1, <1>2, <1>3, PushStep

LEMMA LookupLocalStep ==
  ASSUME IInv, NEW t \in Threads, LookupLocal(t)
  PROVE  IInv' /\ call'[t] # Idle
<1> DEFINE c   == call[t]
           k   == Key(c)
           v   == vocab[c.bpe]
           hit == /\ Mine(t).map[k] # None
                  /\ c.batch \/ Mine(t).bpe_id = c.bpe
<1>1. /\ c # Idle /\ c.stage = "lookup" /\ k \notin Ready
      /\ UNCHANGED <<vocab, local, shared>>
      /\ hit => Push(t, Mine(t).map[k])
      /\ ~ hit => call' = [call EXCEPT ![t].stage = "shared"]
  BY DEF LookupLocal, In
<1>2. /\ c \in Calls /\ Progressing(t) /\ v \in Vocabs /\ c.path \in Paths
      /\ local[t] \in [Paths -> Caches] /\ c.bpe # NoBpe
      /\ \A p \in Paths : Tagged(local[t][p], p)
  BY <1>1, InCall
<1>3. k \in Keys
  BY <1>1, KeyOK
<1>4. CASE hit
  <2>1. Mine(t).bpe_id = c.bpe
    BY <1>2, <1>4 DEF Progressing, InProgress, Mine
  <2>2. Coherent(Mine(t), c.path, v)
    BY <2>1, <1>2 DEF Tagged, Mine
  <2>3. Mine(t).map[k] = Val(c, k) /\ ~ Fatal(c.path, v, k)
    BY <2>2, <1>3, <1>4 DEF Coherent, Val
  <2>4. /\ local' = [local EXCEPT ![t] = local[t]]
        /\ c.batch => local[t]["fused"].bpe_id = c.bpe
    BY <1>1, <1>2 DEF IInv, TypeOK, Progressing, InProgress
  <2>5. Push(t, Val(c, k))
    BY <1>1, <1>4, <2>3
  <2> QED BY <1>1, <1>2, <2>3, <2>4, <2>5, PushStep
<1>5. CASE ~ hit
  <2> DEFINE new == [c EXCEPT !.stage = "shared"]
  <2>1. /\ new.path = c.path /\ new.bpe = c.bpe /\ new.keys = c.keys
        /\ new.batch = c.batch /\ new.out = c.out /\ new.stage = "shared"
    BY <1>2 DEF Calls
  <2>2. Key(new) = k
    BY <2>1 DEF Key
  <2>3. InProgress(new, v, local[t]["fused"].bpe_id)
    BY <1>1, <1>2, <2>1, <2>2 DEF Progressing, InProgress
  <2>4. "shared" \in Stages
    BY DEF Stages
  <2> QED BY <1>1, <1>5, <2>3, <2>4, StageStep
<1> QED BY <1>4, <1>5

LEMMA LookupSharedStep ==
  ASSUME IInv, NEW t \in Threads, LookupShared(t)
  PROVE  IInv' /\ call'[t] # Idle
<1> DEFINE c   == call[t]
           k   == Key(c)
           v   == vocab[c.bpe]
           ids == Shard(t, k).map[k]
<1>1. /\ c # Idle /\ c.stage = "shared" /\ UNCHANGED <<vocab, shared>>
      /\ ids = None => call' = [call EXCEPT ![t].stage = "merge"] /\ UNCHANGED local
      /\ ids # None => /\ Store(t, Insert(Claim(Mine(t), c.bpe), LocalLoad, k, ids))
                       /\ Push(t, ids)
  BY DEF LookupShared, In
<1>2. /\ c \in Calls /\ Progressing(t) /\ c.bpe \in 1..Len(vocab)
      /\ c.path \in Paths
  BY <1>1, InCall
<1>3. k \in Keys /\ ShardOf[k] \in Shards
  BY <1>1, KeyOK, TokenCacheAssumption
<1>4. CASE ids = None
  <2> DEFINE new == [c EXCEPT !.stage = "merge"]
  <2>1. /\ new.path = c.path /\ new.bpe = c.bpe /\ new.keys = c.keys
        /\ new.batch = c.batch /\ new.out = c.out /\ new.stage = "merge"
    BY <1>2 DEF Calls
  <2>2. Key(new) = k
    BY <2>1 DEF Key
  <2>3. InProgress(new, v, local[t]["fused"].bpe_id)
    BY <1>1, <1>2, <2>1, <2>2 DEF Progressing, InProgress
  <2>4. "merge" \in Stages
    BY DEF Stages
  <2> QED BY <1>1, <1>4, <2>3, <2>4, StageStep
<1>5. CASE ids # None
  <2>1. ids = Val(c, k) /\ ~ Fatal(c.path, v, k)
    BY <1>2, <1>3, <1>5 DEF IInv, SharedCoherent, Shard, Coherent, Val
  <2>2. Store(t, Insert(Claim(Mine(t), c.bpe), LocalLoad, k, Val(c, k)))
        /\ Push(t, Val(c, k))
    BY <1>1, <1>5, <2>1
  <2>3. PICK lc \in [Paths -> Caches] :
          /\ local' = [local EXCEPT ![t] = lc]
          /\ \A p \in Paths : Tagged(lc[p], p)
          /\ c.batch => lc["fused"].bpe_id = c.bpe
    BY <1>1, <1>3, <2>1, <2>2, FillOK
  <2> QED BY <1>1, <2>1, <2>2, <2>3, PushStep
<1> QED BY <1>4, <1>5

LEMMA MatchWholeStep ==
  ASSUME IInv, NEW t \in Threads, MatchWhole(t)
  PROVE  IInv' /\ call'[t] # Idle
<1> DEFINE c == call[t]
           k == Key(c)
           v == vocab[c.bpe]
<1>1. /\ c # Idle /\ c.stage = "merge" /\ c.path = "fused" /\ k \in Whole[v]
      /\ UNCHANGED <<vocab, shared>> /\ Push(t, Val(c, k))
      /\ c.batch => Store(t, Insert(Mine(t), LocalLoad, k, Val(c, k)))
      /\ ~ c.batch => UNCHANGED local
  BY DEF MatchWhole, In
<1>2. /\ c \in Calls /\ Progressing(t) /\ local[t] \in [Paths -> Caches]
      /\ \A p \in Paths : Tagged(local[t][p], p)
  BY <1>1, InCall
<1>3. k \in Keys
  BY <1>1, KeyOK
<1>4. ~ Fatal(c.path, v, k)
  BY <1>1 DEF Fatal, Known
<1>5. CASE c.batch
  <2>1. Claim(Mine(t), c.bpe) = Mine(t)
    BY <1>1, <1>2, <1>5 DEF Progressing, InProgress, Mine, Claim
  <2>2. PICK lc \in [Paths -> Caches] :
          /\ local' = [local EXCEPT ![t] = lc]
          /\ \A p \in Paths : Tagged(lc[p], p)
          /\ c.batch => lc["fused"].bpe_id = c.bpe
    BY <1>1, <1>3, <1>4, <1>5, <2>1, FillOK
  <2> QED BY <1>1, <1>4, <2>2, PushStep
<1>6. CASE ~ c.batch
  <2>1. local' = [local EXCEPT ![t] = local[t]]
    BY <1>1, <1>6 DEF IInv, TypeOK
  <2> QED BY <1>1, <1>2, <1>4, <1>6, <2>1, PushStep
<1> QED BY <1>5, <1>6

LEMMA MergeStep ==
  ASSUME IInv, NEW t \in Threads, Merge(t)
  PROVE  IInv' /\ call'[t] # Idle
<1> DEFINE c   == call[t]
           k   == Key(c)
           v   == vocab[c.bpe]
           ids == Val(c, k)
           n   == Len(c.out) + 1
<1>1. /\ c # Idle /\ c.stage = "merge" /\ UNCHANGED <<vocab, shared>>
      /\ ~ (c.path = "fused" /\ k \in Whole[v])
      /\ k \in Fails[v] => /\ call' = [call EXCEPT ![t].stage = "failed"]
                          /\ UNCHANGED local
      /\ k \notin Fails[v] =>
           /\ call' = [call EXCEPT ![t].stage = "publish", ![t].out = Append(@, ids)]
           /\ Store(t, Insert(Claim(Mine(t), c.bpe), LocalLoad, k, ids))
  BY DEF Merge, In
<1>2. /\ c \in Calls /\ Progressing(t) /\ v \in Vocabs /\ c.path \in Paths
      /\ c.bpe \in 1..Len(vocab)
  BY <1>1, InCall
<1>3. /\ k \in Keys /\ k = c.keys[n] /\ n \in 1..Len(c.keys)
      /\ c.path \in {"encoded", "fused"}
  BY <1>1, <1>2, KeyOK, TokenizingAssumption
<1>4. CASE k \in Fails[v]
  <2> DEFINE new == [c EXCEPT !.stage = "failed"]
  <2>1. /\ new.path = c.path /\ new.bpe = c.bpe /\ new.keys = c.keys
        /\ new.batch = c.batch /\ new.out = c.out /\ new.stage = "failed"
    BY <1>2 DEF Calls
  <2>2. k \notin Ready /\ (c.path = "encoded" => k \notin Shortcut[v])
    BY <1>1, <1>2 DEF Progressing, InProgress
  <2>3. Fatal(c.path, v, k)
    BY <2>2, <1>1, <1>3, <1>4 DEF Fatal, Known
  <2>4. InProgress(new, v, local[t]["fused"].bpe_id)
    <3>1. \E i \in DOMAIN new.keys : Fatal(new.path, v, new.keys[i])
      <4>1. n \in DOMAIN new.keys
        BY <2>1, <1>2, <1>3 DEF Calls
      <4> QED BY <4>1, <2>1, <2>3, <1>3
    <3> HIDE DEF new
    <3> QED BY <3>1, <1>1, <1>2, <2>1 DEF Progressing, InProgress
  <2>5. "failed" \in Stages
    BY DEF Stages
  <2> QED BY <1>1, <1>4, <2>4, <2>5, StageStep
<1>5. CASE k \notin Fails[v]
  <2> DEFINE out == Append(c.out, ids)
             new == [c EXCEPT !.stage = "publish", !.out = out]
  <2>1. ~ Fatal(c.path, v, k)
    BY <1>5 DEF Fatal
  <2>2. PICK lc \in [Paths -> Caches] :
          /\ local' = [local EXCEPT ![t] = lc]
          /\ \A p \in Paths : Tagged(lc[p], p)
          /\ c.batch => lc["fused"].bpe_id = c.bpe
    BY <1>1, <1>3, <1>5, <2>1, FillOK
  <2>3. ids \in Results
    BY <1>2, <1>3 DEF Val, Ids, Results
  <2>10. c.out \in Seq(Results)
    BY <1>2 DEF Calls
  <2>4. out \in Seq(Results) /\ Len(out) = n /\ out # <<>>
        /\ \A i \in 1..n : out[i] = IF i = n THEN ids ELSE c.out[i]
    <3> HIDE DEF ids
    <3>1. out \in Seq(Results) /\ Len(out) = n
          /\ \A i \in 1..n : out[i] = IF i = n THEN ids ELSE c.out[i]
      BY <2>10, <2>3
    <3>2. Len(out) # 0
      BY <3>1, <2>10
    <3> QED BY <3>1, <3>2, EmptySeq
  <2>5. call' = [call EXCEPT ![t] = new] /\ new \in Calls
    <3>1. call' = [call EXCEPT ![t] = new]
      BY <1>1, <1>5
    <3> HIDE DEF out
    <3>2. new \in Calls
      BY <1>2, <2>4 DEF Calls, Stages
    <3> QED BY <3>1, <3>2
  <2>6. /\ new.path = c.path /\ new.bpe = c.bpe /\ new.keys = c.keys
        /\ new.batch = c.batch /\ new.out = out /\ new.stage = "publish"
    BY <1>2 DEF Calls
  <2>7. \A i \in 1..n : /\ out[i] = Ids(c.path, v, c.keys[i])
                        /\ ~ Fatal(c.path, v, c.keys[i])
    <3> SUFFICES ASSUME NEW i \in 1..n
                 PROVE  /\ out[i] = Ids(c.path, v, c.keys[i])
                        /\ ~ Fatal(c.path, v, c.keys[i])
      OBVIOUS
    <3>1. CASE i = n
      BY <3>1, <1>3, <2>1, <2>4 DEF Val
    <3>2. CASE i # n
      <4>1. i \in 1..Len(c.out)
        BY <3>2, <1>2 DEF Calls
      <4> QED BY <4>1, <3>2, <1>2, <2>4 DEF Progressing, InProgress
    <3> QED BY <3>1, <3>2
  <2>8. InProgress(new, v, lc["fused"].bpe_id)
    <3>1. n <= Len(c.keys) /\ c.batch \in BOOLEAN
      BY <1>2, <1>3 DEF Calls
    <3> HIDE DEF new, out, ids, k
    <3> QED
      BY <3>1, <1>2, <2>2, <2>4, <2>6, <2>7 DEF Progressing, InProgress
  <2> HIDE DEF new
  <2>9. vocab[new.bpe] = v
    BY <2>6
  <2> QED BY <1>1, <2>2, <2>5, <2>8, <2>9, CallStep
<1> QED BY <1>4, <1>5

LEMMA PublishStep ==
  ASSUME IInv, NEW t \in Threads, Publish(t)
  PROVE  IInv' /\ call'[t] # Idle
<1> DEFINE c   == call[t]
           n   == Len(c.out)
           k   == c.keys[n]
           v   == vocab[c.bpe]
           old == shared[c.bpe][c.path][ShardOf[k]]
           d   == Insert(old, SharedLoad, k, c.out[n])
           new == [c EXCEPT !.stage = After(c, n)]
<1>1. /\ c # Idle /\ c.stage = "publish" /\ UNCHANGED <<vocab, local>>
      /\ shared' = [shared EXCEPT ![c.bpe][c.path][ShardOf[k]] = d]
      /\ call' = [call EXCEPT ![t] = new]
  BY DEF Publish, In
<1>2. /\ c \in Calls /\ Progressing(t) /\ v \in Vocabs /\ c.path \in Paths
      /\ c.bpe \in 1..Len(vocab)
  BY <1>1, InCall
<1>3. n \in 1..Len(c.out) /\ n <= Len(c.keys) /\ c.keys \in Seq(Keys)
  <2>1. c.out \in Seq(Results) /\ c.keys \in Seq(Keys) /\ c.out # <<>>
        /\ Len(c.out) <= Len(c.keys)
    BY <1>1, <1>2 DEF Calls, Progressing, InProgress
  <2>2. n \in Nat /\ n # 0
    BY <2>1, EmptySeq
  <2> QED BY <2>1, <2>2
<1>4. /\ k \in Keys /\ c.out[n] = Ids(c.path, v, k) /\ ~ Fatal(c.path, v, k)
      /\ ShardOf[k] \in Shards
  BY <1>2, <1>3, TokenCacheAssumption DEF Progressing, InProgress
<1>5. /\ shared \in Seq([Paths -> [Shards -> Caches]]) /\ Len(shared) = Len(vocab)
      /\ vocab \in Seq(Vocabs)
  BY DEF IInv, TypeOK
<1>6. old \in Caches /\ Coherent(old, c.path, v)
  <2>1. shared[c.bpe] \in [Paths -> [Shards -> Caches]]
    BY <1>2, <1>5
  <2>2. old \in Caches
    BY <2>1, <1>2, <1>4
  <2>3. \A s \in Shards : Coherent(shared[c.bpe][c.path][s], c.path, v)
    BY <1>2 DEF IInv, SharedCoherent
  <2> QED BY <2>2, <2>3, <1>4
<1>7. d \in Caches /\ Coherent(d, c.path, v)
  BY <1>2, <1>4, <1>6, InsertOK
<1>8. new \in Calls
  BY <1>2 DEF Calls, After, Stages
<1> HIDE DEF d
<1>9. /\ shared' \in Seq([Paths -> [Shards -> Caches]]) /\ Len(shared') = Len(shared)
      /\ \A b \in 1..Len(vocab), p \in Paths, s \in Shards :
           shared'[b][p][s] = IF b = c.bpe /\ p = c.path /\ s = ShardOf[k]
                              THEN d ELSE shared[b][p][s]
  <2> DEFINE sd == ShardOf[k]
             sp == [shared[c.bpe][c.path] EXCEPT ![sd] = d]
             sb == [shared[c.bpe] EXCEPT ![c.path] = sp]
  <2>1. shared[c.bpe] \in [Paths -> [Shards -> Caches]] /\ c.bpe \in 1..Len(shared)
    BY <1>2, <1>5
  <2>2. sp \in [Shards -> Caches]
        /\ \A s \in Shards : sp[s] = IF s = sd THEN d ELSE shared[c.bpe][c.path][s]
    BY <2>1, <1>2, <1>4, <1>7
  <2>3. shared' = [shared EXCEPT ![c.bpe] = sb]
    BY <1>1
  <2> HIDE DEF sp, sd
  <2>4. sb \in [Paths -> [Shards -> Caches]]
        /\ \A p \in Paths : sb[p] = IF p = c.path THEN sp ELSE shared[c.bpe][p]
    BY <2>1, <2>2, <1>2
  <2> HIDE DEF sb
  <2>5. shared' \in Seq([Paths -> [Shards -> Caches]]) /\ Len(shared') = Len(shared)
        /\ \A b \in 1..Len(shared) : shared'[b] = IF b = c.bpe THEN sb ELSE shared[b]
    BY <2>1, <2>3, <2>4, <1>5
  <2>6. ASSUME NEW b \in 1..Len(vocab), NEW p \in Paths, NEW s \in Shards
        PROVE  shared'[b][p][s] = IF b = c.bpe /\ p = c.path /\ s = sd
                                  THEN d ELSE shared[b][p][s]
    <3>1. shared'[b] = IF b = c.bpe THEN sb ELSE shared[b]
      BY <2>5, <1>5
    <3>2. sb[p] = IF p = c.path THEN sp ELSE shared[c.bpe][p]
      BY <2>4
    <3>3. sp[s] = IF s = sd THEN d ELSE shared[c.bpe][c.path][s]
      BY <2>2
    <3> QED BY <3>1, <3>2, <3>3
  <2> QED BY <2>5, <2>6 DEF sd
<1>10. TypeOK'
  BY <1>1, <1>5, <1>8, <1>9 DEF IInv, TypeOK, Calls
<1>11. LocalCoherent'
  BY <1>1 DEF IInv, LocalCoherent, Tagged
<1>12. SharedCoherent'
  <2> SUFFICES ASSUME NEW b \in 1..Len(vocab), NEW p \in Paths, NEW s \in Shards
               PROVE  Coherent(shared'[b][p][s], p, vocab[b])
    <3>1. vocab' = vocab
      BY <1>1
    <3> HIDE DEF k, d
    <3> QED BY <3>1 DEF SharedCoherent
  <2>1. CASE b = c.bpe /\ p = c.path /\ s = ShardOf[k]
    BY <2>1, <1>7, <1>9
  <2>2. CASE ~ (b = c.bpe /\ p = c.path /\ s = ShardOf[k])
    <3>1. shared'[b][p][s] = shared[b][p][s]
      BY <2>2, <1>9
    <3> QED BY <3>1 DEF IInv, SharedCoherent
  <2> QED BY <2>1, <2>2
<1>13. CallCoherent'
  <2> SUFFICES ASSUME NEW u \in Threads, call'[u] # Idle
               PROVE  Progressing(u)'
    BY DEF CallCoherent
  <2>1. CASE u = t
    <3>1. /\ new.path = c.path /\ new.bpe = c.bpe /\ new.keys = c.keys
          /\ new.batch = c.batch /\ new.out = c.out /\ new.stage = After(c, n)
      BY <1>2 DEF Calls
    <3>2. InProgress(new, v, local[t]["fused"].bpe_id)
      <4>1. CASE n = Len(c.keys)
        BY <4>1, <3>1, <1>2 DEF After, Progressing, InProgress
      <4>2. CASE n # Len(c.keys)
        <5>1. new.stage = "lookup" /\ n < Len(c.keys) /\ c.path # "encoded"
          BY <4>2, <3>1, <1>2, <1>3 DEF After, Progressing, InProgress
        <5> HIDE DEF new
        <5> QED BY <5>1, <3>1, <1>2 DEF Progressing, InProgress
      <4> QED BY <4>1, <4>2
    <3>3. call'[t] = new
      BY <1>1 DEF IInv, TypeOK
    <3> QED BY <2>1, <3>1, <3>2, <3>3, <1>1 DEF Progressing
  <2>2. CASE u # t
    <3>1. call'[u] = call[u]
      BY <2>2, <1>1 DEF IInv, TypeOK
    <3>2. Progressing(u)
      BY <3>1 DEF IInv, CallCoherent
    <3> QED BY <3>1, <3>2, <1>1 DEF Progressing
  <2> QED BY <2>1, <2>2
<1>14. call'[t] # Idle
  BY <1>1, <1>8, NotIdle DEF IInv, TypeOK
<1> QED BY <1>10, <1>11, <1>12, <1>13, <1>14 DEF IInv

LEMMA FinishStep ==
  ASSUME IInv, NEW t \in Threads, Finish(t)
  PROVE  IInv'
<1>1. /\ UNCHANGED <<vocab, shared>> /\ call' = [call EXCEPT ![t] = Idle]
      /\ local[t] \in [Paths -> Caches] /\ local' = [local EXCEPT ![t] = local[t]]
      /\ \A p \in Paths : Tagged(local[t][p], p)
  BY DEF Finish, IInv, TypeOK, LocalCoherent
<1> QED BY <1>1, ThreadStep

(***************************************************************************)
(* The theorems.                                                           *)
(***************************************************************************)

LEMMA NextIInv == IInv /\ [Next]_vars => IInv'
<1> SUFFICES ASSUME IInv, [Next]_vars PROVE IInv'
  OBVIOUS
<1>1. ASSUME NEW v \in Vocabs, NewBpe(v) PROVE IInv'
  BY <1>1, NewInstance DEF NewBpe
<1>2. ASSUME NEW b \in 1..Len(vocab), CloneBpe(b) PROVE IInv'
  <2>1. vocab[b] \in Vocabs
    BY DEF IInv, TypeOK
  <2> QED BY <1>2, <2>1, NewInstance DEF CloneBpe
<1>3. ASSUME NEW t \in Threads, NEW p \in Paths, NEW b \in 1..Len(vocab),
             NEW keys \in Batches, BeginOne(t, p, b, keys)
      PROVE  IInv'
  BY <1>3, BeginOneStep
<1>4. ASSUME NEW t \in Threads, NEW b \in 1..Len(vocab), NEW keys \in Batches,
             BeginBatch(t, b, keys)
      PROVE  IInv'
  BY <1>4, BeginBatchStep
<1>5. ASSUME NEW t \in Threads, PassReady(t) PROVE IInv'
  BY <1>5, PassReadyStep
<1>6. ASSUME NEW t \in Threads, LookupLocal(t) PROVE IInv'
  BY <1>6, LookupLocalStep
<1>7. ASSUME NEW t \in Threads, LookupShared(t) PROVE IInv'
  BY <1>7, LookupSharedStep
<1>8. ASSUME NEW t \in Threads, MatchWhole(t) PROVE IInv'
  BY <1>8, MatchWholeStep
<1>9. ASSUME NEW t \in Threads, Merge(t) PROVE IInv'
  BY <1>9, MergeStep
<1>10. ASSUME NEW t \in Threads, Publish(t) PROVE IInv'
  BY <1>10, PublishStep
<1>11. ASSUME NEW t \in Threads, Finish(t) PROVE IInv'
  BY <1>11, FinishStep
<1>12. CASE UNCHANGED vars
  BY <1>12 DEF vars, IInv, TypeOK, Calls, LocalCoherent, Tagged, SharedCoherent,
               CallCoherent, Progressing
<1> QED
  BY <1>1, <1>2, <1>3, <1>4, <1>5, <1>6, <1>7, <1>8, <1>9, <1>10, <1>11, <1>12
  DEF Next

\* The inductive invariant of the two-level cache holds in every reachable state.
THEOREM Invariance == Spec => []IInv
<1>1. Init => IInv
  BY InitIInv
<1>2. IInv /\ [Next]_vars => IInv'
  BY NextIInv
<1> QED BY <1>1, <1>2, PTL DEF Spec

\* Whatever runs on a thread, its caches (TL_BPE_CACHE, TL_FUSED_CACHE) never
\* hold an answer of another instance than the one they are tagged with.
THEOREM LocalNeverContaminated == Spec => []LocalCoherent
<1>1. IInv => LocalCoherent
  BY DEF IInv
<1> QED BY <1>1, Invariance, PTL

\* Whichever threads race to fill them, the shards of an instance hold answers
\* of that instance only.
THEOREM SharedNeverContaminated == Spec => []SharedCoherent
<1>1. IInv => SharedCoherent
  BY DEF IInv
<1> QED BY <1>1, Invariance, PTL

\* A call in progress has answered a prefix of its pretokens with the ids of
\* its own instance, and fails only for a pretoken that cannot be tokenized.
THEOREM CallsCoherent == Spec => []CallCoherent
<1>1. IInv => CallCoherent
  BY DEF IInv
<1> QED BY <1>1, Invariance, PTL

(***************************************************************************)
(* TokenCache implements Tokenizing: every step of the two-level cache is  *)
(* a step of the specification without caches or a stutter of it.          *)
(***************************************************************************)

\* A finished call has collected the answer its vocabulary gives, and a failed
\* one has met a pretoken for which the specification demands the failure.
LEMMA Answered ==
  ASSUME NEW v, NEW tag, NEW c, c.keys \in Seq(Keys), c.out \in Seq(Results),
         InProgress(c, v, tag), c.stage \in {"done", "failed"}
  PROVE  AnswerOf(c) = Answer(c.path, v, c.keys)
<1>1. DOMAIN c.keys = 1..Len(c.keys)
  OBVIOUS
<1>2. CASE c.stage = "failed"
  BY <1>2 DEF InProgress, AnswerOf, Answer
<1>3. CASE c.stage = "done"
  <2>1. /\ Len(c.out) = Len(c.keys)
        /\ \A i \in 1..Len(c.keys) : /\ c.out[i] = Ids(c.path, v, c.keys[i])
                                     /\ ~ Fatal(c.path, v, c.keys[i])
    BY <1>3 DEF InProgress
  <2>2. c.out = [i \in 1..Len(c.keys) |-> c.out[i]]
    BY <2>1
  <2>3. c.out = [i \in 1..Len(c.keys) |-> Ids(c.path, v, c.keys[i])]
    BY <2>1, <2>2
  <2> QED BY <1>1, <1>3, <2>1, <2>3 DEF AnswerOf, Answer
<1> QED BY <1>2, <1>3

\* The operators Tokenizing takes from Pretokens are the ones used here.
LEMMA SameAnswer ==
  ASSUME NEW p, NEW v, NEW keys
  PROVE  Promise!Answer(p, v, keys) = Answer(p, v, keys)
BY DEF Answer, Fatal, Known, Ids,
       Promise!Answer, Promise!Fatal, Promise!Known, Promise!Ids

\* The caller's view of a call is a request, told apart from no call.
LEMMA RequestOK ==
  ASSUME IInv, NEW c \in Calls
  PROVE  /\ RequestOf(c) \in Requests
         /\ RequestOf(c) # Idle
         /\ RequestOf(c) = [path |-> c.path, bpe |-> c.bpe, keys |-> c.keys,
                            answer |-> AnswerOf(c)]
<1>1. c # Idle
  BY NotIdle
<1>2. AnswerOf(c) \in Seq(Results) \cup {Pending, Error}
  BY DEF AnswerOf, Calls
<1>3. c.path \in Paths /\ c.bpe \in Nat /\ c.keys \in Seq(Keys)
  BY DEF Calls, IInv, TypeOK
<1> QED BY <1>1, <1>2, <1>3, TokenizingAssumption DEF RequestOf, Requests

\* A step that takes a thread from no call to a fresh one.
LEMMA CallMaps ==
  ASSUME IInv, IInv', NEW t \in Threads, UNCHANGED vocab, NEW r,
         call[t] = Idle, call' = [call EXCEPT ![t] = r], r # Idle,
         r.stage \in {"lookup", "done"}
  PROVE  Promise!Call(t, r.path, r.bpe, r.keys)
<1> DEFINE bar == [u \in Threads |-> RequestOf(call[u])]
           a   == AnswerOf(r)
           req == [path |-> r.path, bpe |-> r.bpe, keys |-> r.keys, answer |-> a]
<1>1. call'[t] = r
  BY DEF IInv, TypeOK
<1>2. r \in Calls'
  BY <1>1 DEF IInv, TypeOK
<1>3. r \in Calls
  BY <1>2 DEF Calls
<1>4. InProgress(r, vocab[r.bpe], local'[t]["fused"].bpe_id)
  BY <1>1 DEF IInv, CallCoherent, Progressing
<1>5. a \in {Pending, Answer(r.path, vocab[r.bpe], r.keys)}
  <2>1. CASE r.stage = "lookup"
    BY <2>1 DEF AnswerOf
  <2>2. CASE r.stage = "done"
    BY <2>2, <1>3, <1>4, Answered DEF Calls
  <2> QED BY <2>1, <2>2
<1>6. bar' = [bar EXCEPT ![t] = req]
  BY <1>3, RequestOK DEF IInv, TypeOK
<1>7. bar[t] = Idle
  BY DEF RequestOf
<1>8. \E x \in {Pending, Answer(r.path, vocab[r.bpe], r.keys)} :
        bar' = [bar EXCEPT ![t] = [path |-> r.path, bpe |-> r.bpe,
                                   keys |-> r.keys, answer |-> x]]
  BY <1>5, <1>6
<1> QED BY <1>7, <1>8, SameAnswer DEF Promise!Call

\* A step within a call either leaves it unanswered or answers it.
LEMMA ProgressMaps ==
  ASSUME IInv, IInv', NEW t \in Threads, UNCHANGED vocab, NEW r,
         call[t] # Idle, call[t].stage \notin {"done", "failed"},
         call' = [call EXCEPT ![t] = r], r # Idle,
         r.path = call[t].path, r.bpe = call[t].bpe, r.keys = call[t].keys
  PROVE  Promise!Reply(t) \/ UNCHANGED Promise!reqVars
<1> DEFINE bar == [u \in Threads |-> RequestOf(call[u])]
           c   == call[t]
<1>1. call'[t] = r
  BY DEF IInv, TypeOK
<1>2. r \in Calls'
  BY <1>1 DEF IInv, TypeOK
<1>3. r \in Calls /\ c \in Calls
  BY <1>2 DEF Calls, IInv, TypeOK
<1>4. InProgress(r, vocab[r.bpe], local'[t]["fused"].bpe_id)
  BY <1>1 DEF IInv, CallCoherent, Progressing
<1>5. /\ bar[t] = [path |-> c.path, bpe |-> c.bpe, keys |-> c.keys, answer |-> Pending]
      /\ bar[t] # Idle
  BY <1>3, RequestOK DEF AnswerOf
<1>6. bar' = [bar EXCEPT ![t] =
        [path |-> c.path, bpe |-> c.bpe, keys |-> c.keys, answer |-> AnswerOf(r)]]
  BY <1>3, RequestOK DEF IInv, TypeOK
<1> HIDE DEF bar
<1>7. CASE r.stage \in {"done", "failed"}
  <2>1. AnswerOf(r) = Answer(c.path, vocab[c.bpe], c.keys)
    BY <1>3, <1>4, <1>7, Answered DEF Calls
  <2> DEFINE ans == Answer(c.path, vocab[c.bpe], c.keys)
  <2>2. [bar[t] EXCEPT !.answer = ans] =
          [path |-> c.path, bpe |-> c.bpe, keys |-> c.keys, answer |-> ans]
    BY <1>5
  <2>3. bar' = [bar EXCEPT ![t] = [bar[t] EXCEPT !.answer = ans]]
    BY <1>6, <2>1, <2>2
  <2>4. bar[t].path = c.path /\ bar[t].bpe = c.bpe /\ bar[t].keys = c.keys
        /\ bar[t].answer = Pending
    BY <1>5
  <2>5. bar' = [bar EXCEPT ![t].answer =
                  Answer(bar[t].path, vocab[bar[t].bpe], bar[t].keys)]
    BY <2>3, <2>4
  <2> QED BY <1>5, <2>4, <2>5, SameAnswer DEF Promise!Reply, bar
<1>8. CASE r.stage \notin {"done", "failed"}
  <2>1. AnswerOf(r) = Pending
    BY <1>8 DEF AnswerOf
  <2>2. bar' = bar
    BY <1>5, <1>6, <2>1 DEF bar
  <2> QED BY <2>2 DEF Promise!reqVars, bar
<1> QED BY <1>7, <1>8

\* What the steps within a call have in common: they answer or move the call
\* and keep the request.
LEMMA Moves ==
  ASSUME IInv, NEW t \in Threads,
         \/ PassReady(t) \/ LookupLocal(t) \/ LookupShared(t)
         \/ MatchWhole(t) \/ Merge(t) \/ Publish(t)
  PROVE  /\ call[t] # Idle /\ call[t].stage \notin {"done", "failed"}
         /\ UNCHANGED vocab
         /\ \E r : /\ call' = [call EXCEPT ![t] = r]
                  /\ r.path = call[t].path /\ r.bpe = call[t].bpe
                  /\ r.keys = call[t].keys
<1> DEFINE c == call[t]
           Kept(r) == r.path = c.path /\ r.bpe = c.bpe /\ r.keys = c.keys
<1>1. c # Idle /\ c.stage \notin {"done", "failed"} /\ UNCHANGED vocab
  BY DEF PassReady, LookupLocal, LookupShared, MatchWhole, Merge, Publish, In
<1>2. c \in Calls
  BY <1>1 DEF IInv, TypeOK
<1>3. ASSUME NEW ids, Push(t, ids)
      PROVE  \E r : call' = [call EXCEPT ![t] = r] /\ Kept(r)
  <2> DEFINE r == [c EXCEPT !.out = Append(@, ids), !.stage = After(c, Len(c.out) + 1)]
  <2>1. call' = [call EXCEPT ![t] = r]
    BY <1>3 DEF Push
  <2>2. Kept(r)
    BY <1>2 DEF Calls
  <2> QED BY <2>1, <2>2
<1>4. ASSUME NEW s, call' = [call EXCEPT ![t].stage = s]
      PROVE  \E r : call' = [call EXCEPT ![t] = r] /\ Kept(r)
  <2> DEFINE r == [c EXCEPT !.stage = s]
  <2>1. call' = [call EXCEPT ![t] = r]
    BY <1>4
  <2>2. Kept(r)
    BY <1>2 DEF Calls
  <2> QED BY <2>1, <2>2
<1>5. ASSUME NEW s, NEW ids,
             call' = [call EXCEPT ![t].stage = s, ![t].out = Append(@, ids)]
      PROVE  \E r : call' = [call EXCEPT ![t] = r] /\ Kept(r)
  <2> DEFINE r == [c EXCEPT !.stage = s, !.out = Append(@, ids)]
  <2>1. call' = [call EXCEPT ![t] = r]
    BY <1>5
  <2>2. Kept(r)
    BY <1>2 DEF Calls
  <2> QED BY <2>1, <2>2
<1> HIDE DEF Kept
<1>6. \E r : call' = [call EXCEPT ![t] = r] /\ Kept(r)
  <2>1. CASE PassReady(t)
    BY <2>1, <1>3 DEF PassReady
  <2>2. CASE LookupLocal(t)
    BY <2>2, <1>3, <1>4 DEF LookupLocal
  <2>3. CASE LookupShared(t)
    BY <2>3, <1>3, <1>4 DEF LookupShared
  <2>4. CASE MatchWhole(t)
    BY <2>4, <1>3 DEF MatchWhole
  <2>5. CASE Merge(t)
    BY <2>5, <1>4, <1>5 DEF Merge
  <2>6. CASE Publish(t)
    BY <2>6, <1>4 DEF Publish
  <2> QED BY <2>1, <2>2, <2>3, <2>4, <2>5, <2>6
<1> QED BY <1>1, <1>6 DEF Kept

\* Every step of the caches is a step of Tokenizing or leaves it alone.
LEMMA StepMaps ==
  ASSUME IInv, IInv', [Next]_vars
  PROVE  [Promise!Next]_(Promise!reqVars)
<1> USE DEF Promise!Next
<1>1. ASSUME NEW v \in Vocabs, NewBpe(v)
      PROVE  Promise!Load(v)
  BY <1>1 DEF NewBpe, Promise!Load
<1>2. ASSUME NEW b \in 1..Len(vocab), CloneBpe(b)
      PROVE  vocab[b] \in Vocabs /\ Promise!Load(vocab[b])
  BY <1>2 DEF CloneBpe, Promise!Load, IInv, TypeOK
<1>3. ASSUME NEW t \in Threads, NEW p \in Paths, NEW b \in 1..Len(vocab),
             NEW keys \in Batches, BeginOne(t, p, b, keys)
      PROVE  Promise!Call(t, p, b, keys)
  <2> DEFINE new(out, stage) ==
               [path |-> p, bpe |-> b, keys |-> keys, batch |-> FALSE,
                out |-> out, stage |-> stage]
  <2>1. PICK r : /\ call' = [call EXCEPT ![t] = r]
                 /\ \/ r = new(<<>>, "done")
                    \/ r = new(<<Ids(p, vocab[b], keys[1])>>, "done")
                    \/ r = new(<<>>, "lookup")
    BY <1>3 DEF BeginOne
  <2>2. /\ r.path = p /\ r.bpe = b /\ r.keys = keys
        /\ r.stage \in {"lookup", "done"}
    BY <2>1
  <2>3. call[t] = Idle /\ UNCHANGED vocab
    BY <1>3 DEF BeginOne
  <2>4. r # Idle
    BY <1>3, <2>1, BeginOneStep DEF IInv, TypeOK
  <2> QED BY <2>1, <2>2, <2>3, <2>4, CallMaps
<1>4. ASSUME NEW t \in Threads, NEW b \in 1..Len(vocab), NEW keys \in Batches,
             BeginBatch(t, b, keys)
      PROVE  "fused" \in Paths /\ Promise!Call(t, "fused", b, keys)
  <2> DEFINE r == [path |-> "fused", bpe |-> b, keys |-> keys, batch |-> TRUE,
                   out |-> <<>>, stage |-> IF keys = <<>> THEN "done" ELSE "lookup"]
  <2>1. call' = [call EXCEPT ![t] = r] /\ call[t] = Idle /\ UNCHANGED vocab
        /\ "fused" \in Paths
    BY <1>4 DEF BeginBatch
  <2>2. /\ r.path = "fused" /\ r.bpe = b /\ r.keys = keys
        /\ r.stage \in {"lookup", "done"}
    OBVIOUS
  <2> HIDE DEF r
  <2>3. r # Idle
    BY <1>4, <2>1, BeginBatchStep DEF IInv, TypeOK
  <2> QED BY <2>1, <2>2, <2>3, CallMaps
<1>5. ASSUME NEW t \in Threads,
             \/ PassReady(t) \/ LookupLocal(t) \/ LookupShared(t)
             \/ MatchWhole(t) \/ Merge(t) \/ Publish(t)
      PROVE  Promise!Reply(t) \/ UNCHANGED Promise!reqVars
  <2>1. call'[t] # Idle
    BY <1>5, PassReadyStep, LookupLocalStep, LookupSharedStep, MatchWholeStep,
       MergeStep, PublishStep
  <2>2. PICK r : /\ call' = [call EXCEPT ![t] = r]
                 /\ r.path = call[t].path /\ r.bpe = call[t].bpe
                 /\ r.keys = call[t].keys
    BY <1>5, Moves
  <2>3. call[t] # Idle /\ call[t].stage \notin {"done", "failed"} /\ UNCHANGED vocab
    BY <1>5, Moves
  <2>4. r # Idle
    BY <2>1, <2>2 DEF IInv, TypeOK
  <2> QED BY <2>2, <2>3, <2>4, ProgressMaps
<1>6. ASSUME NEW t \in Threads, Finish(t)
      PROVE  Promise!Return(t)
  <2> DEFINE bar == [u \in Threads |-> RequestOf(call[u])]
             c   == call[t]
  <2>1. /\ c # Idle /\ c.stage \in {"done", "failed"} /\ UNCHANGED vocab
        /\ call' = [call EXCEPT ![t] = Idle]
    BY <1>6 DEF Finish, In
  <2>2. c \in Calls
    BY <2>1 DEF IInv, TypeOK
  <2>3. AnswerOf(c) # Pending
    BY <2>1, <2>2, TokenizingAssumption DEF AnswerOf, Calls
  <2>4. bar[t] # Idle /\ bar[t].answer # Pending
    BY <2>2, <2>3, RequestOK
  <2>5. bar' = [bar EXCEPT ![t] = Idle]
    BY <2>1 DEF IInv, TypeOK, RequestOf
  <2> QED BY <2>1, <2>4, <2>5 DEF Promise!Return
<1>7. CASE UNCHANGED vars
  BY <1>7 DEF vars, Promise!reqVars
<1> QED
  BY <1>1, <1>2, <1>3, <1>4, <1>5, <1>6, <1>7 DEF Next

\* Every call, batched or not, whatever is cached where and whoever races with
\* it, is answered as if its pretokens were merged from scratch.
THEOREM CachesImplementTokenizing == Spec => Implements
<1>1. Init => Promise!Init
  BY DEF Init, Promise!Init, RequestOf
<1>2. IInv /\ IInv' /\ [Next]_vars => [Promise!Next]_(Promise!reqVars)
  BY StepMaps
<1> QED BY <1>1, <1>2, Invariance, PTL DEF Spec, Implements, Promise!Spec

(***************************************************************************)
(* Proof that the pools of TokenCache stay in proportion to the entries    *)
(* they serve, for any finite number of threads and pretokens and any load *)
(* bounds.  FlatCache counts entries, not pool growth, so the bound hangs  *)
(* on how often an entry can be written again before the next clear.       *)
(***************************************************************************)

(***************************************************************************)
(* The inductive invariant.                                                *)
(***************************************************************************)

Filled(c) == {k \in Keys : c.map[k] # None}

\* The pretoken a call looks up, merges or publishes.
Wanted(c) ==
  c.keys[IF c.stage = "publish" THEN Len(c.out) ELSE Len(c.out) + 1]

\* The threads that missed pretoken k in a shard and have not published it yet.
\* Once another thread has published k, each of them will write it again.
Missing(b, p, k) ==
  {t \in Threads : /\ call[t] # Idle
                   /\ call[t].stage \in {"merge", "publish"}
                   /\ call[t].bpe = b /\ call[t].path = p
                   /\ Wanted(call[t]) = k}

\* The threads that are about to write an entry of a shard in place.
Late(b, p, s) ==
  {t \in Threads :
     \E k \in Filled(shared[b][p][s]) : ShardOf[k] = s /\ t \in Missing(b, p, k)}

LocalExact == \A t \in Threads, p \in Paths : local[t][p].pool = Count(local[t][p])

\* A thread that has missed its own cache writes no entry in place there: the
\* pretoken is not in it, or the cache is another instance's and is cleared.
MissedAt(c, lc) ==
  c # Idle /\ c.stage \in {"shared", "merge"} =>
    lc[c.path].map[Key(c)] = None \/ (~ c.batch /\ lc[c.path].bpe_id # c.bpe)

Missed == \A t \in Threads : MissedAt(call[t], local[t])

\* What is in a pool, and what the late threads will still add to it.
Within(b, p, s) ==
  shared[b][p][s].pool + Cardinality(Late(b, p, s)) <=
    Cardinality(Threads) * Count(shared[b][p][s])

SharedWithin == \A b \in 1..Len(vocab), p \in Paths, s \in Shards : Within(b, p, s)

PoolInv == IInv /\ LocalExact /\ Missed /\ SharedWithin

(***************************************************************************)
(* Counting the entries of a cache.                                        *)
(***************************************************************************)

LEMMA CountOK ==
  ASSUME IsFiniteSet(Keys), NEW c
  PROVE  /\ IsFiniteSet(Filled(c))
         /\ Count(c) = Cardinality(Filled(c))
         /\ Count(c) \in Nat
<1>1. IsFiniteSet(Filled(c))
  BY FS_Subset DEF Filled
<1>2. Count(c) = Cardinality(Filled(c))
  BY DEF Count, Filled
<1> QED BY <1>1, <1>2, FS_CardinalityType

LEMMA ClearedCount ==
  ASSUME NEW id \in Nat
  PROVE  Filled(Cleared(id)) = {} /\ Count(Cleared(id)) = 0 /\ Cleared(id).pool = 0
<1>1. Filled(Cleared(id)) = {}
  BY ClearedOK DEF Filled
<1> QED BY <1>1, FS_EmptySet DEF Count, Filled, Cleared

\* An entry that fits adds one range to the pool, whether or not it is new, and
\* one to the count only if it is.
LEMMA InsertPool ==
  ASSUME IsFiniteSet(Keys), NEW c \in Caches, NEW load, NEW k \in Keys,
         NEW ids \in Results,
         NEW base, base = IF Count(c) >= load THEN Cleared(c.bpe_id) ELSE c
  PROVE  LET d == Insert(c, load, k, ids)
         IN  /\ base \in Caches /\ base.bpe_id = c.bpe_id
             /\ k \in Long => d = base
             /\ k \notin Long => /\ Filled(d) = Filled(base) \cup {k}
                                 /\ d.pool = base.pool + 1
                                 /\ Count(d) = IF k \in Filled(base)
                                               THEN Count(base) ELSE Count(base) + 1
<1> DEFINE d == Insert(c, load, k, ids)
<1>1. base \in Caches /\ base.bpe_id = c.bpe_id
  BY ClearedOK DEF Caches
<1>2. k \in Long => d = base
  BY DEF Insert
<1>3. CASE k \notin Long
  <2>1. d = [bpe_id |-> base.bpe_id, map |-> [base.map EXCEPT ![k] = ids],
             pool |-> base.pool + 1]
    BY <1>3 DEF Insert
  <2>2. ids # None
    BY TokenCacheAssumption
  <2>3. base.map \in [Keys -> Results \cup {None}]
    BY <1>1 DEF Caches
  <2>4. d.pool = base.pool + 1 /\ d.map = [base.map EXCEPT ![k] = ids]
    BY <2>1
  <2> HIDE DEF d
  <2>5. \A q \in Keys : d.map[q] = IF q = k THEN ids ELSE base.map[q]
    BY <2>3, <2>4
  <2>6. Filled(d) = Filled(base) \cup {k}
    BY <2>2, <2>5 DEF Filled
  <2>7. Count(d) = IF k \in Filled(base) THEN Count(base) ELSE Count(base) + 1
    <3>1. Cardinality(Filled(base) \cup {k}) =
            IF k \in Filled(base) THEN Cardinality(Filled(base))
            ELSE Cardinality(Filled(base)) + 1
      BY CountOK, FS_AddElement
    <3> QED BY <3>1, <2>6, CountOK
  <2> QED BY <1>1, <1>3, <2>4, <2>6, <2>7 DEF d
<1> QED BY <1>1, <1>2, <1>3

(***************************************************************************)
(* The thread-local caches.                                                *)
(***************************************************************************)

Exact(c) == c.pool = Count(c)

\* What a thread writes after a miss is a new entry of its own cache.
LEMMA FillExact ==
  ASSUME IsFiniteSet(Keys), NEW c \in Caches, Exact(c), NEW b \in Nat,
         NEW k \in Keys, NEW ids \in Results,
         c.map[k] = None \/ c.bpe_id # b
  PROVE  /\ Claim(c, b) \in Caches
         /\ Exact(Claim(c, b))
         /\ Insert(Claim(c, b), LocalLoad, k, ids) \in Caches
         /\ Exact(Insert(Claim(c, b), LocalLoad, k, ids))
<1> DEFINE e == Claim(c, b)
           base == IF Count(e) >= LocalLoad THEN Cleared(e.bpe_id) ELSE e
           d == Insert(e, LocalLoad, k, ids)
<1>1. e \in Caches /\ e.map[k] = None /\ Exact(e)
  BY ClearedOK, ClearedCount DEF Claim, Exact
<1>2. e.bpe_id \in Nat
  BY <1>1 DEF Caches
<1> HIDE DEF e
<1>3. k \notin Filled(base) /\ Exact(base) /\ base.pool \in Nat
  BY <1>1, <1>2, ClearedOK, ClearedCount DEF Filled, Exact, Caches
<1>4. /\ base \in Caches
      /\ k \in Long => d = base
      /\ k \notin Long => d.pool = base.pool + 1 /\ Count(d) = Count(base) + 1
  BY <1>1, <1>3, InsertPool
<1>5. d \in Caches
  <2>1. base.map \in [Keys -> Results \cup {None}] /\ base.bpe_id \in Nat
    BY <1>4 DEF Caches
  <2>2. k \notin Long =>
          d = [bpe_id |-> base.bpe_id, map |-> [base.map EXCEPT ![k] = ids],
               pool |-> base.pool + 1]
    BY DEF Insert
  <2>3. [base.map EXCEPT ![k] = ids] \in [Keys -> Results \cup {None}]
    BY <2>1
  <2> HIDE DEF d, base
  <2> QED BY <1>3, <1>4, <2>1, <2>2, <2>3 DEF Caches
<1>6. Exact(d)
  BY <1>3, <1>4 DEF Exact
<1> QED BY <1>1, <1>5, <1>6 DEF e

\* A step that touches the call and the caches of one thread only.
LEMMA LocalStep ==
  ASSUME IInv, LocalExact, Missed, NEW t \in Threads,
         NEW c, call' = [call EXCEPT ![t] = c],
         NEW lc \in [Paths -> Caches], local' = [local EXCEPT ![t] = lc],
         \A p \in Paths : Exact(lc[p]),
         MissedAt(c, lc)
  PROVE  LocalExact' /\ Missed'
<1>1. /\ local \in [Threads -> [Paths -> Caches]]
      /\ call \in [Threads -> Calls \cup {Idle}]
  BY DEF IInv, TypeOK
<1>2. \A u \in Threads : /\ local'[u] = IF u = t THEN lc ELSE local[u]
                         /\ call'[u] = IF u = t THEN c ELSE call[u]
  BY <1>1
<1>3. LocalExact'
  <2> SUFFICES ASSUME NEW u \in Threads, NEW p \in Paths
               PROVE  local'[u][p].pool = Count(local'[u][p])
    BY DEF LocalExact, Count
  <2> QED BY <1>2 DEF LocalExact, Exact
<1>4. Missed'
  <2> SUFFICES ASSUME NEW u \in Threads PROVE MissedAt(call'[u], local'[u])
    BY DEF Missed, MissedAt, Key
  <2> QED BY <1>2 DEF Missed
<1> QED BY <1>3, <1>4

(***************************************************************************)
(* The shards.                                                             *)
(***************************************************************************)

\* The quantities of Within are numbers.
LEMMA WithinType ==
  ASSUME IsFiniteSet(Keys), IsFiniteSet(Threads), IInv,
         NEW b \in 1..Len(vocab), NEW p \in Paths, NEW s \in Shards
  PROVE  /\ shared[b][p][s] \in Caches
         /\ shared[b][p][s].pool \in Nat
         /\ IsFiniteSet(Late(b, p, s)) /\ Cardinality(Late(b, p, s)) \in Nat
         /\ Count(shared[b][p][s]) \in Nat
         /\ Cardinality(Threads) \in Nat
<1>1. shared \in Seq([Paths -> [Shards -> Caches]]) /\ Len(shared) = Len(vocab)
  BY DEF IInv, TypeOK
<1>2. shared[b] \in [Paths -> [Shards -> Caches]]
  BY <1>1
<1>3. shared[b][p][s] \in Caches
  BY <1>2
<1>4. IsFiniteSet(Late(b, p, s))
  BY FS_Subset DEF Late
<1> QED
  BY <1>3, <1>4, CountOK, FS_CardinalityType DEF Caches

\* A step of one thread that changes no shard: it is late only if it was, for
\* the same pretoken, or if it has just missed that pretoken in its shard.
LEMMA SharedStep ==
  ASSUME IsFiniteSet(Keys), IsFiniteSet(Threads), IInv, SharedWithin,
         NEW t \in Threads, UNCHANGED <<vocab, shared>>,
         NEW c, call' = [call EXCEPT ![t] = c],
         c # Idle /\ c.stage \in {"merge", "publish"} =>
           \/ t \in Missing(c.bpe, c.path, Wanted(c))
           \/ Wanted(c) \notin Filled(shared[c.bpe][c.path][ShardOf[Wanted(c)]])
  PROVE  SharedWithin'
<1>1. \A u \in Threads : call'[u] = IF u = t THEN c ELSE call[u]
  BY DEF IInv, TypeOK
<1> SUFFICES ASSUME NEW b \in 1..Len(vocab), NEW p \in Paths, NEW s \in Shards
             PROVE  Within(b, p, s)'
  BY DEF SharedWithin
<1>2. Late(b, p, s)' \subseteq Late(b, p, s)
  <2> SUFFICES ASSUME NEW u \in Threads, NEW k \in Filled(shared[b][p][s]),
                      ShardOf[k] = s, u \in Missing(b, p, k)'
               PROVE  u \in Missing(b, p, k)
    BY DEF Late, Filled
  <2>1. CASE u # t
    BY <1>1, <2>1 DEF Missing, Wanted
  <2>2. CASE u = t
    <3>1. /\ c # Idle /\ c.stage \in {"merge", "publish"}
          /\ c.bpe = b /\ c.path = p /\ Wanted(c) = k
      BY <1>1, <2>2 DEF Missing, Wanted
    <3> QED BY <2>2, <3>1
  <2> QED BY <2>1, <2>2
<1>3. Cardinality(Late(b, p, s)') <= Cardinality(Late(b, p, s))
      /\ Cardinality(Late(b, p, s)') \in Nat
  BY <1>2, WithinType, FS_Subset, FS_CardinalityType
<1>4. Within(b, p, s)
  BY DEF SharedWithin
<1> DEFINE bound == Cardinality(Threads) * Count(shared[b][p][s])
<1>5. bound \in Nat
  BY WithinType
<1>6. shared[b][p][s].pool + Cardinality(Late(b, p, s)') <= bound
  <2> HIDE DEF bound
  <2>1. shared[b][p][s].pool + Cardinality(Late(b, p, s)) <= bound
    BY <1>4 DEF Within, bound
  <2>2. PICK x, y, z : /\ x = shared[b][p][s].pool
                       /\ y = Cardinality(Late(b, p, s))
                       /\ z = Cardinality(Late(b, p, s)')
    OBVIOUS
  <2>3. x \in Nat /\ y \in Nat
    BY <2>2, WithinType
  <2>4. z \in Nat /\ z <= y /\ x + y <= bound
    BY <1>3, <2>1, <2>2
  <2>5. x + z <= bound
    BY <1>5, <2>3, <2>4
  <2> QED BY <2>2, <2>5
<1> QED BY <1>6 DEF Within, Count

\* A new instance has empty shards.
LEMMA NewWithin ==
  ASSUME IsFiniteSet(Keys), IsFiniteSet(Threads), IInv, SharedWithin,
         NEW v, vocab' = Append(vocab, v), shared' = Append(shared, FreshShards),
         UNCHANGED call
  PROVE  SharedWithin'
<1>1. /\ shared \in Seq([Paths -> [Shards -> Caches]]) /\ Len(shared) = Len(vocab)
      /\ vocab \in Seq(Vocabs) /\ Len(vocab) \in Nat
  BY DEF IInv, TypeOK
<1>2. Len(vocab') = Len(vocab) + 1
  BY <1>1
<1> SUFFICES ASSUME NEW b \in 1..Len(vocab'), NEW p \in Paths, NEW s \in Shards
             PROVE  Within(b, p, s)'
  BY DEF SharedWithin
<1>3. CASE b <= Len(vocab)
  <2>1. b \in 1..Len(vocab) /\ shared'[b] = shared[b]
    BY <1>1, <1>2, <1>3
  <2>2. Within(b, p, s)
    BY <2>1 DEF SharedWithin
  <2>3. Late(b, p, s)' = Late(b, p, s)
    BY <2>1 DEF Late, Missing, Filled, Wanted
  <2> QED BY <2>1, <2>2, <2>3 DEF Within, Count
<1>4. CASE b = Len(vocab) + 1
  <2>1. shared'[b] = FreshShards
    BY <1>1, <1>4
  <2>2. shared'[b][p][s] = Cleared(NoBpe) /\ NoBpe \in Nat
    <3>1. FreshShards[p][s] = Cleared(NoBpe)
      BY DEF FreshShards
    <3>2. NoBpe \in Nat
      BY DEF NoBpe
    <3> QED BY <2>1, <3>1, <3>2
  <2>3. Late(b, p, s)' = {}
    BY <2>2, ClearedCount DEF Late
  <2>4. shared'[b][p][s].pool = 0 /\ Count(shared'[b][p][s]) = 0
    BY <2>2, ClearedCount
  <2>5. Cardinality(Late(b, p, s)') = 0 /\ Cardinality(Threads) \in Nat
    BY <2>3, FS_EmptySet, FS_CardinalityType
  <2>6. Within(b, p, s)' <=>
          shared'[b][p][s].pool + Cardinality(Late(b, p, s)') <=
            Cardinality(Threads) * Count(shared'[b][p][s])
    BY DEF Within, Count
  <2> QED BY <2>4, <2>5, <2>6
<1> QED BY <1>1, <1>2, <1>3, <1>4

(***************************************************************************)
(* Publication: the one step that writes a shard.                          *)
(***************************************************************************)

\* The arithmetic of one insertion: q ranges serve cnt entries, the threads of
\* stale will add one range each, and t is the thread that inserts.
LEMMA LateBound ==
  ASSUME IsFiniteSet(Threads), NEW t \in Threads, NEW q \in Nat, NEW cnt \in Nat,
         NEW stale, IsFiniteSet(stale), NEW late,
         q + Cardinality(stale) <= Cardinality(Threads) * cnt
  PROVE  /\ late \subseteq stale =>
              q + Cardinality(late) <= Cardinality(Threads) * cnt
         /\ late \subseteq stale \ {t} /\ t \in stale =>
              q + 1 + Cardinality(late) <= Cardinality(Threads) * cnt
         /\ late \subseteq stale \cup (Threads \ {t}) =>
              q + 1 + Cardinality(late) <= Cardinality(Threads) * (cnt + 1)
<1> DEFINE T == Cardinality(Threads)
           m == T * cnt
<1>1. T \in Nat /\ Cardinality(stale) \in Nat
  BY FS_CardinalityType
<1>2. m \in Nat /\ T * (cnt + 1) = m + T
  <2> HIDE DEF T
  <2> QED BY <1>1
<1>3. q + Cardinality(stale) <= m
  OBVIOUS
<1> HIDE DEF m
<1>4. ASSUME late \subseteq stale PROVE q + Cardinality(late) <= m
  <2>1. Cardinality(late) <= Cardinality(stale) /\ Cardinality(late) \in Nat
    BY <1>4, FS_Subset, FS_CardinalityType
  <2> QED BY <2>1, <1>1, <1>2, <1>3
<1>5. ASSUME late \subseteq stale \ {t}, t \in stale
      PROVE  q + 1 + Cardinality(late) <= m
  <2>1. IsFiniteSet(stale \ {t})
        /\ Cardinality(stale \ {t}) = Cardinality(stale) - 1
    BY <1>5, FS_RemoveElement
  <2>2. Cardinality(late) <= Cardinality(stale \ {t}) /\ Cardinality(late) \in Nat
    BY <1>5, <2>1, FS_Subset, FS_CardinalityType
  <2> QED BY <2>1, <2>2, <1>1, <1>2, <1>3
<1>6. ASSUME late \subseteq stale \cup (Threads \ {t})
      PROVE  q + 1 + Cardinality(late) <= m + T
  <2> DEFINE others == Threads \ {t}
  <2>1. IsFiniteSet(others) /\ Cardinality(others) = T - 1
    BY FS_RemoveElement
  <2> HIDE DEF others
  <2>2. /\ IsFiniteSet(stale \cup others)
        /\ IsFiniteSet(stale \cap others)
        /\ Cardinality(stale \cup others) =
             Cardinality(stale) + Cardinality(others) - Cardinality(stale \cap others)
    BY <2>1, FS_Union, FS_Intersection
  <2>3. Cardinality(stale \cap others) \in Nat
        /\ Cardinality(stale \cup others) \in Nat
    BY <2>2, FS_CardinalityType
  <2>4. late \subseteq stale \cup others
    BY <1>6 DEF others
  <2>5. Cardinality(late) <= Cardinality(stale \cup others)
        /\ Cardinality(late) \in Nat
    BY <2>2, <2>4, FS_Subset, FS_CardinalityType
  <2> HIDE DEF T
  <2> QED BY <2>1, <2>2, <2>3, <2>5, <1>1, <1>2, <1>3
<1> QED BY <1>2, <1>4, <1>5, <1>6 DEF m

\* The load check of an insertion: a clear forgets the entries and with them
\* the threads that were late for one of them.
LEMMA BaseWithin ==
  ASSUME IsFiniteSet(Keys), IsFiniteSet(Threads), NEW c \in Caches, NEW late,
         IsFiniteSet(late),
         c.pool + Cardinality(late) <= Cardinality(Threads) * Count(c),
         NEW load, NEW base, NEW stale,
         base = IF Count(c) >= load THEN Cleared(c.bpe_id) ELSE c,
         stale = IF Count(c) >= load THEN {} ELSE late
  PROVE  /\ base.pool \in Nat /\ Count(base) \in Nat /\ IsFiniteSet(stale)
         /\ base.pool + Cardinality(stale) <= Cardinality(Threads) * Count(base)
<1>1. CASE Count(c) >= load
  <2>1. base = Cleared(c.bpe_id) /\ c.bpe_id \in Nat
    BY <1>1 DEF Caches
  <2>2. Count(base) = 0 /\ base.pool = 0
    BY <2>1, ClearedCount
  <2>3. IsFiniteSet(stale) /\ Cardinality(stale) = 0 /\ Cardinality(Threads) \in Nat
    BY <1>1, FS_EmptySet, FS_CardinalityType
  <2> QED BY <2>2, <2>3
<1>2. CASE ~ (Count(c) >= load)
  <2>1. c.pool \in Nat /\ Count(c) \in Nat
    BY CountOK DEF Caches
  <2> QED BY <1>2, <2>1
<1> QED BY <1>1, <1>2

\* A new entry makes late at most the threads other than its writer; an entry
\* written again uses up the lateness of its writer; a clear forgets both.
LEMMA ShardWithin ==
  ASSUME IsFiniteSet(Keys), IsFiniteSet(Threads), NEW t \in Threads,
         NEW c \in Caches, NEW k \in Keys, NEW ids \in Results, NEW load,
         NEW Was, NEW Is, NEW d, d = Insert(c, load, k, ids),
         \A k2 \in Keys : Was[k2] \subseteq Threads /\ Is[k2] \subseteq Was[k2] \ {t},
         t \in Was[k],
         NEW Here, k \in Here,
         NEW late \in SUBSET Threads, NEW late2 \in SUBSET Threads,
         \A u \in Threads :
           u \in late <=> \E k2 \in Filled(c) : k2 \in Here /\ u \in Was[k2],
         \A u \in Threads :
           u \in late2 <=> \E k2 \in Filled(d) : k2 \in Here /\ u \in Is[k2],
         c.pool + Cardinality(late) <= Cardinality(Threads) * Count(c)
  PROVE  d.pool + Cardinality(late2) <= Cardinality(Threads) * Count(d)
<1>1. PICK base : base = IF Count(c) >= load THEN Cleared(c.bpe_id) ELSE c
  OBVIOUS
<1>2. PICK stale : stale = IF Count(c) >= load THEN {} ELSE late
  OBVIOUS
<1>3. /\ k \in Long => d = base
      /\ k \notin Long => /\ Filled(d) = Filled(base) \cup {k}
                          /\ d.pool = base.pool + 1
                          /\ Count(d) = IF k \in Filled(base)
                                        THEN Count(base) ELSE Count(base) + 1
  BY <1>1, InsertPool
<1>4. /\ base.pool \in Nat /\ Count(base) \in Nat /\ IsFiniteSet(stale)
      /\ base.pool + Cardinality(stale) <= Cardinality(Threads) * Count(base)
  <2>1. IsFiniteSet(late)
    BY FS_Subset
  <2> QED BY <1>1, <1>2, <2>1, BaseWithin
<1>5. /\ Filled(base) \subseteq Keys
      /\ \A k2 \in Filled(base) : k2 \in Here => Was[k2] \subseteq stale
  <2>1. CASE Count(c) >= load
    <3>1. Filled(base) = {}
      BY <1>1, <2>1, ClearedCount DEF Caches
    <3> QED BY <3>1
  <2>2. CASE ~ (Count(c) >= load)
    <3>1. base = c /\ stale = late
      BY <1>1, <1>2, <2>2
    <3> QED BY <3>1 DEF Filled
  <2> QED BY <2>1, <2>2
<1>6. CASE k \in Long
  <2>1. late2 \subseteq stale
    BY <1>3, <1>5, <1>6
  <2> QED BY <1>3, <1>4, <1>6, <2>1, LateBound
<1>7. CASE k \notin Long /\ k \in Filled(base)
  <2>1. Filled(d) = Filled(base)
    BY <1>3, <1>7
  <2>2. late2 \subseteq stale \ {t} /\ t \in stale
    BY <1>5, <1>7, <2>1
  <2> QED BY <1>3, <1>4, <1>7, <2>2, LateBound
<1>8. CASE k \notin Long /\ k \notin Filled(base)
  <2>1. late2 \subseteq stale \cup (Threads \ {t})
    BY <1>3, <1>5, <1>8
  <2> QED BY <1>3, <1>4, <1>8, <2>1, LateBound
<1> QED BY <1>6, <1>7, <1>8

LEMMA PublishWithin ==
  ASSUME IsFiniteSet(Keys), IsFiniteSet(Threads), IInv, SharedWithin,
         NEW t \in Threads, Publish(t)
  PROVE  SharedWithin'
<1>1. PICK c, n, k, b, p, s, old, d, new :
        /\ c = call[t] /\ n = Len(c.out) /\ k = c.keys[n]
        /\ b = c.bpe /\ p = c.path /\ s = ShardOf[k]
        /\ old = shared[b][p][s] /\ d = Insert(old, SharedLoad, k, c.out[n])
        /\ new = [c EXCEPT !.stage = After(c, n)]
  OBVIOUS
<1>2. /\ c # Idle /\ c.stage = "publish" /\ vocab' = vocab
      /\ shared' = [shared EXCEPT ![b][p][s] = d]
      /\ call' = [call EXCEPT ![t] = new]
  BY <1>1 DEF Publish, In
<1>3. /\ c \in Calls /\ Progressing(t) /\ b \in 1..Len(vocab) /\ p \in Paths
  BY <1>1, <1>2, InCall
<1>4. n \in 1..Len(c.out) /\ n \in 1..Len(c.keys) /\ c.keys \in Seq(Keys)
      /\ c.out \in Seq(Results)
  <2>1. c.out \in Seq(Results) /\ c.keys \in Seq(Keys) /\ c.out # <<>>
        /\ Len(c.out) <= Len(c.keys)
    BY <1>1, <1>2, <1>3 DEF Calls, Progressing, InProgress
  <2>2. n = Len(c.out) /\ n \in Nat /\ n # 0
    BY <1>1, <2>1, EmptySeq
  <2>3. Len(c.keys) \in Nat /\ n <= Len(c.keys)
    BY <2>1, <2>2
  <2> QED BY <2>1, <2>2, <2>3
<1>5. k \in Keys /\ s \in Shards /\ c.out[n] \in Results
  <2>1. k = c.keys[n] /\ s = ShardOf[k]
    BY <1>1
  <2>2. k \in Keys /\ c.out[n] \in Results
    BY <2>1, <1>4
  <2>3. ShardOf \in [Keys -> Shards]
    BY TokenCacheAssumption
  <2> QED BY <2>1, <2>2, <2>3
<1>6. \A u \in Threads : call'[u] = IF u = t THEN new ELSE call[u]
  BY <1>2 DEF IInv, TypeOK
<1>7. new.stage \notin {"merge", "publish"} /\ Wanted(c) = k
  BY <1>1, <1>2, <1>3 DEF Calls, After, Wanted
<1>8. t \in Missing(b, p, k)
  BY <1>1, <1>2, <1>7 DEF Missing
<1>9. \A b2, p2, k2 : Missing(b2, p2, k2)' \subseteq Missing(b2, p2, k2) \ {t}
  BY <1>6, <1>7 DEF Missing, Wanted
<1> SUFFICES ASSUME NEW b2 \in 1..Len(vocab), NEW p2 \in Paths, NEW s2 \in Shards
             PROVE  Within(b2, p2, s2)'
  BY <1>2 DEF SharedWithin
<1>10. shared'[b2][p2][s2] =
        IF b2 = b /\ p2 = p /\ s2 = s THEN d ELSE shared[b2][p2][s2]
  <2>1. shared' = [shared EXCEPT ![b][p][s] = d]
    BY <1>2
  <2>2. shared \in Seq([Paths -> [Shards -> Caches]]) /\ Len(shared) = Len(vocab)
    BY DEF IInv, TypeOK
  <2>3. /\ b \in DOMAIN shared /\ b2 \in DOMAIN shared
        /\ DOMAIN shared[b] = Paths /\ DOMAIN shared[b][p] = Shards
    BY <1>3, <2>2
  <2> QED BY <1>3, <1>5, <2>1, <2>3
<1>11. Within(b2, p2, s2)
  BY DEF SharedWithin
<1>12. Within(b2, p2, s2)' <=>
         shared'[b2][p2][s2].pool + Cardinality(Late(b2, p2, s2)') <=
           Cardinality(Threads) * Count(shared'[b2][p2][s2])
  BY DEF Within, Count
<1>13. CASE ~ (b2 = b /\ p2 = p /\ s2 = s)
  <2>1. PICK x : x = shared[b2][p2][s2] /\ shared'[b2][p2][s2] = x
    BY <1>10, <1>13
  <2>2. Late(b2, p2, s2)' \subseteq Late(b2, p2, s2)
    BY <1>9, <2>1 DEF Late, Filled
  <2>3. /\ x.pool \in Nat /\ Count(x) \in Nat /\ IsFiniteSet(Late(b2, p2, s2))
    BY <2>1, WithinType
  <2>4. x.pool + Cardinality(Late(b2, p2, s2)) <= Cardinality(Threads) * Count(x)
    BY <1>11, <2>1 DEF Within
  <2>5. x.pool + Cardinality(Late(b2, p2, s2)') <= Cardinality(Threads) * Count(x)
    BY <2>2, <2>3, <2>4, LateBound
  <2> QED BY <1>12, <2>1, <2>5
<1>14. CASE b2 = b /\ p2 = p /\ s2 = s
  <2>1. PICK Was, Is, Here : /\ Was = [k2 \in Keys |-> Missing(b, p, k2)]
                             /\ Is = [k2 \in Keys |-> Missing(b, p, k2)']
                             /\ Here = {k2 \in Keys : ShardOf[k2] = s}
    OBVIOUS
  <2>2. /\ \A k2 \in Keys : Was[k2] \subseteq Threads /\ Is[k2] \subseteq Was[k2] \ {t}
        /\ t \in Was[k] /\ k \in Here
    <3>1. \A k2 \in Keys : Was[k2] = Missing(b, p, k2) /\ Is[k2] = Missing(b, p, k2)'
      BY <2>1
    <3>2. \A k2 \in Keys : Missing(b, p, k2) \subseteq Threads
      BY DEF Missing
    <3> QED BY <1>1, <1>5, <1>8, <1>9, <2>1, <3>1, <3>2
  <2>3. /\ Late(b, p, s) \in SUBSET Threads
        /\ \A u \in Threads : u \in Late(b, p, s) <=>
             \E k2 \in Filled(old) : k2 \in Here /\ u \in Was[k2]
    BY <1>1, <2>1 DEF Late, Filled
  <2>4. /\ Late(b, p, s)' \in SUBSET Threads
        /\ \A u \in Threads : u \in Late(b, p, s)' <=>
             \E k2 \in Filled(d) : k2 \in Here /\ u \in Is[k2]
    <3>1. shared'[b][p][s] = d
      BY <1>10, <1>14
    <3>2. Filled(shared[b][p][s])' = Filled(d)
      BY <3>1 DEF Filled
    <3>3. \A k2 \in Filled(d) : k2 \in Keys /\ Is[k2] = Missing(b, p, k2)'
                                /\ (k2 \in Here <=> ShardOf[k2] = s)
      BY <2>1 DEF Filled
    <3> QED BY <3>2, <3>3 DEF Late
  <2>5. old \in Caches
    BY <1>1, <1>3, <1>5, WithinType
  <2>6. old.pool + Cardinality(Late(b, p, s)) <= Cardinality(Threads) * Count(old)
    BY <1>1, <1>11, <1>14 DEF Within
  <2>7. d.pool + Cardinality(Late(b, p, s)') <= Cardinality(Threads) * Count(d)
    <3>1. PICK late, late2, ids :
            late = Late(b, p, s) /\ late2 = Late(b, p, s)' /\ ids = c.out[n]
      OBVIOUS
    <3>2. d = Insert(old, SharedLoad, k, ids) /\ ids \in Results
      BY <1>1, <1>5, <3>1
    <3>3. d.pool + Cardinality(late2) <= Cardinality(Threads) * Count(d)
      BY <1>5, <2>2, <2>3, <2>4, <2>5, <2>6, <3>1, <3>2, ShardWithin
    <3> QED BY <3>1, <3>3
  <2> QED BY <1>10, <1>12, <1>14, <2>7
<1> QED BY <1>13, <1>14

(***************************************************************************)
(* The steps.                                                              *)
(***************************************************************************)

\* A step of one thread that changes no shard and, of the thread's caches, at
\* most the one of its path.
LEMMA ThreadPools ==
  ASSUME IsFiniteSet(Keys), IsFiniteSet(Threads), PoolInv,
         NEW t \in Threads, UNCHANGED <<vocab, shared>>,
         NEW c, call' = [call EXCEPT ![t] = c],
         c # Idle /\ c.stage \in {"merge", "publish"} =>
           \/ t \in Missing(c.bpe, c.path, Wanted(c))
           \/ Wanted(c) \notin Filled(shared[c.bpe][c.path][ShardOf[Wanted(c)]]),
         NEW lc \in [Paths -> Caches], local' = [local EXCEPT ![t] = lc],
         \A p \in Paths : Exact(lc[p]),
         MissedAt(c, lc)
  PROVE  LocalExact' /\ Missed' /\ SharedWithin'
BY LocalStep, SharedStep DEF PoolInv

\* A thread's own caches before a step.
LEMMA OwnPools ==
  ASSUME PoolInv, NEW t \in Threads
  PROVE  /\ local[t] \in [Paths -> Caches]
         /\ \A p \in Paths : local[t][p] \in Caches /\ Exact(local[t][p])
         /\ UNCHANGED local => local' = [local EXCEPT ![t] = local[t]]
         /\ MissedAt(call[t], local[t])
BY DEF PoolInv, IInv, TypeOK, LocalExact, Exact, Missed

\* A step of one thread that changes no cache.
LEMMA CallPools ==
  ASSUME IsFiniteSet(Keys), IsFiniteSet(Threads), PoolInv,
         NEW t \in Threads, UNCHANGED <<vocab, local, shared>>,
         NEW c, call' = [call EXCEPT ![t] = c],
         c # Idle => c.stage \notin {"merge", "publish"},
         MissedAt(c, local[t])
  PROVE  LocalExact' /\ Missed' /\ SharedWithin'
<1>1. /\ local[t] \in [Paths -> Caches]
      /\ \A p \in Paths : Exact(local[t][p])
      /\ local' = [local EXCEPT ![t] = local[t]]
  BY OwnPools
<1> QED BY <1>1, ThreadPools

\* An answered pretoken leaves the call between look-ups or done.
LEMMA PushLeaves ==
  ASSUME PoolInv, NEW t \in Threads, call[t] # Idle, NEW ids, Push(t, ids)
  PROVE  \E c : /\ call' = [call EXCEPT ![t] = c]
                /\ c.stage \in {"done", "lookup"}
<1> DEFINE n == Len(call[t].out) + 1
           c == [call[t] EXCEPT !.out = Append(@, ids), !.stage = After(call[t], n)]
<1>1. call[t] \in Calls
  BY DEF PoolInv, IInv, TypeOK
<1>2. call' = [call EXCEPT ![t] = c]
  BY DEF Push
<1>3. c.stage \in {"done", "lookup"}
  BY <1>1 DEF Calls, After
<1> HIDE DEF c
<1> QED BY <1>2, <1>3

\* A thread that fills the cache of its path after a miss.
LEMMA FillPools ==
  ASSUME IsFiniteSet(Keys), PoolInv, NEW t \in Threads, call[t] # Idle,
         call[t].stage \in {"shared", "merge"}, NEW ids \in Results,
         Store(t, Insert(Claim(Mine(t), call[t].bpe), LocalLoad, Key(call[t]), ids))
  PROVE  \E lc \in [Paths -> Caches] :
           /\ local' = [local EXCEPT ![t] = lc]
           /\ \A p \in Paths : Exact(lc[p])
<1> DEFINE c  == call[t]
           k  == Key(c)
           d  == Insert(Claim(Mine(t), c.bpe), LocalLoad, k, ids)
           lc == [local[t] EXCEPT ![c.path] = d]
<1>1. IInv
  BY DEF PoolInv
<1>2. /\ c \in Calls /\ c.bpe \in Nat /\ c.path \in Paths
      /\ local[t] \in [Paths -> Caches]
  BY <1>1, InCall DEF Calls
<1>3. k \in Keys
  BY <1>1, KeyOK
<1>4. Mine(t) \in Caches /\ Exact(Mine(t))
  BY <1>2, OwnPools DEF Mine
<1>5. Mine(t).map[k] = None \/ Mine(t).bpe_id # c.bpe
  BY OwnPools DEF MissedAt, Mine
<1>6. d \in Caches /\ Exact(d)
  BY <1>2, <1>3, <1>4, <1>5, FillExact
<1> HIDE DEF d
<1>7. lc \in [Paths -> Caches]
      /\ \A p \in Paths : lc[p] = IF p = c.path THEN d ELSE local[t][p]
  BY <1>2, <1>6
<1>8. \A p \in Paths : Exact(lc[p])
  BY <1>6, <1>7, OwnPools
<1>9. local' = [local EXCEPT ![t] = lc]
  BY <1>1 DEF Store, IInv, TypeOK, d
<1> QED BY <1>7, <1>8, <1>9

\* A thread that answers its pretoken, whether or not it fills its cache.
LEMMA AnswerPools ==
  ASSUME IsFiniteSet(Keys), IsFiniteSet(Threads), PoolInv, NEW t \in Threads,
         call[t] # Idle, UNCHANGED <<vocab, shared>>, NEW ids, Push(t, ids),
         \/ UNCHANGED local
         \/ /\ call[t].stage \in {"shared", "merge"} /\ ids \in Results
            /\ Store(t, Insert(Claim(Mine(t), call[t].bpe), LocalLoad,
                               Key(call[t]), ids))
  PROVE  LocalExact' /\ Missed' /\ SharedWithin'
<1>1. PICK c : call' = [call EXCEPT ![t] = c] /\ c.stage \in {"done", "lookup"}
  BY PushLeaves
<1>2. PICK lc \in [Paths -> Caches] : /\ local' = [local EXCEPT ![t] = lc]
                                     /\ \A p \in Paths : Exact(lc[p])
  BY FillPools, OwnPools
<1>3. MissedAt(c, lc)
  BY <1>1 DEF MissedAt
<1> QED BY <1>1, <1>2, <1>3, ThreadPools

\* A call begins between look-ups or done.
LEMMA BeginOnePools ==
  ASSUME IsFiniteSet(Keys), IsFiniteSet(Threads), PoolInv, NEW t \in Threads,
         NEW p, NEW b, NEW keys, BeginOne(t, p, b, keys)
  PROVE  LocalExact' /\ Missed' /\ SharedWithin'
<1>1. PICK c : call' = [call EXCEPT ![t] = c] /\ c.stage \in {"done", "lookup"}
  <2> DEFINE new(out, stage) ==
               [path |-> p, bpe |-> b, keys |-> keys, batch |-> FALSE,
                out |-> out, stage |-> stage]
  <2>1. \/ call' = [call EXCEPT ![t] = new(<<>>, "done")]
        \/ call' = [call EXCEPT ![t] = new(<<Ids(p, vocab[b], keys[1])>>, "done")]
        \/ call' = [call EXCEPT ![t] = new(<<>>, "lookup")]
    BY DEF BeginOne
  <2>2. \A out, stage : new(out, stage).stage = stage
    OBVIOUS
  <2> HIDE DEF new
  <2> QED BY <2>1, <2>2
<1>2. MissedAt(c, local[t])
  BY <1>1 DEF MissedAt
<1>3. UNCHANGED <<vocab, local, shared>>
  BY DEF BeginOne
<1> QED BY <1>1, <1>2, <1>3, CallPools

LEMMA BeginBatchPools ==
  ASSUME IsFiniteSet(Keys), IsFiniteSet(Threads), PoolInv, NEW t \in Threads,
         NEW b \in 1..Len(vocab), NEW keys, BeginBatch(t, b, keys)
  PROVE  LocalExact' /\ Missed' /\ SharedWithin'
<1> DEFINE stage == IF keys = <<>> THEN "done" ELSE "lookup"
           c == [path |-> "fused", bpe |-> b, keys |-> keys, batch |-> TRUE,
                 out |-> <<>>, stage |-> stage]
           e == Claim(local[t]["fused"], b)
           lc == [local[t] EXCEPT !["fused"] = e]
<1>1. /\ "fused" \in Paths /\ UNCHANGED <<vocab, shared>>
      /\ call' = [call EXCEPT ![t] = c]
      /\ local' = [local EXCEPT ![t]["fused"] = Claim(@, b)]
  BY DEF BeginBatch
<1>2. c.stage \in {"done", "lookup"}
  OBVIOUS
<1>3. e \in Caches /\ Exact(e)
  <2>1. local[t]["fused"] \in Caches /\ Exact(local[t]["fused"]) /\ b \in Nat
    <3>1. b \in Nat
      BY DEF PoolInv, IInv, TypeOK
    <3>2. "fused" \in Paths
      BY <1>1
    <3> HIDE DEF c, lc, e
    <3> QED BY <3>1, <3>2, OwnPools
  <2> QED BY <2>1, ClearedOK, ClearedCount DEF Claim, Exact
<1> HIDE DEF c, e
<1>4. lc \in [Paths -> Caches]
      /\ \A p \in Paths : lc[p] = IF p = "fused" THEN e ELSE local[t][p]
  BY <1>1, <1>3, OwnPools
<1>5. local' = [local EXCEPT ![t] = lc]
  BY <1>1 DEF PoolInv, IInv, TypeOK, e
<1>6. MissedAt(c, lc) /\ \A p \in Paths : Exact(lc[p])
  BY <1>2, <1>3, <1>4, OwnPools DEF MissedAt
<1> HIDE DEF lc
<1> QED BY <1>1, <1>2, <1>4, <1>5, <1>6, ThreadPools

\* A miss in the thread's own cache is what Missed remembers.
LEMMA LookupLocalPools ==
  ASSUME IsFiniteSet(Keys), IsFiniteSet(Threads), PoolInv, NEW t \in Threads,
         LookupLocal(t)
  PROVE  LocalExact' /\ Missed' /\ SharedWithin'
<1> DEFINE c   == call[t]
           k   == Key(c)
           hit == Mine(t).map[k] # None /\ (c.batch \/ Mine(t).bpe_id = c.bpe)
           new == [c EXCEPT !.stage = "shared"]
<1>1. /\ c # Idle /\ c.stage = "lookup" /\ UNCHANGED <<vocab, local, shared>>
      /\ hit => Push(t, Mine(t).map[k])
      /\ ~ hit => call' = [call EXCEPT ![t] = new]
  BY DEF LookupLocal, In
<1>2. CASE hit
  BY <1>1, <1>2, AnswerPools
<1>3. CASE ~ hit
  <2>1. c \in Calls
    BY <1>1 DEF PoolInv, IInv, TypeOK
  <2>2. /\ new.path = c.path /\ new.bpe = c.bpe /\ new.keys = c.keys
        /\ new.batch = c.batch /\ new.out = c.out /\ new.stage = "shared"
    BY <2>1 DEF Calls
  <2>3. MissedAt(new, local[t])
    <3>1. Key(new) = k
      BY <2>2 DEF Key
    <3> QED BY <1>3, <2>2, <3>1 DEF MissedAt, Mine
  <2> HIDE DEF new
  <2> QED BY <1>1, <1>3, <2>2, <2>3, CallPools
<1> QED BY <1>2, <1>3

\* A miss in the shard makes no thread late; a hit is copied.
LEMMA LookupSharedPools ==
  ASSUME IsFiniteSet(Keys), IsFiniteSet(Threads), PoolInv, NEW t \in Threads,
         LookupShared(t)
  PROVE  LocalExact' /\ Missed' /\ SharedWithin'
<1> DEFINE c   == call[t]
           k   == Key(c)
           ids == Shard(t, k).map[k]
           new == [c EXCEPT !.stage = "merge"]
<1>1. /\ c # Idle /\ c.stage = "shared" /\ UNCHANGED <<vocab, shared>>
      /\ ids = None => call' = [call EXCEPT ![t] = new] /\ UNCHANGED local
      /\ ids # None => /\ Store(t, Insert(Claim(Mine(t), c.bpe), LocalLoad, k, ids))
                       /\ Push(t, ids)
  BY DEF LookupShared, In
<1>2. c \in Calls /\ IInv
  BY <1>1 DEF PoolInv, IInv, TypeOK
<1>3. CASE ids = None
  <2>1. /\ new.path = c.path /\ new.bpe = c.bpe /\ new.keys = c.keys
        /\ new.batch = c.batch /\ new.out = c.out /\ new.stage = "merge"
    BY <1>2 DEF Calls
  <2>2. Key(new) = k /\ Wanted(new) = k
    BY <2>1 DEF Key, Wanted
  <2>3. MissedAt(new, local[t])
    BY <1>1, <2>1, <2>2, OwnPools DEF MissedAt
  <2>4. k \notin Filled(shared[new.bpe][new.path][ShardOf[k]])
    BY <1>3, <2>1 DEF Filled, Shard
  <2> HIDE DEF new, k
  <2> QED BY <1>1, <1>3, <2>2, <2>3, <2>4, OwnPools, ThreadPools
<1>4. CASE ids # None
  <2>1. k \in Keys /\ ShardOf[k] \in Shards
    BY <1>1, <1>2, KeyOK, TokenCacheAssumption
  <2>2. c.bpe \in 1..Len(vocab) /\ c.path \in Paths
    BY <1>1, <1>2, InCall
  <2>3. Shard(t, k) \in Caches
    BY <1>2, <2>1, <2>2, WithinType DEF Shard
  <2>4. ids \in Results
    BY <1>4, <2>1, <2>3 DEF Caches
  <2> QED BY <1>1, <1>4, <2>4, AnswerPools
<1> QED BY <1>3, <1>4

LEMMA MatchWholePools ==
  ASSUME IsFiniteSet(Keys), IsFiniteSet(Threads), PoolInv, NEW t \in Threads,
         MatchWhole(t)
  PROVE  LocalExact' /\ Missed' /\ SharedWithin'
<1> DEFINE c   == call[t]
           k   == Key(c)
           ids == Val(c, k)
<1>1. /\ c # Idle /\ c.stage = "merge" /\ c.path = "fused"
      /\ UNCHANGED <<vocab, shared>> /\ Push(t, ids)
      /\ IF c.batch THEN Store(t, Insert(Mine(t), LocalLoad, k, ids))
                    ELSE UNCHANGED local
  BY DEF MatchWhole, In
<1>2. IInv
  BY DEF PoolInv
<1>3. CASE ~ c.batch
  BY <1>1, <1>3, AnswerPools
<1>4. CASE c.batch
  <2>1. Progressing(t) /\ vocab[c.bpe] \in Vocabs /\ c.path \in Paths
    BY <1>1, <1>2, InCall
  <2>2. Claim(Mine(t), c.bpe) = Mine(t)
    BY <1>1, <1>4, <2>1 DEF Progressing, InProgress, Mine, Claim
  <2>3. k \in Keys
    BY <1>1, <1>2, KeyOK
  <2>4. ids \in Results
    BY <2>1, <2>3 DEF Val, Ids, Results
  <2> QED BY <1>1, <1>4, <2>2, <2>4, AnswerPools
<1> QED BY <1>3, <1>4

\* A merge leaves its thread late if another has published the pretoken since
\* the miss, as it was before.
LEMMA MergePools ==
  ASSUME IsFiniteSet(Keys), IsFiniteSet(Threads), PoolInv, NEW t \in Threads,
         Merge(t)
  PROVE  LocalExact' /\ Missed' /\ SharedWithin'
<1> DEFINE c    == call[t]
           k    == Key(c)
           v    == vocab[c.bpe]
           ids  == Val(c, k)
           gone == [c EXCEPT !.stage = "failed"]
           new  == [c EXCEPT !.stage = "publish", !.out = Append(@, ids)]
<1>1. /\ c # Idle /\ c.stage = "merge" /\ UNCHANGED <<vocab, shared>>
      /\ k \in Fails[v] => call' = [call EXCEPT ![t] = gone] /\ UNCHANGED local
      /\ k \notin Fails[v] =>
           /\ call' = [call EXCEPT ![t] = new]
           /\ Store(t, Insert(Claim(Mine(t), c.bpe), LocalLoad, k, ids))
  BY DEF Merge, In
<1>2. IInv
  BY DEF PoolInv
<1>3. c \in Calls /\ v \in Vocabs /\ c.path \in Paths /\ k \in Keys
  BY <1>1, <1>2, InCall, KeyOK
<1>4. CASE k \in Fails[v]
  <2>1. gone.stage = "failed"
    BY <1>3 DEF Calls
  <2>2. MissedAt(gone, local[t])
    BY <2>1 DEF MissedAt
  <2> HIDE DEF gone
  <2> QED BY <1>1, <1>4, <2>1, <2>2, CallPools
<1>5. CASE k \notin Fails[v]
  <2>1. ids \in Results
    BY <1>3 DEF Val, Ids, Results
  <2>2. PICK lc \in [Paths -> Caches] : /\ local' = [local EXCEPT ![t] = lc]
                                       /\ \A p \in Paths : Exact(lc[p])
    BY <1>1, <1>5, <2>1, FillPools
  <2>3. /\ new.path = c.path /\ new.bpe = c.bpe /\ new.keys = c.keys
        /\ new.stage = "publish" /\ new.out = Append(c.out, ids)
    BY <1>3 DEF Calls
  <2>4. Wanted(new) = Wanted(c)
    <3>1. c.out \in Seq(Results)
      BY <1>3 DEF Calls
    <3>2. Len(new.out) = Len(c.out) + 1
      BY <2>1, <2>3, <3>1
    <3> QED BY <1>1, <2>3, <3>2 DEF Wanted
  <2>5. t \in Missing(new.bpe, new.path, Wanted(new))
    BY <1>1, <2>3, <2>4 DEF Missing
  <2>6. MissedAt(new, lc)
    BY <2>3 DEF MissedAt
  <2> HIDE DEF new
  <2> QED BY <1>1, <1>5, <2>2, <2>5, <2>6, ThreadPools
<1> QED BY <1>4, <1>5

LEMMA PublishPools ==
  ASSUME IsFiniteSet(Keys), IsFiniteSet(Threads), PoolInv, NEW t \in Threads,
         Publish(t)
  PROVE  LocalExact' /\ Missed' /\ SharedWithin'
<1> DEFINE c   == call[t]
           new == [c EXCEPT !.stage = After(c, Len(c.out))]
<1>1. c # Idle /\ call' = [call EXCEPT ![t] = new] /\ UNCHANGED local
  BY DEF Publish, In
<1>2. c \in Calls /\ IInv
  BY <1>1 DEF PoolInv, IInv, TypeOK
<1>3. new.stage \in {"done", "lookup"}
  BY <1>2 DEF Calls, After
<1>4. MissedAt(new, local[t])
  BY <1>3 DEF MissedAt
<1> HIDE DEF new
<1>5. LocalExact' /\ Missed'
  BY <1>1, <1>2, <1>4, OwnPools, LocalStep DEF PoolInv
<1> QED BY <1>5, PublishWithin DEF PoolInv

(***************************************************************************)
(* The theorem.                                                            *)
(***************************************************************************)

LEMMA InitPools == Init => LocalExact /\ Missed /\ SharedWithin
<1> SUFFICES ASSUME Init PROVE LocalExact /\ Missed /\ SharedWithin
  OBVIOUS
<1>1. LocalExact
  BY ClearedCount DEF Init, LocalExact, NoBpe
<1>2. Missed
  BY DEF Init, Missed, MissedAt
<1>3. SharedWithin
  BY DEF Init, SharedWithin
<1> QED BY <1>1, <1>2, <1>3

\* What creating and cloning an instance have in common.
NewInstanceStep(v) ==
  /\ vocab' = Append(vocab, v)
  /\ shared' = Append(shared, FreshShards)
  /\ UNCHANGED <<local, call>>

LEMMA NextPools ==
  ASSUME IsFiniteSet(Keys), IsFiniteSet(Threads), PoolInv, [Next]_vars
  PROVE  PoolInv'
<1>1. SUFFICES LocalExact' /\ Missed' /\ SharedWithin'
  BY NextIInv DEF PoolInv
<1>2. ASSUME NEW v, NewInstanceStep(v) PROVE LocalExact' /\ Missed' /\ SharedWithin'
  <2>1. SharedWithin'
    BY <1>2, NewWithin DEF NewInstanceStep, PoolInv
  <2>2. LocalExact' /\ Missed'
    BY <1>2 DEF NewInstanceStep, PoolInv, LocalExact, Missed, MissedAt, Key, Count
  <2> QED BY <2>1, <2>2
<1>3. ASSUME NEW v \in Vocabs, NewBpe(v) PROVE LocalExact' /\ Missed' /\ SharedWithin'
  BY <1>2, <1>3 DEF NewBpe, NewInstanceStep
<1>4. ASSUME NEW b \in 1..Len(vocab), CloneBpe(b)
      PROVE  LocalExact' /\ Missed' /\ SharedWithin'
  BY <1>2, <1>4 DEF CloneBpe, NewInstanceStep
<1>5. ASSUME NEW t \in Threads, NEW p \in Paths, NEW b \in 1..Len(vocab),
             NEW keys \in Batches, BeginOne(t, p, b, keys)
      PROVE  LocalExact' /\ Missed' /\ SharedWithin'
  BY <1>5, BeginOnePools
<1>6. ASSUME NEW t \in Threads, NEW b \in 1..Len(vocab), NEW keys \in Batches,
             BeginBatch(t, b, keys)
      PROVE  LocalExact' /\ Missed' /\ SharedWithin'
  BY <1>6, BeginBatchPools
<1>7. ASSUME NEW t \in Threads, PassReady(t)
      PROVE  LocalExact' /\ Missed' /\ SharedWithin'
  <2>1. /\ call[t] # Idle /\ UNCHANGED <<vocab, local, shared>>
        /\ Push(t, Val(call[t], Key(call[t])))
    BY <1>7 DEF PassReady, In
  <2> QED BY <2>1, AnswerPools
<1>8. ASSUME NEW t \in Threads, LookupLocal(t)
      PROVE  LocalExact' /\ Missed' /\ SharedWithin'
  BY <1>8, LookupLocalPools
<1>9. ASSUME NEW t \in Threads, LookupShared(t)
      PROVE  LocalExact' /\ Missed' /\ SharedWithin'
  BY <1>9, LookupSharedPools
<1>10. ASSUME NEW t \in Threads, MatchWhole(t)
       PROVE  LocalExact' /\ Missed' /\ SharedWithin'
  BY <1>10, MatchWholePools
<1>11. ASSUME NEW t \in Threads, Merge(t)
       PROVE  LocalExact' /\ Missed' /\ SharedWithin'
  BY <1>11, MergePools
<1>12. ASSUME NEW t \in Threads, Publish(t)
       PROVE  LocalExact' /\ Missed' /\ SharedWithin'
  BY <1>12, PublishPools
<1>13. ASSUME NEW t \in Threads, Finish(t)
       PROVE  LocalExact' /\ Missed' /\ SharedWithin'
  <2>1. /\ UNCHANGED <<vocab, local, shared>>
        /\ call' = [call EXCEPT ![t] = Idle]
    BY <1>13 DEF Finish
  <2>2. MissedAt(Idle, local[t])
    BY DEF MissedAt
  <2> QED BY <2>1, <2>2, CallPools
<1>14. CASE UNCHANGED vars
  <2>1. vocab' = vocab /\ local' = local /\ shared' = shared /\ call' = call
    BY <1>14 DEF vars
  <2>2. LocalExact'
    BY <2>1 DEF PoolInv, LocalExact, Count
  <2>3. Missed'
    BY <2>1 DEF PoolInv, Missed, MissedAt, Key
  <2>4. ASSUME NEW b \in 1..Len(vocab), NEW p \in Paths, NEW s \in Shards
        PROVE  Within(b, p, s)'
    <3>1. Within(b, p, s)
      BY DEF PoolInv, SharedWithin
    <3>2. Late(b, p, s)' = Late(b, p, s)
      BY <2>1 DEF Late, Missing, Wanted, Filled
    <3> QED BY <2>1, <3>1, <3>2 DEF Within, Count
  <2> QED BY <2>1, <2>2, <2>3, <2>4 DEF SharedWithin
<1> QED
  BY <1>3, <1>4, <1>5, <1>6, <1>7, <1>8, <1>9, <1>10, <1>11, <1>12, <1>13, <1>14
  DEF Next

\* For any finite number of threads and pretokens: a thread-local pool holds one
\* range per entry, although FlatCache would append again for a pretoken it
\* already holds; and a shard's pool holds at most one range per entry and
\* thread, however the threads race, since only those that missed an entry
\* before it was published write it again.
THEOREM PoolsBounded ==
  IsFiniteSet(Keys) /\ IsFiniteSet(Threads) => (Spec => []PoolBounded)
<1> SUFFICES ASSUME IsFiniteSet(Keys), IsFiniteSet(Threads)
             PROVE  Spec => []PoolBounded
  OBVIOUS
<1>1. Init => PoolInv
  BY InitIInv, InitPools DEF PoolInv
<1>2. PoolInv /\ [Next]_vars => PoolInv'
  BY NextPools
<1>3. PoolInv => PoolBounded
  <2> SUFFICES ASSUME PoolInv,
                      NEW b \in 1..Len(vocab), NEW p \in Paths, NEW s \in Shards
               PROVE  shared[b][p][s].pool <=
                        Cardinality(Threads) * Count(shared[b][p][s])
    BY DEF PoolInv, PoolBounded, LocalExact
  <2>1. IInv /\ Within(b, p, s)
    BY DEF PoolInv, SharedWithin
  <2> DEFINE m == Cardinality(Threads) * Count(shared[b][p][s])
  <2>2. /\ shared[b][p][s].pool \in Nat /\ Cardinality(Late(b, p, s)) \in Nat
        /\ m \in Nat
    BY <2>1, WithinType
  <2>3. shared[b][p][s].pool + Cardinality(Late(b, p, s)) <= m
    BY <2>1 DEF Within
  <2> HIDE DEF m
  <2>4. shared[b][p][s].pool <= m
    BY <2>2, <2>3
  <2> QED BY <2>4 DEF m
<1> QED BY <1>1, <1>2, <1>3, PTL DEF Spec
=============================================================================
