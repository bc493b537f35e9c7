--------------------------- MODULE BatchedTokenize ---------------------------
(***************************************************************************)
(* How one encode call spreads its splits over the BPE pool and puts the   *)
(* ids back in order: src/src/pre_tokenized.rs, and the choice of the      *)
(* schedule in src/src/lib.rs.  Below a threshold the caller tokenizes by  *)
(* itself; above it the splits are cut in contiguous chunks or, once in    *)
(* the life of a model, grouped by content.  Pool workers take pieces of   *)
(* any call; the first error of a call lets its queued pieces be skipped.  *)
(***************************************************************************)
EXTENDS Integers, Sequences, FiniteSets, SequencesExt

CONSTANTS
  Callers,       \* threads that encode
  Workers,       \* threads of bpe_pool
  Items,         \* contents of a split
  IdsOf,         \* [Items -> Seq(ids)]: none for an empty split
  Bad,           \* contents the model cannot tokenize
  HashOf,        \* [Items -> Nat]
  Inputs,        \* the split sequences a call may have
  Threshold,     \* PARALLEL_THRESHOLD
  MaxWorkers,    \* MAX_AFFINITY_WORKERS
  BucketBits,    \* AFFINITY_BUCKET_BITS
  Width,         \* bits of a location: 32
  Idle,
  Error

\* What has been made of a piece: its ids and, for every split, where they end.
Works ==
  [ids : Seq(Nat), ends : Seq(Nat),
   state : {"queued", "running", "done", "failed", "skipped"}]

Calls ==
  [splits : Inputs, mode : {"sequential", "contiguous", "affine"},
   failed : BOOLEAN, work : Seq(Works), result : Seq(Nat) \cup {Error, Idle}]

ASSUME BatchedAssumption ==
  /\ IsFiniteSet(Workers) /\ Workers # {}
  /\ IdsOf \in [Items -> Seq(Nat)]
  /\ Bad \subseteq Items
  /\ HashOf \in [Items -> Nat]
  /\ Inputs \subseteq Seq(Items)
  /\ Threshold \in Nat \ {0}
  /\ MaxWorkers = 2 ^ BucketBits
  /\ {MaxWorkers, 2 ^ Width} \subseteq Nat \ {0}
  /\ Idle \notin Calls
  /\ Idle \notin Callers \X Nat
  /\ Idle \notin Seq(Nat) \cup {Error}

VARIABLES
  affinity,   \* content_affinity_available of the model
  call,       \* per caller: Idle, or the call it waits for
  task        \* per worker: Idle, or the caller and piece it works on

vars == <<affinity, call, task>>

Init ==
  /\ affinity = TRUE
  /\ call = [c \in Callers |-> Idle]
  /\ task = [w \in Workers |-> Idle]

DivCeil(a, b) == (a + b - 1) \div b

Smaller(a, b) == IF a <= b THEN a ELSE b

(* ------------------------------- Schedules ------------------------------ *)

\* The most splits whose ordinals fit a location beside the bucket.
MaxAffinitySplits == (2 ^ Width - 1) \div 2 ^ BucketBits

\* par_chunks: indices cut in runs of equal length but the last.
Chunks(n) ==
  LET size == DivCeil(n, Cardinality(Workers))
  IN  [j \in 1..DivCeil(n, size) |->
        [i \in 1..Smaller(size, n - (j - 1) * size) |-> (j - 1) * size + i]]

WorkerCount(n) == Smaller(Smaller(Cardinality(Workers), MaxWorkers), n)

\* split_bucket, from 0.
Bucket(splits, i) == HashOf[splits[i]] % WorkerCount(Len(splits))

\* The indices of equal content, in order: the buckets when the first i indices
\* have been pushed, from i = 0 on.
Filling(splits) ==
  LET filled[i \in 0..Len(splits)] ==
        IF i = 0
        THEN [b \in 1..WorkerCount(Len(splits)) |-> <<>>]
        ELSE [filled[i - 1] EXCEPT ![Bucket(splits, i) + 1] = Append(@, i)]
  IN  filled

\* Where split i goes: its ordinal in the bucket, shifted, and the bucket, in
\* as many bits as a u32 has.
Location(splits, i) ==
  LET bucket  == Bucket(splits, i)
      ordinal == Len(Filling(splits)[i - 1][bucket + 1])
  IN  (ordinal * 2 ^ BucketBits + bucket) % 2 ^ Width

Pieces(splits, mode) ==
  CASE mode = "sequential" -> <<[i \in 1..Len(splits) |-> i]>>
    [] mode = "contiguous" -> Chunks(Len(splits))
    [] mode = "affine"     -> Filling(splits)[Len(splits)]

(* -------------------------------- Actions ------------------------------- *)

Queued == [ids |-> <<>>, ends |-> <<>>, state |-> "queued"]

Mode(splits, content_affine) ==
  IF Len(splits) < Threshold THEN "sequential"
  ELSE IF content_affine /\ Len(splits) <= MaxAffinitySplits THEN "affine"
  ELSE "contiguous"

\* Mutation of Begin: the flag is taken before the call is known to be parallel.
BeginTakesFirst(c, splits, prefers) ==
  /\ call[c] = Idle
  /\ LET mode == Mode(splits, prefers /\ affinity)
         n    == Len(Pieces(splits, mode))
     IN  /\ affinity' = (affinity /\ ~ prefers)
         /\ call' = [call EXCEPT ![c] =
              [splits |-> splits, mode |-> mode, failed |-> FALSE,
               work |-> [p \in 1..n |-> Queued], result |-> Idle]]
  /\ UNCHANGED task

\* An encode call reaches the model.  The flag is taken, with a swap, only by a
\* call that will be parallel; prefers says that the pre-tokenizer is of the
\* families that profit.
Begin(c, splits, prefers) ==
  /\ call[c] = Idle
  /\ LET takes == prefers /\ Len(splits) >= Threshold
         mode  == Mode(splits, takes /\ affinity)
         n     == Len(Pieces(splits, mode))
     IN  /\ affinity' = (affinity /\ ~ takes)
         /\ call' = [call EXCEPT ![c] =
              [splits |-> splits, mode |-> mode, failed |-> FALSE,
               work |-> [p \in 1..n |-> Queued], result |-> Idle]]
  /\ UNCHANGED task

\* A free worker takes a piece, of whichever call; a sequential call is its
\* caller's own work.
Take(w, c, p) ==
  /\ task[w] = Idle
  /\ call[c] # Idle
  /\ call[c].mode # "sequential"
  /\ p \in DOMAIN call[c].work
  /\ call[c].work[p].state = "queued"
  /\ task' = [task EXCEPT ![w] = <<c, p>>]
  /\ call' = [call EXCEPT ![c].work[p].state = "running"]
  /\ UNCHANGED affinity

\* The next split of a piece: its ids and, for every split, where they end.
Tokenize(c, p) ==
  LET k    == call[c]
      todo == Pieces(k.splits, k.mode)[p]
      at   == k.work[p]
      item == k.splits[todo[Len(at.ends) + 1]]
      ids  == at.ids \o IdsOf[item]
  IN  IF item \in Bad
      THEN call' = [call EXCEPT ![c].failed = TRUE,
                                ![c].work[p].state = "failed"]
      ELSE call' = [call EXCEPT ![c].work[p] =
                     [at EXCEPT !.ids = ids, !.ends = Append(@, Len(ids))]]

Left(c, p) ==
  Len(Pieces(call[c].splits, call[c].mode)[p]) - Len(call[c].work[p].ends)

WorkOn(w) ==
  /\ task[w] # Idle
  /\ LET c == task[w][1]
         p == task[w][2]
     IN  /\ call[c].work[p].state = "running"
         /\ Left(c, p) > 0
         /\ Tokenize(c, p)
  /\ UNCHANGED <<affinity, task>>

\* Mutation of Leave: a piece that failed is queued again.
LeaveRetries(w) ==
  /\ task[w] # Idle
  /\ LET c == task[w][1]
         p == task[w][2]
         s == call[c].work[p].state
     IN  /\ s = "failed" \/ Left(c, p) = 0
         /\ call' = [call EXCEPT ![c].work[p].state =
                       IF s = "failed" THEN "queued" ELSE "done"]
  /\ task' = [task EXCEPT ![w] = Idle]
  /\ UNCHANGED affinity

\* The piece is through, or has failed.
Leave(w) ==
  /\ task[w] # Idle
  /\ LET c == task[w][1]
         p == task[w][2]
         s == call[c].work[p].state
     IN  /\ s = "failed" \/ Left(c, p) = 0
         /\ call' = [call EXCEPT ![c].work[p].state =
                       IF s = "failed" THEN s ELSE "done"]
  /\ task' = [task EXCEPT ![w] = Idle]
  /\ UNCHANGED affinity

\* collect() into a Result: once a piece has failed, others need not start.
Skip(c, p) ==
  /\ call[c] # Idle
  /\ call[c].failed
  /\ p \in DOMAIN call[c].work
  /\ call[c].work[p].state = "queued"
  /\ call' = [call EXCEPT ![c].work[p].state = "skipped"]
  /\ UNCHANGED <<affinity, task>>

WorkAlone(c) ==
  /\ call[c] # Idle
  /\ call[c].mode = "sequential"
  /\ call[c].work[1].state = "queued"
  /\ IF Left(c, 1) > 0
     THEN Tokenize(c, 1)
     ELSE call' = [call EXCEPT ![c].work[1].state = "done"]
  /\ UNCHANGED <<affinity, task>>

\* The ids of split i of an affine call, cut out of its bucket's.
Slice(k, i) ==
  LET loc   == Location(k.splits, i)
      b     == loc % 2 ^ BucketBits
      pos   == loc \div 2 ^ BucketBits
      at    == k.work[b + 1]
      start == IF pos = 0 THEN 0 ELSE at.ends[pos]
  IN  SubSeq(at.ids, start + 1, at.ends[pos + 1])

Gathered(k) ==
  IF k.mode = "affine"
  THEN FlattenSeq([i \in 1..Len(k.splits) |-> Slice(k, i)])
  ELSE FlattenSeq([p \in DOMAIN k.work |-> k.work[p].ids])

\* No piece of the call is queued, and no worker is at one.
Ended(c) ==
  /\ \A p \in DOMAIN call[c].work :
       call[c].work[p].state \in {"done", "failed", "skipped"}
  /\ {w \in Workers : task[w] # Idle /\ task[w][1] = c} = {}

\* Mutation of Gather: the first error ends the call while workers still read
\* its buffer.
GatherOnError(c) ==
  /\ call[c] # Idle
  /\ call[c].result = Idle
  /\ call[c].failed \/ Ended(c)
  /\ call' = [call EXCEPT ![c].result =
                IF call[c].failed THEN Error ELSE Gathered(call[c])]
  /\ UNCHANGED <<affinity, task>>

\* Mutation of Gather: pieces that failed or were skipped count as empty.
GatherWhatIsThere(c) ==
  /\ call[c] # Idle
  /\ call[c].result = Idle
  /\ Ended(c)
  /\ call' = [call EXCEPT ![c].result =
                IF call[c].mode = "affine" /\ call[c].failed THEN Error
                ELSE Gathered(call[c])]
  /\ UNCHANGED <<affinity, task>>

\* install() returns when every piece has ended.
Gather(c) ==
  /\ call[c] # Idle
  /\ call[c].result = Idle
  /\ Ended(c)
  /\ call' = [call EXCEPT ![c].result =
                IF call[c].failed THEN Error ELSE Gathered(call[c])]
  /\ UNCHANGED <<affinity, task>>

Return(c) ==
  /\ call[c] # Idle
  /\ call[c].result # Idle
  /\ call' = [call EXCEPT ![c] = Idle]
  /\ UNCHANGED <<affinity, task>>

Next ==
  \/ \E c \in Callers :
       \/ \E splits \in Inputs, prefers \in BOOLEAN : Begin(c, splits, prefers)
       \/ WorkAlone(c)
       \/ Gather(c)
       \/ Return(c)
       \/ \E p \in 1..Cardinality(Workers) :
            Skip(c, p) \/ \E w \in Workers : Take(w, c, p)
  \/ \E w \in Workers : WorkOn(w) \/ Leave(w)

Spec == Init /\ [][Next]_vars

\* What runs goes on, and a queued piece is taken in the end although calls keep
\* coming: rayon hands out the calls of the pool first in, first out, and a
\* worker finishes the pieces of a call before it looks for another call.
Fairness ==
  /\ \A w \in Workers : WF_vars(WorkOn(w)) /\ WF_vars(Leave(w))
  /\ \A c \in Callers :
       /\ WF_vars(WorkAlone(c))
       /\ WF_vars(Gather(c))
       /\ \A p \in 1..Cardinality(Workers) :
            SF_vars(\E w \in Workers : Take(w, c, p))

FairSpec == Spec /\ Fairness

(* ------------------------------ Properties ------------------------------ *)

\* The pieces of a call are its splits, each in one piece, and its workers hold
\* pieces only while the caller, whose buffer they read, waits for them.
TypeOK ==
  /\ affinity \in BOOLEAN
  /\ call \in [Callers -> Calls \cup {Idle}]
  /\ task \in [Workers -> (Callers \X Nat) \cup {Idle}]
  /\ \A c \in Callers :
       LET k == call[c]
       IN  k # Idle =>
             \A i \in DOMAIN k.splits :
               Cardinality({p \in DOMAIN k.work :
                 Contains(Pieces(k.splits, k.mode)[p], i)}) = 1
  /\ \A w \in Workers :
       task[w] # Idle =>
         /\ call[task[w][1]] # Idle
         /\ call[task[w][1]].result = Idle
         /\ call[task[w][1]].work[task[w][2]].state \in {"running", "failed"}

\* What tokenizing the splits one after the other gives.
Expected(splits) ==
  IF \E i \in DOMAIN splits : splits[i] \in Bad
  THEN Error
  ELSE FlattenSeq([i \in 1..Len(splits) |-> IdsOf[splits[i]]])

\* Whatever the schedule, and whatever calls share the workers, a call returns
\* the ids of its splits in their order, or the error of one of them.
InOrder ==
  \A c \in Callers :
    call[c] # Idle /\ call[c].result # Idle =>
      call[c].result = Expected(call[c].splits)

\* One call only is scheduled by content, whichever calls race for it: a call that
\* is takes the flag, and nothing gives the flag back. Nor is it lost on a call that
\* the caller tokenizes by itself.
FlagWellSpent ==
  [][/\ affinity' => affinity
     /\ \A c \in Callers :
          call[c] = Idle /\ call'[c] # Idle /\ call'[c].mode = "affine" =>
            affinity /\ ~ affinity'
     /\ affinity /\ ~ affinity' =>
          \E c \in Callers :
            /\ call[c] = Idle
            /\ call'[c] # Idle
            /\ call'[c].mode # "sequential"]_vars

\* Every call is answered, also when a piece of it fails or other callers keep
\* the workers busy.
Answered ==
  \A c \in Callers :
    call[c] # Idle ~> (call[c] = Idle \/ call[c].result # Idle)

(* ------------------------- Inductive invariant -------------------------- *)

\* The ids of each of the first n splits of piece p.
IdsOfFirst(k, p, n) ==
  [j \in 1..n |-> IdsOf[k.splits[Pieces(k.splits, k.mode)[p][j]]]]

\* A piece holds the ids of the splits it has been through, none of them bad,
\* in the order of the piece, and the ends of each.
PieceSound(k, p) ==
  LET todo == Pieces(k.splits, k.mode)[p]
      at   == k.work[p]
      met  == Len(at.ends)
  IN  /\ met <= Len(todo)
      /\ at.ids = FlattenSeq(IdsOfFirst(k, p, met))
      /\ \A j \in 1..met :
           /\ k.splits[todo[j]] \notin Bad
           /\ at.ends[j] = Len(FlattenSeq(IdsOfFirst(k, p, j)))
      /\ at.state = "done" => met = Len(todo)
      /\ at.state \in {"failed", "skipped"} => k.failed

Closed(k) ==
  \A p \in DOMAIN k.work : k.work[p].state \in {"done", "failed", "skipped"}

CallSound(k) ==
  /\ k.mode # "sequential" => Len(k.splits) > 0
  /\ k.mode = "affine" => Len(k.splits) <= MaxAffinitySplits
  /\ Len(k.work) = Len(Pieces(k.splits, k.mode))
  /\ \A p \in DOMAIN k.work : PieceSound(k, p)
  /\ k.failed => \E i \in DOMAIN k.splits : k.splits[i] \in Bad
  /\ k.result # Idle => Closed(k) /\ k.result = Expected(k.splits)

\* A worker's piece is a piece of a call that waits, and no other worker's.
TaskSound ==
  /\ \A w \in Workers :
       task[w] # Idle =>
         /\ call[task[w][1]] # Idle
         /\ call[task[w][1]].result = Idle
         /\ task[w][2] \in DOMAIN call[task[w][1]].work
         /\ call[task[w][1]].work[task[w][2]].state \in {"running", "failed"}
  /\ \A v, w \in Workers : task[v] = task[w] /\ task[v] # Idle => v = w

IInv ==
  /\ affinity \in BOOLEAN
  /\ call \in [Callers -> Calls \cup {Idle}]
  /\ task \in [Workers -> (Callers \X Nat) \cup {Idle}]
  /\ \A c \in Callers : call[c] # Idle => CallSound(call[c])
  /\ TaskSound
=============================================================================
