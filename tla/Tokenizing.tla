----------------------------- MODULE Tokenizing -----------------------------
(***************************************************************************)
(* What the BPE model promises its callers, whatever is cached where and   *)
(* whichever thread asks: a call on a tokenizer instance is answered as if *)
(* its pretokens had been merged from scratch with the vocabulary and the  *)
(* merges of that very instance, and it fails exactly when one of them     *)
(* cannot be tokenized.                                                    *)
(***************************************************************************)
EXTENDS Pretokens

CONSTANT Threads  \* OS threads: Python threads, rayon and pool workers

VARIABLES
  vocab,      \* vocab[b]: the vocabulary of instance b; ids are never reused
  request     \* per thread: Idle, or the call it is in and its answer

reqVars == <<vocab, request>>

Init ==
  /\ vocab = <<>>
  /\ request = [t \in Threads |-> Idle]

\* A tokenizer is loaded or cloned: it gets the next instance id.
Load(v) ==
  /\ vocab' = Append(vocab, v)
  /\ UNCHANGED request

\* A caller sees a call that needs no work answered at once.
Call(t, p, b, keys) ==
  /\ request[t] = Idle
  /\ \E a \in {Pending, Answer(p, vocab[b], keys)} :
       request' = [request EXCEPT ![t] =
                     [path |-> p, bpe |-> b, keys |-> keys, answer |-> a]]
  /\ UNCHANGED vocab

Reply(t) ==
  /\ request[t] # Idle
  /\ request[t].answer = Pending
  /\ LET r == request[t]
     IN  request' = [request EXCEPT ![t].answer =
                       Answer(r.path, vocab[r.bpe], r.keys)]
  /\ UNCHANGED vocab

Return(t) ==
  /\ request[t] # Idle
  /\ request[t].answer # Pending
  /\ request' = [request EXCEPT ![t] = Idle]
  /\ UNCHANGED vocab

Next ==
  \/ \E v \in Vocabs : Load(v)
  \/ \E t \in Threads :
       \/ \E p \in Paths, b \in 1..Len(vocab), keys \in Batches :
            Call(t, p, b, keys)
       \/ Reply(t)
       \/ Return(t)

Spec == Init /\ [][Next]_reqVars
=============================================================================
