------------------------------ MODULE Pretokens ------------------------------
(***************************************************************************)
(* The data of the BPE model: pretokens, vocabularies, and what a          *)
(* vocabulary answers for a pretoken.  The merge procedure is abstracted   *)
(* to an opaque answer that tells paths, vocabularies and pretokens apart. *)
(***************************************************************************)
EXTENDS Sequences, Integers

CONSTANTS
  Paths,      \* "encoded" (tokenize_into, on ByteLevel-encoded text) and
              \* "fused" (tokenize_into_fused and its batched form, on raw bytes)
  Keys,       \* pretoken texts
  Vocabs,     \* vocabularies with their merges (tokenizer files)
  Batches,    \* the pretoken sequences a caller may pass in one call
  Ready,      \* pretokens that already carry a token id (added tokens)
  Shortcut,   \* [Vocabs -> SUBSET Keys]: one whole-input automaton match
  Whole,      \* [Vocabs -> SUBSET Keys]: whole tokens under ignore_merges
  Fails,      \* [Vocabs -> SUBSET Keys]: a character or byte has no token
  Idle,       \* a thread outside any call
  Pending,    \* a call that has not been answered
  Error       \* the answer of a failed call

Results == Paths \X Vocabs \X Keys

\* A call as its caller sees it.
Requests == [path : Paths, bpe : Nat, keys : Seq(Keys),
             answer : Seq(Results) \cup {Pending, Error}]

ASSUME TokenizingAssumption ==
  /\ Paths \subseteq {"encoded", "fused"}
  /\ Batches \subseteq Seq(Keys)
  /\ Ready \subseteq Keys
  /\ Shortcut \in [Vocabs -> SUBSET Keys]
  /\ Whole \in [Vocabs -> SUBSET Keys]
  /\ Fails \in [Vocabs -> SUBSET Keys]
  /\ Pending # Error
  /\ Pending \notin Seq(Results)
  /\ Error \notin Seq(Results)
  /\ Idle \notin Requests

\* The ids of one pretoken: what a vocabulary gives on a path, as an opaque
\* value that tells vocabularies, paths and pretokens apart.
Ids(p, v, k) == <<p, v, k>>

\* Pretokens that are answered without the merge procedure.
Known(p, v) == Ready \cup IF p = "encoded" THEN Shortcut[v] ELSE Whole[v]

Fatal(p, v, k) == k \in Fails[v] \ Known(p, v)

Answer(p, v, keys) ==
  IF \E i \in DOMAIN keys : Fatal(p, v, keys[i])
  THEN Error
  ELSE [i \in 1..Len(keys) |-> Ids(p, v, keys[i])]
=============================================================================
