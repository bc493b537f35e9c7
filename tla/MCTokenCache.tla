---------------------------- MODULE MCTokenCache ----------------------------
(***************************************************************************)
(* Small instances of TokenCache: two vocabularies that disagree on every  *)
(* pretoken and on which of them can be tokenized at all.                  *)
(***************************************************************************)
EXTENDS TokenCache

CONSTANTS t1, t2, k1, k2, k3, k4, v1, v2

\* Pretokens by themselves, in a single call or in a batch; batches in which a
\* pretoken follows one that was published, or one that carries its id. For v2, k2
\* cannot be tokenized; k3 does not fit a cache, and is a whole token of v2.
MCBatches == {<<k1>>, <<k3>>, <<k1, k2>>, <<k4, k3>>}

MCShortcut == [v \in Vocabs |-> IF v = v1 THEN {k1} ELSE {}]

MCWhole == [v \in Vocabs |-> IF v = v2 THEN {k3} ELSE {}]

MCFails == [v \in Vocabs |-> IF v = v2 THEN {k2} ELSE {}]

MCShardOf == [k \in Keys |-> 1]

\* Bound: the encoded path and k3 alone are for one thread, while the other has not
\* begun.
Rare(c) == c # Idle /\ (c.path = "encoded" \/ c.keys = <<k3>>)

RareAlone ==
  \/ \A t \in Threads : local[t]["encoded"] = Cleared(NoBpe) /\ ~ Rare(call[t])
  \/ call[t2] = Idle /\ \A p \in Paths : local[t2][p] = Cleared(NoBpe)
=============================================================================
