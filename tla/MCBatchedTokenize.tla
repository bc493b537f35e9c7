-------------------------- MODULE MCBatchedTokenize --------------------------
(***************************************************************************)
(* Small instances of BatchedTokenize: twoIds and oneId are of different   *)
(* buckets, noIds is a split without ids, unknown cannot be tokenized.     *)
(* The longest call has more splits of one bucket than a location counts.  *)
(***************************************************************************)
EXTENDS BatchedTokenize

CONSTANTS twoIds, oneId, noIds, unknown, w1, w2

MCIdsOf == [i \in Items |-> CASE i = twoIds -> <<1, 2>> [] i = oneId -> <<3>>
                             [] OTHER -> <<>>]

MCHashOf == [i \in Items |-> CASE i = twoIds -> 0 [] i = oneId -> 1 [] i = noIds -> 2
                              [] OTHER -> 3]

MCInputs ==
  UNION {[1..n -> {twoIds, unknown}] : n \in 0..2}
  \cup {<<twoIds, oneId, noIds>>, <<twoIds, twoIds, noIds, twoIds, noIds>>}
=============================================================================
