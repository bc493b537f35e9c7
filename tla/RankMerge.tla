----------------------------- MODULE RankMerge -----------------------------
(***************************************************************************)
(* What byte-pair encoding promises.  A word is a partial function from    *)
(* positions to token ids; as long as some neighbours can be merged, the   *)
(* pair of the lowest rank, and of such pairs the leftmost, is merged.     *)
(***************************************************************************)
EXTENDS Integers

VARIABLES table,  \* a rank and an id for some pairs of ids, or NoWork
          word    \* the tokens that are left, at their positions, or NoWork

NoWork == [i \in {} |-> i]

Follows(w, i, j) ==
    /\ i \in DOMAIN w /\ j \in DOMAIN w /\ i < j
    /\ \A k \in DOMAIN w : k <= i \/ j <= k

MergesAt(t, w, i, j) == Follows(w, i, j) /\ <<w[i], w[j]>> \in DOMAIN t

RankAt(t, w, i, j) == t[<<w[i], w[j]>>].rank

\* No pair of w that could be merged comes before the one at i and j.
Lowest(t, w, i, j) ==
    \A k, l \in DOMAIN w :
        MergesAt(t, w, k, l) =>
            \/ RankAt(t, w, i, j) < RankAt(t, w, k, l)
            \/ RankAt(t, w, i, j) = RankAt(t, w, k, l) /\ i <= k

Init == table = NoWork /\ word = NoWork

\* Any word and any table.
Begin ==
    /\ word = NoWork /\ word' # NoWork
    /\ \A j \in DOMAIN word' : 1..j \subseteq DOMAIN word'

Merge == \E i, j \in DOMAIN word :
    /\ MergesAt(table, word, i, j)
    /\ Lowest(table, word, i, j)
    /\ word' = [k \in DOMAIN word \ {j} |->
                    IF k = i THEN table[<<word[i], word[j]>>].id ELSE word[k]]
    /\ table' = table

Finish ==
    /\ \A i, j \in DOMAIN word : ~ MergesAt(table, word, i, j)
    /\ table' = NoWork /\ word' = NoWork

Next == Begin \/ Merge \/ Finish

Spec == Init /\ [][Next]_<<table, word>>
=============================================================================
