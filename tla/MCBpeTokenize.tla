--------------------------- MODULE MCBpeTokenize ---------------------------
(***************************************************************************)
(* Instances of BpeTokenize: every short text under every vocabulary that  *)
(* training on two characters can reach in a few merges, and small models  *)
(* given by a list of merges.                                              *)
(***************************************************************************)
EXTENDS BpeTokenize

Texts(S, from, to) == UNION {[1..n -> S] : n \in from..to}

\* Rank files: one more token at a time, made of two tokens before it.
Bytes == (<<"a">> :> 0) @@ (<<"b">> :> 1)
Grow(f) == {f @@ (t :> Cardinality(DOMAIN f)) :
               t \in {l \o r : l, r \in DOMAIN f} \ DOMAIN f}
One   == {Bytes @@ (t :> 2) : t \in {<<"a", "a">>, <<"a", "b">>}}
Two   == UNION {Grow(f) : f \in One}
Three == {f \in UNION {Grow(f) : f \in Two} : \A t \in DOMAIN f : Len(t) <= 3}

\* Models with merges of their own: ids that are not ranks.
Given(vocab, merges, ignore) ==
    [vocab |-> vocab, merges |-> merges, ignore_merges |-> ignore, fallback |-> [c \in {} |-> <<>>]]

Letters == (<<"a">> :> 3) @@ (<<"b">> :> 1) @@ (<<"c">> :> 2)
Abc == <<"a", "b", "c">>
Ab  == <<"a", "b">>
Bc  == <<"b", "c">>
A   == <<"a">>
B   == <<"b">>
C   == <<"c">>

\* abc is made of either of two pairs; bc wins, or ab, and abc may be listed twice.
Chain(merges) == Given(Letters @@ (Ab :> 4) @@ (Bc :> 5) @@ (Abc :> 0), merges, FALSE)
Lists == {<<<<A, B>>, <<B, C>>, <<A, Bc>>, <<Ab, C>>>>,
          <<<<B, C>>, <<A, B>>, <<Ab, C>>, <<A, Bc>>>>,
          <<<<Ab, C>>, <<A, B>>, <<A, Bc>>, <<B, C>>, <<A, B>>>>}

\* A character that is not in the vocabulary falls back to two bytes.
Fallback == [Given(Letters @@ (Ab :> 0), <<<<A, B>>>>, FALSE) EXCEPT !.fallback = ("e" :> <<3, 1>>)]

\* ab is a token that no merge makes, and there is a merge that needs it.
Unmade == Given(Letters @@ (Ab :> 0) @@ (Abc :> 4), <<<<Ab, C>>>>, FALSE)

\* An id for two letters.
Twice == Given((A :> 0) @@ (B :> 0) @@ (C :> 1) @@ (Ab :> 2), <<<<A, B>>>>, FALSE)

\* No merge ends in abc.
Orphaned == Given(Letters @@ (Abc :> 0), <<>>, FALSE)

FileCalls(files, from, to) ==
    UNION {CallsOf(ranks_to_json(f), f, Texts({"a", "b"}, from, to), {TRUE}) : f \in files}

MCCalls ==
    FileCalls(One \cup Two, 1, 6) \cup FileCalls(Three, 5, 5)
    \cup UNION {CallsOf(json, NoFile, Texts({"a", "b", "c"}, 1, 4), BOOLEAN) :
                    json \in {Chain(l) : l \in Lists} \cup {Orphaned, Unmade, Twice}}
    \cup CallsOf(Fallback, NoFile, Texts({"a", "b", "e"}, 1, 3), BOOLEAN)
=============================================================================
