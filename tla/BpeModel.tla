----------------------------- MODULE BpeModel ------------------------------
(***************************************************************************)
(* How a byte-pair model is loaded (src/models/bpe.rs) and how a rank file *)
(* is turned into one (src/tiktoken.rs, tiktoken.py).  A text is a tuple   *)
(* of byte-level characters, one for each byte.                            *)
(***************************************************************************)
EXTENDS Integers, Sequences, FiniteSets, SequencesExt

INVALID_TOKEN == -1  \* u32::MAX

\* vocab: ids of texts; merges: pairs of texts; fallback: ids of the bytes of
\* a character, when there is a byte_fallback.
IsJson(json) ==
    /\ \A text \in DOMAIN json.vocab : text \in Seq(STRING) /\ json.vocab[text] \in Nat
    /\ \A r \in 1..Len(json.merges) : DOMAIN json.merges[r] = 1..2
    /\ json.ignore_merges \in BOOLEAN
    /\ \A c \in DOMAIN json.fallback : json.fallback[c] \in Seq(Nat) \ {<<>>}

Left(json, r)   == json.merges[r][1]
Right(json, r)  == json.merges[r][2]
Merged(json, r) == Left(json, r) \o Right(json, r)

VocabIds(json) == {json.vocab[text] : text \in DOMAIN json.vocab}

\* id_to_token: the text an id stands for, one of them if it is listed for several.
TextOf(json, id) == CHOOSE text \in DOMAIN json.vocab : json.vocab[text] = id

\* A pair is of texts of the vocabulary, and so is what it makes; ids leave no gap.
Loads(json) ==
    /\ DOMAIN json.vocab # {}
    /\ <<>> \notin DOMAIN json.vocab
    /\ VocabIds(json) = 0..(Cardinality(VocabIds(json)) - 1)
    /\ \A r \in 1..Len(json.merges) :
           {Left(json, r), Right(json, r), Merged(json, r)} \subseteq DOMAIN json.vocab

IdPair(json, r) == <<json.vocab[Left(json, r)], json.vocab[Right(json, r)]>>

\* The rank of a pair is its place in the list, the last if it is there twice.
parse_merges(json) ==
    [pair \in {IdPair(json, r) : r \in 1..Len(json.merges)} |->
        LET last == CHOOSE r \in 1..Len(json.merges) :
                        /\ IdPair(json, r) = pair
                        /\ \A s \in (r + 1)..Len(json.merges) : IdPair(json, s) # pair
        IN  [rank |-> last - 1, id |-> json.vocab[Merged(json, last)]]]

CharIds(json, text) == [i \in 1..Len(text) |-> json.vocab[<<text[i]>>]]
InVocab(json, text) == \A i \in 1..Len(text) : <<text[i]>> \in DOMAIN json.vocab

-----------------------------------------------------------------------------
(* Which texts of the vocabulary the merges make. *)

\* The place of the first pair of the lowest rank, 0 if there is none.
BestAt(table, tokens) ==
    LET Pairs == {i \in 1..(Len(tokens) - 1) : <<tokens[i], tokens[i + 1]>> \in DOMAIN table}
        Rank(i) == table[<<tokens[i], tokens[i + 1]>>].rank
    IN  IF Pairs = {} THEN 0
        ELSE CHOOSE i \in Pairs :
                 \A j \in Pairs : Rank(i) < Rank(j) \/ (Rank(i) = Rank(j) /\ i <= j)

MergedAt(table, tokens, i) ==
    SubSeq(tokens, 1, i - 1) \o <<table[<<tokens[i], tokens[i + 1]>>].id>>
        \o SubSeq(tokens, i + 2, Len(tokens))

Stuck == <<>>

\* The two tokens left when all but one merge is done.
encoding_decomposition(table, tokens) ==
    LET To[ts \in Seq(Int)] ==
            IF Len(ts) <= 2 THEN ts
            ELSE LET i == BestAt(table, ts)
                 IN  IF i = 0 THEN Stuck ELSE To[MergedAt(table, ts, i)]
    IN  To[tokens]

Decomposes(json, text) == Len(text) >= 2 /\ InVocab(json, text)

\* Mutant: every text of the vocabulary can be found as a whole.
NoOrphans(json) == {}

Orphans(json) ==
    LET table == parse_merges(json) IN
    {text \in DOMAIN json.vocab :
        Decomposes(json, text) /\ encoding_decomposition(table, CharIds(json, text)) = Stuck}

\* The tokens an id was made of, itself twice if of none.
UnmergeMap(json) ==
    LET table == parse_merges(json)
        Text(id) == TextOf(json, id)
        orphans == Orphans(json)
    IN  [id \in VocabIds(json) |->
            IF Decomposes(json, Text(id)) /\ Text(id) \notin orphans
            THEN encoding_decomposition(table, CharIds(json, Text(id)))
            ELSE <<id, id>>]

\* The automaton finds the whole pretoken at once: the texts of the ids are in it.
whole_token(json, orphans, text) ==
    IF text \in DOMAIN json.vocab \ orphans /\ TextOf(json, json.vocab[text]) = text
    THEN json.vocab[text]
    ELSE INVALID_TOKEN

\* With ignore_merges the fused path looks the whole pretoken up too.
whole_pretoken_id(json, text) ==
    IF json.ignore_merges /\ text \in DOMAIN json.vocab THEN json.vocab[text] ELSE INVALID_TOKEN

\* Mutant: merges across the border count however late they come.
CompatibleUnlimited(json, t1, t2) ==
    LET table == parse_merges(json)
        undo  == UnmergeMap(json)
        Undo[s \in Int \X Int] ==
            LET a == s[1]  b == s[2]
                ua == undo[a][2]  ub == undo[b][1]
            IN  IF <<a, b>> \in DOMAIN table THEN FALSE
                ELSE IF a > b
                     THEN IF ua # a THEN Undo[<<ua, b>>] ELSE IF ub # b THEN Undo[<<ua, ub>>] ELSE TRUE
                     ELSE IF ub # b THEN Undo[<<a, ub>>] ELSE IF ua # a THEN Undo[<<ua, ub>>] ELSE TRUE
    IN  Undo[<<t1, t2>>]

\* Would the merges leave t1 and t2 side by side?  Undoes the later of them
\* until neither can be undone, looking for a merge across the border.
is_compatible_token_pair(json, t1, t2) ==
    LET table == parse_merges(json)
        undo  == UnmergeMap(json)
        Across(a, b, limit) == <<a, b>> \in DOMAIN table /\ table[<<a, b>>].id < limit
        Limit == Cardinality(VocabIds(json)) + 1
        Undo[s \in Int \X Int \X Int] ==
            LET a == s[1]  b == s[2]
                ua == undo[a][2]  ub == undo[b][1]
            IN  IF Across(a, b, s[3]) THEN FALSE
                ELSE IF a > b
                     THEN IF ua # a THEN Undo[<<ua, b, a>>]
                          ELSE IF ub # b THEN Undo[<<ua, ub, b + 1>>] ELSE TRUE
                     ELSE IF ub # b THEN Undo[<<a, ub, b + 1>>]
                          ELSE IF ua # a THEN Undo[<<ua, ub, a>>] ELSE TRUE
    IN  Undo[<<t1, t2, Limit>>]

-----------------------------------------------------------------------------
(* Rank files. *)

\* Mutant: only the first way to cut a token in two.
SplitsOnce(ranks) ==
    {c \in [text : DOMAIN ranks, at : 1..Max({Len(t) : t \in DOMAIN ranks})] :
        LET Fits(at) == /\ SubSeq(c.text, 1, at) \in DOMAIN ranks
                        /\ SubSeq(c.text, at + 1, Len(c.text)) \in DOMAIN ranks
        IN  c.at < Len(c.text) /\ Fits(c.at) /\ \A at \in 1..(c.at - 1) : ~ Fits(at)}

\* ranks: from byte sequences to their ranks, none twice.
Splits(ranks) ==
    {c \in [text : DOMAIN ranks, at : 1..Max({Len(t) : t \in DOMAIN ranks})] :
        /\ c.at < Len(c.text)
        /\ SubSeq(c.text, 1, c.at) \in DOMAIN ranks
        /\ SubSeq(c.text, c.at + 1, Len(c.text)) \in DOMAIN ranks}

LeftOf(c)  == SubSeq(c.text, 1, c.at)
RightOf(c) == SubSeq(c.text, c.at + 1, Len(c.text))

\* All pairs that make a token, by the token's rank, then by those of its parts.
ranks_to_json(ranks) ==
    LET Before(c, d) ==
            \/ ranks[c.text] < ranks[d.text]
            \/ c.text = d.text /\ ranks[LeftOf(c)] < ranks[LeftOf(d)]
            \/ c.text = d.text /\ LeftOf(c) = LeftOf(d) /\ ranks[RightOf(c)] < ranks[RightOf(d)]
        all == Splits(ranks)
        candidates == [r \in 1..Cardinality(all) |->
            CHOOSE c \in all : Cardinality({d \in all : Before(d, c)}) = r - 1]
    IN  [vocab |-> ranks,
         merges |-> [r \in 1..Len(candidates) |-> <<LeftOf(candidates[r]), RightOf(candidates[r])>>],
         ignore_merges |-> TRUE, fallback |-> [c \in {} |-> <<>>]]
=============================================================================
