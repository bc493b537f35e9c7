---------------------------- MODULE BpeTokenize ----------------------------
(***************************************************************************)
(* Loaded models and the merge procedures together: what tokenize_into and *)
(* tokenize_into_fused (src/models/bpe.rs) answer for a text, apart from   *)
(* their caches.                                                           *)
(***************************************************************************)
EXTENDS BpeMerge, BpeModel

Known(json, char) == <<char>> \in DOMAIN json.vocab

\* The encoded path can fall back to the bytes of a character, the fused cannot.
Tokens(json, text, raw) ==
    LET Given(char) == Known(json, char) \/ (~ raw /\ char \in DOMAIN json.fallback)
        Ids(char)   == IF Known(json, char) THEN <<json.vocab[<<char>>]>> ELSE json.fallback[char]
    IN  IF \A i \in 1..Len(text) : Given(text[i])
        THEN FlattenSeq([i \in 1..Len(text) |-> Ids(text[i])])
        ELSE <<>>

\* The calls of a loaded model; file is the rank file it was made of, or NoFile.
NoFile == [t \in {} |-> t]

CallsOf(json, file, texts, paths) ==
    LET table   == parse_merges(json)
        orphans == Orphans(json)
        Found(text, raw) ==
            IF raw THEN whole_pretoken_id(json, text) ELSE whole_token(json, orphans, text)
    IN  {[json |-> json, file |-> file, text |-> text, raw |-> raw, table |-> table,
          tokens |-> Tokens(json, text, raw), whole |-> Found(text, raw)] :
            text \in texts, raw \in paths}

\* The calls are of models that are well formed and load without an error.
ASSUME ModelsAssumption ==
    /\ Invalid = INVALID_TOKEN
    /\ \A cl \in Calls :
           /\ IsJson(cl.json) /\ Loads(cl.json)
           /\ cl.text \in Seq(STRING)
           /\ cl \in CallsOf(cl.json, cl.file, {cl.text}, {cl.raw})

-----------------------------------------------------------------------------
Answered == pc = "done" /\ out # <<Invalid>>

NoFallback == \A i \in 1..Len(call.text) : Known(call.json, call.text[i])

\* No id is listed for two texts, which a loaded model may do.
Distinct(json) ==
    \A s, t \in DOMAIN json.vocab : json.vocab[s] = json.vocab[t] => s = t

\* The texts of the tokens answered are, put together, the text tokenized:
\* no symbol is dropped, doubled or left behind in the list by a merge.
Spells == (Answered /\ NoFallback /\ Distinct(call.json)) =>
    FlattenSeq([i \in 1..Len(out) |-> TextOf(call.json, out[i])]) = call.text

\* The token sequence the merges make of ids, one merge after the other.
Merges(table, ids) ==
    LET To[ts \in Seq(Int)] ==
            LET i == BestAt(table, ts) IN IF i = 0 THEN ts ELSE To[MergedAt(table, ts, i)]
    IN  To[ids]

\* The pretoken has been found as a token of the encoded path.
FoundWhole == Answered /\ call.whole # Invalid /\ ~ call.raw /\ NoFallback

\* When all but one merge is done, the two tokens left can be merged.
LastMergeListed ==
    LET left == encoding_decomposition(call.table, CharIds(call.json, call.text))
    IN  Len(left) = 2 => left \in DOMAIN call.table

\* A pretoken found as a whole is one the merges would have made a single token of,
\* if the last of them is in the list: the encoded and the fused path answer alike
\* unless the model ignores merges (test cache_consistency_fused compares only a path
\* with itself).
WholeIsMerged == (FoundWhole /\ Distinct(call.json) /\ LastMergeListed) =>
    out = Merges(call.table, CharIds(call.json, call.text))

\* What tiktoken answers: the neighbours of the lowest joint rank, leftmost first.
TiktokenMerges(file, text) ==
    LET Joint(ps, i) == ps[i] \o ps[i + 1]
        Pairs(ps) == {i \in 1..(Len(ps) - 1) : Joint(ps, i) \in DOMAIN file}
        Best(ps) == CHOOSE i \in Pairs(ps) : \A j \in Pairs(ps) :
                        \/ file[Joint(ps, i)] < file[Joint(ps, j)]
                        \/ Joint(ps, i) = Joint(ps, j) /\ i <= j
        To[ps \in Seq(Seq(STRING))] ==
            IF Pairs(ps) = {} THEN ps
            ELSE LET i == Best(ps)
                 IN  To[SubSeq(ps, 1, i - 1) \o <<Joint(ps, i)>> \o SubSeq(ps, i + 2, Len(ps))]
    IN  To[[p \in 1..Len(text) |-> <<text[p]>>]]

\* A model made of a rank file answers what tiktoken answers for the ranks,
\* although tiktoken compares joint ranks and the model a list of pairs in
\* which the pairs of one joint rank come in an order of their own.
TiktokenAgrees == (Answered /\ call.file # NoFile /\ call.whole = Invalid) =>
    out = LET parts == TiktokenMerges(call.file, call.text)
          IN  [i \in 1..Len(parts) |-> call.file[parts[i]]]

\* Two tokens can stand side by side exactly if the text of the two is
\* answered by them: is_compatible_token_pair knows without merging.
Compatible == (Answered /\ call.whole = Invalid /\ call.file # NoFile) =>
    \A cut \in 1..(Len(call.text) - 1) :
        LET vocab == call.json.vocab
            l == SubSeq(call.text, 1, cut)
            r == SubSeq(call.text, cut + 1, Len(call.text))
        IN  {l, r} \subseteq DOMAIN vocab =>
                (is_compatible_token_pair(call.json, vocab[l], vocab[r])
                    <=> out = <<vocab[l], vocab[r]>>)

-----------------------------------------------------------------------------
(* What the proof of Spells rests on. *)

\* The part of the text that a symbol of the list stands for.
Segment(text, s, i) == SubSeq(text, i, IF s[i].next = 0 THEN Len(text) ELSE s[i].next - 1)

\* The token of each symbol is the one of its part of the text.
Covers(json, text, s) ==
    \A i \in LiveIn(s) : s[i].c \in VocabIds(json) /\ TextOf(json, s[i].c) = Segment(text, s, i)

\* While it is merged, the list covers the text, whatever is left to do.
TextInv ==
    /\ pc # "idle" => call \in Calls
    /\ Active => call.whole = Invalid
    /\ Active /\ NoFallback /\ Distinct(call.json) => Covers(call.json, call.text, sym)
    /\ pc = "done" /\ call.whole # Invalid => out = <<call.whole>>
    /\ Spells
=============================================================================
