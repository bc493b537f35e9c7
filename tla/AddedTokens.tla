---------------------------- MODULE AddedTokens ----------------------------
(***************************************************************************)
(* Added tokens: the matcher with and without its prefilter, and the       *)
(* segments an input is split into (src/added_tokens.rs).                  *)
(***************************************************************************)
EXTENDS Decoding

\* Configs is a sequence of added tokens: id, content, special, lstrip,
\* normalized.  A segment has an id, or NoId and the text to tokenize.
NoId == -1
Token(id) == [id |-> id, text |-> <<>>]
Text(s) == [id |-> NoId, text |-> s]

IsSpace(cp) == cp \in (9..13) \cup {32, 133, 160, 5760, 8232, 8233, 8239, 8287, 12288} \cup (8192..8202)

\* The automaton takes distinct patterns, none of them empty.
from_configs(configs) ==
    /\ \A i \in DOMAIN configs : configs[i].content # <<>>
    /\ \A i, j \in DOMAIN configs : configs[i].content = configs[j].content => i = j

\* Of two tokens of one id the map keeps the content of the last.
Content(configs, id) == configs[Max({i \in DOMAIN configs : configs[i].id = id})].content

SpecialIds(configs) == {configs[i].id : i \in {j \in DOMAIN configs : configs[j].special}}
LstripIds(configs) == {configs[i].id : i \in {j \in DOMAIN configs : configs[j].lstrip}}

start_bytes(configs) == {configs[i].content[1] : i \in DOMAIN configs}
max_token_len(configs) == Max({Len(configs[i].content) : i \in DOMAIN configs})

-----------------------------------------------------------------------------
MatchesAt(configs, s, pos) ==
    {i \in DOMAIN configs : LET n == Len(configs[i].content)
                            IN  pos + n - 1 <= Len(s) /\ SubSeq(s, pos, pos + n - 1) = configs[i].content}

Longest(configs, s, pos) ==
    configs[CHOOSE i \in MatchesAt(configs, s, pos) :
                \A j \in MatchesAt(configs, s, pos) : Len(configs[j].content) <= Len(configs[i].content)]

\* Where the first match in s from pos on begins; past its end if there is none.
NextMatch(configs, s, pos) ==
    Min({Len(s) + 1} \cup {p \in pos..Len(s) : MatchesAt(configs, s, p) # {}})

TextIf(s, first, last) == IF first <= last THEN <<Text(SubSeq(s, first, last))>> ELSE <<>>

split_full_scan(configs, s) ==
    LET From[pos \in 1..(Len(s) + 1)] ==
            LET p == NextMatch(configs, s, pos)
            IN  IF p > Len(s) THEN TextIf(s, pos, Len(s))
                ELSE LET token == Longest(configs, s, p)
                     IN  TextIf(s, pos, p - 1) \o <<Token(token.id)>> \o From[p + Len(token.content)]
    IN  From[1]

\* Mutant: a window one byte short of the longest token.
WindowShort(configs, s, pos) ==
    LET end == Min({pos + max_token_len(configs) - 1, Len(s) + 1})
    IN  SubSeq(s, pos, Min({e \in end..(Len(s) + 1) : IsBoundary(s, e)}) - 1)

\* As long as the longest token, to the end of a character.
Window(configs, s, pos) ==
    LET end == Min({pos + max_token_len(configs), Len(s) + 1})
    IN  SubSeq(s, pos, Min({e \in end..(Len(s) + 1) : IsBoundary(s, e)}) - 1)

\* Only where a token's first byte is, the automaton looks, and only into a window.
split_prefilter(configs, s) ==
    LET Found(pos) == NextMatch(configs, Window(configs, s, pos), 1) = 1
        At[at \in (1..(Len(s) + 1)) \X (1..(Len(s) + 1))] ==
            LET pos == at[1]  prev == at[2]
            IN  IF pos > Len(s) THEN TextIf(s, prev, Len(s))
                ELSE IF s[pos] \in start_bytes(configs) /\ pos >= prev /\ Found(pos)
                     THEN LET token == Longest(configs, Window(configs, s, pos), 1)
                          IN  TextIf(s, prev, pos - 1) \o <<Token(token.id)>>
                                  \o At[<<pos + 1, pos + Len(token.content)>>]
                     ELSE At[<<pos + 1, prev>>]
    IN  At[<<1, 1>>]

MatcherSplit(configs, s) ==
    IF Cardinality(start_bytes(configs)) <= 3 THEN split_prefilter(configs, s)
    ELSE split_full_scan(configs, s)

-----------------------------------------------------------------------------
TrimChars(cps) == SubSeq(cps, 1, Max({k \in 0..Len(cps) : k = 0 \/ ~ IsSpace(cps[k])}))
TrimEnd(s) == Str(TrimChars(Chars(s)))

\* The space before a token that strips it on its left is dropped.
apply_lstrip(configs, segments) ==
    [i \in 1..Len(segments) |->
        IF i < Len(segments) /\ segments[i].id = NoId /\ segments[i + 1].id \in LstripIds(configs)
        THEN Text(TrimEnd(segments[i].text))
        ELSE segments[i]]

split(configs, s) == apply_lstrip(configs, MatcherSplit(configs, s))

\* Mutant: the text before a token that is not special begins at the cursor.
PendingAtCursor(pending, cursor) == cursor

\* Where the text begins that the segment at the cursor goes on with, or begins.
Pending(pending, cursor) == IF pending = 0 THEN cursor ELSE pending

\* Special tokens are put back into the text around them.  The cursor follows
\* the input by the length of the texts and of the contents of the tokens.
WithPending(acc, s) ==
    acc.segments \o (IF acc.pending = 0 THEN <<>> ELSE TextIf(s, acc.pending, acc.cursor - 1))

Kept(configs, s, acc, seg) ==
    IF seg.id = NoId \/ seg.id \in SpecialIds(configs)
    THEN [acc EXCEPT !.pending = Pending(@, acc.cursor),
                     !.cursor = @ + Len(IF seg.id = NoId THEN seg.text ELSE Content(configs, seg.id))]
    ELSE [segments |-> WithPending(acc, s) \o <<Token(seg.id)>>,
          pending |-> 0,
          cursor |-> acc.cursor + Len(Content(configs, seg.id))]

KeptSegments(configs, s, segments) ==
    LET Step(acc, seg) == Kept(configs, s, acc, seg)
    IN  WithPending(FoldLeft(Step, [segments |-> <<>>, pending |-> 0, cursor |-> 1], segments), s)

split_special_as_text(configs, s) ==
    IF s = <<>> THEN <<>>
    ELSE IF SpecialIds(configs) = {} THEN split(configs, s)
    ELSE IF Cardinality(SpecialIds(configs)) = Len(configs) THEN <<Text(s)>>
    ELSE apply_lstrip(configs, KeptSegments(configs, s, MatcherSplit(configs, s)))

\* configs is <<>> for no matcher.
split_added(configs, s, special, bypass) ==
    IF configs = <<>> \/ bypass THEN <<Text(s)>>
    ELSE IF special THEN split_special_as_text(configs, s)
    ELSE split(configs, s)
=============================================================================
