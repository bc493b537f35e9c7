------------------------------ MODULE Scanners ------------------------------
(***************************************************************************)
(* The hand-written scanners of src/pre_tokenizers/fast_split.rs and       *)
(* fast_split_o200k.rs, and the expressions they stand for.  A text is a   *)
(* sequence of characters; a character stands for all that no expression   *)
(* tells apart, so bytes and their decoding do not appear.  Positions count*)
(* from 1, and the end of a match is the position after its last character.*)
(***************************************************************************)
EXTENDS Integers, SequencesExt

\* Letters with and without case, and those of the contractions among them.
Upper    == {"S", "A"}
Lower    == {"s", "l", "r", "e", "longs"}
Caseless == {"lo"}
HanLo    == {"han"}
Letters  == Upper \cup Lower \cup Caseless \cup HanLo

Numbers  == {"one", "hannum"}
Newlines == {"nl"}
Blank    == {"sp", "tab"} \cup Newlines
Marks    == {"mark"}
Others   == {"quote", "slash", "dot", "hanother"} \cup Marks
Han      == {"han", "hannum", "hanother"}
Chars    == Letters \cup Numbers \cup Blank \cup Others

-----------------------------------------------------------------------------
(***************************************************************************)
(* The meaning of an expression: a sequence of alternatives, each a        *)
(* sequence of items.  An item has its ends from a position in the order   *)
(* in which a backtracking engine tries them.                              *)
(***************************************************************************)
Many == 99  \* no text is as long

Optional(S)   == [kind |-> "run", of |-> S, least |-> 0, most |-> 1]
Star(S)       == [kind |-> "run", of |-> S, least |-> 0, most |-> Many]
Plus(S)       == [kind |-> "run", of |-> S, least |-> 1, most |-> Many]
UpTo(S, n)    == [kind |-> "run", of |-> S, least |-> 1, most |-> n]
Words(W)      == [kind |-> "words", of |-> W, optional |-> FALSE]
MaybeWords(W) == [kind |-> "words", of |-> W, optional |-> TRUE]
NotBefore(S)  == [kind |-> "not_before", of |-> S]

\* The first position from p on whose character is not in S.
Past(text, p, S) == SelectInSubSeq(text \o <<"end">>, p, Len(text) + 1,
                                   LAMBDA c : c \notin S)

HasWord(text, p, word) ==
    p + Len(word) <= Len(text) + 1 /\ SubSeq(text, p, p + Len(word) - 1) = word

\* The ends of least to n characters from p on, the most first.
Run(p, least, n) == [i \in 1..(n - least + 1) |-> p + n - i + 1]

\* Where an item ends that begins at p, in the order they are tried.
Ends(item, text, p) ==
    CASE item.kind = "run" -> Run(p, item.least, Min({item.most, Past(text, p, item.of) - p}))
      [] item.kind = "words" ->
             LET found == SelectSeq(SetToSeq(item.of), LAMBDA w : HasWord(text, p, w))
             IN  [i \in 1..Len(found) |-> p + Len(found[i])]
                     \o (IF item.optional THEN <<p>> ELSE <<>>)
      [] item.kind = "not_before" ->
             IF p <= Len(text) /\ text[p] \in item.of THEN <<>> ELSE <<p>>

NoEnd == 0

\* Backtracking takes the first that succeeds.
FirstEnd(tried) ==
    LET good == SelectSeq(tried, LAMBDA e : e # NoEnd)
    IN  IF good = <<>> THEN NoEnd ELSE good[1]

\* Where the items of an alternative from the i-th on end that match at p, or NoEnd.
RECURSIVE EndOfItems(_, _, _, _)
EndOfItems(items, i, text, p) ==
    LET ends == Ends(items[i], text, p)
    IN  IF i > Len(items) THEN p
        ELSE FirstEnd([k \in DOMAIN ends |-> EndOfItems(items, i + 1, text, ends[k])])

EndOfMatch(pattern, text, p) ==
    FirstEnd([a \in DOMAIN pattern |-> EndOfItems(pattern[a], 1, text, p)])

\* The first match at p or later, as a pair of its start and its end, or none.
RECURSIVE FindAt(_, _, _)
FindAt(pattern, text, p) ==
    LET e == EndOfMatch(pattern, text, p)
    IN  IF p > Len(text) THEN <<>>
        ELSE IF e \notin {NoEnd, p} THEN <<p, e>> ELSE FindAt(pattern, text, p + 1)

\* All matches from p on, those of `find_iter` without the empty ones.
RECURSIVE FindAll(_, _, _)
FindAll(pattern, text, p) ==
    LET m == FindAt(pattern, text, p)
    IN  IF m = <<>> THEN <<>> ELSE <<m>> \o FindAll(pattern, text, m[2])

-----------------------------------------------------------------------------
\* The expressions, as tokenizer.json has them.
Contractions == {<<"quote", "s">>, <<"quote", "S">>, <<"quote", "longs">>,
                 <<"quote", "l", "l">>, <<"quote", "r", "e">>}

NotWord == Chars \ (Newlines \cup Letters \cup Numbers)

BlankAlternatives ==
    << <<Star(Blank), Plus(Newlines)>>,
       <<Plus(Blank), NotBefore(Chars \ Blank)>>,
       <<Plus(Blank)>> >>

Qwen2Pattern(digits) ==
    << <<Words(Contractions)>>,
       <<Optional(NotWord), Plus(Letters)>>,
       <<UpTo(Numbers, digits)>>,
       <<Optional({"sp"}), Plus(Others), Star(Newlines)>> >> \o BlankAlternatives

CaseAlternatives(without) ==
    LET head == (Upper \cup Caseless \cup HanLo \cup Marks) \ without
        tail == (Lower \cup Caseless \cup HanLo \cup Marks) \ without
    IN  << <<Optional(NotWord), Star(head), Plus(tail), MaybeWords(Contractions)>>,
           <<Optional(NotWord), Plus(head), Star(tail), MaybeWords(Contractions)>>,
           <<UpTo(Numbers, 3)>> >>

O200kPattern ==
    CaseAlternatives({})
        \o << <<Optional({"sp"}), Plus(Others), Star(Newlines \cup {"slash"})>> >>
        \o BlankAlternatives

KimiPattern ==
    << <<Plus(Han)>> >> \o CaseAlternatives(Han)
        \o << <<Optional({"sp"}), Plus(Others), Star(Newlines)>> >>
        \o BlankAlternatives

-----------------------------------------------------------------------------
(***************************************************************************)
(* The scanners.  Each returns the end of the pretoken that begins at pos. *)
(* The branches for a byte and for a longer character do the same and are  *)
(* one branch here.                                                        *)
(***************************************************************************)
At(text, p) == IF p <= Len(text) THEN text[p] ELSE "end"

ws_token_end(text, start) ==
    LET p     == Past(text, start, Blank)
        lines == {q \in start..(p - 1) : text[q] \in Newlines}
    IN  CASE lines # {}      -> Max(lines) + 1
          [] p > Len(text)   -> p
          [] p - 1 > start   -> p - 1
          [] OTHER           -> p

scan_numbers_max(text, pos, consumed, max) ==
    Min({Past(text, pos, Numbers), pos + max - consumed})

\* The end of the contraction whose apostrophe is at pos, or pos.
Contraction(text, pos) ==
    CASE At(text, pos + 1) \in {"s", "S", "longs"}                     -> pos + 2
      [] At(text, pos + 1) = "l" /\ At(text, pos + 2) = "l"            -> pos + 3
      [] At(text, pos + 1) = "r" /\ At(text, pos + 2) = "e"            -> pos + 3
      [] OTHER                                                         -> pos

qwen2_advance(maxDigits, text, pos) ==
    LET b0          == text[pos]
        b1          == At(text, pos + 1)
        letters(p)  == Past(text, p, Letters)
        others(p)   == Past(text, Past(text, p, Others), Newlines)
        contraction == Contraction(text, pos)
        prefixing(otherwise) == IF b1 \in Letters THEN letters(pos + 2) ELSE otherwise
    IN  CASE b0 \in Letters  -> letters(pos + 1)
          [] b0 = "sp"       -> (CASE b1 \in Numbers \cup {"end"} -> pos + 1
                                   [] b1 \in Blank -> ws_token_end(text, pos)
                                   [] b1 \in Letters \cup Others ->
                                          prefixing(others(pos + 2)))
          [] b0 \in Numbers  -> scan_numbers_max(text, pos + 1, 1, maxDigits)
          [] b0 \in Newlines -> ws_token_end(text, pos)
          [] b0 = "tab"      -> prefixing(ws_token_end(text, pos))
          [] b0 \in Others   -> IF b0 = "quote" /\ contraction # pos THEN contraction
                                ELSE prefixing(others(pos + 1))

\* The classes of the o200k family: a Han character counts as such, and only
\* under Kimi, besides what it is otherwise.
InHan(han, c) == han /\ c \in Han

\* A run of letters and marks is scanned in the first bracket of the
\* expression until a lower-case letter shows that the second has begun; st
\* is InSecond, or where the last caseless character of the first ended.
InSecond  == -1
NoneSoFar == 0

letter_state(c, end) ==
    CASE c \in Upper                       -> NoneSoFar
      [] c \in Lower                       -> InSecond
      [] c \in Caseless \cup HanLo \cup Marks -> end

RunsOn(han, c) == ~InHan(han, c) /\ c \in Letters \cup Marks

scan_case_run(han, text, pos, state) ==
    LET walk[p \in pos..Len(text) + 1, st \in Int] ==
            IF ~RunsOn(han, At(text, p)) THEN (IF st > NoneSoFar THEN st ELSE p)
            ELSE CASE text[p] \in Upper -> IF st = InSecond THEN p ELSE walk[p + 1, st]
                   [] text[p] \in Lower -> walk[p + 1, InSecond]
                   [] text[p] \notin Upper \cup Lower ->
                          walk[p + 1, IF st = InSecond THEN st ELSE p + 1]
    IN  walk[pos, state]

try_suffix(text, end) ==
    IF At(text, end) = "quote" THEN Contraction(text, end) ELSE end

scan_punct_from(text, pos) == Past(text, pos, Others)

scan_tail(slash, text, pos) ==
    Past(text, pos, Newlines \cup (IF slash THEN {"slash"} ELSE {}))

scan_han_run(text, pos) == Past(text, pos, Han)

advance_pos(slash, han, text, pos) ==
    LET b0        == text[pos]
        b1        == At(text, pos + 1)
        run(p)    == try_suffix(text, scan_case_run(han, text, p + 1,
                                                    letter_state(text[p], p + 1)))
        others(p) == scan_tail(slash, text, scan_punct_from(text, p))
        prefixing(otherwise) == IF RunsOn(han, b1) THEN run(pos + 1) ELSE otherwise
    IN  CASE InHan(han, b0)   -> scan_han_run(text, pos + 1)
          [] RunsOn(han, b0)  -> run(pos)
          [] b0 = "sp"        -> (CASE \/ b1 \in Numbers \cup {"end"}
                                       \/ InHan(han, b1) /\ b1 \in HanLo -> pos + 1
                                    [] b1 \in Blank -> ws_token_end(text, pos)
                                    [] RunsOn(han, b1) \/ b1 \in Others ->
                                           prefixing(others(pos + 2)))
          [] b0 \in Numbers /\ ~InHan(han, b0) ->
                                 scan_numbers_max(text, pos + 1, 1, 3)
          [] b0 \in Newlines  -> ws_token_end(text, pos)
          [] b0 = "tab"       -> prefixing(ws_token_end(text, pos))
          [] b0 \in Others /\ ~RunsOn(han, b0) /\ ~InHan(han, b0) ->
                                 prefixing(others(pos + 1))

-----------------------------------------------------------------------------
Schemes == {"Qwen2", "Qwen2N3", "Kimi", "O200k"}

from_pattern(scheme) ==
    CASE scheme = "Qwen2"   -> Qwen2Pattern(1)
      [] scheme = "Qwen2N3" -> Qwen2Pattern(3)
      [] scheme = "Kimi"    -> KimiPattern
      [] scheme = "O200k"   -> O200kPattern

advance(scheme, text, pos) ==
    CASE scheme = "Qwen2"   -> qwen2_advance(1, text, pos)
      [] scheme = "Qwen2N3" -> qwen2_advance(3, text, pos)
      [] scheme = "Kimi"    -> advance_pos(FALSE, TRUE, text, pos)
      [] scheme = "O200k"   -> advance_pos(TRUE, FALSE, text, pos)

\* A position in [target, limit) that no pretoken crosses, or none: after a
\* newline, before an ASCII character that is no white space.
NoBoundary == 0

BoundaryBeforeSlash(scheme, text, target, limit) ==  \* mutant: for every scheme
    LET follows == {"s", "S", "A", "l", "r", "e", "one"} \cup {"quote", "slash", "dot"}
        safe == {p \in Max({target, 2})..(limit - 1) :
                     text[p - 1] = "nl" /\ text[p] \in follows}
    IN  IF safe = {} THEN NoBoundary ELSE Min(safe)

find_safe_boundary(scheme, text, target, limit) ==
    LET follows == ({"s", "S", "A", "l", "r", "e", "one"} \cup {"quote", "slash", "dot"})
                       \ (IF scheme = "O200k" THEN {"slash"} ELSE {})
        safe == {p \in Max({target, 2})..(limit - 1) :
                     text[p - 1] = "nl" /\ text[p] \in follows}
    IN  IF safe = {} THEN NoBoundary ELSE Min(safe)
=============================================================================
