---------------------------- MODULE Normalizing ----------------------------
(***************************************************************************)
(* Normalizers and the buffer the pipeline works on (src/normalizers.rs,   *)
(* Tokenizer::build and build_pre_tokenized in src/lib.rs).                *)
(***************************************************************************)
EXTENDS AddedTokens

\* NFC by what it does to one pair: e and an acute accent become one character.
E == 101
ACUTE == 769
E_ACUTE == 233
Composed(acc, cp) ==
    IF cp = ACUTE /\ acc # <<>> /\ Last(acc) = E THEN Append(Front(acc), E_ACUTE) ELSE Append(acc, cp)
Nfc(s) == Str(FoldLeft(Composed, <<>>, Chars(s)))

\* A normalizer is a sequence of steps, <<>> for none.  Patterns are one code point.
normalize_step(step, s) ==
    IF step.kind = "Nfc" THEN Nfc(s)
    ELSE IF step.kind = "Replace" THEN Replaced(s, step.pattern, step.content)
    ELSE IF s = <<>> THEN s ELSE Str(step.content) \o s  \* Prepend

normalize(normalizer, s) == LET Apply(t, step) == normalize_step(step, t) IN FoldLeft(Apply, s, normalizer)

-----------------------------------------------------------------------------
(* Tokenizer::build: two matchers if some added token is normalized. *)

HasNormalizedMatchers(tk) ==
    tk.normalizer # <<>> /\ \E i \in DOMAIN tk.added : tk.added[i].normalized

RawConfigs(tk) == Chosen(tk.added, {i \in DOMAIN tk.added : ~ tk.added[i].normalized})

FirstOfContent(configs) ==
    Chosen(configs, {i \in DOMAIN configs :
        \A j \in DOMAIN configs : configs[j].content = configs[i].content => i <= j})

\* Normalized contents, special tokens first; of equal ones the first.
NormalizedConfigs(tk) ==
    LET chosen == Chosen(tk.added, {i \in DOMAIN tk.added : tk.added[i].normalized})
        all == [i \in DOMAIN chosen |-> [chosen[i] EXCEPT !.content = normalize(tk.normalizer, @)]]
    IN  FirstOfContent(Chosen(all, {i \in DOMAIN all : all[i].special})
                           \o Chosen(all, {i \in DOMAIN all : ~ all[i].special}))

Builds(tk) ==
    /\ from_configs(tk.added)
    /\ HasNormalizedMatchers(tk) => from_configs(RawConfigs(tk)) /\ from_configs(NormalizedConfigs(tk))

-----------------------------------------------------------------------------
(* A PreTokenizedString: a buffer and splits, each a range of the buffer,  *)
(* given by its first byte and the byte after its last, or the id of an    *)
(* added token.                                                            *)

Split(from, to, id) == [from |-> from, to |-> to, id |-> id]
NoText == [buffer |-> <<>>, splits |-> <<>>]

\* pts with text at the end of the buffer, and a split for it.
WithText(pts, s) ==
    [buffer |-> pts.buffer \o s,
     splits |-> Append(pts.splits, Split(Len(pts.buffer) + 1, Len(pts.buffer) + Len(s) + 1, NoId))]

WithToken(pts, id) ==
    [pts EXCEPT !.splits = Append(@, Split(Len(pts.buffer) + 1, Len(pts.buffer) + 1, id))]

split_text(pts, sp) == SubSeq(pts.buffer, sp.from, sp.to - 1)

\* Tokens that are not normalized are matched in the input, the others in what
\* is between them, normalized.
Inner(pts, seg) == IF seg.id = NoId THEN WithText(pts, seg.text) ELSE WithToken(pts, seg.id)

Outer(tk, special, bypass, pts, seg) ==
    IF seg.id # NoId THEN WithToken(pts, seg.id)
    ELSE FoldLeft(Inner, pts,
             split_added(NormalizedConfigs(tk), normalize(tk.normalizer, seg.text), special, bypass))

BuildWithMatchers(tk, s, special, bypass) ==
    LET Add(pts, seg) == Outer(tk, special, bypass, pts, seg)
    IN  FoldLeft(Add, NoText, split_added(RawConfigs(tk), s, special, bypass))

Normalized(tk, pts, seg) ==
    IF seg.id # NoId THEN WithToken(pts, seg.id)
    ELSE IF seg.text = <<>> THEN pts
    ELSE WithText(pts, normalize(tk.normalizer, seg.text))

build_pre_tokenized_from_segments(tk, segments) ==
    LET Add(pts, seg) == Normalized(tk, pts, seg) IN FoldLeft(Add, NoText, segments)

build_pre_tokenized(tk, s, special, bypass) ==
    IF HasNormalizedMatchers(tk) THEN BuildWithMatchers(tk, s, special, bypass)
    ELSE build_pre_tokenized_from_segments(tk, split_added(tk.added, s, special, bypass))
=============================================================================
