------------------------------ MODULE Pipeline ------------------------------
(***************************************************************************)
(* A Tokenizer (src/lib.rs): the stages of encode, encode_segments and     *)
(* encode_segments_tiktoken_safe on one input, then a DecodeStream over    *)
(* the ids.                                                                *)
(***************************************************************************)
EXTENDS Normalizing

CONSTANTS
    Tokenizers,  \* tokenizer.json files, by name
    Jobs,        \* what is asked: a tokenizer, parts of a text, options
    IdLists,     \* ids to decode that no text gave, a tokenizer, whether to skip special ones
    MaxStep,     \* bound: ids handed to one step of a stream
    TIKTOKEN_MAX_ENCODE_CHARS,
    MAX_CONSECUTIVE_CHARS

IsNormalizerStep(step) ==
    \/ step.kind = "Nfc"
    \/ step.kind \in {"Prepend", "Replace"} /\ AreCodePoints(step.content)

PreTokenizerSteps ==
    [kind : {"Split"}] \cup [kind : {"ByteLevel"}, add_prefix_space : BOOLEAN, use_regex : BOOLEAN]

AddedTokenConfigs ==
    [id : Nat, content : Seq(Bytes), special : BOOLEAN, lstrip : BOOLEAN, normalized : BOOLEAN]

\* Where the ids of the sequence go in a template of a post-processor.
SequenceA == <<NoId>>

\* A tokenizer.json that loads.
IsTokenizer(tk) ==
    /\ tk.added \in Seq(AddedTokenConfigs) /\ \A i \in DOMAIN tk.added : IsText(tk.added[i].content)
    /\ tk.normalizer \in Seq(Range(tk.normalizer))
    /\ \A i \in DOMAIN tk.normalizer : IsNormalizerStep(tk.normalizer[i])
    /\ tk.pre \in Seq(PreTokenizerSteps)
    /\ tk.post \in Seq(Seq(Seq(Nat) \cup {SequenceA}))
    /\ \A s \in DOMAIN tk.vocab : IsText(s) /\ tk.vocab[s] \in Nat
    /\ Builds(tk)

IsJob(j) ==
    /\ j.kind = "encode" /\ j.tk \in DOMAIN Tokenizers
    /\ j.parts \in Seq(Range(j.parts))
    /\ \A i \in DOMAIN j.parts : IsText(j.parts[i].text) /\ j.parts[i].bypass \in BOOLEAN
    /\ j.split_special \in BOOLEAN /\ j.add_special \in BOOLEAN /\ j.safe \in BOOLEAN

ASSUME PipelineAssumption ==
    /\ \A name \in DOMAIN Tokenizers : IsTokenizer(Tokenizers[name])
    /\ \A j \in Jobs : IsJob(j)
    /\ \A list \in IdLists : list.tk \in DOMAIN Tokenizers /\ list.ids \in Seq(Nat)
    /\ TIKTOKEN_MAX_ENCODE_CHARS \in Nat \ {0} /\ MAX_CONSECUTIVE_CHARS \in Nat \ {0}

VARIABLES
    pc,      \* the stage: "idle", "split", "pre", "tokenize", "done", "stream", "failed",
             \* or "encoding" (Encodings)
    job,     \* the tokenizer and the options of the call
    todo,    \* the parts and chunks still to encode
    pts,     \* the PreTokenizedString of the first of them
    ids,     \* the ids so far
    stream   \* the DecodeStream, with what it was given and has returned

vars == <<pc, job, todo, pts, ids, stream>>

This == Tokenizers[job.tk]

-----------------------------------------------------------------------------
(* Pre-tokenizers; the pattern is `\s*\S+|\s+`. *)

\* The positions where a piece begins, and the one after the last character.
Begins(cps) ==
    Chosen([i \in DOMAIN cps |-> i],
           {i \in DOMAIN cps : i = 1 \/ (IsSpace(cps[i]) /\ ~ IsSpace(cps[i - 1]))})
        \o <<Len(cps) + 1>>

PiecesAt(cps, at) == [n \in 1..(Len(at) - 1) |-> Str(SubSeq(cps, at[n], at[n + 1] - 1))]
PiecesOf(cps) == PiecesAt(cps, Begins(cps))
Pieces(s) == PiecesOf(Chars(s))

\* A split for each of the parts that follow one another from a byte on.
SplitsOf(parts, from) ==
    LET Until(n) == from + Len(FlattenSeq(SubSeq(parts, 1, n)))
    IN  [n \in DOMAIN parts |-> Split(Until(n - 1), Until(n), NoId)]

\* Mutant: the ranges are those in the text of the split, not in the buffer.
SplitInText(p) ==
    LET Of(sp) == IF sp.id # NoId THEN <<sp>> ELSE SplitsOf(Pieces(split_text(p, sp)), 1)
    IN  [p EXCEPT !.splits = FlattenSeq([i \in DOMAIN @ |-> Of(@[i])])]

SplitPattern(p) ==
    LET Of(sp) == IF sp.id # NoId THEN <<sp>> ELSE SplitsOf(Pieces(split_text(p, sp)), sp.from)
    IN  [p EXCEPT !.splits = FlattenSeq([i \in DOMAIN @ |-> Of(@[i])])]

is_bulk_only(step) == ~ step.use_regex /\ ~ step.add_prefix_space

\* The bytes of every split, one after the other; empty text is dropped.
WithBytes(acc, s) == WithText(acc, encode_bytes(s))

AddBytes(p, acc, sp) ==
    IF sp.id # NoId THEN WithToken(acc, sp.id)
    ELSE IF sp.from = sp.to THEN acc
    ELSE WithBytes(acc, split_text(p, sp))

pre_tokenize_bulk(p) == LET Add(acc, sp) == AddBytes(p, acc, sp) IN FoldLeft(Add, NoText, p.splits)

Prefixed(step, s) == IF step.add_prefix_space /\ s[1] # 32 THEN <<32>> \o s ELSE s
Matches(step, s) == IF step.use_regex THEN Pieces(Prefixed(step, s)) ELSE <<Prefixed(step, s)>>

AddMatches(step, p, acc, sp) ==
    IF sp.id # NoId THEN WithToken(acc, sp.id)
    ELSE IF sp.from = sp.to THEN acc
    ELSE FoldLeft(WithBytes, acc, Matches(step, split_text(p, sp)))

ByteLevel(step, p) ==
    LET Add(acc, sp) == AddMatches(step, p, acc, sp)
    IN  IF is_bulk_only(step) THEN pre_tokenize_bulk(p) ELSE FoldLeft(Add, NoText, p.splits)

pre_tokenize_step(p, step) == IF step.kind = "Split" THEN SplitPattern(p) ELSE ByteLevel(step, p)
pre_tokenize(steps, p) == FoldLeft(pre_tokenize_step, p, steps)

\* Mutant: any ByteLevel is taken into the model.
FusesAny(steps) ==
    Len(steps) = 2 /\ steps[1].kind = "Split" /\ steps[2].kind = "ByteLevel"

detect_fused_byte_level(steps) ==
    /\ Len(steps) = 2 /\ steps[1].kind = "Split" /\ steps[2].kind = "ByteLevel"
    /\ is_bulk_only(steps[2])

-----------------------------------------------------------------------------
(* The model: BpeTokenize has the merges, here a pretoken is a token or it *)
(* is the tokens of its characters or of their bytes.                      *)

NoIds == <<NoId>>

Utf8Chars(cps) == [i \in DOMAIN cps |-> Utf8(cps[i])]

TokenizeChars(vocab, chars) ==
    LET Hex(char) == [j \in 1..Len(char) |-> Str(<<HEX + char[j]>>)]
        Falls(char) == char \notin DOMAIN vocab
        Known(char) == Falls(char) => \A j \in DOMAIN char : Hex(char)[j] \in DOMAIN vocab
        Ids(char) == IF Falls(char) THEN [j \in DOMAIN char |-> vocab[Hex(char)[j]]] ELSE <<vocab[char]>>
    IN  IF \A i \in DOMAIN chars : Known(chars[i])
        THEN FlattenSeq([i \in DOMAIN chars |-> Ids(chars[i])])
        ELSE NoIds

Tokenize(tk, s) ==
    IF s = <<>> THEN <<>>
    ELSE IF s \in DOMAIN tk.vocab THEN <<tk.vocab[s]>>
    ELSE TokenizeChars(tk.vocab, Utf8Chars(Chars(s)))

\* The ids of the splits; fused, the bytes of a split are encoded here.
UnlessNone(all) == IF \E i \in DOMAIN all : all[i] = NoIds THEN NoIds ELSE FlattenSeq(all)

TokenizeSplits(tk, p, fused) ==
    LET Of(sp) == IF sp.id # NoId THEN <<sp.id>>
                  ELSE Tokenize(tk, IF fused THEN encode_bytes(split_text(p, sp)) ELSE split_text(p, sp))
    IN  UnlessNone([i \in DOMAIN p.splits |-> Of(p.splits[i])])

\* A post-processor is a sequence of templates, whose pieces are the sequence
\* or the ids of a special token.
apply_single(template, encoded) ==
    FlattenSeq([i \in 1..Len(template) |-> IF template[i] = SequenceA THEN encoded ELSE template[i]])

post_process(tk, encoded, add_special) ==
    LET Apply(acc, t) == apply_single(t, acc)
    IN  IF add_special THEN FoldLeft(Apply, encoded, tk.post) ELSE encoded

-----------------------------------------------------------------------------
(* Chunks as legacy tiktoken tokenizers cut them. *)

\* Mutant: the run goes on being counted in the new slice.
RunGoesOn(n) == n + 1
RunBegins(n) == 1

Counted(cps, acc, i) ==
    IF IsSpace(cps[i]) # acc.space
    THEN [acc EXCEPT !.run = 1, !.space = ~ @]
    ELSE IF acc.run + 1 > MAX_CONSECUTIVE_CHARS
    THEN [chunks |-> IF acc.start < i THEN Append(acc.chunks, SubSeq(cps, acc.start, i - 1)) ELSE acc.chunks,
          start |-> i, run |-> RunBegins(acc.run), space |-> acc.space]
    ELSE [acc EXCEPT !.run = @ + 1]

push_whitespace_limited_chunks(cps) ==
    LET Step(acc, i) == Counted(cps, acc, i)
        Ended(all) == Append(all.chunks, SubSeq(cps, all.start, Len(cps)))
    IN  Ended(FoldLeft(Step, [chunks |-> <<>>, start |-> 1, run |-> 0, space |-> IsSpace(cps[1])],
                       [i \in DOMAIN cps |-> i]))

OfAtMost(cps, max) ==
    [n \in 1..((Len(cps) + max - 1) \div max) |->
        SubSeq(cps, (n - 1) * max + 1, Min({n * max, Len(cps)}))]

Limited(outer) == FlattenSeq([n \in DOMAIN outer |-> push_whitespace_limited_chunks(outer[n])])

chunk_chars(s) == Limited(OfAtMost(Chars(s), TIKTOKEN_MAX_ENCODE_CHARS))
Texts(chunks) == [n \in DOMAIN chunks |-> Str(chunks[n])]
tiktoken_safe_chunks(s) == Texts(chunk_chars(s))

-----------------------------------------------------------------------------
(* encode: one stage at a time for one chunk after the other.  Chunks that *)
(* are encoded in parallel are put together in order.                      *)

NoJob == [kind |-> "none"]
NoStream == [window |-> <<>>, prefix |-> <<>>, index |-> 0, given |-> <<>>, seed |-> 0, said |-> <<>>]

Init ==
    /\ pc = "idle" /\ job = NoJob
    /\ todo = <<>> /\ pts = NoText /\ ids = <<>> /\ stream = NoStream

\* The texts a part is encoded as, with the choice to match added tokens in it.
PartsOf(part, safe) ==
    LET texts == IF safe THEN tiktoken_safe_chunks(part.text)
                 ELSE IF part.text = <<>> THEN <<>> ELSE <<part.text>>
    IN  [i \in DOMAIN texts |-> [text |-> texts[i], bypass |-> part.bypass]]

Begin == \E j \in Jobs :
    /\ pc = "idle"
    /\ job' = j
    /\ todo' = FlattenSeq([i \in DOMAIN j.parts |-> PartsOf(j.parts[i], j.safe)])
    /\ pc' = "split"
    /\ UNCHANGED <<pts, ids, stream>>

SplitAdded ==
    /\ pc = "split" /\ todo # <<>>
    /\ pts' = build_pre_tokenized(This, todo[1].text, job.split_special, todo[1].bypass)
    /\ pc' = "pre"
    /\ UNCHANGED <<job, todo, ids, stream>>

\* The whole pre-tokenizer, or its Split alone if the model encodes the bytes.
PreTokenize ==
    /\ pc = "pre"
    /\ pts' = pre_tokenize(IF detect_fused_byte_level(This.pre) THEN <<This.pre[1]>> ELSE This.pre, pts)
    /\ pc' = "tokenize"
    /\ UNCHANGED <<job, todo, ids, stream>>

ModelTokenize ==
    LET new == TokenizeSplits(This, pts, detect_fused_byte_level(This.pre))
    IN  /\ pc = "tokenize"
        /\ IF new = NoIds THEN pc' = "failed" /\ ids' = <<>> ELSE pc' = "split" /\ ids' = ids \o new
        /\ todo' = SubSeq(todo, 2, Len(todo))
        /\ pts' = NoText
        /\ UNCHANGED <<job, stream>>

PostProcess ==
    /\ pc = "split" /\ todo = <<>>
    /\ ids' = post_process(This, ids, job.add_special)
    /\ pc' = "done"
    /\ UNCHANGED <<job, todo, pts, stream>>

-----------------------------------------------------------------------------
(* decode and DecodeStream. *)

AddedToken(tk, id) == {i \in DOMAIN tk.added : tk.added[i].id = id}

\* Added tokens come first; an unknown id is skipped.
id_to_token(tk, id) ==
    IF AddedToken(tk, id) # {} THEN <<Content(tk.added, id)>>
    ELSE LET of == {s \in DOMAIN tk.vocab : tk.vocab[s] = id}
         IN  IF of = {} THEN <<>> ELSE <<CHOOSE s \in of : TRUE>>

\* The tokens that are shown.
Tokens(tk, id, skip) == IF skip /\ id \in SpecialIds(tk.added) THEN <<>> ELSE id_to_token(tk, id)
TokensOf(tk, list, skip) == FlattenSeq([i \in DOMAIN list |-> Tokens(tk, list[i], skip)])

decode(tk, list, skip) == decode_tokens(tk.decoder, TokensOf(tk, list, skip))

Decoded(list) == decode(This, list, job.skip)

BeginIds == \E list \in IdLists :
    /\ pc = "idle"
    /\ job' = [kind |-> "ids", tk |-> list.tk, skip |-> list.skip]
    /\ ids' = list.ids
    /\ pc' = "done"
    /\ UNCHANGED <<todo, pts, stream>>

\* A stream seeded with the first of the ids, of a prompt, say.
NewStream == \E seed \in 0..Len(ids) :
    /\ pc = "done"
    /\ stream' = [NoStream EXCEPT !.window = SubSeq(ids, 1, seed), !.given = SubSeq(ids, 1, seed),
                                  !.seed = seed]
    /\ pc' = "stream"
    /\ UNCHANGED <<job, todo, pts, ids>>

\* Mutant: the prefix is taken over although its last character is not complete.
PrimesIncomplete(st, s) ==
    IF st.prefix = <<>> /\ st.window # <<>>
    THEN [st EXCEPT !.prefix = s, !.index = Len(st.window)]
    ELSE st

\* A window without a prefix is decoded once for it, to s.
Primed(st, s) ==
    IF st.prefix = <<>> /\ st.window # <<>> /\ ~ EndsIncomplete(s)
    THEN [st EXCEPT !.prefix = s, !.index = Len(st.window)]
    ELSE st

\* The stream when the next ids are there, and the text of its window.
Extended(st, new) == [st EXCEPT !.window = @ \o new, !.given = @ \o new]
Looked(st) == [st |-> st, text |-> Decoded(st.window)]
Given(n) == SubSeq(ids, Len(stream.given) + 1, Len(stream.given) + n)
Fed == {Looked(Extended(Primed(stream, Decoded(stream.window)), Given(n))) :
            n \in {k \in 1..MaxStep : Len(stream.given) + k <= Len(ids)}}

\* Mutant: text is held back for a replaced byte anywhere in it.
ReadyWhole(st, s) == Len(s) > Len(st.prefix) /\ REPLACEMENT \notin Range(Chars(s))

\* The text is longer than the prefix, and its last character is complete.
Ready(st, s) == Len(s) > Len(st.prefix) /\ ~ EndsIncomplete(s)

\* Mutant: the window keeps the ids the prefix before it was made of.
KeepsWindow(st, said, window) ==
    [st EXCEPT !.said = @ \o said, !.prefix = Decoded(window), !.index = Len(window)]

\* The new text is returned and the window moves on behind the last prefix.
Spoken(st, said, window) ==
    [st EXCEPT !.said = @ \o said,
               !.window = window, !.prefix = Decoded(window), !.index = Len(window)]

StepHolds ==
    /\ pc = "stream"
    /\ \E fed \in Fed : ~ Ready(fed.st, fed.text) /\ stream' = fed.st
    /\ UNCHANGED <<pc, job, todo, pts, ids>>

StepReturns ==
    /\ pc = "stream"
    /\ \E fed \in Fed :
           /\ Ready(fed.st, fed.text) /\ IsPrefix(fed.st.prefix, fed.text)
           /\ stream' = Spoken(fed.st, SubSeq(fed.text, Len(fed.st.prefix) + 1, Len(fed.text)),
                               SubSeq(fed.st.window, fed.st.index + 1, Len(fed.st.window)))
    /\ UNCHANGED <<pc, job, todo, pts, ids>>

\* The text decoded does not go on from the prefix: the caller starts afresh.
StepFails ==
    /\ pc = "stream"
    /\ \E fed \in Fed :
           /\ Ready(fed.st, fed.text) /\ ~ IsPrefix(fed.st.prefix, fed.text)
           /\ stream' = fed.st
    /\ pc' = "failed"
    /\ UNCHANGED <<job, todo, pts, ids>>

Return ==
    /\ pc \in {"done", "stream", "failed"}
    /\ pc' = "idle" /\ job' = NoJob
    /\ todo' = <<>> /\ pts' = NoText /\ ids' = <<>> /\ stream' = NoStream

Next ==
    \/ Begin \/ SplitAdded \/ PreTokenize \/ ModelTokenize \/ PostProcess
    \/ BeginIds \/ NewStream \/ StepHolds \/ StepReturns \/ StepFails
    \/ Return

Spec == Init /\ [][Next]_vars

-----------------------------------------------------------------------------
Splitting == pc \in {"pre", "tokenize"}

\* At every stage the splits lie one after the other in the buffer, cover it,
\* and cut no character; the split of an added token is empty.
TypeOK ==
    /\ pc \in {"idle", "split", "pre", "tokenize", "done", "stream", "failed", "encoding"}
    /\ Splitting =>
           LET sps == pts.splits
           IN  /\ \A i \in DOMAIN sps :
                      /\ sps[i].from = IF i = 1 THEN 1 ELSE sps[i - 1].to
                      /\ sps[i].from <= sps[i].to /\ sps[i].to <= Len(pts.buffer) + 1
                      /\ IsBoundary(pts.buffer, sps[i].from)
                      /\ sps[i].id # NoId => sps[i].from = sps[i].to
               /\ pts.buffer # <<>> => sps # <<>> /\ Last(sps).to = Len(pts.buffer) + 1

Here == IF pc = "split" /\ todo # <<>> THEN {todo[1]} ELSE {}

\* The prefilter finds what the automaton finds: looking only where a first
\* byte is, and only into a window, no added token is missed or cut short.
PrefilterIsScan == \A part \in Here :
    \A configs \in {This.added, RawConfigs(This), NormalizedConfigs(This)} :
        configs # <<>> => split_prefilter(configs, part.text) = split_full_scan(configs, part.text)

Spelled(configs, segments) ==
    FlattenSeq([i \in DOMAIN segments |->
        IF segments[i].id = NoId THEN segments[i].text ELSE Content(configs, segments[i].id)])

DistinctIds(configs) == \A i, j \in DOMAIN configs : configs[i].id = configs[j].id => i = j

\* Texts and contents of the segments are the input, whichever added tokens are
\* left as text: the cursor rebuilt from the contents stays where the input is,
\* if no two tokens share an id.
SegmentsSpell == \A part \in Here : DistinctIds(This.added) =>
    LET NoStrip == [i \in DOMAIN This.added |-> [This.added[i] EXCEPT !.lstrip = FALSE]]
        segments == split_added(NoStrip, part.text, job.split_special, part.bypass)
    IN  /\ Spelled(NoStrip, segments) = part.text
        /\ \A i \in DOMAIN segments : segments[i].id = NoId => segments[i].text # <<>>
        /\ \A i \in 1..(Len(segments) - 1) : segments[i].id # NoId \/ segments[i + 1].id # NoId

\* Encoding the bytes in the model gives the ids of the whole pre-tokenizer.
FusedAgrees == (pc = "tokenize" /\ detect_fused_byte_level(This.pre)) =>
    TokenizeSplits(This, pts, TRUE) = TokenizeSplits(This, pre_tokenize(<<This.pre[2]>>, pts), FALSE)

\* Characters that are all space, or all none; and the last ones of a chunk, as
\* many as may follow one another.
OneKind(cps) == \A i \in DOMAIN cps : IsSpace(cps[i]) = IsSpace(cps[1])
LastRun(cps) == SubSeq(cps, Len(cps) - MAX_CONSECUTIVE_CHARS + 1, Len(cps))

RunsFit(cps) ==
    \A a, b \in DOMAIN cps : b - a >= MAX_CONSECUTIVE_CHARS => ~ OneKind(SubSeq(cps, a, b))
RunIsFull(cps, next) ==
    Len(cps) >= MAX_CONSECUTIVE_CHARS /\ OneKind(Append(LastRun(cps), next[1]))

CutAsLegacy(text, chunks) ==
    /\ FlattenSeq(chunks) = Chars(text)
    /\ \A i \in DOMAIN chunks : Len(chunks[i]) <= TIKTOKEN_MAX_ENCODE_CHARS /\ RunsFit(chunks[i])
    /\ \A i \in 1..(Len(chunks) - 1) :
           \/ Len(FlattenSeq(SubSeq(chunks, 1, i))) % TIKTOKEN_MAX_ENCODE_CHARS = 0
           \/ RunIsFull(chunks[i], chunks[i + 1])

\* The chunks of a part are the part, none is too long or has too long a run,
\* and a chunk ends only where it would have had to.
ChunksAsLegacy == (pc = "split" /\ ids = <<>> /\ job.safe) =>
    \A part \in Range(job.parts) : CutAsLegacy(part.text, chunk_chars(part.text))

\* A tokenizer whose model encodes the bytes: no two tokens, and no token and
\* added token, share an id, none is for byte fallback, and the decoder leaves
\* added tokens as they are.
Lossless(tk) ==
    /\ tk.normalizer = <<>> /\ detect_fused_byte_level(tk.pre)
    /\ tk.decoder = <<[kind |-> "ByteLevel"]>>
    /\ \A s, t \in DOMAIN tk.vocab : tk.vocab[s] = tk.vocab[t] => s = t
    /\ \A s \in DOMAIN tk.vocab : fallback_byte(s) = NoByte
    /\ \A i \in DOMAIN tk.added :
           /\ Unmapped(tk.added[i].content) = tk.added[i].content
           /\ \A s \in DOMAIN tk.vocab : tk.vocab[s] = tk.added[i].id => s = tk.added[i].content

\* The text of a part, but for the space that tokens strip.
SpelledPart(part) ==
    Spelled(This.added, split_added(This.added, part.text, job.split_special, part.bypass))

\* What is encoded is decoded to the same text, unless the pre-tokenizer or the
\* normalizer add space of their own that the decoder does not take away.
RoundTrip == (pc = "done" /\ job.kind = "encode" /\ ~ job.add_special) =>
    LET parts == FlattenSeq([i \in DOMAIN job.parts |-> PartsOf(job.parts[i], job.safe)])
        plain == Len(parts) = 1 /\ \A i \in DOMAIN ids : AddedToken(This, ids[i]) = {}
    IN  Lossless(This) \/ (This.prepends /\ plain) =>
            decode(This, ids, FALSE) = FlattenSeq([i \in DOMAIN parts |-> SpelledPart(parts[i])])

-----------------------------------------------------------------------------
Seed == SubSeq(stream.given, 1, stream.seed)

\* Every text a stream returns goes on where the one before ended: seed and
\* texts are always the beginning of what the ids given are decoded to at once.
\* With ByteFallback a byte that does not fit changes those before it.
HasFallback == \E i \in DOMAIN This.decoder : This.decoder[i].kind = "ByteFallback"

StreamFaithful == (pc = "stream" /\ ~ HasFallback /\ ~ EndsIncomplete(Decoded(Seed))) =>
    IsPrefix(Decoded(Seed) \o stream.said, Decoded(stream.given))

\* Nothing is held back for good: when the text is complete, it has been
\* returned, although each step decodes only a window (decode_stream_reconstructs_*).
StreamComplete ==
    (pc = "stream" /\ ~ EndsIncomplete(Decoded(Seed)) /\ ~ EndsIncomplete(Decoded(stream.given))) =>
        Decoded(Seed) \o stream.said = Decoded(stream.given)

\* A stream over the ids of a text does not fail.
StreamOfTextGoesOn == (pc = "failed" /\ stream.given # <<>>) => job.kind = "ids"
=============================================================================
