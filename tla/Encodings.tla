----------------------------- MODULE Encodings ------------------------------
(***************************************************************************)
(* The Encoding that Python gets for the ids of the pipeline: truncation   *)
(* and padding of an answer and of a batch, and what a caller does with an *)
(* Encoding afterwards (PyEncoding in python/src/lib.rs).                  *)
(***************************************************************************)
EXTENDS Pipeline

CONSTANTS
    Settings,  \* truncation and padding of a tokenizer, and the rest of a batch
    Lengths,   \* lengths a caller truncates or pads to, and numbers of sequences it sets
    Vecs,      \* ids and vectors a caller sets, whatever their length
    MaxOps     \* bound: what a caller does with one Encoding

\* A vector that is not materialized, and a setting that is not made.
Unset == <<-1>>
Off == [max |-> -1]

ASSUME EncodingsAssumption ==
    /\ Lengths \subseteq Nat
    /\ Vecs \subseteq Seq(Nat)
    /\ \A s \in Settings :
           /\ s.trunc = Off \/ s.trunc.max \in Nat
           /\ s.pad = Off \/ {s.pad.length, s.pad.multiple, s.pad.pad_type} \subseteq Nat
           /\ s.other \in Seq(Nat)

VARIABLES
    enc,      \* the Encoding of the caller
    setting,  \* the truncation and padding it was made with
    ops       \* how much was done with it

encVars == <<enc, setting, ops>>

NoneId == -2
PadId == 50
PadType == 7

make(list) ==
    [ids |-> list, attention_mask |-> Unset, type_ids |-> Unset, special_tokens_mask |-> Unset,
     sequence_ids |-> Unset, word_ids |-> Unset, n_sequences |-> 1]

Vectors == {"attention_mask", "type_ids", "special_tokens_mask", "sequence_ids", "word_ids"}

\* What a vector that is not materialized stands for at each id.
Default == [attention_mask |-> 1, type_ids |-> 0, special_tokens_mask |-> 0, sequence_ids |-> 0, word_ids |-> NoneId]

Times(v, n) == [i \in 1..n |-> v]

materialized(e, field) == IF e[field] = Unset THEN Times(Default[field], Len(e.ids)) ELSE e[field]

\* In the order in which they are sliced.
Place == [attention_mask |-> 1, type_ids |-> 2, special_tokens_mask |-> 3, sequence_ids |-> 4, word_ids |-> 5]

\* Slicing panics at the first vector that ends before the slice: the vectors
\* before it are cut, it and those after it are not.
Reached(e, field, to) ==
    \A g \in Vectors : e[g] # Unset /\ Len(e[g]) < to => Place[g] > Place[field]

\* Mutant: a vector is sliced from its start whatever is cut.
SliceOfIds(e, from, to) ==
    [field \in DOMAIN e |->
        IF field = "ids" THEN SubSeq(e.ids, from, to)
        ELSE IF field \in Vectors /\ e[field] # Unset /\ Reached(e, field, to) THEN SubSeq(e[field], 1, to - from + 1)
        ELSE e[field]]

apply_slice(e, from, to) ==
    [field \in DOMAIN e |->
        IF field = "ids" \/ (field \in Vectors /\ e[field] # Unset /\ Reached(e, field, to))
        THEN SubSeq(e[field], from, to)
        ELSE e[field]]

\* What padding puts at each place it adds.
PadValue(pad_type) ==
    [ids |-> PadId, attention_mask |-> 0, type_ids |-> pad_type, special_tokens_mask |-> 0,
     sequence_ids |-> NoneId, word_ids |-> NoneId]

\* Padding materializes the attention mask and the type ids.
Grown(e) == {"attention_mask", "type_ids"} \cup {field \in Vectors : e[field] # Unset}

\* Cut if it is longer.
resize(vector, n, v) == [i \in 1..n |-> IF i <= Len(vector) THEN vector[i] ELSE v]

extend_right(e, pad_type, count) ==
    [field \in DOMAIN e |->
        IF field = "ids" THEN e.ids \o Times(PadId, count)
        ELSE IF field \in Grown(e)
        THEN resize(materialized(e, field), Len(e.ids) + count, PadValue(pad_type)[field])
        ELSE e[field]]

\* Mutant: a vector that the caller set stays as long as it was.
ExtendsPair(e, pad_type, count) ==
    [field \in DOMAIN e |->
        IF field = "ids" THEN Times(PadId, count) \o e.ids
        ELSE IF field \in {"attention_mask", "type_ids"}
        THEN Times(PadValue(pad_type)[field], count) \o materialized(e, field)
        ELSE e[field]]

extend_left(e, pad_type, count) ==
    [field \in DOMAIN e |->
        IF field = "ids" THEN Times(PadId, count) \o e.ids
        ELSE IF field \in Grown(e) THEN Times(PadValue(pad_type)[field], count) \o materialized(e, field)
        ELSE e[field]]

truncate(e, max, direction) ==
    LET n == Len(e.ids)
    IN  IF n <= max THEN e
        ELSE IF direction = "left" THEN apply_slice(e, n - max + 1, n) ELSE apply_slice(e, 1, max)

pad(e, length, direction, pad_type) ==
    LET n == Len(e.ids)
    IN  IF length <= n THEN e
        ELSE IF direction = "left" THEN extend_left(e, pad_type, length - n)
        ELSE extend_right(e, pad_type, length - n)

merge(e, f) ==
    [field \in DOMAIN e |->
        IF field = "ids" THEN e.ids \o f.ids
        ELSE IF field = "n_sequences" THEN e.n_sequences + f.n_sequences
        ELSE materialized(e, field) \o materialized(f, field)]

-----------------------------------------------------------------------------
(* The answer of encode and of encode_batch. *)

do_truncate(trunc, list) ==
    LET n == Len(list)
    IN  IF trunc = Off \/ n <= trunc.max THEN list
        ELSE IF trunc.direction = "left" THEN SubSeq(list, n - trunc.max + 1, n)
        ELSE SubSeq(list, 1, trunc.max)

Multiple(n, m) == IF m = 0 THEN n ELSE ((n + m - 1) \div m) * m

\* length and multiple are 0 if they are not given.
pad_target(padding, n) ==
    IF padding = Off THEN n ELSE Multiple(Max({padding.length, n}), padding.multiple)

build_encoding(padding, list, target) ==
    IF padding = Off THEN make(list) ELSE pad(make(list), target, padding.direction, padding.pad_type)

encode_encoding(s, list) ==
    LET cut == do_truncate(s.trunc, list) IN build_encoding(s.pad, cut, pad_target(s.pad, Len(cut)))

\* Mutant: each answer of a batch is padded for itself.
BatchPaddedAlone(s, lists) == [i \in DOMAIN lists |-> encode_encoding(s, lists[i])]

encode_batch_encodings(s, lists) ==
    LET cut == [i \in DOMAIN lists |-> do_truncate(s.trunc, lists[i])]
        longest == Max({0} \cup {Len(cut[i]) : i \in DOMAIN cut})
    IN  [i \in DOMAIN cut |->
            build_encoding(s.pad, cut[i], IF s.pad = Off THEN Len(cut[i]) ELSE pad_target(s.pad, longest))]

-----------------------------------------------------------------------------
EncInit == Init /\ enc = make(<<>>) /\ setting = Off /\ ops = 0

Wrap == \E s \in Settings :
    /\ pc = "done" /\ job.kind = "encode" /\ job.wraps
    /\ enc' = encode_encoding(s, ids)
    /\ setting' = s
    /\ pc' = "encoding"
    /\ UNCHANGED <<job, todo, pts, ids, stream, ops>>

\* A caller makes an Encoding of its own.
New == \E s \in Settings, list \in Vecs, mask \in Vecs \cup {Unset} :
    /\ pc = "done" /\ job.kind = "encode" /\ job.wraps
    /\ enc' = [make(list) EXCEPT !.attention_mask = mask]
    /\ setting' = s
    /\ pc' = "encoding"
    /\ ops' = ops + 1
    /\ UNCHANGED <<job, todo, pts, ids, stream>>

\* A caller does something with the Encoding.
Does(e) ==
    /\ pc = "encoding" /\ ops < MaxOps
    /\ enc' = e
    /\ ops' = ops + 1
    /\ UNCHANGED <<vars, setting>>

Directions == {"left", "right"}

Truncate == \E max \in Lengths, direction \in Directions : Does(truncate(enc, max, direction))
Pad == \E length \in Lengths, direction \in Directions : Does(pad(enc, length, direction, PadType))

\* Nothing is asked of what is set, not even its length.
SetIds == \E list \in Vecs : Does([enc EXCEPT !.ids = list])
SetVector(field) == \E vector \in Vecs : Does([enc EXCEPT ![field] = vector])
SetSequenceId == Does([enc EXCEPT !.sequence_ids = Times(1, Len(enc.ids))])
SetSequences == \E n \in Lengths : Does([enc EXCEPT !.n_sequences = n])

MergeWithAnswer == Does(merge(enc, encode_encoding(setting, ids)))

\* post_process makes a new Encoding of the ids.
PostProcessEncoding == Does(make(post_process(This, enc.ids, TRUE)))

\* The arrays are given away and nothing stays.
into_numpy == Does([make(<<>>) EXCEPT !.n_sequences = 0])

Release ==
    /\ pc = "encoding"
    /\ pc' = "idle" /\ job' = NoJob /\ ids' = <<>>
    /\ enc' = make(<<>>) /\ setting' = Off /\ ops' = 0
    /\ UNCHANGED <<todo, pts, stream>>

Change ==
    \/ Truncate \/ Pad
    \/ SetIds \/ (\E field \in Vectors : SetVector(field)) \/ SetSequenceId \/ SetSequences
    \/ MergeWithAnswer \/ PostProcessEncoding \/ into_numpy

EncNext ==
    \/ Next /\ UNCHANGED encVars
    \/ Wrap \/ New \/ Change \/ Release

EncSpec == EncInit /\ [][EncNext]_<<vars, encVars>>

-----------------------------------------------------------------------------
(* An Encoding as a table. *)

Beside(e, field) == Len(materialized(e, field)) = Len(e.ids)
AllBeside(e) == \A field \in Vectors : Beside(e, field)

Row(e, i) ==
    [column \in Vectors \cup {"ids"} |-> IF column = "ids" THEN e.ids[i] ELSE materialized(e, column)[i]]
Rows(e) == IF AllBeside(e) THEN [i \in 1..Len(e.ids) |-> Row(e, i)] ELSE <<>>

\* The sequence of a place that is padded is that of an id, if none was set.
IsPadding(row) ==
    /\ \A column \in (Vectors \cup {"ids"}) \ {"sequence_ids"} : row[column] = PadValue(PadType)[column]
    /\ row.sequence_ids \in {NoneId, Default.sequence_ids}

IsBlank(row) == \A field \in Vectors : row[field] = Default[field]

Table == INSTANCE TokenRows WITH
    Columns <- Vectors \cup {"ids"}, Padding <- IsPadding, Blank <- IsBlank,
    held <- pc = "encoding", whole <- AllBeside(enc), rows <- Rows(enc), sequences <- enc.n_sequences

\* Whatever is truncated, padded, set, merged, post-processed and given away, in
\* whatever order, and whichever vectors are materialized: what an Encoding says
\* of a token stays beside its id, until the caller gives a vector or the ids
\* another length. An Encoding implements a table of tokens.
RowsKept == Table!Spec

\* A vector with a value for each id is torn from the ids only by a caller that
\* sets it or the ids, or by a truncation that panics halfway because another
\* vector ends before the ids do; padding, merging and a truncation that returns
\* tear nothing.
TornBySetting == [][
    \A field \in Vectors : pc = "encoding" /\ Beside(enc, field) /\ ~Beside(enc, field)' =>
        \/ SetIds \/ SetVector(field)
        \/ Truncate /\ \E g \in Vectors \ {field} : Len(materialized(enc, g)) < Len(enc.ids)]_<<vars, encVars>>

\* The ids an Encoding attends to.
Real(e) == Chosen(e.ids, {i \in DOMAIN e.ids : materialized(e, "attention_mask")[i] = 1})

Aligned(s, list, answer) ==
    LET batch == encode_batch_encodings(s, <<list, s.other>>)
        one == encode_batch_encodings(s, <<list>>)
    IN  /\ one = <<answer>>
        /\ s.pad # Off =>
               /\ Len(batch[1].ids) = Len(batch[2].ids)
               /\ Len(answer.ids) >= s.pad.length
               /\ s.pad.multiple > 0 => Len(answer.ids) % s.pad.multiple = 0
        /\ Real(batch[1]) = do_truncate(s.trunc, list) /\ Real(answer) = Real(batch[1])
        /\ s.trunc # Off => Len(Real(answer)) = Min({s.trunc.max, Len(list)})

\* An encode is a batch of one, the answers of a padded batch are of one length,
\* a multiple of what is asked, and what they attend to truncation alone decides.
BatchAligned == (pc = "encoding" /\ ops = 0) => Aligned(setting, ids, enc)
=============================================================================
