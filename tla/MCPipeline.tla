----------------------------- MODULE MCPipeline -----------------------------
(* Three tokenizers: a byte-level one whose bytes the model encodes, one     *)
(* that is split by ByteLevel itself, and one of the Llama 2 kind.           *)
EXTENDS Encodings, TLC

A == 97
Space == 32
Lt == 60
Han == 20024
Bar == 9601

Added(id, cps, special, lstrip, normalized) ==
    [id |-> id, content |-> Str(cps), special |-> special, lstrip |-> lstrip, normalized |-> normalized]

Byte(b) == Utf8(BYTE_TO_CHAR(b))

ByteVocab ==
    (Byte(A) :> 0) @@ (Byte(Space) :> 1) @@ (Byte(Lt) :> 2) @@ (Byte(228) :> 3) @@ (Byte(184) :> 4)
    @@ (encode_bytes(<<Space, A>>) :> 5) @@ (encode_bytes(Str(<<Han>>)) :> 6) @@ (Byte(195) :> 7)

Fused ==
    [added |-> <<Added(20, <<Lt>>, TRUE, TRUE, FALSE), Added(21, <<Lt, A>>, FALSE, FALSE, FALSE),
                 Added(22, <<Han, Lt>>, FALSE, TRUE, FALSE)>>,
     normalizer |-> <<>>,
     pre |-> <<[kind |-> "Split"], [kind |-> "ByteLevel", add_prefix_space |-> FALSE, use_regex |-> FALSE]>>,
     vocab |-> ByteVocab, post |-> << << <<20>>, SequenceA>> >>,
     decoder |-> <<[kind |-> "ByteLevel"]>>, prepends |-> FALSE]

Spaced ==
    [Fused EXCEPT
        !.added = <<Added(23, <<Lt, Space>>, TRUE, FALSE, FALSE)>>,
        !.pre = <<[kind |-> "Split"], [kind |-> "ByteLevel", add_prefix_space |-> TRUE, use_regex |-> TRUE]>>]

LlamaVocab ==
    (Utf8(A) :> 0) @@ (Utf8(Bar) :> 1) @@ (Str(<<Bar, A>>) :> 2) @@ (Str(<<HEX + 228>>) :> 3)
    @@ (Str(<<HEX + 184>>) :> 4) @@ (Str(<<HEX + 65>>) :> 5) @@ (Str(<<HEX + 195>>) :> 7)

Llama ==
    [added |-> <<Added(20, <<Lt>>, TRUE, FALSE, FALSE), Added(21, <<A, Space, A>>, FALSE, FALSE, TRUE),
                 Added(22, <<A, Bar, A>>, TRUE, FALSE, TRUE), Added(24, <<E, ACUTE>>, FALSE, FALSE, TRUE),
                 Added(25, <<E_ACUTE>>, TRUE, FALSE, TRUE)>>,
     normalizer |-> <<[kind |-> "Nfc"], [kind |-> "Replace", pattern |-> Space, content |-> <<Bar>>],
                      [kind |-> "Prepend", content |-> <<Bar>>]>>,
     pre |-> <<>>,
     vocab |-> LlamaVocab, post |-> << << <<20>>, SequenceA>>, <<SequenceA, <<20>> >> >>,
     decoder |-> <<[kind |-> "Replace", pattern |-> Bar, content |-> <<Space>>], [kind |-> "ByteFallback"],
                   [kind |-> "Fuse"], [kind |-> "Strip", content |-> Space, start |-> 1, stop |-> 0]>>,
     prepends |-> TRUE]

MCTokenizers == [fused |-> Fused, spaced |-> Spaced, llama |-> Llama]

TextsUpTo(n) == UNION {{Str(cps) : cps \in [1..k -> {A, Space, Lt, Han}]} : k \in 0..n}

Job(tk, parts, split_special, add_special, safe) ==
    [kind |-> "encode", tk |-> tk, parts |-> parts, split_special |-> split_special,
     add_special |-> add_special, safe |-> safe, skip |-> add_special, wraps |-> FALSE]
Part(text, bypass) == [text |-> text, bypass |-> bypass]

MCJobs ==
    {Job(tk, <<Part(text, FALSE)>>, sp, sp, FALSE) : tk \in {"fused", "llama"}, text \in TextsUpTo(3), sp \in BOOLEAN}
    \cup {Job("spaced", <<Part(text, FALSE)>>, sp, FALSE, FALSE) : text \in TextsUpTo(2), sp \in BOOLEAN}
    \cup {Job("fused", <<Part(text, FALSE), Part(<<Lt>>, TRUE)>>, FALSE, FALSE, TRUE) : text \in TextsUpTo(2)}
    \cup {Job(tk, <<Part(Str(text), FALSE)>>, FALSE, FALSE, TRUE) :
              tk \in {"fused", "llama"}, text \in {<<A, A, A, A, A>>, <<A, Space, Space, Space, A>>, <<E, ACUTE, A, E_ACUTE>>}}
    \cup {[Job("fused", <<Part(text, FALSE)>>, FALSE, TRUE, FALSE) EXCEPT !.wraps = TRUE] :
              text \in {<<>>, <<A, Space, A, A>>}}

Trunc(max, direction) == [max |-> max, direction |-> direction]
Padding(direction, length, multiple) ==
    [direction |-> direction, length |-> length, multiple |-> multiple, pad_type |-> 7]
Setting(trunc, padding) == [trunc |-> trunc, pad |-> padding, other |-> <<0, 1, 2, 0>>]

MCSettings ==
    {Setting(Off, Off), Setting(Trunc(2, "left"), Padding("left", 0, 0)), Setting(Off, Padding("right", 2, 3)),
     Setting(Trunc(2, "right"), Padding("left", 5, 4))}

\* One vector fits what is cut or padded to 3, the other almost nothing.
MCVecs == {<<8>>, <<8, 0, 9>>}

Lists == UNION {[1..n -> {0, 1, 3, 4, 5, 7, 99}] : n \in 1..2} \cup [1..3 -> {0, 3, 4, 7}] \cup [1..4 -> {3, 4}]

MCIdLists ==
    {[tk |-> tk, ids |-> list, skip |-> FALSE] : tk \in {"fused", "llama"}, list \in Lists}
    \cup {[tk |-> "fused", ids |-> list, skip |-> skip] : list \in [1..3 -> {0, 7, 20}], skip \in BOOLEAN}
=============================================================================
