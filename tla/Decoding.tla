----------------------------- MODULE Decoding ------------------------------
(***************************************************************************)
(* Strings, the GPT-2 byte alphabet and the decoders (src/decoders.rs,     *)
(* src/decoders/byte_level.rs, src/pre_tokenizers/byte_level.rs).          *)
(*                                                                         *)
(* A string is the sequence of its UTF-8 bytes.  The six characters of a   *)
(* fallback token <0xNN> are abstracted to one code point, HEX + 16rNN.    *)
(***************************************************************************)
EXTENDS Integers, Sequences, SequencesExt, FiniteSetsExt

HEX == 1048576

\* No surrogates.
IsCodePoint(cp) == cp \in Nat /\ cp <= 1114111 /\ ~ (55296 <= cp /\ cp <= 57343)
AreCodePoints(cps) == cps \in Seq(Nat) /\ \A i \in DOMAIN cps : IsCodePoint(cps[i])

\* The bytes of a code point: six bits in each byte but the first.
Low(cp, unit) == 128 + ((cp \div unit) % 64)

Utf8(cp) ==
    IF cp < 128 THEN <<cp>>
    ELSE IF cp < 2048 THEN <<192 + (cp \div 64), Low(cp, 1)>>
    ELSE IF cp < 65536 THEN <<224 + (cp \div 4096), Low(cp, 64), Low(cp, 1)>>
    ELSE <<240 + (cp \div 262144), Low(cp, 4096), Low(cp, 64), Low(cp, 1)>>

Str(cps) == FlattenSeq([i \in 1..Len(cps) |-> Utf8(cps[i])])

Continues(b) == b \in 128..191
IsBoundary(s, i) == i > Len(s) \/ ~ Continues(s[i])

\* How many bytes the character that begins with b has; 0 if none does.
CharWidth(b) ==
    IF b < 128 THEN 1
    ELSE IF b \in 194..223 THEN 2
    ELSE IF b \in 224..239 THEN 3
    ELSE IF b \in 240..244 THEN 4
    ELSE 0

\* No overlong form, no surrogate, nothing past the last code point.
Second(b) ==
    IF b = 224 THEN 160..191
    ELSE IF b = 237 THEN 128..159
    ELSE IF b = 240 THEN 144..191
    ELSE IF b = 244 THEN 128..143
    ELSE 128..191

\* How many bytes from i on are, or begin, one character.
Begun(s, i) ==
    Max({n \in 0..CharWidth(s[i]) :
            /\ i + n - 1 <= Len(s)
            /\ \A j \in 1..(n - 1) : s[i + j] \in IF j = 1 THEN Second(s[i]) ELSE 128..191})

\* The code point of the n bytes from i on.
CodePoint(s, i, n) ==
    IF n = 1 THEN s[i]
    ELSE IF n = 2 THEN (s[i] - 192) * 64 + s[i + 1] - 128
    ELSE IF n = 3 THEN (s[i] - 224) * 4096 + (s[i + 1] - 128) * 64 + s[i + 2] - 128
    ELSE (s[i] - 240) * 262144 + (s[i + 1] - 128) * 4096 + (s[i + 2] - 128) * 64 + s[i + 3] - 128

REPLACEMENT == 65533

\* The code points, each longest part that is none replaced.
Lossy(s) ==
    LET From[i \in 1..(Len(s) + 1)] ==
            LET n == Begun(s, i)
            IN  IF i > Len(s) THEN <<>>
                ELSE IF n > 0 /\ n = CharWidth(s[i]) THEN <<CodePoint(s, i, n)>> \o From[i + n]
                ELSE <<REPLACEMENT>> \o From[i + Max({n, 1})]
    IN  From[1]

IsUtf8(s) == Str(Lossy(s)) = s
Chars(s) == Lossy(s)

Bytes == 0..255

\* A String: the bytes of code points.
IsText(s) == s \in Seq(Bytes) /\ AreCodePoints(Chars(s)) /\ s = Str(Chars(s))

EndsIncomplete(s) == IsSuffix(Utf8(REPLACEMENT), s)

\* The elements of s at the given places, in order.
Nth(places, n) == CHOOSE i \in places : Cardinality({j \in places : j <= i}) = n
Chosen(s, places) == [n \in 1..Cardinality(places) |-> s[Nth(places, n)]]

-----------------------------------------------------------------------------
(* The byte alphabet: printable bytes stand for themselves, the others for *)
(* code points from 256 on, in order.                                      *)

Nice(b) == b \in 33..126 \/ b \in 161..172 \/ b \in 174..255

BYTE_TO_CHAR(b) ==
    IF Nice(b) THEN b
    ELSE IF b < 33 THEN 256 + b
    ELSE IF b < 161 THEN 289 + b - 127
    ELSE 323

NoByte == -1

\* Mutant: the table ends before the space.
CharToByteShort(cp) ==
    IF cp < 256 /\ Nice(cp) THEN cp
    ELSE IF cp \in 256..287 THEN cp - 256
    ELSE IF cp \in 289..322 THEN cp - 289 + 127
    ELSE IF cp = 323 THEN 173
    ELSE NoByte

CHAR_TO_BYTE(cp) ==
    IF cp < 256 /\ Nice(cp) THEN cp
    ELSE IF cp \in 256..288 THEN cp - 256
    ELSE IF cp \in 289..322 THEN cp - 289 + 127
    ELSE IF cp = 323 THEN 173
    ELSE NoByte

encode_bytes(s) == Str([i \in 1..Len(s) |-> BYTE_TO_CHAR(s[i])])

\* A token with a character that is none of the alphabet is kept as it is.
BytesOr(bytes, token) == IF \E i \in DOMAIN bytes : bytes[i] = NoByte THEN token ELSE bytes
BytesOf(cps) == [i \in DOMAIN cps |-> CHAR_TO_BYTE(cps[i])]
Unmapped(token) == BytesOr(BytesOf(Chars(token)), token)

ByteLevelDecoder(tokens) ==
    <<Str(Lossy(FlattenSeq([i \in 1..Len(tokens) |-> Unmapped(tokens[i])])))>>

-----------------------------------------------------------------------------
(* The other decoders; a decoder is a sequence of steps. *)

ReplacedChars(cps, pattern, content) ==
    Str(FlattenSeq([i \in DOMAIN cps |-> IF cps[i] = pattern THEN content ELSE <<cps[i]>>]))
Replaced(s, pattern, content) == ReplacedChars(Chars(s), pattern, content)

\* Up to start of the character at the beginning, up to stop at the end.
StrippedLeft(cps, content, start) ==
    SubSeq(cps, 1 + Max({n \in 0..start : n <= Len(cps) /\ \A i \in 1..n : cps[i] = content}), Len(cps))
StrippedChars(cps, content, start, stop) ==
    Reverse(StrippedLeft(Reverse(StrippedLeft(cps, content, start)), content, stop))
Stripped(s, content, start, stop) == Str(StrippedChars(Chars(s), content, start, stop))

ByteOfHex(cps) == IF Len(cps) = 1 /\ cps[1] >= HEX THEN cps[1] - HEX ELSE NoByte
fallback_byte(token) == ByteOfHex(Chars(token))

\* All the bytes of a run are a string, or each of them is replaced.
Flushed(bytes) ==
    IF bytes = <<>> THEN <<>>
    ELSE IF IsUtf8(bytes) THEN <<bytes>>
    ELSE [i \in 1..Len(bytes) |-> Utf8(REPLACEMENT)]

\* A token or, if b is one, a byte: a token ends the run before it.
Collected(acc, token, b) ==
    IF b # NoByte THEN [acc EXCEPT !.bytes = Append(@, b)]
    ELSE [decoded |-> Append(acc.decoded \o Flushed(acc.bytes), token), bytes |-> <<>>]

AllFlushed(acc) == acc.decoded \o Flushed(acc.bytes)

ByteFallback(tokens) ==
    LET Step(acc, token) == Collected(acc, token, fallback_byte(token))
    IN  AllFlushed(FoldLeft(Step, [decoded |-> <<>>, bytes |-> <<>>], tokens))

decode_chain(step, tokens) ==
    IF step.kind = "ByteLevel" THEN ByteLevelDecoder(tokens)
    ELSE IF step.kind = "Fuse" THEN <<FlattenSeq(tokens)>>
    ELSE IF step.kind = "Strip"
    THEN [i \in 1..Len(tokens) |-> Stripped(tokens[i], step.content, step.start, step.stop)]
    ELSE IF step.kind = "Replace"
    THEN [i \in 1..Len(tokens) |-> Replaced(tokens[i], step.pattern, step.content)]
    ELSE ByteFallback(tokens)

decode_tokens(decoder, tokens) ==
    LET Apply(ts, step) == decode_chain(step, ts) IN FlattenSeq(FoldLeft(Apply, tokens, decoder))
=============================================================================
