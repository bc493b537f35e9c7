---------------------------- MODULE MCSplitCache ----------------------------
(***************************************************************************)
(* Small instances of SplitCache: texts of letters (1) and blanks (0) and  *)
(* three patterns.                                                         *)
(*   "words"   [a-z]+          leaves gaps between its matches             *)
(*   "letters" .               tiles every text                            *)
(*   "llama"   ?[a-z]+|\s+(?!\S)|\s+   the alternatives of the tokenizers'  *)
(*             patterns that treat blanks: a run of them leaves the last   *)
(*             one to the word that follows                                *)
(***************************************************************************)
EXTENDS SplitCache, FiniteSetsExt

CONSTANTS MaxLen

MCTexts == UNION {[1..n -> {0, 1}] : n \in 0..MaxLen}

\* The length of the run of characters ch that begins at offset n.
Run(x, n, ch) ==
  Max({k \in 0..(Len(x) - n) : \A i \in n + 1..n + k : x[i] = ch})

MCFirst(p, x) ==
  LET blanks == Run(x, 0, 0)
      word   == <<blanks, blanks + Run(x, blanks, 1)>>
  IN  CASE x = <<>> -> NoMatch
        [] p = "letters" -> <<0, 1>>
        [] p = "words" -> IF blanks = Len(x) THEN NoMatch ELSE word
        [] p = "llama" -> IF blanks <= 1 /\ blanks < Len(x) THEN <<0, word[2]>>
                          ELSE IF blanks = Len(x) THEN <<0, blanks>>
                          ELSE <<0, blanks - 1>>

MCPatterns == {"words", "letters", "llama"}

SamePairs == {<<s, s>> : s \in Splits}
EveryPair == Splits \X Splits

WordsAndLetters == [s \in Splits |-> IF s = 1 THEN "words" ELSE "letters"]
LlamaAndLetters == [s \in Splits |-> IF s = 1 THEN "llama" ELSE "letters"]

\* The patterns Fresh is checked for, and the one it fails for.
ASSUME DecidedPatterns ==
  /\ \A p \in {"words", "letters"} : Decided(p)
  /\ ~ Decided("llama")

WholeBuffer == {<<0, 0>>}
=============================================================================
