---------------------------- MODULE PipelineProofs ----------------------------
EXTENDS Encodings, Folding, FiniteSetTheorems

(***************************************************************************)
(* What holds of the Tokenizer pipeline for every tokenizer, every input   *)
(* and every batch (lib.rs, added_tokens.rs, normalizers/, byte_level.rs). *)
(* Its theorems, in the order of the pipeline:                             *)
(*   Called           each call carries the parts still to do;             *)
(*   SamePrefilter    the prefilter finds what the automaton finds;        *)
(*   SegmentsOfInput  the segments stand for the input;                    *)
(*   SplitsCover      splits lie side by side and cut no character;        *)
(*   EncodingIsTable  an Encoding is a table with a row for each token;    *)
(*   OnlySettingTears only a caller that sets them parts vectors from ids; *)
(*   AnswersOfABatch  a batch has the answers of its inputs one by one;    *)
(*   FusedIsWhole     fusing the byte level with the model has its ids;    *)
(*   LegacyChunks     texts are cut where legacy tokenizers cut them;      *)
(*   StreamsArePrefixes, StreamsReturnAll, StreamsGoOn                     *)
(*                    a stream returns the text of its ids, and all of it; *)
(*   ByteLevelRoundTrip                                                    *)
(*                    the ids of an input are decoded to this input.       *)
(* The lemmas go from a text up: normalizers, the matcher, the parts of    *)
(* an input, segments, splits, ids, Encodings, streams, the bytes of ids.  *)
(* Those on UTF-8, cuts and the alphabet of the byte level are in Folding. *)
(***************************************************************************)

(***************************************************************************)
(* What the folds of the pipeline compute.                                 *)
(***************************************************************************)

\* What Nfc folds, over the first characters.
LEMMA NfcFold ==
  ASSUME NEW T, NEW base \in T, NEW seq, Len(seq) \in Nat, DOMAIN seq = 1..Len(seq),
         \A i \in 1..Len(seq), x \in T : Composed(x, seq[i]) \in T
  PROVE  /\ Leads(Len(seq), T, base, [i \in 1..Len(seq) |-> [x \in T |-> Composed(x, seq[i])]],
                  FoldLeft(Composed, base, seq))
         /\ FoldLeft(Composed, base, seq) \in T
<1> DEFINE n == Len(seq)
           join == [i \in 1..n |-> [x \in T |-> Composed(x, seq[i])]]
           Is(g) == g = [s_ \in SUBSET DOMAIN seq |->
                           IF s_ = {} THEN base ELSE Composed(g[s_ \ {Max(s_)}], seq[Max(s_)])]
<1>1. PICK iter \in [SUBSET (1..n) -> T] : Iterates(n, base, join, iter)
  <2>1. \A i \in 1..n, x \in T : join[i][x] \in T
    OBVIOUS
  <2> HIDE DEF join
  <2> QED
    BY <2>1, FoldExists
<1>2. Is(iter)
  <2>1. ASSUME NEW s_ \in SUBSET (1..n), s_ # {}
        PROVE  join[Max(s_)][iter[s_ \ {Max(s_)}]] = Composed(iter[s_ \ {Max(s_)}], seq[Max(s_)])
    <3>1. Max(s_) \in 1..n /\ iter[s_ \ {Max(s_)}] \in T
      BY <2>1, <1>1, Greatest
    <3> QED
      BY <3>1
  <2> HIDE DEF join
  <2> QED
    BY <2>1, <1>1 DEF Iterates
<1>3. PICK g : Is(g) /\ FoldLeft(Composed, base, seq) = g[1..n]
  BY <1>2, Zenon DEF FoldLeft, MapThenFoldSet
<1>4. g[{}] = base
  BY <1>3
<1>5. Leads(n, T, base, join, g[1..n])
  <2>1. ASSUME NEW s_ \in SUBSET (1..n), s_ # {}, g[s_ \ {Max(s_)}] = iter[s_ \ {Max(s_)}]
        PROVE  g[s_] = iter[s_]
    BY <1>2, <1>3, <2>1
  <2>2. n \in Nat
    OBVIOUS
  <2> HIDE DEF Is, join, n
  <2> QED
    BY <1>1, <1>4, <2>1, <2>2, FoldEnds
<1>6. g[1..n] \in T
  BY <1>5 DEF Leads
<1> QED
  BY <1>3, <1>5, <1>6

\* What normalize folds, over the first steps.
LEMMA NormalizeFold ==
  ASSUME NEW T, NEW base \in T, NEW seq, Len(seq) \in Nat, DOMAIN seq = 1..Len(seq),
         \A i \in 1..Len(seq), x \in T : normalize_step(seq[i], x) \in T
  PROVE  /\ Leads(Len(seq), T, base, [i \in 1..Len(seq) |-> [x \in T |-> normalize_step(seq[i], x)]],
                  (LET Apply(t, step) == normalize_step(step, t) IN FoldLeft(Apply, base, seq)))
         /\ (LET Apply(t, step) == normalize_step(step, t) IN FoldLeft(Apply, base, seq)) \in T
<1> DEFINE n == Len(seq)
           join == [i \in 1..n |-> [x \in T |-> normalize_step(seq[i], x)]]
           Is(g) == g = [s_ \in SUBSET DOMAIN seq |->
                           IF s_ = {} THEN base ELSE normalize_step(seq[Max(s_)], g[s_ \ {Max(s_)}])]
<1>1. PICK iter \in [SUBSET (1..n) -> T] : Iterates(n, base, join, iter)
  <2>1. \A i \in 1..n, x \in T : join[i][x] \in T
    OBVIOUS
  <2> HIDE DEF join
  <2> QED
    BY <2>1, FoldExists
<1>2. Is(iter)
  <2>1. ASSUME NEW s_ \in SUBSET (1..n), s_ # {}
        PROVE  join[Max(s_)][iter[s_ \ {Max(s_)}]] = normalize_step(seq[Max(s_)], iter[s_ \ {Max(s_)}])
    <3>1. Max(s_) \in 1..n /\ iter[s_ \ {Max(s_)}] \in T
      BY <2>1, <1>1, Greatest
    <3> QED
      BY <3>1
  <2> HIDE DEF join
  <2> QED
    BY <2>1, <1>1 DEF Iterates
<1>3. PICK g : Is(g) /\ (LET Apply(t, step) == normalize_step(step, t) IN FoldLeft(Apply, base, seq)) = g[1..n]
  BY <1>2, Zenon DEF FoldLeft, MapThenFoldSet
<1>4. g[{}] = base
  BY <1>3
<1>5. Leads(n, T, base, join, g[1..n])
  <2>1. ASSUME NEW s_ \in SUBSET (1..n), s_ # {}, g[s_ \ {Max(s_)}] = iter[s_ \ {Max(s_)}]
        PROVE  g[s_] = iter[s_]
    BY <1>2, <1>3, <2>1
  <2>2. n \in Nat
    OBVIOUS
  <2> HIDE DEF Is, join, n
  <2> QED
    BY <1>1, <1>4, <2>1, <2>2, FoldEnds
<1>6. g[1..n] \in T
  BY <1>5 DEF Leads
<1> QED
  BY <1>3, <1>5, <1>6

\* What split_special_as_text folds, for all of the segments.
KeptOver(configs, s, base, seq) ==
  LET Step(acc, seg) == Kept(configs, s, acc, seg) IN FoldLeft(Step, base, seq)

\* What split_special_as_text folds, over the first segments.
LEMMA KeptFold ==
  ASSUME NEW configs, NEW s, NEW T, NEW base \in T, NEW seq, Len(seq) \in Nat, DOMAIN seq = 1..Len(seq),
         \A i \in 1..Len(seq), x \in T : Kept(configs, s, x, seq[i]) \in T
  PROVE  /\ Leads(Len(seq), T, base, [i \in 1..Len(seq) |-> [x \in T |-> Kept(configs, s, x, seq[i])]],
                  KeptOver(configs, s, base, seq))
         /\ KeptOver(configs, s, base, seq) \in T
<1> DEFINE n == Len(seq)
           join == [i \in 1..n |-> [x \in T |-> Kept(configs, s, x, seq[i])]]
           Is(g) == g = [s_ \in SUBSET DOMAIN seq |->
                           IF s_ = {} THEN base ELSE Kept(configs, s, g[s_ \ {Max(s_)}], seq[Max(s_)])]
<1>1. PICK iter \in [SUBSET (1..n) -> T] : Iterates(n, base, join, iter)
  <2>1. \A i \in 1..n, x \in T : join[i][x] \in T
    OBVIOUS
  <2> HIDE DEF join
  <2> QED
    BY <2>1, FoldExists
<1>2. Is(iter)
  <2>1. ASSUME NEW s_ \in SUBSET (1..n), s_ # {}
        PROVE  join[Max(s_)][iter[s_ \ {Max(s_)}]] = Kept(configs, s, iter[s_ \ {Max(s_)}], seq[Max(s_)])
    <3>1. Max(s_) \in 1..n /\ iter[s_ \ {Max(s_)}] \in T
      BY <2>1, <1>1, Greatest
    <3> QED
      BY <3>1
  <2> HIDE DEF join
  <2> QED
    BY <2>1, <1>1 DEF Iterates
<1>3. PICK g : Is(g) /\ KeptOver(configs, s, base, seq) = g[1..n]
  BY <1>2, Zenon DEF FoldLeft, MapThenFoldSet, KeptOver
<1>4. g[{}] = base
  BY <1>3
<1>5. Leads(n, T, base, join, g[1..n])
  <2>1. ASSUME NEW s_ \in SUBSET (1..n), s_ # {}, g[s_ \ {Max(s_)}] = iter[s_ \ {Max(s_)}]
        PROVE  g[s_] = iter[s_]
    BY <1>2, <1>3, <2>1
  <2>2. n \in Nat
    OBVIOUS
  <2> HIDE DEF Is, join, n
  <2> QED
    BY <1>1, <1>4, <2>1, <2>2, FoldEnds
<1>6. g[1..n] \in T
  BY <1>5 DEF Leads
<1> QED
  BY <1>3, <1>5, <1>6

\* What is put into the buffer for the first segments.
LEMMA InnerFold ==
  ASSUME NEW T, NEW base \in T, NEW seq, Len(seq) \in Nat, DOMAIN seq = 1..Len(seq),
         \A i \in 1..Len(seq), x \in T : Inner(x, seq[i]) \in T
  PROVE  /\ Leads(Len(seq), T, base, [i \in 1..Len(seq) |-> [x \in T |-> Inner(x, seq[i])]],
                  FoldLeft(Inner, base, seq))
         /\ FoldLeft(Inner, base, seq) \in T
<1> DEFINE n == Len(seq)
           join == [i \in 1..n |-> [x \in T |-> Inner(x, seq[i])]]
           Is(g) == g = [s_ \in SUBSET DOMAIN seq |->
                           IF s_ = {} THEN base ELSE Inner(g[s_ \ {Max(s_)}], seq[Max(s_)])]
<1>1. PICK iter \in [SUBSET (1..n) -> T] : Iterates(n, base, join, iter)
  <2>1. \A i \in 1..n, x \in T : join[i][x] \in T
    OBVIOUS
  <2> HIDE DEF join
  <2> QED
    BY <2>1, FoldExists
<1>2. Is(iter)
  <2>1. ASSUME NEW s_ \in SUBSET (1..n), s_ # {}
        PROVE  join[Max(s_)][iter[s_ \ {Max(s_)}]] = Inner(iter[s_ \ {Max(s_)}], seq[Max(s_)])
    <3>1. Max(s_) \in 1..n /\ iter[s_ \ {Max(s_)}] \in T
      BY <2>1, <1>1, Greatest
    <3> QED
      BY <3>1
  <2> HIDE DEF join
  <2> QED
    BY <2>1, <1>1 DEF Iterates
<1>3. PICK g : Is(g) /\ FoldLeft(Inner, base, seq) = g[1..n]
  BY <1>2, Zenon DEF FoldLeft, MapThenFoldSet
<1>4. g[{}] = base
  BY <1>3
<1>5. Leads(n, T, base, join, g[1..n])
  <2>1. ASSUME NEW s_ \in SUBSET (1..n), s_ # {}, g[s_ \ {Max(s_)}] = iter[s_ \ {Max(s_)}]
        PROVE  g[s_] = iter[s_]
    BY <1>2, <1>3, <2>1
  <2>2. n \in Nat
    OBVIOUS
  <2> HIDE DEF Is, join, n
  <2> QED
    BY <1>1, <1>4, <2>1, <2>2, FoldEnds
<1>6. g[1..n] \in T
  BY <1>5 DEF Leads
<1> QED
  BY <1>3, <1>5, <1>6

\* What is put into the buffer for all the segments between two matchers.
OuterOver(tk, special, bypass, base, seq) ==
  LET Add(pts_, seg) == Outer(tk, special, bypass, pts_, seg) IN FoldLeft(Add, base, seq)

\* What is put into the buffer for the first segments between two matchers.
LEMMA OuterFold ==
  ASSUME NEW tk, NEW special, NEW bypass, NEW T, NEW base \in T, NEW seq, Len(seq) \in Nat, DOMAIN seq = 1..Len(seq),
         \A i \in 1..Len(seq), x \in T : Outer(tk, special, bypass, x, seq[i]) \in T
  PROVE  /\ Leads(Len(seq), T, base, [i \in 1..Len(seq) |-> [x \in T |-> Outer(tk, special, bypass, x, seq[i])]],
                  OuterOver(tk, special, bypass, base, seq))
         /\ OuterOver(tk, special, bypass, base, seq) \in T
<1> DEFINE n == Len(seq)
           join == [i \in 1..n |-> [x \in T |-> Outer(tk, special, bypass, x, seq[i])]]
           Is(g) == g = [s_ \in SUBSET DOMAIN seq |->
                           IF s_ = {} THEN base ELSE Outer(tk, special, bypass, g[s_ \ {Max(s_)}], seq[Max(s_)])]
<1>1. PICK iter \in [SUBSET (1..n) -> T] : Iterates(n, base, join, iter)
  <2>1. \A i \in 1..n, x \in T : join[i][x] \in T
    OBVIOUS
  <2> HIDE DEF join
  <2> QED
    BY <2>1, FoldExists
<1>2. Is(iter)
  <2>1. ASSUME NEW s_ \in SUBSET (1..n), s_ # {}
        PROVE  join[Max(s_)][iter[s_ \ {Max(s_)}]] = Outer(tk, special, bypass, iter[s_ \ {Max(s_)}], seq[Max(s_)])
    <3>1. Max(s_) \in 1..n /\ iter[s_ \ {Max(s_)}] \in T
      BY <2>1, <1>1, Greatest
    <3> QED
      BY <3>1
  <2> HIDE DEF join
  <2> QED
    BY <2>1, <1>1 DEF Iterates
<1>3. PICK g : Is(g) /\ OuterOver(tk, special, bypass, base, seq) = g[1..n]
  BY <1>2, Zenon DEF FoldLeft, MapThenFoldSet, OuterOver
<1>4. g[{}] = base
  BY <1>3
<1>5. Leads(n, T, base, join, g[1..n])
  <2>1. ASSUME NEW s_ \in SUBSET (1..n), s_ # {}, g[s_ \ {Max(s_)}] = iter[s_ \ {Max(s_)}]
        PROVE  g[s_] = iter[s_]
    BY <1>2, <1>3, <2>1
  <2>2. n \in Nat
    OBVIOUS
  <2> HIDE DEF Is, join, n
  <2> QED
    BY <1>1, <1>4, <2>1, <2>2, FoldEnds
<1>6. g[1..n] \in T
  BY <1>5 DEF Leads
<1> QED
  BY <1>3, <1>5, <1>6

\* What is put into the buffer for all the segments of one matcher.
NormalizedOver(tk, base, seq) ==
  LET Add(pts_, seg) == Normalized(tk, pts_, seg) IN FoldLeft(Add, base, seq)

\* What is put into the buffer for the first segments of one matcher.
LEMMA NormalizedFold ==
  ASSUME NEW tk, NEW T, NEW base \in T, NEW seq, Len(seq) \in Nat, DOMAIN seq = 1..Len(seq),
         \A i \in 1..Len(seq), x \in T : Normalized(tk, x, seq[i]) \in T
  PROVE  /\ Leads(Len(seq), T, base, [i \in 1..Len(seq) |-> [x \in T |-> Normalized(tk, x, seq[i])]],
                  NormalizedOver(tk, base, seq))
         /\ NormalizedOver(tk, base, seq) \in T
<1> DEFINE n == Len(seq)
           join == [i \in 1..n |-> [x \in T |-> Normalized(tk, x, seq[i])]]
           Is(g) == g = [s_ \in SUBSET DOMAIN seq |->
                           IF s_ = {} THEN base ELSE Normalized(tk, g[s_ \ {Max(s_)}], seq[Max(s_)])]
<1>1. PICK iter \in [SUBSET (1..n) -> T] : Iterates(n, base, join, iter)
  <2>1. \A i \in 1..n, x \in T : join[i][x] \in T
    OBVIOUS
  <2> HIDE DEF join
  <2> QED
    BY <2>1, FoldExists
<1>2. Is(iter)
  <2>1. ASSUME NEW s_ \in SUBSET (1..n), s_ # {}
        PROVE  join[Max(s_)][iter[s_ \ {Max(s_)}]] = Normalized(tk, iter[s_ \ {Max(s_)}], seq[Max(s_)])
    <3>1. Max(s_) \in 1..n /\ iter[s_ \ {Max(s_)}] \in T
      BY <2>1, <1>1, Greatest
    <3> QED
      BY <3>1
  <2> HIDE DEF join
  <2> QED
    BY <2>1, <1>1 DEF Iterates
<1>3. PICK g : Is(g) /\ NormalizedOver(tk, base, seq) = g[1..n]
  BY <1>2, Zenon DEF FoldLeft, MapThenFoldSet, NormalizedOver
<1>4. g[{}] = base
  BY <1>3
<1>5. Leads(n, T, base, join, g[1..n])
  <2>1. ASSUME NEW s_ \in SUBSET (1..n), s_ # {}, g[s_ \ {Max(s_)}] = iter[s_ \ {Max(s_)}]
        PROVE  g[s_] = iter[s_]
    BY <1>2, <1>3, <2>1
  <2>2. n \in Nat
    OBVIOUS
  <2> HIDE DEF Is, join, n
  <2> QED
    BY <1>1, <1>4, <2>1, <2>2, FoldEnds
<1>6. g[1..n] \in T
  BY <1>5 DEF Leads
<1> QED
  BY <1>3, <1>5, <1>6

\* The encoded bytes of the first matches of a split.
LEMMA WithBytesFold ==
  ASSUME NEW T, NEW base \in T, NEW seq, Len(seq) \in Nat, DOMAIN seq = 1..Len(seq),
         \A i \in 1..Len(seq), x \in T : WithBytes(x, seq[i]) \in T
  PROVE  /\ Leads(Len(seq), T, base, [i \in 1..Len(seq) |-> [x \in T |-> WithBytes(x, seq[i])]],
                  FoldLeft(WithBytes, base, seq))
         /\ FoldLeft(WithBytes, base, seq) \in T
<1> DEFINE n == Len(seq)
           join == [i \in 1..n |-> [x \in T |-> WithBytes(x, seq[i])]]
           Is(g) == g = [s_ \in SUBSET DOMAIN seq |->
                           IF s_ = {} THEN base ELSE WithBytes(g[s_ \ {Max(s_)}], seq[Max(s_)])]
<1>1. PICK iter \in [SUBSET (1..n) -> T] : Iterates(n, base, join, iter)
  <2>1. \A i \in 1..n, x \in T : join[i][x] \in T
    OBVIOUS
  <2> HIDE DEF join
  <2> QED
    BY <2>1, FoldExists
<1>2. Is(iter)
  <2>1. ASSUME NEW s_ \in SUBSET (1..n), s_ # {}
        PROVE  join[Max(s_)][iter[s_ \ {Max(s_)}]] = WithBytes(iter[s_ \ {Max(s_)}], seq[Max(s_)])
    <3>1. Max(s_) \in 1..n /\ iter[s_ \ {Max(s_)}] \in T
      BY <2>1, <1>1, Greatest
    <3> QED
      BY <3>1
  <2> HIDE DEF join
  <2> QED
    BY <2>1, <1>1 DEF Iterates
<1>3. PICK g : Is(g) /\ FoldLeft(WithBytes, base, seq) = g[1..n]
  BY <1>2, Zenon DEF FoldLeft, MapThenFoldSet
<1>4. g[{}] = base
  BY <1>3
<1>5. Leads(n, T, base, join, g[1..n])
  <2>1. ASSUME NEW s_ \in SUBSET (1..n), s_ # {}, g[s_ \ {Max(s_)}] = iter[s_ \ {Max(s_)}]
        PROVE  g[s_] = iter[s_]
    BY <1>2, <1>3, <2>1
  <2>2. n \in Nat
    OBVIOUS
  <2> HIDE DEF Is, join, n
  <2> QED
    BY <1>1, <1>4, <2>1, <2>2, FoldEnds
<1>6. g[1..n] \in T
  BY <1>5 DEF Leads
<1> QED
  BY <1>3, <1>5, <1>6

\* The encoded bytes of all the splits.
AddBytesOver(p, base, seq) ==
  LET Add(acc, sp) == AddBytes(p, acc, sp) IN FoldLeft(Add, base, seq)

\* The encoded bytes of the first splits.
LEMMA AddBytesFold ==
  ASSUME NEW p, NEW T, NEW base \in T, NEW seq, Len(seq) \in Nat, DOMAIN seq = 1..Len(seq),
         \A i \in 1..Len(seq), x \in T : AddBytes(p, x, seq[i]) \in T
  PROVE  /\ Leads(Len(seq), T, base, [i \in 1..Len(seq) |-> [x \in T |-> AddBytes(p, x, seq[i])]],
                  AddBytesOver(p, base, seq))
         /\ AddBytesOver(p, base, seq) \in T
<1> DEFINE n == Len(seq)
           join == [i \in 1..n |-> [x \in T |-> AddBytes(p, x, seq[i])]]
           Is(g) == g = [s_ \in SUBSET DOMAIN seq |->
                           IF s_ = {} THEN base ELSE AddBytes(p, g[s_ \ {Max(s_)}], seq[Max(s_)])]
<1>1. PICK iter \in [SUBSET (1..n) -> T] : Iterates(n, base, join, iter)
  <2>1. \A i \in 1..n, x \in T : join[i][x] \in T
    OBVIOUS
  <2> HIDE DEF join
  <2> QED
    BY <2>1, FoldExists
<1>2. Is(iter)
  <2>1. ASSUME NEW s_ \in SUBSET (1..n), s_ # {}
        PROVE  join[Max(s_)][iter[s_ \ {Max(s_)}]] = AddBytes(p, iter[s_ \ {Max(s_)}], seq[Max(s_)])
    <3>1. Max(s_) \in 1..n /\ iter[s_ \ {Max(s_)}] \in T
      BY <2>1, <1>1, Greatest
    <3> QED
      BY <3>1
  <2> HIDE DEF join
  <2> QED
    BY <2>1, <1>1 DEF Iterates
<1>3. PICK g : Is(g) /\ AddBytesOver(p, base, seq) = g[1..n]
  BY <1>2, Zenon DEF FoldLeft, MapThenFoldSet, AddBytesOver
<1>4. g[{}] = base
  BY <1>3
<1>5. Leads(n, T, base, join, g[1..n])
  <2>1. ASSUME NEW s_ \in SUBSET (1..n), s_ # {}, g[s_ \ {Max(s_)}] = iter[s_ \ {Max(s_)}]
        PROVE  g[s_] = iter[s_]
    BY <1>2, <1>3, <2>1
  <2>2. n \in Nat
    OBVIOUS
  <2> HIDE DEF Is, join, n
  <2> QED
    BY <1>1, <1>4, <2>1, <2>2, FoldEnds
<1>6. g[1..n] \in T
  BY <1>5 DEF Leads
<1> QED
  BY <1>3, <1>5, <1>6

\* The encoded matches of all the splits.
AddMatchesOver(step, p, base, seq) ==
  LET Add(acc, sp) == AddMatches(step, p, acc, sp) IN FoldLeft(Add, base, seq)

\* The encoded matches of the first splits.
LEMMA AddMatchesFold ==
  ASSUME NEW step, NEW p, NEW T, NEW base \in T, NEW seq, Len(seq) \in Nat, DOMAIN seq = 1..Len(seq),
         \A i \in 1..Len(seq), x \in T : AddMatches(step, p, x, seq[i]) \in T
  PROVE  /\ Leads(Len(seq), T, base, [i \in 1..Len(seq) |-> [x \in T |-> AddMatches(step, p, x, seq[i])]],
                  AddMatchesOver(step, p, base, seq))
         /\ AddMatchesOver(step, p, base, seq) \in T
<1> DEFINE n == Len(seq)
           join == [i \in 1..n |-> [x \in T |-> AddMatches(step, p, x, seq[i])]]
           Is(g) == g = [s_ \in SUBSET DOMAIN seq |->
                           IF s_ = {} THEN base ELSE AddMatches(step, p, g[s_ \ {Max(s_)}], seq[Max(s_)])]
<1>1. PICK iter \in [SUBSET (1..n) -> T] : Iterates(n, base, join, iter)
  <2>1. \A i \in 1..n, x \in T : join[i][x] \in T
    OBVIOUS
  <2> HIDE DEF join
  <2> QED
    BY <2>1, FoldExists
<1>2. Is(iter)
  <2>1. ASSUME NEW s_ \in SUBSET (1..n), s_ # {}
        PROVE  join[Max(s_)][iter[s_ \ {Max(s_)}]] = AddMatches(step, p, iter[s_ \ {Max(s_)}], seq[Max(s_)])
    <3>1. Max(s_) \in 1..n /\ iter[s_ \ {Max(s_)}] \in T
      BY <2>1, <1>1, Greatest
    <3> QED
      BY <3>1
  <2> HIDE DEF join
  <2> QED
    BY <2>1, <1>1 DEF Iterates
<1>3. PICK g : Is(g) /\ AddMatchesOver(step, p, base, seq) = g[1..n]
  BY <1>2, Zenon DEF FoldLeft, MapThenFoldSet, AddMatchesOver
<1>4. g[{}] = base
  BY <1>3
<1>5. Leads(n, T, base, join, g[1..n])
  <2>1. ASSUME NEW s_ \in SUBSET (1..n), s_ # {}, g[s_ \ {Max(s_)}] = iter[s_ \ {Max(s_)}]
        PROVE  g[s_] = iter[s_]
    BY <1>2, <1>3, <2>1
  <2>2. n \in Nat
    OBVIOUS
  <2> HIDE DEF Is, join, n
  <2> QED
    BY <1>1, <1>4, <2>1, <2>2, FoldEnds
<1>6. g[1..n] \in T
  BY <1>5 DEF Leads
<1> QED
  BY <1>3, <1>5, <1>6

\* The buffer after the first steps of a pre-tokenizer.
LEMMA PreTokenizeFold ==
  ASSUME NEW T, NEW base \in T, NEW seq, Len(seq) \in Nat, DOMAIN seq = 1..Len(seq),
         \A i \in 1..Len(seq), x \in T : pre_tokenize_step(x, seq[i]) \in T
  PROVE  /\ Leads(Len(seq), T, base, [i \in 1..Len(seq) |-> [x \in T |-> pre_tokenize_step(x, seq[i])]],
                  FoldLeft(pre_tokenize_step, base, seq))
         /\ FoldLeft(pre_tokenize_step, base, seq) \in T
<1> DEFINE n == Len(seq)
           join == [i \in 1..n |-> [x \in T |-> pre_tokenize_step(x, seq[i])]]
           Is(g) == g = [s_ \in SUBSET DOMAIN seq |->
                           IF s_ = {} THEN base ELSE pre_tokenize_step(g[s_ \ {Max(s_)}], seq[Max(s_)])]
<1>1. PICK iter \in [SUBSET (1..n) -> T] : Iterates(n, base, join, iter)
  <2>1. \A i \in 1..n, x \in T : join[i][x] \in T
    OBVIOUS
  <2> HIDE DEF join
  <2> QED
    BY <2>1, FoldExists
<1>2. Is(iter)
  <2>1. ASSUME NEW s_ \in SUBSET (1..n), s_ # {}
        PROVE  join[Max(s_)][iter[s_ \ {Max(s_)}]] = pre_tokenize_step(iter[s_ \ {Max(s_)}], seq[Max(s_)])
    <3>1. Max(s_) \in 1..n /\ iter[s_ \ {Max(s_)}] \in T
      BY <2>1, <1>1, Greatest
    <3> QED
      BY <3>1
  <2> HIDE DEF join
  <2> QED
    BY <2>1, <1>1 DEF Iterates
<1>3. PICK g : Is(g) /\ FoldLeft(pre_tokenize_step, base, seq) = g[1..n]
  BY <1>2, Zenon DEF FoldLeft, MapThenFoldSet
<1>4. g[{}] = base
  BY <1>3
<1>5. Leads(n, T, base, join, g[1..n])
  <2>1. ASSUME NEW s_ \in SUBSET (1..n), s_ # {}, g[s_ \ {Max(s_)}] = iter[s_ \ {Max(s_)}]
        PROVE  g[s_] = iter[s_]
    BY <1>2, <1>3, <2>1
  <2>2. n \in Nat
    OBVIOUS
  <2> HIDE DEF Is, join, n
  <2> QED
    BY <1>1, <1>4, <2>1, <2>2, FoldEnds
<1>6. g[1..n] \in T
  BY <1>5 DEF Leads
<1> QED
  BY <1>3, <1>5, <1>6

\* The ids after the first templates.
LEMMA PostFold ==
  ASSUME NEW T, NEW base \in T, NEW seq, Len(seq) \in Nat, DOMAIN seq = 1..Len(seq),
         \A i \in 1..Len(seq), x \in T : apply_single(seq[i], x) \in T
  PROVE  /\ Leads(Len(seq), T, base, [i \in 1..Len(seq) |-> [x \in T |-> apply_single(seq[i], x)]],
                  (LET Apply(acc, t) == apply_single(t, acc) IN FoldLeft(Apply, base, seq)))
         /\ (LET Apply(acc, t) == apply_single(t, acc) IN FoldLeft(Apply, base, seq)) \in T
<1> DEFINE n == Len(seq)
           join == [i \in 1..n |-> [x \in T |-> apply_single(seq[i], x)]]
           Is(g) == g = [s_ \in SUBSET DOMAIN seq |->
                           IF s_ = {} THEN base ELSE apply_single(seq[Max(s_)], g[s_ \ {Max(s_)}])]
<1>1. PICK iter \in [SUBSET (1..n) -> T] : Iterates(n, base, join, iter)
  <2>1. \A i \in 1..n, x \in T : join[i][x] \in T
    OBVIOUS
  <2> HIDE DEF join
  <2> QED
    BY <2>1, FoldExists
<1>2. Is(iter)
  <2>1. ASSUME NEW s_ \in SUBSET (1..n), s_ # {}
        PROVE  join[Max(s_)][iter[s_ \ {Max(s_)}]] = apply_single(seq[Max(s_)], iter[s_ \ {Max(s_)}])
    <3>1. Max(s_) \in 1..n /\ iter[s_ \ {Max(s_)}] \in T
      BY <2>1, <1>1, Greatest
    <3> QED
      BY <3>1
  <2> HIDE DEF join
  <2> QED
    BY <2>1, <1>1 DEF Iterates
<1>3. PICK g : Is(g) /\ (LET Apply(acc, t) == apply_single(t, acc) IN FoldLeft(Apply, base, seq)) = g[1..n]
  BY <1>2, Zenon DEF FoldLeft, MapThenFoldSet
<1>4. g[{}] = base
  BY <1>3
<1>5. Leads(n, T, base, join, g[1..n])
  <2>1. ASSUME NEW s_ \in SUBSET (1..n), s_ # {}, g[s_ \ {Max(s_)}] = iter[s_ \ {Max(s_)}]
        PROVE  g[s_] = iter[s_]
    BY <1>2, <1>3, <2>1
  <2>2. n \in Nat
    OBVIOUS
  <2> HIDE DEF Is, join, n
  <2> QED
    BY <1>1, <1>4, <2>1, <2>2, FoldEnds
<1>6. g[1..n] \in T
  BY <1>5 DEF Leads
<1> QED
  BY <1>3, <1>5, <1>6

\* The chunks cut before all the characters.
CountedOver(cps, base, seq) ==
  LET Step(acc, i) == Counted(cps, acc, i) IN FoldLeft(Step, base, seq)

\* The chunks cut before the first characters.
LEMMA CountedFold ==
  ASSUME NEW cps, NEW T, NEW base \in T, NEW seq, Len(seq) \in Nat, DOMAIN seq = 1..Len(seq),
         \A i \in 1..Len(seq), x \in T : Counted(cps, x, seq[i]) \in T
  PROVE  /\ Leads(Len(seq), T, base, [i \in 1..Len(seq) |-> [x \in T |-> Counted(cps, x, seq[i])]],
                  CountedOver(cps, base, seq))
         /\ CountedOver(cps, base, seq) \in T
<1> DEFINE n == Len(seq)
           join == [i \in 1..n |-> [x \in T |-> Counted(cps, x, seq[i])]]
           Is(g) == g = [s_ \in SUBSET DOMAIN seq |->
                           IF s_ = {} THEN base ELSE Counted(cps, g[s_ \ {Max(s_)}], seq[Max(s_)])]
<1>1. PICK iter \in [SUBSET (1..n) -> T] : Iterates(n, base, join, iter)
  <2>1. \A i \in 1..n, x \in T : join[i][x] \in T
    OBVIOUS
  <2> HIDE DEF join
  <2> QED
    BY <2>1, FoldExists
<1>2. Is(iter)
  <2>1. ASSUME NEW s_ \in SUBSET (1..n), s_ # {}
        PROVE  join[Max(s_)][iter[s_ \ {Max(s_)}]] = Counted(cps, iter[s_ \ {Max(s_)}], seq[Max(s_)])
    <3>1. Max(s_) \in 1..n /\ iter[s_ \ {Max(s_)}] \in T
      BY <2>1, <1>1, Greatest
    <3> QED
      BY <3>1
  <2> HIDE DEF join
  <2> QED
    BY <2>1, <1>1 DEF Iterates
<1>3. PICK g : Is(g) /\ CountedOver(cps, base, seq) = g[1..n]
  BY <1>2, Zenon DEF FoldLeft, MapThenFoldSet, CountedOver
<1>4. g[{}] = base
  BY <1>3
<1>5. Leads(n, T, base, join, g[1..n])
  <2>1. ASSUME NEW s_ \in SUBSET (1..n), s_ # {}, g[s_ \ {Max(s_)}] = iter[s_ \ {Max(s_)}]
        PROVE  g[s_] = iter[s_]
    BY <1>2, <1>3, <2>1
  <2>2. n \in Nat
    OBVIOUS
  <2> HIDE DEF Is, join, n
  <2> QED
    BY <1>1, <1>4, <2>1, <2>2, FoldEnds
<1>6. g[1..n] \in T
  BY <1>5 DEF Leads
<1> QED
  BY <1>3, <1>5, <1>6

(***************************************************************************)
(* Normalizers make texts of texts.                                        *)
(***************************************************************************)

\* Nfc makes a text of a text.
LEMMA NfcType ==
  ASSUME NEW s \in Strings
  PROVE  Nfc(s) \in Strings
<1> DEFINE T == Seq(CodePoints)
           c == Chars(s)
<1>1. c \in T /\ <<>> \in T /\ Len(c) \in Nat /\ DOMAIN c = 1..Len(c)
  BY StringsAre
<1>2. E_ACUTE \in CodePoints
  BY SMT DEF CodePoints, IsCodePoint, E_ACUTE
<1>3. ASSUME NEW i \in 1..Len(c), NEW x \in T
      PROVE  Composed(x, c[i]) \in T
  <2>1. c[i] \in CodePoints
    BY <1>1
  <2>2. Append(x, c[i]) \in T
    BY <2>1
  <2>3. ASSUME x # <<>>
        PROVE  Append(Front(x), E_ACUTE) \in T
    <3>1. Front(x) \in T
      BY <2>3 DEF Front
    <3> QED
      BY <3>1, <1>2
  <2> HIDE DEF T
  <2> QED
    BY <2>2, <2>3 DEF Composed
<1>4. FoldLeft(Composed, <<>>, c) \in T
  <2> HIDE DEF T, c
  <2> QED
    BY <1>1, <1>3, NfcFold
<1> QED
  BY <1>4, StringsAre DEF Nfc

\* Every step of a normalizer makes a text of a text.
LEMMA StepType ==
  ASSUME NEW step, IsNormalizerStep(step), NEW x \in Strings
  PROVE  normalize_step(step, x) \in Strings
<1>1. CASE step.kind = "Nfc"
  BY <1>1, NfcType DEF normalize_step
<1>2. CASE step.kind = "Replace"
  <2>1. step.content \in Seq(CodePoints) /\ step.kind # "Nfc"
    BY <1>2, CodePointSeqs DEF IsNormalizerStep
  <2>2. Replaced(x, step.pattern, step.content) \in Strings
    BY <2>1, ReplacedType
  <2> QED
    BY <1>2, <2>1, <2>2 DEF normalize_step
<1>3. CASE step.kind = "Prepend"
  <2>0. step.kind # "Nfc" /\ step.kind # "Replace"
    BY <1>3
  <2>1. AreCodePoints(step.content)
    BY <1>3 DEF IsNormalizerStep
  <2>2. IsText(Str(step.content)) /\ IsText(x)
    BY <2>1, TextIsText DEF Strings
  <2>3. IsText(Str(step.content) \o x)
    BY <2>2, TextsJoin
  <2>4. Str(step.content) \o x \in Strings
    BY <2>3 DEF Strings, IsText
  <2> QED
    BY <2>0, <2>4 DEF normalize_step
<1> QED
  BY <1>1, <1>2, <1>3 DEF IsNormalizerStep

\* So does the whole of it.
LEMMA NormalizeType ==
  ASSUME NEW normalizer, normalizer \in Seq(Range(normalizer)),
         \A i \in DOMAIN normalizer : IsNormalizerStep(normalizer[i]), NEW s \in Strings
  PROVE  normalize(normalizer, s) \in Strings
<1>1. Len(normalizer) \in Nat /\ DOMAIN normalizer = 1..Len(normalizer)
  OBVIOUS
<1>2. \A i \in 1..Len(normalizer), x \in Strings : normalize_step(normalizer[i], x) \in Strings
  BY <1>1, StepType
<1>3. (LET Apply(t, step) == normalize_step(step, t) IN FoldLeft(Apply, s, normalizer)) \in Strings
  BY <1>1, <1>2, NormalizeFold
<1> QED
  BY <1>3 DEF normalize

(***************************************************************************)
(* The tokens a matcher looks for.                                         *)
(***************************************************************************)

\* The configs an automaton is built from: their contents are not empty.
Matchable == {config \in AddedTokenConfigs : config.content \in Strings /\ config.content # <<>>}

\* No normalizer leaves a text as it is.
LEMMA NormalizeNone ==
  ASSUME NEW s \in Strings
  PROVE  normalize(<<>>, s) = s
<1> DEFINE none == <<>>
<1>1. Len(none) = 0 /\ DOMAIN none = 1..0 /\ Len(none) \in Nat
  OBVIOUS
<1>2. \A i \in 1..Len(none), x \in Strings : normalize_step(none[i], x) \in Strings
  BY <1>1
<1>3. Leads(Len(none), Strings, s, [i \in 1..Len(none) |-> [x \in Strings |-> normalize_step(none[i], x)]],
            (LET Apply(t, step) == normalize_step(step, t) IN FoldLeft(Apply, s, none)))
  <2> HIDE DEF none
  <2> QED
    BY <1>1, <1>2, NormalizeFold
<1>4. (LET Apply(t, step) == normalize_step(step, t) IN FoldLeft(Apply, s, none)) = s
  <2> HIDE DEF none
  <2> QED
    BY <1>1, <1>3 DEF Leads, Goes
<1> QED
  BY <1>4 DEF normalize, none

\* The tokens looked for in normalized text, with their contents normalized.
WithNormalizedContents(tk) ==
    LET chosen == Chosen(tk.added, {i \in DOMAIN tk.added : tk.added[i].normalized})
    IN  [i \in DOMAIN chosen |-> [chosen[i] EXCEPT !.content = normalize(tk.normalizer, @)]]

\* What is chosen of the tokens with normalized contents.
LEMMA NormalizedAreOf ==
  ASSUME NEW tk, NEW X, NEW n \in Nat, DOMAIN WithNormalizedContents(tk) = 1..n,
         \A i \in 1..n : WithNormalizedContents(tk)[i] \in X
  PROVE  NormalizedConfigs(tk) \in Seq(X)
<1> DEFINE all == WithNormalizedContents(tk)
           one == {i \in DOMAIN all : all[i].special}
           two == {i \in DOMAIN all : ~ all[i].special}
           both == Chosen(all, one) \o Chosen(all, two)
           first == {i \in DOMAIN both : \A j \in DOMAIN both : both[j].content = both[i].content => i <= j}
<1>1. one \in SUBSET (1..n) /\ two \in SUBSET (1..n) /\ \A i \in 1..n : all[i] \in X
  OBVIOUS
<1>2. Chosen(all, one) \in Seq(X) /\ Chosen(all, two) \in Seq(X)
  <2> HIDE DEF one, two, all
  <2> QED
    BY <1>1, ChosenType
<1>3. both \in Seq(X)
  BY <1>2
<1>4. NormalizedConfigs(tk) = Chosen(both, first)
  BY DEF NormalizedConfigs, WithNormalizedContents, FirstOfContent
<1>5. Len(both) \in Nat /\ first \in SUBSET (1..Len(both)) /\ \A i \in first : both[i] \in X
  <2> HIDE DEF both
  <2> QED
    BY <1>3
<1> HIDE DEF both, first
<1>6. Chosen(both, first) \in Seq(X)
  BY <1>5, ChosenType
<1> QED
  BY <1>4, <1>6

\* The tokens of a tokenizer that loads can be looked for, all of them, those
\* that are not normalized, and the others with their normalized contents.
LEMMA MatcherTypes ==
  ASSUME NEW tk, IsTokenizer(tk)
  PROVE  /\ tk.added \in Seq(Matchable) /\ RawConfigs(tk) \in Seq(Matchable)
         /\ NormalizedConfigs(tk) \in Seq(Matchable)
<1> DEFINE n == Len(tk.added)
           raw == {i \in DOMAIN tk.added : ~ tk.added[i].normalized}
           norm == {i \in DOMAIN tk.added : tk.added[i].normalized}
           chosen == Chosen(tk.added, norm)
           m == Len(chosen)
           all == WithNormalizedContents(tk)
<1>1. /\ tk.added \in Seq(AddedTokenConfigs) /\ n \in Nat /\ DOMAIN tk.added = 1..n
      /\ \A i \in 1..n : tk.added[i] \in Matchable
  <2>1. tk.added \in Seq(AddedTokenConfigs) /\ n \in Nat /\ DOMAIN tk.added = 1..n
    BY DEF IsTokenizer
  <2>2. ASSUME NEW i \in 1..n
        PROVE  tk.added[i] \in Matchable
    <3>1. tk.added[i] \in AddedTokenConfigs
      BY <2>1
    <3>2. IsText(tk.added[i].content) /\ tk.added[i].content # <<>>
      BY <2>1 DEF IsTokenizer, Builds, from_configs
    <3>3. tk.added[i].content \in Seq(Bytes)
      BY <3>2 DEF IsText
    <3> QED
      BY <3>1, <3>2, <3>3 DEF Matchable, Strings
  <2> QED
    BY <2>1, <2>2
<1>2. tk.added \in Seq(Matchable)
  BY <1>1
<1>3. RawConfigs(tk) \in Seq(Matchable)
  <2>1. raw \in SUBSET (1..n) /\ \A i \in raw : tk.added[i] \in Matchable
    BY <1>1
  <2> HIDE DEF n
  <2>2. Chosen(tk.added, raw) \in Seq(Matchable)
    BY <1>1, <2>1, ChosenType
  <2> QED
    BY <2>2 DEF RawConfigs
<1>4. chosen \in Seq(Matchable) /\ m = Cardinality(norm) /\ m \in Nat /\ DOMAIN chosen = 1..m
  <2>1. norm \in SUBSET (1..n) /\ \A i \in norm : tk.added[i] \in Matchable
    BY <1>1
  <2>2. chosen \in Seq(Matchable) /\ m = Cardinality(norm)
    <3> HIDE DEF n, norm
    <3> QED
      BY <1>1, <2>1, ChosenType
  <2> HIDE DEF chosen
  <2> QED
    BY <2>2
<1>5. /\ DOMAIN all = 1..m
      /\ \A i \in 1..m : all[i] = [chosen[i] EXCEPT !.content = normalize(tk.normalizer, chosen[i].content)]
  BY <1>4 DEF WithNormalizedContents
<1>6. ASSUME NEW i \in 1..m
      PROVE  /\ all[i] \in AddedTokenConfigs /\ all[i].content \in Strings
             /\ tk.normalizer = <<>> => all[i] \in Matchable
  <2>1. chosen[i] \in Matchable
    BY <1>4
  <2>2. tk.normalizer \in Seq(Range(tk.normalizer)) /\ \A k \in DOMAIN tk.normalizer : IsNormalizerStep(tk.normalizer[k])
    BY DEF IsTokenizer
  <2> DEFINE old == chosen[i].content
             new == normalize(tk.normalizer, old)
  <2>3. old \in Strings /\ old # <<>>
    BY <2>1 DEF Matchable
  <2>4. new \in Strings
    BY <2>2, <2>3, NormalizeType
  <2>5. all[i] = [chosen[i] EXCEPT !.content = new]
    BY <1>5
  <2>6. chosen[i] \in AddedTokenConfigs
    BY <2>1 DEF Matchable
  <2>7. new \in Seq(Bytes)
    BY <2>4 DEF Strings
  <2> HIDE DEF new, chosen, all
  <2>8. all[i] \in AddedTokenConfigs /\ all[i].content = new
    BY <2>5, <2>6, <2>7 DEF AddedTokenConfigs
  <2>9. tk.normalizer = <<>> => new = old
    BY <2>3, NormalizeNone DEF new
  <2> QED
    BY <2>3, <2>4, <2>8, <2>9 DEF Matchable
<1>7. CASE HasNormalizedMatchers(tk)
  <2>1. from_configs(NormalizedConfigs(tk))
    BY <1>7 DEF IsTokenizer, Builds
  <2> DEFINE X == {config \in AddedTokenConfigs : config.content \in Strings}
  <2>2. NormalizedConfigs(tk) \in Seq(X)
    <3>1. \A i \in 1..m : all[i] \in X
      BY <1>6
    <3> HIDE DEF X, m, chosen
    <3> QED
      BY <1>4, <1>5, <3>1, NormalizedAreOf
  <2> QED
    BY <1>2, <1>3, <2>1, <2>2 DEF from_configs, Matchable
<1>8. CASE ~ HasNormalizedMatchers(tk)
  <2>1. \A i \in 1..m : all[i] \in Matchable
    <3>1. CASE tk.normalizer = <<>>
      BY <3>1, <1>6
    <3>2. CASE norm = {}
      <4>1. Cardinality(norm) = 0
        BY <3>2, FS_EmptySet
      <4>2. m = 0
        BY <4>1, <1>4
      <4> HIDE DEF m
      <4> QED
        BY <4>2
    <3> QED
      BY <1>8, <3>1, <3>2 DEF HasNormalizedMatchers
  <2> HIDE DEF m, chosen
  <2> QED
    BY <1>2, <1>3, <1>4, <1>5, <2>1, NormalizedAreOf
<1> QED
  BY <1>2, <1>3, <1>7, <1>8

(***************************************************************************)
(* The matcher: where the automaton looks.                                 *)
(***************************************************************************)

\* The tokens of a matcher, and a string it looks into.
Matching(configs, s) == configs \in Seq(Matchable) /\ configs # <<>> /\ s \in Seq(Bytes)

\* The configs of a matcher have ids, and contents that are not empty.
LEMMA MatcherIs ==
  ASSUME NEW configs, NEW s, Matching(configs, s)
  PROVE  /\ Len(s) \in Nat /\ DOMAIN configs = 1..Len(configs) /\ Len(configs) \in Nat \ {0}
         /\ \A i \in DOMAIN configs : /\ configs[i] \in Matchable /\ configs[i].id \in Nat
                                      /\ configs[i].content \in Seq(Bytes) /\ Len(configs[i].content) \in Nat \ {0}
                                      /\ configs[i].content \in Strings
<1>1. Len(s) \in Nat /\ DOMAIN configs = 1..Len(configs) /\ Len(configs) \in Nat \ {0}
  BY DEF Matching
<1>2. ASSUME NEW i \in DOMAIN configs
      PROVE  /\ configs[i] \in Matchable /\ configs[i].id \in Nat
             /\ configs[i].content \in Seq(Bytes) /\ Len(configs[i].content) \in Nat \ {0}
             /\ configs[i].content \in Strings
  <2>1. configs[i] \in Matchable
    BY DEF Matching
  <2>2. configs[i].id \in Nat /\ configs[i].content \in Seq(Bytes) /\ configs[i].content # <<>>
    BY <2>1 DEF Matchable, AddedTokenConfigs
  <2> QED
    BY <2>1, <2>2 DEF Matchable
<1> QED
  BY <1>1, <1>2

\* A token that matches lies in the string and begins with a byte it is looked for by.
LEMMA MatchIs ==
  ASSUME NEW configs, NEW s, Matching(configs, s), NEW pos \in Nat \ {0}, NEW i \in MatchesAt(configs, s, pos)
  PROVE  /\ i \in DOMAIN configs /\ pos + Len(configs[i].content) - 1 <= Len(s) /\ pos <= Len(s)
         /\ Len(configs[i].content) \in Nat \ {0} /\ s[pos] \in start_bytes(configs)
         /\ SubSeq(s, pos, pos + Len(configs[i].content) - 1) = configs[i].content
<1> DEFINE c == configs[i].content
<1>1. /\ i \in DOMAIN configs /\ pos + Len(c) - 1 <= Len(s)
      /\ SubSeq(s, pos, pos + Len(c) - 1) = c
  BY DEF MatchesAt
<1>2. c \in Seq(Bytes) /\ Len(c) \in Nat \ {0} /\ Len(s) \in Nat /\ s \in Seq(Bytes)
  BY <1>1, MatcherIs DEF Matching
<1>3. c[1] \in start_bytes(configs)
  BY <1>1 DEF start_bytes
<1> HIDE DEF c
<1>4. c[1] = s[pos] /\ pos <= Len(s)
  BY <1>1, <1>2
<1> QED
  BY <1>1, <1>2, <1>3, <1>4 DEF c

\* The longest match is a match.
LEMMA LongestIs ==
  ASSUME NEW configs, NEW s, Matching(configs, s), NEW pos \in Nat \ {0}, MatchesAt(configs, s, pos) # {}
  PROVE  \E i \in MatchesAt(configs, s, pos) : Longest(configs, s, pos) = configs[i]
<1> DEFINE M == MatchesAt(configs, s, pos)
           len(i) == Len(configs[i].content)
           D == {Len(s) - len(i) : i \in M}
<1>1. \A i \in M : len(i) \in Nat /\ len(i) <= Len(s)
  <2>1. ASSUME NEW i \in M PROVE len(i) \in Nat /\ len(i) <= Len(s)
    <3>1. len(i) \in Nat \ {0} /\ pos + len(i) - 1 <= Len(s) /\ Len(s) \in Nat
      BY MatchIs, MatcherIs
    <3> HIDE DEF len
    <3> QED
      BY <3>1
  <2> QED
    BY <2>1
<1>2. Len(s) \in Nat
  BY MatcherIs
<1> HIDE DEF M, len
<1>3. D \in SUBSET Nat /\ D # {}
  BY <1>1, <1>2 DEF M
<1>4. PICK d \in D : \A e \in D : d <= e
  BY <1>3, Least
<1>5. PICK i \in M : d = Len(s) - len(i)
  BY <1>4
<1>6. \A j \in M : len(j) <= len(i)
  <2> SUFFICES ASSUME NEW j \in M PROVE len(j) <= len(i)
    OBVIOUS
  <2>1. Len(s) - len(j) \in D
    OBVIOUS
  <2>2. Len(s) - len(i) <= Len(s) - len(j)
    BY <2>1, <1>4, <1>5
  <2> QED
    BY <2>2, <1>1, <1>2
<1>7. \E k \in M : \A j \in M : Len(configs[j].content) <= Len(configs[k].content)
  BY <1>6 DEF len
<1> QED
  BY <1>7 DEF Longest, M

\* The next match is the first there is.
LEMMA NextMatchIs ==
  ASSUME NEW configs, NEW s, Len(s) \in Nat, NEW pos \in 1..Len(s) + 1
  PROVE  /\ NextMatch(configs, s, pos) \in pos..Len(s) + 1
         /\ NextMatch(configs, s, pos) <= Len(s) => MatchesAt(configs, s, NextMatch(configs, s, pos)) # {}
         /\ \A p \in pos..Len(s) : MatchesAt(configs, s, p) # {} => NextMatch(configs, s, pos) <= p
<1> DEFINE D == {Len(s) + 1} \cup {p \in pos..Len(s) : MatchesAt(configs, s, p) # {}}
<1>1. D \in SUBSET Nat /\ D # {}
  OBVIOUS
<1>2. Min(D) \in D /\ \A x \in D : Min(D) <= x
  BY <1>1, MinIs
<1>3. NextMatch(configs, s, pos) = Min(D)
  BY DEF NextMatch
<1>4. Min(D) = Len(s) + 1 \/ (Min(D) \in pos..Len(s) /\ MatchesAt(configs, s, Min(D)) # {})
  BY <1>2
<1>5. \A p \in pos..Len(s) : MatchesAt(configs, s, p) # {} => Min(D) <= p
  BY <1>2
<1> HIDE DEF D
<1> QED
  BY <1>3, <1>4, <1>5

\* The window shows every match at its beginning and none that is not there.
LEMMA WindowIs ==
  ASSUME NEW configs, NEW s, Matching(configs, s), NEW pos \in 1..Len(s)
  PROVE  /\ MatchesAt(configs, Window(configs, s, pos), 1) = MatchesAt(configs, s, pos)
         /\ Len(Window(configs, s, pos)) \in Nat \ {0} /\ Window(configs, s, pos) \in Seq(Bytes)
<1> DEFINE n == Len(s)
           L == {Len(configs[i].content) : i \in DOMAIN configs}
           max == max_token_len(configs)
           end == Min({pos + max, n + 1})
           E_ == {e \in end..(n + 1) : IsBoundary(s, e)}
           stop == Min(E_)
           w == SubSeq(s, pos, stop - 1)
<1>1. /\ n \in Nat /\ s \in Seq(Bytes)
      /\ \A i \in DOMAIN configs : configs[i].content \in Seq(Bytes) /\ Len(configs[i].content) \in Nat \ {0}
  BY MatcherIs DEF Matching
<1>2. max \in Nat \ {0} /\ \A i \in DOMAIN configs : Len(configs[i].content) <= max
  <2> DEFINE f == [i \in DOMAIN configs |-> Len(configs[i].content)]
  <2>1. Len(configs) \in Nat /\ DOMAIN configs = 1..Len(configs) /\ \A i \in 1..Len(configs) : f[i] \in Nat
    BY MatcherIs
  <2>2. \E b \in Nat : \A i \in 1..Len(configs) : f[i] <= b
    <3> HIDE DEF f
    <3> QED
      BY <2>1, Bounded
  <2>3. PICK b \in Nat : \A x \in L : x <= b
    BY <2>1, <2>2
  <2>4. L \in SUBSET (0..b) /\ L # {}
    <3>1. L # {}
      <4>1. 1 \in DOMAIN configs
        BY MatcherIs
      <4> QED
        BY <4>1
    <3>2. \A x \in L : x \in Nat
      BY <1>1
    <3> QED
      BY <2>3, <3>1, <3>2
  <2> HIDE DEF L
  <2>5. Max(L) \in L /\ \A x \in L : x <= Max(L)
    BY <2>4, MaxIs
  <2> QED
    BY <2>5, <1>1 DEF L, max_token_len
<1> HIDE DEF max, L
<1>3. end \in Nat /\ end \in {pos + max, n + 1} /\ end <= pos + max /\ end <= n + 1
  <2>1. {pos + max, n + 1} \in SUBSET Nat /\ {pos + max, n + 1} # {}
    BY <1>1, <1>2
  <2>2. end \in {pos + max, n + 1} /\ \A x \in {pos + max, n + 1} : end <= x
    BY <2>1, MinIs
  <2> QED
    BY <2>1, <2>2
<1> HIDE DEF end
<1>4. stop \in end..(n + 1)
  <2>1. n + 1 \in E_
    BY <1>1, <1>3 DEF IsBoundary
  <2>2. E_ \in SUBSET Nat /\ E_ # {}
    BY <2>1, <1>1, <1>3
  <2>3. stop \in E_
    BY <2>2, MinIs
  <2> QED
    BY <2>3
<1> HIDE DEF stop
<1>5. stop \in Nat /\ pos < stop /\ stop <= n + 1
  BY <1>1, <1>2, <1>3, <1>4
<1>6. w \in Seq(Bytes) /\ Len(w) = stop - pos /\ \A k \in 1..(stop - pos) : w[k] = s[pos + k - 1]
  BY <1>1, <1>5
<1>7. ASSUME NEW i \in DOMAIN configs
      PROVE  i \in MatchesAt(configs, w, 1) <=> i \in MatchesAt(configs, s, pos)
  <2> DEFINE c == configs[i].content
             l == Len(c)
  <2>1. c \in Seq(Bytes) /\ l \in Nat \ {0} /\ l <= max
    BY <1>1, <1>2
  <2> HIDE DEF c
  <2>2. 1 + l - 1 <= Len(w) <=> pos + l - 1 <= n
    BY <2>1, <1>1, <1>2, <1>3, <1>4, <1>5, <1>6
  <2> HIDE DEF l
  <2>3. ASSUME pos + l - 1 <= n
        PROVE  SubSeq(w, 1, 1 + l - 1) = SubSeq(s, pos, pos + l - 1)
    <3>1. l <= stop - pos /\ l <= Len(w) /\ 1 + l - 1 = l
      BY <2>1, <2>2, <2>3, <1>5, <1>6
    <3> HIDE DEF w, n
    <3>2. SubSeq(w, 1, l) \in Seq(Bytes) /\ Len(SubSeq(w, 1, l)) = l /\ \A k \in 1..l : SubSeq(w, 1, l)[k] = w[k]
      BY <2>1, <3>1, <1>6
    <3>3. /\ SubSeq(s, pos, pos + l - 1) \in Seq(Bytes) /\ Len(SubSeq(s, pos, pos + l - 1)) = l
          /\ \A k \in 1..l : SubSeq(s, pos, pos + l - 1)[k] = s[pos + k - 1]
      BY <2>1, <2>3, <1>1, <1>5 DEF n
    <3>4. \A k \in 1..l : w[k] = s[pos + k - 1]
      BY <2>1, <3>1, <1>5, <1>6
    <3> HIDE DEF w, n
    <3>5. SubSeq(w, 1, l) = SubSeq(s, pos, pos + l - 1)
      <4> DEFINE x == SubSeq(w, 1, l)
                 y == SubSeq(s, pos, pos + l - 1)
      <4>1. x \in Seq(Bytes) /\ y \in Seq(Bytes) /\ Len(x) = Len(y) /\ \A k \in 1..Len(x) : x[k] = y[k]
        BY <3>2, <3>3, <3>4
      <4> HIDE DEF x, y
      <4>2. x = y
        BY <4>1, SameSeq
      <4> QED
        BY <4>2 DEF x, y
    <3> QED
      BY <3>1, <3>5
  <2> HIDE DEF w, n
  <2> QED
    BY <2>2, <2>3 DEF MatchesAt, c, l, n
<1>8. Window(configs, s, pos) = w
  BY Zenon DEF Window, w, stop, end, max, n, E_
<1>9. MatchesAt(configs, w, 1) = MatchesAt(configs, s, pos)
  <2>1. \A i \in MatchesAt(configs, w, 1) \cup MatchesAt(configs, s, pos) : i \in DOMAIN configs
    BY DEF MatchesAt
  <2> HIDE DEF w
  <2> QED
    BY <2>1, <1>7
<1>10. Len(w) \in Nat \ {0}
  BY <1>5, <1>6
<1> HIDE DEF w
<1> QED
  BY <1>6, <1>8, <1>9, <1>10

(***************************************************************************)
(* The scan of a string with and without the prefilter.                    *)
(***************************************************************************)

\* Lists of segments.
Segments_ == Seq([id : Int, text : Seq(Bytes)])

\* The token found at a place, and the segments there are when it is found.
FoundAt(configs, s, from, pos) == TextIf(s, from, pos - 1) \o <<Token(Longest(configs, s, pos).id)>>
AfterFound(configs, s, pos) == pos + Len(Longest(configs, s, pos).content)

\* The text from one byte to another is a segment, if there is any.
LEMMA TextIfType ==
  ASSUME NEW s \in Seq(Bytes), NEW from \in 1..Len(s) + 1, NEW to \in Int, to <= Len(s)
  PROVE  TextIf(s, from, to) \in Segments_
<1>1. CASE from <= to
  <2>1. SubSeq(s, from, to) \in Seq(Bytes) /\ NoId \in Int
    BY <1>1 DEF NoId
  <2>2. TextIf(s, from, to) = <<[id |-> NoId, text |-> SubSeq(s, from, to)]>>
    BY <1>1 DEF TextIf, Text
  <2>3. [id |-> NoId, text |-> SubSeq(s, from, to)] \in [id : Int, text : Seq(Bytes)]
    BY <2>1
  <2> QED
    BY <2>2, <2>3 DEF Segments_
<1>2. CASE ~ (from <= to)
  BY <1>2 DEF TextIf, Segments_
<1> QED
  BY <1>1, <1>2

\* What is found lies in the string.
LEMMA FoundIs ==
  ASSUME NEW configs, NEW s, Matching(configs, s), NEW pos \in 1..Len(s) + 1, MatchesAt(configs, s, pos) # {}
  PROVE  /\ pos <= Len(s) /\ AfterFound(configs, s, pos) \in pos + 1..Len(s) + 1
         /\ Longest(configs, s, pos).id \in Nat
         /\ \A from \in 1..Len(s) + 1 : FoundAt(configs, s, from, pos) \in Segments_
<1>1. PICK i \in MatchesAt(configs, s, pos) : Longest(configs, s, pos) = configs[i]
  BY MatcherIs, LongestIs
<1>2. /\ pos \in Nat \ {0} /\ pos <= Len(s) /\ pos + Len(configs[i].content) - 1 <= Len(s)
      /\ Len(configs[i].content) \in Nat \ {0} /\ configs[i].id \in Nat /\ Len(s) \in Nat
      /\ s \in Seq(Bytes)
  <2>1. Len(s) \in Nat /\ s \in Seq(Bytes)
    BY MatcherIs DEF Matching
  <2>2. pos \in Nat \ {0}
    BY <2>1
  <2>3. i \in DOMAIN configs /\ pos <= Len(s) /\ pos + Len(configs[i].content) - 1 <= Len(s)
        /\ Len(configs[i].content) \in Nat \ {0}
    BY <2>2, MatchIs
  <2>4. configs[i].id \in Nat
    BY <2>3, MatcherIs
  <2> QED
    BY <2>1, <2>2, <2>3, <2>4
<1>3. AfterFound(configs, s, pos) \in pos + 1..Len(s) + 1
  <2>1. AfterFound(configs, s, pos) = pos + Len(configs[i].content)
    BY <1>1 DEF AfterFound
  <2> QED
    BY <2>1, <1>2
<1>4. ASSUME NEW from \in 1..Len(s) + 1
      PROVE  FoundAt(configs, s, from, pos) \in Segments_
  <2>1. <<Token(configs[i].id)>> \in Segments_
    BY <1>2 DEF Token, Segments_
  <2>2. TextIf(s, from, pos - 1) \in Segments_
    <3>1. pos - 1 \in Int /\ pos - 1 <= Len(s)
      BY <1>2
    <3> QED
      BY <1>2, <3>1, TextIfType
  <2> QED
    BY <2>1, <2>2, <1>1 DEF FoundAt, Segments_
<1> QED
  BY <1>1, <1>2, <1>3, <1>4

\* The scan goes from one match to the next.
ScanGoes(configs, s, f) ==
  \A pos \in 1..Len(s) + 1 :
    f[pos] = LET p == NextMatch(configs, s, pos)
             IN  IF p > Len(s) THEN TextIf(s, pos, Len(s))
                 ELSE FoundAt(configs, s, pos, p) \o f[AfterFound(configs, s, p)]

\* There is the function the scan of the automaton is defined by.
LEMMA ScanIs ==
  ASSUME NEW configs, NEW s, Matching(configs, s)
  PROVE  \E f : ScanGoes(configs, s, f) /\ split_full_scan(configs, s) = f[1]
<1> DEFINE n == Len(s)
           P == 1..n + 1
           T == Segments_
           next(pos) == NextMatch(configs, s, pos)
           D == {pos \in P : next(pos) > n}
           val == [pos \in P |-> TextIf(s, pos, n)]
           step == [pos \in P |-> AfterFound(configs, s, next(pos))]
           join == [pos \in P |-> [x \in T |-> FoundAt(configs, s, pos, next(pos)) \o x]]
           size == [pos \in P |-> n + 1 - pos]
           Is(f) == f = [pos \in P |->
                         LET p == NextMatch(configs, s, pos)
                         IN  IF p > n THEN TextIf(s, pos, n)
                             ELSE LET token == Longest(configs, s, p)
                                  IN  TextIf(s, pos, p - 1) \o <<Token(token.id)>> \o f[p + Len(token.content)]]
<1>0. n \in Nat /\ s \in Seq(Bytes)
  BY MatcherIs DEF Matching
<1>1. ASSUME NEW pos \in P, pos \notin D
      PROVE  /\ step[pos] \in P /\ pos < step[pos]
             /\ FoundAt(configs, s, pos, next(pos)) \in T
  <2>0. /\ NextMatch(configs, s, pos) \in pos..Len(s) + 1
        /\ NextMatch(configs, s, pos) <= Len(s) => MatchesAt(configs, s, NextMatch(configs, s, pos)) # {}
    BY <1>0, NextMatchIs
  <2>1. next(pos) \in pos..n + 1 /\ next(pos) <= n
    BY <1>0, <1>1, <2>0
  <2>2. next(pos) \in P /\ MatchesAt(configs, s, next(pos)) # {}
    BY <1>0, <2>0, <2>1
  <2>3. AfterFound(configs, s, next(pos)) \in next(pos) + 1..n + 1 /\ FoundAt(configs, s, pos, next(pos)) \in T
    BY <2>2, FoundIs
  <2> HIDE DEF next, T
  <2> QED
    BY <1>0, <2>1, <2>3
<1>2. WellFounded(P, T, D, val, step, join, size)
  <2>1. T # {}
    <3>1. <<>> \in T
      BY DEF Segments_
    <3> QED
      BY <3>1
  <2>2. \A pos \in P : size[pos] \in Nat
    BY <1>0
  <2>3. \A pos \in P : pos \in D => val[pos] \in T
    <3> SUFFICES ASSUME NEW pos \in P PROVE val[pos] \in T
      OBVIOUS
    <3>1. n \in Int /\ n <= Len(s)
      BY <1>0
    <3>2. TextIf(s, pos, n) \in T
      BY <1>0, <3>1, TextIfType
    <3> QED
      BY <3>2
  <2>4. \A pos \in P : pos \notin D => step[pos] \in P /\ size[step[pos]] < size[pos]
    <3> SUFFICES ASSUME NEW pos \in P, pos \notin D PROVE step[pos] \in P /\ size[step[pos]] < size[pos]
      OBVIOUS
    <3>1. step[pos] \in P /\ pos < step[pos]
      BY <1>1
    <3> HIDE DEF step
    <3>2. size[pos] = n + 1 - pos /\ size[step[pos]] = n + 1 - step[pos]
      BY <3>1
    <3> HIDE DEF size
    <3> QED
      BY <3>1, <3>2, <1>0
  <2>5. \A pos \in P, x \in T : pos \notin D => join[pos][x] \in T
    <3> SUFFICES ASSUME NEW pos \in P, NEW x \in T, pos \notin D PROVE join[pos][x] \in T
      OBVIOUS
    <3>1. FoundAt(configs, s, pos, next(pos)) \in T
      BY <1>1
    <3>2. FoundAt(configs, s, pos, next(pos)) \o x \in T
      BY <3>1 DEF Segments_
    <3> QED
      BY <3>2
  <2> HIDE DEF P, T, D, val, step, join, size
  <2> QED
    BY <2>1, <2>2, <2>3, <2>4, <2>5 DEF WellFounded
<1>3. PICK h \in [P -> T] : h = [pos \in P |-> IF pos \in D THEN val[pos] ELSE join[pos][h[step[pos]]]]
  <2> HIDE DEF P, T, D, val, step, join, size
  <2> QED
    BY <1>2, Recursion
<1>4. Is(h)
  <2>1. ASSUME NEW pos \in P
        PROVE  h[pos] = LET p == NextMatch(configs, s, pos)
                        IN  IF p > n THEN TextIf(s, pos, n)
                            ELSE LET token == Longest(configs, s, p)
                                 IN  TextIf(s, pos, p - 1) \o <<Token(token.id)>> \o h[p + Len(token.content)]
    <3>1. CASE pos \in D
      BY <3>1, <1>3
    <3>2. CASE pos \notin D
      <4>1. step[pos] \in P /\ ~ next(pos) > n
        BY <3>2, <1>1
      <4>2. h[step[pos]] \in T
        BY <4>1, <1>3
      <4>3. h[pos] = join[pos][h[step[pos]]]
        BY <3>2, <1>3
      <4>4. h[pos] = FoundAt(configs, s, pos, next(pos)) \o h[step[pos]]
        BY <4>2, <4>3
      <4>5. step[pos] = AfterFound(configs, s, next(pos))
        OBVIOUS
      <4> HIDE DEF P, T, D, val, step, join, size
      <4> QED
        BY <4>1, <4>4, <4>5 DEF FoundAt, AfterFound
    <3> QED
      BY <3>1, <3>2
  <2> QED
    BY <2>1, <1>3, Zenon
<1>5. PICK f : Is(f) /\ split_full_scan(configs, s) = f[1]
  <2>1. \E f : Is(f)
    BY <1>4
  <2>2. split_full_scan(configs, s) = (CHOOSE f : Is(f))[1]
    BY DEF split_full_scan
  <2>3. Is(CHOOSE f : Is(f))
    BY <2>1, Zenon
  <2> QED
    BY <2>2, <2>3
<1>6. ScanGoes(configs, s, f)
  <2>1. ASSUME NEW pos \in P
        PROVE  f[pos] = LET p == NextMatch(configs, s, pos)
                        IN  IF p > n THEN TextIf(s, pos, n)
                            ELSE LET token == Longest(configs, s, p)
                                 IN  TextIf(s, pos, p - 1) \o <<Token(token.id)>> \o f[p + Len(token.content)]
    BY <1>5, Zenon
  <2> HIDE DEF Is
  <2> QED
    BY <2>1 DEF ScanGoes, FoundAt, AfterFound
<1> QED
  BY <1>5, <1>6

\* Looking only at first bytes, and only into the window, finds every match.
LEMMA LookIs ==
  ASSUME NEW configs, NEW s, Matching(configs, s), NEW pos \in 1..Len(s)
  PROVE  /\ NextMatch(configs, Window(configs, s, pos), 1) = 1 <=> MatchesAt(configs, s, pos) # {}
         /\ MatchesAt(configs, s, pos) # {} => s[pos] \in start_bytes(configs)
         /\ Longest(configs, Window(configs, s, pos), 1) = Longest(configs, s, pos)
<1> DEFINE w == Window(configs, s, pos)
<1>1. MatchesAt(configs, w, 1) = MatchesAt(configs, s, pos) /\ Len(w) \in Nat \ {0}
  BY WindowIs
<1> HIDE DEF w
<1>2. /\ NextMatch(configs, w, 1) \in 1..Len(w) + 1
      /\ NextMatch(configs, w, 1) <= Len(w) => MatchesAt(configs, w, NextMatch(configs, w, 1)) # {}
      /\ \A p \in 1..Len(w) : MatchesAt(configs, w, p) # {} => NextMatch(configs, w, 1) <= p
  <2>1. Len(w) \in Nat /\ 1 \in 1..Len(w) + 1
    BY <1>1
  <2> QED
    BY <2>1, NextMatchIs
<1>3. NextMatch(configs, w, 1) = 1 <=> MatchesAt(configs, w, 1) # {}
  BY <1>1, <1>2
<1>4. Longest(configs, w, 1) = Longest(configs, s, pos)
  BY <1>1 DEF Longest
<1>5. MatchesAt(configs, s, pos) # {} => s[pos] \in start_bytes(configs)
  <2>1. pos \in Nat \ {0}
    BY MatcherIs
  <2> QED
    BY <2>1, MatchIs
<1> QED
  BY <1>1, <1>3, <1>4, <1>5 DEF w

\* What the prefilter finds from a byte on, as it looks, and by the matches there are.
Looking(configs, s, g, pos, prev) ==
  IF pos > Len(s) THEN TextIf(s, prev, Len(s))
  ELSE IF /\ s[pos] \in start_bytes(configs) /\ pos >= prev
          /\ NextMatch(configs, Window(configs, s, pos), 1) = 1
       THEN LET token == Longest(configs, Window(configs, s, pos), 1)
            IN  TextIf(s, prev, pos - 1) \o <<Token(token.id)>> \o g[<<pos + 1, pos + Len(token.content)>>]
       ELSE g[<<pos + 1, prev>>]

\* One step of the prefilter from byte pos, with text pending from prev, the rest
\* being what g has for the next byte.
Finding(configs, s, g, pos, prev) ==
  IF pos > Len(s) THEN TextIf(s, prev, Len(s))
  ELSE IF pos >= prev /\ MatchesAt(configs, s, pos) # {}
       THEN FoundAt(configs, s, prev, pos) \o g[<<pos + 1, AfterFound(configs, s, pos)>>]
       ELSE g[<<pos + 1, prev>>]

\* The prefilter goes from byte to byte.
PrefilterGoes(configs, s, g) ==
  \A pos \in 1..Len(s) + 1, prev \in 1..Len(s) + 1 : g[<<pos, prev>>] = Finding(configs, s, g, pos, prev)

\* One look of the prefilter finds what one of the automaton finds.
LEMMA PrefilterStep ==
  ASSUME NEW configs, NEW s, Matching(configs, s), NEW pos \in 1..Len(s) + 1, NEW prev \in 1..Len(s) + 1, NEW g
  PROVE  Looking(configs, s, g, pos, prev) = Finding(configs, s, g, pos, prev)
<1>0. Len(s) \in Nat
  BY MatcherIs
<1>1. CASE pos > Len(s)
  BY <1>1 DEF Looking, Finding
<1>2. CASE ~ pos > Len(s)
  <2>1. pos \in 1..Len(s)
    BY <1>0, <1>2
  <2>2. /\ NextMatch(configs, Window(configs, s, pos), 1) = 1 <=> MatchesAt(configs, s, pos) # {}
        /\ MatchesAt(configs, s, pos) # {} => s[pos] \in start_bytes(configs)
        /\ Longest(configs, Window(configs, s, pos), 1) = Longest(configs, s, pos)
    BY <2>1, LookIs
  <2> QED
    BY <1>2, <2>2, Zenon DEF FoundAt, AfterFound, Looking, Finding
<1> QED
  BY <1>1, <1>2

\* There is the function the prefilter is defined by.
LEMMA PrefilterIs ==
  ASSUME NEW configs, NEW s, Matching(configs, s)
  PROVE  \E g : PrefilterGoes(configs, s, g) /\ split_prefilter(configs, s) = g[<<1, 1>>]
<1> DEFINE n == Len(s)
           R == 1..n + 1
           P == R \X R
           T == Segments_
           hit(at) == at[1] >= at[2] /\ MatchesAt(configs, s, at[1]) # {}
           D == {at \in P : at[1] > n}
           val == [at \in P |-> TextIf(s, at[2], n)]
           step == [at \in P |-> <<at[1] + 1, IF hit(at) THEN AfterFound(configs, s, at[1]) ELSE at[2]>>]
           join == [at \in P |-> [x \in T |-> IF hit(at) THEN FoundAt(configs, s, at[2], at[1]) \o x ELSE x]]
           size == [at \in P |-> n + 1 - at[1]]
           Is(g) == g = [at \in P |-> Looking(configs, s, g, at[1], at[2])]
<1>0. n \in Nat /\ s \in Seq(Bytes)
  BY MatcherIs DEF Matching
<1>1. ASSUME NEW pos \in R, NEW prev \in R, pos <= n, MatchesAt(configs, s, pos) # {}
      PROVE  AfterFound(configs, s, pos) \in R /\ FoundAt(configs, s, prev, pos) \in T
  <2>1. AfterFound(configs, s, pos) \in pos + 1..Len(s) + 1 /\ FoundAt(configs, s, prev, pos) \in T
    BY <1>1, FoundIs
  <2> HIDE DEF T
  <2> QED
    BY <1>0, <2>1
<1>2. ASSUME NEW pos \in R, NEW prev \in R, pos <= n
      PROVE  LET at == <<pos, prev>>
             IN  /\ step[at] \in P /\ step[at][1] = pos + 1 /\ size[step[at]] < size[at]
                 /\ \A x \in T : join[at][x] \in T
  <2> DEFINE at == <<pos, prev>>
  <2>1. at \in P /\ at[1] = pos /\ at[2] = prev /\ pos + 1 \in R
    BY <1>2, <1>0
  <2>2. (IF hit(at) THEN AfterFound(configs, s, pos) ELSE prev) \in R
    BY <1>1, <1>2
  <2>3. step[at] = <<pos + 1, IF hit(at) THEN AfterFound(configs, s, pos) ELSE prev>>
    BY <2>1
  <2>4. step[at] \in P /\ step[at][1] = pos + 1
    <3> HIDE DEF R, step, hit, at
    <3> QED
      BY <2>1, <2>2, <2>3
  <2>5. size[step[at]] = n + 1 - (pos + 1) /\ size[at] = n + 1 - pos
    <3> HIDE DEF R, step, at
    <3> QED
      BY <2>1, <2>4
  <2>6. size[step[at]] < size[at]
    <3> HIDE DEF size, step, at
    <3> QED
      BY <1>0, <2>5
  <2>7. ASSUME NEW x \in T PROVE join[at][x] \in T
    <3>1. join[at][x] = IF hit(at) THEN FoundAt(configs, s, prev, pos) \o x ELSE x
      BY <2>1
    <3>2. ASSUME hit(at)
          PROVE  FoundAt(configs, s, prev, pos) \o x \in T
      <4>1. FoundAt(configs, s, prev, pos) \in T
        BY <1>1, <1>2, <2>1, <3>2
      <4> QED
        BY <4>1 DEF Segments_
    <3> HIDE DEF join, T, hit, at
    <3> QED
      BY <3>1, <3>2
  <2> QED
    BY <2>4, <2>6, <2>7
<1>3. WellFounded(P, T, D, val, step, join, size)
  <2>1. T # {}
    <3>1. <<>> \in T
      BY DEF Segments_
    <3> QED
      BY <3>1
  <2>2. \A at \in P : size[at] \in Nat
    <3> SUFFICES ASSUME NEW at \in P PROVE size[at] \in Nat
      OBVIOUS
    <3>1. at[1] \in R /\ size[at] = n + 1 - at[1]
      OBVIOUS
    <3> HIDE DEF size
    <3> QED
      BY <3>1, <1>0
  <2>3. \A at \in P : at \in D => val[at] \in T
    <3> SUFFICES ASSUME NEW at \in P PROVE val[at] \in T
      OBVIOUS
    <3>1. n \in Int /\ n <= Len(s) /\ at[2] \in 1..Len(s) + 1
      BY <1>0
    <3>2. TextIf(s, at[2], n) \in T
      BY <1>0, <3>1, TextIfType
    <3> QED
      BY <3>2
  <2>4. \A at \in P : at \notin D => step[at] \in P /\ size[step[at]] < size[at]
    <3> SUFFICES ASSUME NEW at \in P, at \notin D PROVE step[at] \in P /\ size[step[at]] < size[at]
      OBVIOUS
    <3>1. at = <<at[1], at[2]>> /\ at[1] \in R /\ at[2] \in R /\ at[1] <= n
      BY <1>0
    <3> HIDE DEF P, R, T, D, val, step, join, size
    <3> QED
      BY <3>1, <1>2
  <2>5. \A at \in P, x \in T : at \notin D => join[at][x] \in T
    <3> SUFFICES ASSUME NEW at \in P, NEW x \in T, at \notin D PROVE join[at][x] \in T
      OBVIOUS
    <3>1. at = <<at[1], at[2]>> /\ at[1] \in R /\ at[2] \in R /\ at[1] <= n
      BY <1>0
    <3> HIDE DEF P, R, T, D, val, step, join, size
    <3> QED
      BY <3>1, <1>2
  <2> HIDE DEF P, T, D, val, step, join, size
  <2> QED
    BY <2>1, <2>2, <2>3, <2>4, <2>5 DEF WellFounded
<1>4. PICK h \in [P -> T] : h = [at \in P |-> IF at \in D THEN val[at] ELSE join[at][h[step[at]]]]
  <2> HIDE DEF P, T, D, val, step, join, size
  <2> QED
    BY <1>3, Recursion
<1>5. ASSUME NEW pos \in R, NEW prev \in R
      PROVE  h[<<pos, prev>>] = Finding(configs, s, h, pos, prev)
  <2> DEFINE at == <<pos, prev>>
  <2>1. at \in P /\ at[1] = pos /\ at[2] = prev
    OBVIOUS
  <2>2. CASE pos > n
    <3>1. at \in D /\ val[at] = TextIf(s, prev, n)
      BY <2>1, <2>2
    <3> HIDE DEF D, val, P
    <3> QED
      BY <2>1, <2>2, <3>1, <1>4 DEF Finding
  <2>3. CASE ~ pos > n
    <3>0. pos <= n
      BY <2>3, <1>0
    <3>1. at \notin D /\ step[at] \in P /\ step[at] = <<pos + 1, IF hit(at) THEN AfterFound(configs, s, pos) ELSE prev>>
      BY <2>1, <2>3, <3>0, <1>2
    <3>2. h[step[at]] \in T
      BY <3>1, <1>4
    <3>3. h[at] = join[at][h[step[at]]]
      BY <2>1, <3>1, <1>4
    <3>4. h[at] = IF hit(at) THEN FoundAt(configs, s, prev, pos) \o h[step[at]] ELSE h[step[at]]
      BY <2>1, <3>2, <3>3
    <3>5. hit(at) <=> pos >= prev /\ MatchesAt(configs, s, pos) # {}
      BY <2>1
    <3> HIDE DEF P, R, T, D, val, step, join, size, hit
    <3> QED
      BY <2>3, <3>1, <3>4, <3>5 DEF Finding
  <2> QED
    BY <2>2, <2>3
<1>6. Is(h)
  <2>1. ASSUME NEW at \in P
        PROVE  h[at] = Looking(configs, s, h, at[1], at[2])
    <3>1. at = <<at[1], at[2]>> /\ at[1] \in R /\ at[2] \in R
      OBVIOUS
    <3> HIDE DEF P, T, D, val, step, join, size, hit
    <3> QED
      BY <3>1, <1>5, PrefilterStep
  <2> QED
    BY <2>1, <1>4, Zenon
<1>7. PICK g : Is(g) /\ split_prefilter(configs, s) = g[<<1, 1>>]
  <2>1. \E g : Is(g)
    BY <1>6
  <2>2. split_prefilter(configs, s) = (CHOOSE g : Is(g))[<<1, 1>>]
    BY DEF split_prefilter, Looking
  <2>3. Is(CHOOSE g : Is(g))
    BY <2>1, Zenon
  <2> QED
    BY <2>2, <2>3
<1>8. PrefilterGoes(configs, s, g)
  <2>1. ASSUME NEW pos \in R, NEW prev \in R
        PROVE  g[<<pos, prev>>] = Looking(configs, s, g, pos, prev)
    <3>1. <<pos, prev>> \in P /\ <<pos, prev>>[1] = pos /\ <<pos, prev>>[2] = prev
      OBVIOUS
    <3> HIDE DEF P, R
    <3> QED
      BY <3>1, <1>7
  <2> HIDE DEF Is
  <2> QED
    BY <2>1, PrefilterStep DEF PrefilterGoes
<1> QED
  BY <1>7, <1>8

\* The prefilter finds what the scan finds.
LEMMA PrefilterScans ==
  ASSUME NEW configs, NEW s, Matching(configs, s)
  PROVE  split_prefilter(configs, s) = split_full_scan(configs, s)
<1> DEFINE n == Len(s)
           R == 1..n + 1
<1>1. PICK f : ScanGoes(configs, s, f) /\ split_full_scan(configs, s) = f[1]
  BY ScanIs
<1>2. PICK g : PrefilterGoes(configs, s, g) /\ split_prefilter(configs, s) = g[<<1, 1>>]
  BY PrefilterIs
<1> DEFINE Free(from, to) == \A q \in R : from <= q /\ q < to => MatchesAt(configs, s, q) = {}
           S == {m \in 0..n : \A prev \in R : Free(prev, n + 1 - m) => g[<<n + 1 - m, prev>>] = f[prev]}
<1>3. n \in Nat
  BY MatcherIs
<1>4. ASSUME NEW prev \in R
      PROVE  /\ NextMatch(configs, s, prev) \in prev..n + 1
             /\ NextMatch(configs, s, prev) <= n => MatchesAt(configs, s, NextMatch(configs, s, prev)) # {}
             /\ \A p \in prev..n : MatchesAt(configs, s, p) # {} => NextMatch(configs, s, prev) <= p
             /\ f[prev] = LET p == NextMatch(configs, s, prev)
                          IN  IF p > n THEN TextIf(s, prev, n)
                              ELSE FoundAt(configs, s, prev, p) \o f[AfterFound(configs, s, p)]
  BY <1>1, <1>3, NextMatchIs DEF ScanGoes
<1>5. ASSUME NEW pos \in R, NEW prev \in R
      PROVE  g[<<pos, prev>>] =
               IF pos > n THEN TextIf(s, prev, n)
               ELSE IF pos >= prev /\ MatchesAt(configs, s, pos) # {}
                    THEN FoundAt(configs, s, prev, pos) \o g[<<pos + 1, AfterFound(configs, s, pos)>>]
                    ELSE g[<<pos + 1, prev>>]
  BY <1>2 DEF PrefilterGoes, Finding
<1>6. 0 \in S
  <2>1. ASSUME NEW prev \in R, Free(prev, n + 1)
        PROVE  g[<<n + 1, prev>>] = f[prev]
    <3>1. n + 1 \in R /\ n + 1 > n
      BY <1>3
    <3>2. NextMatch(configs, s, prev) > n
      BY <1>3, <1>4, <2>1
    <3> QED
      BY <3>1, <3>2, <1>4, <1>5
  <2>2. n + 1 - 0 = n + 1 /\ 0 \in 0..n
    BY <1>3
  <2> QED
    BY <2>1, <2>2
<1>7. ASSUME NEW m \in Nat, m < n /\ m \in S
      PROVE  m + 1 \in S
  <2> DEFINE pos == n - m
  <2>1. pos \in R /\ pos + 1 \in R /\ pos <= n /\ n + 1 - (m + 1) = pos /\ n + 1 - m = pos + 1 /\ m + 1 \in 0..n
    BY <1>3, <1>7
  <2>2. \A prev \in R : Free(prev, pos + 1) => g[<<pos + 1, prev>>] = f[prev]
    <3> HIDE DEF Free, R
    <3> QED
      BY <1>7, <2>1
  <2> HIDE DEF pos
  <2>3. ASSUME NEW prev \in R, Free(prev, pos)
        PROVE  g[<<pos, prev>>] = f[prev]
    <3>1. CASE pos >= prev /\ MatchesAt(configs, s, pos) # {}
      <4>1. NextMatch(configs, s, prev) = pos
        BY <1>3, <1>4, <2>1, <2>3, <3>1
      <4>2. AfterFound(configs, s, pos) \in pos + 1..n + 1
        BY <2>1, <3>1, FoundIs
      <4>3. AfterFound(configs, s, pos) \in R /\ Free(AfterFound(configs, s, pos), pos + 1)
        BY <1>3, <2>1, <4>2
      <4>4. g[<<pos + 1, AfterFound(configs, s, pos)>>] = f[AfterFound(configs, s, pos)]
        BY <2>2, <4>3
      <4>5. g[<<pos, prev>>] = FoundAt(configs, s, prev, pos) \o f[AfterFound(configs, s, pos)]
        <5>1. ~ pos > n
          BY <1>3, <2>1
        <5> HIDE DEF Free, R
        <5> QED
          BY <1>5, <2>1, <3>1, <4>4, <5>1
      <4>6. f[prev] = FoundAt(configs, s, prev, pos) \o f[AfterFound(configs, s, pos)]
        <5>1. ~ pos > n
          BY <1>3, <2>1
        <5> HIDE DEF Free, R
        <5> QED
          BY <1>4, <4>1, <5>1
      <4> QED
        BY <4>5, <4>6
    <3>2. CASE ~ (pos >= prev /\ MatchesAt(configs, s, pos) # {})
      <4>1. Free(prev, pos + 1)
        <5> SUFFICES ASSUME NEW q \in R, prev <= q, q < pos + 1 PROVE MatchesAt(configs, s, q) = {}
          OBVIOUS
        <5>1. CASE q < pos
          BY <2>3, <5>1
        <5>2. CASE q = pos
          BY <3>2, <5>2, <1>3, <2>1
        <5> QED
          BY <5>1, <5>2, <1>3, <2>1
      <4>2. g[<<pos + 1, prev>>] = f[prev]
        BY <2>2, <4>1
      <4>3. ~ pos > n
        BY <1>3, <2>1
      <4> QED
        BY <1>5, <2>1, <3>2, <4>2, <4>3
    <3> QED
      BY <3>1, <3>2
  <2>4. \A prev \in R : Free(prev, n + 1 - (m + 1)) => g[<<n + 1 - (m + 1), prev>>] = f[prev]
    <3> HIDE DEF Free, R
    <3> QED
      BY <2>1, <2>3
  <2> HIDE DEF Free, R
  <2> QED
    BY <2>1, <2>4
<1> HIDE DEF S
<1>8. n \in S
  BY <1>3, <1>6, <1>7, UpTo
<1>9. g[<<1, 1>>] = f[1]
  <2>1. n + 1 - n = 1 /\ 1 \in R /\ Free(1, 1)
    BY <1>3
  <2> HIDE DEF Free, R
  <2> QED
    BY <1>8, <2>1 DEF S
<1> QED
  BY <1>1, <1>2, <1>9

(***************************************************************************)
(* The parts of an input and their chunks are texts.                       *)
(***************************************************************************)

\* What is known while the characters of a slice are counted.
Counting(cps) ==
  [chunks : Seq(Slices), start : 1..Len(cps), run : Int, space : BOOLEAN]

\* Every character goes on counting.
LEMMA CountedType ==
  ASSUME NEW cps \in Seq(CodePoints), NEW i \in 1..Len(cps), NEW acc \in Counting(cps)
  PROVE  Counted(cps, acc, i) \in Counting(cps)
<1> DEFINE chunk == SubSeq(cps, acc.start, i - 1)
<1>1. /\ acc.chunks \in Seq(Slices) /\ acc.start \in 1..Len(cps) /\ acc.run \in Int
      /\ acc.space \in BOOLEAN /\ acc = [chunks |-> acc.chunks, start |-> acc.start, run |-> acc.run, space |-> acc.space]
  BY DEF Counting
<1>2. acc.start < i => chunk \in Slices
  <2>1. chunk \in Seq(CodePoints)
    BY <1>1
  <2>2. acc.start < i => Len(chunk) # 0
    BY <1>1
  <2> HIDE DEF chunk
  <2> QED
    BY <2>1, <2>2 DEF Slices
<1>3. acc.start < i => Append(acc.chunks, chunk) \in Seq(Slices)
  BY <1>1, <1>2
<1>4. RunBegins(acc.run) = 1
  BY DEF RunBegins
<1>5. [acc EXCEPT !.run = 1, !.space = ~ @] \in Counting(cps)
  <2>1. (~ acc.space) \in BOOLEAN
    OBVIOUS
  <2> DEFINE other == ~ acc.space
             once == [acc EXCEPT !.run = 1]
  <2>2. other \in BOOLEAN /\ once \in Counting(cps)
    BY <1>1, <2>1 DEF Counting
  <2>3. [acc EXCEPT !.run = 1, !.space = other] = [once EXCEPT !.space = other]
    OBVIOUS
  <2>4. [once EXCEPT !.space = other] \in Counting(cps)
    <3> HIDE DEF other, once
    <3> QED
      BY <2>2 DEF Counting
  <2> QED
    BY <2>3, <2>4, Zenon
<1>6. [acc EXCEPT !.run = @ + 1] \in Counting(cps)
  BY <1>1 DEF Counting
<1>7. [chunks |-> IF acc.start < i THEN Append(acc.chunks, chunk) ELSE acc.chunks,
       start |-> i, run |-> RunBegins(acc.run), space |-> acc.space] \in Counting(cps)
  BY <1>1, <1>3, <1>4 DEF Counting
<1> HIDE DEF chunk
<1> QED
  BY <1>5, <1>6, <1>7 DEF Counted, chunk

\* The chunks of a slice are sequences of code points, none of them empty.
LEMMA WhitespaceLimitedType ==
  ASSUME NEW cps \in Seq(CodePoints), cps # <<>>
  PROVE  push_whitespace_limited_chunks(cps) \in Seq(Slices)
<1> DEFINE base == [chunks |-> <<>>, start |-> 1, run |-> 0, space |-> IsSpace(cps[1])]
           at == [i \in DOMAIN cps |-> i]
           T == Counting(cps)
           all == CountedOver(cps, base, at)
<1>1. Len(cps) \in Nat \ {0} /\ DOMAIN cps = 1..Len(cps)
  BY EmptySeq
<1>2. base \in T
  BY <1>1 DEF Counting, IsSpace
<1>3. /\ Len(at) \in Nat /\ DOMAIN at = 1..Len(at) /\ Len(at) = Len(cps)
      /\ \A i \in 1..Len(at) : at[i] = i
  <2>1. at \in [1..Len(cps) -> 1..Len(cps)]
    BY <1>1
  <2>2. at \in Seq(1..Len(cps)) /\ Len(at) = Len(cps)
    BY <1>1, <2>1, Tabled
  <2> QED
    BY <1>1, <2>1, <2>2
<1>4. \A i \in 1..Len(at), x \in T : Counted(cps, x, at[i]) \in T
  <2> SUFFICES ASSUME NEW i \in 1..Len(at), NEW x \in T PROVE Counted(cps, x, at[i]) \in T
    OBVIOUS
  <2>1. at[i] = i /\ i \in 1..Len(cps)
    BY <1>3
  <2> HIDE DEF at
  <2> QED
    BY <2>1, CountedType
<1>5. all \in T
  <2> HIDE DEF base, at, T
  <2> QED
    BY <1>2, <1>3, <1>4, CountedFold
<1>6. all.chunks \in Seq(Slices) /\ SubSeq(cps, all.start, Len(cps)) \in Slices
  <2> HIDE DEF all
  <2>1. all.chunks \in Seq(Slices) /\ all.start \in 1..Len(cps)
    BY <1>5 DEF Counting
  <2> DEFINE rest == SubSeq(cps, all.start, Len(cps))
  <2>2. rest \in Seq(CodePoints) /\ Len(rest) # 0
    BY <1>1, <2>1
  <2> HIDE DEF rest
  <2>3. rest \in Slices
    BY <2>2 DEF Slices
  <2> QED
    BY <2>1, <2>3 DEF rest
<1>7. push_whitespace_limited_chunks(cps) = Append(all.chunks, SubSeq(cps, all.start, Len(cps)))
  BY Zenon DEF push_whitespace_limited_chunks, CountedOver
<1> HIDE DEF all
<1> QED
  BY <1>6, <1>7

\* A part of an input that is encoded.
Parts == [text : Strings \ {<<>>}, bypass : BOOLEAN]

\* The slices of at most max characters, none of them empty.
LEMMA OfAtMostType ==
  ASSUME NEW cps \in Seq(CodePoints), NEW max \in Nat \ {0}
  PROVE  /\ OfAtMost(cps, max) \in Seq(Seq(CodePoints))
         /\ \A n \in 1..Len(OfAtMost(cps, max)) : OfAtMost(cps, max)[n] # <<>>
BY SlicesType DEF OfAtMost, SlicesOf

\* The chunks of a text are texts, none of them empty.
LEMMA ChunksType ==
  ASSUME NEW s \in Strings
  PROVE  /\ chunk_chars(s) \in Seq(Slices)
         /\ tiktoken_safe_chunks(s) \in Seq(Strings \ {<<>>})
<1> DEFINE outer == OfAtMost(Chars(s), TIKTOKEN_MAX_ENCODE_CHARS)
           limited == [n \in DOMAIN outer |-> push_whitespace_limited_chunks(outer[n])]
           chunks == chunk_chars(s)
           texts == [n \in DOMAIN chunks |-> Str(chunks[n])]
<1>1. /\ outer \in Seq(Seq(CodePoints)) /\ Len(outer) \in Nat /\ DOMAIN outer = 1..Len(outer)
      /\ \A n \in 1..Len(outer) : outer[n] \in Seq(CodePoints) /\ outer[n] # <<>>
  <2>1. Chars(s) \in Seq(CodePoints) /\ TIKTOKEN_MAX_ENCODE_CHARS \in Nat \ {0}
    BY StringsAre, PipelineAssumption
  <2>2. outer \in Seq(Seq(CodePoints)) /\ \A n \in 1..Len(outer) : outer[n] # <<>>
    BY <2>1, OfAtMostType
  <2> HIDE DEF outer
  <2> QED
    BY <2>2
<1>2. limited \in Seq(Seq(Slices))
  <2> HIDE DEF outer
  <2>1. \A n \in 1..Len(outer) : limited[n] \in Seq(Slices)
    BY <1>1, WhitespaceLimitedType
  <2> QED
    BY <1>1, <2>1, Mapped
<1>3. chunks = FlattenSeq(limited)
  BY DEF chunk_chars, Limited
<1>4. chunks \in Seq(Slices)
  <2> HIDE DEF limited, chunks
  <2> QED
    BY <1>2, <1>3, FlattenType
<1>5. texts \in Seq(Strings \ {<<>>})
  <2> HIDE DEF chunks
  <2>1. Len(chunks) \in Nat /\ DOMAIN chunks = 1..Len(chunks) /\ \A n \in 1..Len(chunks) : chunks[n] \in Slices
    BY <1>4
  <2>2. \A n \in 1..Len(chunks) : texts[n] \in Strings \ {<<>>}
    BY <2>1, SomeText
  <2> QED
    BY <2>1, <2>2, Mapped
<1> QED
  BY <1>4, <1>5 DEF tiktoken_safe_chunks, Texts

\* What a part is encoded as are parts.
LEMMA PartsType ==
  ASSUME NEW part, IsText(part.text), part.bypass \in BOOLEAN, NEW safe \in BOOLEAN
  PROVE  PartsOf(part, safe) \in Seq(Parts)
<1> DEFINE texts == IF safe THEN tiktoken_safe_chunks(part.text)
                    ELSE IF part.text = <<>> THEN <<>> ELSE <<part.text>>
           all == [i \in DOMAIN texts |-> [text |-> texts[i], bypass |-> part.bypass]]
<1>1. texts \in Seq(Strings \ {<<>>})
  <2>1. part.text \in Strings
    BY DEF Strings, IsText
  <2>2. /\ <<>> \in Seq(Strings \ {<<>>}) /\ tiktoken_safe_chunks(part.text) \in Seq(Strings \ {<<>>})
        /\ part.text # <<>> => <<part.text>> \in Seq(Strings \ {<<>>})
    BY <2>1, ChunksType
  <2> QED
    BY <2>2
<1>2. PartsOf(part, safe) = all
  BY DEF PartsOf
<1>3. all \in Seq(Parts)
  <2> HIDE DEF texts
  <2>1. Len(texts) \in Nat /\ DOMAIN texts = 1..Len(texts) /\ \A i \in 1..Len(texts) : texts[i] \in Strings \ {<<>>}
    BY <1>1
  <2>2. \A i \in 1..Len(texts) : all[i] \in Parts
    BY <2>1 DEF Parts
  <2> QED
    BY <2>1, <2>2, Mapped
<1> QED
  BY <1>2, <1>3

(***************************************************************************)
(* The calls: which job a Tokenizer works on, and the parts still to do.   *)
(***************************************************************************)

\* The job of a decode or a stream.
IdJobs == {[kind |-> "ids", tk |-> list.tk, skip |-> list.skip] : list \in IdLists}

\* Whoever is at work has a job with a tokenizer, and parts that are texts.
CallsOK ==
  /\ pc \in {"idle", "split", "pre", "tokenize", "done", "stream", "failed", "encoding"}
  /\ pc \in {"split", "pre", "tokenize", "encoding"} => job \in Jobs
  /\ pc # "idle" => job \in Jobs \cup IdJobs
  /\ todo \in Seq(Parts)
  /\ pc \in {"pre", "tokenize"} => todo # <<>>

\* A step of the pipeline, of the wrapping, or none of either.
LEMMA StepsAre ==
  ASSUME [EncNext]_<<vars, encVars>>
  PROVE  \/ Begin \/ SplitAdded \/ PreTokenize \/ ModelTokenize \/ PostProcess
         \/ BeginIds \/ NewStream \/ StepHolds \/ StepReturns \/ StepFails \/ Return
         \/ Wrap \/ New \/ Release \/ UNCHANGED vars
BY Zenon DEF EncNext, Next, Change, Truncate, Pad, SetIds, SetVector, SetSequenceId, SetSequences,
   MergeWithAnswer, PostProcessEncoding, into_numpy, Does

\* A job of an encode has a tokenizer that loads.
LEMMA JobsAre ==
  ASSUME NEW j \in Jobs
  PROVE  IsJob(j) /\ j.kind = "encode" /\ j.tk \in DOMAIN Tokenizers /\ IsTokenizer(Tokenizers[j.tk])
BY PipelineAssumption DEF IsJob

\* At the beginning no call is made.
LEMMA CallsInit == EncInit => CallsOK
BY DEF EncInit, Init, CallsOK

\* No step leaves the calls.
LEMMA CallsStep ==
  ASSUME CallsOK, [EncNext]_<<vars, encVars>>
  PROVE  CallsOK'
<1>1. ASSUME Begin
      PROVE  CallsOK'
  <2>1. PICK j \in Jobs : /\ job' = j /\ pc' = "split"
                          /\ todo' = FlattenSeq([i \in DOMAIN j.parts |-> PartsOf(j.parts[i], j.safe)])
    BY <1>1 DEF Begin
  <2> DEFINE all == [i \in DOMAIN j.parts |-> PartsOf(j.parts[i], j.safe)]
  <2>2. /\ Len(j.parts) \in Nat /\ DOMAIN j.parts = 1..Len(j.parts) /\ j.safe \in BOOLEAN
        /\ \A i \in 1..Len(j.parts) : IsText(j.parts[i].text) /\ j.parts[i].bypass \in BOOLEAN
    BY JobsAre DEF IsJob
  <2>3. \A i \in 1..Len(j.parts) : all[i] \in Seq(Parts)
    BY <2>2, PartsType
  <2>4. all \in Seq(Seq(Parts))
    <3>1. all \in [1..Len(j.parts) -> Seq(Parts)]
      BY <2>2, <2>3
    <3> HIDE DEF all
    <3> QED
      BY <2>2, <3>1, Tabled
  <2>5. todo' \in Seq(Parts)
    <3> HIDE DEF all
    <3>1. FlattenSeq(all) \in Seq(Parts)
      BY <2>4, FlattenType
    <3> QED
      BY <2>1, <3>1 DEF all
  <2> QED
    BY <2>1, <2>5 DEF CallsOK
<1>2. ASSUME SplitAdded
      PROVE  CallsOK'
  BY <1>2 DEF SplitAdded, CallsOK
<1>3. ASSUME PreTokenize
      PROVE  CallsOK'
  BY <1>3 DEF PreTokenize, CallsOK
<1>4. ASSUME ModelTokenize
      PROVE  CallsOK'
  <2>1. pc = "tokenize" /\ pc' \in {"failed", "split"} /\ todo' = SubSeq(todo, 2, Len(todo)) /\ job' = job
    BY <1>4 DEF ModelTokenize
  <2>2. job \in Jobs /\ todo \in Seq(Parts)
    BY <2>1 DEF CallsOK
  <2>3. todo' \in Seq(Parts)
    BY <2>1, <2>2
  <2> QED
    BY <2>1, <2>2, <2>3 DEF CallsOK
<1>5. ASSUME PostProcess
      PROVE  CallsOK'
  BY <1>5 DEF PostProcess, CallsOK
<1>6. ASSUME BeginIds
      PROVE  CallsOK'
  <2>1. PICK list \in IdLists : job' = [kind |-> "ids", tk |-> list.tk, skip |-> list.skip] /\ pc' = "done" /\ todo' = todo
    BY <1>6 DEF BeginIds
  <2>2. job' \in IdJobs
    BY <2>1 DEF IdJobs
  <2> QED
    BY <2>1, <2>2 DEF CallsOK
<1>7. ASSUME NewStream \/ StepHolds \/ StepReturns \/ StepFails
      PROVE  CallsOK'
  <2>1. pc \in {"done", "stream"} /\ pc' \in {"stream", "failed"} /\ job' = job /\ todo' = todo
    BY <1>7 DEF NewStream, StepHolds, StepReturns, StepFails
  <2> QED
    BY <2>1 DEF CallsOK
<1>8. ASSUME Return \/ Release
      PROVE  CallsOK'
  <2>1. pc' = "idle" /\ (todo' = <<>> \/ todo' = todo)
    BY <1>8 DEF Return, Release
  <2>2. todo' \in Seq(Parts)
    <3>1. <<>> \in Seq(Parts) /\ todo \in Seq(Parts)
      BY DEF CallsOK
    <3> QED
      BY <2>1, <3>1
  <2> QED
    BY <2>1, <2>2 DEF CallsOK
<1>9. ASSUME Wrap \/ New
      PROVE  CallsOK'
  <2>1. pc = "done" /\ job.kind = "encode" /\ pc' = "encoding" /\ job' = job /\ todo' = todo
    BY <1>9 DEF Wrap, New
  <2>2. job \in Jobs
    BY <2>1 DEF CallsOK, IdJobs
  <2> QED
    BY <2>1, <2>2 DEF CallsOK
<1>10. ASSUME UNCHANGED vars
       PROVE  CallsOK'
  BY <1>10 DEF vars, CallsOK
<1> QED
  BY <1>1, <1>2, <1>3, <1>4, <1>5, <1>6, <1>7, <1>8, <1>9, <1>10, StepsAre

\* At every time there is a job at work, with a tokenizer and texts.
THEOREM Called == EncSpec => []CallsOK
<1>1. CallsOK /\ [EncNext]_<<vars, encVars>> => CallsOK'
  BY CallsStep
<1> QED
  BY CallsInit, <1>1, PTL DEF EncSpec

\* Looking only where a first byte of an added token is, and only into a window
\* as long as the longest, finds what the automaton finds in the whole input,
\* whatever the added tokens and the input are (split_prefilter, split_full_scan).
THEOREM SamePrefilter == EncSpec => []PrefilterIsScan
<1>1. CallsOK => PrefilterIsScan
  <2> SUFFICES ASSUME CallsOK, NEW part \in Here,
                      NEW configs \in {This.added, RawConfigs(This), NormalizedConfigs(This)}, configs # <<>>
               PROVE  split_prefilter(configs, part.text) = split_full_scan(configs, part.text)
    BY DEF PrefilterIsScan
  <2>1. pc = "split" /\ todo # <<>> /\ part = todo[1]
    BY DEF Here
  <2>2. todo \in Seq(Parts) /\ job \in Jobs
    BY <2>1 DEF CallsOK
  <2>3. part \in Parts
    BY <2>1, <2>2
  <2>4. part.text \in Seq(Bytes)
    BY <2>3 DEF Parts, Strings
  <2>5. IsTokenizer(This)
    BY <2>2, JobsAre DEF This
  <2>6. configs \in Seq(Matchable)
    BY <2>5, MatcherTypes
  <2> QED
    BY <2>4, <2>6, PrefilterScans DEF Matching
<1> QED
  BY Called, <1>1, PTL

(***************************************************************************)
(* Segments are texts.                                                     *)
(***************************************************************************)

\* A segment of an input: a text, or a token.
Segment == [id : Nat \cup {NoId}, text : Strings]

\* A segment that a matcher finds or leaves: some text, or one of its tokens.
SegmentIn(configs) ==
  {seg \in Segment : IF seg.id = NoId THEN seg.text # <<>>
                     ELSE seg.text = <<>> /\ \E i \in DOMAIN configs : configs[i].id = seg.id}

\* What a segment stands for in the input.
Piece(configs, seg) == IF seg.id = NoId THEN seg.text ELSE Content(configs, seg.id)

\* No text follows a text.
Apart(segments) == \A i \in 1..(Len(segments) - 1) : segments[i].id # NoId \/ segments[i + 1].id # NoId

\* Segments a matcher makes of the text t.
Spells(configs, segments, t) ==
  segments \in Seq(SegmentIn(configs)) /\ Apart(segments) /\ Spelled(configs, segments) = t

\* A matcher whose tokens have an id each, and a text it looks into.
Distinct(configs) == configs \in Seq(Matchable) /\ configs # <<>> /\ DistinctIds(configs)
\* A string of the program, read by a matcher of distinct configs.
Reading(configs, s) == Distinct(configs) /\ s \in Strings

\* The content of a token is found by its id.
LEMMA ContentIs ==
  ASSUME NEW configs, Distinct(configs), NEW i \in DOMAIN configs
  PROVE  /\ Content(configs, configs[i].id) = configs[i].content
         /\ configs[i].content \in Strings /\ configs[i].content # <<>> /\ configs[i].id \in Nat
<1>1. DOMAIN configs = 1..Len(configs) /\ Len(configs) \in Nat /\ configs[i] \in Matchable
  BY DEF Distinct
<1>2. configs[i].content \in Strings /\ configs[i].content # <<>> /\ configs[i].id \in Nat
  BY <1>1 DEF Matchable, AddedTokenConfigs
<1> DEFINE same == {j \in DOMAIN configs : configs[j].id = configs[i].id}
<1>3. i \in same /\ \A j \in same : j = i
  BY DEF Distinct, DistinctIds
<1>4. same \in SUBSET (0..Len(configs)) /\ same # {}
  BY <1>1, <1>3
<1> HIDE DEF same
<1>5. Max(same) = i
  BY <1>1, <1>3, <1>4, MaxIs
<1> QED
  BY <1>2, <1>5 DEF Content, same

\* So every segment stands for a text.
LEMMA PieceType ==
  ASSUME NEW configs, Distinct(configs), NEW seg \in SegmentIn(configs)
  PROVE  Piece(configs, seg) \in Strings /\ Piece(configs, seg) \in Seq(Bytes) /\ Piece(configs, seg) # <<>>
<1>1. CASE seg.id = NoId
  BY <1>1 DEF Piece, SegmentIn, Segment, Strings
<1>2. CASE seg.id # NoId
  <2>1. PICK i \in DOMAIN configs : configs[i].id = seg.id
    BY <1>2 DEF SegmentIn
  <2>2. Piece(configs, seg) = configs[i].content
    BY <1>2, <2>1, ContentIs DEF Piece
  <2> QED
    BY <2>2, ContentIs DEF Strings
<1> QED
  BY <1>1, <1>2

\* What segments stand for, one after the other.
Pieced(configs, segments) == [i \in DOMAIN segments |-> Piece(configs, segments[i])]

\* Pieced has what each segment stands for, and Spelled puts these together.
LEMMA PiecedIs ==
  ASSUME NEW configs, Distinct(configs), NEW segments \in Seq(SegmentIn(configs))
  PROVE  /\ Pieced(configs, segments) \in Seq(Seq(Bytes)) /\ Len(Pieced(configs, segments)) = Len(segments)
         /\ \A i \in 1..Len(segments) : Pieced(configs, segments)[i] = Piece(configs, segments[i])
         /\ Spelled(configs, segments) = FlattenSeq(Pieced(configs, segments))
         /\ Spelled(configs, segments) \in Seq(Bytes)
<1> DEFINE w == Pieced(configs, segments)
<1>1. Len(segments) \in Nat /\ DOMAIN segments = 1..Len(segments) /\ \A i \in 1..Len(segments) : segments[i] \in SegmentIn(configs)
  OBVIOUS
<1>2. \A i \in 1..Len(segments) : Piece(configs, segments[i]) \in Seq(Bytes)
  BY <1>1, PieceType
<1>3. w \in [1..Len(segments) -> Seq(Bytes)]
  BY <1>1, <1>2 DEF Pieced
<1>4. w \in Seq(Seq(Bytes)) /\ Len(w) = Len(segments)
  <2> HIDE DEF w
  <2> QED
    BY <1>1, <1>3, Tabled
<1>5. Spelled(configs, segments) = FlattenSeq(w)
  BY Zenon DEF Spelled, Pieced, Piece
<1>6. FlattenSeq(w) \in Seq(Bytes)
  <2> HIDE DEF w
  <2> QED
    BY <1>4, FlattenType
<1>7. \A i \in 1..Len(segments) : w[i] = Piece(configs, segments[i])
  BY <1>1 DEF Pieced
<1> HIDE DEF w
<1> QED
  BY <1>4, <1>5, <1>6, <1>7 DEF w

\* Segments may follow segments, unless a text would follow a text.
LEMMA SpellsJoin ==
  ASSUME NEW configs, Distinct(configs), NEW a, NEW t, Spells(configs, a, t), NEW b, NEW u, Spells(configs, b, u),
         a = <<>> \/ b = <<>> \/ a[Len(a)].id # NoId \/ b[1].id # NoId
  PROVE  Spells(configs, a \o b, t \o u)
<1>1. a \in Seq(SegmentIn(configs)) /\ b \in Seq(SegmentIn(configs)) /\ a \o b \in Seq(SegmentIn(configs))
  BY DEF Spells
<1>2. /\ Len(a) \in Nat /\ Len(b) \in Nat /\ Len(a \o b) = Len(a) + Len(b)
      /\ \A i \in 1..Len(a \o b) : (a \o b)[i] = IF i <= Len(a) THEN a[i] ELSE b[i - Len(a)]
      /\ (a = <<>> => Len(a) = 0) /\ (b = <<>> => Len(b) = 0)
  BY <1>1
<1>3. Apart(a \o b)
  <2> SUFFICES ASSUME NEW i \in 1..(Len(a \o b) - 1) PROVE (a \o b)[i].id # NoId \/ (a \o b)[i + 1].id # NoId
    BY DEF Apart
  <2>1. i \in 1..Len(a \o b) /\ i + 1 \in 1..Len(a \o b) /\ i \in Nat
    BY <1>2
  <2>2. CASE i < Len(a)
    <3>1. (a \o b)[i] = a[i] /\ (a \o b)[i + 1] = a[i + 1] /\ i \in 1..(Len(a) - 1)
      BY <1>2, <2>1, <2>2
    <3> QED
      BY <3>1 DEF Spells, Apart
  <2>3. CASE i = Len(a)
    <3>1. (a \o b)[i] = a[Len(a)] /\ (a \o b)[i + 1] = b[1] /\ Len(a) # 0 /\ Len(b) # 0
      BY <1>2, <2>1, <2>3
    <3> QED
      BY <3>1, <1>2
  <2>4. CASE i > Len(a)
    <3> DEFINE k == i - Len(a)
    <3>1. (a \o b)[i] = b[k] /\ (a \o b)[i + 1] = b[i + 1 - Len(a)] /\ k \in 1..(Len(b) - 1) /\ i + 1 - Len(a) = k + 1
      BY <1>2, <2>1, <2>4
    <3> HIDE DEF k
    <3>2. b[k].id # NoId \/ b[k + 1].id # NoId
      BY <3>1 DEF Spells, Apart
    <3> QED
      BY <3>1, <3>2
  <2> QED
    BY <1>2, <2>1, <2>2, <2>3, <2>4
<1> DEFINE v == Pieced(configs, a)
           w == Pieced(configs, b)
           x == Pieced(configs, a \o b)
<1>4. /\ v \in Seq(Seq(Bytes)) /\ w \in Seq(Seq(Bytes)) /\ x \in Seq(Seq(Bytes))
      /\ Len(v) = Len(a) /\ Len(w) = Len(b) /\ Len(x) = Len(a \o b)
      /\ FlattenSeq(v) = t /\ FlattenSeq(w) = u /\ Spelled(configs, a \o b) = FlattenSeq(x)
  BY <1>1, PiecedIs DEF Spells
<1>8. /\ v \o w \in Seq(Seq(Bytes)) /\ Len(v \o w) = Len(v) + Len(w)
      /\ \A i \in 1..Len(v \o w) : (v \o w)[i] = IF i <= Len(v) THEN v[i] ELSE w[i - Len(v)]
  <2> HIDE DEF v, w, x
  <2>1. v \in Seq(Seq(Bytes)) /\ w \in Seq(Seq(Bytes))
    BY <1>4
  <2> QED
    BY <2>1, ConcatProperties
<1>5. \A i \in 1..Len(x) : x[i] = (v \o w)[i]
  <2> SUFFICES ASSUME NEW i \in 1..Len(x) PROVE x[i] = (v \o w)[i]
    OBVIOUS
  <2> HIDE DEF v, w, x
  <2>0. i \in 1..Len(a \o b) /\ i \in 1..Len(v \o w) /\ i \in Nat
    BY <1>2, <1>4, <1>8
  <2>1. x[i] = Piece(configs, (a \o b)[i])
    BY <1>1, <2>0, PiecedIs DEF x
  <2>2. CASE i <= Len(a)
    <3>1. (v \o w)[i] = v[i] /\ (a \o b)[i] = a[i] /\ i \in 1..Len(a)
      BY <1>2, <1>4, <1>8, <2>0, <2>2
    <3> QED
      BY <1>1, <2>1, <3>1, PiecedIs DEF v
  <2>3. CASE i > Len(a)
    <3>1. (v \o w)[i] = w[i - Len(a)] /\ (a \o b)[i] = b[i - Len(a)] /\ i - Len(a) \in 1..Len(b)
      <4>1. ~ i <= Len(a) /\ i - Len(a) \in 1..Len(b)
        BY <1>2, <2>0, <2>3
      <4> QED
        BY <1>2, <1>4, <1>8, <2>0, <4>1
    <3> QED
      BY <1>1, <2>1, <3>1, PiecedIs DEF w
  <2> QED
    BY <1>2, <2>0, <2>2, <2>3
<1> HIDE DEF v, w, x
<1>6. x = v \o w
  <2>1. v \o w \in Seq(Seq(Bytes)) /\ Len(v \o w) = Len(x)
    BY <1>2, <1>4, <1>8
  <2> QED
    BY <1>4, <1>5, <2>1, SameSeq
<1>7. FlattenSeq(v \o w) = t \o u
  BY <1>4, FlattenConcat
<1> QED
  BY <1>1, <1>3, <1>4, <1>6, <1>7 DEF Spells

\* No segments spell nothing, a text spells itself, a token its content.
LEMMA SpellsOne ==
  ASSUME NEW configs, Distinct(configs)
  PROVE  /\ Spells(configs, <<>>, <<>>)
         /\ \A t \in Strings : t # <<>> => Spells(configs, <<Text(t)>>, t)
         /\ \A i \in DOMAIN configs : Spells(configs, <<Token(configs[i].id)>>, configs[i].content)
<1>1. ASSUME NEW seg \in SegmentIn(configs)
      PROVE  Spells(configs, <<seg>>, Piece(configs, seg))
  <2> DEFINE one == <<seg>>
             w == Pieced(configs, one)
  <2>1. one \in Seq(SegmentIn(configs)) /\ Len(one) = 1 /\ one[1] = seg
    OBVIOUS
  <2> HIDE DEF one
  <2>2. w \in Seq(Seq(Bytes)) /\ Len(w) = Len(one) /\ Spelled(configs, one) = FlattenSeq(w)
        /\ \A i \in 1..Len(one) : w[i] = Piece(configs, one[i])
    BY <2>1, PiecedIs
  <2> HIDE DEF w
  <2>3. Piece(configs, seg) \in Seq(Bytes)
    BY PieceType
  <2>4. w = <<Piece(configs, seg)>>
    BY <2>1, <2>2
  <2>5. FlattenSeq(w) = Piece(configs, seg)
    BY <2>3, <2>4, FlattenOne
  <2>6. Apart(one)
    BY <2>1 DEF Apart
  <2>7. Spells(configs, one, Piece(configs, seg))
    BY <2>1, <2>2, <2>5, <2>6 DEF Spells
  <2> QED
    BY <2>7 DEF one
<1>2. Spells(configs, <<>>, <<>>)
  <2>1. <<>> \in Seq(SegmentIn(configs)) /\ Len(<<>>) = 0
    OBVIOUS
  <2>2. Pieced(configs, <<>>) \in Seq(Seq(Bytes)) /\ Len(Pieced(configs, <<>>)) = 0
        /\ Spelled(configs, <<>>) = FlattenSeq(Pieced(configs, <<>>))
    BY <2>1, PiecedIs
  <2>3. Pieced(configs, <<>>) = <<>>
    BY <2>2, EmptySeq
  <2>4. FlattenSeq(<<>>) = <<>>
    BY <2>1, FlattenOfNone
  <2>5. Apart(<<>>)
    BY <2>1 DEF Apart
  <2> QED
    BY <2>1, <2>2, <2>3, <2>4, <2>5 DEF Spells
<1>3. ASSUME NEW t \in Strings, t # <<>>
      PROVE  Spells(configs, <<Text(t)>>, t)
  <2>1. Text(t) \in SegmentIn(configs)
    BY <1>3 DEF SegmentIn, Segment, Text, NoId
  <2>2. Piece(configs, Text(t)) = t
    BY DEF Piece, Text
  <2> QED
    BY <1>1, <2>1, <2>2
<1>4. ASSUME NEW i \in DOMAIN configs
      PROVE  Spells(configs, <<Token(configs[i].id)>>, configs[i].content)
  <2>1. configs[i].id \in Nat /\ configs[i].id # NoId
    BY ContentIs DEF NoId
  <2>2. Token(configs[i].id) \in SegmentIn(configs)
    <3>1. <<>> \in Strings
      BY NothingIsText DEF Strings, IsText
    <3> QED
      BY <2>1, <3>1 DEF SegmentIn, Segment, Token
  <2>3. Piece(configs, Token(configs[i].id)) = configs[i].content
    BY <2>1, ContentIs DEF Piece, Token
  <2> QED
    BY <1>1, <2>2, <2>3
<1> QED
  BY <1>2, <1>3, <1>4

\* What a matcher reads.
LEMMA ReadingIs ==
  ASSUME NEW configs, NEW s, Reading(configs, s)
  PROVE  /\ Matching(configs, s) /\ Distinct(configs) /\ s \in Strings /\ IsText(s)
         /\ s \in Seq(Bytes) /\ Len(s) \in Nat
<1>1. s \in Strings /\ Distinct(configs)
  BY DEF Reading
<1>2. s \in Seq(Bytes) /\ IsText(s)
  BY <1>1 DEF Strings
<1>3. Len(s) \in Nat
  BY <1>2
<1> QED
  BY <1>1, <1>2, <1>3 DEF Distinct, Matching

\* The text between two places where it may be cut is a segment, if there is any.
LEMMA TextSpells ==
  ASSUME NEW configs, NEW s, Reading(configs, s), NEW p \in 1..Len(s) + 1, NEW q \in 1..Len(s) + 1, p <= q,
         IsBoundary(s, p), IsBoundary(s, q)
  PROVE  Spells(configs, TextIf(s, p, q - 1), SubSeq(s, p, q - 1))
<1>1. /\ Distinct(configs) /\ IsText(s) /\ s \in Seq(Bytes) /\ Len(s) \in Nat
  BY ReadingIs
<1>2. CASE p = q
  <2>1. SubSeq(s, p, q - 1) = <<>> /\ ~ (p <= q - 1)
    BY <1>1, <1>2
  <2>2. TextIf(s, p, q - 1) = <<>>
    BY <2>1 DEF TextIf
  <2> QED
    BY <1>1, <2>1, <2>2, SpellsOne
<1>3. CASE p < q
  <2>1. IsText(SubSeq(s, p, q - 1))
    BY <1>1, TextCut
  <2>2. p <= q - 1 /\ Len(SubSeq(s, p, q - 1)) = q - p /\ q - p # 0
    BY <1>1, <1>3
  <2>3. SubSeq(s, p, q - 1) \in Strings
    BY <2>1 DEF Strings, IsText
  <2>4. SubSeq(s, p, q - 1) # <<>>
    BY <2>2
  <2>5. TextIf(s, p, q - 1) = <<Text(SubSeq(s, p, q - 1))>>
    BY <2>2 DEF TextIf
  <2> QED
    BY <1>1, <2>3, <2>4, <2>5, SpellsOne
<1> QED
  BY <1>1, <1>2, <1>3

\* The token found somewhere and the text before it.
FoundOK(configs, s, pos, p) ==
  /\ AfterFound(configs, s, p) \in p + 1..Len(s) + 1 /\ IsBoundary(s, AfterFound(configs, s, p))
  /\ Spells(configs, FoundAt(configs, s, pos, p), SubSeq(s, pos, AfterFound(configs, s, p) - 1))
  /\ FoundAt(configs, s, pos, p) # <<>>
  /\ FoundAt(configs, s, pos, p)[Len(FoundAt(configs, s, pos, p))].id # NoId

\* The text before a content that is found, and the token, stand for the bytes up to
\* its end.
LEMMA FoundSpells ==
  ASSUME NEW configs, NEW s, Reading(configs, s), NEW pos \in 1..Len(s) + 1, IsBoundary(s, pos),
         NEW p \in pos..Len(s), MatchesAt(configs, s, p) # {}
  PROVE  FoundOK(configs, s, pos, p)
<1>1. /\ Matching(configs, s) /\ Distinct(configs) /\ s \in Strings /\ IsText(s) /\ s \in Seq(Bytes) /\ Len(s) \in Nat
  BY ReadingIs
<1>2. p \in 1..Len(s) + 1 /\ p \in Nat \ {0} /\ pos <= p
  BY <1>1
<1>3. PICK i \in MatchesAt(configs, s, p) : Longest(configs, s, p) = configs[i]
  BY <1>1, <1>2, LongestIs
<1> DEFINE c == configs[i].content
           q == p + Len(c)
           txt == TextIf(s, pos, p - 1)
           tok == <<Token(configs[i].id)>>
<1>4. /\ i \in DOMAIN configs /\ LiesAt(s, c, p)
      /\ AfterFound(configs, s, p) = q /\ FoundAt(configs, s, pos, p) = txt \o tok
  <2>1. i \in DOMAIN configs
    BY <1>1, <1>2, MatchIs
  <2>2. LiesAt(s, c, p)
    BY DEF MatchesAt, LiesAt
  <2> QED
    BY <1>3, <2>1, <2>2 DEF AfterFound, FoundAt
<1>5. c \in Strings /\ c # <<>> /\ configs[i].id \in Nat
  BY <1>1, <1>4, ContentIs
<1> HIDE DEF c
<1>6. q \in 1..Len(s) + 1 /\ IsBoundary(s, p) /\ IsBoundary(s, q)
  BY <1>1, <1>2, <1>4, <1>5, TextAligned
<1>7. Len(c) \in Nat \ {0} /\ q \in p + 1..Len(s) + 1
  <2>1. c \in Seq(Bytes)
    BY <1>5 DEF Strings
  <2>2. Len(c) \in Nat /\ Len(c) # 0
    BY <1>5, <2>1, EmptySeq
  <2> QED
    BY <1>1, <1>2, <1>6, <2>2
<1>8. Spells(configs, txt, SubSeq(s, pos, p - 1))
  BY <1>2, <1>6, TextSpells
<1>9. Spells(configs, tok, c)
  BY <1>1, <1>4, SpellsOne DEF c
<1>10. SubSeq(s, pos, p - 1) \o c = SubSeq(s, pos, q - 1)
  <2>1. SubSeq(s, p, q - 1) = c
    BY <1>4 DEF LiesAt
  <2>2. p - 1 \in pos - 1..Len(s) /\ q - 1 \in p - 1..Len(s)
    BY <1>1, <1>2, <1>7
  <2>3. (p - 1) + 1 = p
    BY <1>2
  <2> DEFINE x == p - 1
             y == q - 1
  <2> HIDE DEF x, y, q
  <2>4. SubSeq(s, pos, x) \o SubSeq(s, x + 1, y) = SubSeq(s, pos, y)
    BY <1>1, <2>2, ConcatAdjacentSubSeq DEF x, y
  <2> QED
    BY <2>1, <2>3, <2>4 DEF x, y
<1>11. tok # <<>> /\ tok[1].id # NoId /\ Len(tok) = 1
  BY <1>5 DEF Token, NoId
<1>12. Spells(configs, txt \o tok, SubSeq(s, pos, q - 1))
  <2> HIDE DEF txt, tok, q
  <2> QED
    BY <1>1, <1>8, <1>9, <1>10, <1>11, SpellsJoin
<1>13. txt \o tok # <<>> /\ (txt \o tok)[Len(txt \o tok)].id # NoId
  <2>1. txt \in Seq(SegmentIn(configs)) /\ tok \in Seq(SegmentIn(configs))
    BY <1>8, <1>9 DEF Spells
  <2> HIDE DEF txt, tok
  <2>2. Len(txt \o tok) = Len(txt) + 1 /\ (txt \o tok)[Len(txt) + 1] = tok[1]
    <3>1. Len(txt) \in Nat /\ Len(txt \o tok) = Len(txt) + Len(tok)
          /\ \A j \in 1..Len(txt \o tok) : (txt \o tok)[j] = IF j <= Len(txt) THEN txt[j] ELSE tok[j - Len(txt)]
      BY <2>1, ConcatProperties
    <3>2. Len(txt) + 1 \in 1..Len(txt \o tok) /\ ~ Len(txt) + 1 <= Len(txt) /\ Len(txt) + 1 - Len(txt) = 1
      BY <3>1, <1>11
    <3> QED
      BY <3>1, <3>2, <1>11
  <2>3. txt \o tok \in Seq(SegmentIn(configs)) /\ Len(txt) \in Nat
    BY <2>1
  <2> QED
    BY <2>2, <2>3, <1>11
<1> HIDE DEF txt, tok, q
<1> QED
  BY <1>4, <1>6, <1>7, <1>12, <1>13 DEF FoundOK

\* The segments of the scan spell the input.
LEMMA ScanSpells ==
  ASSUME NEW configs, NEW s, Reading(configs, s)
  PROVE  Spells(configs, split_full_scan(configs, s), s)
<1> DEFINE n == Len(s)
<1>1. /\ Matching(configs, s) /\ Distinct(configs) /\ s \in Strings /\ s \in Seq(Bytes) /\ n \in Nat
  BY ReadingIs
<1>2. PICK f : ScanGoes(configs, s, f) /\ split_full_scan(configs, s) = f[1]
  BY <1>1, ScanIs
<1> DEFINE Good(pos) == IsBoundary(s, pos) => Spells(configs, f[pos], SubSeq(s, pos, n))
           S == {m \in 0..n : \A pos \in 1..n + 1 : n + 1 - pos <= m => Good(pos)}
<1>3. ASSUME NEW pos \in 1..n + 1, \A later \in pos + 1..n + 1 : Good(later)
      PROVE  Good(pos)
  <2> SUFFICES ASSUME IsBoundary(s, pos) PROVE Spells(configs, f[pos], SubSeq(s, pos, n))
    OBVIOUS
  <2> DEFINE p == NextMatch(configs, s, pos)
  <2>1. /\ p \in pos..n + 1 /\ (p <= n => MatchesAt(configs, s, p) # {})
        /\ f[pos] = IF p > n THEN TextIf(s, pos, n)
                    ELSE FoundAt(configs, s, pos, p) \o f[AfterFound(configs, s, p)]
    BY <1>1, <1>2, NextMatchIs DEF ScanGoes
  <2> HIDE DEF p
  <2>2. CASE p > n
    <3>1. n + 1 \in 1..Len(s) + 1 /\ pos <= n + 1 /\ IsBoundary(s, n + 1) /\ (n + 1) - 1 = n
      BY <1>1, TextEnds
    <3>2. Spells(configs, TextIf(s, pos, (n + 1) - 1), SubSeq(s, pos, (n + 1) - 1))
      BY <3>1, TextSpells
    <3> QED
      BY <2>1, <2>2, <3>1, <3>2
  <2>3. CASE ~ p > n
    <3> DEFINE q == AfterFound(configs, s, p)
               a == FoundAt(configs, s, pos, p)
    <3>1. p \in pos..n /\ MatchesAt(configs, s, p) # {}
      BY <1>1, <2>1, <2>3
    <3>2. FoundOK(configs, s, pos, p)
      BY <3>1, FoundSpells
    <3>3. /\ q \in p + 1..n + 1 /\ IsBoundary(s, q) /\ Spells(configs, a, SubSeq(s, pos, q - 1))
          /\ a # <<>> /\ a[Len(a)].id # NoId
      BY <3>2 DEF FoundOK
    <3> HIDE DEF q, a
    <3>4. q \in pos + 1..n + 1
      BY <1>1, <2>1, <3>3
    <3>5. Spells(configs, f[q], SubSeq(s, q, n))
      BY <1>3, <3>3, <3>4
    <3>6. Spells(configs, a \o f[q], SubSeq(s, pos, q - 1) \o SubSeq(s, q, n))
      BY <1>1, <3>3, <3>5, SpellsJoin
    <3>7. SubSeq(s, pos, q - 1) \o SubSeq(s, q, n) = SubSeq(s, pos, n)
      <4> DEFINE y == q - 1
      <4>1. y \in pos - 1..n /\ n \in y..n /\ y + 1 = q /\ pos \in 1..n + 1
        BY <1>1, <3>4
      <4> HIDE DEF y
      <4>2. SubSeq(s, pos, y) \o SubSeq(s, y + 1, n) = SubSeq(s, pos, n)
        BY <1>1, <4>1, ConcatAdjacentSubSeq
      <4> QED
        BY <4>1, <4>2 DEF y
    <3>8. f[pos] = a \o f[q]
      BY <2>1, <2>3 DEF a, q
    <3> QED
      BY <3>6, <3>7, <3>8
  <2> QED
    BY <2>2, <2>3
<1> HIDE DEF Good
<1>4. 0 \in S
  <2>1. ASSUME NEW pos \in 1..n + 1, n + 1 - pos <= 0
        PROVE  Good(pos)
    <3>1. \A later \in pos + 1..n + 1 : Good(later)
      BY <1>1, <2>1
    <3> QED
      BY <1>3, <3>1
  <2> QED
    BY <1>1, <2>1
<1>5. ASSUME NEW m \in Nat, m < n, m \in S
      PROVE  m + 1 \in S
  <2>1. ASSUME NEW pos \in 1..n + 1, n + 1 - pos <= m + 1
        PROVE  Good(pos)
    <3>1. ASSUME NEW later \in pos + 1..n + 1
          PROVE  Good(later)
      <4>1. later \in 1..n + 1 /\ n + 1 - later <= m
        BY <1>1, <2>1, <3>1
      <4> QED
        BY <1>5, <4>1
    <3> QED
      BY <1>3, <3>1
  <2>2. m + 1 \in 0..n
    BY <1>1, <1>5
  <2> QED
    BY <2>1, <2>2
<1> HIDE DEF S
<1>6. n \in S
  BY <1>1, <1>4, <1>5, UpTo
<1>7. Good(1)
  <2>1. 1 \in 1..n + 1 /\ n + 1 - 1 <= n
    BY <1>1
  <2> QED
    BY <1>6, <2>1 DEF S
<1>8. SubSeq(s, 1, n) = s
  BY <1>1, SubSeqFull
<1> QED
  BY <1>1, <1>2, <1>7, <1>8, TextEnds DEF Good

\* So do those of the matcher, with the prefilter or without.
LEMMA MatcherSpells ==
  ASSUME NEW configs, NEW s, Reading(configs, s)
  PROVE  Spells(configs, MatcherSplit(configs, s), s)
BY ReadingIs, ScanSpells, PrefilterScans DEF MatcherSplit

\* What is known while special tokens are put back into the text around them, wherever
\* the text is cut.
Keeping(s) ==
  [segments : Seq([id : Int, text : Seq({s[j] : j \in Int})]), pending : Int, cursor : Int]

\* A segment is left in the text if it is text or special.
Stays(configs, seg) == seg.id = NoId \/ seg.id \in SpecialIds(configs)

\* What a segment makes of what is known.
KeptSo(configs, s, acc, seg) ==
  IF Stays(configs, seg)
  THEN [segments |-> acc.segments, pending |-> Pending(acc.pending, acc.cursor),
        cursor |-> acc.cursor + Len(Piece(configs, seg))]
  ELSE [segments |-> WithPending(acc, s) \o <<Token(seg.id)>>, pending |-> 0,
        cursor |-> acc.cursor + Len(Piece(configs, seg))]

\* One segment in the loop of split_special_as_text, by what it stands for.
LEMMA KeptIs ==
  ASSUME NEW configs, NEW s, Distinct(configs), NEW seg \in SegmentIn(configs), NEW acc \in Keeping(s)
  PROVE  Kept(configs, s, acc, seg) = KeptSo(configs, s, acc, seg) /\ Kept(configs, s, acc, seg) \in Keeping(s)
<1> DEFINE pend == Pending(acc.pending, acc.cursor)
           curs == acc.cursor + Len(Piece(configs, seg))
           once == [acc EXCEPT !.pending = pend]
           twice == [once EXCEPT !.cursor = curs]
           W == Seq({s[j] : j \in Int})
           V == Seq([id : Int, text : W])
<1>1. acc.segments \in V /\ acc.pending \in Int /\ acc.cursor \in Int
  BY DEF Keeping
<1>2. Len(Piece(configs, seg)) \in Nat /\ seg.id \in Int
  <2>1. Piece(configs, seg) \in Seq(Bytes)
    BY PieceType
  <2>2. seg.id \in Int
    BY DEF SegmentIn, Segment, NoId
  <2> QED
    BY <2>1, <2>2
<1>3. pend \in Int /\ curs \in Int
  BY <1>1, <1>2 DEF Pending
<1>4. CASE Stays(configs, seg)
  <2>1. Kept(configs, s, acc, seg) = [acc EXCEPT !.pending = pend, !.cursor = curs]
    BY <1>4, Zenon DEF Kept, Stays, Piece
  <2>2. [acc EXCEPT !.pending = pend, !.cursor = curs] = twice
    OBVIOUS
  <2> HIDE DEF pend, curs
  <2>3. once \in Keeping(s) /\ once.segments = acc.segments /\ once.pending = pend
    BY <1>3 DEF Keeping
  <2>4. twice = [segments |-> acc.segments, pending |-> pend, cursor |-> curs] /\ twice \in Keeping(s)
    <3> HIDE DEF once
    <3> QED
      BY <1>3, <2>3 DEF Keeping
  <2> HIDE DEF twice
  <2> QED
    BY <1>4, <2>1, <2>2, <2>4 DEF KeptSo, pend, curs
<1>5. CASE ~ Stays(configs, seg)
  <2> DEFINE new == WithPending(acc, s) \o <<Token(seg.id)>>
  <2>1. Kept(configs, s, acc, seg) = [segments |-> new, pending |-> 0, cursor |-> curs]
    BY <1>5, Zenon DEF Kept, Stays, Piece
  <2>2. TextIf(s, acc.pending, acc.cursor - 1) \in V
    <3> DEFINE a == acc.pending
               b == acc.cursor - 1
    <3>1. a \in Int /\ b \in Int
      BY <1>1
    <3> SUFFICES TextIf(s, a, b) \in V
      OBVIOUS
    <3> HIDE DEF a, b
    <3>5. <<>> \in V /\ \A x \in W : <<[id |-> NoId, text |-> x]>> \in V
      <4> HIDE DEF W
      <4> QED
        BY DEF NoId
    <3>2. CASE a <= b
      <4>1. SubSeq(s, a, b) \in W
        BY <3>1, <3>2
      <4> DEFINE u == SubSeq(s, a, b)
      <4> HIDE DEF u, V, W
      <4>2. <<[id |-> NoId, text |-> u]>> \in V
        BY <4>1, <3>5 DEF u
      <4>3. TextIf(s, a, b) = <<[id |-> NoId, text |-> u]>>
        BY <3>2, Zenon DEF TextIf, Text, u
      <4> QED
        BY <4>2, <4>3
    <3>3. CASE ~ (a <= b)
      <4>1. TextIf(s, a, b) = <<>>
        BY <3>3 DEF TextIf
      <4> HIDE DEF V
      <4> QED
        BY <4>1, <3>5
    <3> HIDE DEF V
    <3> QED
      BY <3>2, <3>3
  <2>3. WithPending(acc, s) \in V
    BY <1>1, <2>2 DEF WithPending
  <2>4. <<Token(seg.id)>> \in V
    BY <1>2 DEF Token
  <2>5. new \in V
    <3> HIDE DEF V
    <3>1. \A x, y \in V : x \o y \in V
      BY DEF V
    <3> QED
      BY <2>3, <2>4, <3>1
  <2> HIDE DEF new, curs
  <2>6. [segments |-> new, pending |-> 0, cursor |-> curs] \in Keeping(s)
    BY <1>3, <2>5 DEF Keeping
  <2> QED
    BY <1>5, <2>1, <2>6 DEF KeptSo, new, curs
<1> QED
  BY <1>4, <1>5

\* Where in the text each segment ends.
EndOf(configs, segments, k) == Len(FlattenSeq(First(Pieced(configs, segments), k)))

\* The segments that spell a text lie in it one after the other, and it may be cut between them.
LEMMA EndsAre ==
  ASSUME NEW configs, NEW s, Reading(configs, s), NEW segments, Spells(configs, segments, s)
  PROVE  /\ EndOf(configs, segments, 0) = 0 /\ EndOf(configs, segments, Len(segments)) = Len(s)
         /\ \A k \in 0..Len(segments) :
               /\ EndOf(configs, segments, k) \in 0..Len(s)
               /\ IsBoundary(s, EndOf(configs, segments, k) + 1)
         /\ \A k \in 1..Len(segments) :
               /\ EndOf(configs, segments, k) = EndOf(configs, segments, k - 1) + Len(Piece(configs, segments[k]))
               /\ EndOf(configs, segments, k - 1) < EndOf(configs, segments, k)
               /\ SubSeq(s, EndOf(configs, segments, k - 1) + 1, EndOf(configs, segments, k)) = Piece(configs, segments[k])
<1> DEFINE n == Len(segments)
           w == Pieced(configs, segments)
           e(k) == EndOf(configs, segments, k)
<1>1. /\ Distinct(configs) /\ s \in Strings /\ s \in Seq(Bytes) /\ Len(s) \in Nat
      /\ segments \in Seq(SegmentIn(configs)) /\ n \in Nat
  <2>1. segments \in Seq(SegmentIn(configs))
    BY DEF Spells
  <2> QED
    BY <2>1, ReadingIs
<1>2. w \in Seq(Seq(Bytes)) /\ Len(w) = n /\ FlattenSeq(w) = s
      /\ \A k \in 1..n : w[k] = Piece(configs, segments[k])
  BY <1>1, PiecedIs DEF Spells
<1>3. \A k \in 1..n : w[k] \in Strings /\ w[k] \in Seq(Bytes) /\ w[k] # <<>> /\ Len(w[k]) \in Nat \ {0}
  <2> SUFFICES ASSUME NEW k \in 1..n
               PROVE  w[k] \in Strings /\ w[k] \in Seq(Bytes) /\ w[k] # <<>> /\ Len(w[k]) \in Nat \ {0}
    OBVIOUS
  <2>1. segments[k] \in SegmentIn(configs)
    BY <1>1
  <2>2. Piece(configs, segments[k]) \in Strings /\ Piece(configs, segments[k]) \in Seq(Bytes) /\ Piece(configs, segments[k]) # <<>>
    BY <1>1, <2>1, PieceType
  <2>3. \A x \in Seq(Bytes) : x # <<>> => Len(x) \in Nat \ {0}
    BY EmptySeq
  <2> QED
    BY <1>2, <2>2, <2>3
<1> HIDE DEF w, n
<1>4. ASSUME NEW k \in 0..n
      PROVE  First(w, k) \in Seq(Seq(Bytes)) /\ e(k) = Len(FlattenSeq(First(w, k))) /\ e(k) \in 0..Len(s)
  <2>1. k \in Nat /\ k <= Len(w) /\ Len(w) <= Len(w) /\ Len(w) \in Nat
    BY <1>1, <1>2
  <2>2. Cuts(Seq(Bytes), w, k, Len(w))
    BY <1>2, <2>1, FirstSplits
  <2>3. First(w, Len(w)) = w
    BY <1>2, FirstAll
  <2>4. First(w, k) \in Seq(Seq(Bytes)) /\ Middle(w, k, Len(w)) \in Seq(Seq(Bytes)) /\ w = First(w, k) \o Middle(w, k, Len(w))
    BY <2>2, <2>3 DEF Cuts
  <2>5. s = FlattenSeq(First(w, k)) \o FlattenSeq(Middle(w, k, Len(w)))
    BY <1>2, <2>4, FlattenConcat
  <2> DEFINE x == FlattenSeq(First(w, k))
             y == FlattenSeq(Middle(w, k, Len(w)))
  <2>6. x \in Seq(Bytes) /\ y \in Seq(Bytes)
    BY <2>4, FlattenType
  <2> HIDE DEF x, y
  <2>7. Len(x) \in 0..Len(x \o y)
    BY <2>6
  <2> QED
    BY <2>4, <2>5, <2>7 DEF x, y, EndOf, w
<1>5. e(0) = 0
  <2>1. First(w, 0) \in Seq(Seq(Bytes)) /\ 0 \in 0..n
    BY <1>1, <1>4
  <2>2. Len(First(w, 0)) = 0 /\ First(w, 0) = <<>>
    BY <2>1 DEF First
  <2>3. FlattenSeq(First(w, 0)) = <<>>
    BY <2>2, FlattenOfNone
  <2> QED
    BY <1>4, <2>1, <2>3
<1>6. e(n) = Len(s)
  <2>1. First(w, Len(w)) = w
    BY <1>2, FirstAll
  <2> QED
    BY <1>1, <1>2, <2>1 DEF EndOf, w
<1>7. ASSUME NEW k \in 1..n
      PROVE  /\ e(k) = e(k - 1) + Len(w[k]) /\ SubSeq(s, e(k - 1) + 1, e(k)) = w[k]
             /\ e(k - 1) < e(k) /\ e(k - 1) \in 0..Len(s) /\ e(k) \in 0..Len(s) /\ e(k) = (e(k - 1) + 1) + Len(w[k]) - 1
  <2>1. k \in 1..Len(w) /\ k - 1 \in 0..n /\ k \in 0..n
    BY <1>1, <1>2
  <2>2. First(w, k) = Append(First(w, k - 1), w[k])
    BY <1>2, <2>1, FirstGrows
  <2>3. FlattenSeq(First(w, k)) = FlattenSeq(First(w, k - 1)) \o w[k]
    BY <1>3, <1>4, <2>1, <2>2, FlattenAppend
  <2>4. FlattenSeq(First(w, k - 1)) \in Seq(Bytes) /\ w[k] \in Seq(Bytes)
    BY <1>3, <1>4, <2>1, FlattenType
  <2> DEFINE x == FlattenSeq(First(w, k - 1))
  <2>5. e(k) = Len(x \o w[k]) /\ e(k - 1) = Len(x)
    BY <1>4, <2>1, <2>3
  <2>6. SubSeq(FlattenSeq(w), Len(FlattenSeq(First(w, k - 1))) + 1, Len(FlattenSeq(First(w, k)))) = w[k]
    BY <1>2, <2>1, FlattenSlice
  <2>7. SubSeq(s, e(k - 1) + 1, e(k)) = w[k]
    BY <1>2, <1>4, <2>1, <2>6
  <2>8. e(k - 1) \in 0..Len(s) /\ e(k) \in 0..Len(s)
    BY <1>4, <2>1
  <2> HIDE DEF x, e
  <2>9. Len(x \o w[k]) = Len(x) + Len(w[k])
    BY <2>4 DEF x
  <2>10. Len(x) \in Nat /\ Len(w[k]) \in Nat \ {0}
    BY <1>3, <2>4 DEF x
  <2>11. /\ e(k) = e(k - 1) + Len(w[k]) /\ e(k - 1) < e(k)
         /\ e(k) = (e(k - 1) + 1) + Len(w[k]) - 1
    BY <2>5, <2>9, <2>10
  <2> QED
    BY <2>7, <2>8, <2>11
<1> DEFINE S == {k \in 0..n : IsBoundary(s, e(k) + 1)}
<1>8. 0 \in S
  BY <1>1, <1>5, TextEnds
<1>9. ASSUME NEW k \in Nat, k < n, k \in S
      PROVE  k + 1 \in S
  <2>1. k + 1 \in 1..n /\ k + 1 \in 0..n /\ (k + 1) - 1 = k
    BY <1>1, <1>9
  <2>2. /\ e(k + 1) = (e(k) + 1) + Len(w[k + 1]) - 1
        /\ e(k) \in 0..Len(s) /\ e(k + 1) \in 0..Len(s)
    BY <1>7, <2>1
  <2>7. SubSeq(s, e(k) + 1, e(k + 1)) = w[k + 1]
    BY <1>7, <2>1
  <2>3. w[k + 1] \in Strings /\ w[k + 1] # <<>> /\ Len(w[k + 1]) \in Nat
    BY <1>3, <2>1
  <2> DEFINE a == e(k)
             b == e(k + 1)
             t == w[k + 1]
  <2> HIDE DEF a, b, t, e
  <2>4. a + 1 \in Nat \ {0} /\ b = (a + 1) + Len(t) - 1 /\ b <= Len(s) /\ (a + 1) + Len(t) = b + 1
    BY <1>1, <2>2, <2>3 DEF a, b, t
  <2>5. LiesAt(s, t, a + 1)
    <3>1. SubSeq(s, a + 1, b) = t
      BY <2>7 DEF a, b, t
    <3>2. SubSeq(s, a + 1, (a + 1) + Len(t) - 1) = t
      BY <2>4, <3>1
    <3>3. (a + 1) + Len(t) - 1 <= Len(s)
      BY <2>4
    <3> QED
      BY <3>2, <3>3 DEF LiesAt
  <2>6. IsBoundary(s, (a + 1) + Len(t))
    <3>1. t \in Strings /\ t # <<>>
      BY <2>3 DEF t
    <3> QED
      BY <1>1, <2>4, <2>5, <3>1, TextAligned
  <2> QED
    BY <2>1, <2>4, <2>6 DEF b
<1>10. ASSUME NEW k \in 0..n
       PROVE  IsBoundary(s, e(k) + 1)
  <2> HIDE DEF S, e
  <2>1. k \in Nat /\ k <= n
    BY <1>1
  <2>2. ASSUME NEW m \in Nat, m < k /\ m \in S
        PROVE  m + 1 \in S
    <3>1. m < n
      BY <1>1, <2>1, <2>2
    <3> QED
      BY <1>9, <2>2, <3>1
  <2>3. k \in S
    BY <1>8, <2>1, <2>2, UpTo
  <2> QED
    BY <2>3 DEF S
<1>11. \A k \in 0..n : e(k) \in 0..Len(s) /\ IsBoundary(s, e(k) + 1)
  BY <1>4, <1>10
<1>12. \A k \in 1..n : /\ e(k) = e(k - 1) + Len(w[k]) /\ e(k - 1) < e(k)
                       /\ SubSeq(s, e(k - 1) + 1, e(k)) = w[k] /\ w[k] = Piece(configs, segments[k])
  BY <1>2, <1>7
<1> HIDE DEF e
<1> QED
  BY <1>5, <1>6, <1>11, <1>12 DEF e, n

\* After the first k segments: the segments that are kept spell the text up to the
\* pending part, which begins where it may be cut and goes on to the cursor.
KeptUpTo(configs, s, segments, k, acc) ==
  /\ acc \in Keeping(s) /\ acc.cursor = EndOf(configs, segments, k) + 1
  /\ acc.pending = 0 \/ (acc.pending \in 1..EndOf(configs, segments, k) /\ IsBoundary(s, acc.pending))
  /\ Spells(configs, acc.segments, SubSeq(s, 1, (IF acc.pending = 0 THEN acc.cursor ELSE acc.pending) - 1))
  /\ acc.segments = <<>> \/ acc.segments[Len(acc.segments)].id # NoId

\* With the pending text they spell the text up to the cursor.
LEMMA PendingSpells ==
  ASSUME NEW configs, NEW s, Reading(configs, s), NEW segments, Spells(configs, segments, s),
         NEW k \in 0..Len(segments), NEW acc, KeptUpTo(configs, s, segments, k, acc)
  PROVE  Spells(configs, WithPending(acc, s), SubSeq(s, 1, EndOf(configs, segments, k)))
<1> DEFINE e == EndOf(configs, segments, k)
<1>1. Distinct(configs) /\ s \in Seq(Bytes) /\ Len(s) \in Nat
  BY ReadingIs
<1>2. e \in 0..Len(s) /\ IsBoundary(s, e + 1)
  BY EndsAre
<1>3. acc.cursor = e + 1 /\ (acc.segments = <<>> \/ acc.segments[Len(acc.segments)].id # NoId)
  BY DEF KeptUpTo
<1>4. CASE acc.pending = 0
  <2>1. Spells(configs, acc.segments, SubSeq(s, 1, acc.cursor - 1))
    BY <1>4 DEF KeptUpTo
  <2>2. acc.cursor - 1 = e
    BY <1>2, <1>3
  <2>3. acc.segments \in Seq(SegmentIn(configs))
    BY <2>1 DEF Spells
  <2>4. WithPending(acc, s) = acc.segments
    BY <1>4, <2>3 DEF WithPending
  <2> QED
    BY <2>1, <2>2, <2>4
<1>5. CASE acc.pending # 0
  <2> DEFINE p == acc.pending
             q == e + 1
             txt == TextIf(s, p, q - 1)
  <2>1. p \in 1..e /\ IsBoundary(s, p) /\ Spells(configs, acc.segments, SubSeq(s, 1, p - 1))
    BY <1>5 DEF KeptUpTo
  <2>2. p \in 1..Len(s) + 1 /\ q \in 1..Len(s) + 1 /\ p <= q /\ q - 1 = e /\ acc.cursor - 1 = e
    BY <1>1, <1>2, <1>3, <2>1
  <2>3. Spells(configs, txt, SubSeq(s, p, q - 1))
    <3> HIDE DEF p, q
    <3> QED
      BY <1>2, <2>1, <2>2, TextSpells DEF q
  <2>4. Spells(configs, acc.segments \o txt, SubSeq(s, 1, p - 1) \o SubSeq(s, p, q - 1))
    <3> HIDE DEF p, q, txt
    <3> QED
      BY <1>1, <1>3, <2>1, <2>3, SpellsJoin
  <2>5. SubSeq(s, 1, p - 1) \o SubSeq(s, p, q - 1) = SubSeq(s, 1, e)
    <3> DEFINE a == p - 1
    <3>1. a \in 0..Len(s) /\ e \in a..Len(s) /\ a + 1 = p
      BY <1>1, <1>2, <2>1
    <3> HIDE DEF a, p, q, e
    <3>2. SubSeq(s, 1, a) \o SubSeq(s, a + 1, e) = SubSeq(s, 1, e)
      BY <1>1, <3>1, CutInTwo
    <3> QED
      BY <2>2, <3>1, <3>2 DEF a
  <2>6. WithPending(acc, s) = acc.segments \o txt
    BY <1>5, <2>2 DEF WithPending
  <2> QED
    BY <2>4, <2>5, <2>6
<1> QED
  BY <1>4, <1>5

\* The next segment goes on so.
LEMMA KeptGoesOn ==
  ASSUME NEW configs, NEW s, Reading(configs, s), NEW segments, Spells(configs, segments, s),
         NEW k \in 1..Len(segments), NEW acc, KeptUpTo(configs, s, segments, k - 1, acc)
  PROVE  KeptUpTo(configs, s, segments, k, Kept(configs, s, acc, segments[k]))
<1> DEFINE e == EndOf(configs, segments, k - 1)
           f == EndOf(configs, segments, k)
           seg == segments[k]
           new == Kept(configs, s, acc, seg)
<1>1. Distinct(configs) /\ s \in Seq(Bytes) /\ Len(s) \in Nat
  BY ReadingIs
<1>2. segments \in Seq(SegmentIn(configs)) /\ seg \in SegmentIn(configs) /\ k - 1 \in 0..Len(segments) /\ k \in 0..Len(segments)
  <2>1. segments \in Seq(SegmentIn(configs))
    BY DEF Spells
  <2> QED
    BY <2>1
<1>3. /\ e \in 0..Len(s) /\ f \in 0..Len(s) /\ IsBoundary(s, e + 1) /\ IsBoundary(s, f + 1)
      /\ f = e + Len(Piece(configs, seg)) /\ e < f
  BY <1>2, EndsAre
<1>4. SubSeq(s, e + 1, f) = Piece(configs, seg)
  BY EndsAre
<1>5. /\ acc \in Keeping(s) /\ acc.cursor = e + 1
      /\ acc.pending = 0 \/ (acc.pending \in 1..e /\ IsBoundary(s, acc.pending))
      /\ Spells(configs, acc.segments, SubSeq(s, 1, (IF acc.pending = 0 THEN acc.cursor ELSE acc.pending) - 1))
      /\ acc.segments = <<>> \/ acc.segments[Len(acc.segments)].id # NoId
  BY DEF KeptUpTo
<1>6. new = KeptSo(configs, s, acc, seg) /\ new \in Keeping(s)
  BY <1>1, <1>2, <1>5, KeptIs
<1> DEFINE len == Len(Piece(configs, seg))
<1>7. len \in Nat
  <2>1. Piece(configs, seg) \in Seq(Bytes)
    BY <1>1, <1>2, PieceType
  <2> QED
    BY <2>1
<1> HIDE DEF new, e, f, len
<1>8. CASE Stays(configs, seg)
  <2> DEFINE p == IF acc.pending = 0 THEN acc.cursor ELSE acc.pending
  <2>1. new.segments = acc.segments /\ new.pending = p /\ new.cursor = acc.cursor + len
    BY <1>6, <1>8 DEF KeptSo, Pending, len
  <2>2. p \in 1..f /\ IsBoundary(s, p) /\ p # 0 /\ acc.cursor + len = f + 1
    <3>1. f = e + len /\ acc.cursor = e + 1 /\ e \in Nat /\ f \in Nat /\ e < f
      BY <1>3, <1>5 DEF len
    <3>2. acc.cursor + len = f + 1
      BY <3>1, <1>7
    <3>3. CASE acc.pending = 0
      <4>1. p = e + 1
        BY <3>1, <3>3
      <4> QED
        BY <4>1, <3>1, <3>2, <1>3
    <3>4. CASE acc.pending # 0
      <4>1. p = acc.pending /\ p \in 1..e /\ IsBoundary(s, p)
        BY <3>4, <1>5
      <4> QED
        BY <4>1, <3>1, <3>2
    <3> QED
      BY <3>3, <3>4
  <2>3. Spells(configs, acc.segments, SubSeq(s, 1, p - 1))
    BY <1>5
  <2> HIDE DEF p
  <2> QED
    BY <1>5, <1>6, <2>1, <2>2, <2>3 DEF KeptUpTo, f, new
<1>9. CASE ~ Stays(configs, seg)
  <2> DEFINE txt == WithPending(acc, s)
             tok == <<Token(seg.id)>>
             piece == Piece(configs, seg)
  <2>1. new.segments = txt \o tok /\ new.pending = 0 /\ new.cursor = acc.cursor + len
    BY <1>6, <1>9 DEF KeptSo, len
  <2>2. Spells(configs, txt, SubSeq(s, 1, e))
    BY <1>2, PendingSpells DEF e
  <2>3. PICK i \in DOMAIN configs : configs[i].id = seg.id
    BY <1>2, <1>9 DEF Stays, SegmentIn
  <2>4. Spells(configs, tok, piece)
    <3>1. piece = configs[i].content
      BY <1>1, <1>9, <2>3, ContentIs DEF Piece, Stays
    <3> QED
      BY <1>1, <2>3, <3>1, SpellsOne
  <2>5. Len(tok) = 1 /\ tok[1].id # NoId
    BY <1>9 DEF Token, Stays
  <2>6. SubSeq(s, 1, e) \o piece = SubSeq(s, 1, f)
    <3>1. e \in 0..Len(s) /\ f \in e..Len(s)
      BY <1>1, <1>3
    <3>2. SubSeq(s, 1, e) \o SubSeq(s, e + 1, f) = SubSeq(s, 1, f)
      BY <1>1, <3>1, CutInTwo
    <3>3. SubSeq(s, e + 1, f) = piece
      BY <1>4 DEF e, f
    <3> QED
      BY <3>2, <3>3
  <2> HIDE DEF txt, tok, piece
  <2>7. Spells(configs, txt \o tok, SubSeq(s, 1, f))
    BY <1>1, <2>2, <2>4, <2>5, <2>6, SpellsJoin
  <2>8. (txt \o tok)[Len(txt \o tok)] = tok[1]
    <3>1. txt \in Seq(SegmentIn(configs)) /\ tok \in Seq(SegmentIn(configs))
      BY <2>2, <2>4 DEF Spells
    <3>2. Len(txt) \in Nat /\ Len(txt \o tok) = Len(txt) + Len(tok)
          /\ \A j \in 1..Len(txt \o tok) : (txt \o tok)[j] = IF j <= Len(txt) THEN txt[j] ELSE tok[j - Len(txt)]
      BY <3>1, ConcatProperties
    <3>3. Len(txt) + 1 \in 1..Len(txt \o tok) /\ ~ Len(txt) + 1 <= Len(txt) /\ Len(txt) + 1 - Len(txt) = 1
      BY <3>2, <2>5
    <3> QED
      BY <3>2, <3>3, <2>5
  <2>9. acc.cursor + len = f + 1 /\ (f + 1) - 1 = f
    BY <1>3, <1>5, <1>7 DEF len
  <2>10. Spells(configs, new.segments, SubSeq(s, 1, (IF new.pending = 0 THEN new.cursor ELSE new.pending) - 1))
    BY <2>1, <2>7, <2>9
  <2> QED
    BY <1>6, <2>1, <2>5, <2>8, <2>9, <2>10 DEF KeptUpTo, f, new
<1> QED
  BY <1>8, <1>9

\* Texts and the contents of the tokens that are left spell the text.
LEMMA KeptSpells ==
  ASSUME NEW configs, NEW s, Reading(configs, s), NEW segments, Spells(configs, segments, s)
  PROVE  Spells(configs, KeptSegments(configs, s, segments), s)
<1> DEFINE n == Len(segments)
           base == [segments |-> <<>>, pending |-> 0, cursor |-> 1]
           T == Keeping(s)
           join == [i \in 1..n |-> [x \in T |-> Kept(configs, s, x, segments[i])]]
           all == KeptOver(configs, s, base, segments)
<1>1. /\ Distinct(configs) /\ s \in Seq(Bytes) /\ Len(s) \in Nat
      /\ segments \in Seq(SegmentIn(configs)) /\ n \in Nat /\ DOMAIN segments = 1..n
  <2>1. segments \in Seq(SegmentIn(configs))
    BY DEF Spells
  <2> QED
    BY <2>1, ReadingIs
<1>2. base \in T
  BY DEF Keeping
<1>3. \A i \in 1..n, x \in T : Kept(configs, s, x, segments[i]) \in T
  BY <1>1, KeptIs
<1>4. Leads(n, T, base, join, all)
  <2> HIDE DEF base, T
  <2> QED
    BY <1>1, <1>2, <1>3, KeptFold
<1>5. PICK h : h \in [0..n -> T] /\ Goes(n, base, join, h) /\ h[n] = all
  BY <1>4, Zenon DEF Leads
<1>6. h[0] = base /\ \A i \in 1..n : h[i - 1] \in T /\ h[i] = Kept(configs, s, h[i - 1], segments[i])
  <2>1. h[0] = base /\ \A i \in 1..n : h[i] = join[i][h[i - 1]]
    BY <1>5 DEF Goes
  <2>2. \A i \in 1..n : h[i - 1] \in T
    BY <1>1, <1>5
  <2> HIDE DEF T
  <2> QED
    BY <2>1, <2>2
<1> DEFINE S == {k \in 0..n : KeptUpTo(configs, s, segments, k, h[k])}
<1>7. 0 \in S
  <2>1. EndOf(configs, segments, 0) = 0
    BY EndsAre
  <2>2. Spells(configs, <<>>, <<>>) /\ SubSeq(s, 1, 0) = <<>>
    BY <1>1, SpellsOne
  <2>3. base.segments = <<>> /\ base.pending = 0 /\ base.cursor = 1 /\ 1 - 1 = 0 /\ 0 + 1 = 1 /\ 0 \in 0..n
    BY <1>1
  <2> HIDE DEF T, base
  <2>4. Spells(configs, base.segments, SubSeq(s, 1, (IF base.pending = 0 THEN base.cursor ELSE base.pending) - 1))
    BY <2>2, <2>3
  <2>5. KeptUpTo(configs, s, segments, 0, base)
    BY <1>2, <2>1, <2>3, <2>4 DEF KeptUpTo, T
  <2> QED
    BY <1>6, <2>3, <2>5
<1>8. ASSUME NEW k \in Nat, k < n, k \in S
      PROVE  k + 1 \in S
  <2>1. k + 1 \in 1..n /\ (k + 1) - 1 = k /\ k + 1 \in 0..n
    BY <1>1, <1>8
  <2>2. KeptUpTo(configs, s, segments, (k + 1) - 1, h[k])
    BY <1>8, <2>1
  <2>3. KeptUpTo(configs, s, segments, k + 1, Kept(configs, s, h[k], segments[k + 1]))
    BY <2>1, <2>2, KeptGoesOn
  <2>4. h[k + 1] = Kept(configs, s, h[k], segments[k + 1])
    BY <1>6, <2>1
  <2> QED
    BY <2>1, <2>3, <2>4
<1> HIDE DEF S
<1>9. n \in S
  BY <1>1, <1>7, <1>8, UpTo
<1>10. KeptUpTo(configs, s, segments, n, all)
  BY <1>5, <1>9 DEF S
<1>11. EndOf(configs, segments, n) = Len(s) /\ SubSeq(s, 1, Len(s)) = s /\ n \in 0..Len(segments)
  BY <1>1, EndsAre, SubSeqFull
<1>12. Spells(configs, WithPending(all, s), SubSeq(s, 1, EndOf(configs, segments, n)))
  <2> HIDE DEF all
  <2> QED
    BY <1>10, <1>11, PendingSpells
<1>13. KeptSegments(configs, s, segments) = WithPending(all, s)
  BY Zenon DEF KeptSegments, KeptOver
<1> QED
  BY <1>11, <1>12, <1>13

\* A matcher of tokens that strip nothing.
Unstripped(configs) == [i \in DOMAIN configs |-> [configs[i] EXCEPT !.lstrip = FALSE]]

\* Configs with lstrip off keep one id each, and none of them strips the text before
\* it.
LEMMA UnstrippedIs ==
  ASSUME NEW configs \in Seq(Matchable), DistinctIds(configs), configs # <<>>
  PROVE  Distinct(Unstripped(configs)) /\ LstripIds(Unstripped(configs)) = {}
<1> DEFINE new == Unstripped(configs)
<1>1. Len(configs) \in Nat \ {0} /\ DOMAIN configs = 1..Len(configs) /\ \A i \in 1..Len(configs) : configs[i] \in Matchable
  BY EmptySeq
<1>2. ASSUME NEW i \in 1..Len(configs)
      PROVE  new[i] \in Matchable /\ new[i].id = configs[i].id /\ new[i].lstrip = FALSE
  <2> DEFINE old == configs[i]
             one == [old EXCEPT !.lstrip = FALSE]
  <2>1. old \in AddedTokenConfigs /\ old.content \in Strings /\ old.content # <<>>
    BY <1>1 DEF Matchable
  <2> HIDE DEF old
  <2>2. one \in AddedTokenConfigs /\ one.content = old.content /\ one.id = old.id /\ one.lstrip = FALSE
    BY <2>1 DEF AddedTokenConfigs
  <2>3. new[i] = one
    BY <1>1 DEF Unstripped, old
  <2> HIDE DEF one, new
  <2> QED
    BY <2>1, <2>2, <2>3 DEF Matchable, old
<1>3. new \in Seq(Matchable) /\ Len(new) = Len(configs) /\ DOMAIN new = 1..Len(configs)
  <2>1. DOMAIN new = 1..Len(configs) /\ new = [i \in DOMAIN new |-> new[i]]
    BY <1>1 DEF Unstripped
  <2>2. \A i \in 1..Len(configs) : new[i] \in Matchable
    BY <1>2
  <2> HIDE DEF new
  <2>3. new \in Seq(Matchable) /\ Len(new) = Len(configs)
    BY <1>1, <2>1, <2>2, Mapped
  <2> QED
    BY <2>1, <2>3
<1> HIDE DEF new
<1>4. new # <<>>
  BY <1>1, <1>3
<1>5. DistinctIds(new)
  BY <1>1, <1>2, <1>3 DEF DistinctIds
<1>6. LstripIds(new) = {}
  BY <1>2, <1>3 DEF LstripIds
<1> QED
  BY <1>3, <1>4, <1>5, <1>6 DEF Distinct, new

\* If no token strips, the segments stay as they are.
LEMMA NothingStripped ==
  ASSUME NEW configs, LstripIds(configs) = {}, NEW T, NEW segments \in Seq(T)
  PROVE  apply_lstrip(configs, segments) = segments
<1>1. Len(segments) \in Nat /\ DOMAIN segments = 1..Len(segments)
  OBVIOUS
<1>2. apply_lstrip(configs, segments) = [i \in 1..Len(segments) |-> segments[i]]
  BY DEF apply_lstrip
<1> QED
  BY <1>1, <1>2

\* Then what the added tokens are split off spells the text.
LEMMA SplitSpells ==
  ASSUME NEW configs, NEW s, Reading(configs, s), LstripIds(configs) = {}, s # <<>>
  PROVE  /\ Spells(configs, split(configs, s), s)
         /\ Spells(configs, split_special_as_text(configs, s), s)
<1>1. /\ Distinct(configs) /\ s \in Strings
      /\ Spells(configs, MatcherSplit(configs, s), s)
      /\ Spells(configs, KeptSegments(configs, s, MatcherSplit(configs, s)), s)
  BY ReadingIs, MatcherSpells, KeptSpells
<1>2. \A segments : Spells(configs, segments, s) => apply_lstrip(configs, segments) = segments
  BY NothingStripped DEF Spells
<1>3. Spells(configs, split(configs, s), s)
  BY <1>1, <1>2 DEF split
<1>4. Spells(configs, <<Text(s)>>, s)
  BY <1>1, SpellsOne
<1>5. Spells(configs, apply_lstrip(configs, KeptSegments(configs, s, MatcherSplit(configs, s))), s)
  BY <1>1, <1>2
<1>6. Spells(configs, split_special_as_text(configs, s), s)
  BY <1>3, <1>4, <1>5, Zenon DEF split_special_as_text
<1> QED
  BY <1>3, <1>6

\* The segments of an input are its texts and the contents of the tokens in it, no
\* text follows a text and none is empty, whatever the added tokens and the input
\* are, if no two tokens share an id: the cursor that split_special_as_text rebuilds
\* from the contents stays where the input is.
THEOREM SegmentsOfInput == EncSpec => []SegmentsSpell
<1>1. CallsOK => SegmentsSpell
  <2> SUFFICES ASSUME CallsOK, NEW part \in Here, DistinctIds(This.added)
               PROVE  LET new == Unstripped(This.added)
                          segments == split_added(new, part.text, job.split_special, part.bypass)
                      IN  /\ Spelled(new, segments) = part.text
                          /\ \A i \in DOMAIN segments : segments[i].id = NoId => segments[i].text # <<>>
                          /\ \A i \in 1..(Len(segments) - 1) : segments[i].id # NoId \/ segments[i + 1].id # NoId
    BY Zenon DEF SegmentsSpell, Unstripped
  <2> DEFINE new == Unstripped(This.added)
             s == part.text
             segments == split_added(new, s, job.split_special, part.bypass)
  <2>1. pc = "split" /\ todo # <<>> /\ part = todo[1]
    BY DEF Here
  <2>2. todo \in Seq(Parts) /\ job \in Jobs
    BY <2>1 DEF CallsOK
  <2>3. part \in Parts /\ s \in Strings /\ s # <<>> /\ s \in Seq(Bytes)
    <3>1. part \in Parts
      BY <2>1, <2>2
    <3> QED
      BY <3>1 DEF Parts, Strings
  <2>4. This.added \in Seq(Matchable)
    BY <2>2, JobsAre, MatcherTypes DEF This
  <2> HIDE DEF new, s
  <2>5. CASE new = <<>> \/ part.bypass
    <3>1. segments = <<Text(s)>>
      BY <2>5 DEF split_added
    <3>2. Len(segments) = 1 /\ DOMAIN segments = {1} /\ segments[1].id = NoId /\ segments[1].text = s
      BY <3>1 DEF Text
    <3>3. Spelled(new, segments) = FlattenSeq(<<s>>)
      <4> DEFINE one == [i \in DOMAIN segments |->
                           IF segments[i].id = NoId THEN segments[i].text ELSE Content(new, segments[i].id)]
      <4>1. one = [i \in {1} |-> s]
        BY <3>2
      <4>2. one = <<s>>
        BY <4>1
      <4> HIDE DEF segments
      <4> QED
        BY <4>2 DEF Spelled
    <3>4. FlattenSeq(<<s>>) = s
      BY <2>3, FlattenOne
    <3> HIDE DEF segments
    <3> QED
      BY <2>3, <3>2, <3>3, <3>4 DEF new, s, segments
  <2>6. CASE ~ (new = <<>> \/ part.bypass)
    <3>1. This.added # <<>>
      <4>1. ASSUME This.added = <<>>
            PROVE  FALSE
        <5>1. new = <<>>
          BY <4>1 DEF new, Unstripped
        <5> QED
          BY <2>6, <5>1
      <4> QED
        BY <4>1
    <3>2. Reading(new, s) /\ LstripIds(new) = {}
      BY <2>3, <2>4, <3>1, UnstrippedIs DEF Reading, new
    <3>3. Spells(new, segments, s)
      BY <2>3, <2>6, <3>2, SplitSpells DEF split_added
    <3> HIDE DEF segments
    <3>4. segments \in Seq(SegmentIn(new)) /\ Apart(segments) /\ Spelled(new, segments) = s
      BY <3>3 DEF Spells
    <3>5. \A i \in DOMAIN segments : segments[i] \in SegmentIn(new)
      BY <3>4
    <3>6. \A i \in DOMAIN segments : segments[i].id = NoId => segments[i].text # <<>>
      BY <3>5 DEF SegmentIn
    <3> QED
      BY <3>4, <3>6 DEF Apart, new, s, segments
  <2> QED
    BY <2>5, <2>6
<1> QED
  BY Called, <1>1, PTL

\* So the tokens of a matcher have an id each if those of the tokenizer do.
LEMMA MatchersDistinct ==
  ASSUME NEW tk, IsTokenizer(tk), DistinctIds(tk.added)
  PROVE  DistinctIds(RawConfigs(tk)) /\ DistinctIds(NormalizedConfigs(tk))
<1> DEFINE added == tk.added
           some == {i \in DOMAIN added : added[i].normalized}
           chosen == Chosen(added, some)
           n == Len(chosen)
           all == [i \in DOMAIN chosen |-> [chosen[i] EXCEPT !.content = normalize(tk.normalizer, @)]]
           x == Chosen(all, {i \in DOMAIN all : all[i].special})
           y == Chosen(all, {i \in DOMAIN all : ~ all[i].special})
           both == x \o y
<1>1. added \in Seq(Matchable) /\ Len(added) \in Nat /\ DOMAIN added = 1..Len(added) /\ OneEach(added, Len(added))
  <2>1. added \in Seq(Matchable)
    BY MatcherTypes
  <2> QED
    BY <2>1 DEF DistinctIds, OneEach
<1>2. DistinctIds(RawConfigs(tk))
  <2> DEFINE raw == {i \in DOMAIN added : ~ added[i].normalized}
  <2>1. raw \in SUBSET (1..Len(added)) /\ RawConfigs(tk) = Chosen(added, raw)
    BY <1>1 DEF RawConfigs
  <2> DEFINE new == Chosen(added, raw)
  <2> HIDE DEF raw, added
  <2>2. DOMAIN new = 1..Len(new) /\ OneEach(new, Len(new))
    BY <1>1, <2>1, ChosenOnce
  <2>3. DistinctIds(new)
    BY <2>2 DEF OneEach, DistinctIds
  <2> QED
    BY <2>1, <2>3
<1>3. n \in Nat /\ DOMAIN chosen = 1..n /\ OneEach(chosen, n) /\ chosen \in Seq(Matchable)
  <2>1. some \in SUBSET (1..Len(added)) /\ \A i \in some : added[i] \in Matchable
    BY <1>1
  <2> HIDE DEF some, added
  <2> QED
    BY <1>1, <2>1, ChosenOnce, ChosenType
<1>4. DOMAIN all = 1..n /\ \A i \in 1..n : all[i].id = chosen[i].id
  <2> SUFFICES ASSUME NEW i \in 1..n PROVE DOMAIN all = 1..n /\ all[i].id = chosen[i].id
    BY <1>3
  <2> DEFINE old == chosen[i]
  <2>1. old \in AddedTokenConfigs
    BY <1>3 DEF Matchable
  <2>2. all[i] = [old EXCEPT !.content = normalize(tk.normalizer, @)]
    BY <1>3
  <2> HIDE DEF old, chosen, all
  <2>3. all[i].id = old.id
    BY <2>1, <2>2 DEF AddedTokenConfigs
  <2> QED
    BY <1>3, <2>3 DEF old, all
<1>5. OneEach(all, n)
  BY <1>3, <1>4 DEF OneEach
<1>6. ASSUME NEW places \in SUBSET (1..n)
      PROVE  /\ Len(Chosen(all, places)) \in Nat /\ DOMAIN Chosen(all, places) = 1..Len(Chosen(all, places))
             /\ OneEach(Chosen(all, places), Len(Chosen(all, places)))
             /\ Chosen(all, places) \in Seq({all[i] : i \in places})
             /\ \A k \in 1..Len(Chosen(all, places)) : \E i \in places : Chosen(all, places)[k] = all[i]
  <2>1. \A i \in places : all[i] \in {all[j] : j \in places}
    OBVIOUS
  <2> DEFINE new == Chosen(all, places)
             of == {all[i] : i \in places}
  <2> HIDE DEF all, n
  <2>2. Len(new) \in Nat /\ DOMAIN new = 1..Len(new) /\ OneEach(new, Len(new))
    BY <1>3, <1>5, ChosenOnce
  <2>3. \A i \in places : all[i] \in of
    BY <2>1
  <2> HIDE DEF of
  <2>4. new \in Seq(of) /\ \A k \in 1..Len(new) : Nth(places, k) \in places /\ new[k] = all[Nth(places, k)]
    BY <1>3, <2>3, ChosenType
  <2> QED
    BY <2>2, <2>4 DEF of
<1> HIDE DEF all, chosen, n
<1> DEFINE p == {i \in DOMAIN all : all[i].special}
           q == {i \in DOMAIN all : ~ all[i].special}
<1>7. p \in SUBSET (1..n) /\ q \in SUBSET (1..n)
  BY <1>4
<1>8. /\ Len(x) \in Nat /\ Len(y) \in Nat /\ OneEach(x, Len(x)) /\ OneEach(y, Len(y))
      /\ x \in Seq({all[i] : i \in 1..n}) /\ y \in Seq({all[i] : i \in 1..n})
      /\ \A k \in 1..Len(x) : \E i \in p : x[k] = all[i]
      /\ \A k \in 1..Len(y) : \E i \in q : y[k] = all[i]
  <2>1. x \in Seq({all[i] : i \in p}) /\ y \in Seq({all[i] : i \in q})
    BY <1>6, <1>7
  <2>2. {all[i] : i \in p} \subseteq {all[i] : i \in 1..n} /\ {all[i] : i \in q} \subseteq {all[i] : i \in 1..n}
    BY <1>7
  <2>3. x \in Seq({all[i] : i \in 1..n}) /\ y \in Seq({all[i] : i \in 1..n})
    <3> DEFINE A == {all[i] : i \in p}
               B == {all[i] : i \in q}
               C == {all[i] : i \in 1..n}
    <3> HIDE DEF A, B, C, x, y
    <3>1. \A U, V : U \subseteq V => \A z \in Seq(U) : z \in Seq(V)
      OBVIOUS
    <3> QED
      BY <2>1, <2>2, <3>1 DEF A, B, C
  <2>4. /\ Len(x) \in Nat /\ OneEach(x, Len(x)) /\ \A k \in 1..Len(x) : \E i \in p : x[k] = all[i]
    BY <1>6, <1>7
  <2>5. /\ Len(y) \in Nat /\ OneEach(y, Len(y)) /\ \A k \in 1..Len(y) : \E i \in q : y[k] = all[i]
    BY <1>6, <1>7
  <2> QED
    BY <2>3, <2>4, <2>5
<1>9. ASSUME NEW k \in 1..Len(x), NEW m \in 1..Len(y), x[k].id = y[m].id
      PROVE  FALSE
  <2>1. PICK i \in p : x[k] = all[i]
    BY <1>8
  <2>2. PICK j \in q : y[m] = all[j]
    BY <1>8
  <2>3. i = j
    BY <1>5, <1>7, <1>9, <2>1, <2>2 DEF OneEach
  <2> QED
    BY <2>3
<1> HIDE DEF x, y
<1>10. Len(both) \in Nat /\ DOMAIN both = 1..Len(both) /\ OneEach(both, Len(both))
  <2>1. /\ Len(both) = Len(x) + Len(y) /\ DOMAIN both = 1..Len(both)
        /\ \A i \in 1..Len(both) : both[i] = IF i <= Len(x) THEN x[i] ELSE y[i - Len(x)]
    BY <1>8, ConcatProperties
  <2> HIDE DEF both
  <2>2. ASSUME NEW i \in 1..Len(both), NEW j \in 1..Len(both), both[i].id = both[j].id
        PROVE  i = j
    <3>1. CASE i <= Len(x) /\ j <= Len(x)
      <4>1. i \in 1..Len(x) /\ j \in 1..Len(x)
        BY <1>8, <2>1, <3>1
      <4>2. x[i].id = x[j].id
        BY <2>1, <2>2, <3>1
      <4>3. \A u, v \in 1..Len(x) : x[u].id = x[v].id => u = v
        BY <1>8 DEF OneEach
      <4> QED
        BY <4>1, <4>2, <4>3
    <3>2. CASE ~ i <= Len(x) /\ ~ j <= Len(x)
      <4>1. i - Len(x) \in 1..Len(y) /\ j - Len(x) \in 1..Len(y)
        BY <1>8, <2>1, <3>2
      <4>2. y[i - Len(x)].id = y[j - Len(x)].id
        BY <2>1, <2>2, <3>2
      <4>3. \A u, v \in 1..Len(y) : y[u].id = y[v].id => u = v
        BY <1>8 DEF OneEach
      <4>4. i - Len(x) = j - Len(x)
        BY <4>1, <4>2, <4>3
      <4> QED
        BY <1>8, <2>1, <4>4
    <3>3. CASE i <= Len(x) /\ ~ j <= Len(x)
      <4>1. i \in 1..Len(x) /\ j - Len(x) \in 1..Len(y)
        BY <1>8, <2>1, <3>3
      <4>2. x[i].id = y[j - Len(x)].id
        BY <2>1, <2>2, <3>3
      <4> QED
        BY <1>9, <4>1, <4>2
    <3>4. CASE ~ i <= Len(x) /\ j <= Len(x)
      <4>1. j \in 1..Len(x) /\ i - Len(x) \in 1..Len(y)
        BY <1>8, <2>1, <3>4
      <4>2. x[j].id = y[i - Len(x)].id
        BY <2>1, <2>2, <3>4
      <4> QED
        BY <1>9, <4>1, <4>2
    <3> QED
      BY <3>1, <3>2, <3>3, <3>4
  <2> QED
    BY <1>8, <2>1, <2>2 DEF OneEach
<1>11. NormalizedConfigs(tk) = FirstOfContent(both)
  BY Zenon DEF NormalizedConfigs, both, x, y, all, chosen
<1>12. DistinctIds(FirstOfContent(both))
  <2> DEFINE first == {i \in DOMAIN both : \A j \in DOMAIN both : both[j].content = both[i].content => i <= j}
  <2>1. first \in SUBSET (1..Len(both)) /\ FirstOfContent(both) = Chosen(both, first)
    BY <1>10 DEF FirstOfContent
  <2> DEFINE new == Chosen(both, first)
  <2> HIDE DEF first, both
  <2>2. DOMAIN new = 1..Len(new) /\ OneEach(new, Len(new))
    BY <1>10, <2>1, ChosenOnce
  <2>3. DistinctIds(new)
    BY <2>2 DEF OneEach, DistinctIds
  <2> QED
    BY <2>1, <2>3
<1> QED
  BY <1>2, <1>11, <1>12

\* Without the space at its end a text is a text.
LEMMA TrimType ==
  ASSUME NEW s \in Strings
  PROVE  TrimEnd(s) \in Strings
<1> DEFINE cps == Chars(s)
           ends == {k \in 0..Len(cps) : k = 0 \/ ~ IsSpace(cps[k])}
<1>1. cps \in Seq(CodePoints) /\ Len(cps) \in Nat
  BY StringsAre
<1>2. ends \in SUBSET (0..Len(cps)) /\ 0 \in ends
  BY <1>1
<1> HIDE DEF ends, cps
<1>3. Max(ends) \in 0..Len(cps)
  BY <1>1, <1>2, MaxIs
<1>4. SubSeq(cps, 1, Max(ends)) \in Seq(CodePoints)
  BY <1>1, <1>3
<1>5. TrimEnd(s) = Str(SubSeq(cps, 1, Max(ends)))
  BY DEF TrimEnd, TrimChars, cps, ends
<1> QED
  BY <1>4, <1>5, StringsAre

\* Stripped segments are segments.
LEMMA StripType ==
  ASSUME NEW configs, NEW segments \in Seq(Segment)
  PROVE  apply_lstrip(configs, segments) \in Seq(Segment)
<1> DEFINE new == apply_lstrip(configs, segments)
<1>1. Len(segments) \in Nat /\ DOMAIN segments = 1..Len(segments)
  OBVIOUS
<1>2. DOMAIN new = 1..Len(segments) /\ new = [i \in DOMAIN new |-> new[i]]
  BY DEF apply_lstrip
<1>3. ASSUME NEW i \in 1..Len(segments)
      PROVE  new[i] \in Segment
  <2>0. segments[i] \in Segment
    BY <1>1
  <2>1. segments[i] \in Segment /\ segments[i].text \in Strings
    BY <2>0 DEF Segment
  <2>2. TrimEnd(segments[i].text) \in Strings
    BY <2>1, TrimType
  <2>3. new[i] \in {segments[i], Text(TrimEnd(segments[i].text))}
    BY Zenon DEF apply_lstrip
  <2>4. Text(TrimEnd(segments[i].text)) \in Segment
    BY <2>2 DEF Segment, Text
  <2> HIDE DEF new
  <2> QED
    BY <2>1, <2>3, <2>4
<1>4. new \in Seq(Segment)
  <2> HIDE DEF new
  <2> QED
    BY <1>1, <1>2, <1>3, Mapped
<1> QED
  BY <1>4

\* Added tokens with an id each, or none at all.
Splittable(configs) == configs \in Seq(Matchable) /\ DistinctIds(configs)

\* What the added tokens split a text into.
LEMMA SplitAddedType ==
  ASSUME NEW configs, Splittable(configs), NEW s \in Strings, NEW special, NEW bypass
  PROVE  split_added(configs, s, special, bypass) \in Seq(Segment)
<1>1. <<Text(s)>> \in Seq(Segment)
  <2>1. Text(s) \in Segment
    BY DEF Text, Segment
  <2> QED
    BY <2>1
<1>2. CASE configs = <<>> \/ bypass
  BY <1>1, <1>2, Zenon DEF split_added
<1>3. CASE ~ (configs = <<>> \/ bypass)
  <2>1. Reading(configs, s)
    BY <1>3 DEF Splittable, Reading, Distinct
  <2>2. ASSUME NEW segments, Spells(configs, segments, s)
        PROVE  segments \in Seq(Segment)
    <3>1. segments \in Seq(SegmentIn(configs))
      BY <2>2 DEF Spells
    <3>2. SegmentIn(configs) \subseteq Segment
      BY DEF SegmentIn
    <3>3. \A U, V : U \subseteq V => \A z \in Seq(U) : z \in Seq(V)
      OBVIOUS
    <3> QED
      BY <3>1, <3>2, <3>3
  <2>3. MatcherSplit(configs, s) \in Seq(Segment) /\ KeptSegments(configs, s, MatcherSplit(configs, s)) \in Seq(Segment)
    BY <2>1, <2>2, MatcherSpells, KeptSpells
  <2>4. split(configs, s) \in Seq(Segment)
        /\ apply_lstrip(configs, KeptSegments(configs, s, MatcherSplit(configs, s))) \in Seq(Segment)
    BY <2>3, StripType DEF split
  <2>5. <<>> \in Seq(Segment)
    OBVIOUS
  <2>6. split_special_as_text(configs, s) \in Seq(Segment)
    BY <1>1, <2>4, <2>5, Zenon DEF split_special_as_text
  <2> QED
    BY <1>3, <2>4, <2>6, Zenon DEF split_added
<1> QED
  BY <1>2, <1>3

(***************************************************************************)
(* TextSplits lie one after the other in the buffer and cut no character.      *)
(***************************************************************************)

\* The buffers the pipeline works on.
Tiled == {p \in [buffer : Strings, splits : Seq(TextSplits)] : Tiles(p.splits, p.buffer, 1, Len(p.buffer) + 1)}

\* Nothing is covered at the beginning, text and tokens at the end go on so.
LEMMA TiledGrows ==
  /\ NoText \in Tiled
  /\ \A p \in Tiled : /\ \A t \in Strings : WithText(p, t) \in Tiled
                      /\ \A id \in Nat : WithToken(p, id) \in Tiled
<1>1. NoText \in Tiled
  <2>1. <<>> \in Strings /\ Len(<<>>) = 0 /\ <<>> \in Seq(TextSplits)
    BY NothingIsText DEF Strings, IsText
  <2>2. IsCut(<<>>, 1)
    BY <2>1 DEF IsCut, IsBoundary
  <2>3. Tiles(<<>>, <<>>, 1, 1)
    BY <2>2, TilesNone
  <2> QED
    BY <2>1, <2>3 DEF NoText, Tiled
<1>2. ASSUME NEW p \in Tiled
      PROVE  p.buffer \in Strings /\ p.splits \in Seq(TextSplits) /\ Tiles(p.splits, p.buffer, 1, Len(p.buffer) + 1)
             /\ p = [buffer |-> p.buffer, splits |-> p.splits]
  BY DEF Tiled
<1>3. ASSUME NEW p \in Tiled, NEW t \in Strings
      PROVE  WithText(p, t) \in Tiled
  <2> DEFINE s == p.buffer
             u == s \o t
             sp == Split(Len(s) + 1, Len(s) + Len(t) + 1, NoId)
             new == p.splits \o <<sp>>
  <2>1. s \in Strings /\ p.splits \in Seq(TextSplits) /\ Tiles(p.splits, s, 1, Len(s) + 1)
    BY <1>2
  <2> HIDE DEF s
  <2>2. /\ u \in Strings /\ Len(s) \in Nat /\ Len(t) \in Nat /\ Len(u) = Len(s) + Len(t)
        /\ IsCut(u, Len(s) + 1) /\ IsCut(u, Len(s) + Len(t) + 1)
    BY <2>1, CutStays
  <2>3. Tiles(p.splits, u, 1, Len(s) + 1)
    BY <2>1, TilesStay
  <2>4. sp \in TextSplits /\ sp.from = Len(s) + 1 /\ sp.to = Len(s) + Len(t) + 1 /\ sp.id = NoId
    BY <2>2 DEF Split, TextSplits, NoId, NoToken
  <2> HIDE DEF sp, u
  <2>5. FitsText(u, sp)
    BY <2>2, <2>4 DEF FitsText, NoId, NoToken
  <2>6. Tiles(<<sp>>, u, Len(s) + 1, Len(u) + 1)
    <3>1. Tiles(<<sp>>, u, sp.from, sp.to)
      BY <2>4, <2>5, TilesOne
    <3> QED
      BY <2>2, <2>4, <3>1
  <2>7. Tiles(new, u, 1, Len(u) + 1)
    BY <2>3, <2>6, TilesJoin
  <2>8. Append(p.splits, sp) = new
    BY <2>1, <2>4
  <2>9. WithText(p, t) = [buffer |-> u, splits |-> new]
    BY <2>8, Zenon DEF WithText, u, s, sp
  <2> HIDE DEF new
  <2>10. new \in Seq(TextSplits)
    BY <2>7 DEF Tiles
  <2> QED
    BY <2>2, <2>7, <2>9, <2>10 DEF Tiled
<1>4. ASSUME NEW p \in Tiled, NEW id \in Nat
      PROVE  WithToken(p, id) \in Tiled
  <2> DEFINE s == p.buffer
             sp == Split(Len(s) + 1, Len(s) + 1, id)
             new == p.splits \o <<sp>>
  <2>1. s \in Strings /\ p.splits \in Seq(TextSplits) /\ Tiles(p.splits, s, 1, Len(s) + 1)
    BY <1>2
  <2>2. p = [buffer |-> s, splits |-> p.splits]
    BY <1>2
  <2> HIDE DEF s
  <2>3. Len(s) \in Nat /\ IsCut(s, Len(s) + 1)
    BY <2>1, TextEnds DEF IsCut
  <2>4. sp \in TextSplits /\ sp.from = Len(s) + 1 /\ sp.to = Len(s) + 1
    BY <2>3 DEF Split, TextSplits
  <2> HIDE DEF sp
  <2>5. Tiles(<<sp>>, s, Len(s) + 1, Len(s) + 1)
    <3>1. FitsText(s, sp)
      BY <2>3, <2>4 DEF FitsText
    <3>2. Tiles(<<sp>>, s, sp.from, sp.to)
      BY <2>4, <3>1, TilesOne
    <3> QED
      BY <2>4, <3>2
  <2>6. Tiles(new, s, 1, Len(s) + 1)
    BY <2>1, <2>5, TilesJoin
  <2>7. Append(p.splits, sp) = new
    BY <2>1, <2>4
  <2>8. WithToken(p, id) = [p EXCEPT !.splits = new]
    BY <2>7, Zenon DEF WithToken, s, sp
  <2> HIDE DEF new
  <2>9. WithToken(p, id) = [buffer |-> s, splits |-> new]
    BY <2>2, <2>8
  <2>10. new \in Seq(TextSplits)
    BY <2>6 DEF Tiles
  <2> QED
    BY <2>1, <2>6, <2>9, <2>10 DEF Tiled
<1> QED
  BY <1>1, <1>3, <1>4

\* The text of a split is a text.
LEMMA SplitTextIs ==
  ASSUME NEW p \in Tiled, NEW i \in 1..Len(p.splits)
  PROVE  /\ p.splits[i] \in TextSplits /\ FitsText(p.buffer, p.splits[i]) /\ split_text(p, p.splits[i]) \in Strings
         /\ p.buffer \in Strings /\ DOMAIN p.splits = 1..Len(p.splits) /\ Len(p.splits) \in Nat
<1>1. p.splits \in Seq(TextSplits) /\ p.buffer \in Strings /\ FitsText(p.buffer, p.splits[i])
  BY DEF Tiled, Tiles
<1>2. p.splits[i] \in TextSplits /\ DOMAIN p.splits = 1..Len(p.splits) /\ Len(p.splits) \in Nat
  BY <1>1
<1>3. IsText(SubSeq(p.buffer, p.splits[i].from, p.splits[i].to - 1))
  <2> DEFINE a == p.splits[i].from
             b == p.splits[i].to
  <2>1. a \in 1..Len(p.buffer) + 1 /\ b \in 1..Len(p.buffer) + 1 /\ a <= b
        /\ IsBoundary(p.buffer, a) /\ IsBoundary(p.buffer, b)
    BY <1>1 DEF FitsText, IsCut
  <2>2. IsText(p.buffer)
    BY <1>1 DEF Strings
  <2> HIDE DEF a, b
  <2>3. IsText(SubSeq(p.buffer, a, b - 1))
    BY <2>1, <2>2, TextCut
  <2> QED
    BY <2>3 DEF a, b
<1> QED
  BY <1>1, <1>2, <1>3 DEF split_text, Strings, IsText

\* Segments put into the buffer, as they are or normalized, leave it so.
LEMMA SegmentsTile ==
  ASSUME NEW p \in Tiled, NEW seg \in Segment
  PROVE  Inner(p, seg) \in Tiled /\ \A tk : IsTokenizer(tk) => Normalized(tk, p, seg) \in Tiled
<1>1. (seg.id # NoId => seg.id \in Nat) /\ seg.text \in Strings
  BY DEF Segment
<1>2. Inner(p, seg) \in Tiled
  BY <1>1, TiledGrows DEF Inner
<1>3. ASSUME NEW tk, IsTokenizer(tk)
      PROVE  Normalized(tk, p, seg) \in Tiled
  <2>1. normalize(tk.normalizer, seg.text) \in Strings
    BY <1>1, <1>3, NormalizeType DEF IsTokenizer
  <2> QED
    BY <1>1, <2>1, TiledGrows DEF Normalized
<1> QED
  BY <1>2, <1>3

\* So do those between the tokens of the first of two matchers.
LEMMA OuterTiles ==
  ASSUME NEW tk, IsTokenizer(tk), DistinctIds(tk.added), NEW special, NEW bypass, NEW p \in Tiled, NEW seg \in Segment
  PROVE  Outer(tk, special, bypass, p, seg) \in Tiled
<1> DEFINE segments == split_added(NormalizedConfigs(tk), normalize(tk.normalizer, seg.text), special, bypass)
<1>1. (seg.id # NoId => seg.id \in Nat) /\ seg.text \in Strings
  BY DEF Segment
<1>2. normalize(tk.normalizer, seg.text) \in Strings
  BY <1>1, NormalizeType DEF IsTokenizer
<1>3. Splittable(NormalizedConfigs(tk))
  BY MatcherTypes, MatchersDistinct DEF Splittable
<1>4. segments \in Seq(Segment)
  BY <1>2, <1>3, SplitAddedType
<1> HIDE DEF segments
<1>5. Len(segments) \in Nat /\ DOMAIN segments = 1..Len(segments) /\ \A i \in 1..Len(segments) : segments[i] \in Segment
  BY <1>4
<1>6. \A i \in 1..Len(segments), x \in Tiled : Inner(x, segments[i]) \in Tiled
  BY <1>5, SegmentsTile
<1>7. FoldLeft(Inner, p, segments) \in Tiled
  BY <1>5, <1>6, InnerFold
<1>8. CASE seg.id = NoId
  <2>1. Outer(tk, special, bypass, p, seg) = FoldLeft(Inner, p, segments)
    BY <1>8, Zenon DEF Outer, segments
  <2> QED
    BY <1>7, <2>1
<1>9. CASE seg.id # NoId
  <2>1. Outer(tk, special, bypass, p, seg) = WithToken(p, seg.id)
    BY <1>9, Zenon DEF Outer
  <2> QED
    BY <1>1, <1>9, <2>1, TiledGrows
<1> QED
  BY <1>8, <1>9

\* What a text is built into.
LEMMA BuiltTiles ==
  ASSUME NEW tk, IsTokenizer(tk), DistinctIds(tk.added), NEW s \in Strings, NEW special, NEW bypass
  PROVE  build_pre_tokenized(tk, s, special, bypass) \in Tiled
<1>1. Splittable(tk.added) /\ Splittable(RawConfigs(tk))
  BY MatcherTypes, MatchersDistinct DEF Splittable
<1> DEFINE raw == split_added(RawConfigs(tk), s, special, bypass)
           all == split_added(tk.added, s, special, bypass)
<1>2. raw \in Seq(Segment) /\ all \in Seq(Segment)
  BY <1>1, SplitAddedType
<1> HIDE DEF raw, all
<1>3. BuildWithMatchers(tk, s, special, bypass) \in Tiled
  <2>1. Len(raw) \in Nat /\ DOMAIN raw = 1..Len(raw) /\ \A i \in 1..Len(raw) : raw[i] \in Segment
    BY <1>2
  <2>2. \A i \in 1..Len(raw), x \in Tiled : Outer(tk, special, bypass, x, raw[i]) \in Tiled
    BY <2>1, OuterTiles
  <2>3. OuterOver(tk, special, bypass, NoText, raw) \in Tiled
    BY <2>1, <2>2, TiledGrows, OuterFold
  <2>4. BuildWithMatchers(tk, s, special, bypass) = OuterOver(tk, special, bypass, NoText, raw)
    BY Zenon DEF BuildWithMatchers, OuterOver, raw
  <2> QED
    BY <2>3, <2>4
<1>4. build_pre_tokenized_from_segments(tk, all) \in Tiled
  <2>1. Len(all) \in Nat /\ DOMAIN all = 1..Len(all) /\ \A i \in 1..Len(all) : all[i] \in Segment
    BY <1>2
  <2>2. \A i \in 1..Len(all), x \in Tiled : Normalized(tk, x, all[i]) \in Tiled
    BY <2>1, SegmentsTile
  <2>3. NormalizedOver(tk, NoText, all) \in Tiled
    BY <2>1, <2>2, TiledGrows, NormalizedFold
  <2>4. build_pre_tokenized_from_segments(tk, all) = NormalizedOver(tk, NoText, all)
    BY Zenon DEF build_pre_tokenized_from_segments, NormalizedOver
  <2> QED
    BY <2>3, <2>4
<1> QED
  BY <1>3, <1>4, Zenon DEF build_pre_tokenized, all

(***************************************************************************)
(* Pieces of a text.                                                       *)
(***************************************************************************)

\* The pieces begin at such places.
LEMMA BeginsOrdered ==
  ASSUME NEW cps \in Seq(CodePoints)
  PROVE  Ordered(Begins(cps), Len(cps))
<1> DEFINE n == Len(cps)
           places == {i \in DOMAIN cps : i = 1 \/ (IsSpace(cps[i]) /\ ~ IsSpace(cps[i - 1]))}
<1>1. n \in Nat /\ DOMAIN cps = 1..n /\ places \in SUBSET (1..n) /\ (n > 0 => 1 \in places)
  OBVIOUS
<1>2. Begins(cps) = Chosen([i \in DOMAIN cps |-> i], places) \o <<n + 1>>
  BY Zenon DEF Begins
<1> HIDE DEF n, places
<1> QED
  BY <1>1, <1>2, PlacesOrdered DEF n

\* What is between them are texts, and together they are the text.
LEMMA PiecesJoin ==
  ASSUME NEW cps \in Seq(CodePoints), NEW at, Ordered(at, Len(cps))
  PROVE  PiecesAt(cps, at) \in Seq(Strings) /\ FlattenSeq(PiecesAt(cps, at)) = Str(cps)
BY TextsBetween DEF PiecesAt, TextsAt

\* The matches of the pattern in a text.
LEMMA PiecesAre ==
  ASSUME NEW s \in Strings
  PROVE  Pieces(s) \in Seq(Strings) /\ FlattenSeq(Pieces(s)) = s
<1>1. Chars(s) \in Seq(CodePoints) /\ s = Str(Chars(s))
  BY StringsAre
<1> QED
  BY <1>1, BeginsOrdered, PiecesJoin DEF Pieces, PiecesOf

\* What the pattern makes of one split.
PatternOf(p, sp) == IF sp.id # NoId THEN <<sp>> ELSE SplitsOf(Pieces(split_text(p, sp)), sp.from)

\* The splits for texts that follow one another cover what these are.
LEMMA SplitsOfTile ==
  ASSUME NEW s \in Strings, NEW sp \in TextSplits, FitsText(s, sp), NEW parts \in Seq(Strings),
         FlattenSeq(parts) = SubSeq(s, sp.from, sp.to - 1)
  PROVE  Tiles(SplitsOf(parts, sp.from), s, sp.from, sp.to)
<1>1. SplitsOf(parts, sp.from) = SideBySide(parts, sp.from)
  BY Zenon DEF SplitsOf, SideBySide, Split, NoId, NoToken
<1> QED
  BY <1>1, SidesTile

\* The splits at the pattern cover the buffer.
LEMMA PatternTiles ==
  ASSUME NEW p \in Tiled
  PROVE  SplitPattern(p) \in Tiled
<1> DEFINE s == p.buffer
           sps == p.splits
           n == Len(sps)
           w == [i \in DOMAIN sps |-> PatternOf(p, sps[i])]
           new == FlattenSeq(w)
<1>1. /\ s \in Strings /\ sps \in Seq(TextSplits) /\ n \in Nat /\ DOMAIN sps = 1..n
      /\ Tiles(sps, s, 1, Len(s) + 1) /\ p = [buffer |-> s, splits |-> sps]
  <2>1. s \in Strings /\ sps \in Seq(TextSplits) /\ Tiles(sps, s, 1, Len(s) + 1) /\ p = [buffer |-> s, splits |-> sps]
    BY DEF Tiled
  <2> QED
    BY <2>1
<1>2. ASSUME NEW i \in 1..n
      PROVE  Tiles(PatternOf(p, sps[i]), s, sps[i].from, sps[i].to) /\ PatternOf(p, sps[i]) \in Seq(TextSplits)
  <2> DEFINE sp == sps[i]
  <2>1. sp \in TextSplits /\ FitsText(s, sp) /\ split_text(p, sp) \in Strings
    BY SplitTextIs
  <2>2. split_text(p, sp) = SubSeq(s, sp.from, sp.to - 1)
    BY DEF split_text
  <2> HIDE DEF sp, s
  <2>3. Tiles(<<sp>>, s, sp.from, sp.to)
    BY <2>1, TilesOne
  <2>4. Tiles(SplitsOf(Pieces(split_text(p, sp)), sp.from), s, sp.from, sp.to)
    <3>1. /\ Pieces(split_text(p, sp)) \in Seq(Strings)
          /\ FlattenSeq(Pieces(split_text(p, sp))) = SubSeq(s, sp.from, sp.to - 1)
      BY <2>1, <2>2, PiecesAre
    <3> QED
      BY <1>1, <2>1, <3>1, SplitsOfTile
  <2>5. Tiles(PatternOf(p, sp), s, sp.from, sp.to)
    BY <2>3, <2>4, Zenon DEF PatternOf
  <2> QED
    BY <2>5 DEF Tiles, sp
<1>3. w \in Seq(Seq(TextSplits)) /\ Len(w) = n /\ \A i \in 1..n : w[i] = PatternOf(p, sps[i])
  <2>1. \A i \in 1..n : w[i] \in Seq(TextSplits) /\ w[i] = PatternOf(p, sps[i])
    BY <1>1, <1>2
  <2>2. DOMAIN w = DOMAIN sps /\ w = [i \in DOMAIN w |-> w[i]]
    OBVIOUS
  <2> HIDE DEF w
  <2> QED
    BY <1>1, <2>1, <2>2, Mapped
<1> HIDE DEF w
<1>4. Tiles(new, s, 1, Len(s) + 1)
  <2>1. \A i \in 1..Len(sps) : Tiles(w[i], s, sps[i].from, sps[i].to)
    BY <1>2, <1>3
  <2> HIDE DEF s, sps
  <2>2. Tiles(sps, s, 1, Len(s) + 1) /\ w \in Seq(Seq(TextSplits)) /\ Len(w) = Len(sps)
    BY <1>1, <1>3
  <2> QED
    BY <2>1, <2>2, TilesFlatten
<1>5. SplitPattern(p) = [p EXCEPT !.splits = new]
  BY Zenon DEF SplitPattern, PatternOf, w
<1>6. new \in Seq(TextSplits)
  BY <1>4 DEF Tiles
<1> HIDE DEF new, s, sps
<1>7. SplitPattern(p) = [buffer |-> s, splits |-> new]
  BY <1>1, <1>5
<1> QED
  BY <1>1, <1>4, <1>6, <1>7 DEF Tiled

\* Encoded bytes are a text.
LEMMA EncodedIsText ==
  ASSUME NEW s \in Strings
  PROVE  encode_bytes(s) \in Strings
<1>1. s \in Seq(Bytes)
  BY DEF Strings
<1> QED
  BY <1>1, EncodedIs

\* The bytes of a text at the end of the buffer.
LEMMA WithBytesTile ==
  ASSUME NEW p \in Tiled, NEW s \in Strings
  PROVE  WithBytes(p, s) \in Tiled
BY EncodedIsText, TiledGrows DEF WithBytes

\* A space before a text makes a text.
LEMMA PrefixedType ==
  ASSUME NEW step, NEW s \in Strings
  PROVE  Prefixed(step, s) \in Strings
<1> DEFINE space == <<32>>
<1>1. space \in Strings
  <2>1. 32 \in CodePoints
    BY SMT DEF CodePoints, IsCodePoint
  <2>2. space \in Seq(CodePoints) /\ Len(space) = 1 /\ space[1] = 32
    BY <2>1
  <2>3. Str(space) \in Strings
    BY <2>2, StringsAre
  <2>4. Str(space) = space
    <3>1. Utf8(32) = <<32>>
      BY DEF Utf8
    <3>2. [i \in 1..Len(space) |-> Utf8(space[i])] = <<space>>
      BY <3>1
    <3>3. FlattenSeq(<<space>>) = space
      BY <2>2, FlattenOne
    <3> QED
      BY <3>2, <3>3, Zenon DEF Str
  <2> QED
    BY <2>3, <2>4
<1> HIDE DEF space
<1>2. space \o s \in Strings
  BY <1>1, CutStays
<1>3. Prefixed(step, s) \in {s, space \o s}
  BY Zenon DEF Prefixed, space
<1> QED
  BY <1>2, <1>3

\* Both ways to encode the bytes of the splits build such a buffer.
LEMMA ByteLevelTiles ==
  ASSUME NEW step, NEW p \in Tiled
  PROVE  ByteLevel(step, p) \in Tiled
<1> DEFINE sps == p.splits
           n == Len(sps)
<1>1. n \in Nat /\ DOMAIN sps = 1..n /\ \A i \in 1..n : sps[i] \in TextSplits /\ split_text(p, sps[i]) \in Strings
  <2>1. sps \in Seq(TextSplits)
    BY DEF Tiled
  <2> QED
    BY <2>1, SplitTextIs
<1>2. ASSUME NEW i \in 1..n
      PROVE  sps[i].id # NoId => sps[i].id \in Nat
  BY <1>1 DEF TextSplits, NoId, NoToken
<1>3. ASSUME NEW i \in 1..n, NEW x \in Tiled
      PROVE  AddBytes(p, x, sps[i]) \in Tiled
  BY <1>1, <1>2, <1>3, TiledGrows, WithBytesTile DEF AddBytes
<1>4. ASSUME NEW i \in 1..n, NEW x \in Tiled
      PROVE  AddMatches(step, p, x, sps[i]) \in Tiled
  <2> DEFINE t == split_text(p, sps[i])
             m == Matches(step, t)
  <2>1. t \in Strings
    BY <1>1
  <2> HIDE DEF t
  <2>2. m \in Seq(Strings)
    <3>1. Prefixed(step, t) \in Strings
      BY <2>1, PrefixedType
    <3>2. <<Prefixed(step, t)>> \in Seq(Strings)
      BY <3>1
    <3>3. Pieces(Prefixed(step, t)) \in Seq(Strings)
      BY <3>1, PiecesAre
    <3> QED
      BY <3>2, <3>3, Zenon DEF Matches
  <2> HIDE DEF m
  <2>3. FoldLeft(WithBytes, x, m) \in Tiled
    <3>1. Len(m) \in Nat /\ DOMAIN m = 1..Len(m) /\ \A j \in 1..Len(m) : m[j] \in Strings
      BY <2>2
    <3>2. \A j \in 1..Len(m), y \in Tiled : WithBytes(y, m[j]) \in Tiled
      BY <3>1, WithBytesTile
    <3> QED
      BY <3>1, <3>2, WithBytesFold
  <2>4. sps[i].id # NoId => WithToken(x, sps[i].id) \in Tiled
    BY <1>2, TiledGrows
  <2> QED
    BY <2>3, <2>4, Zenon DEF AddMatches, m, t
<1> HIDE DEF n
<1>5. AddBytesOver(p, NoText, sps) \in Tiled
  <2> HIDE DEF sps
  <2> QED
    BY <1>1, <1>3, TiledGrows, AddBytesFold DEF n
<1>6. AddMatchesOver(step, p, NoText, sps) \in Tiled
  <2> HIDE DEF sps
  <2> QED
    BY <1>1, <1>4, TiledGrows, AddMatchesFold DEF n
<1>7. pre_tokenize_bulk(p) = AddBytesOver(p, NoText, sps)
  BY Zenon DEF pre_tokenize_bulk, AddBytesOver
<1>8. ByteLevel(step, p) \in {pre_tokenize_bulk(p), AddMatchesOver(step, p, NoText, sps)}
  BY Zenon DEF ByteLevel, AddMatchesOver
<1> QED
  BY <1>5, <1>6, <1>7, <1>8

\* So does the whole of a pre-tokenizer.
LEMMA PreTokenizeTiles ==
  ASSUME NEW steps, Len(steps) \in Nat, DOMAIN steps = 1..Len(steps), NEW p \in Tiled
  PROVE  pre_tokenize(steps, p) \in Tiled
<1>1. \A i \in 1..Len(steps), x \in Tiled : pre_tokenize_step(x, steps[i]) \in Tiled
  BY PatternTiles, ByteLevelTiles DEF pre_tokenize_step
<1> QED
  BY <1>1, PreTokenizeFold DEF pre_tokenize

(***************************************************************************)
(* The buffer at every stage.                                              *)
(***************************************************************************)

\* No two added tokens of a tokenizer share an id.
OneIdEach == \A name \in DOMAIN Tokenizers : DistinctIds(Tokenizers[name].added)

\* Between the stages the splits cover the buffer.
SplitsOK == pc \in {"pre", "tokenize"} => pts \in Tiled

\* No step leaves the splits.
LEMMA SplitsStep ==
  ASSUME OneIdEach, CallsOK, SplitsOK, [EncNext]_<<vars, encVars>>
  PROVE  SplitsOK'
<1>1. ASSUME SplitAdded
      PROVE  SplitsOK'
  <2>1. /\ pc = "split" /\ todo # <<>>
        /\ pts' = build_pre_tokenized(This, todo[1].text, job.split_special, todo[1].bypass)
    BY <1>1 DEF SplitAdded
  <2>2. job \in Jobs /\ todo \in Seq(Parts)
    BY <2>1 DEF CallsOK
  <2>3. IsTokenizer(This) /\ DistinctIds(This.added)
    BY <2>2, JobsAre DEF This, OneIdEach
  <2>4. todo[1].text \in Strings
    <3>1. todo[1] \in Parts
      BY <2>1, <2>2
    <3> QED
      BY <3>1 DEF Parts
  <2>5. pts' \in Tiled
    BY <2>1, <2>3, <2>4, BuiltTiles
  <2> QED
    BY <2>5 DEF SplitsOK
<1>2. ASSUME PreTokenize
      PROVE  SplitsOK'
  <2> DEFINE steps == IF detect_fused_byte_level(This.pre) THEN <<This.pre[1]>> ELSE This.pre
  <2>1. pc = "pre" /\ pts' = pre_tokenize(steps, pts)
    BY <1>2, Zenon DEF PreTokenize
  <2>2. job \in Jobs /\ pts \in Tiled
    BY <2>1 DEF CallsOK, SplitsOK
  <2>3. This.pre \in Seq(PreTokenizerSteps)
    BY <2>2, JobsAre DEF This, IsTokenizer
  <2>4. Len(steps) \in Nat /\ DOMAIN steps = 1..Len(steps)
    <3>1. Len(<<This.pre[1]>>) = 1 /\ DOMAIN <<This.pre[1]>> = 1..1 /\ 1 \in Nat
      OBVIOUS
    <3>2. Len(This.pre) \in Nat /\ DOMAIN This.pre = 1..Len(This.pre)
      BY <2>3
    <3>3. steps \in {<<This.pre[1]>>, This.pre}
      OBVIOUS
    <3> HIDE DEF steps
    <3> QED
      BY <3>1, <3>2, <3>3, Zenon
  <2> HIDE DEF steps
  <2>5. pts' \in Tiled
    BY <2>1, <2>2, <2>4, PreTokenizeTiles
  <2> QED
    BY <2>5 DEF SplitsOK
<1>3. ASSUME Begin \/ ModelTokenize \/ PostProcess \/ BeginIds \/ NewStream \/ StepHolds \/ StepReturns \/ StepFails
             \/ Return \/ Wrap \/ New \/ Release
      PROVE  SplitsOK'
  <2>1. pc' \notin {"pre", "tokenize"}
    BY <1>3 DEF Begin, ModelTokenize, PostProcess, BeginIds, NewStream, StepHolds, StepReturns, StepFails,
                Return, Wrap, New, Release
  <2> QED
    BY <2>1 DEF SplitsOK
<1>4. ASSUME UNCHANGED vars
      PROVE  SplitsOK'
  BY <1>4 DEF vars, SplitsOK
<1> QED
  BY <1>1, <1>2, <1>3, <1>4, StepsAre

\* At every stage the splits lie one after the other in the buffer, cover it and cut
\* no character, and those of added tokens are empty: after the added tokens, the
\* normalizers, the pattern and the encoding of bytes, for every input, if no two
\* added tokens of a tokenizer share an id.
THEOREM SplitsCover ==
  ASSUME OneIdEach
  PROVE  EncSpec => []TypeOK
<1>1. EncInit => SplitsOK
  BY DEF EncInit, Init, SplitsOK
<1>2. CallsOK /\ SplitsOK /\ [EncNext]_<<vars, encVars>> => SplitsOK'
  BY SplitsStep
<1>3. CallsOK /\ SplitsOK => TypeOK
  <2> SUFFICES ASSUME CallsOK, SplitsOK, Splitting
               PROVE  LET sps == pts.splits
                      IN  /\ \A i \in DOMAIN sps :
                                /\ sps[i].from = IF i = 1 THEN 1 ELSE sps[i - 1].to
                                /\ sps[i].from <= sps[i].to /\ sps[i].to <= Len(pts.buffer) + 1
                                /\ IsBoundary(pts.buffer, sps[i].from)
                                /\ sps[i].id # NoId => sps[i].from = sps[i].to
                          /\ pts.buffer # <<>> => sps # <<>> /\ Last(sps).to = Len(pts.buffer) + 1
    BY DEF TypeOK, CallsOK
  <2> DEFINE s == pts.buffer
             sps == pts.splits
             n == Len(sps)
  <2>1. s \in Strings /\ sps \in Seq(TextSplits) /\ Tiles(sps, s, 1, Len(s) + 1)
    BY DEF Splitting, SplitsOK, Tiled
  <2>2. n \in Nat /\ DOMAIN sps = 1..n /\ (sps = <<>> <=> n = 0) /\ Len(s) \in Nat /\ s \in Seq(Bytes)
    BY <2>1, EmptySeq, TextEnds DEF Strings
  <2> HIDE DEF s, sps
  <2>3. ASSUME NEW i \in DOMAIN sps
        PROVE  /\ sps[i].from = IF i = 1 THEN 1 ELSE sps[i - 1].to
               /\ sps[i].from <= sps[i].to /\ sps[i].to <= Len(s) + 1
               /\ IsBoundary(s, sps[i].from)
               /\ sps[i].id # NoId => sps[i].from = sps[i].to
    <3>1. FitsText(s, sps[i])
      BY <2>1, <2>2 DEF Tiles
    <3>2. CASE i = 1
      <4>1. sps # <<>>
        BY <2>2
      <4> QED
        BY <2>1, <3>1, <3>2, <4>1 DEF Tiles, FitsText, IsCut, NoId, NoToken
    <3>3. CASE i # 1
      <4>1. i - 1 \in 1..(n - 1) /\ (i - 1) + 1 = i
        BY <2>2, <3>3
      <4>2. sps[(i - 1) + 1].from = sps[i - 1].to
        BY <2>1, <4>1 DEF Tiles
      <4> QED
        BY <3>1, <3>3, <4>1, <4>2 DEF FitsText, IsCut, NoId, NoToken
    <3> QED
      BY <3>2, <3>3
  <2>4. s # <<>> => sps # <<>> /\ Last(sps).to = Len(s) + 1
    <3> SUFFICES ASSUME s # <<>> PROVE sps # <<>> /\ Last(sps).to = Len(s) + 1
      OBVIOUS
    <3>1. Len(s) # 0
      BY <2>2, EmptySeq
    <3>2. sps # <<>>
      BY <2>1, <2>2, <3>1 DEF Tiles
    <3> QED
      BY <2>1, <3>2 DEF Tiles, Last
  <2> QED
    BY <2>3, <2>4 DEF s, sps
<1> QED
  BY Called, <1>1, <1>2, <1>3, PTL DEF EncSpec

(***************************************************************************)
(* Ids.                                                                    *)
(***************************************************************************)

\* The ids of the characters of a pretoken, or none.
LEMMA CharIdsType ==
  ASSUME NEW vocab, \A s \in DOMAIN vocab : vocab[s] \in Nat, NEW cps \in Seq(CodePoints)
  PROVE  TokenizeChars(vocab, Utf8Chars(cps)) \in Seq(Nat) \cup {NoIds}
<1> DEFINE chars == Utf8Chars(cps)
           Hex(char) == [j \in 1..Len(char) |-> Str(<<HEX + char[j]>>)]
           Falls(char) == char \notin DOMAIN vocab
           Known(char) == Falls(char) => \A j \in DOMAIN char : Hex(char)[j] \in DOMAIN vocab
           Of(char) == IF Falls(char) THEN [j \in DOMAIN char |-> vocab[Hex(char)[j]]] ELSE <<vocab[char]>>
           all == [i \in DOMAIN chars |-> Of(chars[i])]
<1>1. Len(cps) \in Nat /\ DOMAIN cps = 1..Len(cps) /\ \A i \in 1..Len(cps) : IsCodePoint(cps[i])
  <2>1. AreCodePoints(cps)
    BY CodePointSeqs
  <2>2. cps \in Seq(Nat) /\ DOMAIN cps = 1..Len(cps) /\ Len(cps) \in Nat
    BY <2>1 DEF AreCodePoints
  <2> QED
    BY <2>1, <2>2 DEF AreCodePoints
<1>2. DOMAIN chars = 1..Len(cps) /\ \A i \in 1..Len(cps) : chars[i] = Utf8(cps[i])
  BY <1>1 DEF Utf8Chars
<1>3. \A i \in 1..Len(cps) : chars[i] \in Seq(Bytes)
  BY <1>1, <1>2, Utf8Encodes DEF Encoded
<1> HIDE DEF chars
<1>4. ASSUME NEW char \in Seq(Bytes), Known(char)
      PROVE  Of(char) \in Seq(Nat)
  <2>1. CASE Falls(char)
    <3> DEFINE h == Hex(char)
    <3>1. Len(char) \in Nat /\ DOMAIN char = 1..Len(char)
      BY <1>4
    <3>2. Of(char) = [j \in 1..Len(char) |-> vocab[h[j]]]
      BY <2>1, <3>1
    <3> HIDE DEF h, Hex, Falls, Of
    <3>4. \A j \in DOMAIN char : h[j] \in DOMAIN vocab
      BY <1>4, <2>1 DEF h
    <3>3. [j \in 1..Len(char) |-> vocab[h[j]]] \in [1..Len(char) -> Nat]
      BY <3>1, <3>4
    <3> QED
      BY <3>1, <3>2, <3>3, Tabled
  <2>2. CASE ~ Falls(char)
    <3>1. vocab[char] \in Nat /\ Of(char) = <<vocab[char]>>
      BY <2>2
    <3> HIDE DEF Of
    <3> QED
      BY <3>1
  <2> QED
    BY <2>1, <2>2
<1>5. TokenizeChars(vocab, chars) = IF \A i \in DOMAIN chars : Known(chars[i]) THEN FlattenSeq(all) ELSE NoIds
  BY Zenon DEF TokenizeChars
<1>6. CASE \A i \in DOMAIN chars : Known(chars[i])
  <2> HIDE DEF Known, Of
  <2>1. \A i \in 1..Len(cps) : Of(chars[i]) \in Seq(Nat)
    BY <1>2, <1>3, <1>4, <1>6
  <2>2. all \in [1..Len(cps) -> Seq(Nat)]
    BY <1>2, <2>1
  <2> HIDE DEF all
  <2>3. all \in Seq(Seq(Nat))
    BY <1>1, <2>2, Tabled
  <2>4. FlattenSeq(all) \in Seq(Nat)
    BY <2>3, FlattenType
  <2> QED
    BY <1>5, <1>6, <2>4 DEF chars
<1>7. CASE ~ \A i \in DOMAIN chars : Known(chars[i])
  <2> HIDE DEF Known, all
  <2> QED
    BY <1>5, <1>7 DEF chars
<1> QED
  BY <1>6, <1>7

\* The ids of a pretoken, or none.
LEMMA TokenizeType ==
  ASSUME NEW tk, IsTokenizer(tk), NEW s \in Strings
  PROVE  Tokenize(tk, s) \in Seq(Nat) \cup {NoIds}
<1>1. \A t \in DOMAIN tk.vocab : tk.vocab[t] \in Nat
  BY DEF IsTokenizer
<1>2. CASE s = <<>>
  BY <1>2 DEF Tokenize
<1>3. CASE s # <<>> /\ s \in DOMAIN tk.vocab
  <2>1. tk.vocab[s] \in Nat /\ Tokenize(tk, s) = <<tk.vocab[s]>>
    BY <1>1, <1>3 DEF Tokenize
  <2> QED
    BY <2>1
<1>4. CASE s # <<>> /\ s \notin DOMAIN tk.vocab
  <2>1. Chars(s) \in Seq(CodePoints)
    BY StringsAre
  <2>2. Tokenize(tk, s) = TokenizeChars(tk.vocab, Utf8Chars(Chars(s)))
    BY <1>4, Zenon DEF Tokenize
  <2> QED
    BY <1>1, <2>1, <2>2, CharIdsType
<1> QED
  BY <1>2, <1>3, <1>4

\* The ids of one split.
IdsOf(tk, p, fused, sp) ==
  IF sp.id # NoId THEN <<sp.id>>
  ELSE Tokenize(tk, IF fused THEN encode_bytes(split_text(p, sp)) ELSE split_text(p, sp))

\* They are ids, or none.
LEMMA IdsOfType ==
  ASSUME NEW tk, IsTokenizer(tk), NEW p \in Tiled, NEW fused \in BOOLEAN, NEW i \in 1..Len(p.splits)
  PROVE  IdsOf(tk, p, fused, p.splits[i]) \in Seq(Nat) \cup {NoIds}
<1> DEFINE sp == p.splits[i]
<1>1. sp \in TextSplits /\ split_text(p, sp) \in Strings
  BY SplitTextIs
<1> HIDE DEF sp
<1>2. encode_bytes(split_text(p, sp)) \in Strings
  BY <1>1, EncodedIsText
<1>3. CASE sp.id # NoId
  <2>1. sp.id \in Nat
    BY <1>1, <1>3 DEF TextSplits, NoId, NoToken
  <2>2. <<sp.id>> \in Seq(Nat)
    BY <2>1
  <2> QED
    BY <1>3, <2>2 DEF IdsOf, sp
<1>4. CASE sp.id = NoId
  <2>1. IdsOf(tk, p, fused, sp) \in {Tokenize(tk, encode_bytes(split_text(p, sp))), Tokenize(tk, split_text(p, sp))}
    BY <1>4, Zenon DEF IdsOf
  <2> QED
    BY <1>1, <1>2, <2>1, TokenizeType DEF sp
<1> QED
  BY <1>3, <1>4

\* The ids of all splits, or none.
LEMMA SplitIdsType ==
  ASSUME NEW tk, IsTokenizer(tk), NEW p \in Tiled, NEW fused \in BOOLEAN, TokenizeSplits(tk, p, fused) # NoIds
  PROVE  TokenizeSplits(tk, p, fused) \in Seq(Nat)
<1> DEFINE n == Len(p.splits)
           all == [i \in DOMAIN p.splits |-> IdsOf(tk, p, fused, p.splits[i])]
<1>1. n \in Nat /\ DOMAIN p.splits = 1..n
  <2>1. p.splits \in Seq(TextSplits)
    BY DEF Tiled
  <2> QED
    BY <2>1
<1>2. TokenizeSplits(tk, p, fused) = UnlessNone(all)
  BY Zenon DEF TokenizeSplits, IdsOf
<1>3. DOMAIN all = 1..n /\ \A i \in 1..n : all[i] \in Seq(Nat) \cup {NoIds}
  BY <1>1, IdsOfType
<1>4. all = [i \in DOMAIN all |-> all[i]]
  OBVIOUS
<1> HIDE DEF all
<1>5. \A i \in DOMAIN all : all[i] # NoIds
  BY <1>2 DEF UnlessNone
<1>6. all \in [1..n -> Seq(Nat)]
  BY <1>3, <1>4, <1>5
<1>7. all \in Seq(Seq(Nat))
  BY <1>1, <1>6, Tabled
<1>8. FlattenSeq(all) \in Seq(Nat)
  BY <1>7, FlattenType
<1>9. UnlessNone(all) = FlattenSeq(all)
  BY <1>5 DEF UnlessNone
<1> QED
  BY <1>2, <1>8, <1>9

\* A template puts ids around ids.
LEMMA TemplateType ==
  ASSUME NEW template \in Seq(Seq(Nat) \cup {SequenceA}), NEW encoded \in Seq(Nat)
  PROVE  apply_single(template, encoded) \in Seq(Nat)
<1> DEFINE n == Len(template)
           all == [i \in 1..n |-> IF template[i] = SequenceA THEN encoded ELSE template[i]]
<1>1. n \in Nat /\ \A i \in 1..n : template[i] \in Seq(Nat) \cup {SequenceA}
  OBVIOUS
<1>2. all \in [1..n -> Seq(Nat)]
  BY <1>1
<1>3. apply_single(template, encoded) = FlattenSeq(all)
  BY Zenon DEF apply_single
<1> HIDE DEF all
<1>4. all \in Seq(Seq(Nat))
  BY <1>1, <1>2, Tabled
<1> QED
  BY <1>3, <1>4, FlattenType

\* So does a post-processor.
LEMMA PostProcessType ==
  ASSUME NEW tk, IsTokenizer(tk), NEW encoded \in Seq(Nat), NEW add_special
  PROVE  post_process(tk, encoded, add_special) \in Seq(Nat)
<1>1. Len(tk.post) \in Nat /\ DOMAIN tk.post = 1..Len(tk.post)
      /\ \A i \in 1..Len(tk.post) : tk.post[i] \in Seq(Seq(Nat) \cup {SequenceA})
  <2>1. tk.post \in Seq(Seq(Seq(Nat) \cup {SequenceA}))
    BY DEF IsTokenizer
  <2> QED
    BY <2>1
<1>2. \A i \in 1..Len(tk.post), x \in Seq(Nat) : apply_single(tk.post[i], x) \in Seq(Nat)
  BY <1>1, TemplateType
<1>3. (LET Apply(acc, t) == apply_single(t, acc) IN FoldLeft(Apply, encoded, tk.post)) \in Seq(Nat)
  BY <1>1, <1>2, PostFold
<1> QED
  BY <1>3, Zenon DEF post_process

\* The ids so far are ids.
IdsOK == ids \in Seq(Nat)

\* No step leaves the ids.
LEMMA IdsStep ==
  ASSUME CallsOK, SplitsOK, IdsOK, [EncNext]_<<vars, encVars>>
  PROVE  IdsOK'
<1>1. ASSUME ModelTokenize
      PROVE  IdsOK'
  <2> DEFINE fused == detect_fused_byte_level(This.pre)
             new == TokenizeSplits(This, pts, fused)
  <2>1. pc = "tokenize" /\ (IF new = NoIds THEN pc' = "failed" /\ ids' = <<>> ELSE pc' = "split" /\ ids' = ids \o new)
    BY <1>1, Zenon DEF ModelTokenize
  <2>2. IsTokenizer(This) /\ pts \in Tiled
    <3>1. job \in Jobs
      BY <2>1 DEF CallsOK
    <3> QED
      BY <2>1, <3>1, JobsAre DEF This, SplitsOK
  <2>3. fused \in BOOLEAN
    BY DEF detect_fused_byte_level
  <2> HIDE DEF fused
  <2>4. new # NoIds => new \in Seq(Nat)
    BY <2>2, <2>3, SplitIdsType
  <2> HIDE DEF new
  <2>5. <<>> \in Seq(Nat) /\ (new \in Seq(Nat) => ids \o new \in Seq(Nat))
    BY DEF IdsOK
  <2> QED
    BY <2>1, <2>4, <2>5 DEF IdsOK
<1>2. ASSUME PostProcess
      PROVE  IdsOK'
  <2>1. pc = "split" /\ ids' = post_process(This, ids, job.add_special)
    BY <1>2 DEF PostProcess
  <2>2. IsTokenizer(This)
    <3>1. job \in Jobs
      BY <2>1 DEF CallsOK
    <3> QED
      BY <3>1, JobsAre DEF This
  <2> QED
    BY <2>1, <2>2, PostProcessType DEF IdsOK
<1>3. ASSUME BeginIds
      PROVE  IdsOK'
  BY <1>3, PipelineAssumption DEF BeginIds, IdsOK
<1>4. ASSUME Return \/ Release
      PROVE  IdsOK'
  <2>1. ids' = <<>>
    BY <1>4 DEF Return, Release
  <2> QED
    BY <2>1 DEF IdsOK
<1>5. ASSUME Begin \/ SplitAdded \/ PreTokenize \/ NewStream \/ StepHolds \/ StepReturns \/ StepFails \/ Wrap \/ New
             \/ UNCHANGED vars
      PROVE  IdsOK'
  BY <1>5 DEF Begin, SplitAdded, PreTokenize, NewStream, StepHolds, StepReturns, StepFails, Wrap, New, vars, IdsOK
<1> QED
  BY <1>1, <1>2, <1>3, <1>4, <1>5, StepsAre

\* At every time the ids are ids, and what they are made of is in order.
Ordering == CallsOK /\ SplitsOK /\ IdsOK

\* So it is in every state of a behaviour.
LEMMA InOrderAlways ==
  ASSUME OneIdEach
  PROVE  EncSpec => []Ordering
<1>1. EncInit => Ordering
  <2>1. EncInit => SplitsOK /\ IdsOK
    BY DEF EncInit, Init, SplitsOK, IdsOK
  <2> QED
    BY <2>1, CallsInit DEF Ordering
<1>2. Ordering /\ [EncNext]_<<vars, encVars>> => Ordering'
  BY CallsStep, SplitsStep, IdsStep DEF Ordering
<1> QED
  BY <1>1, <1>2, PTL DEF EncSpec

(***************************************************************************)
(* Encodings.                                                              *)
(***************************************************************************)

\* What a vector says of an id.
Values == Nat \cup {NoneId}

\* An Encoding: its vectors may be of any length.
IsEncoding(e) ==
  /\ DOMAIN e = Vectors \cup {"ids", "n_sequences"}
  /\ e.ids \in Seq(Nat) /\ e.n_sequences \in Nat
  /\ \A field \in Vectors : e[field] = Unset \/ e[field] \in Seq(Values)

\* Any number of one value.
LEMMA TimesIs ==
  ASSUME NEW T, NEW v \in T, NEW n \in Nat
  PROVE  Times(v, n) \in Seq(T) /\ Len(Times(v, n)) = n /\ \A i \in 1..n : Times(v, n)[i] = v
<1>1. Times(v, n) \in [1..n -> T]
  BY DEF Times
<1>2. Times(v, n) \in Seq(T) /\ Len(Times(v, n)) = n
  BY <1>1, Tabled
<1> QED
  BY <1>2 DEF Times

\* What is not said is said with values too.
LEMMA DefaultIs ==
  ASSUME NEW field \in Vectors
  PROVE  Default[field] \in Values
BY DEF Default, Vectors, NoneId, Values

\* A vector of values is materialized.
LEMMA ValuesSaid ==
  ASSUME NEW v \in Seq(Values)
  PROVE  v # Unset
<1> SUFFICES ASSUME v = Unset PROVE FALSE
  OBVIOUS
<1>1. Len(v) = 1 /\ v[1] = -1
  BY DEF Unset
<1>2. v[1] \in Values
  BY <1>1
<1> QED
  BY <1>1, <1>2 DEF Values, NoneId

\* What a vector says, materialized or not.
LEMMA MaterializedIs ==
  ASSUME NEW e, IsEncoding(e), NEW field \in Vectors
  PROVE  /\ materialized(e, field) \in Seq(Values)
         /\ e[field] = Unset => Beside(e, field) /\ materialized(e, field) = Times(Default[field], Len(e.ids))
         /\ e[field] # Unset => e[field] \in Seq(Values) /\ materialized(e, field) = e[field]
<1>1. Len(e.ids) \in Nat /\ (e[field] = Unset \/ e[field] \in Seq(Values))
  BY DEF IsEncoding
<1>2. CASE e[field] = Unset
  <2>1. materialized(e, field) = Times(Default[field], Len(e.ids))
    BY <1>2 DEF materialized
  <2>2. Times(Default[field], Len(e.ids)) \in Seq(Values) /\ Len(Times(Default[field], Len(e.ids))) = Len(e.ids)
    BY <1>1, DefaultIs, TimesIs
  <2> QED
    BY <1>2, <2>1, <2>2 DEF Beside
<1>3. CASE e[field] # Unset
  BY <1>1, <1>3 DEF materialized
<1> QED
  BY <1>2, <1>3

\* A vector that is set says what it is set to.
LEMMA SaidIs ==
  ASSUME NEW e, NEW field \in Vectors, NEW v \in Seq(Values), e[field] = v
  PROVE  materialized(e, field) = v
BY ValuesSaid DEF materialized

(* What is done to an Encoding. *)

\* A new Encoding has the ids it is made of and says nothing of them.
LEMMA MakeOK ==
  ASSUME NEW list \in Seq(Nat)
  PROVE  /\ IsEncoding(make(list)) /\ make(list).ids = list /\ make(list).n_sequences = 1
         /\ \A field \in Vectors : make(list)[field] = Unset
BY DEF make, IsEncoding, Vectors

\* A slice of a row of one value.
LEMMA SliceTimes ==
  ASSUME NEW v \in Values, NEW n \in Nat, NEW from \in 1..n + 1, NEW to \in 0..n, from <= to + 1
  PROVE  SubSeq(Times(v, n), from, to) = Times(v, to - from + 1)
<1> DEFINE k == to - from + 1
           x == Times(v, n)
           y == Times(v, k)
           z == SubSeq(x, from, to)
<1>1. k \in Nat
  OBVIOUS
<1> HIDE DEF k
<1>2. /\ x \in Seq(Values) /\ Len(x) = n /\ \A i \in 1..n : x[i] = v
      /\ y \in Seq(Values) /\ Len(y) = k /\ \A i \in 1..k : y[i] = v
  BY <1>1, TimesIs
<1> HIDE DEF x, y
<1>3. z \in Seq(Values) /\ Len(z) = k /\ \A i \in 1..k : z[i] = x[from + i - 1]
  BY <1>2 DEF k
<1>4. \A i \in 1..k : from + i - 1 \in 1..n
  BY DEF k
<1>5. \A i \in 1..k : z[i] = y[i]
  BY <1>2, <1>3, <1>4
<1> HIDE DEF z
<1> QED
  BY <1>2, <1>3, <1>5, SameSeq DEF x, y, z, k

\* Slicing cuts the vectors it reaches where it cuts the ids, and a vector that is
\* beside the ids is reached unless another one ends before the ids do.
LEMMA SliceOK ==
  ASSUME NEW e, IsEncoding(e), NEW from \in 1..Len(e.ids) + 1, NEW to \in 0..Len(e.ids), from <= to + 1,
         NEW new, new = apply_slice(e, from, to)
  PROVE  /\ IsEncoding(new) /\ new.ids = SubSeq(e.ids, from, to) /\ new.n_sequences = e.n_sequences
         /\ \A field \in Vectors : Beside(e, field) =>
               \/ materialized(new, field) = SubSeq(materialized(e, field), from, to)
               \/ \E g \in Vectors \ {field} : Len(materialized(e, g)) < Len(e.ids)
<1>1. DOMAIN e = Vectors \cup {"ids", "n_sequences"} /\ e.ids \in Seq(Nat) /\ Len(e.ids) \in Nat /\ e.n_sequences \in Nat
  BY DEF IsEncoding
<1>2. /\ DOMAIN new = DOMAIN e /\ new.ids = SubSeq(e.ids, from, to) /\ new.n_sequences = e.n_sequences
      /\ \A field \in Vectors :
           new[field] = IF e[field] # Unset /\ Reached(e, field, to) THEN SubSeq(e[field], from, to) ELSE e[field]
  BY <1>1 DEF apply_slice, Vectors
<1>3. new.ids \in Seq(Nat) /\ Len(new.ids) = to - from + 1
  BY <1>1, <1>2
<1>4. ASSUME NEW field \in Vectors, e[field] # Unset, Reached(e, field, to)
      PROVE  e[field] \in Seq(Values) /\ to <= Len(e[field]) /\ SubSeq(e[field], from, to) \in Seq(Values)
  <2>1. e[field] \in Seq(Values) /\ Place[field] \in Nat
    BY <1>4 DEF IsEncoding, Place, Vectors
  <2>2. Len(e[field]) \in Nat /\ ~ Place[field] > Place[field]
    BY <2>1
  <2>3. ~ Len(e[field]) < to
    BY <1>4, <2>2 DEF Reached
  <2> QED
    BY <2>1, <2>2, <2>3
<1>5. IsEncoding(new)
  BY <1>1, <1>2, <1>3, <1>4 DEF IsEncoding
<1>6. ASSUME NEW field \in Vectors, Beside(e, field),
             \A g \in Vectors \ {field} : ~ Len(materialized(e, g)) < Len(e.ids)
      PROVE  materialized(new, field) = SubSeq(materialized(e, field), from, to)
  <2>1. CASE e[field] = Unset
    <3>1. new[field] = Unset /\ materialized(e, field) = Times(Default[field], Len(e.ids))
      BY <1>2, <2>1, MaterializedIs
    <3>2. materialized(new, field) = Times(Default[field], to - from + 1)
      BY <1>3, <3>1 DEF materialized
    <3> QED
      BY <1>1, <3>1, <3>2, DefaultIs, SliceTimes
  <2>2. CASE e[field] # Unset
    <3>1. ASSUME NEW g \in Vectors, e[g] # Unset, Len(e[g]) < to
          PROVE  FALSE
      <4>1. Len(materialized(e, g)) = Len(e[g]) /\ Len(e[g]) \in Nat
        BY <3>1, MaterializedIs
      <4>2. Len(materialized(e, g)) < Len(e.ids)
        BY <1>1, <3>1, <4>1
      <4> QED
        BY <1>1, <1>6, <4>2 DEF Beside
    <3>2. Reached(e, field, to)
      BY <3>1 DEF Reached
    <3>3. new[field] = SubSeq(e[field], from, to) /\ SubSeq(e[field], from, to) \in Seq(Values)
      BY <1>2, <1>4, <2>2, <3>2
    <3>4. materialized(new, field) = SubSeq(e[field], from, to) /\ materialized(e, field) = e[field]
      BY <2>2, <3>3, SaidIs, MaterializedIs
    <3> QED
      BY <3>4
  <2> QED
    BY <2>1, <2>2
<1> QED
  BY <1>2, <1>5, <1>6

\* A vector that is padded to a longer one keeps what it says.
LEMMA ResizeIs ==
  ASSUME NEW v \in Seq(Values), NEW n \in Nat, NEW x \in Values
  PROVE  /\ resize(v, n, x) \in Seq(Values) /\ Len(resize(v, n, x)) = n
         /\ \A count \in Nat : n = Len(v) + count => resize(v, n, x) = v \o Times(x, count)
<1> DEFINE r == resize(v, n, x)
<1>1. r \in [1..n -> Values]
  <2>1. Len(v) \in Nat /\ \A i \in 1..Len(v) : v[i] \in Values
    OBVIOUS
  <2> QED
    BY <2>1 DEF resize
<1>2. r \in Seq(Values) /\ Len(r) = n
  BY <1>1, Tabled
<1>3. ASSUME NEW count \in Nat, n = Len(v) + count
      PROVE  r = v \o Times(x, count)
  <2> DEFINE t == Times(x, count)
  <2>1. t \in Seq(Values) /\ Len(t) = count /\ \A i \in 1..count : t[i] = x
    BY TimesIs
  <2> HIDE DEF t
  <2>2. Len(v) \in Nat /\ v \o t \in Seq(Values) /\ Len(v \o t) = n
    BY <1>3, <2>1
  <2>3. \A i \in 1..n : (v \o t)[i] = IF i <= Len(v) THEN v[i] ELSE t[i - Len(v)]
    BY <1>3, <2>1, <2>2, ConcatProperties
  <2>4. \A i \in 1..n : r[i] = (v \o t)[i]
    BY <1>3, <2>1, <2>2, <2>3 DEF resize
  <2> HIDE DEF r
  <2> QED
    BY <1>2, <2>2, <2>4, SameSeq DEF t
<1> QED
  BY <1>2, <1>3

\* What padding puts beside its ids.
Pads(e, field, pad_type) == IF field \in Grown(e) THEN PadValue(pad_type)[field] ELSE Default[field]

\* Values are padded with values.
LEMMA PadsAre ==
  ASSUME NEW e, NEW field \in Vectors, NEW pad_type \in Nat
  PROVE  Pads(e, field, pad_type) \in Values /\ PadValue(pad_type)[field] \in Values
BY DEF Pads, PadValue, Vectors, Values, NoneId, Default

\* Two rows of one value, one after the other.
LEMMA JoinTimes ==
  ASSUME NEW v \in Values, NEW m \in Nat, NEW n \in Nat
  PROVE  Times(v, m) \o Times(v, n) = Times(v, m + n)
<1> DEFINE x == Times(v, m)
           y == Times(v, n)
           z == Times(v, m + n)
<1>1. /\ x \in Seq(Values) /\ Len(x) = m /\ \A i \in 1..m : x[i] = v
      /\ y \in Seq(Values) /\ Len(y) = n /\ \A i \in 1..n : y[i] = v
      /\ z \in Seq(Values) /\ Len(z) = m + n /\ \A i \in 1..m + n : z[i] = v
  <2>1. m + n \in Nat
    OBVIOUS
  <2> QED
    BY <2>1, TimesIs
<1> HIDE DEF x, y, z
<1>2. /\ x \o y \in Seq(Values) /\ Len(x \o y) = m + n
      /\ \A i \in 1..m + n : (x \o y)[i] = IF i <= m THEN x[i] ELSE y[i - m]
  BY <1>1, ConcatProperties
<1>3. \A i \in 1..m + n : (x \o y)[i] = z[i]
  BY <1>1, <1>2
<1> QED
  BY <1>1, <1>2, <1>3, SameSeq DEF x, y, z

\* An Encoding is padded to another one, on the right or on the left.
PutRight(e, pad_type, count, right) ==
  /\ IsEncoding(right) /\ right.ids = e.ids \o Times(PadId, count) /\ right.n_sequences = e.n_sequences
  /\ \A field \in Vectors : Beside(e, field) =>
        materialized(right, field) = materialized(e, field) \o Times(Pads(e, field, pad_type), count)
PutLeft(e, pad_type, count, left) ==
  /\ IsEncoding(left) /\ left.ids = Times(PadId, count) \o e.ids /\ left.n_sequences = e.n_sequences
  /\ \A field \in Vectors : Beside(e, field) =>
        materialized(left, field) = Times(Pads(e, field, pad_type), count) \o materialized(e, field)

\* Padding puts as many values into a vector that is beside the ids as it puts ids.
LEMMA ExtendOK ==
  ASSUME NEW e, IsEncoding(e), NEW pad_type \in Nat, NEW count \in Nat
  PROVE  /\ PutRight(e, pad_type, count, extend_right(e, pad_type, count))
         /\ PutLeft(e, pad_type, count, extend_left(e, pad_type, count))
<1> SUFFICES ASSUME NEW right, right = extend_right(e, pad_type, count), NEW left, left = extend_left(e, pad_type, count)
             PROVE  PutRight(e, pad_type, count, right) /\ PutLeft(e, pad_type, count, left)
  OBVIOUS
<1> DEFINE new(field) == Times(PadValue(pad_type)[field], count)
           pads == Times(PadId, count)
           long(field) == resize(materialized(e, field), Len(e.ids) + count, PadValue(pad_type)[field])
<1>1. DOMAIN e = Vectors \cup {"ids", "n_sequences"} /\ e.ids \in Seq(Nat) /\ Len(e.ids) \in Nat /\ e.n_sequences \in Nat
  BY DEF IsEncoding
<1>2. pads \in Seq(Nat) /\ Len(pads) = count
  BY TimesIs DEF PadId
<1>3. /\ DOMAIN right = DOMAIN e /\ right.ids = e.ids \o pads /\ right.n_sequences = e.n_sequences
      /\ DOMAIN left = DOMAIN e /\ left.ids = pads \o e.ids /\ left.n_sequences = e.n_sequences
      /\ \A field \in Vectors :
            /\ field \in Grown(e) => right[field] = long(field) /\ left[field] = new(field) \o materialized(e, field)
            /\ field \notin Grown(e) => right[field] = e[field] /\ left[field] = e[field] /\ e[field] = Unset
  <2>1. \A field \in Vectors : field \notin Grown(e) => e[field] = Unset
    BY DEF Grown
  <2> HIDE DEF long
  <2>2. "n_sequences" \notin Grown(e) /\ "ids" \notin Vectors /\ "n_sequences" \notin Vectors
    BY DEF Grown, Vectors
  <2> QED
    BY <1>1, <2>1, <2>2 DEF extend_right, extend_left, long
<1> HIDE DEF new, pads, long
<1>4. /\ right.ids \in Seq(Nat) /\ Len(right.ids) = Len(e.ids) + count
      /\ left.ids \in Seq(Nat) /\ Len(left.ids) = count + Len(e.ids)
  <2>1. /\ e.ids \o pads \in Seq(Nat) /\ Len(e.ids \o pads) = Len(e.ids) + count
        /\ pads \o e.ids \in Seq(Nat) /\ Len(pads \o e.ids) = count + Len(e.ids)
    BY <1>1, <1>2, ConcatProperties
  <2> QED
    BY <1>3, <2>1
<1>5. ASSUME NEW field \in Vectors
      PROVE  /\ materialized(e, field) \in Seq(Values) /\ new(field) \in Seq(Values)
             /\ long(field) \in Seq(Values) /\ new(field) \o materialized(e, field) \in Seq(Values)
             /\ Beside(e, field) => long(field) = materialized(e, field) \o new(field)
  <2> DEFINE v == materialized(e, field)
             x == PadValue(pad_type)[field]
  <2>1. v \in Seq(Values) /\ x \in Values
    BY MaterializedIs, PadsAre
  <2>2. Beside(e, field) => Len(v) = Len(e.ids)
    BY DEF Beside
  <2>3. long(field) = resize(v, Len(e.ids) + count, x) /\ new(field) = Times(x, count)
    BY DEF long, new
  <2> HIDE DEF v, x
  <2>4. Times(x, count) \in Seq(Values)
    BY <2>1, TimesIs
  <2>5. Len(e.ids) + count \in Nat
    BY <1>1
  <2>6. /\ resize(v, Len(e.ids) + count, x) \in Seq(Values)
        /\ Len(v) = Len(e.ids) => resize(v, Len(e.ids) + count, x) = v \o Times(x, count)
    BY <2>1, <2>5, ResizeIs
  <2>7. Times(x, count) \o v \in Seq(Values)
    BY <2>1, <2>4
  <2> QED
    BY <2>1, <2>2, <2>3, <2>4, <2>6, <2>7 DEF v
<1>6. IsEncoding(right) /\ IsEncoding(left)
  BY <1>1, <1>3, <1>4, <1>5 DEF IsEncoding
<1>7. ASSUME NEW field \in Vectors, Beside(e, field)
      PROVE  /\ materialized(right, field) = materialized(e, field) \o Times(Pads(e, field, pad_type), count)
             /\ materialized(left, field) = Times(Pads(e, field, pad_type), count) \o materialized(e, field)
  <2>1. CASE field \in Grown(e)
    <3>1. right[field] = long(field) /\ left[field] = new(field) \o materialized(e, field)
      BY <1>3, <2>1
    <3>2. materialized(right, field) = long(field) /\ materialized(left, field) = new(field) \o materialized(e, field)
      BY <1>5, <3>1, SaidIs
    <3>3. new(field) = Times(Pads(e, field, pad_type), count)
      BY <2>1 DEF new, Pads
    <3> QED
      BY <1>5, <1>7, <3>2, <3>3
  <2>2. CASE field \notin Grown(e)
    <3> DEFINE d == Default[field]
               n == Len(e.ids)
    <3>1. /\ right[field] = Unset /\ left[field] = Unset /\ e[field] = Unset
          /\ materialized(right, field) = Times(d, Len(right.ids)) /\ materialized(left, field) = Times(d, Len(left.ids))
          /\ materialized(e, field) = Times(d, n)
      BY <1>3, <2>2 DEF materialized
    <3>2. Pads(e, field, pad_type) = d /\ d \in Values
      BY <2>2, DefaultIs DEF Pads
    <3> HIDE DEF d
    <3>3. Times(d, n) \o Times(d, count) = Times(d, n + count) /\ Times(d, count) \o Times(d, n) = Times(d, count + n)
      BY <1>1, <3>2, JoinTimes
    <3> QED
      BY <1>4, <3>1, <3>2, <3>3
  <2> QED
    BY <2>1, <2>2
<1> QED
  BY <1>3, <1>6, <1>7 DEF pads, PutRight, PutLeft

\* Merging puts each vector after that of the other.
LEMMA MergeOK ==
  ASSUME NEW e, IsEncoding(e), NEW f, IsEncoding(f), NEW new, new = merge(e, f)
  PROVE  /\ IsEncoding(new) /\ new.ids = e.ids \o f.ids /\ new.n_sequences = e.n_sequences + f.n_sequences
         /\ \A field \in Vectors : materialized(new, field) = materialized(e, field) \o materialized(f, field)
<1>1. /\ DOMAIN e = Vectors \cup {"ids", "n_sequences"} /\ e.ids \in Seq(Nat) /\ f.ids \in Seq(Nat)
      /\ e.n_sequences \in Nat /\ f.n_sequences \in Nat
  BY DEF IsEncoding
<1>2. /\ DOMAIN new = DOMAIN e /\ new.ids = e.ids \o f.ids /\ new.n_sequences = e.n_sequences + f.n_sequences
      /\ \A field \in Vectors : new[field] = materialized(e, field) \o materialized(f, field)
  BY <1>1 DEF merge, Vectors
<1>3. ASSUME NEW field \in Vectors
      PROVE  new[field] \in Seq(Values) /\ materialized(new, field) = materialized(e, field) \o materialized(f, field)
  <2>1. materialized(e, field) \in Seq(Values) /\ materialized(f, field) \in Seq(Values)
    BY MaterializedIs
  <2>2. materialized(e, field) \o materialized(f, field) \in Seq(Values)
    BY <2>1, ConcatProperties
  <2>3. new[field] = materialized(e, field) \o materialized(f, field)
    BY <1>2
  <2> QED
    BY <2>2, <2>3, SaidIs
<1>4. new.ids \in Seq(Nat) /\ new.n_sequences \in Nat
  BY <1>1, <1>2
<1> QED
  BY <1>1, <1>2, <1>3, <1>4 DEF IsEncoding

\* A caller that sets a vector, or the ids, changes one column.
Sets(c, e, new) ==
  \A d \in (Vectors \cup {"ids"}) \ {c} :
     IF d = "ids" THEN new.ids = e.ids ELSE materialized(new, d) = materialized(e, d)

\* A vector is set.
SetTo(e, field, vector, new) == new = [e EXCEPT ![field] = vector]

\* A caller that sets a vector changes no other one.
LEMMA SetOK ==
  ASSUME NEW e, IsEncoding(e), NEW field \in Vectors, NEW vector, vector = Unset \/ vector \in Seq(Values),
         NEW new, SetTo(e, field, vector, new)
  PROVE  /\ IsEncoding(new) /\ new.ids = e.ids /\ new.n_sequences = e.n_sequences
         /\ Sets(field, e, new)
<1>1. DOMAIN e = Vectors \cup {"ids", "n_sequences"}
  BY DEF IsEncoding
<1>2. /\ DOMAIN new = DOMAIN e /\ new.ids = e.ids /\ new.n_sequences = e.n_sequences /\ new[field] = vector
      /\ \A g \in Vectors \ {field} : new[g] = e[g]
  BY <1>1 DEF Vectors, SetTo
<1> QED
  BY <1>2 DEF IsEncoding, materialized, Sets

(* An Encoding as a table (TokenRows). *)

\* What a row may say.
RowSet == [Vectors \cup {"ids"} -> Int]

\* The table of an Encoding whose vectors are all beside its ids.
LEMMA RowsAre ==
  ASSUME NEW e, IsEncoding(e), AllBeside(e)
  PROVE  /\ Rows(e) \in Seq(RowSet) /\ Len(Rows(e)) = Len(e.ids) /\ Len(e.ids) \in Nat
         /\ \A i \in 1..Len(e.ids) : Rows(e)[i] = Row(e, i)
<1> DEFINE n == Len(e.ids)
<1>1. n \in Nat /\ e.ids \in Seq(Nat)
  BY DEF IsEncoding
<1>2. Rows(e) = [i \in 1..n |-> Row(e, i)]
  BY DEF Rows
<1>3. ASSUME NEW i \in 1..n
      PROVE  Row(e, i) \in RowSet
  <2>1. e.ids[i] \in Int
    BY <1>1
  <2>2. ASSUME NEW field \in Vectors
        PROVE  materialized(e, field)[i] \in Int
    <3>1. materialized(e, field) \in Seq(Values) /\ Len(materialized(e, field)) = n
      BY MaterializedIs DEF AllBeside, Beside
    <3>2. materialized(e, field)[i] \in Values
      BY <1>3, <3>1
    <3> QED
      BY <3>2 DEF Values, NoneId
  <2> QED
    BY <2>1, <2>2 DEF Row, RowSet, Vectors
<1> HIDE DEF n
<1>4. [i \in 1..n |-> Row(e, i)] \in [1..n -> RowSet]
  BY <1>3
<1>5. Rows(e) \in Seq(RowSet) /\ Len(Rows(e)) = n
  BY <1>1, <1>2, <1>4, Tabled
<1> QED
  BY <1>1, <1>2, <1>5 DEF n

\* Rows that say the same are one row.
LEMMA RowSame ==
  ASSUME NEW e, NEW f, NEW i, NEW j, e.ids[i] = f.ids[j],
         \A field \in Vectors : materialized(e, field)[i] = materialized(f, field)[j]
  PROVE  Row(e, i) = Row(f, j)
BY DEF Row, Vectors

\* A table that begins a longer one.
LEMMA FirstIs ==
  ASSUME NEW T, NEW s \in Seq(T), NEW t \in Seq(T), Len(s) <= Len(t), \A i \in 1..Len(s) : s[i] = t[i]
  PROVE  Table!IsFirst(s, t)
<1> DEFINE u == SubSeq(t, 1, Len(s))
<1>1. u \in Seq(T) /\ Len(u) = Len(s) /\ \A i \in 1..Len(s) : u[i] = t[i]
  OBVIOUS
<1> HIDE DEF u
<1>2. s = u
  BY <1>1, SameSeq
<1> QED
  BY <1>2 DEF Table!IsFirst, u

\* A table that ends a longer one.
LEMMA LastIs ==
  ASSUME NEW T, NEW s \in Seq(T), NEW t \in Seq(T), Len(s) <= Len(t),
         \A i \in 1..Len(s) : s[i] = t[Len(t) - Len(s) + i]
  PROVE  Table!IsLast(s, t)
<1> DEFINE k == Len(t) - Len(s)
           u == SubSeq(t, k + 1, Len(t))
<1>1. k \in Nat /\ Len(s) \in Nat /\ Len(t) = k + Len(s)
  OBVIOUS
<1> HIDE DEF k
<1>2. u \in Seq(T) /\ Len(u) = Len(s) /\ \A i \in 1..Len(s) : u[i] = t[k + i]
  BY <1>1
<1> HIDE DEF u
<1>3. s = u
  BY <1>2, SameSeq DEF k
<1> QED
  BY <1>3 DEF Table!IsLast, u, k

\* A slice at an end of the ids cuts rows off at the other end.
LEMMA SliceRows ==
  ASSUME NEW e, IsEncoding(e), AllBeside(e), NEW from \in 1..Len(e.ids) + 1, NEW to \in 0..Len(e.ids), from <= to + 1,
         NEW new, new = apply_slice(e, from, to)
  PROVE  /\ AllBeside(new)
         /\ from = 1 => Table!IsFirst(Rows(new), Rows(e))
         /\ to = Len(e.ids) => Table!IsLast(Rows(new), Rows(e))
<1> DEFINE n == Len(e.ids)
           k == to - from + 1
           old == Rows(e)
           cut == Rows(new)
<1>1. n \in Nat /\ k \in Nat /\ e.ids \in Seq(Nat)
  BY DEF IsEncoding
<1>2. \A field \in Vectors : Beside(e, field) /\ Len(materialized(e, field)) = n
  BY DEF AllBeside, Beside
<1>3. IsEncoding(new) /\ new.ids = SubSeq(e.ids, from, to)
  BY SliceOK
<1>4. ASSUME NEW field \in Vectors
      PROVE  materialized(new, field) = SubSeq(materialized(e, field), from, to)
  <2>1. \A g \in Vectors : ~ Len(materialized(e, g)) < Len(e.ids)
    BY <1>1, <1>2
  <2> QED
    BY <1>2, <2>1, SliceOK
<1>5. Len(new.ids) = k /\ \A i \in 1..k : new.ids[i] = e.ids[from + i - 1]
  BY <1>1, <1>3
<1>6. ASSUME NEW field \in Vectors
      PROVE  /\ Len(materialized(new, field)) = k
             /\ \A i \in 1..k : materialized(new, field)[i] = materialized(e, field)[from + i - 1]
  <2> DEFINE v == materialized(e, field)
  <2>1. v \in Seq(Values) /\ Len(v) = n
    BY <1>2, MaterializedIs
  <2>2. materialized(new, field) = SubSeq(v, from, to)
    BY <1>4
  <2> HIDE DEF v
  <2> QED
    BY <1>1, <2>1, <2>2 DEF v
<1>7. AllBeside(new)
  BY <1>5, <1>6 DEF AllBeside, Beside
<1>8. \A i \in 1..k : Row(new, i) = Row(e, from + i - 1)
  BY <1>5, <1>6, RowSame
<1>9. /\ old \in Seq(RowSet) /\ Len(old) = n /\ \A i \in 1..n : old[i] = Row(e, i)
      /\ cut \in Seq(RowSet) /\ Len(cut) = k /\ \A i \in 1..k : cut[i] = Row(new, i)
  BY <1>3, <1>5, <1>7, RowsAre
<1> HIDE DEF old, cut
<1>10. k <= n /\ \A i \in 1..k : from + i - 1 \in 1..n /\ cut[i] = old[from + i - 1]
  <2>1. k <= n /\ \A i \in 1..k : from + i - 1 \in 1..n
    BY <1>1
  <2> HIDE DEF k
  <2> QED
    BY <1>8, <1>9, <2>1
<1>11. ASSUME from = 1
       PROVE  Table!IsFirst(cut, old)
  <2>1. \A i \in 1..k : cut[i] = old[i]
    BY <1>10, <1>11
  <2> QED
    BY <1>9, <1>10, <2>1, FirstIs
<1>12. ASSUME to = n
       PROVE  Table!IsLast(cut, old)
  <2>1. \A i \in 1..k : from + i - 1 = n - k + i
    BY <1>1, <1>12
  <2>2. \A i \in 1..k : cut[i] = old[n - k + i]
    BY <1>10, <2>1
  <2> QED
    BY <1>9, <1>10, <2>2, LastIs
<1> QED
  BY <1>7, <1>11, <1>12 DEF old, cut

\* Truncating cuts rows off; a vector is torn only because another one ends too soon.
LEMMA TruncateOK ==
  ASSUME NEW e, IsEncoding(e), NEW max \in Nat, NEW direction, NEW new, new = truncate(e, max, direction)
  PROVE  /\ IsEncoding(new) /\ new.n_sequences = e.n_sequences
         /\ AllBeside(e) => AllBeside(new) /\ (Table!IsFirst(Rows(new), Rows(e)) \/ Table!IsLast(Rows(new), Rows(e)))
         /\ \A field \in Vectors : Beside(e, field) =>
               Beside(new, field) \/ \E g \in Vectors \ {field} : Len(materialized(e, g)) < Len(e.ids)
<1> DEFINE n == Len(e.ids)
<1>1. n \in Nat
  BY DEF IsEncoding
<1>2. CASE n <= max
  <2>1. new = e
    BY <1>2 DEF truncate
  <2>2. AllBeside(e) => Table!IsFirst(Rows(e), Rows(e))
    <3>1. ASSUME AllBeside(e)
          PROVE  Rows(e) \in Seq(RowSet)
      BY <3>1, RowsAre
    <3>2. AllBeside(e) => Len(Rows(e)) <= Len(Rows(e))
      BY <3>1
    <3> QED
      BY <3>1, <3>2, FirstIs
  <2> QED
    BY <2>1, <2>2
<1>3. CASE n > max
  <2>1. PICK from \in 1..n + 1, to \in 0..n :
           new = apply_slice(e, from, to) /\ from <= to + 1 /\ (from = 1 \/ to = n)
    <3>1. new \in {apply_slice(e, n - max + 1, n), apply_slice(e, 1, max)}
      BY <1>1, <1>3 DEF truncate
    <3>2. n - max + 1 \in 1..n + 1 /\ n \in 0..n /\ n - max + 1 <= n + 1 /\ 1 \in 1..n + 1 /\ max \in 0..n /\ 1 <= max + 1
      BY <1>1, <1>3
    <3> QED
      BY <3>1, <3>2
  <2>2. /\ IsEncoding(new) /\ new.ids = SubSeq(e.ids, from, to) /\ new.n_sequences = e.n_sequences
        /\ \A field \in Vectors : Beside(e, field) =>
              \/ materialized(new, field) = SubSeq(materialized(e, field), from, to)
              \/ \E g \in Vectors \ {field} : Len(materialized(e, g)) < Len(e.ids)
    BY <2>1, SliceOK
  <2>3. AllBeside(e) => AllBeside(new) /\ (Table!IsFirst(Rows(new), Rows(e)) \/ Table!IsLast(Rows(new), Rows(e)))
    BY <2>1, SliceRows
  <2>4. ASSUME NEW field \in Vectors, Beside(e, field),
               materialized(new, field) = SubSeq(materialized(e, field), from, to)
        PROVE  Beside(new, field)
    <3> DEFINE v == materialized(e, field)
    <3>1. v \in Seq(Values) /\ Len(v) = n /\ e.ids \in Seq(Nat)
      BY <2>4, MaterializedIs DEF Beside, IsEncoding
    <3> HIDE DEF v
    <3>2. Len(SubSeq(v, from, to)) = to - from + 1 /\ Len(SubSeq(e.ids, from, to)) = to - from + 1
      BY <1>1, <2>1, <3>1
    <3> QED
      BY <2>2, <2>4, <3>2 DEF v, Beside
  <2> QED
    BY <2>2, <2>3, <2>4
<1> QED
  BY <1>1, <1>2, <1>3

\* A row that padding adds.
LEMMA PadRow ==
  ASSUME NEW e, NEW new, NEW i, new.ids[i] = PadId,
         \A field \in Vectors : materialized(new, field)[i] = Pads(e, field, PadType)
  PROVE  IsPadding(Row(new, i))
<1> DEFINE row == Row(new, i)
<1>1. row["ids"] = PadId /\ \A field \in Vectors : row[field] = Pads(e, field, PadType)
  BY DEF Row, Vectors
<1> HIDE DEF row
<1>2. \A field \in Vectors \ {"sequence_ids"} : Pads(e, field, PadType) = PadValue(PadType)[field]
  BY DEF Pads, Grown, Vectors, PadValue, Default
<1>3. Pads(e, "sequence_ids", PadType) \in {NoneId, Default["sequence_ids"]}
  BY DEF Pads, PadValue
<1>4. PadValue(PadType)["ids"] = PadId /\ "sequence_ids" \in Vectors
  BY DEF PadValue, Vectors
<1> QED
  BY <1>1, <1>2, <1>3, <1>4 DEF IsPadding, row

\* A sequence with a row of one value after it, and before it.
Flanked(v, x, n, count, after, before) ==
  /\ Len(after) = n + count /\ Len(before) = n + count
  /\ \A i \in 1..n : after[i] = v[i] /\ before[count + i] = v[i]
  /\ \A i \in n + 1..n + count : after[i] = x
  /\ \A i \in 1..count : before[i] = x

\* What is where after a sequence was padded.
LEMMA PutBeside ==
  ASSUME NEW T, NEW v \in Seq(T), NEW n \in Nat, Len(v) = n, NEW x \in T, NEW count \in Nat
  PROVE  Flanked(v, x, n, count, v \o Times(x, count), Times(x, count) \o v)
<1> DEFINE t == Times(x, count)
<1>1. t \in Seq(T) /\ Len(t) = count /\ \A i \in 1..count : t[i] = x
  BY TimesIs
<1> HIDE DEF t
<1>2. /\ Len(v \o t) = n + count /\ Len(t \o v) = count + n
      /\ \A i \in 1..n + count : (v \o t)[i] = IF i <= n THEN v[i] ELSE t[i - n]
      /\ \A i \in 1..count + n : (t \o v)[i] = IF i <= count THEN t[i] ELSE v[i - count]
  BY <1>1, ConcatProperties
<1>3. \A i \in 1..n : i \in 1..n + count /\ count + i \in 1..count + n /\ ~ count + i <= count /\ count + i - count = i
  OBVIOUS
<1>4. \A i \in n + 1..n + count : i \in 1..n + count /\ ~ i <= n /\ i - n \in 1..count
  OBVIOUS
<1>5. \A i \in 1..count : i \in 1..count + n
  OBVIOUS
<1>6. \A i \in 1..n : (v \o t)[i] = v[i] /\ (t \o v)[count + i] = v[i]
  BY <1>2, <1>3
<1>7. \A i \in n + 1..n + count : (v \o t)[i] = x
  BY <1>1, <1>2, <1>4
<1>8. \A i \in 1..count : (t \o v)[i] = x
  BY <1>1, <1>2, <1>5
<1> QED
  BY <1>2, <1>6, <1>7, <1>8 DEF t, Flanked

\* Padding puts rows of padding after the table, or before it.
LEMMA ExtendRows ==
  ASSUME NEW e, IsEncoding(e), AllBeside(e), NEW count \in Nat,
         NEW right, right = extend_right(e, PadType, count), NEW left, left = extend_left(e, PadType, count)
  PROVE  /\ AllBeside(right) /\ AllBeside(left)
         /\ Table!IsFirst(Rows(e), Rows(right)) /\ Table!IsLast(Rows(e), Rows(left))
         /\ \A i \in DOMAIN Rows(right) : i > Len(Rows(e)) => IsPadding(Rows(right)[i])
         /\ \A i \in DOMAIN Rows(left) : i <= Len(Rows(left)) - Len(Rows(e)) => IsPadding(Rows(left)[i])
<1> DEFINE n == Len(e.ids)
           old == Rows(e)
           after == Rows(right)
           before == Rows(left)
<1>1. n \in Nat /\ e.ids \in Seq(Nat) /\ n + count \in Nat /\ count + n = n + count /\ PadType \in Nat
  BY DEF IsEncoding, PadType
<1>2. PutRight(e, PadType, count, right) /\ PutLeft(e, PadType, count, left)
  BY <1>1, ExtendOK
<1>3. /\ IsEncoding(right) /\ IsEncoding(left)
      /\ right.ids = e.ids \o Times(PadId, count) /\ left.ids = Times(PadId, count) \o e.ids
      /\ \A field \in Vectors :
            /\ materialized(right, field) = materialized(e, field) \o Times(Pads(e, field, PadType), count)
            /\ materialized(left, field) = Times(Pads(e, field, PadType), count) \o materialized(e, field)
  BY <1>2 DEF PutRight, PutLeft, AllBeside
<1>4. Flanked(e.ids, PadId, n, count, right.ids, left.ids)
  <2>1. PadId \in Nat
    BY DEF PadId
  <2>2. Flanked(e.ids, PadId, n, count, e.ids \o Times(PadId, count), Times(PadId, count) \o e.ids)
    BY <1>1, <2>1, PutBeside
  <2> QED
    BY <1>3, <2>2
<1>5. ASSUME NEW field \in Vectors
      PROVE  Flanked(materialized(e, field), Pads(e, field, PadType), n, count,
                     materialized(right, field), materialized(left, field))
  <2> DEFINE v == materialized(e, field)
             x == Pads(e, field, PadType)
  <2>1. v \in Seq(Values) /\ Len(v) = n
    BY MaterializedIs DEF AllBeside, Beside
  <2>2. x \in Values
    BY <1>1, PadsAre
  <2>3. materialized(right, field) = v \o Times(x, count) /\ materialized(left, field) = Times(x, count) \o v
    BY <1>3
  <2> HIDE DEF n, v, x
  <2>4. Flanked(v, x, n, count, v \o Times(x, count), Times(x, count) \o v)
    BY <1>1, <2>1, <2>2, PutBeside
  <2> QED
    BY <2>3, <2>4 DEF v, x
<1>6. AllBeside(right) /\ AllBeside(left)
  BY <1>4, <1>5 DEF AllBeside, Beside, Flanked
<1>7. /\ \A i \in 1..n : Row(right, i) = Row(e, i) /\ Row(left, count + i) = Row(e, i)
      /\ \A i \in n + 1..n + count : IsPadding(Row(right, i))
      /\ \A i \in 1..count : IsPadding(Row(left, i))
  <2>1. \A i \in 1..n : Row(right, i) = Row(e, i) /\ Row(left, count + i) = Row(e, i)
    <3> SUFFICES ASSUME NEW i \in 1..n
                 PROVE  Row(right, i) = Row(e, i) /\ Row(left, count + i) = Row(e, i)
      OBVIOUS
    <3>1. right.ids[i] = e.ids[i] /\ left.ids[count + i] = e.ids[i]
      BY <1>4 DEF Flanked
    <3>2. \A field \in Vectors : /\ materialized(right, field)[i] = materialized(e, field)[i]
                                 /\ materialized(left, field)[count + i] = materialized(e, field)[i]
      BY <1>5 DEF Flanked
    <3> QED
      BY <3>1, <3>2, RowSame
  <2>2. \A i \in n + 1..n + count : IsPadding(Row(right, i))
    BY <1>4, <1>5, PadRow DEF Flanked
  <2>3. \A i \in 1..count : IsPadding(Row(left, i))
    BY <1>4, <1>5, PadRow DEF Flanked
  <2> QED
    BY <2>1, <2>2, <2>3
<1>8. /\ old \in Seq(RowSet) /\ Len(old) = n /\ \A i \in 1..n : old[i] = Row(e, i)
      /\ after \in Seq(RowSet) /\ Len(after) = n + count /\ \A i \in 1..n + count : after[i] = Row(right, i)
      /\ before \in Seq(RowSet) /\ Len(before) = n + count /\ \A i \in 1..n + count : before[i] = Row(left, i)
  BY <1>3, <1>4, <1>6, RowsAre DEF Flanked
<1> HIDE DEF n, old, after, before
<1>9. /\ n <= n + count /\ n + count - n = count
      /\ \A i \in 1..n : i \in 1..n + count /\ count + i \in 1..n + count
      /\ \A i \in 1..count : i \in 1..n + count
      /\ \A i \in 1..n + count : i > n => i \in n + 1..n + count
      /\ \A i \in 1..n + count : i <= count => i \in 1..count
  BY <1>1
<1>10. \A i \in 1..n : after[i] = old[i] /\ before[count + i] = old[i]
  BY <1>7, <1>8, <1>9
<1>11. Table!IsFirst(old, after)
  BY <1>8, <1>9, <1>10, FirstIs
<1>12. Table!IsLast(old, before)
  <2>1. Len(old) <= Len(before) /\ Len(before) - Len(old) = count
    BY <1>8, <1>9
  <2>2. \A i \in 1..Len(old) : old[i] = before[Len(before) - Len(old) + i]
    BY <1>8, <1>10, <2>1
  <2> QED
    BY <1>8, <2>1, <2>2, LastIs
<1>13. DOMAIN after = 1..n + count /\ DOMAIN before = 1..n + count
  BY <1>8
<1>14. \A i \in DOMAIN after : i > Len(old) => IsPadding(after[i])
  BY <1>7, <1>8, <1>9, <1>13
<1>15. \A i \in DOMAIN before : i <= Len(before) - Len(old) => IsPadding(before[i])
  BY <1>7, <1>8, <1>9, <1>13
<1> QED
  BY <1>6, <1>11, <1>12, <1>14, <1>15 DEF old, after, before

\* Padding adds rows, and tears no vector.
LEMMA PadOK ==
  ASSUME NEW e, IsEncoding(e), NEW length \in Nat, NEW direction, NEW pad_type \in Nat,
         NEW new, new = pad(e, length, direction, pad_type)
  PROVE  /\ IsEncoding(new) /\ new.n_sequences = e.n_sequences
         /\ \A field \in Vectors : Beside(e, field) => Beside(new, field)
         /\ AllBeside(e) /\ pad_type = PadType =>
              /\ AllBeside(new)
              /\ \/ /\ Table!IsFirst(Rows(e), Rows(new))
                    /\ \A i \in DOMAIN Rows(new) : i > Len(Rows(e)) => IsPadding(Rows(new)[i])
                 \/ /\ Table!IsLast(Rows(e), Rows(new))
                    /\ \A i \in DOMAIN Rows(new) : i <= Len(Rows(new)) - Len(Rows(e)) => IsPadding(Rows(new)[i])
<1> DEFINE n == Len(e.ids)
<1>1. n \in Nat /\ e.ids \in Seq(Nat)
  BY DEF IsEncoding
<1>2. CASE length <= n
  <2>1. new = e
    BY <1>2 DEF pad
  <2>2. ASSUME AllBeside(e)
        PROVE  /\ Table!IsFirst(Rows(e), Rows(e))
               /\ \A i \in DOMAIN Rows(e) : i > Len(Rows(e)) => IsPadding(Rows(e)[i])
    <3>1. Rows(e) \in Seq(RowSet) /\ Len(Rows(e)) \in Nat /\ DOMAIN Rows(e) = 1..Len(Rows(e))
      BY <2>2, RowsAre
    <3>2. \A i \in DOMAIN Rows(e) : ~ i > Len(Rows(e))
      BY <3>1
    <3> QED
      BY <3>1, <3>2, FirstIs
  <2> QED
    BY <2>1, <2>2
<1>3. CASE length > n
  <2>1. PICK count \in Nat : new \in {extend_left(e, pad_type, count), extend_right(e, pad_type, count)}
    <3>1. new \in {extend_left(e, pad_type, length - n), extend_right(e, pad_type, length - n)} /\ length - n \in Nat
      BY <1>1, <1>3 DEF pad
    <3> QED
      BY <3>1
  <2>2. /\ IsEncoding(new) /\ new.n_sequences = e.n_sequences
        /\ \A field \in Vectors : Beside(e, field) =>
              \/ /\ new.ids = e.ids \o Times(PadId, count)
                 /\ materialized(new, field) = materialized(e, field) \o Times(Pads(e, field, pad_type), count)
              \/ /\ new.ids = Times(PadId, count) \o e.ids
                 /\ materialized(new, field) = Times(Pads(e, field, pad_type), count) \o materialized(e, field)
    <3>1. PutRight(e, pad_type, count, new) \/ PutLeft(e, pad_type, count, new)
      BY <2>1, ExtendOK
    <3> QED
      BY <3>1 DEF PutRight, PutLeft
  <2>3. ASSUME NEW field \in Vectors, Beside(e, field)
        PROVE  Beside(new, field)
    <3> DEFINE v == materialized(e, field)
               x == Times(Pads(e, field, pad_type), count)
               p == Times(PadId, count)
    <3>1. v \in Seq(Values) /\ Len(v) = n
      BY <2>3, MaterializedIs DEF Beside
    <3>2. x \in Seq(Values) /\ Len(x) = count /\ p \in Seq(Nat) /\ Len(p) = count
      <4>1. Pads(e, field, pad_type) \in Values /\ PadId \in Nat
        BY PadsAre DEF PadId
      <4> QED
        BY <4>1, TimesIs
    <3>3. \/ new.ids = e.ids \o p /\ materialized(new, field) = v \o x
          \/ new.ids = p \o e.ids /\ materialized(new, field) = x \o v
      BY <2>2, <2>3
    <3> HIDE DEF v, x, p
    <3> HIDE DEF n
    <3>4. /\ Len(e.ids \o p) = n + count /\ Len(p \o e.ids) = count + n
          /\ Len(v \o x) = n + count /\ Len(x \o v) = count + n
      <4>1. e.ids \in Seq(Nat) /\ Len(e.ids) = n
        BY <1>1 DEF n
      <4>2. Len(e.ids \o p) = n + count /\ Len(p \o e.ids) = count + n
        <5> DEFINE list == e.ids
        <5>1. list \in Seq(Nat) /\ Len(list) = n
          BY <4>1
        <5> HIDE DEF list
        <5>2. p \in Seq(Nat) /\ Len(p) = count
          BY <3>2
        <5>3. Len(list \o p) = n + count /\ Len(p \o list) = count + n
          BY <5>1, <5>2, ConcatProperties
        <5> QED
          BY <5>3 DEF list
      <4>3. Len(v \o x) = n + count /\ Len(x \o v) = count + n
        BY <1>1, <3>1, <3>2, ConcatProperties
      <4> QED
        BY <4>2, <4>3
    <3> QED
      BY <3>3, <3>4 DEF Beside, v
  <2> QED
    BY <2>1, <2>2, <2>3, ExtendRows
<1> QED
  BY <1>1, <1>2, <1>3

\* Merging puts the rows of one table after those of the other.
LEMMA MergeRows ==
  ASSUME NEW e, IsEncoding(e), NEW f, IsEncoding(f), NEW new, new = merge(e, f)
  PROVE  /\ \A field \in Vectors : Beside(e, field) /\ Beside(f, field) => Beside(new, field)
         /\ AllBeside(e) /\ AllBeside(f) => AllBeside(new) /\ Table!IsFirst(Rows(e), Rows(new))
<1> DEFINE m == Len(e.ids)
           n == Len(f.ids)
<1>1. m \in Nat /\ n \in Nat /\ e.ids \in Seq(Nat) /\ f.ids \in Seq(Nat)
  BY DEF IsEncoding
<1>2. /\ IsEncoding(new) /\ new.ids = e.ids \o f.ids
      /\ \A field \in Vectors : materialized(new, field) = materialized(e, field) \o materialized(f, field)
  BY MergeOK, Zenon
<1>3. Len(new.ids) = m + n /\ \A i \in 1..m : new.ids[i] = e.ids[i]
  <2> DEFINE a == e.ids
             b == f.ids
  <2>1. a \in Seq(Nat) /\ b \in Seq(Nat) /\ Len(a) = m /\ Len(b) = n
    BY <1>1
  <2> HIDE DEF a, b, m, n
  <2>2. Len(a \o b) = m + n /\ \A i \in 1..m : (a \o b)[i] = a[i]
    BY <2>1, JoinBegins
  <2> QED
    BY <1>2, <2>2 DEF a, b
<1>4. ASSUME NEW field \in Vectors, Beside(e, field), Beside(f, field)
      PROVE  /\ Len(materialized(new, field)) = m + n
             /\ \A i \in 1..m : materialized(new, field)[i] = materialized(e, field)[i]
  <2> DEFINE a == materialized(e, field)
             b == materialized(f, field)
  <2>1. a \in Seq(Values) /\ b \in Seq(Values) /\ Len(a) = m /\ Len(b) = n
    BY <1>4, MaterializedIs DEF Beside
  <2> HIDE DEF a, b, m, n
  <2>2. Len(a \o b) = m + n /\ \A i \in 1..m : (a \o b)[i] = a[i]
    BY <2>1, JoinBegins
  <2> QED
    BY <1>2, <2>2 DEF a, b
<1>5. \A field \in Vectors : Beside(e, field) /\ Beside(f, field) => Beside(new, field)
  BY <1>3, <1>4 DEF Beside
<1>6. ASSUME AllBeside(e), AllBeside(f)
      PROVE  AllBeside(new) /\ Table!IsFirst(Rows(e), Rows(new))
  <2>1. AllBeside(new)
    BY <1>5, <1>6 DEF AllBeside
  <2> DEFINE s == Rows(e)
             t == Rows(new)
  <2>2. /\ s \in Seq(RowSet) /\ Len(s) = m /\ \A i \in 1..m : s[i] = Row(e, i)
        /\ t \in Seq(RowSet) /\ Len(t) = m + n /\ \A i \in 1..m + n : t[i] = Row(new, i)
    BY <1>2, <1>3, <1>6, <2>1, RowsAre
  <2> HIDE DEF s, t
  <2>3. ASSUME NEW i \in 1..m
        PROVE  s[i] = t[i]
    <3>1. \A field \in Vectors : materialized(new, field)[i] = materialized(e, field)[i]
      BY <1>4, <1>6 DEF AllBeside
    <3>2. new.ids[i] = e.ids[i] /\ i \in 1..m + n
      <4> HIDE DEF m, n
      <4> QED
        BY <1>1, <1>3
    <3>3. Row(new, i) = Row(e, i)
      BY <3>1, <3>2, RowSame
    <3> QED
      BY <2>2, <3>2, <3>3
  <2> HIDE DEF m, n
  <2>4. Len(s) <= Len(t)
    BY <1>1, <2>2
  <2>5. Table!IsFirst(s, t)
    BY <2>2, <2>3, <2>4, FirstIs
  <2> QED
    BY <2>1, <2>5 DEF s, t
<1> QED
  BY <1>5, <1>6

\* One column is changed, and the others stay.
LEMMA ColumnSet ==
  ASSUME NEW e, IsEncoding(e), AllBeside(e), NEW new, IsEncoding(new), AllBeside(new), Len(new.ids) = Len(e.ids),
         NEW c \in Vectors \cup {"ids"}, Sets(c, e, new)
  PROVE  /\ Len(Rows(new)) = Len(Rows(e))
         /\ \A i \in DOMAIN Rows(e), d \in (Vectors \cup {"ids"}) \ {c} : Rows(new)[i][d] = Rows(e)[i][d]
<1> DEFINE n == Len(e.ids)
           s == Rows(e)
           t == Rows(new)
<1>1. /\ s \in Seq(RowSet) /\ Len(s) = n /\ n \in Nat /\ \A i \in 1..n : s[i] = Row(e, i)
      /\ t \in Seq(RowSet) /\ Len(t) = n /\ \A i \in 1..n : t[i] = Row(new, i)
  BY RowsAre
<1>2. DOMAIN s = 1..n
  BY <1>1
<1> HIDE DEF n, s, t
<1>3. ASSUME NEW i \in 1..n, NEW d \in (Vectors \cup {"ids"}) \ {c}
      PROVE  t[i][d] = s[i][d]
  <2>1. t[i] = Row(new, i) /\ s[i] = Row(e, i)
    BY <1>1
  <2>2. Row(new, i)[d] = Row(e, i)[d]
    BY DEF Row, Sets
  <2> QED
    BY <2>1, <2>2
<1> QED
  BY <1>1, <1>2, <1>3 DEF s, t

\* Of what is not materialized nothing is said.
LEMMA UnsetRows ==
  ASSUME NEW e, IsEncoding(e), \A field \in Vectors : e[field] = Unset
  PROVE  AllBeside(e) /\ \A i \in DOMAIN Rows(e) : IsBlank(Rows(e)[i])
<1>1. AllBeside(e)
  BY MaterializedIs DEF AllBeside
<1>2. /\ Rows(e) \in Seq(RowSet) /\ Len(Rows(e)) = Len(e.ids) /\ Len(e.ids) \in Nat
      /\ \A i \in 1..Len(e.ids) : Rows(e)[i] = Row(e, i)
  BY <1>1, RowsAre
<1>3. ASSUME NEW i \in 1..Len(e.ids)
      PROVE  IsBlank(Row(e, i))
  <2>1. ASSUME NEW field \in Vectors
        PROVE  Row(e, i)[field] = Default[field]
    <3>1. materialized(e, field) = Times(Default[field], Len(e.ids))
      BY MaterializedIs
    <3>2. materialized(e, field)[i] = Default[field]
      BY <3>1 DEF Times
    <3>3. field # "ids"
      BY DEF Vectors
    <3> QED
      BY <3>2, <3>3 DEF Row
  <2> QED
    BY <2>1 DEF IsBlank
<1> QED
  BY <1>1, <1>2, <1>3

\* Rounding up to a multiple reaches one, and loses nothing.
LEMMA MultipleIs ==
  ASSUME NEW n \in Nat, NEW m \in Nat
  PROVE  Multiple(n, m) \in Nat /\ Multiple(n, m) >= n /\ (m > 0 => Multiple(n, m) % m = 0)
<1>1. CASE m = 0
  BY <1>1 DEF Multiple
<1>2. CASE m # 0
  <2> DEFINE q == (n + m - 1) \div m
             r == (n + m - 1) % m
  <2>1. q \in Nat /\ r \in 0..m - 1 /\ n + m - 1 = m * q + r
    BY <1>2
  <2>2. Multiple(n, m) = q * m
    BY <1>2 DEF Multiple
  <2> HIDE DEF q, r
  <2> DEFINE p == q * m
  <2>3. p \in Nat /\ n + m - 1 = p + r
    BY <2>1
  <2>4. p % m = 0
    BY <1>2, <2>1
  <2> HIDE DEF p
  <2>5. p >= n
    BY <2>1, <2>3
  <2> QED
    BY <2>2, <2>3, <2>4, <2>5 DEF p
<1> QED
  BY <1>1, <1>2

\* The length padding pads to.
LEMMA TargetIs ==
  ASSUME NEW s \in Settings, NEW n \in Nat
  PROVE  /\ pad_target(s.pad, n) \in Nat /\ pad_target(s.pad, n) >= n
         /\ s.pad # Off => /\ pad_target(s.pad, n) >= s.pad.length
                           /\ s.pad.multiple > 0 => pad_target(s.pad, n) % s.pad.multiple = 0
<1>1. CASE s.pad = Off
  BY <1>1 DEF pad_target
<1>2. CASE s.pad # Off
  <2> DEFINE l == s.pad.length
             m == s.pad.multiple
             most == Max({l, n})
  <2>1. l \in Nat /\ m \in Nat
    BY <1>2, EncodingsAssumption
  <2>2. pad_target(s.pad, n) = Multiple(most, m)
    BY <1>2 DEF pad_target
  <2> HIDE DEF l, m
  <2>3. most \in Nat /\ most >= l /\ most >= n
    BY <2>1, MaxOfTwo
  <2> HIDE DEF most
  <2> DEFINE t == Multiple(most, m)
  <2>4. t \in Nat /\ t >= most /\ (m > 0 => t % m = 0)
    BY <2>1, <2>3, MultipleIs
  <2> HIDE DEF t
  <2>5. t >= n /\ t >= l
    BY <2>1, <2>3, <2>4
  <2> QED
    BY <2>2, <2>4, <2>5 DEF t, l, m
<1> QED
  BY <1>1, <1>2

\* What truncation leaves of the ids.
LEMMA CutIs ==
  ASSUME NEW s \in Settings, NEW list \in Seq(Nat)
  PROVE  /\ do_truncate(s.trunc, list) \in Seq(Nat)
         /\ s.trunc = Off => do_truncate(s.trunc, list) = list
         /\ s.trunc # Off => Len(do_truncate(s.trunc, list)) = Min({s.trunc.max, Len(list)})
<1> DEFINE n == Len(list)
           max == s.trunc.max
           cut == do_truncate(s.trunc, list)
<1>1. n \in Nat
  OBVIOUS
<1>2. CASE s.trunc = Off
  BY <1>2 DEF do_truncate
<1>3. CASE s.trunc # Off
  <2>1. max \in Nat
    BY <1>3, EncodingsAssumption
  <2>2. Min({max, n}) = IF n <= max THEN n ELSE max
    <3>1. \E x \in {max, n} : \A y \in {max, n} : x <= y
      BY <1>1, <2>1
    <3>2. Min({max, n}) \in {max, n} /\ \A y \in {max, n} : Min({max, n}) <= y
      BY <3>1, Zenon DEF Min
    <3> HIDE DEF max
    <3> QED
      BY <1>1, <2>1, <3>2
  <2>3. cut = IF n <= max THEN list ELSE IF s.trunc.direction = "left" THEN SubSeq(list, n - max + 1, n) ELSE SubSeq(list, 1, max)
    BY <1>3 DEF do_truncate
  <2> HIDE DEF cut, max
  <2>4. cut \in Seq(Nat) /\ Len(cut) = IF n <= max THEN n ELSE max
    BY <1>1, <2>1, <2>3
  <2> QED
    BY <1>3, <2>2, <2>4 DEF cut, max
<1> QED
  BY <1>2, <1>3

\* What encode builds is an Encoding with a value for each id in each vector.
LEMMA BuiltOK ==
  ASSUME NEW s \in Settings, NEW list \in Seq(Nat), NEW target \in Nat
  PROVE  LET new == build_encoding(s.pad, list, target) IN IsEncoding(new) /\ AllBeside(new) /\ new.n_sequences = 1
<1>1. IsEncoding(make(list)) /\ AllBeside(make(list)) /\ make(list).n_sequences = 1
  BY MakeOK, UnsetRows
<1>2. CASE s.pad = Off
  BY <1>1, <1>2 DEF build_encoding
<1>3. CASE s.pad # Off
  <2>1. s.pad.pad_type \in Nat
    BY <1>3, EncodingsAssumption
  <2> DEFINE new == pad(make(list), target, s.pad.direction, s.pad.pad_type)
  <2>2. build_encoding(s.pad, list, target) = new
    BY <1>3 DEF build_encoding
  <2>3. /\ IsEncoding(new) /\ new.n_sequences = 1
        /\ \A field \in Vectors : Beside(make(list), field) => Beside(new, field)
    BY <1>1, <2>1, PadOK
  <2> HIDE DEF new
  <2> QED
    BY <1>1, <2>2, <2>3 DEF AllBeside
<1> QED
  BY <1>2, <1>3

\* What encode makes of a list of ids is an Encoding.
LEMMA AnswerOK ==
  ASSUME NEW s \in Settings, NEW list \in Seq(Nat)
  PROVE  LET new == encode_encoding(s, list) IN IsEncoding(new) /\ AllBeside(new) /\ new.n_sequences = 1
<1> DEFINE cut == do_truncate(s.trunc, list)
<1>1. cut \in Seq(Nat)
  BY CutIs
<1>2. encode_encoding(s, list) = build_encoding(s.pad, cut, pad_target(s.pad, Len(cut)))
  BY DEF encode_encoding
<1> HIDE DEF cut
<1>3. pad_target(s.pad, Len(cut)) \in Nat
  BY <1>1, TargetIs
<1> QED
  BY <1>1, <1>2, <1>3, BuiltOK

-----------------------------------------------------------------------------
\* The Encoding of the caller is one.
EncodingOK == IsEncoding(enc) /\ (pc = "encoding" => setting \in Settings)

\* What a caller does with an Encoding changes nothing else.
LEMMA ChangesAre ==
  ASSUME Change
  PROVE  pc = "encoding" /\ ops' = ops + 1 /\ UNCHANGED <<vars, setting>>
BY Zenon DEF Change, Truncate, Pad, SetIds, SetVector, SetSequenceId, SetSequences, MergeWithAnswer,
   PostProcessEncoding, into_numpy, Does

\* A step that is not of an Encoding does nothing to it.
LEMMA EncodingStepsAre ==
  ASSUME [EncNext]_<<vars, encVars>>
  PROVE  \/ Wrap \/ New \/ Change \/ Release
         \/ UNCHANGED encVars /\ (pc' = "encoding" <=> pc = "encoding")
<1>1. ASSUME Next
      PROVE  pc' # "encoding" /\ pc # "encoding"
  BY <1>1 DEF Next, Begin, SplitAdded, PreTokenize, ModelTokenize, PostProcess, BeginIds, NewStream, StepHolds,
     StepReturns, StepFails, Return
<1> QED
  BY <1>1 DEF EncNext, vars, encVars

\* A step of the table of the Encoding.
TableStep == [Table!Next]_<<pc = "encoding", AllBeside(enc), Rows(enc), enc.n_sequences>>

\* A vector is torn by who sets it or the ids, or where another one ends too soon.
TornStep ==
  \A field \in Vectors : pc = "encoding" /\ Beside(enc, field) /\ ~Beside(enc, field)' =>
     \/ SetIds \/ SetVector(field)
     \/ Truncate /\ \E g \in Vectors \ {field} : Len(materialized(enc, g)) < Len(enc.ids)

\* What a step keeps of an Encoding.
StaysEncoding == IsEncoding(enc') /\ TableStep /\ TornStep

\* While there is an Encoding, a step that keeps the table whole is one of the table.
LEMMA TableStepIs ==
  ASSUME pc = "encoding", pc' = "encoding",
         AllBeside(enc) /\ ~AllBeside(enc') => enc'.n_sequences = enc.n_sequences,
         AllBeside(enc) /\ AllBeside(enc') =>
           Table!Cut \/ Table!Pad \/ Table!Merge \/ Table!SetColumn \/ Table!Renew \/ Table!SetSequences \/ Table!Drain
  PROVE  TableStep
<1>1. CASE ~AllBeside(enc)
  BY <1>1 DEF TableStep, Table!Next, Table!Torn
<1>2. CASE AllBeside(enc) /\ ~AllBeside(enc')
  BY <1>2 DEF TableStep, Table!Next, Table!Tear
<1>3. CASE AllBeside(enc) /\ AllBeside(enc')
  BY <1>3 DEF TableStep, Table!Next
<1> QED
  BY <1>1, <1>2, <1>3

\* A truncation.
LEMMA TruncateKeeps ==
  ASSUME EncodingOK, Truncate
  PROVE  StaysEncoding
<1>1. PICK max \in Lengths, direction \in Directions : enc' = truncate(enc, max, direction) /\ Does(truncate(enc, max, direction))
  BY DEF Truncate, Does
<1>2. IsEncoding(enc) /\ max \in Nat /\ pc = "encoding" /\ pc' = "encoding"
  BY <1>1, EncodingsAssumption DEF EncodingOK, Does, vars
<1> DEFINE new == enc'
<1>3. /\ IsEncoding(new) /\ new.n_sequences = enc.n_sequences
      /\ AllBeside(enc) => AllBeside(new) /\ (Table!IsFirst(Rows(new), Rows(enc)) \/ Table!IsLast(Rows(new), Rows(enc)))
      /\ \A field \in Vectors : Beside(enc, field) =>
            Beside(new, field) \/ \E g \in Vectors \ {field} : Len(materialized(enc, g)) < Len(enc.ids)
  BY <1>1, <1>2, TruncateOK
<1>4. TableStep
  <2>1. AllBeside(enc) => Table!Cut
    BY <1>3 DEF Table!Cut
  <2> QED
    BY <1>2, <1>3, <2>1, TableStepIs
<1>5. TornStep
  BY <1>3 DEF TornStep
<1> QED
  BY <1>3, <1>4, <1>5 DEF StaysEncoding

\* A padding.
LEMMA PadKeeps ==
  ASSUME EncodingOK, Pad
  PROVE  StaysEncoding
<1>1. PICK length \in Lengths, direction \in Directions :
         enc' = pad(enc, length, direction, PadType) /\ Does(pad(enc, length, direction, PadType))
  BY DEF Pad, Does
<1>2. IsEncoding(enc) /\ length \in Nat /\ PadType \in Nat /\ pc = "encoding" /\ pc' = "encoding"
  BY <1>1, EncodingsAssumption DEF EncodingOK, Does, vars, PadType
<1>3. /\ IsEncoding(enc') /\ enc'.n_sequences = enc.n_sequences
      /\ \A field \in Vectors : Beside(enc, field) => Beside(enc', field)
      /\ AllBeside(enc) =>
           /\ AllBeside(enc')
           /\ \/ /\ Table!IsFirst(Rows(enc), Rows(enc'))
                 /\ \A i \in DOMAIN Rows(enc') : i > Len(Rows(enc)) => IsPadding(Rows(enc')[i])
              \/ /\ Table!IsLast(Rows(enc), Rows(enc'))
                 /\ \A i \in DOMAIN Rows(enc') : i <= Len(Rows(enc')) - Len(Rows(enc)) => IsPadding(Rows(enc')[i])
  BY <1>1, <1>2, PadOK
<1>4. TableStep
  <2>1. AllBeside(enc) => Table!Pad
    BY <1>3 DEF Table!Pad, Table!PadRight, Table!PadLeft
  <2> QED
    BY <1>2, <1>3, <2>1, TableStepIs
<1>5. TornStep
  BY <1>3 DEF TornStep
<1> QED
  BY <1>3, <1>4, <1>5 DEF StaysEncoding

\* A caller that sets the ids, a vector or the number of sequences.
LEMMA SetKeeps ==
  ASSUME EncodingOK, SetIds \/ (\E field \in Vectors : SetVector(field)) \/ SetSequenceId \/ SetSequences
  PROVE  StaysEncoding
<1> DEFINE columns == Vectors \cup {"ids"}
<1>1. /\ IsEncoding(enc) /\ pc = "encoding" /\ pc' = "encoding"
      /\ DOMAIN enc = Vectors \cup {"ids", "n_sequences"} /\ enc.ids \in Seq(Nat) /\ Len(enc.ids) \in Nat
  BY DEF EncodingOK, IsEncoding, SetIds, SetVector, SetSequenceId, SetSequences, Does, vars
<1>2. ASSUME IsEncoding(enc'), Len(enc'.ids) = Len(enc.ids), enc'.n_sequences = enc.n_sequences,
             NEW c \in columns, Sets(c, enc, enc')
      PROVE  TableStep
  <2>1. ASSUME AllBeside(enc), AllBeside(enc')
        PROVE  Table!SetColumn
    <3>1. /\ Len(Rows(enc')) = Len(Rows(enc))
          /\ \A i \in DOMAIN Rows(enc), d \in columns \ {c} : Rows(enc')[i][d] = Rows(enc)[i][d]
      BY <1>1, <1>2, <2>1, ColumnSet
    <3> QED
      BY <1>2, <3>1 DEF Table!SetColumn
  <2> QED
    BY <1>1, <1>2, <2>1, TableStepIs
<1>3. ASSUME SetIds
      PROVE  StaysEncoding
  <2>1. PICK list \in Vecs : enc' = [enc EXCEPT !.ids = list]
    BY <1>3 DEF SetIds, Does
  <2>2. list \in Seq(Nat)
    BY <2>1, EncodingsAssumption
  <2>3. /\ DOMAIN enc' = DOMAIN enc /\ enc'.ids = list /\ enc'.n_sequences = enc.n_sequences
        /\ \A field \in Vectors : enc'[field] = enc[field]
    BY <1>1, <2>1 DEF Vectors
  <2>4. IsEncoding(enc')
    BY <1>1, <2>2, <2>3 DEF IsEncoding
  <2>5. CASE Len(list) = Len(enc.ids)
    <3>1. Sets("ids", enc, enc')
      <4>1. ASSUME NEW d \in columns \ {"ids"}
            PROVE  materialized(enc', d) = materialized(enc, d)
        BY <2>3, <2>5, <4>1 DEF materialized
      <4> QED
        BY <4>1 DEF Sets
    <3>2. TableStep
      BY <1>2, <2>3, <2>4, <2>5, <3>1
    <3> QED
      BY <1>3, <2>4, <3>2 DEF StaysEncoding, TornStep
  <2>6. CASE Len(list) # Len(enc.ids)
    <3>1. ASSUME AllBeside(enc), AllBeside(enc')
          PROVE  Table!Renew
      <4>1. ASSUME NEW field \in Vectors
            PROVE  enc[field] = Unset /\ enc'[field] = Unset
        <5>1. Beside(enc, field) /\ Beside(enc', field)
          BY <3>1 DEF AllBeside
        <5>2. Len(materialized(enc, field)) = Len(enc.ids) /\ Len(materialized(enc', field)) = Len(list)
          BY <2>3, <5>1 DEF Beside
        <5>3. materialized(enc, field) # materialized(enc', field)
          BY <2>6, <5>2
        <5> QED
          BY <2>3, <5>3 DEF materialized
      <4>2. /\ \A i \in DOMAIN Rows(enc) : IsBlank(Rows(enc)[i])
            /\ \A i \in DOMAIN Rows(enc') : IsBlank(Rows(enc')[i])
        BY <1>1, <2>4, <4>1, UnsetRows
      <4> QED
        BY <2>3, <4>2 DEF Table!Renew, Table!SetBlankIds
    <3>2. TableStep
      BY <1>1, <2>3, <3>1, TableStepIs
    <3> QED
      BY <1>3, <2>4, <3>2 DEF StaysEncoding, TornStep
  <2> QED
    BY <2>5, <2>6
<1>4. ASSUME NEW field \in Vectors, NEW vector \in Seq(Values), enc' = [enc EXCEPT ![field] = vector]
      PROVE  /\ IsEncoding(enc') /\ TableStep
             /\ \A g \in Vectors \ {field} : Beside(enc, g) => Beside(enc', g)
  <2>1. IsEncoding(enc') /\ enc'.ids = enc.ids /\ enc'.n_sequences = enc.n_sequences /\ Sets(field, enc, enc')
    <3>1. IsEncoding(enc) /\ (vector = Unset \/ vector \in Seq(Values)) /\ SetTo(enc, field, vector, enc')
      BY <1>1, <1>4 DEF SetTo
    <3> QED
      BY <3>1, SetOK
  <2>2. field \in columns /\ \A g \in Vectors \ {field} : materialized(enc', g) = materialized(enc, g)
    BY <2>1 DEF Sets, Vectors
  <2>3. TableStep
    BY <1>2, <2>1, <2>2
  <2> QED
    BY <2>1, <2>2, <2>3 DEF Beside
<1>5. ASSUME NEW field \in Vectors, SetVector(field)
      PROVE  StaysEncoding
  <2>1. PICK vector \in Vecs : enc' = [enc EXCEPT ![field] = vector]
    BY <1>5 DEF SetVector, Does
  <2>2. vector \in Seq(Values)
    <3>1. vector \in Seq(Nat) /\ Nat \subseteq Values
      BY <2>1, EncodingsAssumption DEF Values
    <3> QED
      BY <3>1, WiderSeq
  <2>3. /\ IsEncoding(enc') /\ TableStep
        /\ \A g \in Vectors \ {field} : Beside(enc, g) => Beside(enc', g)
    BY <1>4, <2>1, <2>2
  <2>4. TornStep
    BY <1>5, <2>3 DEF TornStep
  <2> QED
    BY <2>3, <2>4 DEF StaysEncoding
<1>6. ASSUME SetSequenceId
      PROVE  StaysEncoding
  <2> DEFINE v == Times(1, Len(enc.ids))
  <2>1. v \in Seq(Values) /\ Len(v) = Len(enc.ids)
    BY <1>1, TimesIs DEF Values
  <2>2. enc' = [enc EXCEPT !["sequence_ids"] = v]
    BY <1>6 DEF SetSequenceId, Does
  <2> HIDE DEF v
  <2>3. "sequence_ids" \in Vectors
    BY DEF Vectors
  <2>4. /\ IsEncoding(enc') /\ TableStep
        /\ \A g \in Vectors \ {"sequence_ids"} : Beside(enc, g) => Beside(enc', g)
    BY <1>4, <2>1, <2>2, <2>3
  <2>5. Beside(enc', "sequence_ids")
    <3>1. enc'["sequence_ids"] = v /\ enc'.ids = enc.ids
      BY <1>1, <2>2, <2>3
    <3>2. materialized(enc', "sequence_ids") = v
      BY <2>1, <2>3, <3>1, SaidIs
    <3> QED
      BY <2>1, <3>1, <3>2 DEF Beside
  <2> QED
    BY <2>4, <2>5 DEF StaysEncoding, TornStep
<1>7. ASSUME SetSequences
      PROVE  StaysEncoding
  <2>1. PICK n \in Lengths : enc' = [enc EXCEPT !.n_sequences = n]
    BY <1>7 DEF SetSequences, Does
  <2>2. /\ DOMAIN enc' = DOMAIN enc /\ enc'.ids = enc.ids /\ enc'.n_sequences \in Nat
        /\ \A field \in Vectors : enc'[field] = enc[field]
    BY <1>1, <2>1, EncodingsAssumption DEF Vectors
  <2>3. IsEncoding(enc')
    BY <1>1, <2>2 DEF IsEncoding
  <2>4. \A field \in Vectors : materialized(enc', field) = materialized(enc, field)
    BY <2>2 DEF materialized
  <2>5. AllBeside(enc') = AllBeside(enc) /\ \A field \in Vectors : Beside(enc', field) = Beside(enc, field)
    BY <2>2, <2>4 DEF AllBeside, Beside
  <2>6. AllBeside(enc) => Rows(enc') = Rows(enc)
    <3>1. \A i : Row(enc', i) = Row(enc, i)
      BY <2>2, <2>4, RowSame
    <3> QED
      BY <2>2, <2>5, <3>1 DEF Rows
  <2>7. TableStep
    BY <1>1, <2>5, <2>6, TableStepIs DEF Table!SetSequences
  <2> QED
    BY <2>3, <2>5, <2>7 DEF StaysEncoding, TornStep
<1> QED
  BY <1>3, <1>5, <1>6, <1>7

\* A merging.
LEMMA MergeKeeps ==
  ASSUME Ordering, EncodingOK, MergeWithAnswer
  PROVE  StaysEncoding
<1> DEFINE answer == encode_encoding(setting, ids)
<1>1. enc' = merge(enc, answer) /\ pc = "encoding" /\ pc' = "encoding"
  BY DEF MergeWithAnswer, Does, vars
<1>2. IsEncoding(enc) /\ setting \in Settings /\ ids \in Seq(Nat)
  BY <1>1 DEF EncodingOK, Ordering, IdsOK
<1>3. IsEncoding(answer) /\ AllBeside(answer) /\ answer.n_sequences = 1
  BY <1>2, AnswerOK
<1> HIDE DEF answer
<1>4. IsEncoding(enc') /\ enc'.n_sequences > enc.n_sequences
  <2>1. IsEncoding(enc') /\ enc'.n_sequences = enc.n_sequences + answer.n_sequences
    BY <1>1, <1>2, <1>3, MergeOK, Zenon
  <2>2. enc.n_sequences \in Nat
    BY <1>2 DEF IsEncoding
  <2> QED
    BY <1>3, <2>1, <2>2
<1>5. /\ \A field \in Vectors : Beside(enc, field) /\ Beside(answer, field) => Beside(enc', field)
      /\ AllBeside(enc) => AllBeside(enc') /\ Table!IsFirst(Rows(enc), Rows(enc'))
  BY <1>1, <1>2, <1>3, MergeRows
<1>6. \A field \in Vectors : Beside(enc, field) => Beside(enc', field)
  BY <1>3, <1>5 DEF AllBeside
<1>7. TableStep
  <2>1. AllBeside(enc) => Table!Merge
    BY <1>4, <1>5 DEF Table!Merge
  <2> QED
    BY <1>1, <1>5, <2>1, TableStepIs
<1> QED
  BY <1>4, <1>6, <1>7 DEF StaysEncoding, TornStep

\* A post-processing, and the arrays that are given away.
LEMMA RenewKeeps ==
  ASSUME Ordering, EncodingOK, PostProcessEncoding \/ into_numpy
  PROVE  StaysEncoding
<1>1. PICK list \in Seq(Nat) : \/ enc' = make(list)
                               \/ list = <<>> /\ enc' = [make(list) EXCEPT !.n_sequences = 0]
  <2>1. CASE PostProcessEncoding
    <3>1. pc = "encoding" /\ enc' = make(post_process(This, enc.ids, TRUE))
      BY <2>1 DEF PostProcessEncoding, Does
    <3>2. IsTokenizer(This) /\ enc.ids \in Seq(Nat)
      BY <3>1, JobsAre DEF This, Ordering, CallsOK, EncodingOK, IsEncoding
    <3>3. post_process(This, enc.ids, TRUE) \in Seq(Nat)
      BY <3>2, PostProcessType
    <3> QED
      BY <3>1, <3>3
  <2>2. CASE into_numpy
    <3>1. enc' = [make(<<>>) EXCEPT !.n_sequences = 0] /\ <<>> \in Seq(Nat)
      BY <2>2 DEF into_numpy, Does
    <3> QED
      BY <3>1, Zenon
  <2> QED
    BY <2>1, <2>2
<1>2. pc = "encoding" /\ pc' = "encoding"
  BY DEF PostProcessEncoding, into_numpy, Does, vars
<1>3. /\ IsEncoding(make(list)) /\ make(list).ids = list /\ make(list).n_sequences = 1
      /\ \A field \in Vectors : make(list)[field] = Unset
  BY MakeOK
<1>4. /\ IsEncoding(enc') /\ enc'.ids = list /\ \A field \in Vectors : enc'[field] = Unset
      /\ enc'.n_sequences = 1 \/ list = <<>>
  BY <1>1, <1>3 DEF IsEncoding, Vectors
<1>5. AllBeside(enc') /\ \A i \in DOMAIN Rows(enc') : IsBlank(Rows(enc')[i])
  BY <1>4, UnsetRows
<1>6. Table!Renew \/ Table!Drain
  <2>1. CASE list = <<>>
    <3>1. Rows(enc') = [i \in 1..0 |-> Row(enc', i)]
      BY <1>4, <1>5, <2>1 DEF Rows
    <3>2. Rows(enc') = <<>>
      BY <3>1
    <3> QED
      BY <3>2 DEF Table!Drain
  <2>2. CASE enc'.n_sequences = 1
    BY <1>5, <2>2 DEF Table!Renew, Table!PostProcess
  <2> QED
    BY <1>4, <2>1, <2>2
<1>7. TableStep
  BY <1>2, <1>5, <1>6, TableStepIs
<1> QED
  BY <1>4, <1>5, <1>7 DEF StaysEncoding, TornStep, AllBeside

\* Every step keeps an Encoding, is one of its table, and tears it as said.
LEMMA EncodingStep ==
  ASSUME Ordering, EncodingOK, [EncNext]_<<vars, encVars>>
  PROVE  EncodingOK' /\ TableStep /\ TornStep
<1>1. ASSUME Wrap \/ New
      PROVE  EncodingOK' /\ TableStep /\ TornStep
  <2>1. pc = "done" /\ pc' = "encoding" /\ setting' \in Settings /\ ids \in Seq(Nat)
    BY <1>1 DEF Wrap, New, Ordering, IdsOK
  <2>2. IsEncoding(enc')
    <3>1. CASE Wrap
      BY <2>1, <3>1, AnswerOK DEF Wrap
    <3>2. CASE New
      <4>1. PICK list \in Vecs, mask \in Vecs \cup {Unset} : enc' = [make(list) EXCEPT !["attention_mask"] = mask]
        BY <3>2 DEF New
      <4>2. list \in Seq(Nat) /\ (mask = Unset \/ mask \in Seq(Nat)) /\ Nat \subseteq Values
        BY <4>1, EncodingsAssumption DEF Values
      <4>3. mask = Unset \/ mask \in Seq(Values)
        BY <4>2, WiderSeq
      <4>4. "attention_mask" \in Vectors /\ IsEncoding(make(list))
        BY <4>2, MakeOK DEF Vectors
      <4> QED
        <5>1. SetTo(make(list), "attention_mask", mask, enc')
          BY <4>1 DEF SetTo
        <5> QED
          BY <4>3, <4>4, <5>1, SetOK
    <3> QED
      BY <1>1, <3>1, <3>2
  <2>3. Table!Make
    BY <2>1 DEF Table!Make
  <2> QED
    BY <2>1, <2>2, <2>3 DEF EncodingOK, TableStep, Table!Next, TornStep
<1>2. ASSUME Release
      PROVE  EncodingOK' /\ TableStep /\ TornStep
  <2>1. pc = "encoding" /\ pc' = "idle" /\ enc' = make(<<>>) /\ <<>> \in Seq(Nat)
    BY <1>2 DEF Release
  <2>2. IsEncoding(enc') /\ AllBeside(enc')
    BY <2>1, MakeOK, UnsetRows
  <2>3. Table!Release
    BY <2>1 DEF Table!Release
  <2> QED
    BY <2>1, <2>2, <2>3 DEF EncodingOK, TableStep, Table!Next, TornStep, AllBeside
<1>3. ASSUME Change
      PROVE  EncodingOK' /\ TableStep /\ TornStep
  <2>1. StaysEncoding
    BY <1>3, TruncateKeeps, PadKeeps, SetKeeps, MergeKeeps, RenewKeeps, Zenon DEF Change
  <2>2. pc = "encoding" /\ setting' = setting
    BY <1>3, ChangesAre
  <2> QED
    BY <2>1, <2>2 DEF StaysEncoding, EncodingOK
<1>4. ASSUME UNCHANGED encVars, pc' = "encoding" <=> pc = "encoding"
      PROVE  EncodingOK' /\ TableStep /\ TornStep
  <2>1. enc' = enc /\ setting' = setting
    BY <1>4 DEF encVars
  <2> QED
    BY <1>4, <2>1 DEF EncodingOK, TableStep, TornStep, Beside
<1> QED
  BY <1>1, <1>2, <1>3, <1>4, EncodingStepsAre

\* No call has an Encoding yet.
LEMMA EncodingInit ==
  ASSUME EncInit
  PROVE  EncodingOK /\ Table!Init
<1>1. pc = "idle" /\ enc = make(<<>>) /\ <<>> \in Seq(Nat)
  BY DEF EncInit, Init
<1>2. /\ IsEncoding(enc) /\ enc.ids = <<>> /\ enc.n_sequences = 1
      /\ \A field \in Vectors : enc[field] = Unset
  BY <1>1, MakeOK
<1>3. AllBeside(enc)
  BY <1>2, UnsetRows
<1>4. Rows(enc) = <<>>
  <2>1. Rows(enc) = [i \in 1..0 |-> Row(enc, i)]
    BY <1>2, <1>3 DEF Rows
  <2> QED
    BY <2>1
<1> QED
  BY <1>1, <1>2, <1>3, <1>4 DEF EncodingOK, Table!Init

\* Whatever is truncated, padded, set, merged, post-processed and given away, in
\* whatever order and whatever a caller sets, an Encoding implements a table of
\* tokens (PyEncoding, TokenRows), if no two added tokens of a tokenizer have one id.
THEOREM EncodingIsTable ==
  ASSUME OneIdEach
  PROVE  EncSpec => RowsKept
<1>1. EncInit => EncodingOK /\ Table!Init
  BY EncodingInit
<1>2. Ordering /\ EncodingOK /\ [EncNext]_<<vars, encVars>> => EncodingOK' /\ TableStep
  BY EncodingStep
<1>3. EncSpec => []Ordering
  BY InOrderAlways
<1> QED
  BY <1>1, <1>2, <1>3, PTL DEF EncSpec, RowsKept, Table!Spec, TableStep

\* A vector with a value for each id is torn from the ids only by a caller that
\* sets it or the ids, or by a truncation that panics at another vector
\* (PyEncoding), if no two added tokens of a tokenizer have one id.
THEOREM OnlySettingTears ==
  ASSUME OneIdEach
  PROVE  EncSpec => TornBySetting
<1>1. EncInit => EncodingOK
  BY EncodingInit
<1>2. Ordering /\ EncodingOK /\ [EncNext]_<<vars, encVars>> => EncodingOK' /\ TornStep
  BY EncodingStep
<1>3. EncSpec => []Ordering
  BY InOrderAlways
<1> QED
  BY <1>1, <1>2, <1>3, PTL DEF EncSpec, TornBySetting, TornStep

\* Zeros around ones attend to what the ones are beside.
LEMMA RealRow ==
  ASSUME NEW e, e.ids \in Seq(Nat), NEW list \in Seq(Nat), NEW a \in Nat, a + Len(list) <= Len(e.ids),
         \A i \in 1..Len(list) : e.ids[a + i] = list[i],
         \A i \in 1..Len(e.ids) : materialized(e, "attention_mask")[i] = IF i \in a + 1..a + Len(list) THEN 1 ELSE 0
  PROVE  Real(e) = list
<1> DEFINE places == {i \in DOMAIN e.ids : materialized(e, "attention_mask")[i] = 1}
<1>1. DOMAIN e.ids = 1..Len(e.ids) /\ Len(e.ids) \in Nat /\ Len(list) \in Nat
  OBVIOUS
<1>2. places = a + 1..a + Len(list)
  BY <1>1
<1>3. Real(e) = Chosen(e.ids, places)
  BY DEF Real
<1> HIDE DEF places
<1> QED
  BY <1>2, <1>3, ChosenRow

\* What is made of ids attends to all of them.
LEMMA MadeReal ==
  ASSUME NEW list \in Seq(Nat)
  PROVE  /\ make(list).ids = list /\ materialized(make(list), "attention_mask") = Times(1, Len(list))
         /\ Real(make(list)) = list
<1>1. make(list).ids = list /\ materialized(make(list), "attention_mask") = Times(1, Len(list))
  BY DEF make, materialized, Default
<1>2. Len(list) \in Nat /\ \A i \in 1..Len(list) : Times(1, Len(list))[i] = 1
  BY DEF Times
<1>3. 0 \in Nat /\ 0 + Len(list) <= Len(make(list).ids) /\ \A i \in 1..Len(list) : make(list).ids[0 + i] = list[i]
  BY <1>1, <1>2
<1>4. \A i \in 1..Len(make(list).ids) :
        materialized(make(list), "attention_mask")[i] = IF i \in 0 + 1..0 + Len(list) THEN 1 ELSE 0
  BY <1>1, <1>2
<1> HIDE DEF Real
<1>5. Real(make(list)) = list
  BY <1>1, <1>3, <1>4, RealRow
<1> QED
  BY <1>1, <1>5

\* What is padded attends to what it was padded from.
LEMMA ExtendedReal ==
  ASSUME NEW list \in Seq(Nat), NEW count \in Nat, NEW pad_type \in Nat
  PROVE  /\ Real(extend_right(make(list), pad_type, count)) = list
         /\ Real(extend_left(make(list), pad_type, count)) = list
         /\ Len(extend_right(make(list), pad_type, count).ids) = Len(list) + count
         /\ Len(extend_left(make(list), pad_type, count).ids) = Len(list) + count
<1> DEFINE n == Len(list)
           e == make(list)
           ones == Times(1, n)
           zeros == Times(0, count)
           pads == Times(PadId, count)
           right == extend_right(e, pad_type, count)
           left == extend_left(e, pad_type, count)
<1>1. IsEncoding(e) /\ e.ids = list /\ materialized(e, "attention_mask") = ones
  BY MakeOK, MadeReal
<1> HIDE DEF e
<1>2. /\ IsEncoding(right) /\ IsEncoding(left) /\ right.ids = list \o pads /\ left.ids = pads \o list
      /\ materialized(right, "attention_mask") = ones \o zeros
      /\ materialized(left, "attention_mask") = zeros \o ones
  <2>1. PutRight(e, pad_type, count, right) /\ PutLeft(e, pad_type, count, left)
    BY <1>1, ExtendOK
  <2>2. "attention_mask" \in Vectors /\ Pads(e, "attention_mask", pad_type) = 0
    BY DEF Vectors, Pads, Grown, PadValue
  <2>3. Beside(e, "attention_mask")
    <3>1. Len(ones) = Len(list)
      <4>1. Len(list) \in Nat /\ 1 \in Nat
        OBVIOUS
      <4> QED
        BY <4>1, TimesIs
    <3> QED
      BY <1>1, <3>1 DEF Beside
  <2> HIDE DEF right, left, ones
  <2> QED
    BY <1>1, <2>1, <2>2, <2>3 DEF PutRight, PutLeft
<1>3. n \in Nat /\ PadId \in Int /\ 0 \in Int /\ 1 \in Int
  BY DEF PadId
<1>4. /\ ones \in Seq(Int) /\ Len(ones) = n /\ \A i \in 1..n : ones[i] = 1
      /\ zeros \in Seq(Int) /\ Len(zeros) = count /\ \A i \in 1..count : zeros[i] = 0
      /\ pads \in Seq(Int) /\ Len(pads) = count
  BY <1>3, TimesIs, Zenon
<1> HIDE DEF right, left, ones, zeros, pads
<1>5. right.ids \in Seq(Nat) /\ left.ids \in Seq(Nat)
  BY <1>2 DEF IsEncoding
<1>6. list \in Seq(Int)
  OBVIOUS
<1>7. /\ Len(list \o pads) = n + count /\ Len(pads \o list) = count + n
      /\ \A i \in 1..n : (list \o pads)[i] = list[i] /\ (pads \o list)[count + i] = list[i]
  <2>1. /\ Len(list \o pads) = n + count /\ Len(pads \o list) = count + n
        /\ \A i \in 1..n + count : (list \o pads)[i] = IF i <= n THEN list[i] ELSE pads[i - n]
        /\ \A i \in 1..count + n : (pads \o list)[i] = IF i <= count THEN pads[i] ELSE list[i - count]
    BY <1>4, <1>6, ConcatProperties
  <2> QED
    BY <1>3, <2>1
<1>8. /\ Len(ones \o zeros) = n + count /\ Len(zeros \o ones) = count + n
      /\ \A i \in 1..n + count : (ones \o zeros)[i] = IF i \in 0 + 1..0 + n THEN 1 ELSE 0
      /\ \A i \in 1..count + n : (zeros \o ones)[i] = IF i \in count + 1..count + n THEN 1 ELSE 0
  <2>1. /\ Len(ones \o zeros) = n + count /\ Len(zeros \o ones) = count + n
        /\ \A i \in 1..n + count : (ones \o zeros)[i] = IF i <= n THEN ones[i] ELSE zeros[i - n]
        /\ \A i \in 1..count + n : (zeros \o ones)[i] = IF i <= count THEN zeros[i] ELSE ones[i - count]
    BY <1>4, ConcatProperties
  <2>2. /\ \A i \in 1..n + count : (ones \o zeros)[i] = IF i <= n THEN 1 ELSE 0
        /\ \A i \in 1..count + n : (zeros \o ones)[i] = IF i <= count THEN 0 ELSE 1
    BY <1>3, <1>4, <2>1
  <2>3. /\ \A i \in 1..n + count : i \in 0 + 1..0 + n <=> i <= n
        /\ \A i \in 1..count + n : i \in count + 1..count + n <=> ~ i <= count
    BY <1>3
  <2> QED
    BY <2>1, <2>2, <2>3
<1>9. /\ \A i \in 1..n + count : materialized(right, "attention_mask")[i] = IF i \in 0 + 1..0 + n THEN 1 ELSE 0
      /\ \A i \in 1..count + n : materialized(left, "attention_mask")[i] = IF i \in count + 1..count + n THEN 1 ELSE 0
  BY <1>2, <1>8
<1> HIDE DEF Real
<1>10. Real(right) = list
  <2> DEFINE a == 0
  <2>1. a \in Nat /\ a + n = n /\ Len(right.ids) = n + count
    BY <1>2, <1>3, <1>7
  <2>2. \A i \in 1..n : right.ids[a + i] = list[i]
    BY <1>2, <1>3, <1>7
  <2>3. \A i \in 1..Len(right.ids) : materialized(right, "attention_mask")[i] = IF i \in a + 1..a + n THEN 1 ELSE 0
    BY <1>9, <2>1
  <2> HIDE DEF a
  <2>4. a + n <= Len(right.ids)
    BY <1>3, <2>1
  <2> QED
    BY <1>5, <2>1, <2>2, <2>3, <2>4, RealRow
<1>11. Real(left) = list
  <2>1. Len(left.ids) = count + n /\ count + n <= count + n
    BY <1>2, <1>3, <1>7
  <2>2. \A i \in 1..n : left.ids[count + i] = list[i]
    BY <1>2, <1>7
  <2>3. \A i \in 1..Len(left.ids) : materialized(left, "attention_mask")[i] = IF i \in count + 1..count + n THEN 1 ELSE 0
    BY <1>9, <2>1
  <2>4. count + n <= Len(left.ids)
    BY <2>1
  <2> QED
    BY <1>5, <2>2, <2>3, <2>4, RealRow
<1> QED
  BY <1>2, <1>3, <1>7, <1>10, <1>11 DEF right, left, e

\* What encode builds is as long as padding says, and attends to its ids.
LEMMA BuiltIs ==
  ASSUME NEW s \in Settings, NEW list \in Seq(Nat), NEW target \in Nat, target >= Len(list)
  PROVE  /\ Real(build_encoding(s.pad, list, target)) = list
         /\ s.pad # Off => Len(build_encoding(s.pad, list, target).ids) = target
<1> DEFINE n == Len(list)
           t == s.pad.pad_type
           b == build_encoding(s.pad, list, target)
<1>1. n \in Nat /\ make(list).ids = list /\ Real(make(list)) = list
  BY MadeReal
<1> HIDE DEF Real
<1>2. CASE s.pad = Off
  BY <1>1, <1>2 DEF build_encoding
<1>3. CASE s.pad # Off
  <2>1. t \in Nat
    BY <1>3, EncodingsAssumption
  <2>2. b = pad(make(list), target, s.pad.direction, t)
    BY <1>3 DEF build_encoding
  <2> HIDE DEF b, t
  <2>3. CASE target = n
    <3>1. b = make(list)
      BY <1>1, <2>2, <2>3 DEF pad
    <3> QED
      BY <1>1, <2>3, <3>1 DEF b
  <2>4. CASE target # n
    <3> DEFINE count == target - n
    <3>1. count \in Nat /\ n + count = target
      BY <1>1, <2>4
    <3>2. b \in {extend_left(make(list), t, count), extend_right(make(list), t, count)}
      BY <1>1, <2>2, <2>4 DEF pad
    <3> HIDE DEF count
    <3> HIDE DEF n
    <3>3. Real(b) = list /\ Len(b.ids) = n + count
      <4>1. /\ Real(extend_right(make(list), t, count)) = list /\ Real(extend_left(make(list), t, count)) = list
            /\ Len(extend_right(make(list), t, count).ids) = n + count /\ Len(extend_left(make(list), t, count).ids) = n + count
        BY <2>1, <3>1, ExtendedReal DEF n
      <4> QED
        BY <3>2, <4>1
    <3> QED
      BY <3>1, <3>3 DEF b
  <2> QED
    BY <2>3, <2>4
<1> QED
  BY <1>2, <1>3

\* The longest answer of a batch of one, and of two.
LEMMA LongestIsAnswer ==
  ASSUME NEW a \in Nat, NEW b \in Nat
  PROVE  Max({0} \cup {a}) = a /\ Max({0} \cup {a, b}) \in Nat /\ Max({0} \cup {a, b}) >= a /\ Max({0} \cup {a, b}) >= b
<1>1. ASSUME NEW c \in {a, b}
      PROVE  LET S == {0} \cup {a, c} IN Max(S) \in S /\ \A y \in S : Max(S) >= y
  <2> DEFINE S == {0} \cup {a, c}
  <2>1. \E x \in S : \A y \in S : x >= y
    OBVIOUS
  <2> QED
    BY <2>1, Zenon DEF Max
<1>2. {0} \cup {a} = {0} \cup {a, a} /\ a \in {a, b} /\ b \in {a, b}
  OBVIOUS
<1> QED
  BY <1>1, <1>2

\* What is left of a list, and what the answers of a batch are padded to.
Left(s, list) == do_truncate(s.trunc, list)
\* The length an Encoding is padded to, and the answers of a batch by it.
Target(s, longest, list) == IF s.pad = Off THEN Len(Left(s, list)) ELSE pad_target(s.pad, longest)
Answer(s, longest, list) == build_encoding(s.pad, Left(s, list), Target(s, longest, list))
Answers(s, lists, n) == [i \in 1..n |-> Answer(s, Max({0} \cup {Len(Left(s, lists[j])) : j \in 1..n}), lists[i])]

\* The answers of a batch.
LEMMA BatchIs ==
  ASSUME NEW s, NEW lists, NEW n, DOMAIN lists = 1..n
  PROVE  encode_batch_encodings(s, lists) = Answers(s, lists, n)
<1> DEFINE cut == [i \in DOMAIN lists |-> do_truncate(s.trunc, lists[i])]
<1>1. DOMAIN cut = 1..n /\ \A i \in 1..n : cut[i] = Left(s, lists[i])
  BY DEF Left
<1>2. encode_batch_encodings(s, lists) =
        [i \in DOMAIN cut |->
            build_encoding(s.pad, cut[i], IF s.pad = Off THEN Len(cut[i])
                                          ELSE pad_target(s.pad, Max({0} \cup {Len(cut[j]) : j \in DOMAIN cut})))]
  BY Zenon DEF encode_batch_encodings
<1> HIDE DEF cut
<1>3. {Len(cut[j]) : j \in DOMAIN cut} = {Len(Left(s, lists[j])) : j \in 1..n}
  BY <1>1
<1> QED
  BY <1>1, <1>2, <1>3 DEF Answers, Answer, Target

\* The answer of a batch of one.
LEMMA BatchOfOne ==
  ASSUME NEW s, NEW x
  PROVE  encode_batch_encodings(s, <<x>>) =
           <<Answer(s, Max({0} \cup {Len(Left(s, x))}), x)>>
<1> DEFINE lists == <<x>>
           lengths == {Len(Left(s, lists[j])) : j \in 1..1}
           b(i) == Answer(s, Max({0} \cup lengths), lists[i])
<1>1. DOMAIN lists = 1..1 /\ lists[1] = x
  OBVIOUS
<1> HIDE DEF lists
<1>2. lengths = {Len(Left(s, x))}
  <2>1. 1 \in 1..1 /\ \A j \in 1..1 : j = 1
    OBVIOUS
  <2> QED
    BY <1>1, <2>1
<1>3. encode_batch_encodings(s, lists) = [i \in 1..1 |-> b(i)]
  <2>1. encode_batch_encodings(s, lists) = Answers(s, lists, 1)
    BY <1>1, BatchIs
  <2> QED
    BY <2>1, Zenon DEF Answers
<1> HIDE DEF lengths
<1>4. b(1) = Answer(s, Max({0} \cup {Len(Left(s, x))}), x)
  BY <1>1, <1>2
<1> HIDE DEF b
<1>5. [i \in 1..1 |-> b(i)] = <<b(1)>>
  OBVIOUS
<1> QED
  BY <1>3, <1>4, <1>5 DEF lists

\* The answers of a batch of two.
LEMMA BatchOfTwo ==
  ASSUME NEW s, NEW x, NEW y
  PROVE  /\ encode_batch_encodings(s, <<x, y>>)[1] =
              Answer(s, Max({0} \cup {Len(Left(s, x)), Len(Left(s, y))}), x)
         /\ encode_batch_encodings(s, <<x, y>>)[2] =
              Answer(s, Max({0} \cup {Len(Left(s, x)), Len(Left(s, y))}), y)
<1> DEFINE lists == <<x, y>>
           lengths == {Len(Left(s, lists[j])) : j \in 1..2}
           b(i) == Answer(s, Max({0} \cup lengths), lists[i])
<1>1. DOMAIN lists = 1..2 /\ lists[1] = x /\ lists[2] = y
  OBVIOUS
<1> HIDE DEF lists
<1>2. lengths = {Len(Left(s, x)), Len(Left(s, y))}
  <2>1. 1 \in 1..2 /\ 2 \in 1..2 /\ \A j \in 1..2 : j = 1 \/ j = 2
    OBVIOUS
  <2> QED
    BY <1>1, <2>1
<1>3. encode_batch_encodings(s, lists) = [i \in 1..2 |-> b(i)]
  <2>1. encode_batch_encodings(s, lists) = Answers(s, lists, 2)
    BY <1>1, BatchIs
  <2> QED
    BY <2>1, Zenon DEF Answers
<1> HIDE DEF lengths
<1>4. /\ b(1) = Answer(s, Max({0} \cup {Len(Left(s, x)), Len(Left(s, y))}), x)
      /\ b(2) = Answer(s, Max({0} \cup {Len(Left(s, x)), Len(Left(s, y))}), y)
  BY <1>1, <1>2
<1> HIDE DEF b
<1>5. [i \in 1..2 |-> b(i)][1] = b(1) /\ [i \in 1..2 |-> b(i)][2] = b(2)
  OBVIOUS
<1> QED
  BY <1>3, <1>4, <1>5 DEF lists

\* The answer of encode.
LEMMA AnswerIs ==
  ASSUME NEW s, NEW x
  PROVE  encode_encoding(s, x) = build_encoding(s.pad, Left(s, x), pad_target(s.pad, Len(Left(s, x))))
BY Zenon DEF encode_encoding, Left

-----------------------------------------------------------------------------
\* The answers are aligned whatever the settings and the ids are.
LEMMA AnswersAlign ==
  ASSUME NEW s \in Settings, NEW list \in Seq(Nat)
  PROVE  Aligned(s, list, encode_encoding(s, list))
<1> DEFINE x == Left(s, list)
           y == Left(s, s.other)
           most == Max({0} \cup {Len(x), Len(y)})
           alone == pad_target(s.pad, Len(x))
           both == pad_target(s.pad, most)
           answer == encode_encoding(s, list)
           batch == encode_batch_encodings(s, <<list, s.other>>)
           one == encode_batch_encodings(s, <<list>>)
<1>1. s.other \in Seq(Nat)
  BY EncodingsAssumption
<1>2. x \in Seq(Nat) /\ y \in Seq(Nat) /\ Len(x) \in Nat /\ Len(y) \in Nat
  <2>1. x \in Seq(Nat)
    BY CutIs DEF Left
  <2>2. y \in Seq(Nat)
    BY <1>1, CutIs DEF Left
  <2> HIDE DEF x, y
  <2> QED
    BY <2>1, <2>2
<1>3. answer = build_encoding(s.pad, x, alone)
  BY AnswerIs
<1>4. one = <<build_encoding(s.pad, x, Target(s, Max({0} \cup {Len(x)}), list))>>
  BY BatchOfOne, Zenon DEF Answer
<1>5. /\ batch[1] = build_encoding(s.pad, x, Target(s, most, list))
      /\ batch[2] = build_encoding(s.pad, y, Target(s, most, s.other))
  <2>1. batch[1] = Answer(s, most, list) /\ batch[2] = Answer(s, most, s.other)
    <3> DEFINE z == s.other
    <3> HIDE DEF z
    <3>1. /\ encode_batch_encodings(s, <<list, z>>)[1] = Answer(s, Max({0} \cup {Len(Left(s, list)), Len(Left(s, z))}), list)
          /\ encode_batch_encodings(s, <<list, z>>)[2] = Answer(s, Max({0} \cup {Len(Left(s, list)), Len(Left(s, z))}), z)
      BY BatchOfTwo
    <3> QED
      BY <3>1, Zenon DEF z
  <2> QED
    BY <2>1, Zenon DEF Answer
<1>6. x = do_truncate(s.trunc, list) /\ (s.trunc # Off => Len(x) = Min({s.trunc.max, Len(list)}))
  BY CutIs DEF Left
<1> HIDE DEF batch, one, answer
<1>7. Max({0} \cup {Len(x)}) = Len(x) /\ most \in Nat /\ most >= Len(x) /\ most >= Len(y)
  BY <1>2, LongestIsAnswer
<1>8. /\ Target(s, Len(x), list) = alone
      /\ s.pad # Off => Target(s, most, list) = both /\ Target(s, most, s.other) = both
      /\ s.pad = Off => Target(s, most, list) = Len(x) /\ Target(s, most, s.other) = Len(y)
  BY DEF Target, pad_target
<1> HIDE DEF x, y, most, Real
<1>9. /\ alone \in Nat /\ alone >= Len(x)
      /\ s.pad # Off => alone >= s.pad.length /\ (s.pad.multiple > 0 => alone % s.pad.multiple = 0)
      /\ both \in Nat /\ both >= most
  BY <1>2, <1>7, TargetIs
<1> HIDE DEF alone, both
<1>10. one = <<answer>>
  BY <1>3, <1>4, <1>7, <1>8
<1>11. Real(answer) = x /\ (s.pad # Off => Len(answer.ids) = alone)
  BY <1>2, <1>3, <1>9, BuiltIs
<1> DEFINE tx == Target(s, most, list)
           ty == Target(s, most, s.other)
<1>12. tx \in Nat /\ tx >= Len(x) /\ ty \in Nat /\ ty >= Len(y)
  BY <1>2, <1>7, <1>8, <1>9
<1> HIDE DEF tx, ty
<1>13. Real(batch[1]) = x /\ (s.pad # Off => Len(batch[1].ids) = tx /\ Len(batch[2].ids) = ty)
  BY <1>2, <1>5, <1>12, BuiltIs DEF tx, ty
<1>14. s.pad # Off => Len(batch[1].ids) = Len(batch[2].ids)
  BY <1>8, <1>13 DEF tx, ty
<1>15. s.pad # Off => Len(answer.ids) >= s.pad.length /\ (s.pad.multiple > 0 => Len(answer.ids) % s.pad.multiple = 0)
  BY <1>9, <1>11
<1> QED
  BY <1>6, <1>10, <1>11, <1>13, <1>14, <1>15 DEF Aligned, answer, batch, one

\* Nothing was done yet to an Encoding that was just made.
AnswerStays == ops \in Nat /\ (pc = "encoding" /\ ops = 0 => enc = encode_encoding(setting, ids))

\* No step makes another Encoding of the ids.
LEMMA AnswerStaysStep ==
  ASSUME AnswerStays, [EncNext]_<<vars, encVars>>
  PROVE  AnswerStays'
<1>1. ASSUME Wrap
      PROVE  AnswerStays'
  BY <1>1 DEF Wrap, AnswerStays
<1>2. ASSUME New
      PROVE  AnswerStays'
  BY <1>2 DEF New, AnswerStays
<1>3. ASSUME Change
      PROVE  AnswerStays'
  BY <1>3, ChangesAre DEF AnswerStays
<1>4. ASSUME Release
      PROVE  AnswerStays'
  BY <1>4 DEF Release, AnswerStays
<1>5. ASSUME Next, UNCHANGED encVars
      PROVE  AnswerStays'
  <2>1. pc' # "encoding"
    BY <1>5 DEF Next, Begin, SplitAdded, PreTokenize, ModelTokenize, PostProcess, BeginIds, NewStream, StepHolds,
       StepReturns, StepFails, Return
  <2> QED
    BY <1>5, <2>1 DEF encVars, AnswerStays
<1>6. ASSUME UNCHANGED <<vars, encVars>>
      PROVE  AnswerStays'
  BY <1>6 DEF vars, encVars, AnswerStays
<1> QED
  BY <1>1, <1>2, <1>3, <1>4, <1>5, <1>6 DEF EncNext

\* An encode is a batch of one, the answers of a padded batch are of one length,
\* a multiple of what is asked and not below the length asked, and each attends to
\* what truncation leaves of its ids (encode_batch_encodings, encode_encoding).
THEOREM AnswersOfABatch ==
  ASSUME OneIdEach
  PROVE  EncSpec => []BatchAligned
<1>1. EncInit => EncodingOK /\ AnswerStays
  <2> SUFFICES ASSUME EncInit
               PROVE  EncodingOK /\ AnswerStays
    OBVIOUS
  <2>1. pc = "idle" /\ ops = 0
    BY DEF EncInit, Init
  <2> QED
    BY <2>1, EncodingInit DEF AnswerStays
<1>2. Ordering /\ EncodingOK /\ AnswerStays /\ [EncNext]_<<vars, encVars>> => EncodingOK' /\ AnswerStays'
  BY EncodingStep, AnswerStaysStep
<1>3. Ordering /\ EncodingOK /\ AnswerStays => BatchAligned
  <2> SUFFICES ASSUME Ordering, EncodingOK, AnswerStays, pc = "encoding", ops = 0
               PROVE  BatchAligned
    BY DEF BatchAligned
  <2>1. setting \in Settings /\ ids \in Seq(Nat) /\ enc = encode_encoding(setting, ids)
    BY DEF EncodingOK, Ordering, IdsOK, AnswerStays
  <2>2. Aligned(setting, ids, encode_encoding(setting, ids))
    BY <2>1, AnswersAlign
  <2> QED
    BY <2>1, <2>2 DEF BatchAligned
<1>4. EncSpec => []Ordering
  BY InOrderAlways
<1> QED
  BY <1>1, <1>2, <1>3, <1>4, PTL DEF EncSpec

(***************************************************************************)
(* Encoding the bytes in the model.                                        *)
(***************************************************************************)

\* The ids of a split, if it has any, and those of every split.
MaybeIds == Seq(Nat) \cup {NoIds}
AllOf(tk, p, fused) == [i \in DOMAIN p.splits |-> IdsOf(tk, p, fused, p.splits[i])]

\* Each split has ids, or none.
LEMMA AllOfType ==
  ASSUME NEW tk, IsTokenizer(tk), NEW p \in Tiled, NEW fused \in BOOLEAN
  PROVE  /\ AllOf(tk, p, fused) \in Seq(MaybeIds) /\ Len(AllOf(tk, p, fused)) = Len(p.splits)
         /\ Len(p.splits) \in Nat /\ DOMAIN p.splits = 1..Len(p.splits)
         /\ \A i \in 1..Len(p.splits) : AllOf(tk, p, fused)[i] = IdsOf(tk, p, fused, p.splits[i])
<1> DEFINE n == Len(p.splits)
           all == AllOf(tk, p, fused)
<1>1. n \in Nat /\ DOMAIN p.splits = 1..n
  <2>1. p.splits \in Seq(TextSplits)
    BY DEF Tiled
  <2> QED
    BY <2>1
<1>2. \A i \in 1..n : IdsOf(tk, p, fused, p.splits[i]) \in MaybeIds
  BY IdsOfType DEF MaybeIds
<1>3. all = [i \in 1..n |-> IdsOf(tk, p, fused, p.splits[i])]
  BY <1>1 DEF AllOf
<1>4. all \in [1..n -> MaybeIds]
  BY <1>2, <1>3
<1> HIDE DEF all, n
<1>5. all \in Seq(MaybeIds) /\ Len(all) = n
  BY <1>1, <1>4, Tabled
<1> QED
  BY <1>1, <1>3, <1>5 DEF all, n

\* The model gives the ids of all splits, unless one has none.
LEMMA TokenizeSplitsIs ==
  ASSUME NEW tk, NEW p, NEW fused
  PROVE  TokenizeSplits(tk, p, fused) = UnlessNone(AllOf(tk, p, fused))
BY Zenon DEF TokenizeSplits, AllOf, IdsOf

\* What is put at the end of the buffer is found there.
LEMMA BackIs ==
  ASSUME NEW s \in Seq(Bytes), NEW t \in Seq(Bytes)
  PROVE  SubSeq(s \o t, Len(s) + 1, Len(s) + Len(t) + 1 - 1) = t
OBVIOUS

\* A text or a token at the end of the buffer has its ids after those there are.
Extends(q, p, t, sp) == q.buffer = p.buffer \o t /\ q.splits = Append(p.splits, sp)

\* One more split at the end of a tiled text has its ids after those of the others.
LEMMA AllOfGrows ==
  ASSUME NEW tk, IsTokenizer(tk), NEW p \in Tiled, NEW q \in Tiled, NEW t \in Seq(Bytes), NEW sp,
         Extends(q, p, t, sp)
  PROVE  /\ AllOf(tk, q, FALSE) = Append(AllOf(tk, p, FALSE), IdsOf(tk, q, FALSE, sp))
         /\ IdsOf(tk, q, FALSE, sp) \in MaybeIds
<1> DEFINE n == Len(p.splits)
           old == AllOf(tk, p, FALSE)
           new == AllOf(tk, q, FALSE)
           x == IdsOf(tk, q, FALSE, sp)
<1>1. /\ old \in Seq(MaybeIds) /\ Len(old) = n /\ n \in Nat
      /\ \A i \in 1..n : old[i] = IdsOf(tk, p, FALSE, p.splits[i])
      /\ new \in Seq(MaybeIds) /\ Len(new) = Len(q.splits)
      /\ \A i \in 1..Len(q.splits) : new[i] = IdsOf(tk, q, FALSE, q.splits[i])
  BY AllOfType
<1> HIDE DEF old, new
<1>2. /\ Len(q.splits) = n + 1 /\ q.splits[n + 1] = sp
      /\ \A i \in 1..n : q.splits[i] = p.splits[i]
  <2>1. p.splits \in Seq(TextSplits)
    BY DEF Tiled
  <2>2. q.splits \in Seq(TextSplits)
    BY DEF Tiled
  <2>3. q.splits = Append(p.splits, sp) /\ sp \in TextSplits
    <3>1. q.splits = Append(p.splits, sp)
      BY DEF Extends
    <3> QED
      BY <2>1, <2>2, <3>1
  <2> QED
    BY <2>1, <2>3
<1>3. ASSUME NEW i \in 1..n
      PROVE  IdsOf(tk, q, FALSE, p.splits[i]) = IdsOf(tk, p, FALSE, p.splits[i])
  <2> DEFINE v == p.splits[i]
             b == p.buffer
  <2>1. v \in TextSplits /\ FitsText(b, v) /\ b \in Strings
    BY SplitTextIs
  <2> HIDE DEF v, b
  <2>2. b \in Seq(Bytes) /\ Len(b) \in Nat /\ v.from \in Nat \ {0} /\ v.to - 1 \in 0..Len(b)
    <3>1. b \in Seq(Bytes) /\ Len(b) \in Nat
      BY <2>1 DEF Strings
    <3> QED
      BY <2>1, <3>1 DEF FitsText, IsCut
  <2>3. SubSeq(b \o t, v.from, v.to - 1) = SubSeq(b, v.from, v.to - 1)
    BY <2>2, FrontStays
  <2>4. split_text(q, v) = split_text(p, v)
    BY <2>3, Zenon DEF split_text, b, Extends
  <2> QED
    BY <2>4, Zenon DEF IdsOf, v
<1> HIDE DEF n
<1>4. new[n + 1] = x /\ n + 1 \in 1..n + 1
  <2>1. n + 1 \in 1..n + 1
    BY <1>1
  <2> QED
    BY <1>1, <1>2, <2>1
<1>5. x \in MaybeIds
  <2> HIDE DEF x
  <2>1. Len(new) = n + 1
    BY <1>1, <1>2
  <2>2. new[n + 1] \in MaybeIds
    BY <1>1, <1>4, <2>1
  <2> QED
    BY <1>4, <2>2
<1> HIDE DEF x
<1>6. \A i \in 1..n : new[i] = old[i]
  <2> SUFFICES ASSUME NEW i \in 1..n
               PROVE  new[i] = old[i]
    OBVIOUS
  <2>1. i \in 1..Len(q.splits)
    BY <1>1, <1>2
  <2>2. new[i] = IdsOf(tk, q, FALSE, q.splits[i])
    BY <1>1, <2>1
  <2> QED
    BY <1>1, <1>2, <1>3, <2>2
<1>7. Append(old, x) \in Seq(MaybeIds) /\ Len(Append(old, x)) = n + 1 /\ Append(old, x)[n + 1] = x
      /\ \A i \in 1..n : Append(old, x)[i] = old[i]
  BY <1>1, <1>5
<1>8. \A i \in 1..n + 1 : i \in 1..n \/ i = n + 1
  BY <1>1
<1>9. \A i \in 1..Len(new) : new[i] = Append(old, x)[i]
  BY <1>1, <1>2, <1>4, <1>6, <1>7, <1>8
<1>10. new = Append(old, x)
  BY <1>1, <1>2, <1>7, <1>9, SameSeq
<1> QED
  BY <1>5, <1>10 DEF new, old, x

\* Ids after ids, if there are both.
Both(a, b) == IF a = NoIds \/ b = NoIds THEN NoIds ELSE a \o b

\* Ids are missing of all if they are of one.
LEMMA UnlessNoneType ==
  ASSUME NEW all \in Seq(MaybeIds)
  PROVE  /\ UnlessNone(all) = NoIds <=> \E i \in 1..Len(all) : all[i] = NoIds
         /\ UnlessNone(all) # NoIds => all \in Seq(Seq(Nat)) /\ UnlessNone(all) = FlattenSeq(all)
<1> DEFINE n == Len(all)
<1>1. n \in Nat /\ DOMAIN all = 1..n
  OBVIOUS
<1>2. \A x \in Seq(Nat) : x # NoIds
  BY DEF NoIds, NoId
<1>3. CASE \E i \in 1..n : all[i] = NoIds
  BY <1>1, <1>3 DEF UnlessNone
<1>4. CASE \A i \in 1..n : all[i] # NoIds
  <2>1. \A i \in 1..n : all[i] \in Seq(Nat)
    BY <1>1, <1>4 DEF MaybeIds
  <2>2. all \in Seq(Seq(Nat))
    BY <1>1, <2>1
  <2>3. FlattenSeq(all) \in Seq(Nat)
    BY <2>2, FlattenType
  <2>4. UnlessNone(all) = FlattenSeq(all)
    BY <1>1, <1>4 DEF UnlessNone
  <2> QED
    BY <1>2, <1>4, <2>2, <2>3, <2>4
<1> QED
  BY <1>3, <1>4

\* One more split adds its ids, or takes away all.
LEMMA UnlessNoneGrows ==
  ASSUME NEW all \in Seq(MaybeIds), NEW x \in MaybeIds
  PROVE  UnlessNone(Append(all, x)) = Both(UnlessNone(all), x)
<1> DEFINE new == Append(all, x)
           n == Len(all)
<1>1. new \in Seq(MaybeIds) /\ Len(new) = n + 1 /\ n \in Nat /\ new[n + 1] = x /\ \A i \in 1..n : new[i] = all[i]
  OBVIOUS
<1> HIDE DEF new, n
<1>2. \A i \in 1..n + 1 : i \in 1..n \/ i = n + 1
  BY <1>1
<1>3. UnlessNone(new) = NoIds <=> UnlessNone(all) = NoIds \/ x = NoIds
  <2>1. UnlessNone(new) = NoIds <=> \E i \in 1..n + 1 : new[i] = NoIds
    BY <1>1, UnlessNoneType
  <2>2. UnlessNone(all) = NoIds <=> \E i \in 1..n : all[i] = NoIds
    BY UnlessNoneType DEF n
  <2>3. n + 1 \in 1..n + 1 /\ \A i \in 1..n : i \in 1..n + 1
    BY <1>1
  <2> QED
    BY <1>1, <1>2, <2>1, <2>2, <2>3
<1>4. CASE UnlessNone(all) = NoIds \/ x = NoIds
  BY <1>3, <1>4 DEF Both, new
<1>5. CASE ~ (UnlessNone(all) = NoIds \/ x = NoIds)
  <2>1. all \in Seq(Seq(Nat)) /\ UnlessNone(all) = FlattenSeq(all)
    BY <1>5, UnlessNoneType
  <2>2. x \in Seq(Nat)
    BY <1>5 DEF MaybeIds
  <2>3. UnlessNone(new) = FlattenSeq(new)
    BY <1>1, <1>3, <1>5, UnlessNoneType
  <2>4. FlattenSeq(new) = FlattenSeq(all) \o x
    BY <2>1, <2>2, FlattenAppend DEF new
  <2> QED
    BY <1>5, <2>1, <2>3, <2>4 DEF Both, new
<1> QED
  BY <1>4, <1>5

\* The ids of a split and of all splits, on the path that does not fuse.
IdsIn(tk, p, sp) == IdsOf(tk, p, FALSE, sp)
AllIn(tk, p) == UnlessNone(AllOf(tk, p, FALSE))

\* A tiled text with one more split at its end: its ids are those it had, then the
\* ids of that split.
LEMMA OneMore ==
  ASSUME NEW tk, IsTokenizer(tk), NEW p \in Tiled, NEW q \in Tiled, NEW t \in Seq(Bytes), NEW sp,
         Extends(q, p, t, sp)
  PROVE  AllIn(tk, q) = Both(AllIn(tk, p), IdsIn(tk, q, sp))
<1> DEFINE old == AllOf(tk, p, FALSE)
           new == AllOf(tk, q, FALSE)
           x == IdsOf(tk, q, FALSE, sp)
<1>1. new = Append(old, x) /\ x \in MaybeIds
  BY AllOfGrows
<1>2. old \in Seq(MaybeIds)
  BY AllOfType
<1> HIDE DEF old, new, x
<1>3. UnlessNone(new) = Both(UnlessNone(old), x)
  BY <1>1, <1>2, UnlessNoneGrows
<1> QED
  BY <1>3 DEF old, new, x, AllIn, IdsIn

\* One of the splits.
IsSplitOf(p, sp) == \E i \in 1..Len(p.splits) : sp = p.splits[i]

\* A split of a tiled text is a text of the program's, and has ids or none.
LEMMA SplitOfIs ==
  ASSUME NEW tk, IsTokenizer(tk), NEW p \in Tiled, NEW sp, IsSplitOf(p, sp)
  PROVE  /\ sp \in TextSplits /\ split_text(p, sp) \in Strings /\ FitsText(p.buffer, sp) /\ p.buffer \in Strings
         /\ IdsOf(tk, p, TRUE, sp) \in MaybeIds
<1>1. PICK i \in 1..Len(p.splits) : sp = p.splits[i]
  BY DEF IsSplitOf
<1>2. IdsOf(tk, p, TRUE, p.splits[i]) \in MaybeIds
  BY IdsOfType DEF MaybeIds
<1> QED
  BY <1>1, <1>2, SplitTextIs

\* What the bulk path makes of a split has the ids the model makes of it.
LEMMA AddBytesAdds ==
  ASSUME NEW tk, IsTokenizer(tk), NEW p \in Tiled, NEW acc \in Tiled, NEW sp, IsSplitOf(p, sp)
  PROVE  AllIn(tk, AddBytes(p, acc, sp)) =
           Both(AllIn(tk, acc), IdsOf(tk, p, TRUE, sp))
<1> DEFINE x == IdsOf(tk, p, TRUE, sp)
           b == acc.buffer
<1>1. sp \in TextSplits /\ split_text(p, sp) \in Strings
  BY SplitOfIs
<1>2. x \in MaybeIds
  BY SplitOfIs
<1>3. AllOf(tk, acc, FALSE) \in Seq(MaybeIds)
  BY AllOfType
<1>4. b \in Seq(Bytes) /\ b \in Strings /\ acc.splits \in Seq(TextSplits) /\ acc = [buffer |-> b, splits |-> acc.splits]
  BY DEF Tiled, Strings
<1>5. ASSUME NEW q \in Tiled, NEW t \in Seq(Bytes), NEW new, Extends(q, acc, t, new)
      PROVE  AllIn(tk, q) = Both(AllIn(tk, acc), IdsIn(tk, q, new))
  BY <1>5, OneMore
<1>6. CASE sp.id # NoId
  <2> DEFINE q == WithToken(acc, sp.id)
             new == Split(Len(b) + 1, Len(b) + 1, sp.id)
  <2>1. sp.id \in Nat
    BY <1>1, <1>6 DEF TextSplits, NoId, NoToken
  <2>2. q \in Tiled
    BY <2>1, TiledGrows
  <2>3. q = [acc EXCEPT !.splits = Append(@, new)]
    BY DEF WithToken
  <2>4. <<>> \in Seq(Bytes) /\ b \o <<>> = b
    BY <1>4
  <2>5. Extends(q, acc, <<>>, new)
    BY <1>4, <2>3, <2>4 DEF Extends
  <2>6. new.id = sp.id
    BY DEF Split
  <2> HIDE DEF new
  <2>7. IdsIn(tk, q, new) = x
    BY <1>6, <2>6 DEF IdsOf, IdsIn
  <2>8. AddBytes(p, acc, sp) = q
    BY <1>6 DEF AddBytes
  <2> HIDE DEF q, x
  <2> QED
    BY <1>5, <2>2, <2>4, <2>5, <2>7, <2>8 DEF x
<1>7. CASE sp.id = NoId /\ sp.from = sp.to
  <2>1. split_text(p, sp) = <<>>
    <3>1. sp.from \in Nat
      BY <1>1 DEF TextSplits
    <3>2. sp.to - 1 < sp.from
      BY <1>7, <3>1
    <3>3. FitsText(p.buffer, sp) /\ p.buffer \in Seq(Bytes)
      BY SplitOfIs DEF Strings
    <3> QED
      BY <1>1, <3>1, <3>2, <3>3 DEF split_text, TextSplits
  <2>2. encode_bytes(<<>>) = <<>>
    <3>1. [j \in 1..Len(<<>>) |-> BYTE_TO_CHAR(<<>>[j])] = <<>>
      OBVIOUS
    <3> QED
      BY <3>1, NothingIsText DEF encode_bytes
  <2>3. x = <<>>
    BY <1>7, <2>1, <2>2 DEF IdsOf, Tokenize
  <2>4. AddBytes(p, acc, sp) = acc
    BY <1>7 DEF AddBytes
  <2>5. AllIn(tk, acc) # NoIds => AllIn(tk, acc) \in Seq(Nat)
    BY <1>3, UnlessNoneType, FlattenType DEF AllIn
  <2> HIDE DEF x
  <2>6. Both(AllIn(tk, acc), x) = AllIn(tk, acc)
    <3> DEFINE u == AllIn(tk, acc)
    <3> HIDE DEF u, AllIn
    <3>1. <<>> # NoIds
      BY DEF NoIds
    <3>2. CASE u = NoIds
      BY <3>2 DEF Both, u
    <3>3. CASE u # NoIds
      <4>1. u \in Seq(Nat)
        BY <2>5, <3>3 DEF u, AllIn
      <4>2. u \o <<>> = u
        BY <4>1
      <4> QED
        BY <2>3, <3>1, <3>3, <4>2 DEF Both, u
    <3> QED
      BY <3>2, <3>3
  <2> QED
    BY <2>4, <2>6 DEF x
<1>8. CASE sp.id = NoId /\ sp.from # sp.to
  <2> DEFINE t == encode_bytes(split_text(p, sp))
             q == WithText(acc, t)
             new == Split(Len(b) + 1, Len(b) + Len(t) + 1, NoId)
  <2>1. t \in Strings /\ t \in Seq(Bytes)
    BY <1>1, EncodedIsText DEF Strings
  <2>2. q \in Tiled
    BY <2>1, TiledGrows
  <2>3. x = Tokenize(tk, t)
    BY <1>8 DEF IdsOf, IdsIn
  <2>4. AddBytes(p, acc, sp) = q
    BY <1>8 DEF AddBytes, WithBytes
  <2> HIDE DEF t
  <2>5. q = [buffer |-> b \o t, splits |-> Append(acc.splits, new)]
    BY DEF WithText
  <2>6. Extends(q, acc, t, new) /\ q.buffer = b \o t
    BY <2>5 DEF Extends
  <2> HIDE DEF q
  <2>7. new.id = NoId /\ new.from = Len(b) + 1 /\ new.to = Len(b) + Len(t) + 1
    BY DEF Split
  <2> HIDE DEF new
  <2>8. split_text(q, new) = t
    <3>1. SubSeq(b \o t, Len(b) + 1, Len(b) + Len(t) + 1 - 1) = t
      BY <1>4, <2>1, BackIs
    <3>2. new.to - 1 = Len(b) + Len(t) + 1 - 1
      BY <2>7
    <3> QED
      BY <2>6, <2>7, <3>1, <3>2, Zenon DEF split_text
  <2>9. IdsIn(tk, q, new) = Tokenize(tk, t)
    BY <2>7, <2>8 DEF IdsOf, IdsIn
  <2> HIDE DEF x
  <2> QED
    BY <1>5, <2>1, <2>2, <2>3, <2>4, <2>6, <2>9 DEF x
<1> QED
  BY <1>6, <1>7, <1>8

\* So has what it makes of all splits.
LEMMA BulkAgrees ==
  ASSUME NEW tk, IsTokenizer(tk), NEW p \in Tiled
  PROVE  UnlessNone(AllOf(tk, p, TRUE)) = AllIn(tk, pre_tokenize_bulk(p))
<1> DEFINE sps == p.splits
           n == Len(sps)
           all == AllOf(tk, p, TRUE)
           join == [i \in 1..n |-> [x \in Tiled |-> AddBytes(p, x, sps[i])]]
           y == AddBytesOver(p, NoText, sps)
           u(x) == AllIn(tk, x)
<1>1. /\ all \in Seq(MaybeIds) /\ Len(all) = n /\ n \in Nat /\ DOMAIN sps = 1..n
      /\ \A i \in 1..n : all[i] = IdsOf(tk, p, TRUE, sps[i])
  BY AllOfType
<1>2. ASSUME NEW i \in 1..n, NEW x \in Tiled
      PROVE  /\ AddBytes(p, x, sps[i]) \in Tiled
             /\ u(AddBytes(p, x, sps[i])) = Both(u(x), IdsOf(tk, p, TRUE, sps[i]))
  <2>1. sps[i] \in TextSplits /\ split_text(p, sps[i]) \in Strings
    BY SplitTextIs
  <2>2. sps[i].id # NoId => sps[i].id \in Nat
    BY <2>1 DEF TextSplits, NoId, NoToken
  <2> HIDE DEF u, AllIn
  <2>3. AddBytes(p, x, sps[i]) \in Tiled
    BY <2>1, <2>2, TiledGrows, WithBytesTile DEF AddBytes
  <2>4. u(AddBytes(p, x, sps[i])) = Both(u(x), IdsOf(tk, p, TRUE, sps[i]))
    <3>1. IsSplitOf(p, sps[i])
      BY DEF IsSplitOf
    <3> QED
      BY <3>1, AddBytesAdds DEF u, AllIn
  <2> QED
    BY <2>3, <2>4
<1> HIDE DEF all, n, u
<1>3. Leads(n, Tiled, NoText, join, y)
  <2> HIDE DEF sps
  <2> QED
    BY <1>1, <1>2, TiledGrows, AddBytesFold DEF n
<1>4. PICK h \in [0..n -> Tiled] : Goes(n, NoText, join, h) /\ h[n] = y
  BY <1>3 DEF Leads
<1>5. h[0] = NoText /\ \A k \in 1..n : h[k] = AddBytes(p, h[k - 1], sps[k])
  <2>1. h[0] = NoText /\ \A k \in 1..n : h[k] = join[k][h[k - 1]]
    BY <1>4 DEF Goes
  <2>2. \A k \in 1..n : k - 1 \in 0..n
    BY <1>1
  <2> QED
    BY <1>4, <2>1, <2>2
<1> DEFINE S == {k \in 0..n : u(h[k]) = UnlessNone(First(all, k))}
<1>6. 0 \in S
  <2>1. AllOf(tk, NoText, FALSE) = <<>>
    BY DEF AllOf, NoText
  <2>2. First(all, 0) = <<>>
    BY <1>1 DEF First
  <2>3. u(NoText) = UnlessNone(First(all, 0))
    BY <2>1, <2>2, Zenon DEF u, AllIn
  <2>4. 0 \in 0..n
    BY <1>1
  <2> QED
    BY <1>5, <2>3, <2>4
<1>7. ASSUME NEW m \in Nat, m < n, m \in S
      PROVE  m + 1 \in S
  <2>1. m + 1 \in 1..n /\ m + 1 - 1 = m /\ m \in 0..n /\ m + 1 \in 0..n /\ m + 1 \in 1..Len(all)
    BY <1>1, <1>7
  <2>2. h[m] \in Tiled /\ h[m + 1] = AddBytes(p, h[m], sps[m + 1])
    BY <1>4, <1>5, <2>1
  <2>3. u(h[m + 1]) = Both(u(h[m]), all[m + 1])
    BY <1>1, <1>2, <2>1, <2>2
  <2>4. First(all, m + 1) = Append(First(all, m), all[m + 1])
    BY <1>1, <2>1, FirstGrows
  <2>5. First(all, m) \in Seq(MaybeIds) /\ all[m + 1] \in MaybeIds
    <3>1. all[m + 1] \in MaybeIds
      BY <1>1, <2>1
    <3>2. First(all, m) \in Seq(MaybeIds)
      BY <1>1, <2>1 DEF First
    <3> QED
      BY <3>1, <3>2
  <2>6. UnlessNone(First(all, m + 1)) = Both(UnlessNone(First(all, m)), all[m + 1])
    BY <2>4, <2>5, UnlessNoneGrows
  <2> QED
    BY <1>7, <2>1, <2>3, <2>6
<1> HIDE DEF S
<1>8. n \in S
  BY <1>1, <1>6, <1>7, UpTo
<1>9. First(all, n) = all
  BY <1>1, FirstAll
<1>10. u(y) = UnlessNone(all)
  BY <1>4, <1>8, <1>9 DEF S
<1>11. pre_tokenize_bulk(p) = y
  BY Zenon DEF pre_tokenize_bulk, AddBytesOver
<1> QED
  BY <1>10, <1>11 DEF u, all

\* A pre-tokenizer of one step is the step.
LEMMA OneStep ==
  ASSUME NEW step, NEW p \in Tiled
  PROVE  pre_tokenize(<<step>>, p) = pre_tokenize_step(p, step)
<1> DEFINE steps == <<step>>
           join == [i \in 1..Len(steps) |-> [x \in Tiled |-> pre_tokenize_step(x, steps[i])]]
<1>1. Len(steps) = 1 /\ DOMAIN steps = 1..1 /\ steps[1] = step
  OBVIOUS
<1> HIDE DEF steps
<1>2. \A i \in 1..1, x \in Tiled : pre_tokenize_step(x, steps[i]) \in Tiled
  BY PatternTiles, ByteLevelTiles DEF pre_tokenize_step
<1>3. Leads(1, Tiled, p, join, FoldLeft(pre_tokenize_step, p, steps))
  <2>1. Leads(Len(steps), Tiled, p, join, FoldLeft(pre_tokenize_step, p, steps))
    <3>1. Len(steps) \in Nat /\ DOMAIN steps = 1..Len(steps)
      BY <1>1
    <3>2. \A i \in 1..Len(steps), x \in Tiled : pre_tokenize_step(x, steps[i]) \in Tiled
      BY <1>1, <1>2
    <3> QED
      BY <3>1, <3>2, PreTokenizeFold
  <2> QED
    BY <1>1, <2>1
<1>4. PICK h \in [0..1 -> Tiled] : Goes(1, p, join, h) /\ h[1] = FoldLeft(pre_tokenize_step, p, steps)
  BY <1>3 DEF Leads
<1>5. h[1] = pre_tokenize_step(p, step)
  <2>1. h[0] = p /\ \A k \in 1..1 : h[k] = join[k][h[k - 1]]
    BY <1>4 DEF Goes
  <2>2. 1 \in 1..1 /\ 1 - 1 = 0
    OBVIOUS
  <2>3. h[1] = join[1][p]
    BY <2>1, <2>2
  <2>4. join[1][p] = pre_tokenize_step(p, steps[1])
    BY <1>1
  <2> QED
    BY <1>1, <2>3, <2>4
<1> QED
  BY <1>4, <1>5 DEF pre_tokenize, steps

\* Taking the byte encoding into the model changes no id (detect_fused_byte_level,
\* tokenize_fused): the ids are those after the whole pre-tokenizer, whatever its
\* vocabulary and the splits are, and one fails for no id only if the other does.
THEOREM FusedIsWhole ==
  ASSUME OneIdEach
  PROVE  EncSpec => []FusedAgrees
<1>1. Ordering => FusedAgrees
  <2> SUFFICES ASSUME Ordering, pc = "tokenize", detect_fused_byte_level(This.pre)
               PROVE  TokenizeSplits(This, pts, TRUE) = TokenizeSplits(This, pre_tokenize(<<This.pre[2]>>, pts), FALSE)
    BY DEF FusedAgrees
  <2>1. IsTokenizer(This) /\ pts \in Tiled
    BY JobsAre DEF Ordering, CallsOK, SplitsOK, This
  <2> DEFINE step == This.pre[2]
  <2>2. step.kind = "ByteLevel" /\ is_bulk_only(step)
    BY DEF detect_fused_byte_level
  <2> HIDE DEF step
  <2>3. pre_tokenize(<<step>>, pts) = pre_tokenize_bulk(pts)
    BY <2>1, <2>2, OneStep DEF pre_tokenize_step, ByteLevel
  <2>4. UnlessNone(AllOf(This, pts, TRUE)) = AllIn(This, pre_tokenize_bulk(pts))
    BY <2>1, BulkAgrees
  <2> QED
    BY <2>3, <2>4, TokenizeSplitsIs DEF step, AllIn
<1> QED
  BY <1>1, InOrderAlways, PTL

(***************************************************************************)
(* Chunks as legacy tiktoken tokenizers cut them.                          *)
(***************************************************************************)

\* From one place to another characters are all space or all none; no run of one
\* kind is longer than it may be; a chunk ends with a full run, and the character
\* after it is of that kind.
Alike(cps, a, b) == \A i \in a..b : IsSpace(cps[i]) = IsSpace(cps[a])
NoLongRun(cps, from, to) == \A a, b \in from..to : b - a >= MAX_CONSECUTIVE_CHARS => ~ Alike(cps, a, b)
FullBefore(chunk, cp) == Len(chunk) >= MAX_CONSECUTIVE_CHARS /\ OneKind(Append(LastRun(chunk), cp))

\* A run has one character at least.
LEMMA SomeConsecutive == MAX_CONSECUTIVE_CHARS \in Nat \ {0}
BY PipelineAssumption

\* A part of the characters is of one kind where they are.
LEMMA AlikeIs ==
  ASSUME NEW cps \in Seq(CodePoints), NEW a \in 1..Len(cps), NEW b \in a..Len(cps), OneKind(SubSeq(cps, a, b))
  PROVE  Alike(cps, a, b)
<1> DEFINE part == SubSeq(cps, a, b)
<1>1. DOMAIN part = 1..b - a + 1 /\ \A i \in 1..b - a + 1 : part[i] = cps[a + i - 1]
  OBVIOUS
<1>2. \A i \in 1..b - a + 1 : IsSpace(cps[a + i - 1]) = IsSpace(cps[a])
  <2>1. part[1] = cps[a] /\ 1 \in 1..b - a + 1 /\ OneKind(part)
    BY <1>1
  <2> HIDE DEF part
  <2> QED
    BY <1>1, <2>1 DEF OneKind
<1>3. ASSUME NEW i \in a..b
      PROVE  IsSpace(cps[i]) = IsSpace(cps[a])
  <2> DEFINE j == i - a + 1
  <2>1. j \in 1..b - a + 1 /\ a + j - 1 = i
    OBVIOUS
  <2> HIDE DEF j
  <2> QED
    BY <1>2, <2>1
<1> QED
  BY <1>3 DEF Alike

\* A chunk has no long run if there is none where it was cut out.
LEMMA ChunkFits ==
  ASSUME NEW cps \in Seq(CodePoints), NEW from \in 1..Len(cps), NEW to \in from..Len(cps), NoLongRun(cps, from, to)
  PROVE  RunsFit(SubSeq(cps, from, to))
<1> DEFINE chunk == SubSeq(cps, from, to)
<1>1. /\ chunk \in Seq(CodePoints) /\ Len(chunk) = to - from + 1 /\ DOMAIN chunk = 1..Len(chunk)
      /\ \A i \in 1..Len(chunk) : chunk[i] = cps[from + i - 1]
  OBVIOUS
<1>2. ASSUME NEW a \in DOMAIN chunk, NEW b \in DOMAIN chunk, b - a >= MAX_CONSECUTIVE_CHARS,
             OneKind(SubSeq(chunk, a, b))
      PROVE  FALSE
  <2> HIDE DEF chunk
  <2>1. a \in 1..Len(chunk) /\ b \in a..Len(chunk)
    BY <1>1, <1>2, SomeConsecutive
  <2>2. Alike(chunk, a, b)
    BY <1>1, <1>2, <2>1, AlikeIs
  <2> DEFINE c == from + a - 1
             d == from + b - 1
  <2>3. c \in from..to /\ d \in from..to /\ d - c >= MAX_CONSECUTIVE_CHARS
    <3>1. a \in 1..to - from + 1 /\ b \in 1..to - from + 1 /\ d - c = b - a
      BY <1>1, <2>1
    <3> QED
      BY <1>2, <3>1
  <2>4. ASSUME NEW i \in c..d
        PROVE  IsSpace(cps[i]) = IsSpace(cps[c])
    <3> DEFINE j == i - from + 1
    <3>1. j \in a..b /\ from + j - 1 = i /\ j \in 1..Len(chunk)
      BY <1>1, <2>1
    <3> HIDE DEF j
    <3>2. chunk[j] = cps[i] /\ chunk[a] = cps[c]
      BY <1>1, <2>1, <3>1
    <3> QED
      BY <2>2, <3>1, <3>2 DEF Alike
  <2>5. Alike(cps, c, d)
    BY <2>4 DEF Alike
  <2> HIDE DEF c, d
  <2> QED
    BY <2>3, <2>5 DEF NoLongRun
<1> HIDE DEF chunk
<1> QED
  BY <1>2 DEF RunsFit, chunk

\* A chunk ends with a full run if there is one where it was cut off.
LEMMA ChunkIsFull ==
  ASSUME NEW cps \in Seq(CodePoints), NEW from \in 1..Len(cps), NEW to \in from..Len(cps) - 1,
         to - from + 1 >= MAX_CONSECUTIVE_CHARS, NEW space,
         \A i \in to - MAX_CONSECUTIVE_CHARS + 1..to + 1 : IsSpace(cps[i]) = space
  PROVE  FullBefore(SubSeq(cps, from, to), cps[to + 1])
<1> DEFINE m == MAX_CONSECUTIVE_CHARS
           chunk == SubSeq(cps, from, to)
           run == SubSeq(chunk, Len(chunk) - m + 1, Len(chunk))
           more == Append(run, cps[to + 1])
<1>0. m \in Nat \ {0}
  BY SomeConsecutive
<1>1. /\ chunk \in Seq(CodePoints) /\ Len(chunk) = to - from + 1 /\ Len(chunk) >= m
      /\ \A i \in 1..Len(chunk) : chunk[i] = cps[from + i - 1]
  OBVIOUS
<1>2. run \in Seq(CodePoints) /\ Len(run) = m /\ \A i \in 1..m : run[i] = cps[to - m + i]
  <2> HIDE DEF chunk
  <2>1. run \in Seq(CodePoints) /\ Len(run) = m /\ \A i \in 1..m : run[i] = chunk[Len(chunk) - m + i]
    <3> HIDE DEF m
    <3> QED
      BY <1>0, <1>1
  <2>2. \A i \in 1..m : chunk[Len(chunk) - m + i] = cps[to - m + i]
    <3> SUFFICES ASSUME NEW i \in 1..m PROVE chunk[Len(chunk) - m + i] = cps[to - m + i]
      OBVIOUS
    <3>1. Len(chunk) - m + i \in 1..Len(chunk) /\ from + (Len(chunk) - m + i) - 1 = to - m + i
      BY <1>0, <1>1
    <3> QED
      BY <1>1, <3>1
  <2> HIDE DEF run
  <2> QED
    BY <2>1, <2>2
<1>3. cps[to + 1] \in CodePoints
  OBVIOUS
<1> HIDE DEF run, chunk
<1>4. Len(more) = m + 1 /\ DOMAIN more = 1..m + 1 /\ \A i \in 1..m + 1 : more[i] = cps[to - m + i]
  <2>1. Len(more) = m + 1 /\ DOMAIN more = 1..m + 1 /\ more[m + 1] = cps[to + 1] /\ \A i \in 1..m : more[i] = run[i]
    <3> HIDE DEF m
    <3> QED
      BY <1>0, <1>2, <1>3
  <2>2. to - m + (m + 1) = to + 1
    BY <1>0
  <2> HIDE DEF more
  <2> QED
    BY <1>0, <1>2, <2>1, <2>2
<1>5. \A i \in 1..m + 1 : IsSpace(more[i]) = space
  <2> SUFFICES ASSUME NEW i \in 1..m + 1 PROVE IsSpace(more[i]) = space
    OBVIOUS
  <2>1. to - m + i \in to - m + 1..to + 1
    BY <1>0
  <2> HIDE DEF more
  <2> QED
    BY <1>4, <2>1
<1>6. OneKind(more)
  <2>1. 1 \in 1..m + 1
    BY <1>0
  <2> HIDE DEF more
  <2> QED
    BY <1>4, <1>5, <2>1 DEF OneKind
<1> QED
  BY <1>1, <1>6 DEF FullBefore, LastRun, run, chunk

\* The run a slice ends in after its first k characters: it is within the chunk begun
\* last, all of one kind, and what is before it in the chunk is not.
RunEnds(cps, k, start, run, space) ==
  IF k = 0 THEN run = 0 /\ start = 1 /\ space = IsSpace(cps[1])
  ELSE /\ run \in 1..k - start + 1 /\ run <= MAX_CONSECUTIVE_CHARS
       /\ \A i \in k - run + 1..k : IsSpace(cps[i]) = space
       /\ run <= k - start => IsSpace(cps[k - run]) # space

\* The chunks cut off before a place: they are the characters up to there, they have
\* no long run, and each ends with a full one.
CutOff(cps, chunks, start) ==
  /\ FlattenSeq(chunks) = SubSeq(cps, 1, start - 1)
  /\ \A i \in 1..Len(chunks) : Len(chunks[i]) <= Len(cps) /\ RunsFit(chunks[i])
  /\ \A i \in 1..Len(chunks) - 1 : FullBefore(chunks[i], chunks[i + 1][1])
  /\ chunks # <<>> => FullBefore(chunks[Len(chunks)], cps[start])

\* What is known of the first k characters (push_whitespace_limited_chunks).
CountedSo(cps, k, acc) ==
  /\ acc \in Counting(cps)
  /\ acc.start <= k + 1
  /\ RunEnds(cps, k, acc.start, acc.run, acc.space)
  /\ NoLongRun(cps, acc.start, k)
  /\ CutOff(cps, acc.chunks, acc.start)

\* A chunk that ends in a full run is cut off with those before it.
LEMMA CutOffMore ==
  ASSUME NEW cps \in Seq(CodePoints), NEW chunks \in Seq(Slices), NEW start \in 1..Len(cps), NEW i \in start + 1..Len(cps),
         CutOff(cps, chunks, start), NoLongRun(cps, start, i - 1),
         FullBefore(SubSeq(cps, start, i - 1), cps[i])
  PROVE  CutOff(cps, Append(chunks, SubSeq(cps, start, i - 1)), i)
<1> DEFINE chunk == SubSeq(cps, start, i - 1)
           more == Append(chunks, chunk)
           n == Len(chunks)
<1>1. /\ chunk \in Seq(CodePoints) /\ Len(chunk) = i - start /\ chunk[1] = cps[start]
      /\ SubSeq(cps, 1, start - 1) \o chunk = SubSeq(cps, 1, i - 1)
  <2>1. i - 1 \in start..Len(cps) /\ (i - 1) - start + 1 = i - start
    OBVIOUS
  <2> QED
    BY <2>1, PartOf
<1>2. RunsFit(chunk)
  <2>1. i - 1 \in start..Len(cps)
    OBVIOUS
  <2> QED
    BY <2>1, ChunkFits
<1>3. FullBefore(chunk, cps[i])
  OBVIOUS
<1>4. chunks \in Seq(Seq(CodePoints)) /\ n \in Nat
  <2>1. Slices \subseteq Seq(CodePoints)
    BY DEF Slices
  <2> QED
    BY <2>1, WiderSeq
<1>5. Len(cps) \in Nat /\ i - start <= Len(cps)
  OBVIOUS
<1> HIDE DEF chunk
<1>6. /\ Len(more) = n + 1 /\ more[n + 1] = chunk /\ more # <<>>
      /\ \A j \in 1..n : more[j] = chunks[j]
  <2>1. Len(more) = n + 1 /\ more[n + 1] = chunk /\ \A j \in 1..n : more[j] = chunks[j]
    BY <1>1, <1>4
  <2> HIDE DEF more
  <2>2. more # <<>>
    BY <1>4, <2>1
  <2> QED
    BY <2>1, <2>2
<1>7. FlattenSeq(more) = SubSeq(cps, 1, i - 1)
  <2>1. FlattenSeq(more) = FlattenSeq(chunks) \o chunk
    BY <1>1, <1>4, FlattenAppend
  <2> HIDE DEF more
  <2> QED
    BY <1>1, <2>1 DEF CutOff
<1> HIDE DEF more, n
<1>8. ASSUME NEW j \in 1..n + 1
      PROVE  Len(more[j]) <= Len(cps) /\ RunsFit(more[j])
  <2>1. CASE j = n + 1
    BY <1>1, <1>2, <1>5, <1>6, <2>1
  <2>2. CASE j \in 1..n
    BY <1>6, <2>2 DEF CutOff, n
  <2> QED
    BY <1>4, <2>1, <2>2
<1>9. ASSUME NEW j \in 1..n
      PROVE  FullBefore(more[j], more[j + 1][1])
  <2>1. CASE j = n
    <3>1. chunks # <<>>
      BY <1>4, <2>1 DEF n
    <3> QED
      BY <1>1, <1>6, <2>1, <3>1 DEF CutOff, n
  <2>2. CASE j < n
    <3>1. j \in 1..n - 1 /\ j + 1 \in 1..n
      BY <1>4, <2>2
    <3> QED
      BY <1>6, <3>1 DEF CutOff, n
  <2> QED
    BY <1>4, <2>1, <2>2
<1>10. Len(more) - 1 = n
  BY <1>4, <1>6
<1> QED
  <2>1. CutOff(cps, more, i)
    BY <1>3, <1>6, <1>7, <1>8, <1>9, <1>10 DEF CutOff
  <2> QED
    BY <2>1 DEF more, chunk

\* No run is longer for a character of another kind, nor for one more that still fits.
LEMMA NoLonger ==
  ASSUME NEW cps \in Seq(CodePoints), NEW k \in 1..Len(cps), NEW start \in 1..k, NEW run, NEW space,
         RunEnds(cps, k - 1, start, run, space), NoLongRun(cps, start, k - 1),
         IsSpace(cps[k]) # space \/ (run \in Int /\ run + 1 <= MAX_CONSECUTIVE_CHARS)
  PROVE  NoLongRun(cps, start, k)
<1> DEFINE m == MAX_CONSECUTIVE_CHARS
<1>0. m \in Nat \ {0}
  BY SomeConsecutive
<1>1. SUFFICES ASSUME NEW a \in start..k, NEW b \in start..k, b - a >= m, Alike(cps, a, b)
               PROVE  FALSE
  BY DEF NoLongRun
<1> HIDE DEF m
<1>2. CASE b \in start..k - 1
  <2>1. a \in start..k - 1
    BY <1>0, <1>1, <1>2
  <2> QED
    BY <1>1, <1>2, <2>1 DEF NoLongRun, m
<1>3. CASE b = k
  <2>1. k - 1 # 0 /\ a \in start..k - 1
    BY <1>0, <1>1, <1>3
  <2>2. run \in 1..k - start /\ (\A i \in k - run..k - 1 : IsSpace(cps[i]) = space)
        /\ (run <= k - 1 - start => IsSpace(cps[k - 1 - run]) # space)
    <3>1. (k - 1) - start + 1 = k - start /\ (k - 1) - run + 1 = k - run
      BY <2>1 DEF RunEnds
    <3> QED
      BY <2>1, <3>1 DEF RunEnds
  <2>3. IsSpace(cps[k]) = IsSpace(cps[a]) /\ IsSpace(cps[k - 1]) = IsSpace(cps[a])
    <3>1. k \in a..b /\ k - 1 \in a..b
      BY <1>3, <2>1
    <3> QED
      BY <1>1, <3>1 DEF Alike
  <2>4. CASE IsSpace(cps[k]) # space
    <3>1. k - 1 \in k - run..k - 1
      BY <2>2
    <3> QED
      BY <2>2, <2>3, <2>4, <3>1
  <2>5. CASE run + 1 <= m
    <3>1. a <= k - 1 - run /\ k - 1 - run \in a..b /\ run <= k - 1 - start
      BY <1>0, <1>1, <1>3, <2>2, <2>5
    <3>2. IsSpace(cps[k - 1 - run]) = IsSpace(cps[a])
      BY <1>1, <3>1 DEF Alike
    <3>3. k - 1 \in k - run..k - 1
      BY <2>2
    <3>4. IsSpace(cps[k - 1]) = space
      BY <2>2, <3>3
    <3> QED
      BY <2>2, <2>3, <3>1, <3>2, <3>4
  <2> QED
    BY <2>4, <2>5 DEF m
<1> QED
  BY <1>1, <1>2, <1>3

\* One more character (push_whitespace_limited_chunks): the kind changes, the run is
\* full and a chunk is cut off, or the run goes on.
LEMMA CountedGoesOn ==
  ASSUME NEW cps \in Seq(CodePoints), NEW k \in 1..Len(cps), NEW acc, CountedSo(cps, k - 1, acc)
  PROVE  CountedSo(cps, k, Counted(cps, acc, k))
<1> DEFINE m == MAX_CONSECUTIVE_CHARS
           new == Counted(cps, acc, k)
           chunk == SubSeq(cps, acc.start, k - 1)
<1>0. m \in Nat \ {0}
  BY SomeConsecutive
<1>1. /\ acc \in Counting(cps) /\ acc.start \in 1..k /\ RunEnds(cps, k - 1, acc.start, acc.run, acc.space)
      /\ NoLongRun(cps, acc.start, k - 1) /\ CutOff(cps, acc.chunks, acc.start)
      /\ acc.chunks \in Seq(Slices) /\ acc.run \in Int /\ acc.space \in BOOLEAN
  BY DEF CountedSo, Counting
<1>2. new \in Counting(cps)
  BY <1>1, CountedType
<1>3. CASE IsSpace(cps[k]) # acc.space
  <2> DEFINE other == ~ acc.space
             once == [acc EXCEPT !.run = 1]
  <2>1. new = [once EXCEPT !.space = other]
    BY <1>3 DEF Counted
  <2>2. new.start = acc.start /\ new.chunks = acc.chunks /\ new.run = 1 /\ new.space = other
    <3>1. once.start = acc.start /\ once.chunks = acc.chunks /\ once.run = 1 /\ DOMAIN once = DOMAIN acc
          /\ DOMAIN acc = {"chunks", "start", "run", "space"}
      BY <1>1 DEF Counting
    <3> HIDE DEF once, other, new
    <3> QED
      BY <2>1, <3>1
  <2>3. IsSpace(cps[k]) = other
    <3>1. IsSpace(cps[k]) \in BOOLEAN
      BY DEF IsSpace
    <3> QED
      BY <1>1, <1>3, <3>1
  <2>4. k - 1 # 0
    <3>1. k = 1 => IsSpace(cps[k]) = acc.space
      BY <1>1 DEF RunEnds
    <3> QED
      BY <1>3, <3>1
  <2>5. acc.start <= k - 1 /\ IsSpace(cps[k - 1]) = acc.space
    <3>1. acc.run \in 1..(k - 1) - acc.start + 1 /\ \A i \in (k - 1) - acc.run + 1..k - 1 : IsSpace(cps[i]) = acc.space
      BY <1>1, <2>4 DEF RunEnds
    <3>2. k - 1 \in (k - 1) - acc.run + 1..k - 1
      BY <3>1
    <3> QED
      BY <1>1, <3>1, <3>2
  <2>6. RunEnds(cps, k, acc.start, 1, other)
    <3>1. \A i \in k - 1 + 1..k : i = k
      OBVIOUS
    <3>2. IsSpace(cps[k - 1]) # other
      BY <1>1, <2>5
    <3> HIDE DEF other
    <3>3. 1 \in 1..k - acc.start + 1 /\ 1 <= MAX_CONSECUTIVE_CHARS /\ k # 0
      BY <1>0, <1>1, <2>5
    <3> QED
      BY <2>3, <3>1, <3>2, <3>3 DEF RunEnds
  <2>7. NoLongRun(cps, acc.start, k)
    BY <1>1, <1>3, NoLonger
  <2> HIDE DEF new, other, once
  <2> QED
    <3>1. CountedSo(cps, k, new)
      BY <1>1, <1>2, <2>2, <2>6, <2>7 DEF CountedSo
    <3> QED
      BY <3>1 DEF new
<1>4. CASE IsSpace(cps[k]) = acc.space /\ acc.run + 1 > m
  <2>1. /\ k - 1 # 0 /\ acc.run = m
        /\ acc.run \in 1..(k - 1) - acc.start + 1 /\ \A i \in (k - 1) - acc.run + 1..k - 1 : IsSpace(cps[i]) = acc.space
    BY <1>0, <1>1, <1>4 DEF RunEnds
  <2>2. acc.start < k /\ (k - 1) - acc.start + 1 >= m
    BY <1>0, <1>1, <2>1
  <2>3. new = [chunks |-> Append(acc.chunks, chunk), start |-> k, run |-> 1, space |-> acc.space]
    BY <1>4, <2>2 DEF Counted, RunBegins
  <2>4. new.start = k /\ new.chunks = Append(acc.chunks, chunk) /\ new.run = 1 /\ new.space = acc.space
    <3> HIDE DEF new, chunk
    <3> QED
      BY <2>3
  <2>5. \A i \in (k - 1) - m + 1..(k - 1) + 1 : IsSpace(cps[i]) = acc.space
    <3> SUFFICES ASSUME NEW i \in (k - 1) - m + 1..k PROVE IsSpace(cps[i]) = acc.space
      OBVIOUS
    <3>1. CASE i = k
      BY <1>4, <3>1
    <3>2. CASE i <= k - 1
      BY <1>0, <2>1, <3>2
    <3> QED
      BY <1>0, <3>1, <3>2
  <2>6. FullBefore(chunk, cps[k])
    <3>1. k - 1 \in acc.start..Len(cps) - 1 /\ (k - 1) + 1 = k /\ acc.start \in 1..Len(cps)
      BY <1>1, <2>2
    <3> HIDE DEF chunk
    <3>2. FullBefore(SubSeq(cps, acc.start, k - 1), cps[(k - 1) + 1])
      BY <2>2, <2>5, <3>1, ChunkIsFull
    <3> QED
      BY <3>1, <3>2 DEF chunk
  <2>7. CutOff(cps, Append(acc.chunks, chunk), k)
    <3>1. k \in acc.start + 1..Len(cps) /\ acc.start \in 1..Len(cps)
      BY <1>1, <2>2
    <3> QED
      BY <1>1, <2>6, <3>1, CutOffMore
  <2>8. RunEnds(cps, k, k, 1, acc.space)
    <3>1. \A i \in k - 1 + 1..k : i = k
      OBVIOUS
    <3>2. 1 \in 1..k - k + 1 /\ 1 <= MAX_CONSECUTIVE_CHARS /\ k # 0 /\ ~ (1 <= k - k)
      BY <1>0
    <3> QED
      BY <1>4, <3>1, <3>2 DEF RunEnds
  <2>9. NoLongRun(cps, k, k)
    BY <1>0 DEF NoLongRun
  <2> HIDE DEF new, chunk
  <2>10. new.start <= k + 1
    BY <2>4
  <2> QED
    <3>1. CountedSo(cps, k, new)
      BY <1>2, <2>4, <2>7, <2>8, <2>9, <2>10 DEF CountedSo
    <3> QED
      BY <3>1 DEF new
<1>5. CASE IsSpace(cps[k]) = acc.space /\ ~ (acc.run + 1 > m)
  <2>1. new = [acc EXCEPT !.run = @ + 1]
    BY <1>5 DEF Counted
  <2>2. new.start = acc.start /\ new.chunks = acc.chunks /\ new.run = acc.run + 1 /\ new.space = acc.space
    <3> HIDE DEF new
    <3> QED
      BY <1>1, <2>1 DEF Counting
  <2>3. acc.run + 1 <= m
    BY <1>0, <1>1, <1>5
  <2>4. RunEnds(cps, k, acc.start, acc.run + 1, acc.space)
    <3>1. CASE k = 1
      <4>1. acc.run = 0 /\ acc.start = 1
        BY <1>1, <3>1 DEF RunEnds
      <4>2. acc.run + 1 \in 1..k - acc.start + 1 /\ k # 0 /\ ~ (acc.run + 1 <= k - acc.start)
            /\ \A i \in k - (acc.run + 1) + 1..k : i = k
        BY <3>1, <4>1
      <4> QED
        BY <1>5, <2>3, <4>2 DEF RunEnds
    <3>2. CASE k # 1
      <4>1. /\ acc.run \in 1..(k - 1) - acc.start + 1
            /\ \A i \in (k - 1) - acc.run + 1..k - 1 : IsSpace(cps[i]) = acc.space
            /\ acc.run <= (k - 1) - acc.start => IsSpace(cps[(k - 1) - acc.run]) # acc.space
        BY <1>1, <3>2 DEF RunEnds
      <4>2. ASSUME NEW i \in k - (acc.run + 1) + 1..k
            PROVE  IsSpace(cps[i]) = acc.space
        <5>1. i = k \/ i \in (k - 1) - acc.run + 1..k - 1
          BY <4>1
        <5> QED
          BY <1>5, <4>1, <5>1
      <4>3. acc.run + 1 \in 1..k - acc.start + 1 /\ k # 0
        BY <1>1, <4>1
      <4>4. acc.run + 1 <= k - acc.start => IsSpace(cps[k - (acc.run + 1)]) # acc.space
        <5>1. k - (acc.run + 1) = (k - 1) - acc.run /\ (acc.run + 1 <= k - acc.start => acc.run <= (k - 1) - acc.start)
          BY <1>1, <4>1
        <5> QED
          BY <4>1, <5>1
      <4> QED
        BY <2>3, <4>2, <4>3, <4>4 DEF RunEnds
    <3> QED
      BY <3>1, <3>2
  <2>5. NoLongRun(cps, acc.start, k)
    BY <1>1, <2>3, NoLonger
  <2>6. new.start <= k + 1
    <3> HIDE DEF new
    <3> QED
      BY <1>1, <2>2
  <2> HIDE DEF new
  <2> QED
    <3>1. CountedSo(cps, k, new)
      BY <1>1, <1>2, <2>2, <2>4, <2>5, <2>6 DEF CountedSo
    <3> QED
      BY <3>1 DEF new
<1> QED
  BY <1>3, <1>4, <1>5

\* The chunks of some characters are cut where a run is full.
CutAtRuns(cps, chunks) ==
  /\ chunks \in Seq(Slices) /\ FlattenSeq(chunks) = cps
  /\ \A i \in 1..Len(chunks) : Len(chunks[i]) <= Len(cps) /\ RunsFit(chunks[i])
  /\ \A i \in 1..Len(chunks) - 1 : FullBefore(chunks[i], chunks[i + 1][1])

\* So are those that the loop and what follows it make of a slice.
LEMMA WhitespaceLimitedIs ==
  ASSUME NEW cps \in Seq(CodePoints), cps # <<>>
  PROVE  CutAtRuns(cps, push_whitespace_limited_chunks(cps))
<1> DEFINE base == [chunks |-> <<>>, start |-> 1, run |-> 0, space |-> IsSpace(cps[1])]
           at == [i \in DOMAIN cps |-> i]
           n == Len(cps)
           T == Counting(cps)
           join == [i \in 1..n |-> [x \in T |-> Counted(cps, x, at[i])]]
           all == CountedOver(cps, base, at)
<1>1. n \in Nat \ {0} /\ DOMAIN cps = 1..n
  BY EmptySeq
<1>2. base \in T
  BY <1>1 DEF Counting, IsSpace
<1>3. Len(at) = n /\ DOMAIN at = 1..n /\ \A i \in 1..n : at[i] = i
  <2>1. at \in [1..n -> 1..n]
    BY <1>1
  <2>2. at \in Seq(1..n) /\ Len(at) = n
    <3> HIDE DEF at
    <3> QED
      BY <1>1, <2>1, Tabled
  <2> QED
    BY <1>1, <2>1, <2>2
<1>4. \A i \in 1..n, x \in T : Counted(cps, x, at[i]) \in T
  <2> SUFFICES ASSUME NEW i \in 1..n, NEW x \in T PROVE Counted(cps, x, at[i]) \in T
    OBVIOUS
  <2> HIDE DEF at
  <2> QED
    BY <1>3, CountedType
<1>5. Leads(n, T, base, join, all)
  <2> HIDE DEF base, at, T, all
  <2>1. /\ Leads(Len(at), T, base, [i \in 1..Len(at) |-> [x \in T |-> Counted(cps, x, at[i])]], CountedOver(cps, base, at))
    BY <1>1, <1>2, <1>3, <1>4, CountedFold
  <2> QED
    BY <1>3, <2>1 DEF all
<1>6. CountedSo(cps, 0, base)
  <2>1. FlattenSeq(base.chunks) = SubSeq(cps, 1, base.start - 1)
    <3>1. base.chunks = <<>> /\ base.start - 1 = 0 /\ Len(<<>>) = 0
      OBVIOUS
    <3>2. FlattenSeq(<<>>) = <<>>
      BY <3>1, FlattenOfNone
    <3>3. SubSeq(cps, 1, 0) = <<>>
      OBVIOUS
    <3> HIDE DEF base
    <3> QED
      BY <3>1, <3>2, <3>3
  <2>2. CutOff(cps, base.chunks, base.start)
    BY <2>1 DEF CutOff
  <2>3. NoLongRun(cps, base.start, 0)
    BY DEF NoLongRun
  <2>4. RunEnds(cps, 0, base.start, base.run, base.space)
    BY DEF RunEnds
  <2>5. base.start <= 0 + 1
    OBVIOUS
  <2> HIDE DEF base, T
  <2> QED
    BY <1>2, <2>2, <2>3, <2>4, <2>5 DEF CountedSo, T
<1>7. CountedSo(cps, n, all)
  <2> HIDE DEF base, at, T, all
  <2>1. PICK h \in [0..n -> T] : Goes(n, base, join, h) /\ h[n] = all
    BY <1>5 DEF Leads
  <2> DEFINE S == {k \in 0..n : CountedSo(cps, k, h[k])}
  <2>2. 0 \in S
    BY <1>1, <1>6, <2>1 DEF Goes
  <2>3. ASSUME NEW k \in Nat, k < n, k \in S
        PROVE  k + 1 \in S
    <3>1. k + 1 \in 1..n /\ (k + 1) - 1 = k /\ k \in 0..n
      BY <1>1, <2>3
    <3>2. h[k + 1] = join[k + 1][h[k]]
      <4> HIDE DEF join, S
      <4> QED
        BY <2>1, <3>1 DEF Goes
    <3>3. h[k] \in T
      BY <2>1, <3>1
    <3>4. h[k + 1] = Counted(cps, h[k], k + 1)
      BY <1>3, <3>1, <3>2, <3>3
    <3>5. CountedSo(cps, (k + 1) - 1, h[k])
      BY <2>3, <3>1
    <3>6. CountedSo(cps, k + 1, h[k + 1])
      <4> HIDE DEF S
      <4> QED
        BY <1>1, <3>1, <3>4, <3>5, CountedGoesOn
    <3> QED
      BY <1>1, <3>1, <3>6
  <2>4. n \in S
    <3> HIDE DEF S
    <3> QED
      BY <1>1, <2>2, <2>3, UpTo
  <2> QED
    BY <2>1, <2>4
<1> DEFINE rest == SubSeq(cps, all.start, n)
           chunks == Append(all.chunks, rest)
           c == Len(all.chunks)
<1>8. push_whitespace_limited_chunks(cps) = chunks
  BY Zenon DEF push_whitespace_limited_chunks, CountedOver
<1> HIDE DEF all, base, at, T, join
<1>9. /\ all.chunks \in Seq(Slices) /\ all.start \in 1..n /\ NoLongRun(cps, all.start, n) /\ CutOff(cps, all.chunks, all.start)
  BY <1>7 DEF CountedSo, Counting
<1>10. /\ rest \in Seq(CodePoints) /\ Len(rest) = n - all.start + 1 /\ rest[1] = cps[all.start]
       /\ SubSeq(cps, 1, all.start - 1) \o rest = SubSeq(cps, 1, n)
  <2>1. n \in all.start..n
    BY <1>1, <1>9
  <2> QED
    BY <1>9, <2>1, PartOf
<1>11. SubSeq(cps, 1, n) = cps
  BY <1>1
<1>12. RunsFit(rest)
  <2>1. n \in all.start..n
    BY <1>1, <1>9
  <2> QED
    BY <1>9, <2>1, ChunkFits
<1> HIDE DEF rest
<1>13. rest \in Slices
  <2>1. Len(rest) # 0
    BY <1>1, <1>9, <1>10
  <2> QED
    BY <1>10, <2>1 DEF Slices
<1>14. /\ chunks \in Seq(Slices) /\ Len(chunks) = c + 1 /\ c \in Nat /\ chunks[c + 1] = rest
       /\ \A j \in 1..c : chunks[j] = all.chunks[j]
  BY <1>9, <1>13
<1>15. all.chunks \in Seq(Seq(CodePoints))
  <2>1. Slices \subseteq Seq(CodePoints)
    BY DEF Slices
  <2> QED
    BY <1>9, <2>1, WiderSeq
<1>16. FlattenSeq(chunks) = cps
  <2>1. FlattenSeq(chunks) = FlattenSeq(all.chunks) \o rest
    BY <1>10, <1>15, FlattenAppend
  <2> HIDE DEF chunks
  <2> QED
    BY <1>9, <1>10, <1>11, <2>1 DEF CutOff
<1> HIDE DEF chunks, n
<1>17. ASSUME NEW j \in 1..c + 1
       PROVE  Len(chunks[j]) <= Len(cps) /\ RunsFit(chunks[j])
  <2>1. CASE j = c + 1
    <3>1. Len(rest) <= Len(cps)
      BY <1>1, <1>9, <1>10 DEF n
    <3> QED
      BY <1>12, <1>14, <2>1, <3>1
  <2>2. CASE j \in 1..c
    BY <1>9, <1>14, <2>2 DEF CutOff
  <2> QED
    BY <1>14, <2>1, <2>2
<1>18. ASSUME NEW j \in 1..c
       PROVE  FullBefore(chunks[j], chunks[j + 1][1])
  <2>1. CASE j = c
    <3>1. all.chunks # <<>>
      BY <1>14, <2>1
    <3> QED
      BY <1>9, <1>10, <1>14, <2>1, <3>1 DEF CutOff
  <2>2. CASE j < c
    <3>1. j \in 1..c - 1 /\ j + 1 \in 1..c
      BY <1>14, <2>2
    <3> QED
      BY <1>9, <1>14, <3>1 DEF CutOff
  <2> QED
    BY <1>14, <2>1, <2>2
<1>19. Len(chunks) - 1 = c
  BY <1>14
<1> HIDE DEF c
<1> QED
  BY <1>8, <1>14, <1>16, <1>17, <1>18, <1>19 DEF CutAtRuns

\* The chunks of all slices are cut at slices too.
CutWhereMay(cps, chunks) ==
  /\ chunks \in Seq(Slices) /\ FlattenSeq(chunks) = cps
  /\ \A i \in 1..Len(chunks) : Len(chunks[i]) <= TIKTOKEN_MAX_ENCODE_CHARS /\ RunsFit(chunks[i])
  /\ \A i \in 1..Len(chunks) - 1 : \/ Len(FlattenSeq(First(chunks, i))) % TIKTOKEN_MAX_ENCODE_CHARS = 0
                                   \/ FullBefore(chunks[i], chunks[i + 1][1])

\* The chunks of whole slices may be followed by those of one more.
LEMMA CutOfBoth ==
  ASSUME NEW x \in Seq(CodePoints), NEW y \in Seq(CodePoints), NEW a, NEW b, CutWhereMay(x, a), CutAtRuns(y, b),
         Len(x) % TIKTOKEN_MAX_ENCODE_CHARS = 0, Len(y) <= TIKTOKEN_MAX_ENCODE_CHARS
  PROVE  CutWhereMay(x \o y, a \o b)
<1> DEFINE m == Len(a)
           n == Len(b)
           all == a \o b
           M == TIKTOKEN_MAX_ENCODE_CHARS
<1>1. a \in Seq(Slices) /\ b \in Seq(Slices) /\ FlattenSeq(a) = x /\ FlattenSeq(b) = y
  BY DEF CutWhereMay, CutAtRuns
<1>2. a \in Seq(Seq(CodePoints)) /\ b \in Seq(Seq(CodePoints))
  <2>1. Slices \subseteq Seq(CodePoints)
    BY DEF Slices
  <2> QED
    BY <1>1, <2>1, WiderSeq
<1>3. /\ all \in Seq(Slices) /\ m \in Nat /\ n \in Nat /\ Len(all) = m + n
      /\ \A i \in 1..m : all[i] = a[i]
      /\ \A i \in m + 1..m + n : all[i] = b[i - m]
  BY <1>1, ConcatProperties
<1>4. FlattenSeq(all) = x \o y
  BY <1>1, <1>2, FlattenConcat
<1>5. M \in Nat \ {0}
  BY PipelineAssumption
<1> HIDE DEF all, M
<1>6. ASSUME NEW i \in 1..m
      PROVE  First(all, i) = First(a, i)
  BY <1>3, <1>6 DEF First
<1>7. First(a, m) = a
  BY <1>1, FirstAll
<1> HIDE DEF m, n
<1>8. ASSUME NEW i \in 1..m + n
      PROVE  Len(all[i]) <= M /\ RunsFit(all[i])
  <2>1. CASE i \in 1..m
    BY <1>3, <2>1 DEF CutWhereMay, m, M
  <2>2. CASE i \in m + 1..m + n
    <3>1. i - m \in 1..n /\ all[i] = b[i - m]
      BY <1>3, <2>2
    <3>2. Len(b[i - m]) <= Len(y) /\ RunsFit(b[i - m]) /\ Len(b[i - m]) \in Nat
      <4>1. b[i - m] \in Seq(CodePoints)
        BY <1>2, <3>1 DEF n
      <4> QED
        BY <3>1, <4>1 DEF CutAtRuns, n
    <3> QED
      BY <1>5, <3>1, <3>2 DEF M
  <2> QED
    BY <1>3, <2>1, <2>2
<1>9. ASSUME NEW i \in 1..m + n - 1
      PROVE  Len(FlattenSeq(First(all, i))) % M = 0 \/ FullBefore(all[i], all[i + 1][1])
  <2>1. CASE i \in 1..m - 1
    <3>1. i \in 1..m /\ i + 1 \in 1..m
      BY <1>3, <2>1
    <3>2. First(all, i) = First(a, i) /\ all[i] = a[i] /\ all[i + 1] = a[i + 1]
      BY <1>3, <1>6, <3>1
    <3> QED
      BY <2>1, <3>2 DEF CutWhereMay, m, M
  <2>2. CASE i = m
    <3>1. First(all, i) = a
      BY <1>3, <1>6, <1>7, <1>9, <2>2
    <3> QED
      BY <1>1, <3>1 DEF M
  <2>3. CASE i > m
    <3>1. i \in m + 1..m + n /\ i + 1 \in m + 1..m + n /\ i - m \in 1..n - 1 /\ (i + 1) - m = (i - m) + 1
      BY <1>3, <2>3
    <3>2. all[i] = b[i - m] /\ all[i + 1] = b[(i - m) + 1]
      BY <1>3, <3>1
    <3> QED
      BY <3>1, <3>2 DEF CutAtRuns, n
  <2> QED
    BY <1>3, <2>1, <2>2, <2>3
<1>10. CutWhereMay(x \o y, all)
  BY <1>3, <1>4, <1>8, <1>9 DEF CutWhereMay, M
<1> QED
  BY <1>10 DEF all

\* The chunks of a text are cut where slices end or runs are full.
LEMMA ChunksAre ==
  ASSUME NEW s \in Strings
  PROVE  CutWhereMay(Chars(s), chunk_chars(s))
<1> DEFINE cps == Chars(s)
           M == TIKTOKEN_MAX_ENCODE_CHARS
           c == Len(cps)
           k == SliceCount(c, M)
           outer == OfAtMost(cps, M)
           limited == [n \in DOMAIN outer |-> push_whitespace_limited_chunks(outer[n])]
           done(n) == FlattenSeq(First(limited, n))
<1>1. cps \in Seq(CodePoints) /\ M \in Nat \ {0} /\ c \in Nat
  BY StringsAre, PipelineAssumption
<1>2. /\ outer \in Seq(Seq(CodePoints)) /\ \A n \in 1..Len(outer) : outer[n] # <<>>
      /\ DOMAIN outer = 1..k /\ \A n \in 1..k : outer[n] = SubSeq(cps, (n - 1) * M + 1, Min({n * M, c}))
  <2>1. outer = [n \in 1..k |-> SubSeq(cps, (n - 1) * M + 1, Min({n * M, c}))]
    BY DEF OfAtMost, SliceCount
  <2>2. outer \in Seq(Seq(CodePoints)) /\ \A n \in 1..Len(outer) : outer[n] # <<>>
    <3> HIDE DEF cps, M
    <3> QED
      BY <1>1, OfAtMostType
  <2> HIDE DEF outer, k, M, cps
  <2> QED
    BY <2>1, <2>2
<1>3. chunk_chars(s) = FlattenSeq(limited)
  BY DEF chunk_chars, Limited
<1> HIDE DEF cps, M, c, outer
<1>4. k \in Nat /\ SliceEnd(c, M, 0) = 0 /\ SliceEnd(c, M, k) = c
  BY <1>1, SliceEnds
<1>5. ASSUME NEW n \in 1..k
      PROVE  LET a == SliceEnd(c, M, n - 1)
                 b == SliceEnd(c, M, n)
             IN  /\ a \in Nat /\ a % M = 0 /\ b \in a + 1..c /\ b - a <= M
                 /\ outer[n] = SubSeq(cps, a + 1, b)
  <2>1. LET a == SliceEnd(c, M, n - 1)
            b == SliceEnd(c, M, n)
        IN  /\ a = (n - 1) * M /\ a \in Nat /\ a % M = 0 /\ b \in a + 1..c /\ b - a <= M
            /\ Min({n * M, c}) = b
    BY <1>1, SliceEnds
  <2> HIDE DEF k
  <2> QED
    BY <1>2, <2>1
<1> HIDE DEF k
<1>6. /\ limited \in Seq(Seq(Slices)) /\ Len(limited) = k
      /\ \A n \in 1..k : limited[n] = push_whitespace_limited_chunks(outer[n])
  <2>1. Len(outer) = k /\ \A n \in 1..k : outer[n] \in Seq(CodePoints) /\ outer[n] # <<>>
    BY <1>2, <1>4
  <2>2. \A n \in 1..k : limited[n] \in Seq(Slices)
    BY <1>2, <2>1, WhitespaceLimitedType
  <2>3. limited \in [1..k -> Seq(Slices)]
    BY <1>2, <2>2
  <2>4. limited \in Seq(Seq(Slices)) /\ Len(limited) = k
    <3> HIDE DEF limited
    <3> QED
      BY <1>4, <2>3, Tabled
  <2> QED
    BY <1>2, <2>4
<1> HIDE DEF limited
<1> DEFINE S == {n \in 0..k : CutWhereMay(SubSeq(cps, 1, SliceEnd(c, M, n)), done(n))}
<1>7. 0 \in S
  <2>1. First(limited, 0) = <<>> /\ Len(<<>>) = 0
    BY DEF First
  <2>2. done(0) = <<>> /\ FlattenSeq(<<>>) = <<>>
    <3>1. FlattenSeq(<<>>) = <<>>
      BY <2>1, FlattenOfNone
    <3> QED
      BY <2>1, <3>1
  <2>3. SubSeq(cps, 1, SliceEnd(c, M, 0)) = <<>>
    BY <1>1, <1>4
  <2>4. <<>> \in Seq(Slices) /\ Len(<<>>) = 0
    OBVIOUS
  <2>5. CutWhereMay(<<>>, <<>>)
    BY <2>2, <2>4 DEF CutWhereMay
  <2> HIDE DEF done
  <2>6. CutWhereMay(SubSeq(cps, 1, SliceEnd(c, M, 0)), done(0))
    BY <2>2, <2>3, <2>5
  <2> QED
    BY <1>4, <2>6
<1>8. ASSUME NEW n \in Nat, n < k, n \in S
      PROVE  n + 1 \in S
  <2> DEFINE a == SliceEnd(c, M, n)
             b == SliceEnd(c, M, n + 1)
             x == SubSeq(cps, 1, a)
             y == SubSeq(cps, a + 1, b)
  <2>1. n + 1 \in 1..k /\ (n + 1) - 1 = n
    BY <1>4, <1>8
  <2>2. a \in Nat /\ a % M = 0 /\ b \in a + 1..c /\ b - a <= M /\ outer[n + 1] = y
    BY <1>5, <2>1
  <2> HIDE DEF a, b
  <2>3. /\ x \in Seq(CodePoints) /\ Len(x) = a
        /\ y \in Seq(CodePoints) /\ Len(y) = b - a /\ y # <<>>
        /\ x \o y = SubSeq(cps, 1, b)
    <3>1. a + 1 \in 1..Len(cps) /\ b \in a + 1..Len(cps) /\ (a + 1) - 1 = a /\ b - (a + 1) + 1 = b - a
      BY <1>1, <2>2 DEF c
    <3>2. /\ y \in Seq(CodePoints) /\ Len(y) = b - (a + 1) + 1
          /\ SubSeq(cps, 1, (a + 1) - 1) \o SubSeq(cps, a + 1, b) = SubSeq(cps, 1, b)
      BY <1>1, <3>1, PartOf
    <3>3. x \in Seq(CodePoints) /\ Len(x) = a
      BY <1>1, <2>2 DEF c
    <3>4. Len(y) # 0
      BY <2>2, <3>1, <3>2
    <3> HIDE DEF x
    <3>5. y # <<>>
      <4> HIDE DEF y
      <4> QED
        BY <3>4
    <3> QED
      BY <3>1, <3>2, <3>3, <3>5 DEF x
  <2> HIDE DEF x, y
  <2>4. CutWhereMay(x, done(n))
    BY <1>8 DEF x, a
  <2>5. CutAtRuns(y, limited[n + 1])
    BY <1>6, <2>1, <2>2, <2>3, WhitespaceLimitedIs
  <2>6. Len(x) % TIKTOKEN_MAX_ENCODE_CHARS = 0 /\ Len(y) <= TIKTOKEN_MAX_ENCODE_CHARS
    BY <2>2, <2>3 DEF M
  <2>7. done(n + 1) = done(n) \o limited[n + 1]
    <3>1. First(limited, n + 1) = Append(First(limited, n), limited[n + 1])
      BY <1>6, <2>1, FirstGrows
    <3>2. First(limited, n) \in Seq(Seq(Slices)) /\ limited[n + 1] \in Seq(Slices)
      <4>1. Cuts(Seq(Slices), limited, n, n + 1)
        BY <1>6, <2>1, FirstSplits
      <4> QED
        BY <1>6, <2>1, <4>1 DEF Cuts
    <3> QED
      BY <3>1, <3>2, FlattenAppend
  <2> HIDE DEF done
  <2>8. CutWhereMay(x \o y, done(n) \o limited[n + 1])
    BY <2>3, <2>4, <2>5, <2>6, CutOfBoth
  <2>9. CutWhereMay(SubSeq(cps, 1, b), done(n + 1))
    BY <2>3, <2>7, <2>8
  <2> QED
    BY <1>4, <2>1, <2>9 DEF b
<1>9. k \in S
  <2> HIDE DEF S
  <2> QED
    BY <1>4, <1>7, <1>8, UpTo
<1>10. SubSeq(cps, 1, c) = cps
  BY <1>1 DEF c
<1>11. First(limited, k) = limited
  BY <1>6, FirstAll
<1> QED
  BY <1>3, <1>4, <1>9, <1>10, <1>11 DEF cps

\* A text encoded as for a legacy tiktoken tokenizer is cut where such a tokenizer
\* cuts it (tiktoken_safe_chunks): its chunks are the text, none is longer than
\* TIKTOKEN_MAX_ENCODE_CHARS or has a run of space, or of other characters, longer
\* than MAX_CONSECUTIVE_CHARS, and each ends at a multiple of the one or because the
\* next character would have made such a run.
THEOREM LegacyChunks == EncSpec => []ChunksAsLegacy
<1>1. CallsOK => ChunksAsLegacy
  <2> SUFFICES ASSUME CallsOK, pc = "split", NEW part \in Range(job.parts)
               PROVE  CutAsLegacy(part.text, chunk_chars(part.text))
    BY DEF ChunksAsLegacy
  <2> DEFINE s == part.text
             chunks == chunk_chars(s)
  <2>1. s \in Strings
    <3>1. IsJob(job)
      BY PipelineAssumption DEF CallsOK
    <3>2. PICK i \in DOMAIN job.parts : part = job.parts[i]
      BY DEF Range
    <3>3. IsText(s)
      BY <3>1, <3>2 DEF IsJob
    <3> QED
      BY <3>3 DEF Strings, IsText
  <2>2. CutWhereMay(Chars(s), chunks)
    BY <2>1, ChunksAre
  <2> HIDE DEF chunks, s
  <2>3. /\ chunks \in Seq(Slices) /\ Len(chunks) \in Nat /\ DOMAIN chunks = 1..Len(chunks)
        /\ FlattenSeq(chunks) = Chars(s)
    BY <2>2 DEF CutWhereMay
  <2>4. ASSUME NEW i \in 1..(Len(chunks) - 1)
        PROVE  \/ Len(FlattenSeq(SubSeq(chunks, 1, i))) % TIKTOKEN_MAX_ENCODE_CHARS = 0
               \/ RunIsFull(chunks[i], chunks[i + 1])
    <3>1. SubSeq(chunks, 1, i) = First(chunks, i)
      <4>1. Cuts(Slices, chunks, i, Len(chunks))
        BY <2>3, FirstSplits
      <4>2. /\ First(chunks, i) \in Seq(Slices) /\ Len(First(chunks, i)) = i
            /\ \A j \in 1..i : First(chunks, i)[j] = chunks[j]
        BY <4>1 DEF Cuts, First
      <4>3. /\ SubSeq(chunks, 1, i) \in Seq(Slices) /\ Len(SubSeq(chunks, 1, i)) = i
            /\ \A j \in 1..i : SubSeq(chunks, 1, i)[j] = chunks[j]
        BY <2>3
      <4> QED
        BY <4>2, <4>3, SameSeq
    <3>2. FullBefore(chunks[i], chunks[i + 1][1]) => RunIsFull(chunks[i], chunks[i + 1])
      BY DEF FullBefore, RunIsFull
    <3> QED
      BY <2>2, <3>1, <3>2 DEF CutWhereMay
  <2>5. \A i \in DOMAIN chunks : Len(chunks[i]) <= TIKTOKEN_MAX_ENCODE_CHARS /\ RunsFit(chunks[i])
    BY <2>2, <2>3 DEF CutWhereMay
  <2>6. CutAsLegacy(s, chunks)
    BY <2>3, <2>4, <2>5 DEF CutAsLegacy
  <2> QED
    BY <2>6 DEF chunks, s
<1> QED
  BY <1>1, Called, PTL

(***************************************************************************)
(* Streams: what decodes to complete text can be decoded in parts.         *)
(***************************************************************************)

(***************************************************************************)
(* What a byte-level tokenizer decodes ids to.                             *)
(***************************************************************************)

\* An id is a token that is a text, or none.
LEMMA TokenType ==
  ASSUME NEW tk, IsTokenizer(tk), NEW id, NEW skip
  PROVE  Tokens(tk, id, skip) \in Seq(Strings)
<1>1. id_to_token(tk, id) \in Seq(Strings)
  <2>1. CASE AddedToken(tk, id) # {}
    <3> DEFINE same == {i \in DOMAIN tk.added : tk.added[i].id = id}
    <3>1. tk.added \in Seq(AddedTokenConfigs) /\ \A i \in DOMAIN tk.added : IsText(tk.added[i].content)
      BY DEF IsTokenizer
    <3>2. same # {} /\ same = AddedToken(tk, id)
      BY <2>1 DEF AddedToken
    <3>3. same \in SUBSET (0..Len(tk.added)) /\ Len(tk.added) \in Nat
      BY <3>1
    <3>4. Max(same) \in same
      <4> HIDE DEF same
      <4> QED
        BY <3>2, <3>3, MaxIs
    <3>5. IsText(Content(tk.added, id))
      BY <3>1, <3>4 DEF Content
    <3>6. Content(tk.added, id) \in Strings
      BY <3>5 DEF Strings, IsText
    <3>7. id_to_token(tk, id) = <<Content(tk.added, id)>>
      BY <2>1 DEF id_to_token
    <3> HIDE DEF same
    <3> QED
      BY <3>6, <3>7
  <2>2. CASE AddedToken(tk, id) = {}
    <3> DEFINE of == {s \in DOMAIN tk.vocab : tk.vocab[s] = id}
               c == CHOOSE s \in of : TRUE
    <3>1. id_to_token(tk, id) = IF of = {} THEN <<>> ELSE <<c>>
      BY <2>2, Zenon DEF id_to_token
    <3>2. of # {} => c \in of
      OBVIOUS
    <3>3. of # {} => c \in Strings
      <4>1. \A s \in DOMAIN tk.vocab : IsText(s)
        BY DEF IsTokenizer
      <4>2. of # {} => IsText(c)
        BY <3>2, <4>1
      <4> QED
        BY <4>2 DEF Strings, IsText
    <3> HIDE DEF of, c
    <3> QED
      BY <3>1, <3>3
  <2> QED
    BY <2>1, <2>2
<1>2. Tokens(tk, id, skip) = <<>> \/ Tokens(tk, id, skip) = id_to_token(tk, id)
  BY DEF Tokens
<1>3. <<>> \in Seq(Strings)
  OBVIOUS
<1> QED
  BY <1>1, <1>2, <1>3

\* The tokens of two lists of ids are those of one, then those of the other.
LEMMA TokensJoin ==
  ASSUME NEW tk, IsTokenizer(tk), NEW skip, NEW a \in Seq(Nat), NEW b \in Seq(Nat)
  PROVE  /\ TokensOf(tk, a, skip) \in Seq(Strings) /\ TokensOf(tk, b, skip) \in Seq(Strings)
         /\ TokensOf(tk, a \o b, skip) = TokensOf(tk, a, skip) \o TokensOf(tk, b, skip)
<1> DEFINE f == [id \in Nat |-> Tokens(tk, id, skip)]
<1>1. Gives(f, Nat, Strings)
  BY TokenType DEF Gives
<1>2. ASSUME NEW list \in Seq(Nat)
      PROVE  TokensOf(tk, list, skip) = EachJoined(f, list) /\ EachJoined(f, list) \in Seq(Strings)
  <2>1. DOMAIN list = 1..Len(list) /\ \A i \in 1..Len(list) : f[list[i]] = Tokens(tk, list[i], skip)
    OBVIOUS
  <2>2. Each(f, list) = [i \in DOMAIN list |-> Tokens(tk, list[i], skip)]
    BY <2>1 DEF Each
  <2>3. EachJoined(f, list) \in Seq(Strings)
    <3> HIDE DEF f
    <3> QED
      BY <1>1, EachType
  <2> QED
    BY <2>2, <2>3 DEF TokensOf, EachJoined
<1>3. a \o b \in Seq(Nat)
  OBVIOUS
<1> HIDE DEF f
<1>4. EachJoined(f, a \o b) = EachJoined(f, a) \o EachJoined(f, b)
  BY <1>1, EachOfTwo
<1> QED
  BY <1>2, <1>3, <1>4

\* What a stream needs of a decoder: texts, and where a text is complete, what
\* comes after it is decoded alone.
Joins(tk, skip) ==
  /\ decode(tk, <<>>, skip) = <<>>
  /\ \A a \in Seq(Nat) : decode(tk, a, skip) \in Strings
  /\ \A a, b \in Seq(Nat) : ~ EndsIncomplete(decode(tk, a, skip)) =>
        decode(tk, a \o b, skip) = decode(tk, a, skip) \o decode(tk, b, skip)

\* The byte level gives that.
LEMMA BytesJoinUp ==
  ASSUME NEW tk, IsTokenizer(tk), tk.decoder = ByteLevelOnly, NEW skip
  PROVE  Joins(tk, skip)
<1> DEFINE B(list) == BytesOfTokens(TokensOf(tk, list, skip))
           G(list) == Lossy(B(list))
           D(list) == decode(tk, list, skip)
<1>1. ASSUME NEW a \in Seq(Nat)
      PROVE  B(a) \in Seq(Bytes) /\ G(a) \in Seq(CodePoints) /\ AreCodePoints(G(a)) /\ D(a) = Str(G(a)) /\ D(a) \in Strings
  <2>1. TokensOf(tk, a, skip) \in Seq(Strings)
    BY <1>1, TokensJoin
  <2>2. B(a) \in Seq(Bytes)
    BY <2>1, BytesJoin
  <2>3. G(a) \in Seq(CodePoints) /\ AreCodePoints(G(a))
    BY <2>2, LossyCodes
  <2>4. D(a) = Str(G(a))
    BY <2>1, BytesDecode DEF decode
  <2>5. Str(G(a)) \in Strings
    <3> HIDE DEF G
    <3> QED
      BY <2>3, StringsAre
  <2> QED
    BY <2>2, <2>3, <2>4, <2>5
<1>2. D(<<>>) = <<>>
  <2> DEFINE e == TokensOf(tk, <<>>, skip)
  <2>1. Len(e) = 0 /\ e = <<>>
    <3>1. TokensOf(tk, <<>>, skip) = FlattenSeq([i \in DOMAIN <<>> |-> Tokens(tk, (<<>>)[i], skip)])
      BY DEF TokensOf
    <3>2. [i \in DOMAIN <<>> |-> Tokens(tk, (<<>>)[i], skip)] = <<>>
      OBVIOUS
    <3> QED
      BY <3>1, <3>2, FlattenOfNone
  <2>2. B(<<>>) = <<>>
    <3>1. [i \in 1..Len(e) |-> Unmapped(e[i])] = <<>>
      BY <2>1
    <3> QED
      BY <3>1, FlattenOfNone DEF BytesOfTokens
  <2>3. Lossy(<<>>) = <<>>
    BY NothingIsText DEF Chars
  <2>4. Str(<<>>) = <<>> /\ <<>> \in Seq(Nat)
    BY NothingIsText
  <2> QED
    BY <1>1, <2>2, <2>3, <2>4
<1>3. ASSUME NEW a \in Seq(Nat), NEW b \in Seq(Nat), ~ EndsIncomplete(D(a))
      PROVE  D(a \o b) = D(a) \o D(b)
  <2>1. a \o b \in Seq(Nat)
    OBVIOUS
  <2>2. B(a \o b) = B(a) \o B(b)
    <3>1. /\ TokensOf(tk, a, skip) \in Seq(Strings) /\ TokensOf(tk, b, skip) \in Seq(Strings)
          /\ TokensOf(tk, a \o b, skip) = TokensOf(tk, a, skip) \o TokensOf(tk, b, skip)
      BY TokensJoin
    <3> QED
      BY <3>1, BytesJoin
  <2>3. Whole(G(a))
    <3>1. AreCodePoints(G(a)) /\ ~ EndsIncomplete(Str(G(a)))
      BY <1>1, <1>3
    <3> HIDE DEF G
    <3> QED
      BY <3>1, IncompleteIs
  <2>4. G(a \o b) = G(a) \o G(b)
    <3>1. B(a) \in Seq(Bytes) /\ B(b) \in Seq(Bytes)
      BY <1>1
    <3> DEFINE x == B(a)  y == B(b)
    <3> HIDE DEF x, y
    <3>2. Lossy(x \o y) = Lossy(x) \o Lossy(y)
      BY <2>3, <3>1, LossyJoins DEF x, y
    <3> QED
      BY <2>2, <3>2 DEF x, y
  <2> HIDE DEF G, D
  <2>5. Str(G(a) \o G(b)) = Str(G(a)) \o Str(G(b))
    BY <1>1, TextConcat
  <2> QED
    BY <1>1, <2>1, <2>4, <2>5
<1> QED
  BY <1>1, <1>2, <1>3 DEF Joins

\* What a DecodeStream keeps.
Streams == [window : Seq(Nat), prefix : Strings, index : Nat, given : Seq(Nat), seed : Nat, said : Seq(Bytes)]

SeedOf(st) == SubSeq(st.given, 1, st.seed)

\* The ids given: those the window has left behind, those of the prefix, and
\* those whose text is still to come.
Parted(tk, skip, st, pre, mid, rest) ==
  /\ pre \in Seq(Nat) /\ mid \in Seq(Nat) /\ rest \in Seq(Nat)
  /\ st.given = (pre \o mid) \o rest /\ st.window = mid \o rest /\ st.index = Len(mid)
  /\ st.prefix = decode(tk, mid, skip) /\ ~ EndsIncomplete(st.prefix)

\* The text of the ids before is the one of the seed and what was returned.
Settled(tk, skip, st, before) ==
  LET seed == decode(tk, SeedOf(st), skip)
      text == decode(tk, before, skip)
  IN  ~ EndsIncomplete(seed) => text = seed \o st.said /\ ~ EndsIncomplete(text)

\* There is nothing to return of the ids yet.
Held(tk, skip, rest) == LET text == decode(tk, rest, skip) IN text = <<>> \/ EndsIncomplete(text)

UnderWay(tk, skip, st) == \E pre, mid, rest :
  Parted(tk, skip, st, pre, mid, rest) /\ Settled(tk, skip, st, pre \o mid) /\ Held(tk, skip, rest)

\* A stream of which no step was made.
Fresh(st) ==
  st.window = st.given /\ st.seed = Len(st.given) /\ st.prefix = <<>> /\ st.index = 0 /\ st.said = <<>>

\* What is true of a stream between two steps.
StreamOK(tk, skip, st) ==
  st \in Streams /\ st.seed <= Len(st.given) /\ (Fresh(st) \/ UnderWay(tk, skip, st))

\* A decoder that joins, said of two lists of ids.
LEMMA Joined ==
  ASSUME NEW tk, NEW skip, Joins(tk, skip), NEW a \in Seq(Nat), NEW b \in Seq(Nat)
  PROVE  /\ decode(tk, a, skip) \in Strings /\ decode(tk, b, skip) \in Strings
         /\ decode(tk, a, skip) \in Seq(Bytes) /\ decode(tk, b, skip) \in Seq(Bytes)
         /\ ~ EndsIncomplete(decode(tk, a, skip)) =>
              /\ decode(tk, a \o b, skip) = decode(tk, a, skip) \o decode(tk, b, skip)
              /\ decode(tk, b, skip) # <<>> =>
                   (EndsIncomplete(decode(tk, a \o b, skip)) <=> EndsIncomplete(decode(tk, b, skip)))
<1> DEFINE x == decode(tk, a, skip)
           y == decode(tk, b, skip)
<1>1. x \in Strings /\ y \in Strings /\ (~ EndsIncomplete(x) => decode(tk, a \o b, skip) = x \o y)
  BY DEF Joins
<1> HIDE DEF x, y
<1>2. x \in Seq(Bytes) /\ y \in Seq(Bytes)
  BY <1>1, StringsAre
<1>3. y # <<>> => (EndsIncomplete(x \o y) <=> EndsIncomplete(y))
  BY <1>1, EndOfTwo
<1> QED
  BY <1>1, <1>2, <1>3 DEF x, y

\* Once the prefix is there, if it can be, a stream is under way.
LEMMA Priming ==
  ASSUME NEW tk, NEW skip, Joins(tk, skip), NEW st, StreamOK(tk, skip, st),
         NEW p, p = Primed(st, decode(tk, st.window, skip))
  PROVE  p \in Streams /\ p.seed <= Len(p.given) /\ UnderWay(tk, skip, p) /\ p.given = st.given
<1> DEFINE D(list) == decode(tk, list, skip)
           s == D(st.window)
<1>1. st \in Streams /\ st.seed <= Len(st.given) /\ (Fresh(st) \/ UnderWay(tk, skip, st))
  BY DEF StreamOK
<1>2. st.window \in Seq(Nat) /\ st.given \in Seq(Nat) /\ <<>> \in Seq(Nat) /\ s \in Strings
  BY <1>1 DEF Streams, Joins
<1>3. D(<<>>) = <<>> /\ ~ EndsIncomplete(<<>>)
  BY NothingEnds DEF Joins
<1>4. CASE st.prefix = <<>> /\ st.window # <<>> /\ ~ EndsIncomplete(s)
  <2>1. p = [st EXCEPT !.prefix = s, !.index = Len(st.window)]
    BY <1>4 DEF Primed
  <2> HIDE DEF s
  <2>2. /\ p \in Streams /\ p.given = st.given /\ p.seed = st.seed /\ p.said = st.said
        /\ p.window = st.window /\ p.prefix = s /\ p.index = Len(st.window)
    <3> DEFINE n == Len(st.window)
    <3>1. n \in Nat /\ p = [st EXCEPT !.prefix = s, !.index = n]
      BY <1>2, <2>1
    <3> HIDE DEF n
    <3>2. /\ p \in Streams /\ p.given = st.given /\ p.seed = st.seed /\ p.said = st.said
          /\ p.window = st.window /\ p.prefix = s /\ p.index = n
      BY <1>1, <1>2, <3>1 DEF Streams
    <3> QED
      BY <3>2 DEF n
  <2>3. SeedOf(p) = SeedOf(st)
    BY <2>2 DEF SeedOf
  <2>4. Held(tk, skip, <<>>)
    BY <1>3 DEF Held
  <2>5. ASSUME Fresh(st)
        PROVE  UnderWay(tk, skip, p)
    <3> DEFINE w == st.window
    <3>1. w = st.given /\ st.seed = Len(w) /\ st.said = <<>> /\ w \in Seq(Nat)
      BY <1>2, <2>5 DEF Fresh
    <3> HIDE DEF w
    <3>2. <<>> \o w = w /\ w \o <<>> = w /\ SubSeq(w, 1, Len(w)) = w
      BY <3>1
    <3>3. SeedOf(p) = w
      BY <2>3, <3>1, <3>2 DEF SeedOf
    <3>4. Parted(tk, skip, p, <<>>, w, <<>>)
      BY <1>2, <1>4, <2>2, <3>1, <3>2 DEF Parted, s, w
    <3>5. D(w) \in Seq(Bytes) /\ D(w) \o <<>> = D(w)
      <4>1. D(w) \in Seq(Bytes)
        BY <3>1, Joined
      <4> HIDE DEF D
      <4> QED
        BY <4>1
    <3>6. Settled(tk, skip, p, <<>> \o w)
      BY <2>2, <3>1, <3>2, <3>3, <3>5 DEF Settled
    <3> QED
      BY <2>4, <3>4, <3>6 DEF UnderWay
  <2>6. ASSUME UnderWay(tk, skip, st)
        PROVE  UnderWay(tk, skip, p)
    <3>1. PICK pre, mid, rest :
            Parted(tk, skip, st, pre, mid, rest) /\ Settled(tk, skip, st, pre \o mid) /\ Held(tk, skip, rest)
      BY <2>6 DEF UnderWay
    <3>2. /\ pre \in Seq(Nat) /\ mid \in Seq(Nat) /\ rest \in Seq(Nat)
          /\ st.given = (pre \o mid) \o rest /\ st.window = mid \o rest
          /\ st.prefix = D(mid) /\ ~ EndsIncomplete(st.prefix)
      BY <3>1 DEF Parted
    <3> DEFINE before == pre \o mid
               w == mid \o rest
    <3>3. /\ before \in Seq(Nat) /\ w \in Seq(Nat) /\ pre \o w = before \o rest /\ w \o <<>> = w
          /\ (pre \o w) \o <<>> = before \o rest
      <4>1. before \in Seq(Nat) /\ w \in Seq(Nat) /\ pre \o w = before \o rest
        <5>1. Three(Nat, pre, mid, rest) /\ before \in Seq(Nat) /\ w \in Seq(Nat)
          BY <3>2 DEF Three
        <5>2. (pre \o mid) \o rest = pre \o (mid \o rest)
          BY <5>1, Bracketed
        <5> QED
          BY <5>1, <5>2
      <4> HIDE DEF before, w
      <4>2. before \o rest \in Seq(Nat)
        BY <3>2, <4>1
      <4> DEFINE all == before \o rest
      <4> HIDE DEF all
      <4>3. all \o <<>> = all /\ w \o <<>> = w
        BY <4>1, <4>2 DEF all
      <4> QED
        BY <4>1, <4>3 DEF all
    <3>4. D(rest) = <<>>
      <4>3. D(mid) = <<>> /\ ~ EndsIncomplete(D(mid))
        BY <1>4, <3>2
      <4>5. mid \in Seq(Nat) /\ rest \in Seq(Nat) /\ ~ EndsIncomplete(decode(tk, mid, skip))
        BY <3>2, <4>3
      <4>4. D(mid \o rest) = D(mid) \o D(rest) /\ D(rest) \in Seq(Bytes)
        BY <4>5, Joined
      <4>1. s = <<>> \o D(rest) /\ D(rest) \in Seq(Bytes)
        BY <3>2, <4>3, <4>4 DEF s
      <4>2. s = D(rest)
        <5> HIDE DEF D
        <5> QED
          BY <4>1
      <4> QED
        BY <1>4, <3>1, <4>2 DEF Held
    <3>5. Parted(tk, skip, p, pre, w, <<>>)
      <4>1. p.given = (pre \o w) \o <<>> /\ p.window = w \o <<>> /\ p.index = Len(w) /\ p.prefix = D(w)
        BY <2>2, <3>2, <3>3 DEF s
      <4>2. ~ EndsIncomplete(p.prefix)
        BY <1>4, <2>2
      <4> HIDE DEF w
      <4> QED
        BY <1>2, <3>2, <3>3, <4>1, <4>2 DEF Parted
    <3>6. Settled(tk, skip, p, pre \o w)
      <4> SUFFICES ASSUME ~ EndsIncomplete(D(SeedOf(p)))
                   PROVE  D(pre \o w) = D(SeedOf(p)) \o p.said /\ ~ EndsIncomplete(D(pre \o w))
        BY DEF Settled
      <4>1. D(before) = D(SeedOf(p)) \o p.said /\ ~ EndsIncomplete(D(before))
        BY <2>2, <2>3, <3>1 DEF Settled
      <4> HIDE DEF before, w
      <4>4. before \in Seq(Nat) /\ rest \in Seq(Nat) /\ ~ EndsIncomplete(decode(tk, before, skip))
        BY <3>2, <3>3, <4>1
      <4>2. D(before \o rest) = D(before) \o D(rest) /\ D(before) \in Seq(Bytes)
        BY <4>4, Joined
      <4>3. D(before) \o D(rest) = D(before)
        <5> HIDE DEF D
        <5> QED
          BY <3>4, <4>2
      <4> QED
        BY <3>3, <4>1, <4>2, <4>3
    <3> HIDE DEF w
    <3> QED
      BY <2>4, <3>5, <3>6 DEF UnderWay
  <2> QED
    BY <1>1, <2>2, <2>5, <2>6
<1>5. CASE ~ (st.prefix = <<>> /\ st.window # <<>> /\ ~ EndsIncomplete(s))
  <2>1. p = st
    BY <1>5 DEF Primed
  <2>2. ASSUME Fresh(st)
        PROVE  UnderWay(tk, skip, st)
    <3> DEFINE w == st.window
    <3>1. /\ w = st.given /\ st.seed = Len(w) /\ st.said = <<>> /\ w \in Seq(Nat)
          /\ st.prefix = <<>> /\ st.index = 0
      BY <1>2, <2>2 DEF Fresh
    <3>2. w = <<>> \/ EndsIncomplete(D(w))
      BY <1>5, <3>1
    <3> HIDE DEF w, s
    <3>3. <<>> \o w = w /\ <<>> \o <<>> = <<>> /\ SubSeq(w, 1, Len(w)) = w /\ Len(<<>>) = 0
      BY <3>1
    <3>4. SeedOf(st) = w
      BY <3>1, <3>3 DEF SeedOf
    <3>5. Parted(tk, skip, st, <<>>, <<>>, w)
      <4>1. st.given = (<<>> \o <<>>) \o w /\ st.window = <<>> \o w /\ st.index = Len(<<>>)
        BY <3>1, <3>3 DEF w
      <4>2. st.prefix = D(<<>>) /\ ~ EndsIncomplete(st.prefix)
        BY <1>3, <3>1
      <4> QED
        BY <1>2, <3>1, <4>1, <4>2 DEF Parted
    <3>6. Settled(tk, skip, st, <<>> \o <<>>)
      <4> SUFFICES ASSUME ~ EndsIncomplete(D(SeedOf(st)))
                   PROVE  D(<<>>) = D(SeedOf(st)) \o st.said /\ ~ EndsIncomplete(D(<<>>))
        BY <3>3 DEF Settled
      <4>1. w = <<>>
        BY <3>2, <3>4
      <4>2. D(SeedOf(st)) = <<>>
        BY <1>3, <3>4, <4>1
      <4> QED
        BY <1>3, <3>1, <3>3, <4>2
    <3>7. Held(tk, skip, w)
      BY <1>3, <3>2 DEF Held
    <3> QED
      BY <3>5, <3>6, <3>7 DEF UnderWay
  <2> QED
    BY <1>1, <2>1, <2>2
<1> QED
  BY <1>4, <1>5

\* The stream whose window is decoded and gives text.
Said(tk, skip, st, text) ==
  LET window == SubSeq(st.window, st.index + 1, Len(st.window))
  IN  [st EXCEPT !.said = @ \o SubSeq(text, Len(st.prefix) + 1, Len(text)),
                 !.window = window, !.prefix = decode(tk, window, skip), !.index = Len(window)]

\* A step leaves a stream under way, whether it returns a text or not, and the
\* text always goes on from the prefix.
LEMMA Stepping ==
  ASSUME NEW tk, NEW skip, Joins(tk, skip), NEW p \in Streams, p.seed <= Len(p.given), UnderWay(tk, skip, p),
         NEW new \in Seq(Nat), NEW q, q = Extended(p, new), NEW text, text = decode(tk, q.window, skip)
  PROVE  /\ ~ Ready(q, text) => StreamOK(tk, skip, q)
         /\ Ready(q, text) => IsPrefix(q.prefix, text) /\ StreamOK(tk, skip, Said(tk, skip, q, text))
<1>1. PICK pre, mid, rest :
        Parted(tk, skip, p, pre, mid, rest) /\ Settled(tk, skip, p, pre \o mid) /\ Held(tk, skip, rest)
  BY DEF UnderWay
<1>2. /\ pre \in Seq(Nat) /\ mid \in Seq(Nat) /\ rest \in Seq(Nat)
      /\ p.given = (pre \o mid) \o rest /\ p.window = mid \o rest /\ p.index = Len(mid)
      /\ p.prefix = decode(tk, mid, skip) /\ ~ EndsIncomplete(p.prefix)
  BY <1>1 DEF Parted
<1> DEFINE before == pre \o mid
           more == rest \o new
           given == before \o more
           window == mid \o more
<1>3. /\ q \in Streams /\ q.given = p.given \o new /\ q.window = p.window \o new
      /\ q.seed = p.seed /\ q.said = p.said /\ q.prefix = p.prefix /\ q.index = p.index
  <2>1. p.given \in Seq(Nat) /\ p.window \in Seq(Nat)
    BY DEF Streams
  <2>2. p.given \o new \in Seq(Nat) /\ p.window \o new \in Seq(Nat)
    BY <2>1
  <2> DEFINE g == p.given \o new
             w == p.window \o new
  <2>3. q = [p EXCEPT !.window = w, !.given = g]
    BY DEF Extended
  <2> HIDE DEF g, w
  <2>4. g \in Seq(Nat) /\ w \in Seq(Nat)
    BY <2>2 DEF g, w
  <2>5. /\ q \in Streams /\ q.given = g /\ q.window = w
        /\ q.seed = p.seed /\ q.said = p.said /\ q.prefix = p.prefix /\ q.index = p.index
    BY <2>3, <2>4 DEF Streams
  <2> QED
    BY <2>5 DEF g, w
<1>4. before \in Seq(Nat) /\ more \in Seq(Nat) /\ given \in Seq(Nat) /\ window \in Seq(Nat)
  BY <1>2
<1>5. q.given = given /\ q.window = window
  <2>1. before \in Seq(Nat) /\ mid \in Seq(Nat) /\ rest \in Seq(Nat) /\ new \in Seq(Nat)
    BY <1>2, <1>4
  <2>2. (before \o rest) \o new = before \o (rest \o new) /\ (mid \o rest) \o new = mid \o (rest \o new)
    <3> HIDE DEF before
    <3>1. Brackets(before, rest, new) /\ Brackets(mid, rest, new)
      BY <2>1, Rebracketed
    <3> QED
      BY <3>1, Zenon DEF Brackets
  <2> QED
    BY <1>2, <1>3, <2>2
<1>6. p.seed \in Nat /\ q.seed <= Len(q.given) /\ SeedOf(q) = SeedOf(p)
  <2>1. p.seed \in Nat /\ p.given \in Seq(Nat) /\ q.given = p.given \o new /\ q.seed = p.seed
    BY <1>3 DEF Streams
  <2> DEFINE g == p.given
             n == p.seed
  <2>2. g \in Seq(Nat) /\ n \in Nat /\ n <= Len(g)
    BY <2>1
  <2> HIDE DEF g, n
  <2>3. Len(g \o new) >= Len(g) /\ Len(g \o new) \in Nat
    BY <2>2
  <2>4. SubSeq(g \o new, 1, n) = SubSeq(g, 1, n)
    <3>1. /\ SubSeq(g \o new, 1, n) \in Seq(Nat) /\ SubSeq(g, 1, n) \in Seq(Nat)
          /\ Len(SubSeq(g \o new, 1, n)) = n /\ Len(SubSeq(g, 1, n)) = n
          /\ \A i \in 1..n : SubSeq(g \o new, 1, n)[i] = SubSeq(g, 1, n)[i]
      BY <2>2, <2>3
    <3> QED
      BY <2>2, <3>1, SameSeq
  <2> QED
    BY <2>1, <2>2, <2>3, <2>4 DEF g, n, SeedOf
<1> DEFINE tail == decode(tk, more, skip)
<1>7. text = decode(tk, mid \o more, skip)
  BY <1>5
<1> HIDE DEF before, more, given, window
<1>8. /\ text = q.prefix \o tail /\ q.prefix \in Strings /\ tail \in Strings
      /\ q.prefix \in Seq(Bytes) /\ tail \in Seq(Bytes) /\ text \in Seq(Bytes)
      /\ Len(text) > Len(q.prefix) <=> tail # <<>>
      /\ IsPrefix(q.prefix, text) /\ SubSeq(text, Len(q.prefix) + 1, Len(text)) = tail
      /\ tail # <<>> => (EndsIncomplete(text) <=> EndsIncomplete(tail))
  <2> DEFINE prefix == q.prefix
  <2>1. prefix = decode(tk, mid, skip) /\ ~ EndsIncomplete(decode(tk, mid, skip)) /\ mid \in Seq(Nat) /\ more \in Seq(Nat)
    BY <1>2, <1>3, <1>4
  <2>2. decode(tk, mid \o more, skip) = decode(tk, mid, skip) \o tail
    BY <2>1, Joined
  <2>3. prefix \in Strings /\ tail \in Strings
    BY <2>1, Joined
  <2>4. text = prefix \o tail
    BY <1>7, <2>1, <2>2
  <2> HIDE DEF prefix, tail
  <2>5. GoesOn(prefix, text, tail)
    BY <2>3, <2>4, TextGoesOn
  <2> QED
    BY <2>3, <2>4, <2>5 DEF prefix, GoesOn
<1>9. ASSUME ~ Ready(q, text)
      PROVE  StreamOK(tk, skip, q)
  <2>1. Held(tk, skip, more)
    BY <1>8, <1>9 DEF Held, Ready
  <2>2. Parted(tk, skip, q, pre, mid, more)
    BY <1>2, <1>3, <1>4, <1>5 DEF Parted, given, window, before
  <2>3. Settled(tk, skip, q, pre \o mid)
    BY <1>1, <1>3, <1>6 DEF Settled
  <2> QED
    BY <1>3, <1>6, <2>1, <2>2, <2>3 DEF StreamOK, UnderWay
<1>10. ASSUME Ready(q, text)
       PROVE  StreamOK(tk, skip, Said(tk, skip, q, text))
  <2> DEFINE r == Said(tk, skip, q, text)
  <2>1. tail # <<>> /\ ~ EndsIncomplete(tail)
    BY <1>8, <1>10 DEF Ready
  <2>2. SubSeq(q.window, q.index + 1, Len(q.window)) = more
    <3>1. q.window = mid \o more /\ q.index = Len(mid) /\ mid \in Seq(Nat) /\ more \in Seq(Nat)
      BY <1>2, <1>3, <1>4, <1>5 DEF window
    <3> DEFINE w == mid \o more
    <3>2. SubSeq(w, Len(mid) + 1, Len(w)) = more
      <4>1. Len(w) = Len(mid) + Len(more) /\ Len(mid) \in Nat /\ Len(more) \in Nat /\ w \in Seq(Nat)
        BY <3>1
      <4>2. /\ SubSeq(w, Len(mid) + 1, Len(w)) \in Seq(Nat) /\ Len(SubSeq(w, Len(mid) + 1, Len(w))) = Len(more)
            /\ \A i \in 1..Len(more) : SubSeq(w, Len(mid) + 1, Len(w))[i] = more[i]
        <5>1. SubSeq(w, Len(mid) + 1, Len(w)) \in Seq(Nat) /\ Len(SubSeq(w, Len(mid) + 1, Len(w))) = Len(more)
          BY <4>1
        <5>2. \A i \in 1..Len(more) : w[Len(mid) + i] = more[i]
          BY <3>1, <4>1
        <5> HIDE DEF w
        <5>3. \A i \in 1..Len(more) : SubSeq(w, Len(mid) + 1, Len(w))[i] = w[Len(mid) + i]
          BY <4>1
        <5> QED
          BY <5>1, <5>2, <5>3
      <4> QED
        BY <3>1, <4>2, SameSeq
    <3> QED
      BY <3>1, <3>2
  <2>3. /\ r \in Streams /\ r.said = q.said \o tail /\ r.window = more /\ r.prefix = tail /\ r.index = Len(more)
        /\ r.given = q.given /\ r.seed = q.seed
    <3> DEFINE said == q.said \o tail
               n == Len(more)
    <3>1. said \in Seq(Bytes) /\ n \in Nat
      <4>1. q.said \in Seq(Bytes)
        BY <1>3 DEF Streams
      <4> HIDE DEF tail
      <4> QED
        BY <1>4, <1>8, <4>1
    <3>2. r = [q EXCEPT !.said = said, !.window = more, !.prefix = tail, !.index = n]
      BY <1>8, <2>2 DEF Said
    <3> HIDE DEF said, n, r, tail
    <3>3. /\ r \in Streams /\ r.said = said /\ r.window = more /\ r.prefix = tail /\ r.index = n
          /\ r.given = q.given /\ r.seed = q.seed
      BY <1>3, <1>4, <1>8, <3>1, <3>2 DEF Streams
    <3> QED
      BY <3>3 DEF said, n
  <2> HIDE DEF r
  <2>4. Parted(tk, skip, r, before, more, <<>>)
    <3>1. more \o <<>> = more /\ (before \o more) \o <<>> = before \o more /\ <<>> \in Seq(Nat)
      <4> DEFINE all == before \o more
      <4>1. all \in Seq(Nat)
        BY <1>4 DEF given
      <4> HIDE DEF all
      <4>2. all \o <<>> = all /\ more \o <<>> = more
        BY <1>4, <4>1
      <4> QED
        BY <4>2 DEF all
    <3>2. r.given = before \o more
      BY <1>5, <2>3 DEF given
    <3> QED
      BY <1>4, <2>1, <2>3, <3>1, <3>2 DEF Parted
  <2>5. Held(tk, skip, <<>>)
    BY DEF Held, Joins
  <2>6. Settled(tk, skip, r, before \o more)
    <3> SUFFICES ASSUME ~ EndsIncomplete(decode(tk, SeedOf(r), skip))
                 PROVE  /\ decode(tk, before \o more, skip) = decode(tk, SeedOf(r), skip) \o r.said
                        /\ ~ EndsIncomplete(decode(tk, before \o more, skip))
      BY DEF Settled
    <3> DEFINE seed == decode(tk, SeedOf(r), skip)
               said == decode(tk, before, skip)
    <3>1. SeedOf(r) = SeedOf(p)
      BY <1>6, <2>3 DEF SeedOf
    <3>2. said = seed \o p.said /\ ~ EndsIncomplete(said)
      BY <1>1, <3>1 DEF Settled, before
    <3>3. /\ decode(tk, before \o more, skip) = said \o tail
          /\ EndsIncomplete(decode(tk, before \o more, skip)) <=> EndsIncomplete(tail)
      BY <1>4, <2>1, <3>2, Joined
    <3>4. SeedOf(p) \in Seq(Nat)
      <4>1. p.given \in Seq(Nat) /\ p.seed \in Nat /\ p.seed <= Len(p.given)
        BY DEF Streams
      <4> QED
        BY <4>1 DEF SeedOf
    <3>5. seed \in Seq(Bytes)
      BY <3>1, <3>4, Joined
    <3>6. (seed \o p.said) \o tail = seed \o (p.said \o tail)
      <4>1. seed \in Seq(Bytes) /\ p.said \in Seq(Bytes) /\ tail \in Seq(Bytes)
        BY <1>8, <3>5 DEF Streams
      <4> HIDE DEF seed, tail
      <4>2. Brackets(seed, p.said, tail)
        BY <4>1, Rebracketed
      <4> QED
        BY <4>2, Zenon DEF Brackets
    <3> QED
      BY <1>3, <2>1, <2>3, <3>2, <3>3, <3>6
  <2>7. r.seed <= Len(r.given)
    BY <1>6, <2>3
  <2> QED
    BY <2>3, <2>4, <2>5, <2>6, <2>7 DEF StreamOK, UnderWay, r
<1> QED
  BY <1>8, <1>9, <1>10

\* Whoever is at work has a tokenizer that loads.
LEMMA WorksWithTokenizer ==
  ASSUME CallsOK, pc # "idle"
  PROVE  IsTokenizer(This)
<1>1. job \in Jobs \cup IdJobs
  BY DEF CallsOK
<1>2. CASE job \in Jobs
  BY <1>2, JobsAre DEF This
<1>3. CASE job \in IdJobs
  BY <1>3, PipelineAssumption DEF IdJobs, This
<1> QED
  BY <1>1, <1>2, <1>3

\* The tokenizer at work decodes so that texts can be put together.
DecodesInParts == Joins(This, job.skip)

\* Streams are in order, those of which no step was made yet, too; and only an
\* encode has failed.
StreamsOK ==
  /\ pc \notin {"stream", "failed"} => stream = NoStream
  /\ (pc = "stream" /\ DecodesInParts) => StreamOK(This, job.skip, stream)
  /\ (pc = "failed" /\ DecodesInParts) => stream.given = <<>>

\* What a step of a stream is given.
LEMMA Feeding ==
  ASSUME IdsOK, DecodesInParts, StreamOK(This, job.skip, stream), NEW fed \in Fed
  PROVE  /\ ~ Ready(fed.st, fed.text) => StreamOK(This, job.skip, fed.st)
         /\ Ready(fed.st, fed.text) =>
              IsPrefix(fed.st.prefix, fed.text) /\ StreamOK(This, job.skip, Said(This, job.skip, fed.st, fed.text))
<1> DEFINE tk == This
           skip == job.skip
           p == Primed(stream, decode(tk, stream.window, skip))
<1>1. PICK n \in 1..MaxStep : Len(stream.given) + n <= Len(ids) /\ fed = Looked(Extended(p, Given(n)))
  BY DEF Fed, Decoded
<1> DEFINE new == Given(n)
           q == Extended(p, new)
           text == decode(tk, q.window, skip)
<1>2. fed.st = q /\ fed.text = text
  <2> HIDE DEF p
  <2> QED
    BY <1>1 DEF Looked, Decoded
<1>3. new \in Seq(Nat)
  <2>1. stream.given \in Seq(Nat) /\ ids \in Seq(Nat)
    BY DEF StreamOK, Streams, IdsOK
  <2> DEFINE k == Len(stream.given)
  <2>2. k \in Nat /\ n \in Nat /\ k + n <= Len(ids)
    BY <1>1, <2>1
  <2> HIDE DEF k
  <2>3. SubSeq(ids, k + 1, k + n) \in Seq(Nat)
    BY <2>1, <2>2
  <2> QED
    BY <2>3 DEF k, Given
<1>4. Joins(tk, skip) /\ StreamOK(tk, skip, stream)
  BY DEF DecodesInParts
<1> HIDE DEF tk, skip, new
<1>5. p \in Streams /\ p.seed <= Len(p.given) /\ UnderWay(tk, skip, p)
  BY <1>4, Priming
<1> HIDE DEF p
<1>6. /\ ~ Ready(q, text) => StreamOK(tk, skip, q)
      /\ Ready(q, text) => IsPrefix(q.prefix, text) /\ StreamOK(tk, skip, Said(tk, skip, q, text))
  BY <1>3, <1>4, <1>5, Stepping
<1> HIDE DEF q, text
<1> QED
  BY <1>2, <1>6 DEF tk, skip

\* No step leaves the streams.
LEMMA StreamsStep ==
  ASSUME Ordering, StreamsOK, [EncNext]_<<vars, encVars>>
  PROVE  StreamsOK'
<1>1. ASSUME Begin \/ SplitAdded \/ PreTokenize \/ PostProcess \/ BeginIds \/ Wrap \/ New \/ Release
      PROVE  StreamsOK'
  <2>1. /\ pc \in {"idle", "split", "pre", "done", "encoding"} /\ pc' \notin {"stream", "failed"}
        /\ stream' = stream
    BY <1>1 DEF Begin, SplitAdded, PreTokenize, PostProcess, BeginIds, Wrap, New, Release
  <2> QED
    BY <2>1 DEF StreamsOK, NoStream
<1>2. ASSUME ModelTokenize
      PROVE  StreamsOK'
  <2>1. pc = "tokenize" /\ pc' \in {"failed", "split"} /\ stream' = stream
    BY <1>2 DEF ModelTokenize
  <2>2. stream' = NoStream /\ NoStream.given = <<>>
    BY <2>1 DEF StreamsOK, NoStream
  <2> QED
    BY <2>1, <2>2 DEF StreamsOK
<1>3. ASSUME Return
      PROVE  StreamsOK'
  <2>1. pc' = "idle" /\ stream' = NoStream
    BY <1>3 DEF Return
  <2> QED
    BY <2>1 DEF StreamsOK
<1>4. ASSUME NewStream
      PROVE  StreamsOK'
  <2>1. PICK seed \in 0..Len(ids) :
          stream' = [NoStream EXCEPT !.window = SubSeq(ids, 1, seed), !.given = SubSeq(ids, 1, seed), !.seed = seed]
    BY <1>4 DEF NewStream
  <2>2. pc' = "stream"
    BY <1>4 DEF NewStream
  <2> DEFINE w == SubSeq(ids, 1, seed)
  <2>3. w \in Seq(Nat) /\ Len(w) = seed /\ seed \in Nat
    BY DEF Ordering, IdsOK
  <2>4. stream' = [NoStream EXCEPT !.window = w, !.given = w, !.seed = seed]
    BY <2>1
  <2>5. <<>> \in Strings /\ <<>> \in Seq(Bytes)
    BY NothingEnds
  <2> DEFINE st == stream'
  <2> HIDE DEF w
  <2>6. st = [window |-> w, prefix |-> <<>>, index |-> 0, given |-> w, seed |-> seed, said |-> <<>>]
    BY <2>4 DEF NoStream
  <2>7. st \in Streams /\ Fresh(st) /\ st.seed <= Len(st.given)
    BY <2>3, <2>5, <2>6 DEF Streams, Fresh
  <2> HIDE DEF st
  <2>8. \A tk, skip : StreamOK(tk, skip, st)
    BY <2>7 DEF StreamOK
  <2> QED
    BY <2>2, <2>8 DEF StreamsOK, st
<1>5. ASSUME StepHolds \/ StepReturns \/ StepFails
      PROVE  StreamsOK'
  <2>1. pc = "stream" /\ job' = job /\ This' = This
    BY <1>5 DEF StepHolds, StepReturns, StepFails, This
  <2>2. SUFFICES ASSUME DecodesInParts
                 PROVE  pc' = "stream" /\ StreamOK(This, job.skip, stream')
    <3>1. DecodesInParts' <=> DecodesInParts
      BY <2>1 DEF DecodesInParts
    <3>2. pc' \in {"stream", "failed"}
      BY <1>5, <2>1 DEF StepHolds, StepReturns, StepFails
    <3> QED
      BY <2>1, <3>1, <3>2 DEF StreamsOK
  <2>3. IdsOK /\ StreamOK(This, job.skip, stream)
    BY <2>1, <2>2 DEF Ordering, StreamsOK
  <2>4. ASSUME StepHolds
        PROVE  pc' = "stream" /\ StreamOK(This, job.skip, stream')
    <3>1. PICK fed \in Fed : ~ Ready(fed.st, fed.text) /\ stream' = fed.st
      BY <2>4 DEF StepHolds
    <3>2. pc' = "stream"
      BY <2>1, <2>4 DEF StepHolds
    <3> QED
      BY <2>2, <2>3, <3>1, <3>2, Feeding
  <2>5. ASSUME StepReturns
        PROVE  pc' = "stream" /\ StreamOK(This, job.skip, stream')
    <3>1. PICK fed \in Fed :
            /\ Ready(fed.st, fed.text)
            /\ stream' = Spoken(fed.st, SubSeq(fed.text, Len(fed.st.prefix) + 1, Len(fed.text)),
                                SubSeq(fed.st.window, fed.st.index + 1, Len(fed.st.window)))
      BY <2>5 DEF StepReturns
    <3>2. stream' = Said(This, job.skip, fed.st, fed.text)
      BY <3>1 DEF Spoken, Said, Decoded
    <3>3. pc' = "stream"
      BY <2>1, <2>5 DEF StepReturns
    <3> QED
      BY <2>2, <2>3, <3>1, <3>2, <3>3, Feeding
  <2>6. ~ StepFails
    <3> SUFFICES ASSUME StepFails
                 PROVE  FALSE
      OBVIOUS
    <3>1. PICK fed \in Fed : Ready(fed.st, fed.text) /\ ~ IsPrefix(fed.st.prefix, fed.text)
      BY DEF StepFails
    <3> QED
      BY <2>2, <2>3, <3>1, Feeding
  <2> QED
    BY <1>5, <2>4, <2>5, <2>6
<1>6. ASSUME UNCHANGED vars
      PROVE  StreamsOK'
  <2>1. pc' = pc /\ job' = job /\ stream' = stream /\ This' = This
    BY <1>6 DEF vars, This
  <2> QED
    BY <2>1 DEF StreamsOK, DecodesInParts
<1> QED
  BY <1>1, <1>2, <1>3, <1>4, <1>5, <1>6, StepsAre

\* So it is in every state of a behaviour.
LEMMA StreamsAlways ==
  ASSUME OneIdEach
  PROVE  EncSpec => [](Ordering /\ StreamsOK)
<1>1. EncInit => StreamsOK
  BY DEF EncInit, Init, StreamsOK
<1>2. Ordering /\ StreamsOK /\ [EncNext]_<<vars, encVars>> => StreamsOK'
  BY StreamsStep
<1>3. EncSpec => []Ordering
  BY InOrderAlways
<1> QED
  BY <1>1, <1>2, <1>3, PTL DEF EncSpec

\* The decoder of the tokenizer at work is the byte level.
DecodesBytes == This.decoder = ByteLevelOnly

\* The text of what a stream is given is what it has returned, after the seed,
\* and the text of ids that is still held back.
LEMMA TextOfStream ==
  ASSUME Ordering, StreamsOK, DecodesBytes, pc = "stream", ~ EndsIncomplete(Decoded(Seed))
  PROVE  \E held \in Strings :
           /\ Decoded(stream.given) = (Decoded(Seed) \o stream.said) \o held
           /\ Decoded(Seed) \o stream.said \in Seq(Bytes)
           /\ ~ EndsIncomplete(Decoded(stream.given)) => held = <<>>
<1> DEFINE tk == This
           skip == job.skip
<1>1. Joins(tk, skip)
  BY WorksWithTokenizer, BytesJoinUp DEF Ordering, DecodesBytes
<1>2. StreamOK(tk, skip, stream)
  BY <1>1 DEF StreamsOK, DecodesInParts
<1>3. Seed = SeedOf(stream)
  BY DEF Seed, SeedOf
<1> DEFINE seed == decode(tk, SeedOf(stream), skip)
<1>4. ~ EndsIncomplete(seed) /\ Decoded(Seed) = seed /\ Decoded(stream.given) = decode(tk, stream.given, skip)
  BY <1>3 DEF Decoded
<1>5. stream.given \in Seq(Nat) /\ stream.said \in Seq(Bytes) /\ SeedOf(stream) \in Seq(Nat)
  <2>1. stream.given \in Seq(Nat) /\ stream.said \in Seq(Bytes) /\ stream.seed \in Nat /\ stream.seed <= Len(stream.given)
    BY <1>2 DEF StreamOK, Streams
  <2> QED
    BY <2>1 DEF SeedOf
<1> HIDE DEF tk, skip
<1>6. seed \in Strings /\ seed \in Seq(Bytes)
  BY <1>1, <1>5, Joined
<1> DEFINE before == seed \o stream.said
<1>7. before \in Seq(Bytes)
  <2> HIDE DEF seed
  <2> QED
    BY <1>5, <1>6
<1>8. SUFFICES \E held \in Strings : /\ decode(tk, stream.given, skip) = before \o held
                                     /\ ~ EndsIncomplete(decode(tk, stream.given, skip)) => held = <<>>
  <2> HIDE DEF before, seed
  <2>1. before = seed \o stream.said
    BY DEF before
  <2> QED
    BY <1>4, <1>7, <2>1
<1>9. CASE Fresh(stream)
  <2>1. SeedOf(stream) = stream.given /\ stream.said = <<>>
    BY <1>5, <1>9 DEF Fresh, SeedOf
  <2>2. before = seed /\ seed \o <<>> = seed
    <3> HIDE DEF seed
    <3> QED
      BY <1>6, <2>1
  <2>3. <<>> \in Strings
    BY NothingEnds
  <2> HIDE DEF before
  <2> QED
    BY <2>1, <2>2, <2>3
<1>10. CASE UnderWay(tk, skip, stream)
  <2>1. PICK pre, mid, rest : /\ Parted(tk, skip, stream, pre, mid, rest) /\ Settled(tk, skip, stream, pre \o mid)
                              /\ Held(tk, skip, rest)
    BY <1>10 DEF UnderWay
  <2> DEFINE a == pre \o mid
             text == decode(tk, a, skip)
             held == decode(tk, rest, skip)
  <2>2. a \in Seq(Nat) /\ rest \in Seq(Nat) /\ stream.given = a \o rest
    BY <2>1 DEF Parted
  <2>3. text = before /\ ~ EndsIncomplete(decode(tk, a, skip))
    BY <1>4, <2>1 DEF Settled
  <2> HIDE DEF a
  <2>4. decode(tk, a \o rest, skip) = text \o held /\ held \in Strings
    BY <1>1, <2>2, <2>3, Zenon DEF Joins
  <2>5. held # <<>> => (EndsIncomplete(decode(tk, a \o rest, skip)) <=> EndsIncomplete(held))
    BY <1>1, <2>2, <2>3, Joined
  <2>6. held = <<>> \/ EndsIncomplete(held)
    BY <2>1 DEF Held
  <2> HIDE DEF text, held, before
  <2> QED
    BY <2>2, <2>3, <2>4, <2>5, <2>6
<1> QED
  BY <1>2, <1>9, <1>10 DEF StreamOK

\* Where the decoder is the byte level, whatever the tokens, the ids, the seed
\* and the steps are, the texts a DecodeStream returns are, after the seed, always
\* the beginning of what the ids are decoded to at once (DecodeStream::step).
THEOREM StreamsArePrefixes ==
  ASSUME OneIdEach
  PROVE  EncSpec => [](DecodesBytes => StreamFaithful)
<1>1. Ordering /\ StreamsOK /\ DecodesBytes => StreamFaithful
  <2> SUFFICES ASSUME Ordering, StreamsOK, DecodesBytes, pc = "stream", ~ EndsIncomplete(Decoded(Seed))
               PROVE  IsPrefix(Decoded(Seed) \o stream.said, Decoded(stream.given))
    BY DEF StreamFaithful
  <2> DEFINE before == Decoded(Seed) \o stream.said
  <2>1. PICK held \in Strings : Decoded(stream.given) = before \o held /\ before \in Seq(Bytes)
    BY TextOfStream
  <2>2. held \in Seq(Bytes)
    BY StringsAre
  <2> HIDE DEF before
  <2>3. IsPrefix(before, before \o held)
    <3>1. Len(before) <= Len(before \o held) /\ \A i \in 1..Len(before) : before[i] = (before \o held)[i]
      BY <2>1, <2>2
    <3> QED
      BY <2>1, <2>2, <3>1 DEF IsPrefix
  <2> QED
    BY <2>1, <2>3 DEF before
<1>2. EncSpec => [](Ordering /\ StreamsOK)
  BY StreamsAlways
<1> QED
  BY <1>1, <1>2, PTL

\* With that decoder nothing is held back for good: as soon as the text of the
\* ids is complete, a DecodeStream has returned all of it, although it decodes
\* only the ids of its window (DecodeStream::step).
THEOREM StreamsReturnAll ==
  ASSUME OneIdEach
  PROVE  EncSpec => [](DecodesBytes => StreamComplete)
<1>1. Ordering /\ StreamsOK /\ DecodesBytes => StreamComplete
  <2> SUFFICES ASSUME Ordering, StreamsOK, DecodesBytes, pc = "stream", ~ EndsIncomplete(Decoded(Seed)),
                      ~ EndsIncomplete(Decoded(stream.given))
               PROVE  Decoded(Seed) \o stream.said = Decoded(stream.given)
    BY DEF StreamComplete
  <2> DEFINE before == Decoded(Seed) \o stream.said
  <2>1. Decoded(stream.given) = before \o <<>> /\ before \in Seq(Bytes)
    BY TextOfStream
  <2> HIDE DEF before
  <2>2. before \o <<>> = before
    BY <2>1
  <2> QED
    BY <2>1, <2>2 DEF before
<1>2. EncSpec => [](Ordering /\ StreamsOK)
  BY StreamsAlways
<1> QED
  BY <1>1, <1>2, PTL

\* With that decoder no stream fails, over whatever ids, those of a text or any
\* others: the text of the window always goes on from the prefix
\* (DecodeStream::step, InvalidPrefix).
THEOREM StreamsGoOn ==
  ASSUME OneIdEach
  PROVE  EncSpec => [](DecodesBytes => StreamOfTextGoesOn /\ (pc = "failed" => stream.given = <<>>))
<1>1. Ordering /\ StreamsOK /\ DecodesBytes =>
        StreamOfTextGoesOn /\ (pc = "failed" => stream.given = <<>>)
  <2> SUFFICES ASSUME Ordering, StreamsOK, DecodesBytes, pc = "failed"
               PROVE  stream.given = <<>>
    BY DEF StreamOfTextGoesOn
  <2>1. DecodesInParts
    BY WorksWithTokenizer, BytesJoinUp DEF Ordering, DecodesBytes, DecodesInParts
  <2> QED
    BY <2>1 DEF StreamsOK
<1>2. EncSpec => [](Ordering /\ StreamsOK)
  BY StreamsAlways
<1> QED
  BY <1>1, <1>2, PTL

(***************************************************************************)
(* What is encoded is decoded to the same text.                            *)
(***************************************************************************)

\* The bytes that ids are decoded to, before they are made a text.
BytesOfIds(tk, list) == BytesOfTokens(TokensOf(tk, list, FALSE))

\* The id of an added token.
IsAdded(configs, id) == \E i \in DOMAIN configs : configs[i].id = id

\* The bytes of ids after ids are those of the ones, then those of the others.
LEMMA IdBytesJoin ==
  ASSUME NEW tk, IsTokenizer(tk)
  PROVE  /\ BytesOfIds(tk, <<>>) = <<>>
         /\ \A a \in Seq(Nat) : BytesOfIds(tk, a) \in Seq(Bytes)
         /\ \A a, b \in Seq(Nat) : BytesOfIds(tk, a \o b) = BytesOfIds(tk, a) \o BytesOfIds(tk, b)
<1>1. ASSUME NEW a \in Seq(Nat), NEW b \in Seq(Nat)
      PROVE  /\ BytesOfIds(tk, a) \in Seq(Bytes)
             /\ BytesOfIds(tk, a \o b) = BytesOfIds(tk, a) \o BytesOfIds(tk, b)
  <2>1. /\ TokensOf(tk, a, FALSE) \in Seq(Strings) /\ TokensOf(tk, b, FALSE) \in Seq(Strings)
        /\ TokensOf(tk, a \o b, FALSE) = TokensOf(tk, a, FALSE) \o TokensOf(tk, b, FALSE)
    BY TokensJoin
  <2>2. /\ BytesOfTokens(TokensOf(tk, a, FALSE)) \in Seq(Bytes)
        /\ BytesOfTokens(TokensOf(tk, a, FALSE) \o TokensOf(tk, b, FALSE)) =
             BytesOfTokens(TokensOf(tk, a, FALSE)) \o BytesOfTokens(TokensOf(tk, b, FALSE))
    BY <2>1, BytesJoin
  <2> QED
    BY <2>1, <2>2 DEF BytesOfIds
<1>2. BytesOfIds(tk, <<>>) = <<>>
  <2>1. TokensOf(tk, <<>>, FALSE) = FlattenSeq(<<>>)
    BY DEF TokensOf
  <2>2. FlattenSeq(<<>>) = <<>>
    BY FlattenOfNone
  <2>3. BytesOfTokens(<<>>) = FlattenSeq(<<>>)
    BY DEF BytesOfTokens
  <2> QED
    BY <2>1, <2>2, <2>3 DEF BytesOfIds
<1> QED
  BY <1>1, <1>2

\* If the ids of each list have certain bytes, those of all lists have all of them.
LEMMA IdBytesFlatten ==
  ASSUME NEW tk, IsTokenizer(tk), NEW lists \in Seq(Seq(Nat)), NEW w \in Seq(Seq(Bytes)), Len(w) = Len(lists),
         \A i \in 1..Len(lists) : BytesOfIds(tk, lists[i]) = w[i]
  PROVE  BytesOfIds(tk, FlattenSeq(lists)) = FlattenSeq(w)
<1> DEFINE n == Len(lists)
           S == {k \in 0..n : BytesOfIds(tk, FlattenSeq(First(lists, k))) = FlattenSeq(First(w, k))}
<1>1. n \in Nat /\ \A i \in 1..n : lists[i] \in Seq(Nat) /\ w[i] \in Seq(Bytes)
  OBVIOUS
<1>2. ASSUME NEW k \in 0..n
      PROVE  First(lists, k) \in Seq(Seq(Nat)) /\ First(w, k) \in Seq(Seq(Bytes))
  <2>1. Cuts(Seq(Nat), lists, k, k) /\ Cuts(Seq(Bytes), w, k, k)
    BY <1>1, FirstSplits
  <2> QED
    BY <2>1 DEF Cuts
<1>3. 0 \in S
  <2>1. First(lists, 0) = <<>> /\ First(w, 0) = <<>>
    BY DEF First
  <2>2. FlattenSeq(<<>>) = <<>>
    BY FlattenOfNone
  <2> QED
    BY <1>1, <2>1, <2>2, IdBytesJoin
<1>4. ASSUME NEW k \in Nat, k < n, k \in S
      PROVE  k + 1 \in S
  <2>1. k + 1 \in 1..n /\ k + 1 \in 1..Len(w) /\ (k + 1) - 1 = k /\ k \in 0..n /\ k + 1 \in 0..n
    BY <1>1, <1>4
  <2>2. First(lists, k + 1) = Append(First(lists, k), lists[k + 1]) /\ First(w, k + 1) = Append(First(w, k), w[k + 1])
    BY <2>1, FirstGrows
  <2>3. FlattenSeq(First(lists, k + 1)) = FlattenSeq(First(lists, k)) \o lists[k + 1]
    BY <1>1, <1>2, <2>1, <2>2, FlattenAppend
  <2>4. FlattenSeq(First(w, k + 1)) = FlattenSeq(First(w, k)) \o w[k + 1]
    BY <1>1, <1>2, <2>1, <2>2, FlattenAppend
  <2>5. FlattenSeq(First(lists, k)) \in Seq(Nat)
    BY <1>2, <2>1, FlattenType
  <2>6. BytesOfIds(tk, FlattenSeq(First(lists, k)) \o lists[k + 1]) =
          BytesOfIds(tk, FlattenSeq(First(lists, k))) \o BytesOfIds(tk, lists[k + 1])
    BY <1>1, <2>1, <2>5, IdBytesJoin
  <2> QED
    BY <1>4, <2>1, <2>3, <2>4, <2>6
<1> HIDE DEF S
<1>5. n \in S
  BY <1>1, <1>3, <1>4, UpTo
<1>6. First(w, n) = w /\ First(lists, n) = lists
  BY FirstAll
<1> QED
  BY <1>5, <1>6 DEF S

\* The bytes of one id are those of its token.
LEMMA BytesOfToken ==
  ASSUME NEW tk, NEW id, NEW token \in Strings, Tokens(tk, id, FALSE) = <<token>>
  PROVE  BytesOfIds(tk, <<id>>) = Unmapped(token)
<1>1. TokensOf(tk, <<id>>, FALSE) = <<token>>
  <2> DEFINE list == <<id>>
             all == [i \in DOMAIN list |-> Tokens(tk, list[i], FALSE)]
  <2>1. all = << <<token>> >>
    <3>1. DOMAIN list = 1..1 /\ \A i \in 1..1 : list[i] = id
      OBVIOUS
    <3> HIDE DEF list
    <3>2. all = [i \in 1..1 |-> <<token>>]
      BY <3>1
    <3> HIDE DEF all
    <3>3. \A x : [i \in 1..1 |-> x] = <<x>>
      OBVIOUS
    <3> QED
      BY <3>2, <3>3
  <2>2. <<token>> \in Seq(Strings)
    OBVIOUS
  <2>3. FlattenSeq(<< <<token>> >>) = <<token>>
    BY <2>2, FlattenOne
  <2>4. TokensOf(tk, list, FALSE) = FlattenSeq(all)
    BY Zenon DEF TokensOf
  <2> HIDE DEF all
  <2> QED
    BY <2>1, <2>3, <2>4
<1>2. BytesOfTokens(<<token>>) = Unmapped(token)
  <2> DEFINE all == [i \in 1..Len(<<token>>) |-> Unmapped(<<token>>[i])]
  <2>1. all = <<Unmapped(token)>>
    OBVIOUS
  <2>2. Unmapped(token) \in Seq(Bytes)
    BY UnmappedType
  <2>3. FlattenSeq(<<Unmapped(token)>>) = Unmapped(token)
    BY <2>2, FlattenOne
  <2> HIDE DEF all
  <2>4. BytesOfTokens(<<token>>) = FlattenSeq(all)
    BY Zenon DEF BytesOfTokens, all
  <2> QED
    BY <2>1, <2>3, <2>4
<1> QED
  BY <1>1, <1>2 DEF BytesOfIds

\* An added token is decoded to its content.
LEMMA AddedBytes ==
  ASSUME NEW tk, IsTokenizer(tk), Lossless(tk), NEW id, IsAdded(tk.added, id)
  PROVE  /\ BytesOfIds(tk, <<id>>) = Content(tk.added, id) /\ Content(tk.added, id) \in Strings
         /\ \E i \in DOMAIN tk.added : tk.added[i].id = id /\ Content(tk.added, id) = tk.added[i].content
<1> DEFINE same == {i \in DOMAIN tk.added : tk.added[i].id = id}
<1>1. tk.added \in Seq(AddedTokenConfigs) /\ \A i \in DOMAIN tk.added : IsText(tk.added[i].content)
  BY DEF IsTokenizer
<1>2. same # {} /\ same = AddedToken(tk, id)
  BY DEF AddedToken, IsAdded
<1>3. same \in SUBSET (0..Len(tk.added)) /\ Len(tk.added) \in Nat
  BY <1>1
<1>4. Max(same) \in same
  <2> HIDE DEF same
  <2> QED
    BY <1>2, <1>3, MaxIs
<1> DEFINE i == Max(same)
<1>5. i \in DOMAIN tk.added /\ tk.added[i].id = id
  BY <1>4
<1>6. Content(tk.added, id) = tk.added[i].content
  BY DEF Content
<1> HIDE DEF i, same
<1>7. Content(tk.added, id) \in Strings
  <2>1. IsText(Content(tk.added, id))
    BY <1>1, <1>5, <1>6
  <2> QED
    BY <2>1 DEF Strings, IsText
<1>8. Tokens(tk, id, FALSE) = <<Content(tk.added, id)>>
  BY <1>2 DEF Tokens, id_to_token
<1>9. Unmapped(Content(tk.added, id)) = Content(tk.added, id)
  BY <1>5, <1>6 DEF Lossless
<1>10. BytesOfIds(tk, <<id>>) = Unmapped(Content(tk.added, id))
  BY <1>7, <1>8, BytesOfToken
<1> QED
  BY <1>5, <1>6, <1>7, <1>9, <1>10

\* A token of the vocabulary is decoded to the bytes of its characters.
LEMMA TokenBytes ==
  ASSUME NEW tk, IsTokenizer(tk), Lossless(tk), NEW s \in DOMAIN tk.vocab
  PROVE  BytesOfIds(tk, <<tk.vocab[s]>>) = Unmapped(s)
<1> DEFINE id == tk.vocab[s]
<1>0. s \in Strings
  <2>1. IsText(s)
    BY DEF IsTokenizer
  <2> QED
    BY <2>1 DEF Strings, IsText
<1>1. CASE AddedToken(tk, id) # {}
  <2>1. IsAdded(tk.added, id)
    BY <1>1 DEF AddedToken, IsAdded
  <2>2. PICK i \in DOMAIN tk.added : tk.added[i].id = id /\ Content(tk.added, id) = tk.added[i].content
    BY <2>1, AddedBytes
  <2>3. s = tk.added[i].content
    BY <2>2 DEF Lossless
  <2>4. BytesOfIds(tk, <<id>>) = Content(tk.added, id)
    BY <2>1, AddedBytes
  <2>5. Unmapped(s) = s
    BY <2>3 DEF Lossless
  <2> QED
    BY <2>2, <2>3, <2>4, <2>5
<1>2. CASE AddedToken(tk, id) = {}
  <2> DEFINE of == {t \in DOMAIN tk.vocab : tk.vocab[t] = id}
  <2>1. of = {s}
    BY DEF Lossless
  <2>2. id_to_token(tk, id) = IF of = {} THEN <<>> ELSE <<CHOOSE t \in of : TRUE>>
    BY <1>2, Zenon DEF id_to_token
  <2>3. (CHOOSE t \in {s} : TRUE) = s
    OBVIOUS
  <2> HIDE DEF of
  <2>4. id_to_token(tk, id) = <<s>>
    BY <2>1, <2>2, <2>3
  <2>5. Tokens(tk, id, FALSE) = <<s>>
    BY <2>4 DEF Tokens
  <2> HIDE DEF id
  <2>6. BytesOfIds(tk, <<id>>) = Unmapped(s)
    BY <1>0, <2>5, BytesOfToken
  <2> QED
    BY <2>6 DEF id
<1> QED
  BY <1>1, <1>2

\* The ids the model makes of encoded bytes are decoded to these bytes.
LEMMA TokenizedBytes ==
  ASSUME NEW tk, IsTokenizer(tk), Lossless(tk), NEW s \in Seq(Bytes), Tokenize(tk, encode_bytes(s)) # NoIds
  PROVE  /\ Tokenize(tk, encode_bytes(s)) \in Seq(Nat)
         /\ BytesOfIds(tk, Tokenize(tk, encode_bytes(s))) = s
<1> DEFINE t == encode_bytes(s)
           n == Len(s)
           vocab == tk.vocab
<1>1. /\ t \in Strings /\ Unmapped(t) = s /\ Chars(t) = [i \in 1..n |-> BYTE_TO_CHAR(s[i])]
      /\ n \in Nat /\ \A i \in 1..n : s[i] \in Bytes
  BY EncodedIs
<1> HIDE DEF t
<1>2. \A x \in DOMAIN vocab : vocab[x] \in Nat /\ BytesOfIds(tk, <<vocab[x]>>) = Unmapped(x)
  BY TokenBytes DEF IsTokenizer
<1>3. CASE t = <<>>
  <2>1. Tokenize(tk, t) = <<>>
    BY <1>3 DEF Tokenize
  <2>2. Unmapped(<<>>) = <<>>
    <3>1. BytesOf(<<>>) = <<>> /\ Chars(<<>>) = <<>>
      BY NothingIsText DEF BytesOf
    <3> QED
      BY <3>1 DEF Unmapped, BytesOr
  <2>3. BytesOfIds(tk, <<>>) = <<>> /\ <<>> \in Seq(Nat)
    BY IdBytesJoin
  <2> QED
    BY <1>1, <1>3, <2>1, <2>2, <2>3 DEF t
<1>4. CASE t # <<>> /\ t \in DOMAIN vocab
  <2>1. Tokenize(tk, t) = <<vocab[t]>>
    BY <1>4 DEF Tokenize
  <2>2. vocab[t] \in Nat
    BY <1>2, <1>4
  <2> HIDE DEF vocab
  <2>3. <<vocab[t]>> \in Seq(Nat)
    BY <2>2
  <2> QED
    BY <1>1, <1>2, <1>4, <2>1, <2>3 DEF t
<1>5. CASE t # <<>> /\ t \notin DOMAIN vocab
  <2> DEFINE cps == Chars(t)
             chars == Utf8Chars(cps)
             Hex(char) == [j \in 1..Len(char) |-> Str(<<HEX + char[j]>>)]
             Falls(char) == char \notin DOMAIN vocab
             Known(char) == Falls(char) => \A j \in DOMAIN char : Hex(char)[j] \in DOMAIN vocab
             Of(char) == IF Falls(char) THEN [j \in DOMAIN char |-> vocab[Hex(char)[j]]] ELSE <<vocab[char]>>
             all == [i \in DOMAIN chars |-> Of(chars[i])]
  <2>1. Tokenize(tk, t) = TokenizeChars(vocab, chars)
    BY <1>5, Zenon DEF Tokenize
  <2>2. TokenizeChars(vocab, chars) = IF \A i \in DOMAIN chars : Known(chars[i]) THEN FlattenSeq(all) ELSE NoIds
    BY Zenon DEF TokenizeChars
  <2>3. (\A i \in DOMAIN chars : Known(chars[i])) /\ Tokenize(tk, t) = FlattenSeq(all)
    BY <2>1, <2>2 DEF t
  <2>4. DOMAIN chars = 1..n /\ \A i \in 1..n : chars[i] = Utf8(BYTE_TO_CHAR(s[i]))
    BY <1>1 DEF Utf8Chars
  <2>5. ASSUME NEW i \in 1..n
        PROVE  /\ chars[i] \in Seq(Bytes) /\ chars[i] # <<>> /\ Unmapped(chars[i]) = <<s[i]>>
    <3> DEFINE one == <<s[i]>>
    <3>1. one \in Seq(Bytes) /\ Len(one) = 1 /\ one[1] = s[i]
      BY <1>1
    <3>2. BYTE_TO_CHAR(s[i]) \in CodePoints
      BY <1>1, ByteBack
    <3> HIDE DEF one, chars
    <3>3. Chars(encode_bytes(one)) = <<BYTE_TO_CHAR(s[i])>> /\ encode_bytes(one) \in Strings /\ Unmapped(encode_bytes(one)) = one
      <4>1. [k \in 1..Len(one) |-> BYTE_TO_CHAR(one[k])] = <<BYTE_TO_CHAR(s[i])>>
        BY <3>1
      <4> QED
        BY <3>1, <4>1, EncodedIs
    <3>4. encode_bytes(one) = Utf8(BYTE_TO_CHAR(s[i]))
      <4> DEFINE c == BYTE_TO_CHAR(s[i])
                 parts == [k \in 1..Len(<<c>>) |-> Utf8(<<c>>[k])]
      <4>1. encode_bytes(one) = Str(<<c>>)
        <5>1. encode_bytes(one) = Str(Chars(encode_bytes(one)))
          BY <3>3, StringsAre
        <5> QED
          BY <3>3, <5>1
      <4>2. Str(<<c>>) = FlattenSeq(parts)
        BY Zenon DEF Str
      <4>3. parts = <<Utf8(c)>>
        OBVIOUS
      <4>4. Utf8(c) \in Seq(Bytes)
        BY <3>2, Utf8Encodes DEF Encoded, CodePoints
      <4> HIDE DEF parts, c
      <4>5. FlattenSeq(<<Utf8(c)>>) = Utf8(c)
        BY <4>4, FlattenOne
      <4> QED
        BY <4>1, <4>2, <4>3, <4>5 DEF c
    <3>5. chars[i] = encode_bytes(one)
      BY <2>4, <3>4
    <3>6. encode_bytes(one) \in Seq(Bytes) /\ encode_bytes(one) # <<>>
      <4>1. Chars(<<>>) = <<>>
        BY NothingIsText
      <4>2. <<BYTE_TO_CHAR(s[i])>> # <<>>
        OBVIOUS
      <4> QED
        BY <3>3, <4>1, <4>2, StringsAre
    <3> QED
      BY <3>3, <3>5, <3>6 DEF one
  <2>6. ASSUME NEW i \in 1..n
        PROVE  ~ Falls(chars[i])
    <3> DEFINE char == chars[i]
    <3>1. Known(char)
      BY <2>3, <2>4
    <3>2. char \in Seq(Bytes) /\ char # <<>>
      BY <2>5
    <3> HIDE DEF chars, char, vocab
    <3>3. 1 \in DOMAIN char /\ 1 \in 1..Len(char) /\ char[1] \in Bytes
      BY <3>2
    <3>4. Hex(char)[1] = Str(<<HEX + char[1]>>)
      BY <3>3
    <3>5. fallback_byte(Str(<<HEX + char[1]>>)) # NoByte
      BY <3>3, FallbackByte, ByteBack
    <3>6. Hex(char)[1] \notin DOMAIN vocab
      BY <3>4, <3>5 DEF Lossless, vocab
    <3>7. ~ Falls(char)
      <4> HIDE DEF Hex
      <4> QED
        BY <3>1, <3>3, <3>6
    <3> QED
      BY <3>7 DEF char
  <2> HIDE DEF chars, Known, Hex
  <2>7. \A i \in 1..n : all[i] = <<vocab[chars[i]]>> /\ chars[i] \in DOMAIN vocab
    BY <2>4, <2>6
  <2>8. DOMAIN all = 1..n /\ all = [i \in DOMAIN all |-> all[i]]
    BY <2>4
  <2> HIDE DEF all, Of, Falls
  <2>9. \A i \in 1..n : all[i] \in Seq(Nat) /\ BytesOfIds(tk, all[i]) = <<s[i]>>
    <3> SUFFICES ASSUME NEW i \in 1..n PROVE all[i] \in Seq(Nat) /\ BytesOfIds(tk, all[i]) = <<s[i]>>
      OBVIOUS
    <3>1. vocab[chars[i]] \in Nat /\ BytesOfIds(tk, <<vocab[chars[i]]>>) = Unmapped(chars[i])
      BY <1>2, <2>7
    <3> HIDE DEF vocab
    <3>2. <<vocab[chars[i]]>> \in Seq(Nat)
      BY <3>1
    <3> QED
      BY <2>5, <2>7, <3>1, <3>2
  <2>10. all \in Seq(Seq(Nat)) /\ Len(all) = n
    <3>1. all \in [1..n -> Seq(Nat)]
      BY <2>8, <2>9
    <3> QED
      BY <1>1, <3>1, Tabled
  <2> DEFINE w == [i \in 1..n |-> <<s[i]>>]
  <2>11. w \in Seq(Seq(Bytes)) /\ Len(w) = n /\ \A i \in 1..n : w[i] = <<s[i]>>
    <3>1. \A i \in 1..n : <<s[i]>> \in Seq(Bytes)
      BY <1>1
    <3>2. w \in [1..n -> Seq(Bytes)]
      BY <3>1
    <3>3. \A i \in 1..n : w[i] = <<s[i]>>
      OBVIOUS
    <3> HIDE DEF w
    <3> QED
      BY <1>1, <3>2, <3>3, Tabled
  <2> HIDE DEF w
  <2>12. BytesOfIds(tk, FlattenSeq(all)) = FlattenSeq(w)
    <3>1. \A i \in 1..Len(all) : BytesOfIds(tk, all[i]) = w[i]
      BY <2>9, <2>10, <2>11
    <3>2. Len(w) = Len(all)
      BY <2>10, <2>11
    <3> QED
      BY <2>10, <2>11, <3>1, <3>2, IdBytesFlatten
  <2>13. FlattenSeq(w) = s
    BY FlattenSingles DEF w
  <2>14. FlattenSeq(all) \in Seq(Nat)
    BY <2>10, FlattenType
  <2> QED
    BY <2>3, <2>12, <2>13, <2>14 DEF t
<1> QED
  BY <1>3, <1>4, <1>5

\* What a split stands for: its text, or the content of its token.
SplitPiece(configs, p, sp) == IF sp.id = NoId THEN split_text(p, sp) ELSE Content(configs, sp.id)
SplitPieces(configs, p) == [i \in DOMAIN p.splits |-> SplitPiece(configs, p, p.splits[i])]

\* A buffer whose splits stand for the text t, one after the other.
StandsFor(configs, p, t) ==
  /\ p \in Tiled /\ \A i \in 1..Len(p.splits) : p.splits[i].id # NoId => IsAdded(configs, p.splits[i].id)
  /\ FlattenSeq(SplitPieces(configs, p)) = t

\* An added token has a content and an id.
LEMMA AddedIs ==
  ASSUME NEW configs, Splittable(configs), NEW id, IsAdded(configs, id)
  PROVE  Content(configs, id) \in Strings /\ id \in Nat /\ id # NoId
<1>1. PICK i \in DOMAIN configs : configs[i].id = id
  BY DEF IsAdded
<1>2. Distinct(configs)
  BY <1>1 DEF Splittable, Distinct
<1>3. Content(configs, id) \in Strings /\ id \in Nat
  BY <1>1, <1>2, ContentIs
<1> QED
  BY <1>3 DEF NoId

\* Splits stand for texts.
LEMMA SplitPiecesAre ==
  ASSUME NEW configs, Splittable(configs), NEW p, NEW t, StandsFor(configs, p, t)
  PROVE  /\ SplitPieces(configs, p) \in Seq(Strings) /\ SplitPieces(configs, p) \in Seq(Seq(Bytes))
         /\ Len(SplitPieces(configs, p)) = Len(p.splits) /\ Len(p.splits) \in Nat /\ DOMAIN p.splits = 1..Len(p.splits)
         /\ \A i \in 1..Len(p.splits) : SplitPieces(configs, p)[i] = SplitPiece(configs, p, p.splits[i])
         /\ t \in Strings
<1> DEFINE n == Len(p.splits)
           w == SplitPieces(configs, p)
<1>1. p \in Tiled /\ p.splits \in Seq(TextSplits)
  BY DEF StandsFor, Tiled
<1>2. n \in Nat /\ DOMAIN p.splits = 1..n
  BY <1>1
<1>3. DOMAIN w = 1..n /\ w = [i \in DOMAIN w |-> w[i]]
      /\ \A i \in 1..n : w[i] = SplitPiece(configs, p, p.splits[i])
  BY <1>2 DEF SplitPieces
<1>4. ASSUME NEW i \in 1..n
      PROVE  w[i] \in Strings
  <2>1. p.splits[i].id # NoId => Content(configs, p.splits[i].id) \in Strings
    BY AddedIs DEF StandsFor
  <2>2. split_text(p, p.splits[i]) \in Strings
    BY <1>1, SplitTextIs
  <2> HIDE DEF w
  <2> QED
    BY <1>3, <2>1, <2>2 DEF SplitPiece
<1> HIDE DEF w, n
<1>5. w \in Seq(Strings) /\ Len(w) = n
  <2>1. w \in [1..n -> Strings]
    BY <1>3, <1>4
  <2> QED
    BY <1>2, <2>1, Tabled
<1>6. w \in Seq(Seq(Bytes))
  <2>1. Strings \subseteq Seq(Bytes)
    BY DEF Strings
  <2> QED
    BY <1>5, <2>1, WiderSeq
<1>7. FlattenSeq(w) \in Strings
  BY <1>5, TextsFlatten
<1>8. t = FlattenSeq(w)
  BY DEF StandsFor, w
<1> QED
  BY <1>2, <1>3, <1>5, <1>6, <1>7, <1>8 DEF w, n

\* One more split at the end, and what it stands for comes after the text.
LEMMA StandsForMore ==
  ASSUME NEW configs, Splittable(configs), NEW p, NEW t, StandsFor(configs, p, t),
         NEW q \in Tiled, NEW x \in Seq(Bytes), NEW sp, Extends(q, p, x, sp),
         sp.id # NoId => IsAdded(configs, sp.id)
  PROVE  StandsFor(configs, q, t \o SplitPiece(configs, q, sp))
<1> DEFINE n == Len(p.splits)
           old == SplitPieces(configs, p)
           new == SplitPieces(configs, q)
           y == SplitPiece(configs, q, sp)
<1>1. /\ old \in Seq(Seq(Bytes)) /\ Len(old) = n /\ n \in Nat /\ DOMAIN p.splits = 1..n /\ p \in Tiled
      /\ \A i \in 1..n : old[i] = SplitPiece(configs, p, p.splits[i])
  BY SplitPiecesAre DEF StandsFor
<1>2. /\ Len(q.splits) = n + 1 /\ q.splits[n + 1] = sp /\ DOMAIN q.splits = 1..n + 1
      /\ \A i \in 1..n : q.splits[i] = p.splits[i]
  <2>1. p.splits \in Seq(TextSplits)
    BY <1>1 DEF Tiled
  <2>2. q.splits \in Seq(TextSplits)
    BY DEF Tiled
  <2>3. q.splits = Append(p.splits, sp)
    BY DEF Extends
  <2>4. sp \in TextSplits
    BY <2>1, <2>2, <2>3
  <2> QED
    BY <2>1, <2>2, <2>3, <2>4
<1>3. \A i \in 1..n + 1 : q.splits[i].id # NoId => IsAdded(configs, q.splits[i].id)
  <2>1. \A i \in 1..n : p.splits[i].id # NoId => IsAdded(configs, p.splits[i].id)
    BY DEF StandsFor
  <2>2. \A i \in 1..n + 1 : i \in 1..n \/ i = n + 1
    BY <1>1
  <2> QED
    BY <1>2, <2>1, <2>2
<1>4. StandsFor(configs, q, FlattenSeq(new))
  BY <1>2, <1>3 DEF StandsFor
<1>5. /\ new \in Seq(Seq(Bytes)) /\ Len(new) = n + 1
      /\ \A i \in 1..n + 1 : new[i] = SplitPiece(configs, q, q.splits[i])
  BY <1>2, <1>4, SplitPiecesAre
<1>6. ASSUME NEW i \in 1..n
      PROVE  new[i] = old[i]
  <2> DEFINE v == p.splits[i]
             b == p.buffer
  <2>1. v \in TextSplits /\ FitsText(b, v) /\ b \in Strings
    BY <1>1, SplitTextIs
  <2> HIDE DEF v, b
  <2>2. b \in Seq(Bytes) /\ Len(b) \in Nat /\ v.from \in Nat \ {0} /\ v.to - 1 \in 0..Len(b)
    <3>1. b \in Seq(Bytes) /\ Len(b) \in Nat
      BY <2>1 DEF Strings
    <3> QED
      BY <2>1, <3>1 DEF FitsText, IsCut
  <2>3. SubSeq(b \o x, v.from, v.to - 1) = SubSeq(b, v.from, v.to - 1)
    BY <2>2, FrontStays
  <2>4. split_text(q, v) = split_text(p, v)
    BY <2>3, Zenon DEF split_text, b, Extends
  <2>5. SplitPiece(configs, q, v) = SplitPiece(configs, p, v)
    BY <2>4, Zenon DEF SplitPiece
  <2> HIDE DEF n, new, old, y
  <2>6. i \in 1..n + 1
    <3>1. n \in Nat
      BY <1>1
    <3> QED
      BY <3>1
  <2>7. q.splits[i] = v
    <3>1. \A j \in 1..n : q.splits[j] = p.splits[j]
      BY <1>2
    <3> QED
      BY <3>1 DEF v
  <2> QED
    BY <1>1, <1>5, <2>5, <2>6, <2>7 DEF v
<1>7. n + 1 \in 1..n + 1 /\ new[n + 1] = y
  <2>1. n + 1 \in 1..n + 1
    BY <1>1
  <2> QED
    BY <1>2, <1>5, <2>1
<1> HIDE DEF new, old, y, n
<1>8. y \in Seq(Bytes)
  BY <1>5, <1>7
<1>9. new = Append(old, y)
  <2>1. Append(old, y) \in Seq(Seq(Bytes)) /\ Len(Append(old, y)) = n + 1 /\ Append(old, y)[n + 1] = y
        /\ \A i \in 1..n : Append(old, y)[i] = old[i]
    BY <1>1, <1>8
  <2>2. \A i \in 1..n + 1 : i \in 1..n \/ i = n + 1
    BY <1>1
  <2>3. \A i \in 1..Len(new) : new[i] = Append(old, y)[i]
    BY <1>5, <1>6, <1>7, <2>1, <2>2
  <2> QED
    BY <1>5, <2>1, <2>3, SameSeq
<1>10. FlattenSeq(new) = FlattenSeq(old) \o y
  BY <1>1, <1>8, <1>9, FlattenAppend
<1>11. FlattenSeq(old) = t
  BY DEF StandsFor, old
<1> QED
  BY <1>4, <1>10, <1>11 DEF y

\* A segment put into the buffer is what it stands for, if there is no normalizer.
LEMMA StandsForSegment ==
  ASSUME NEW tk, tk.normalizer = <<>>, Splittable(tk.added), NEW p, NEW t, StandsFor(tk.added, p, t),
         NEW seg \in Segment, seg.id # NoId => IsAdded(tk.added, seg.id)
  PROVE  StandsFor(tk.added, Normalized(tk, p, seg), t \o Piece(tk.added, seg))
<1> DEFINE b == p.buffer
<1>1. /\ p \in Tiled /\ b \in Seq(Bytes) /\ b \in Strings /\ p.splits \in Seq(TextSplits)
      /\ p = [buffer |-> b, splits |-> p.splits]
  BY DEF StandsFor, Tiled, Strings
<1>2. seg.text \in Strings /\ seg.text \in Seq(Bytes) /\ t \in Strings /\ t \in Seq(Bytes)
  BY SplitPiecesAre DEF Segment, Strings
<1>3. ASSUME NEW q \in Tiled, NEW x \in Seq(Bytes), NEW sp, Extends(q, p, x, sp),
             sp.id # NoId => IsAdded(tk.added, sp.id)
      PROVE  StandsFor(tk.added, q, t \o SplitPiece(tk.added, q, sp))
  BY <1>3, StandsForMore
<1>4. CASE seg.id # NoId
  <2> DEFINE q == WithToken(p, seg.id)
             new == Split(Len(b) + 1, Len(b) + 1, seg.id)
  <2>1. seg.id \in Nat
    BY <1>4 DEF Segment
  <2>2. q \in Tiled
    BY <1>1, <2>1, TiledGrows
  <2>3. q = [p EXCEPT !.splits = Append(@, new)]
    BY DEF WithToken
  <2>4. <<>> \in Seq(Bytes) /\ b \o <<>> = b
    BY <1>1
  <2>5. Extends(q, p, <<>>, new)
    BY <1>1, <2>3, <2>4 DEF Extends
  <2>6. new.id = seg.id
    BY DEF Split
  <2> HIDE DEF new
  <2>7. SplitPiece(tk.added, q, new) = Piece(tk.added, seg)
    BY <1>4, <2>6 DEF SplitPiece, Piece
  <2>8. Normalized(tk, p, seg) = q
    BY <1>4 DEF Normalized
  <2> HIDE DEF q
  <2> QED
    BY <1>3, <1>4, <2>2, <2>4, <2>5, <2>6, <2>7, <2>8
<1>5. CASE seg.id = NoId /\ seg.text = <<>>
  <2>1. Normalized(tk, p, seg) = p
    BY <1>5 DEF Normalized
  <2>2. t \o Piece(tk.added, seg) = t
    <3>1. Piece(tk.added, seg) = <<>>
      BY <1>5 DEF Piece
    <3>2. t \o <<>> = t
      BY <1>2
    <3> QED
      BY <3>1, <3>2
  <2> QED
    BY <2>1, <2>2
<1>6. CASE seg.id = NoId /\ seg.text # <<>>
  <2> DEFINE x == seg.text
             q == WithText(p, x)
             new == Split(Len(b) + 1, Len(b) + Len(x) + 1, NoId)
  <2>1. Normalized(tk, p, seg) = q
    BY <1>2, <1>6, NormalizeNone DEF Normalized
  <2>2. q \in Tiled
    BY <1>1, <1>2, TiledGrows
  <2>3. q = [buffer |-> b \o x, splits |-> Append(p.splits, new)]
    BY DEF WithText
  <2> HIDE DEF q, new
  <2>4. q.buffer = b \o x /\ Extends(q, p, x, new)
    <3>1. q.buffer = b \o x /\ q.splits = Append(p.splits, new)
      BY <2>3
    <3> QED
      BY <3>1, Zenon DEF Extends
  <2>5. new.id = NoId /\ new.from = Len(b) + 1 /\ new.to = Len(b) + Len(x) + 1
    BY DEF Split, new
  <2>6. split_text(q, new) = x
    <3>1. SubSeq(b \o x, Len(b) + 1, Len(b) + Len(x) + 1 - 1) = x
      BY <1>1, <1>2, BackIs
    <3>2. new.to - 1 = Len(b) + Len(x) + 1 - 1
      BY <2>5
    <3> QED
      BY <2>4, <2>5, <3>1, <3>2, Zenon DEF split_text
  <2>7. SplitPiece(tk.added, q, new) = Piece(tk.added, seg)
    BY <1>6, <2>5, <2>6 DEF SplitPiece, Piece
  <2>8. StandsFor(tk.added, q, t \o SplitPiece(tk.added, q, new))
    BY <1>2, <1>3, <2>2, <2>4, <2>5
  <2> QED
    BY <2>1, <2>7, <2>8
<1> QED
  BY <1>4, <1>5, <1>6

\* Segments whose ids are those of added tokens.
Ours(configs) == {seg \in Segment : seg.id # NoId => IsAdded(configs, seg.id)}

\* Space is dropped from texts alone.
LEMMA StripKeepsIds ==
  ASSUME NEW configs, NEW segments \in Seq(Ours(configs))
  PROVE  apply_lstrip(configs, segments) \in Seq(Ours(configs))
<1> DEFINE new == apply_lstrip(configs, segments)
<1>1. Len(segments) \in Nat /\ \A i \in 1..Len(segments) : segments[i] \in Ours(configs)
  OBVIOUS
<1>2. new = [i \in 1..Len(segments) |-> new[i]]
  BY DEF apply_lstrip
<1>3. ASSUME NEW i \in 1..Len(segments)
      PROVE  new[i] \in Ours(configs)
  <2>1. segments[i] \in Ours(configs) /\ segments[i].text \in Strings
    BY <1>1 DEF Ours, Segment
  <2>2. TrimEnd(segments[i].text) \in Strings
    BY <2>1, TrimType
  <2>3. new[i] \in {segments[i], Text(TrimEnd(segments[i].text))}
    BY Zenon DEF apply_lstrip
  <2>4. Text(TrimEnd(segments[i].text)) \in Ours(configs)
    BY <2>2 DEF Segment, Text, Ours
  <2> HIDE DEF new
  <2> QED
    BY <2>1, <2>3, <2>4
<1> HIDE DEF new
<1>4. new \in Seq(Ours(configs))
  BY <1>1, <1>2, <1>3, Mapped
<1> QED
  BY <1>4 DEF new

\* The ids a text is split into are those of added tokens.
LEMMA SplitAddedIds ==
  ASSUME NEW configs, Splittable(configs), NEW s \in Strings, NEW special, NEW bypass
  PROVE  split_added(configs, s, special, bypass) \in Seq(Ours(configs))
<1>1. <<Text(s)>> \in Seq(Ours(configs))
  <2>1. Text(s) \in Ours(configs)
    BY DEF Text, Segment, Ours
  <2> QED
    BY <2>1
<1>2. CASE configs = <<>> \/ bypass
  BY <1>1, <1>2, Zenon DEF split_added
<1>3. CASE ~ (configs = <<>> \/ bypass)
  <2>1. Reading(configs, s)
    BY <1>3 DEF Splittable, Reading, Distinct
  <2>2. ASSUME NEW segments, Spells(configs, segments, s)
        PROVE  segments \in Seq(Ours(configs))
    <3>1. segments \in Seq(SegmentIn(configs))
      BY <2>2 DEF Spells
    <3>2. SegmentIn(configs) \subseteq Ours(configs)
      BY DEF SegmentIn, Ours, IsAdded
    <3> QED
      BY <3>1, <3>2, WiderSeq
  <2>3. /\ MatcherSplit(configs, s) \in Seq(Ours(configs))
        /\ KeptSegments(configs, s, MatcherSplit(configs, s)) \in Seq(Ours(configs))
    BY <2>1, <2>2, MatcherSpells, KeptSpells
  <2>4. /\ split(configs, s) \in Seq(Ours(configs))
        /\ apply_lstrip(configs, KeptSegments(configs, s, MatcherSplit(configs, s))) \in Seq(Ours(configs))
    BY <2>3, StripKeepsIds DEF split
  <2>5. <<>> \in Seq(Ours(configs))
    OBVIOUS
  <2>6. split_special_as_text(configs, s) \in Seq(Ours(configs))
    BY <1>1, <2>4, <2>5, Zenon DEF split_special_as_text
  <2> QED
    BY <1>3, <2>4, <2>6, Zenon DEF split_added
<1> QED
  BY <1>2, <1>3

\* The buffer built without a normalizer stands for what the segments spell.
LEMMA StandsBuilt ==
  ASSUME NEW tk, IsTokenizer(tk), DistinctIds(tk.added), tk.normalizer = <<>>,
         NEW s \in Strings, NEW special, NEW bypass
  PROVE  StandsFor(tk.added, build_pre_tokenized(tk, s, special, bypass),
                   Spelled(tk.added, split_added(tk.added, s, special, bypass)))
<1> DEFINE configs == tk.added
           all == split_added(configs, s, special, bypass)
           n == Len(all)
           w == Pieced(configs, all)
           join == [i \in 1..n |-> [x \in Tiled |-> Normalized(tk, x, all[i])]]
           y == NormalizedOver(tk, NoText, all)
<1>1. Splittable(configs)
  BY MatcherTypes DEF Splittable
<1>2. all \in Seq(Ours(configs))
  BY <1>1, SplitAddedIds
<1> HIDE DEF all
<1>3. n \in Nat /\ DOMAIN all = 1..n /\ \A i \in 1..n : all[i] \in Ours(configs) /\ all[i] \in Segment
  BY <1>2 DEF Ours
<1>4. ASSUME NEW i \in 1..n
      PROVE  Piece(configs, all[i]) \in Strings
  <2>1. all[i] \in Segment /\ (all[i].id # NoId => IsAdded(configs, all[i].id))
    BY <1>3 DEF Ours
  <2>2. all[i].text \in Strings
    BY <2>1 DEF Segment
  <2>3. all[i].id # NoId => Content(configs, all[i].id) \in Strings
    BY <1>1, <2>1, AddedIs
  <2> QED
    BY <2>2, <2>3 DEF Piece
<1>5. w \in Seq(Seq(Bytes)) /\ Len(w) = n /\ \A i \in 1..n : w[i] = Piece(configs, all[i])
  <2>1. \A i \in 1..n : Piece(configs, all[i]) \in Seq(Bytes)
    BY <1>4 DEF Strings
  <2>2. w \in [1..n -> Seq(Bytes)] /\ \A i \in 1..n : w[i] = Piece(configs, all[i])
    BY <1>3, <2>1 DEF Pieced
  <2> HIDE DEF w, n
  <2> QED
    BY <1>3, <2>2, Tabled
<1>6. Spelled(configs, all) = FlattenSeq(w)
  BY Zenon DEF Spelled, Pieced, Piece
<1>7. ASSUME NEW i \in 1..n, NEW x \in Tiled
      PROVE  Normalized(tk, x, all[i]) \in Tiled
  BY <1>3, SegmentsTile
<1> HIDE DEF n, w
<1>8. Leads(n, Tiled, NoText, join, y)
  <2> HIDE DEF configs
  <2> QED
    BY <1>3, <1>7, TiledGrows, NormalizedFold DEF n
<1>9. PICK h \in [0..n -> Tiled] : Goes(n, NoText, join, h) /\ h[n] = y
  BY <1>8 DEF Leads
<1>10. h[0] = NoText /\ \A k \in 1..n : h[k] = Normalized(tk, h[k - 1], all[k])
  <2>1. h[0] = NoText /\ \A k \in 1..n : h[k] = join[k][h[k - 1]]
    BY <1>9 DEF Goes
  <2>2. \A k \in 1..n : k - 1 \in 0..n
    BY <1>3
  <2> QED
    BY <1>9, <2>1, <2>2
<1> DEFINE S == {k \in 0..n : StandsFor(configs, h[k], FlattenSeq(First(w, k)))}
<1>11. 0 \in S
  <2>1. NoText \in Tiled /\ NoText.splits = <<>>
    BY TiledGrows DEF NoText
  <2>2. SplitPieces(configs, NoText) = <<>>
    BY <2>1 DEF SplitPieces
  <2>3. First(w, 0) = <<>>
    BY DEF First
  <2>4. StandsFor(configs, NoText, FlattenSeq(First(w, 0)))
    BY <2>1, <2>2, <2>3 DEF StandsFor
  <2>5. 0 \in 0..n
    BY <1>3
  <2> QED
    BY <1>10, <2>4, <2>5
<1>12. ASSUME NEW m \in Nat, m < n, m \in S
       PROVE  m + 1 \in S
  <2>1. m + 1 \in 1..n /\ m + 1 - 1 = m /\ m \in 0..n /\ m + 1 \in 0..n /\ m + 1 \in 1..Len(w)
    BY <1>3, <1>5, <1>12
  <2>2. h[m + 1] = Normalized(tk, h[m], all[m + 1]) /\ StandsFor(configs, h[m], FlattenSeq(First(w, m)))
    BY <1>10, <1>12, <2>1
  <2>3. all[m + 1] \in Segment /\ (all[m + 1].id # NoId => IsAdded(configs, all[m + 1].id))
    BY <1>3, <2>1 DEF Ours
  <2>4. StandsFor(configs, h[m + 1], FlattenSeq(First(w, m)) \o Piece(configs, all[m + 1]))
    <3> DEFINE p == h[m]
               seg == all[m + 1]
               t == FlattenSeq(First(w, m))
    <3>1. StandsFor(tk.added, p, t) /\ seg \in Segment /\ (seg.id # NoId => IsAdded(tk.added, seg.id))
      BY <2>2, <2>3
    <3> HIDE DEF p, seg, t
    <3>2. StandsFor(tk.added, Normalized(tk, p, seg), t \o Piece(tk.added, seg))
      BY <1>1, <3>1, StandsForSegment
    <3> QED
      BY <2>2, <3>2 DEF p, seg, t
  <2>5. First(w, m + 1) = Append(First(w, m), w[m + 1])
    BY <1>5, <2>1, FirstGrows
  <2>6. First(w, m) \in Seq(Seq(Bytes)) /\ w[m + 1] \in Seq(Bytes)
    <3>1. Cuts(Seq(Bytes), w, m, m)
      BY <1>5, <2>1, FirstSplits
    <3>2. w[m + 1] \in Seq(Bytes)
      BY <1>5, <2>1
    <3> QED
      BY <3>1, <3>2 DEF Cuts
  <2>7. FlattenSeq(First(w, m + 1)) = FlattenSeq(First(w, m)) \o w[m + 1]
    BY <2>5, <2>6, FlattenAppend
  <2>8. StandsFor(configs, h[m + 1], FlattenSeq(First(w, m + 1)))
    BY <1>5, <2>1, <2>4, <2>7
  <2> QED
    BY <2>1, <2>8
<1> HIDE DEF S
<1>13. n \in S
  BY <1>3, <1>11, <1>12, UpTo
<1>14. First(w, n) = w
  BY <1>5, FirstAll
<1>15. StandsFor(configs, y, Spelled(configs, all))
  BY <1>6, <1>9, <1>13, <1>14 DEF S
<1>16. build_pre_tokenized(tk, s, special, bypass) = build_pre_tokenized_from_segments(tk, all)
  <2>1. ~ HasNormalizedMatchers(tk)
    BY DEF HasNormalizedMatchers
  <2> QED
    BY <2>1, Zenon DEF build_pre_tokenized, all
<1>17. build_pre_tokenized_from_segments(tk, all) = y
  BY Zenon DEF build_pre_tokenized_from_segments, NormalizedOver
<1> QED
  BY <1>15, <1>16, <1>17 DEF all

\* The texts of the splits for parts are the parts.
LEMMA SplitsOfTexts ==
  ASSUME NEW p \in Tiled, NEW sp \in TextSplits, FitsText(p.buffer, sp), NEW parts \in Seq(Strings),
         FlattenSeq(parts) = split_text(p, sp), NEW k \in 1..Len(parts)
  PROVE  SplitsOf(parts, sp.from)[k].id = NoId /\ split_text(p, SplitsOf(parts, sp.from)[k]) = parts[k]
<1> DEFINE s == p.buffer
           a == sp.from
           b == sp.to - 1
           x == FlattenSeq(First(parts, k - 1))
           y == FlattenSeq(First(parts, k))
           new == SplitsOf(parts, a)[k]
<1>1. /\ s \in Seq(Bytes) /\ Len(s) \in Nat /\ a \in 1..Len(s) + 1 /\ b \in 0..Len(s) /\ a - 1 <= b
      /\ Len(parts) \in Nat /\ DOMAIN parts = 1..Len(parts)
  <2>1. s \in Strings
    BY DEF Tiled
  <2>2. s \in Seq(Bytes) /\ Len(s) \in Nat
    BY <2>1 DEF Strings
  <2>3. a \in 1..Len(s) + 1 /\ sp.to \in 1..Len(s) + 1 /\ a <= sp.to
    BY DEF FitsText, IsCut
  <2> QED
    BY <2>2, <2>3
<1>2. parts \in Seq(Seq(Bytes))
  <2>1. Strings \subseteq Seq(Bytes)
    BY DEF Strings
  <2> QED
    BY <2>1, WiderSeq
<1>3. FlattenSeq(parts) = SubSeq(s, a, b)
  BY DEF split_text
<1>4. SubSeq(FlattenSeq(parts), Len(x) + 1, Len(y)) = parts[k]
  BY <1>2, FlattenSlice
<1>5. First(parts, k - 1) = SubSeq(parts, 1, k - 1) /\ First(parts, k) = SubSeq(parts, 1, k)
  BY <1>1 DEF First
<1>6. new = Split(a + Len(x), a + Len(y), NoId)
  BY <1>1, <1>5 DEF SplitsOf
<1>7. x \in Seq(Bytes) /\ y \in Seq(Bytes) /\ Len(y) <= Len(FlattenSeq(parts)) /\ Len(x) <= Len(y)
  <2>1. k \in Nat /\ k - 1 \in Nat /\ k - 1 <= k /\ k <= Len(parts) /\ Len(parts) <= Len(parts)
    BY <1>1
  <2>2. Cuts(Seq(Bytes), parts, k, Len(parts)) /\ Cuts(Seq(Bytes), parts, k - 1, k)
    BY <1>1, <1>2, <2>1, FirstSplits
  <2>3. First(parts, Len(parts)) = parts
    BY <1>2, FirstAll
  <2> DEFINE m1 == Middle(parts, k - 1, k)
             m2 == Middle(parts, k, Len(parts))
  <2>4. /\ First(parts, k) \in Seq(Seq(Bytes)) /\ First(parts, k - 1) \in Seq(Seq(Bytes))
        /\ m1 \in Seq(Seq(Bytes)) /\ m2 \in Seq(Seq(Bytes))
        /\ parts = First(parts, k) \o m2 /\ First(parts, k) = First(parts, k - 1) \o m1
    BY <2>2, <2>3 DEF Cuts
  <2> HIDE DEF m1, m2
  <2>5. FlattenSeq(parts) = y \o FlattenSeq(m2) /\ y = x \o FlattenSeq(m1)
    <3>1. FlattenSeq(First(parts, k) \o m2) = FlattenSeq(First(parts, k)) \o FlattenSeq(m2)
      BY <2>4, FlattenConcat
    <3>2. FlattenSeq(First(parts, k - 1) \o m1) = FlattenSeq(First(parts, k - 1)) \o FlattenSeq(m1)
      BY <2>4, FlattenConcat
    <3> QED
      BY <2>4, <3>1, <3>2
  <2>6. x \in Seq(Bytes) /\ y \in Seq(Bytes) /\ FlattenSeq(m1) \in Seq(Bytes) /\ FlattenSeq(m2) \in Seq(Bytes)
    BY <2>4, FlattenType
  <2> HIDE DEF x, y
  <2>7. \A u, v \in Seq(Bytes) : Len(u) <= Len(u \o v)
    OBVIOUS
  <2> QED
    BY <2>5, <2>6, <2>7
<1> HIDE DEF x, y, new, a, b, s
<1>8. split_text(p, new) = parts[k]
  <2>1. split_text(p, new) = SubSeq(s, a + Len(x), (a + Len(y)) - 1)
    <3>1. new.from = a + Len(x) /\ new.to = a + Len(y)
      BY <1>6 DEF Split
    <3> DEFINE i == new.from
               j == new.to
    <3>2. split_text(p, new) = SubSeq(s, i, j - 1)
      BY Zenon DEF split_text, s
    <3> HIDE DEF i, j
    <3>3. i = a + Len(x) /\ j = a + Len(y)
      BY <3>1 DEF i, j
    <3> QED
      BY <3>2, <3>3, Zenon
  <2>2. Len(SubSeq(s, a, b)) = b - a + 1
    BY <1>1
  <2>3. SubSeq(SubSeq(s, a, b), Len(x) + 1, Len(y)) = SubSeq(s, a + Len(x), (a + Len(y)) - 1)
    <3> DEFINE i == Len(x)
               j == Len(y)
    <3>1. i \in Nat /\ j \in Nat /\ i <= j /\ j <= b - a + 1
      BY <1>3, <1>7, <2>2
    <3> HIDE DEF i, j
    <3>2. SubSeq(SubSeq(s, a, b), i + 1, j) = SubSeq(s, a + i, (a + j) - 1)
      BY <1>1, <3>1
    <3> QED
      BY <3>2 DEF i, j
  <2> QED
    BY <1>3, <1>4, <2>1, <2>3
<1>9. new.id = NoId
  BY <1>6 DEF Split
<1> QED
  BY <1>8, <1>9 DEF new, a

\* The pattern makes of one split splits that stand for the same.
LEMMA PatternStands ==
  ASSUME NEW configs, NEW p \in Tiled, NEW i \in 1..Len(p.splits),
         SplitPiece(configs, p, p.splits[i]) \in Seq(Bytes),
         p.splits[i].id # NoId => IsAdded(configs, p.splits[i].id),
         NEW T, T = {sp \in TextSplits : SplitPiece(configs, p, sp) \in Seq(Bytes) /\ (sp.id # NoId => IsAdded(configs, sp.id))}
  PROVE  /\ PatternOf(p, p.splits[i]) \in Seq(T)
         /\ EachJoined([sp \in T |-> SplitPiece(configs, p, sp)], PatternOf(p, p.splits[i])) =
              SplitPiece(configs, p, p.splits[i])
<1> DEFINE sp == p.splits[i]
           f == [x \in T |-> SplitPiece(configs, p, x)]
<1>1. sp \in TextSplits /\ FitsText(p.buffer, sp) /\ split_text(p, sp) \in Strings
  BY SplitTextIs
<1>2. sp \in T /\ f \in [T -> Seq(Bytes)] /\ \A x \in T : f[x] = SplitPiece(configs, p, x)
  BY <1>1
<1> HIDE DEF f, sp
<1>3. CASE sp.id # NoId
  <2> DEFINE one == <<sp>>
  <2>1. one \in Seq(T) /\ Len(one) = 1 /\ one[1] = sp
    BY <1>2
  <2>2. PatternOf(p, sp) = one
    BY <1>3 DEF PatternOf
  <2> HIDE DEF one
  <2>3. Each(f, one) = <<SplitPiece(configs, p, sp)>>
    BY <1>2, <2>1 DEF Each
  <2>4. SplitPiece(configs, p, sp) \in Seq(Bytes)
    BY DEF sp
  <2>5. EachJoined(f, one) = SplitPiece(configs, p, sp)
    BY <2>3, <2>4, FlattenOne DEF EachJoined
  <2> QED
    BY <2>1, <2>2, <2>5 DEF f, sp
<1>4. CASE sp.id = NoId
  <2> DEFINE parts == Pieces(split_text(p, sp))
             new == SplitsOf(parts, sp.from)
  <2>1. parts \in Seq(Strings) /\ FlattenSeq(parts) = split_text(p, sp)
    BY <1>1, PiecesAre
  <2> HIDE DEF parts
  <2>2. Len(parts) \in Nat /\ DOMAIN parts = 1..Len(parts) /\ \A k \in 1..Len(parts) : parts[k] \in Strings /\ parts[k] \in Seq(Bytes)
    BY <2>1 DEF Strings
  <2>3. new \in Seq(TextSplits)
    <3>1. FlattenSeq(parts) = SubSeq(p.buffer, sp.from, sp.to - 1) /\ p.buffer \in Strings
      BY <2>1 DEF split_text, Tiled
    <3>2. Tiles(new, p.buffer, sp.from, sp.to)
      BY <1>1, <2>1, <3>1, SplitsOfTile
    <3> QED
      BY <3>2 DEF Tiles
  <2>4. DOMAIN new = 1..Len(parts)
    BY <2>2 DEF SplitsOf
  <2>5. \A k \in 1..Len(parts) : new[k].id = NoId /\ split_text(p, new[k]) = parts[k]
    BY <1>1, <2>1, SplitsOfTexts
  <2>6. PatternOf(p, sp) = new
    BY <1>4, Zenon DEF PatternOf, parts
  <2> HIDE DEF new
  <2>7. Len(new) = Len(parts)
    BY <2>2, <2>3, <2>4
  <2>8. ASSUME NEW k \in 1..Len(parts)
        PROVE  new[k] \in T /\ SplitPiece(configs, p, new[k]) = parts[k]
    <3>1. new[k] \in TextSplits
      BY <2>3, <2>4
    <3>2. SplitPiece(configs, p, new[k]) = parts[k]
      BY <2>5 DEF SplitPiece
    <3> QED
      BY <2>2, <2>5, <3>1, <3>2
  <2>9. new \in Seq(T)
    <3>1. new = [k \in 1..Len(parts) |-> new[k]]
      BY <2>3, <2>4
    <3> QED
      BY <2>2, <2>8, <3>1, Mapped
  <2>10. Each(f, new) = parts
    <3>1. \A k \in 1..Len(parts) : f[new[k]] = parts[k]
      BY <1>2, <2>8
    <3>2. parts = [k \in 1..Len(parts) |-> parts[k]]
      BY <2>1
    <3> QED
      BY <2>7, <3>1, <3>2 DEF Each
  <2>11. SplitPiece(configs, p, sp) = split_text(p, sp)
    BY <1>4 DEF SplitPiece
  <2> QED
    BY <2>1, <2>6, <2>9, <2>10, <2>11 DEF EachJoined, f, sp
<1> QED
  BY <1>3, <1>4

\* The splits at the pattern stand for the same text.
LEMMA StandsSplit ==
  ASSUME NEW configs, Splittable(configs), NEW p, NEW t, StandsFor(configs, p, t)
  PROVE  StandsFor(configs, SplitPattern(p), t)
<1> DEFINE T == {sp \in TextSplits : SplitPiece(configs, p, sp) \in Seq(Bytes) /\ (sp.id # NoId => IsAdded(configs, sp.id))}
           f == [sp \in T |-> SplitPiece(configs, p, sp)]
           sps == p.splits
           n == Len(sps)
           w == [i \in DOMAIN sps |-> PatternOf(p, sps[i])]
           v == SplitPieces(configs, p)
           q == SplitPattern(p)
           new == FlattenSeq(w)
<1>1. /\ v \in Seq(Seq(Bytes)) /\ Len(v) = n /\ n \in Nat /\ DOMAIN sps = 1..n
      /\ \A i \in 1..n : v[i] = SplitPiece(configs, p, sps[i])
      /\ p \in Tiled /\ \A i \in 1..n : sps[i].id # NoId => IsAdded(configs, sps[i].id)
      /\ FlattenSeq(v) = t
  BY SplitPiecesAre DEF StandsFor
<1>2. ASSUME NEW i \in 1..n
      PROVE  PatternOf(p, sps[i]) \in Seq(T) /\ EachJoined(f, PatternOf(p, sps[i])) = v[i]
  <2>1. SplitPiece(configs, p, sps[i]) \in Seq(Bytes) /\ v[i] = SplitPiece(configs, p, sps[i])
    <3> HIDE DEF v
    <3> QED
      BY <1>1
  <2> HIDE DEF v
  <2> QED
    BY <1>1, <2>1, PatternStands
<1>3. Gives(f, T, Bytes)
  BY DEF Gives
<1>4. q = [p EXCEPT !.splits = new]
  BY Zenon DEF SplitPattern, PatternOf
<1>5. \A sp \in T : sp \in TextSplits /\ f[sp] = SplitPiece(configs, p, sp) /\ (sp.id # NoId => IsAdded(configs, sp.id))
  OBVIOUS
<1> HIDE DEF f, T, v
<1>6. w \in Seq(Seq(T)) /\ Len(w) = n /\ \A i \in 1..n : w[i] = PatternOf(p, sps[i])
  <2>1. \A i \in 1..n : w[i] \in Seq(T) /\ w[i] = PatternOf(p, sps[i])
    BY <1>1, <1>2
  <2>2. w = [i \in 1..n |-> w[i]]
    BY <1>1
  <2> HIDE DEF w, sps
  <2> QED
    BY <1>1, <2>1, <2>2, Mapped
<1> HIDE DEF w, q
<1>7. new \in Seq(T) /\ EachJoined(f, new) = FlattenSeq(v)
  <2>1. \A i \in 1..Len(w) : v[i] = EachJoined(f, w[i])
    BY <1>2, <1>6
  <2>2. new \in Seq(T)
    BY <1>6, FlattenType
  <2>3. Len(v) = Len(w)
    BY <1>1, <1>6
  <2>4. EachJoined(f, new) = FlattenSeq(v)
    <3> HIDE DEF sps
    <3> QED
      BY <1>1, <1>3, <1>6, <2>1, <2>3, EachOfAll
  <2> QED
    BY <2>2, <2>4
<1> HIDE DEF new
<1>8. q \in Tiled /\ q.splits = new /\ q.buffer = p.buffer
  <2>1. q \in Tiled
    BY <1>1, PatternTiles DEF q
  <2>2. p \in [buffer : Strings, splits : Seq(TextSplits)]
    BY <1>1 DEF Tiled
  <2> QED
    BY <1>4, <2>1, <2>2
<1>9. Len(new) \in Nat /\ DOMAIN new = 1..Len(new) /\ \A i \in 1..Len(new) : new[i] \in T
  BY <1>7
<1>10. \A sp : SplitPiece(configs, q, sp) = SplitPiece(configs, p, sp)
  BY <1>8 DEF SplitPiece, split_text
<1>11. SplitPieces(configs, q) = Each(f, new)
  <2>1. \A i \in 1..Len(new) : f[new[i]] = SplitPiece(configs, q, new[i])
    BY <1>5, <1>9, <1>10
  <2> QED
    BY <1>8, <1>9, <2>1 DEF SplitPieces, Each
<1>12. \A i \in 1..Len(q.splits) : q.splits[i].id # NoId => IsAdded(configs, q.splits[i].id)
  BY <1>5, <1>8, <1>9
<1>13. FlattenSeq(SplitPieces(configs, q)) = t
  BY <1>1, <1>7, <1>11 DEF EachJoined
<1> QED
  BY <1>8, <1>12, <1>13 DEF StandsFor, q

\* The ids of splits that stand for a text are decoded to its bytes, if the model
\* encodes the bytes and a token is decoded to what it was made of.
LEMMA StandsTokenized ==
  ASSUME NEW tk, IsTokenizer(tk), DistinctIds(tk.added), Lossless(tk), NEW p, NEW t, StandsFor(tk.added, p, t),
         TokenizeSplits(tk, p, TRUE) # NoIds
  PROVE  TokenizeSplits(tk, p, TRUE) \in Seq(Nat) /\ BytesOfIds(tk, TokenizeSplits(tk, p, TRUE)) = t
<1> DEFINE all == AllOf(tk, p, TRUE)
           sps == p.splits
           n == Len(sps)
           w == SplitPieces(tk.added, p)
<1>1. Splittable(tk.added)
  BY MatcherTypes DEF Splittable
<1>2. /\ w \in Seq(Seq(Bytes)) /\ Len(w) = n /\ n \in Nat /\ DOMAIN sps = 1..n
      /\ \A i \in 1..n : w[i] = SplitPiece(tk.added, p, sps[i])
      /\ p \in Tiled /\ \A i \in 1..n : sps[i].id # NoId => IsAdded(tk.added, sps[i].id)
      /\ FlattenSeq(w) = t
  BY <1>1, SplitPiecesAre DEF StandsFor
<1>3. all \in Seq(MaybeIds) /\ Len(all) = n /\ \A i \in 1..n : all[i] = IdsOf(tk, p, TRUE, sps[i])
  BY <1>2, AllOfType
<1>4. TokenizeSplits(tk, p, TRUE) = UnlessNone(all)
  BY TokenizeSplitsIs
<1> HIDE DEF all, w
<1>5. all \in Seq(Seq(Nat)) /\ UnlessNone(all) = FlattenSeq(all) /\ \A i \in 1..n : all[i] # NoIds
  <2>1. UnlessNone(all) # NoIds
    BY <1>4
  <2> QED
    BY <1>3, <2>1, UnlessNoneType
<1>6. ASSUME NEW i \in 1..n
      PROVE  BytesOfIds(tk, all[i]) = w[i]
  <2> DEFINE sp == sps[i]
  <2>1. split_text(p, sp) \in Strings /\ split_text(p, sp) \in Seq(Bytes)
    BY <1>2, SplitTextIs DEF Strings
  <2>2. all[i] = IdsOf(tk, p, TRUE, sp) /\ w[i] = SplitPiece(tk.added, p, sp) /\ all[i] # NoIds
        /\ (sp.id # NoId => IsAdded(tk.added, sp.id))
    BY <1>2, <1>3, <1>5
  <2> HIDE DEF sp
  <2>3. CASE sp.id # NoId
    <3>1. all[i] = <<sp.id>> /\ w[i] = Content(tk.added, sp.id)
      BY <2>2, <2>3 DEF IdsOf, SplitPiece
    <3>2. BytesOfIds(tk, <<sp.id>>) = Content(tk.added, sp.id)
      BY <2>2, <2>3, AddedBytes
    <3> QED
      BY <3>1, <3>2
  <2>4. CASE sp.id = NoId
    <3>1. all[i] = Tokenize(tk, encode_bytes(split_text(p, sp))) /\ w[i] = split_text(p, sp)
      BY <2>2, <2>4 DEF IdsOf, SplitPiece
    <3>2. BytesOfIds(tk, Tokenize(tk, encode_bytes(split_text(p, sp)))) = split_text(p, sp)
      BY <2>1, <2>2, <3>1, TokenizedBytes
    <3> QED
      BY <3>1, <3>2
  <2> QED
    BY <2>3, <2>4
<1>7. BytesOfIds(tk, FlattenSeq(all)) = FlattenSeq(w)
  <2>1. \A i \in 1..Len(all) : BytesOfIds(tk, all[i]) = w[i]
    BY <1>3, <1>6
  <2>2. Len(w) = Len(all)
    BY <1>2, <1>3
  <2> QED
    BY <1>2, <1>5, <2>1, <2>2, IdBytesFlatten
<1>8. FlattenSeq(all) \in Seq(Nat)
  BY <1>5, FlattenType
<1> QED
  BY <1>2, <1>4, <1>5, <1>7, <1>8

\* What a part of a text spells, but for the space that tokens strip, and what
\* all parts that a call encodes do.
SpelledOf(tk, j, part) == Spelled(tk.added, split_added(tk.added, part.text, j.split_special, part.bypass))
Speller(tk, j) == [part \in Parts |-> SpelledOf(tk, j, part)]
AllParts(j) == FlattenSeq([i \in DOMAIN j.parts |-> PartsOf(j.parts[i], j.safe)])
Wanted(tk, j) == EachJoined(Speller(tk, j), AllParts(j))

\* A tokenizer of a call that gives back what it takes.
Undoes(tk) == IsTokenizer(tk) /\ DistinctIds(tk.added) /\ Lossless(tk)

\* What is spelled is a text.
LEMMA SpelledIs ==
  ASSUME NEW tk, Undoes(tk), NEW j
  PROVE  /\ \A part \in Parts : /\ SpelledOf(tk, j, part) \in Strings
                                /\ StandsFor(tk.added, build_pre_tokenized(tk, part.text, j.split_special, part.bypass),
                                             SpelledOf(tk, j, part))
         /\ Gives(Speller(tk, j), Parts, Bytes)
<1>1. ASSUME NEW part \in Parts
      PROVE  /\ SpelledOf(tk, j, part) \in Strings
             /\ StandsFor(tk.added, build_pre_tokenized(tk, part.text, j.split_special, part.bypass),
                          SpelledOf(tk, j, part))
  <2>1. part.text \in Strings
    BY DEF Parts
  <2>2. StandsFor(tk.added, build_pre_tokenized(tk, part.text, j.split_special, part.bypass), SpelledOf(tk, j, part))
    BY <2>1, StandsBuilt DEF SpelledOf, Undoes, Lossless
  <2>3. Splittable(tk.added)
    BY MatcherTypes DEF Splittable, Undoes
  <2> QED
    BY <2>2, <2>3, SplitPiecesAre
<1>2. \A part \in Parts : SpelledOf(tk, j, part) \in Seq(Bytes)
  BY <1>1 DEF Strings
<1> QED
  BY <1>1, <1>2 DEF Gives, Speller

\* The first of the parts, and then the others.
LEMMA FirstSpelled ==
  ASSUME NEW tk, Undoes(tk), NEW j, NEW parts \in Seq(Parts), parts # <<>>
  PROVE  /\ parts[1] \in Parts /\ SubSeq(parts, 2, Len(parts)) \in Seq(Parts)
         /\ EachJoined(Speller(tk, j), SubSeq(parts, 2, Len(parts))) \in Seq(Bytes)
         /\ EachJoined(Speller(tk, j), parts) =
              SpelledOf(tk, j, parts[1]) \o EachJoined(Speller(tk, j), SubSeq(parts, 2, Len(parts)))
<1> DEFINE f == Speller(tk, j)
           one == <<parts[1]>>
           rest == SubSeq(parts, 2, Len(parts))
<1>1. one \in Seq(Parts) /\ rest \in Seq(Parts) /\ parts[1] \in Parts /\ Len(one) = 1 /\ one[1] = parts[1]
  OBVIOUS
<1>2. parts = one \o rest
  OBVIOUS
<1>3. Gives(f, Parts, Bytes) /\ SpelledOf(tk, j, parts[1]) \in Strings
  BY <1>1, SpelledIs
<1>4. f[parts[1]] = SpelledOf(tk, j, parts[1])
  BY <1>1 DEF Speller
<1> HIDE DEF f, one, rest
<1>5. EachJoined(f, one) = SpelledOf(tk, j, parts[1])
  <2>1. Each(f, one) = <<SpelledOf(tk, j, parts[1])>>
    BY <1>1, <1>4 DEF Each
  <2>2. SpelledOf(tk, j, parts[1]) \in Seq(Bytes)
    BY <1>3 DEF Strings
  <2> QED
    BY <2>1, <2>2, FlattenOne DEF EachJoined
<1>6. EachJoined(f, one \o rest) = EachJoined(f, one) \o EachJoined(f, rest)
  BY <1>1, <1>3, EachOfTwo
<1>7. EachJoined(f, rest) \in Seq(Bytes)
  BY <1>1, <1>3, EachType
<1> QED
  BY <1>1, <1>2, <1>5, <1>6, <1>7 DEF f, rest

\* The parts of a job are parts.
LEMMA AllPartsType ==
  ASSUME NEW j \in Jobs
  PROVE  AllParts(j) \in Seq(Parts)
<1> DEFINE all == [i \in DOMAIN j.parts |-> PartsOf(j.parts[i], j.safe)]
<1>1. /\ Len(j.parts) \in Nat /\ DOMAIN j.parts = 1..Len(j.parts) /\ j.safe \in BOOLEAN
      /\ \A i \in 1..Len(j.parts) : IsText(j.parts[i].text) /\ j.parts[i].bypass \in BOOLEAN
  BY JobsAre DEF IsJob
<1>2. \A i \in 1..Len(j.parts) : all[i] \in Seq(Parts)
  BY <1>1, PartsType
<1>3. all \in [1..Len(j.parts) -> Seq(Parts)]
  BY <1>1, <1>2
<1> HIDE DEF all
<1>4. all \in Seq(Seq(Parts))
  BY <1>1, <1>3, Tabled
<1>5. FlattenSeq(all) \in Seq(Parts)
  BY <1>4, FlattenType
<1> QED
  BY <1>5 DEF AllParts, all

\* Of the text of a call, what is not in the bytes of the ids is still to do; the
\* splits stand for the part at work.  A call begins with no ids.
Told(at, j, parts, p, list) ==
  LET tk == Tokenizers[j.tk]
  IN  /\ at = "idle" => list = <<>>
      /\ at \in {"split", "pre", "tokenize"} /\ Lossless(tk) =>
           Wanted(tk, j) = BytesOfIds(tk, list) \o EachJoined(Speller(tk, j), parts)
      /\ at \in {"pre", "tokenize"} /\ Lossless(tk) => StandsFor(tk.added, p, SpelledOf(tk, j, parts[1]))
      /\ at = "done" /\ j.kind = "encode" /\ ~ j.add_special /\ Lossless(tk) => Wanted(tk, j) = BytesOfIds(tk, list)

ToldOK == Told(pc, job, todo, pts, ids)

\* The job at work has a tokenizer whose added tokens have an id each.
LEMMA AtWork ==
  ASSUME OneIdEach, CallsOK, pc \in {"split", "pre", "tokenize"}
  PROVE  job \in Jobs /\ todo \in Seq(Parts) /\ IsTokenizer(This) /\ DistinctIds(This.added) /\ This = Tokenizers[job.tk]
<1>1. job \in Jobs /\ todo \in Seq(Parts)
  BY DEF CallsOK
<1>2. job.tk \in DOMAIN Tokenizers /\ IsTokenizer(Tokenizers[job.tk])
  BY <1>1, JobsAre
<1> QED
  BY <1>1, <1>2 DEF This, OneIdEach

\* A call begins with all parts to do.
LEMMA ToldBegin ==
  ASSUME OneIdEach, CallsOK, ToldOK, Begin
  PROVE  ToldOK'
<1>1. PICK j \in Jobs : pc = "idle" /\ job' = j /\ todo' = AllParts(j) /\ pc' = "split" /\ pts' = pts /\ ids' = ids
  BY DEF Begin, AllParts
<1> DEFINE tk == Tokenizers[j.tk]
<1>2. ids' = <<>>
  BY <1>1 DEF ToldOK, Told
<1>3. IsTokenizer(tk) /\ DistinctIds(tk.added)
  BY JobsAre DEF OneIdEach
<1>4. ASSUME Lossless(tk)
      PROVE  Wanted(tk, j) = BytesOfIds(tk, <<>>) \o EachJoined(Speller(tk, j), AllParts(j))
  <2>1. Undoes(tk)
    BY <1>3, <1>4 DEF Undoes
  <2> HIDE DEF tk
  <2>2. Gives(Speller(tk, j), Parts, Bytes) /\ AllParts(j) \in Seq(Parts)
    BY <2>1, SpelledIs, AllPartsType
  <2>3. Wanted(tk, j) \in Seq(Bytes)
    BY <2>2, EachType DEF Wanted
  <2>4. BytesOfIds(tk, <<>>) = <<>>
    BY <1>3, IdBytesJoin
  <2>5. \A x \in Seq(Bytes) : <<>> \o x = x
    OBVIOUS
  <2> QED
    BY <2>3, <2>4, <2>5 DEF Wanted
<1> HIDE DEF tk
<1>5. Told("split", j, AllParts(j), pts, <<>>)
  BY <1>4, Zenon DEF Told, tk
<1> QED
  BY <1>1, <1>2, <1>5 DEF ToldOK

\* The buffer that is built stands for the first part.
LEMMA ToldSplit ==
  ASSUME OneIdEach, CallsOK, ToldOK, SplitAdded
  PROVE  ToldOK'
<1> DEFINE built == build_pre_tokenized(This, todo[1].text, job.split_special, todo[1].bypass)
<1>1. pc = "split" /\ todo # <<>> /\ pts' = built /\ pc' = "pre" /\ job' = job /\ todo' = todo /\ ids' = ids
  BY DEF SplitAdded
<1>2. job \in Jobs /\ todo \in Seq(Parts) /\ IsTokenizer(This) /\ DistinctIds(This.added) /\ This = Tokenizers[job.tk]
  BY <1>1, AtWork
<1>3. ASSUME Lossless(This)
      PROVE  StandsFor(This.added, built, SpelledOf(This, job, todo[1]))
  <2>1. Undoes(This) /\ todo[1] \in Parts
    BY <1>1, <1>2, <1>3 DEF Undoes
  <2> QED
    BY <2>1, SpelledIs
<1>4. Lossless(This) => Wanted(This, job) = BytesOfIds(This, ids) \o EachJoined(Speller(This, job), todo)
  BY <1>1, <1>2 DEF ToldOK, Told
<1> HIDE DEF built
<1>5. Told("pre", job, todo, built, ids)
  BY <1>2, <1>3, <1>4 DEF Told
<1> QED
  BY <1>1, <1>5 DEF ToldOK

\* The splits at the pattern stand for the same.
LEMMA ToldPre ==
  ASSUME OneIdEach, CallsOK, ToldOK, PreTokenize
  PROVE  ToldOK'
<1> DEFINE new == pre_tokenize(IF detect_fused_byte_level(This.pre) THEN <<This.pre[1]>> ELSE This.pre, pts)
<1>1. pc = "pre" /\ pts' = new /\ pc' = "tokenize" /\ job' = job /\ todo' = todo /\ ids' = ids
  BY DEF PreTokenize
<1>2. job \in Jobs /\ todo \in Seq(Parts) /\ IsTokenizer(This) /\ DistinctIds(This.added) /\ This = Tokenizers[job.tk]
  BY <1>1, AtWork
<1>3. ASSUME Lossless(This)
      PROVE  StandsFor(This.added, new, SpelledOf(This, job, todo[1]))
  <2>1. StandsFor(This.added, pts, SpelledOf(This, job, todo[1]))
    BY <1>1, <1>2, <1>3 DEF ToldOK, Told
  <2>2. Splittable(This.added) /\ pts \in Tiled
    BY <1>2, <2>1, MatcherTypes DEF Splittable, StandsFor
  <2>3. detect_fused_byte_level(This.pre) /\ This.pre[1].kind = "Split"
    BY <1>3 DEF Lossless, detect_fused_byte_level
  <2>4. new = SplitPattern(pts)
    <3> DEFINE step == This.pre[1]
    <3>1. new = pre_tokenize(<<step>>, pts)
      BY <2>3
    <3> HIDE DEF step, new
    <3>2. pre_tokenize(<<step>>, pts) = pre_tokenize_step(pts, step)
      BY <2>2, OneStep
    <3>3. step.kind = "Split"
      BY <2>3 DEF step
    <3> QED
      BY <3>1, <3>2, <3>3 DEF pre_tokenize_step
  <2> HIDE DEF new
  <2> QED
    BY <2>1, <2>2, <2>4, StandsSplit
<1>4. Lossless(This) => Wanted(This, job) = BytesOfIds(This, ids) \o EachJoined(Speller(This, job), todo)
  BY <1>1, <1>2 DEF ToldOK, Told
<1> HIDE DEF new
<1>5. Told("tokenize", job, todo, new, ids)
  BY <1>2, <1>3, <1>4 DEF Told
<1> QED
  BY <1>1, <1>5 DEF ToldOK

\* The ids of the splits have the bytes of the part, which is done then.
LEMMA ToldTokenize ==
  ASSUME OneIdEach, Ordering, ToldOK, ModelTokenize
  PROVE  ToldOK'
<1> DEFINE fused == detect_fused_byte_level(This.pre)
           new == TokenizeSplits(This, pts, fused)
           rest == SubSeq(todo, 2, Len(todo))
<1>1. /\ pc = "tokenize" /\ job' = job /\ todo' = rest /\ pts' = NoText
      /\ IF new = NoIds THEN pc' = "failed" /\ ids' = <<>> ELSE pc' = "split" /\ ids' = ids \o new
  BY Zenon DEF ModelTokenize
<1>2. /\ job \in Jobs /\ todo \in Seq(Parts) /\ IsTokenizer(This) /\ DistinctIds(This.added)
      /\ This = Tokenizers[job.tk] /\ todo # <<>> /\ ids \in Seq(Nat)
  BY <1>1, AtWork DEF Ordering, CallsOK, IdsOK
<1>3. CASE new = NoIds
  <2>1. Told("failed", job, rest, NoText, <<>>)
    BY DEF Told
  <2> QED
    BY <1>1, <1>3, <2>1 DEF ToldOK
<1>4. CASE new # NoIds
  <2>1. ASSUME Lossless(This)
        PROVE  Wanted(This, job) = BytesOfIds(This, ids \o new) \o EachJoined(Speller(This, job), rest)
    <3> DEFINE a == BytesOfIds(This, ids)
               b == SpelledOf(This, job, todo[1])
               c == EachJoined(Speller(This, job), rest)
    <3>1. Undoes(This) /\ fused = TRUE
      BY <1>2, <2>1 DEF Undoes, Lossless, detect_fused_byte_level, is_bulk_only
    <3>2. /\ StandsFor(This.added, pts, b)
          /\ Wanted(This, job) = a \o EachJoined(Speller(This, job), todo)
      BY <1>1, <1>2, <2>1 DEF ToldOK, Told
    <3>3. /\ todo[1] \in Parts /\ c \in Seq(Bytes)
          /\ EachJoined(Speller(This, job), todo) = b \o c
      BY <1>2, <3>1, FirstSpelled
    <3>4. new \in Seq(Nat) /\ BytesOfIds(This, new) = b
      BY <1>2, <1>4, <2>1, <3>1, <3>2, StandsTokenized
    <3>5. b \in Seq(Bytes)
      BY <3>1, <3>3, SpelledIs DEF Strings
    <3> HIDE DEF b, c, new, fused, rest
    <3>6. a \in Seq(Bytes) /\ BytesOfIds(This, ids \o new) = a \o b
      BY <1>2, <3>4, IdBytesJoin
    <3> HIDE DEF a
    <3>7. a \o (b \o c) = (a \o b) \o c
      BY <3>3, <3>5, <3>6, Bracketed
    <3> QED
      BY <3>2, <3>3, <3>6, <3>7 DEF c
  <2> HIDE DEF new, rest
  <2>2. Told("split", job, rest, NoText, ids \o new)
    BY <1>2, <2>1 DEF Told
  <2> QED
    BY <1>1, <1>4, <2>2 DEF ToldOK
<1> QED
  BY <1>3, <1>4

\* With no parts left and nothing added the ids have the bytes of the text.
LEMMA ToldPost ==
  ASSUME OneIdEach, Ordering, ToldOK, PostProcess
  PROVE  ToldOK'
<1>1. pc = "split" /\ todo = <<>> /\ ids' = post_process(This, ids, job.add_special) /\ pc' = "done"
      /\ job' = job /\ todo' = todo /\ pts' = pts
  BY DEF PostProcess
<1>2. IsTokenizer(This) /\ This = Tokenizers[job.tk] /\ ids \in Seq(Nat)
  BY <1>1, AtWork DEF Ordering, IdsOK
<1>3. ASSUME Lossless(This), ~ job.add_special
      PROVE  Wanted(This, job) = BytesOfIds(This, ids')
  <2>1. Wanted(This, job) = BytesOfIds(This, ids) \o EachJoined(Speller(This, job), <<>>)
    BY <1>1, <1>2, <1>3 DEF ToldOK, Told
  <2>2. EachJoined(Speller(This, job), <<>>) = <<>>
    <3>1. Each(Speller(This, job), <<>>) = <<>>
      BY DEF Each
    <3> QED
      BY <3>1, FlattenOfNone DEF EachJoined
  <2>3. BytesOfIds(This, ids) \in Seq(Bytes)
    BY <1>2, IdBytesJoin
  <2>4. \A x \in Seq(Bytes) : x \o <<>> = x
    OBVIOUS
  <2>5. ids' = ids
    BY <1>1, <1>3, Zenon DEF post_process
  <2> QED
    BY <2>1, <2>2, <2>3, <2>4, <2>5
<1>4. Told("done", job, todo, pts, ids')
  BY <1>2, <1>3 DEF Told
<1> QED
  BY <1>1, <1>4 DEF ToldOK

\* No step leaves this.
LEMMA ToldStep ==
  ASSUME OneIdEach, Ordering, ToldOK, [EncNext]_<<vars, encVars>>
  PROVE  ToldOK'
<1>0. CallsOK
  BY DEF Ordering
<1>1. CASE Begin
  BY <1>0, <1>1, ToldBegin
<1>2. CASE SplitAdded
  BY <1>0, <1>2, ToldSplit
<1>3. CASE PreTokenize
  BY <1>0, <1>3, ToldPre
<1>4. CASE ModelTokenize
  BY <1>4, ToldTokenize
<1>5. CASE PostProcess
  BY <1>5, ToldPost
<1>6. CASE BeginIds
  <2>1. PICK list \in IdLists : job' = [kind |-> "ids", tk |-> list.tk, skip |-> list.skip] /\ pc' = "done"
    BY <1>6 DEF BeginIds
  <2>2. job'.kind = "ids"
    BY <2>1
  <2>3. Told("done", job', todo', pts', ids')
    BY <2>2 DEF Told
  <2> QED
    BY <2>1, <2>3 DEF ToldOK
<1>7. CASE NewStream \/ StepHolds \/ StepReturns \/ StepFails
  <2>1. pc' \in {"stream", "failed"}
    BY <1>7 DEF NewStream, StepHolds, StepReturns, StepFails
  <2>2. \A at \in {"stream", "failed"} : Told(at, job', todo', pts', ids')
    BY DEF Told
  <2> QED
    BY <2>1, <2>2 DEF ToldOK
<1>8. CASE Return \/ Release
  <2>1. pc' = "idle" /\ ids' = <<>>
    BY <1>8 DEF Return, Release
  <2>2. Told("idle", job', todo', pts', <<>>)
    BY DEF Told
  <2> QED
    BY <2>1, <2>2 DEF ToldOK
<1>9. CASE Wrap \/ New
  <2>1. pc' = "encoding"
    BY <1>9 DEF Wrap, New
  <2>2. Told("encoding", job', todo', pts', ids')
    BY DEF Told
  <2> QED
    BY <2>1, <2>2 DEF ToldOK
<1>10. CASE UNCHANGED vars
  BY <1>10 DEF vars, ToldOK
<1> QED
  BY <1>1, <1>2, <1>3, <1>4, <1>5, <1>6, <1>7, <1>8, <1>9, <1>10, StepsAre

\* What is spelled is given back.
LEMMA ToldGivesBack ==
  ASSUME OneIdEach, Ordering, ToldOK, Lossless(This)
  PROVE  RoundTrip
<1> SUFFICES ASSUME pc = "done", job.kind = "encode", ~ job.add_special
             PROVE  decode(This, ids, FALSE) = FlattenSeq([i \in DOMAIN AllParts(job) |-> SpelledPart(AllParts(job)[i])])
  BY Zenon DEF RoundTrip, AllParts
<1> DEFINE parts == AllParts(job)
           w == Each(Speller(This, job), parts)
<1>1. job \in Jobs /\ ids \in Seq(Nat)
  BY DEF Ordering, CallsOK, IdsOK, IdJobs
<1>2. Undoes(This) /\ This = Tokenizers[job.tk] /\ IsTokenizer(This)
  BY <1>1, JobsAre DEF Undoes, This, OneIdEach
<1>3. parts \in Seq(Parts)
  BY <1>1, AllPartsType
<1> HIDE DEF parts
<1>4. /\ Gives(Speller(This, job), Parts, Bytes)
      /\ \A part \in Parts : SpelledOf(This, job, part) \in Strings /\ Speller(This, job)[part] = SpelledOf(This, job, part)
  BY <1>2, SpelledIs DEF Speller
<1>5. Len(parts) \in Nat /\ DOMAIN parts = 1..Len(parts) /\ \A i \in 1..Len(parts) : parts[i] \in Parts
  BY <1>3
<1>6. w = [i \in DOMAIN parts |-> SpelledPart(parts[i])]
  <2>1. \A i \in 1..Len(parts) : Speller(This, job)[parts[i]] = SpelledPart(parts[i])
    BY <1>4, <1>5 DEF SpelledOf, SpelledPart
  <2> QED
    BY <1>5, <2>1 DEF Each
<1>7. FlattenSeq(w) \in Strings
  <2>1. w = [i \in 1..Len(parts) |-> w[i]] /\ \A i \in 1..Len(parts) : w[i] \in Strings
    BY <1>4, <1>5 DEF Each
  <2> HIDE DEF w
  <2>2. w \in Seq(Strings)
    BY <1>5, <2>1, Mapped
  <2> QED
    BY <2>2, TextsFlatten
<1>8. BytesOfIds(This, ids) = FlattenSeq(w)
  BY <1>2, Zenon DEF ToldOK, Told, Wanted, EachJoined, parts
<1>9. decode(This, ids, FALSE) = Str(Lossy(BytesOfIds(This, ids)))
  <2>1. TokensOf(This, ids, FALSE) \in Seq(Strings)
    BY <1>1, <1>2, TokensJoin
  <2>2. This.decoder = ByteLevelOnly
    BY DEF Lossless, ByteLevelOnly
  <2> QED
    BY <2>1, <2>2, BytesDecode DEF decode, BytesOfIds
<1>10. Str(Lossy(FlattenSeq(w))) = FlattenSeq(w)
  <2> HIDE DEF w
  <2> QED
    BY <1>7, StringsAre DEF Chars
<1> HIDE DEF w
<1> QED
  BY <1>6, <1>8, <1>9, <1>10 DEF parts

\* With the tokenizer of a byte-level model the ids of a text are decoded to the
\* text, whatever the text, its parts and its chunks, the vocabulary and the added
\* tokens are (Tokenizer::encode, decode): each stage keeps every byte, but for
\* the space that tokens strip on their left, in order and once.
THEOREM ByteLevelRoundTrip ==
  ASSUME OneIdEach
  PROVE  EncSpec => [](Lossless(This) => RoundTrip)
<1>1. EncInit => ToldOK
  <2>1. Told("idle", NoJob, <<>>, NoText, <<>>)
    BY DEF Told
  <2> QED
    BY <2>1 DEF EncInit, Init, ToldOK
<1>2. Ordering /\ ToldOK /\ [EncNext]_<<vars, encVars>> => ToldOK'
  BY ToldStep
<1>3. Ordering /\ ToldOK => (Lossless(This) => RoundTrip)
  BY ToldGivesBack
<1>4. EncSpec => []Ordering
  BY InOrderAlways
<1> QED
  BY <1>1, <1>2, <1>3, <1>4, PTL DEF EncSpec

=============================================================================
