----------------------------- MODULE SplitCache -----------------------------
(***************************************************************************)
(* The incremental cache of the PCRE2 tier of                              *)
(* src/src/pre_tokenizers/split.rs.  It is thread-local, so the module is  *)
(* about one thread: the input and matches of the last call that ran on    *)
(* it, and the calls that run on it now.  There may be several of these: a *)
(* rayon worker that waits for the chunks of a parallel match takes other  *)
(* jobs from its pool, and a job may be a call that uses the same cache.   *)
(*                                                                         *)
(* Offsets count from 0, as in the code.  A pattern is what it matches     *)
(* first in a text: it may look ahead but not behind.                      *)
(***************************************************************************)
EXTENDS Sequences, Integers

CONSTANTS
  Splits,       \* ids of the Split instances, from 1
  PatternOf,    \* [Splits -> Patterns]
  Patterns,     \* regular expressions
  First(_, _),  \* First(p, x): the first non-empty match of p in x, or NoMatch
  Chars,        \* bytes
  Texts,        \* texts, and all their suffixes
  Buffers,      \* the buffers a call may be given
  Margins,      \* bytes of a buffer before and after its only split
  MinPrefix,    \* INCREMENTAL_MIN_PREFIX
  ParallelLen,  \* 2 * MIN_CHUNK_SIZE
  Nests,        \* <<r, s>>: a call of r that waits on a rayon worker may run one of s
  MaxDepth      \* bound of the model: calls nested on the thread

NoMatch == <<>>

Drop(x, n) == SubSeq(x, n + 1, Len(x))

ASSUME SplitAssumption ==
  /\ Splits \subseteq Nat \ {0}
  /\ PatternOf \in [Splits -> Patterns]
  /\ Texts \subseteq Seq(Chars)
  /\ \A x \in Texts : \A n \in 0..Len(x) : Drop(x, n) \in Texts
  /\ \A p \in Patterns, x \in Texts :
       \/ First(p, x) = NoMatch
       \/ \E s, e \in 0..Len(x) : s < e /\ First(p, x) = <<s, e>>
  /\ Buffers \subseteq Texts
  /\ Margins \subseteq Nat \X Nat
  /\ MinPrefix \in Nat
  /\ ParallelLen \in Nat
  /\ Nests \subseteq Splits \X Splits
  /\ MaxDepth \in Nat

VARIABLES
  cache,   \* split_id, prev_input and prev_matches of the thread
  calls    \* the calls on the thread, the innermost last

vars == <<cache, calls>>

Stages == {"scan", "done", "failed", "panic"}

Init ==
  /\ cache = [split_id |-> 0, prev_input |-> <<>>, prev_matches |-> <<>>]
  /\ calls = <<>>

\* The buffers a and b have their first n bytes in common: n is at most what
\* common_prefix_len returns.
Shared(a, b, n) ==
  /\ n <= Len(a)
  /\ n <= Len(b)
  /\ \A i \in 1..n : a[i] = b[i]

\* Mutation of ReuseCount: the matches are not truncated.
ReuseCountAll(c, buffer, n) == n = Len(c.prev_matches)

\* partition_point: n of the cached matches end before the common prefix does.
ReuseCount(c, buffer, n) ==
  \A i \in 1..Len(c.prev_matches) :
    i <= n <=> Shared(c.prev_input, buffer, c.prev_matches[i][2] + 1)

\* Mutation of Reuses: the Split that filled the cache is not compared.
ReusesFromAny(c, s, buffer, n) ==
  IF Shared(c.prev_input, buffer, MinPrefix)
  THEN ReuseCount(c, buffer, n)
  ELSE n = 0

\* A call of s may keep n of the cached matches, and none of another Split.
Reuses(c, s, buffer, n) ==
  IF c.split_id = s /\ Shared(c.prev_input, buffer, MinPrefix)
  THEN ReuseCount(c, buffer, n)
  ELSE n = 0

\* Mutation of Probed: the cache changes hands but keeps its matches.
ProbedKeepsMatches(c, s, buffer) ==
  CASE c.split_id # s -> [c EXCEPT !.split_id = s]
    [] c.split_id = s /\ Shared(c.prev_input, buffer, MinPrefix) ->
         [c EXCEPT !.prev_matches = <<>>]
    [] OTHER -> c

\* The probe takes the matches it may reuse out of the cache, and empties the
\* cache of another Split.
Probed(c, s, buffer) ==
  CASE c.split_id # s ->
         [split_id |-> s, prev_input |-> <<>>, prev_matches |-> <<>>]
    [] c.split_id = s /\ Shared(c.prev_input, buffer, MinPrefix) ->
         [c EXCEPT !.prev_matches = <<>>]
    [] OTHER -> c

EndOf(matches) == IF matches = <<>> THEN 0 ELSE matches[Len(matches)][2]

Top == calls[Len(calls)]

Scanning == calls # <<>> /\ Top.stage = "scan"

\* The text of a call, the only split of its buffer.
Text(c) == SubSeq(c.buffer, c.base + 1, c.stop)

(* ------------------------------- Actions -------------------------------- *)

\* pre_tokenize_pcre2_isolated up to the match.  A thread that waits for a
\* parallel match may begin another call inside.
Begin(s, buffer, margin, n) ==
  /\ \/ calls = <<>>
     \/ Scanning /\ Top.parallel /\ <<Top.split, s>> \in Nests /\ Len(calls) < MaxDepth
  /\ margin[1] + margin[2] <= Len(buffer)
  /\ Reuses(cache, s, buffer, n)
  /\ LET base    == margin[1]
         stop    == Len(buffer) - margin[2]
         reused  == SubSeq(cache.prev_matches, 1, n)
         restart == EndOf(reused)
     IN  calls' = Append(calls,
           [split |-> s, buffer |-> buffer, base |-> base, stop |-> stop,
            matches |-> reused, pos |-> restart,
            parallel |-> stop - base - restart >= ParallelLen,
            stage |-> IF restart > stop - base THEN "panic" ELSE "scan"])
  /\ cache' = Probed(cache, s, buffer)

\* One more match after pos, the only state of the match that lasts; chunks
\* matched in parallel are merged to the same matches.
Scan ==
  /\ Scanning
  /\ LET m == First(PatternOf[Top.split], Drop(Text(Top), Top.pos))
         at == Top.base + Top.pos
     IN  /\ m # NoMatch
         /\ calls' = [calls EXCEPT ![Len(calls)] =
              [Top EXCEPT !.matches = Append(@, <<at + m[1], at + m[2]>>),
                          !.pos = @ + m[2]]]
  /\ UNCHANGED cache

\* Nothing is left to match: the input and its matches go to the cache of the
\* thread, which is not probed again.
Store ==
  /\ Scanning
  /\ First(PatternOf[Top.split], Drop(Text(Top), Top.pos)) = NoMatch
  /\ cache' = [cache EXCEPT !.prev_input = Top.buffer,
                            !.prev_matches = Top.matches]
  /\ calls' = [calls EXCEPT ![Len(calls)] = [Top EXCEPT !.stage = "done"]]

\* PCRE2 gives up (a match limit): the call fails and the cache is left as the
\* probe left it.
Fail ==
  /\ Scanning
  /\ calls' = [calls EXCEPT ![Len(calls)] = [Top EXCEPT !.stage = "failed"]]
  /\ UNCHANGED cache

Return ==
  /\ calls # <<>>
  /\ Top.stage # "scan"
  /\ calls' = SubSeq(calls, 1, Len(calls) - 1)
  /\ UNCHANGED cache

Next ==
  \/ \E s \in Splits, buffer \in Buffers, margin \in Margins,
        n \in 0..Len(cache.prev_matches) : Begin(s, buffer, margin, n)
  \/ Scan
  \/ Store
  \/ Fail
  \/ Return

Spec == Init /\ [][Next]_vars

(* ------------------------------ Properties ------------------------------ *)

Spans == Seq(Nat \X Nat)

Calls == [split : Splits, buffer : Buffers, base : Nat, stop : Nat,
          matches : Spans, pos : Nat, parallel : BOOLEAN, stage : Stages]

\* Spans that follow each other and end in the text.
Ordered(matches, base, stop) ==
  \A i \in 1..Len(matches) :
    /\ (IF i = 1 THEN base ELSE matches[i - 1][2]) <= matches[i][1]
    /\ matches[i][1] < matches[i][2]
    /\ matches[i][2] <= stop

TypeOK ==
  /\ cache \in [split_id : Splits \cup {0}, prev_input : Buffers \cup {<<>>},
                prev_matches : Spans]
  /\ Ordered(cache.prev_matches, 0, Len(cache.prev_input))
  /\ calls \in Seq(Calls)

\* Each of the matches is the first one p has after the one before it.
Follow(p, text, base, matches) ==
  \A i \in 1..Len(matches) :
    LET from == IF i = 1 THEN 0 ELSE matches[i - 1][2] - base
        m    == First(p, Drop(text, from))
    IN  m # NoMatch /\ matches[i] = <<base + from + m[1], base + from + m[2]>>

\* The matches are all that p has in the text.
Complete(p, text, base, matches) ==
  /\ Follow(p, text, base, matches)
  /\ First(p, Drop(text, IF matches = <<>> THEN 0 ELSE EndOf(matches) - base))
       = NoMatch

\* A call returns the matches a fresh Split finds in the same text, whatever
\* calls ran on the thread before it or inside it, and however they ended.
Fresh ==
  \A i \in DOMAIN calls :
    LET c == calls[i]
    IN  /\ c.stage # "panic"
        /\ c.stage = "done" =>
             Complete(PatternOf[c.split], Text(c), c.base, c.matches)

\* The cached matches are those of the Split whose id the cache carries, in the
\* input it carries.
Owned ==
  cache.prev_matches # <<>> =>
    /\ cache.split_id \in Splits
    /\ Follow(PatternOf[cache.split_id], cache.prev_input, 0,
              cache.prev_matches)

\* Whatever pattern a call's reused matches come from, the splits it returns
\* tile its text and no slice is out of range.
Tiled ==
  \A i \in DOMAIN calls :
    LET c == calls[i]
    IN  c.stage # "panic" /\ Ordered(c.matches, c.base, c.stop)

\* A pattern whose first match depends on no more than the byte after it.
Decided(p) ==
  \A x, y \in Texts :
    LET m == First(p, x)
    IN  m # NoMatch /\ Shared(x, y, m[2] + 1) => First(p, y) = m

(* -------------------------- Inductive invariants ------------------------ *)

\* A call whose split is the whole buffer.
Framed(c) ==
  /\ c.base = 0
  /\ c.stop = Len(c.buffer)
  /\ c.pos = EndOf(c.matches)
  /\ c.stage # "panic"
  /\ Ordered(c.matches, 0, c.stop)

IInvTiled == TypeOK /\ \A i \in DOMAIN calls : Framed(calls[i])

\* What a call has matched is right so far, and while it runs the cache carries
\* the id of its Split.
Matched(c, id) ==
  LET p == PatternOf[c.split]
  IN  /\ Follow(p, c.buffer, 0, c.matches)
      /\ c.stage = "done" => First(p, Drop(c.buffer, c.pos)) = NoMatch
      /\ c.stage = "scan" => c.split = id

IInv ==
  /\ IInvTiled
  /\ Owned
  /\ \A i \in DOMAIN calls : Matched(calls[i], cache.split_id)
=============================================================================
