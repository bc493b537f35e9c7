----------------------------- MODULE Splitting -----------------------------
(***************************************************************************)
(* One text split of Split::pre_tokenize (src/pre_tokenizers/split.rs):    *)
(* the hand-written scanner, PCRE2 or fancy-regex finds the matches, over  *)
(* the whole text or over chunks of it in parallel, and the behavior makes *)
(* splits of them.  The incremental tier for one split is SplitCache.      *)
(***************************************************************************)
EXTENDS Scanners

CONSTANTS
    Inputs,       \* the calls: records of a Split and a text
    MinChunk,     \* MIN_CHUNK_SIZE
    MaxParallel,  \* copies of the expression, one for each processor
    Overlap,      \* CHUNK_OVERLAP
    Lookout       \* how far ahead the repair looks for a match it agrees with

Behaviors == {"Removed", "Isolated", "Contiguous", "MergedWithPrevious", "MergedWithNext"}
Engines   == {"scanner", "pcre2", "fancy"}

ASSUME BoundsAssumption ==
    /\ MinChunk \in Nat \ {0}
    /\ MaxParallel \in Nat \ {0}
    /\ Overlap \in 0..MinChunk
    /\ Lookout \in Nat \ {0}

ASSUME InputsAssumption ==
    \A input \in Inputs :
        /\ input.split.behavior \in Behaviors
        /\ input.split.invert \in BOOLEAN
        /\ input.split.engine \in Engines
        /\ input.split.engine = "scanner" =>
               /\ input.split.behavior = "Isolated" /\ ~input.split.invert
               /\ input.split.scheme \in Schemes
        /\ input.text \in Seq(Chars) /\ input.text # <<>>

VARIABLES
    call,    \* the Split and the text of the call, or NoCall
    bounds,  \* where the chunks begin, and the end of the text
    found,   \* the matches of each chunk, Unscanned or Error
    splits   \* what the call returns, Unknown until it does

vars == <<call, bounds, found, splits>>

NoCall    == [split |-> [engine |-> "none"], text |-> <<>>]
Unscanned == <<<<0, 0>>>>  \* no match begins at 0
Error     == <<<<0, 1>>>>
Unknown   == <<<<0, 2>>>>

Pattern == IF call.split.engine = "scanner" THEN from_pattern(call.split.scheme)
           ELSE call.split.pattern

Parallel == /\ Len(call.text) >= 2 * MinChunk
            /\ call.split.engine # "scanner" => MaxParallel >= 2

-----------------------------------------------------------------------------
(* Chunks. *)

Least(a, b) == IF a < b THEN a ELSE b
Most(a, b)  == IF a > b THEN a ELSE b

\* Cuts where no pretoken crosses; a text without such places has fewer chunks.
SafeBounds(scheme, text) ==
    LET n    == Most(Least(MaxParallel, Len(text) \div MinChunk), 1)
        step == Len(text) \div n
        cut(bs, i) ==
            LET target == Most(i * step + 1, Last(bs))
                limit  == Least(target + step, Len(text) + 1)
                b      == find_safe_boundary(scheme, text, target, limit)
            IN  IF b = NoBoundary THEN bs ELSE Append(bs, b)
    IN  Append(FoldLeft(cut, <<1>>, [i \in 1..(n - 1) |-> i]), Len(text) + 1)

\* Cuts at equal distances: a match belongs to the chunk it begins in.
AuthorityBounds(text) ==
    LET n == Most(Least(MaxParallel, Len(text) \div MinChunk), 2)
        nominal == Len(text) \div n
    IN  [i \in 1..n |-> (i - 1) * nominal + 1] \o <<Len(text) + 1>>

RECURSIVE scan_scheme_into(_, _, _, _)
scan_scheme_into(scheme, text, start, end) ==
    LET next == advance(scheme, text, start)
    IN  IF start >= end THEN <<>>
        ELSE <<<<start, next>>>> \o scan_scheme_into(scheme, text, next, end)

Shifted(matches, by) == [i \in DOMAIN matches |-> <<matches[i][1] + by, matches[i][2] + by>>]

\* Mutant: a chunk is read no further than it reaches.
MatchesWithin(pattern, text, start, end) ==
    Shifted(FindAll(pattern, SubSeq(text, start, end - 1), 1), start - 1)

\* A chunk is read beyond its end, but keeps only what begins in it.
MatchesOfChunk(pattern, text, start, end) ==
    LET readEnd == Least(end + Overlap, Len(text) + 1)
        all     == FindAll(pattern, SubSeq(text, start, readEnd - 1), 1)
    IN  SelectSeq(Shifted(all, start - 1), LAMBDA m : m[1] < end)

\* The first index from i on of a match that begins at prev or later.
AfterGhosts(flat, i, prev) ==
    LET rest == {k \in i..Len(flat) : flat[k][1] >= prev}
    IN  IF rest = {} THEN Len(flat) + 1 ELSE Min(rest)

EndOfLast(result) == IF result = <<>> THEN 1 ELSE Last(result)[2]

\* The last match, cut short by the end of its chunk, is matched again.
Rematched(pattern, text, result) ==
    LET again == FindAt(pattern, text, Last(result)[1])
    IN  Front(result) \o (IF again = <<>> THEN <<>> ELSE <<again>>)

\* Matches that begin inside the one before them are ghosts; one that reaches
\* further than it shows that it was cut short.
GhostsPast(pattern, text, flat, i, after, result) ==
    IF \E k \in i..(after - 1) : flat[k][2] > EndOfLast(result)
    THEN Rematched(pattern, text, result)
    ELSE result

\* The matches from the i-th on are taken over, past the ghosts.  If that leaves
\* a gap, matching goes on from its start until it agrees with what the chunks
\* have found.
RECURSIVE merge_from(_, _, _, _, _, _)
merge_from(pattern, text, flat, i, result, gap) ==
    LET m     == FindAt(pattern, text, EndOfLast(result))
        same  == {k \in i..Least(Len(flat), i + Lookout - 1) : flat[k] = m}
        after == AfterGhosts(flat, i, EndOfLast(result))
        kept  == GhostsPast(pattern, text, flat, i, after, result)
        next  == AfterGhosts(flat, after, EndOfLast(kept))
    IN  CASE i > Len(flat) \/ (gap /\ m = <<>>) -> result
          [] i <= Len(flat) /\ gap /\ m # <<>> ->
                 IF same = {} THEN merge_from(pattern, text, flat, i, Append(result, m), TRUE)
                 ELSE merge_from(pattern, text, flat, Min(same), result, FALSE)
          [] i <= Len(flat) /\ ~gap ->
                 IF after = i
                 THEN merge_from(pattern, text, flat, i + 1, Append(result, flat[i]), FALSE)
                 ELSE merge_from(pattern, text, flat, next, kept,
                                 next <= Len(flat) /\ flat[next][1] > EndOfLast(kept))

merge_chunk_matches(pattern, text, flat) == merge_from(pattern, text, flat, 1, <<>>, FALSE)

-----------------------------------------------------------------------------
(* Segments and behaviors. *)

Segment(start, end, isMatch) == [start |-> start, end |-> end, match |-> isMatch]

\* The matches and what is between them; `invert` swaps the two.
matches_to_segments(matches, length, invert) ==
    LET gap(from, to) == IF from < to THEN <<Segment(from, to, invert)>> ELSE <<>>
        add(acc, m)   == [end  |-> m[2],
                          segs |-> acc.segs \o gap(acc.end, m[1])
                                      \o <<Segment(m[1], m[2], ~invert)>>]
        all           == FoldLeft(add, [end |-> 1, segs |-> <<>>], matches)
    IN  all.segs \o gap(all.end, length + 1)

\* Mutant: the kind of the segment before is not kept.
PushedForgets(acc, seg, extend) ==
    [out  |-> IF extend /\ acc.out # <<>>
              THEN Front(acc.out) \o <<<<Least(Last(acc.out)[1], seg.start),
                                         Most(Last(acc.out)[2], seg.end)>>>>
              ELSE Append(acc.out, <<seg.start, seg.end>>),
     prev |-> FALSE]

\* Push a segment, or let it extend the range pushed last.
Pushed(acc, seg, extend) ==
    [out  |-> IF extend /\ acc.out # <<>>
              THEN Front(acc.out) \o <<<<Least(Last(acc.out)[1], seg.start),
                                         Most(Last(acc.out)[2], seg.end)>>>>
              ELSE Append(acc.out, <<seg.start, seg.end>>),
     prev |-> seg.match]

apply_behavior(behavior, segments) ==
    LET none       == [out |-> <<>>, prev |-> FALSE]
        merge(acc, seg) == Pushed(acc, seg, seg.match /\ ~acc.prev)
        join(acc, seg)  == Pushed(acc, seg, seg.match = acc.prev)
    IN  CASE behavior = "Isolated" ->
                 [i \in DOMAIN segments |-> <<segments[i].start, segments[i].end>>]
          [] behavior = "Removed" ->
                 LET kept == SelectSeq(segments, LAMBDA seg : ~seg.match)
                 IN  [i \in DOMAIN kept |-> <<kept[i].start, kept[i].end>>]
          [] behavior = "Contiguous"         -> FoldLeft(join, none, segments).out
          [] behavior = "MergedWithPrevious" -> FoldLeft(merge, none, segments).out
          [] behavior = "MergedWithNext"     ->
                 Reverse(FoldLeft(merge, none, Reverse(segments)).out)

\* Every span of a scanner is a split; an engine's matches take the behavior.
SplitsOf(matches) ==
    IF call.split.engine = "scanner" THEN matches
    ELSE apply_behavior(call.split.behavior,
                        matches_to_segments(matches, Len(call.text), call.split.invert))

-----------------------------------------------------------------------------
Init == call = NoCall /\ bounds = <<>> /\ found = <<>> /\ splits = Unknown

\* A short text is one chunk, which nothing has to be merged with.
Begin ==
    /\ call = NoCall
    /\ \E input \in Inputs : call' = input
    /\ bounds' = CASE ~Parallel'                    -> <<1, Len(call'.text) + 1>>
                   [] Parallel' /\ call'.split.engine = "scanner" ->
                          SafeBounds(call'.split.scheme, call'.text)
                   [] Parallel' /\ call'.split.engine # "scanner" ->
                          AuthorityBounds(call'.text)
    /\ found' = [i \in 1..(Len(bounds') - 1) |-> Unscanned]
    /\ UNCHANGED splits

\* A worker scans a chunk, whichever it gets to.
ScanChunk(i) ==
    /\ found[i] = Unscanned
    /\ found' = [found EXCEPT ![i] =
           IF call.split.engine = "scanner"
           THEN scan_scheme_into(call.split.scheme, call.text, bounds[i], bounds[i + 1])
           ELSE MatchesOfChunk(Pattern, call.text, bounds[i], bounds[i + 1])]
    /\ UNCHANGED <<call, bounds, splits>>

\* An engine gives up on a chunk: its limit of backtracking is reached.
FailChunk(i) ==
    /\ found[i] = Unscanned /\ call.split.engine # "scanner"
    /\ found' = [found EXCEPT ![i] = Error]
    /\ UNCHANGED <<call, bounds, splits>>

Collect ==
    /\ call # NoCall /\ splits = Unknown
    /\ \A i \in DOMAIN found : found[i] # Unscanned
    /\ LET flat == FlattenSeq(found)
       IN  splits' = CASE \E i \in DOMAIN found : found[i] = Error -> Error
                       [] OTHER -> SplitsOf(IF call.split.engine = "scanner" THEN flat
                                            ELSE merge_chunk_matches(Pattern, call.text, flat))
    /\ UNCHANGED <<call, bounds, found>>

Return ==
    /\ splits # Unknown
    /\ call' = NoCall /\ bounds' = <<>> /\ found' = <<>> /\ splits' = Unknown

Next ==
    \/ Begin
    \/ \E i \in DOMAIN found : ScanChunk(i) \/ FailChunk(i)
    \/ Collect
    \/ Return

Spec == Init /\ [][Next]_vars

-----------------------------------------------------------------------------
(* Properties. *)

Answered == splits \notin {Unknown, Error}

TypeOK ==
    /\ call.text \in Seq(Chars)
    /\ bounds # <<>> => bounds[1] = 1 /\ Last(bounds) = Len(call.text) + 1
    /\ \A i \in DOMAIN bounds \ {1} : bounds[i - 1] < bounds[i]
    /\ \A i \in DOMAIN found : found[i] \in {Unscanned, Error} \cup Seq(Nat \X Nat)
    /\ splits \in {Unknown, Error} \cup Seq(Nat \X Nat)

\* "For a recognized pattern, iterating advance from 0 must produce exactly the
\* spans of regex.find_iter(text)" (fast_split.rs:15), also when the text is cut
\* into chunks at the boundaries that are said to be safe.
ScannerIsRegex ==
    Answered /\ call.split.engine = "scanner"
        => splits = FindAll(Pattern, call.text, 1)

Whole == FindAll(Pattern, call.text, 1)

\* The positions of some ranges, and those of the matches or of the rest.
Covered(ranges) == UNION {ranges[i][1]..(ranges[i][2] - 1) : i \in DOMAIN ranges}

CoveredIf(matched) ==
    LET taken == Covered(Whole)
    IN  IF matched THEN taken ELSE (1..Len(call.text)) \ taken

\* The matches of the chunks merge to those of the whole text: matching in
\* parallel does not show.
ChunksAgree ==
    Answered /\ call.split.engine # "scanner" => splits = SplitsOf(Whole)

\* It does not if each match and the character that decides its end are within
\* the overlap, as the comment on CHUNK_OVERLAP demands, and matches cover the
\* text, as those of a tokenizer do.
ChunksAgreeOnCover ==
    Answered /\ call.split.engine # "scanner" =>
        LET whole == Whole
            short == \A i \in DOMAIN whole : whole[i][2] - whole[i][1] < Overlap
        IN  short /\ Covered(whole) = 1..Len(call.text) => splits = SplitsOf(whole)

\* Splits come in the order of the text, none is empty, and they tile it;
\* where segments are removed, what is lost are whole segments.
Tiled ==
    Answered =>
        /\ \A i \in DOMAIN splits : splits[i][1] < splits[i][2]
        /\ \A i \in DOMAIN splits \ {1} : splits[i - 1][2] <= splits[i][1]
        /\ LET lost == (1..Len(call.text)) \ Covered(splits)
           IN  CASE call.split.behavior # "Removed" -> Covered(splits) = 1..Len(call.text)
                 [] OTHER -> Covered(splits) \subseteq 1..Len(call.text)
                             /\ ~Parallel => lost = CoveredIf(~call.split.invert)

\* Where a text is cut, told by the kinds of the segments on both sides: a
\* match clings to what precedes it unless that is a match, and so on.
CutsOK ==
    Answered /\ call.split.engine # "scanner" /\ ~Parallel
             /\ call.split.behavior # "Removed"
        => LET segs == matches_to_segments(Whole, Len(call.text), call.split.invert)
               cut(a, b) ==
                   CASE call.split.behavior = "Isolated"           -> TRUE
                     [] call.split.behavior = "Contiguous"         -> a.match # b.match
                     [] call.split.behavior = "MergedWithPrevious" -> a.match \/ ~b.match
                     [] call.split.behavior = "MergedWithNext"     -> ~a.match \/ b.match
           IN  {splits[i][1] : i \in DOMAIN splits} =
                   {1} \cup {segs[i + 1].start : i \in {k \in 1..(Len(segs) - 1) :
                                                           cut(segs[k], segs[k + 1])}}

\* Whatever the behavior, the engine and the chunks, splits tile the text (Tiled) and
\* cut it where the behavior says (CutsOK).
CutsWhereSaid == Tiled /\ CutsOK
=============================================================================
