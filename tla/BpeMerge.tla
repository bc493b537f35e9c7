------------------------------ MODULE BpeMerge ------------------------------
(***************************************************************************)
(* Bpe's merge procedures (src/models/bpe.rs) on one pretoken at a time: a *)
(* linked list of symbols with a heap of pairs, some of them stale, or, for *)
(* a short pretoken, with a rank at each position.  The caches around them *)
(* are TokenCache.                                                          *)
(***************************************************************************)
EXTENDS Integers, Sequences

CONSTANTS
    Calls,          \* the pretokens to tokenize: records of a model, a table and tokens
    SmallMergeMax,  \* SMALL_MERGE_MAX
    Invalid         \* INVALID_TOKEN

\* table: a rank and an id for each pair; tokens: the ids of the characters,
\* none if one of them has no id; whole: the id the pretoken is found by
\* as a whole, if it is, or Invalid; raw: whether the fused path runs.
IsCall(cl) ==
    /\ cl.tokens \in Seq(Nat)
    /\ DOMAIN cl.table \subseteq Nat \X Nat
    /\ \A pair \in DOMAIN cl.table : cl.table[pair] \in [rank : Nat, id : Nat]
    /\ cl.whole \in Nat \cup {Invalid}
    /\ cl.raw \in BOOLEAN

ASSUME CallsAssumption ==
    /\ Invalid \notin Nat
    /\ SmallMergeMax \in Nat
    /\ \A cl \in Calls : IsCall(cl)

VARIABLES
    pc,     \* "idle", "heap", "scan" or "done"
    call,   \* the pretoken at work, or the one answered last
    sym,    \* MergeSymbols: token, previous and next position, 0 for none
    heap,   \* MergeEntries; equal ones are popped together
    ranks,  \* the rank and the token of the pair that begins at a position
    out     \* the answer

vars == <<pc, call, sym, heap, ranks, out>>

Positions == DOMAIN sym
NoPair == [rank |-> -1, id |-> Invalid]

Adjacent(l, r) == <<l, r>> \in DOMAIN call.table
Adj(l, r) == call.table[<<l, r>>]

PairAt(l, r) == IF Adjacent(l, r) THEN Adj(l, r) ELSE NoPair

Entry(i, l, r) == [rank |-> Adj(l, r).rank, pos |-> i, left |-> l, right |-> r]
EntryIf(i, l, r) == IF Adjacent(l, r) THEN {Entry(i, l, r)} ELSE {}

\* The positions still in a list: the next of the one before them is they.
LiveIn(s) == {i \in DOMAIN s : i = 1 \/ s[s[i].prev].next = i}
Live == LiveIn(sym)

-----------------------------------------------------------------------------
NoCall == [table |-> [i \in {} |-> i], tokens |-> <<>>, whole |-> Invalid, raw |-> FALSE]

Init ==
    /\ pc = "idle" /\ call = NoCall
    /\ sym = <<>> /\ heap = {} /\ ranks = <<>> /\ out = <<>>

Symbols(tokens) ==
    [i \in 1..Len(tokens) |->
        [c |-> tokens[i], prev |-> i - 1, next |-> IF i = Len(tokens) THEN 0 ELSE i + 1]]

\* A character, or a byte of it, is not in the vocabulary.
BeginFails == \E cl \in Calls :
    /\ pc = "idle" /\ cl.whole = Invalid /\ cl.tokens = <<>>
    /\ call' = cl
    /\ out' = <<Invalid>>
    /\ pc' = "done"
    /\ UNCHANGED <<sym, heap, ranks>>

\* Found as a whole, or a single character: no merges.
BeginWhole == \E cl \in Calls :
    /\ pc = "idle"
    /\ cl.whole # Invalid \/ Len(cl.tokens) = 1
    /\ call' = cl
    /\ out' = IF cl.whole # Invalid THEN <<cl.whole>> ELSE cl.tokens
    /\ pc' = "done"
    /\ UNCHANGED <<sym, heap, ranks>>

Merging(cl) == cl.whole = Invalid /\ Len(cl.tokens) > 1

Small(cl) == cl.raw /\ Len(cl.tokens) <= SmallMergeMax

TokenPairs(cl) == {i \in 1..(Len(cl.tokens) - 1) : <<cl.tokens[i], cl.tokens[i + 1]>> \in DOMAIN cl.table}

BeginHeap == \E cl \in Calls :
    /\ pc = "idle" /\ Merging(cl) /\ ~ Small(cl)
    /\ call' = cl
    /\ sym' = Symbols(cl.tokens)
    /\ heap' = {[rank |-> cl.table[<<cl.tokens[i], cl.tokens[i + 1]>>].rank, pos |-> i,
                 left |-> cl.tokens[i], right |-> cl.tokens[i + 1]] : i \in TokenPairs(cl)}
    /\ pc' = "heap"
    /\ UNCHANGED <<ranks, out>>

BeginScan == \E cl \in Calls :
    /\ pc = "idle" /\ Merging(cl) /\ Small(cl)
    /\ call' = cl
    /\ sym' = Symbols(cl.tokens)
    /\ ranks' = [i \in 1..Len(cl.tokens) |->
                    IF i \in TokenPairs(cl) THEN cl.table[<<cl.tokens[i], cl.tokens[i + 1]>>]
                    ELSE NoPair]
    /\ pc' = "scan"
    /\ UNCHANGED <<heap, out>>

\* Mutant: the next of the next but one.
AbsorbedTwo(i, id, dead) ==
    LET j == sym[i].next
        k == IF sym[j].next = 0 THEN 0 ELSE sym[sym[j].next].next
    IN  [p \in Positions |->
            IF p = i THEN [c |-> id, prev |-> sym[i].prev, next |-> k]
            ELSE IF p = j THEN [c |-> dead, prev |-> sym[j].prev, next |-> k]
            ELSE IF p = k THEN [c |-> sym[k].c, prev |-> i, next |-> sym[k].next]
            ELSE sym[p]]

\* The list when the symbol at i has absorbed the one after it, which keeps dead.
Absorbed(i, id, dead) ==
    LET j == sym[i].next
        k == sym[j].next
    IN  [p \in Positions |->
            IF p = i THEN [c |-> id, prev |-> sym[i].prev, next |-> k]
            ELSE IF p = j THEN [c |-> dead, prev |-> sym[j].prev, next |-> k]
            ELSE IF p = k THEN [c |-> sym[k].c, prev |-> i, next |-> sym[k].next]
            ELSE sym[p]]

-----------------------------------------------------------------------------
(* The heap. *)

Top(e) ==
    /\ e \in heap
    /\ \A f \in heap : e.rank < f.rank \/ (e.rank = f.rank /\ e.pos <= f.pos)

\* What the entry says of its position is still so.
Fits(e) ==
    /\ sym[e.pos].c = e.left
    /\ sym[e.pos].next # 0
    /\ sym[sym[e.pos].next].c = e.right
    /\ Adjacent(e.left, e.right)

PopStale == \E e \in heap :
    /\ pc = "heap" /\ Top(e) /\ ~ Fits(e)
    /\ heap' = heap \ {e}
    /\ UNCHANGED <<pc, call, sym, ranks, out>>

\* Mutant: only the pair to the right of the new token is looked up.
DiscoveredRight(s, i) ==
    IF s[i].next = 0 THEN {} ELSE EntryIf(i, s[i].c, s[s[i].next].c)

\* The pairs the new token at i makes with its neighbours in list s.
Discovered(s, i) ==
    (IF s[i].prev = 0 THEN {} ELSE EntryIf(s[i].prev, s[s[i].prev].c, s[i].c))
    \cup (IF s[i].next = 0 THEN {} ELSE EntryIf(i, s[i].c, s[s[i].next].c))

PopMerge == \E e \in heap :
    /\ pc = "heap" /\ Top(e) /\ Fits(e)
    /\ sym' = Absorbed(e.pos, Adj(e.left, e.right).id, Invalid)
    /\ heap' = (heap \ {e}) \cup Discovered(sym', e.pos)
    /\ UNCHANGED <<pc, call, ranks, out>>

-----------------------------------------------------------------------------
(* The scan. *)

Ranked(i) == ranks[i] # NoPair

\* The first position of the lowest rank.
BestRank(i) ==
    /\ Ranked(i)
    /\ \A j \in Positions :
           Ranked(j) => ranks[i].rank < ranks[j].rank \/ (ranks[i].rank = ranks[j].rank /\ i <= j)

ScanMerge == \E i \in Positions :
    /\ pc = "scan" /\ BestRank(i)
    /\ LET j == sym[i].next
           s == Absorbed(i, ranks[i].id, sym[j].c)
           left == s[i].prev
           right == s[i].next
       IN  /\ sym' = s
           /\ ranks' = [p \in Positions |->
                  IF p = i /\ right # 0 THEN PairAt(s[i].c, s[right].c)
                  ELSE IF p = left THEN PairAt(s[left].c, s[i].c)
                  ELSE IF p \in {i, j} THEN NoPair
                  ELSE ranks[p]]
    /\ UNCHANGED <<pc, call, heap, out>>

\* The tokens of the list from its first on.
Walk ==
    LET From[i \in Positions \cup {0}] ==
            IF i = 0 THEN <<>> ELSE <<sym[i].c>> \o From[sym[i].next]
    IN  From[1]

Emit ==
    /\ \/ pc = "heap" /\ heap = {}
       \/ pc = "scan" /\ \A i \in Positions : ~ Ranked(i)
    /\ out' = Walk
    /\ pc' = "done"
    /\ sym' = <<>> /\ ranks' = <<>>
    /\ UNCHANGED <<call, heap>>

Return ==
    /\ pc = "done"
    /\ pc' = "idle" /\ call' = NoCall /\ out' = <<>>
    /\ UNCHANGED <<sym, heap, ranks>>

Next ==
    \/ BeginFails \/ BeginWhole \/ BeginHeap \/ BeginScan
    \/ PopStale \/ PopMerge \/ ScanMerge
    \/ Emit \/ Return

Spec == Init /\ [][Next]_vars

-----------------------------------------------------------------------------
Active == pc \in {"heap", "scan"}

(* The symbols of a pretoken point backwards and forwards within it, and   *)
(* entries and ranks are of positions of it.                               *)
TypeOK ==
    /\ pc \in {"idle", "heap", "scan", "done"}
    /\ pc = "idle" => call = NoCall
    /\ Active =>
           /\ IsCall(call)
           /\ Positions = 1..Len(call.tokens) /\ Len(call.tokens) > 1
           /\ \A i \in Positions :
                  /\ sym[i].prev \in 0..(i - 1) /\ (sym[i].prev = 0 <=> i = 1)
                  /\ sym[i].next \in {0} \cup ((i + 1)..Len(call.tokens))
    /\ pc = "heap" => \A e \in heap :
           /\ e.pos \in Positions /\ e.left \in Nat /\ e.right \in Nat
           /\ Adjacent(e.left, e.right) /\ e = Entry(e.pos, e.left, e.right)
    /\ pc = "scan" => DOMAIN ranks = Positions

\* The live symbols are a chain: linked both ways, none of them skipped.
Linked(s) ==
    /\ \A i \in LiveIn(s) : s[i].next # 0 => s[i].next \in DOMAIN s /\ s[s[i].next].prev = i
    /\ \A i \in LiveIn(s) : i # 1 => s[i].prev \in LiveIn(s)
    /\ \A i, k \in LiveIn(s) : i < k => s[i].next # 0 /\ s[i].next <= k

\* Two live neighbours that can be merged.
Mergeable(i) == i \in Live /\ sym[i].next # 0 /\ Adjacent(sym[i].c, sym[sym[i].next].c)

\* The heap has an entry for each such pair, among stale ones, and only live
\* symbols have tokens, so that an entry of a dead one never fits.
HeapKnows ==
    /\ \A i \in Positions : sym[i].c \in Nat \cup {Invalid} /\ (i \in Live <=> sym[i].c \in Nat)
    /\ \A i \in Positions :
           Mergeable(i) => Entry(i, sym[i].c, sym[sym[i].next].c) \in heap

\* The ranks are those of such pairs and of no others.
RanksKnow ==
    /\ \A i \in Positions : sym[i].c \in Nat
    /\ \A i \in Positions :
           ranks[i] = IF Mergeable(i) THEN Adj(sym[i].c, sym[sym[i].next].c) ELSE NoPair

\* The inductive invariant.
IInv ==
    /\ TypeOK
    /\ Active => Linked(sym)
    /\ pc = "heap" => HeapKnows
    /\ pc = "scan" => RanksKnow

\* The merge procedures merge the lowest pair, the leftmost of equals, at each
\* step, and stop only when no neighbours can be merged, although the heap
\* keeps entries of pairs that are gone and only neighbours are refreshed.
Promise == INSTANCE RankMerge WITH
    table <- IF Active THEN call.table ELSE [i \in {} |-> i],
    word <- IF Active THEN [i \in Live |-> sym[i].c] ELSE [i \in {} |-> i]

LowestFirst == Promise!Spec
=============================================================================
