------------------------- MODULE BpeTokenizeProofs -------------------------
(***************************************************************************)
(* That the merge procedures answer tokens which spell the text, and that  *)
(* a pretoken found as a whole is answered as merging would, for every     *)
(* loaded model, every text and every run of the heap and the scan.        *)
(***************************************************************************)
EXTENDS BpeTokenize, Folding

-----------------------------------------------------------------------------
(* Lists. *)

\* What TypeOK says of a list of n symbols.
Chain(s, n) ==
    /\ DOMAIN s = 1..n
    /\ \A i \in 1..n :
           /\ s[i].prev \in 0..(i - 1) /\ (s[i].prev = 0 <=> i = 1)
           /\ s[i].next \in {0} \cup ((i + 1)..n)

\* The next of a live symbol is live, and comes right after it.
LEMMA NextIsLive ==
  ASSUME NEW n \in Nat, NEW s, Chain(s, n), Linked(s), NEW i \in LiveIn(s), s[i].next # 0
  PROVE  /\ s[i].next \in LiveIn(s) /\ s[s[i].next].prev = i
         /\ i \in 1..n /\ s[i].next \in 1..n /\ i < s[i].next
         /\ \A k \in LiveIn(s) : k <= i \/ s[i].next <= k
<1>1. i \in 1..n /\ s[i].next \in (i + 1)..n
  BY DEF Chain, LiveIn
<1>2. s[s[i].next].prev = i
  BY DEF Linked
<1>3. s[i].next \in LiveIn(s)
  <2>1. s[i].next \in 1..n
    BY <1>1
  <2>2. s[s[s[i].next].prev].next = s[i].next
    BY <1>2
  <2> QED BY <2>1, <2>2 DEF LiveIn, Chain
<1>4. ASSUME NEW k \in LiveIn(s), ~ (k <= i)
      PROVE  s[i].next <= k
  <2>1. k \in 1..n /\ i < k
    BY <1>1, <1>4 DEF LiveIn, Chain
  <2> QED BY <2>1 DEF Linked
<1> QED BY <1>1, <1>2, <1>3, <1>4

\* The previous of a live symbol but the first is live, and links to it.
LEMMA PrevIsLive ==
  ASSUME NEW n \in Nat, NEW s, Chain(s, n), Linked(s), NEW i \in LiveIn(s), s[i].prev # 0
  PROVE  s[i].prev \in LiveIn(s) /\ s[s[i].prev].next = i /\ s[i].prev < i
<1>1. i \in 1..n /\ i # 1 /\ s[i].prev \in 1..(i - 1)
  BY DEF Chain, LiveIn
<1> QED BY <1>1 DEF Linked, LiveIn

\* In the words of RankMerge, a live symbol is followed by its next.
LEMMA FollowsIsNext ==
  ASSUME NEW n \in Nat, NEW s, Chain(s, n), Linked(s),
         NEW w, DOMAIN w = LiveIn(s), NEW i \in LiveIn(s), NEW j \in LiveIn(s)
  PROVE  Promise!Follows(w, i, j) <=> (s[i].next # 0 /\ j = s[i].next)
<1>1. i \in 1..n /\ j \in 1..n
  BY DEF LiveIn, Chain
<1>2. ASSUME s[i].next # 0, j = s[i].next
      PROVE  Promise!Follows(w, i, j)
  BY <1>2, NextIsLive DEF Promise!Follows
<1>3. ASSUME Promise!Follows(w, i, j)
      PROVE  s[i].next # 0 /\ j = s[i].next
  <2>1. i < j /\ \A k \in LiveIn(s) : k <= i \/ j <= k
    BY <1>3 DEF Promise!Follows
  <2>2. s[i].next # 0 /\ s[i].next <= j
    BY <2>1 DEF Linked
  <2>3. s[i].next \in LiveIn(s) /\ i < s[i].next
    BY <2>2, NextIsLive
  <2>4. s[i].next \in 1..n
    BY <2>3 DEF LiveIn, Chain
  <2> QED BY <1>1, <2>1, <2>2, <2>3, <2>4
<1> QED BY <1>2, <1>3

\* A symbol that absorbs the next leaves a chain of the others.
LEMMA AbsorbedChain ==
  ASSUME NEW n \in Nat, Chain(sym, n), Linked(sym),
         NEW i \in Live, sym[i].next # 0, NEW id, NEW dead,
         NEW t, t = Absorbed(i, id, dead)
  PROVE  /\ Chain(t, n) /\ Linked(t)
         /\ LiveIn(t) = Live \ {sym[i].next}
         /\ t[i].c = id /\ t[sym[i].next].c = dead
         /\ \A p \in 1..n : p \notin {i, sym[i].next} => t[p].c = sym[p].c
         /\ t[i].prev = sym[i].prev /\ t[i].next = sym[sym[i].next].next
         /\ \A p \in 1..n : p # i => t[p].next = sym[p].next
<1> DEFINE s == sym
           j == sym[i].next
           k == sym[j].next
           L == LiveIn(s)
<1>1. i \in L /\ i \in 1..n /\ j \in L /\ j \in 1..n /\ i < j /\ s[j].prev = i
  BY NextIsLive DEF Live
<1>2. k = 0 \/ (k \in L /\ k \in 1..n /\ j < k /\ s[k].prev = j)
  BY <1>1, NextIsLive
<1>3. \A p \in 1..n : t[p] =
        IF p = i THEN [c |-> id, prev |-> s[i].prev, next |-> k]
        ELSE IF p = j THEN [c |-> dead, prev |-> s[j].prev, next |-> k]
        ELSE IF p = k THEN [c |-> s[k].c, prev |-> i, next |-> s[k].next]
        ELSE s[p]
  BY DEF Absorbed, Positions, Chain
<1>4. DOMAIN t = 1..n
  BY DEF Absorbed, Positions, Chain
<1>5. /\ t[i].prev = s[i].prev /\ t[i].next = k /\ t[i].c = id /\ t[j].c = dead
      /\ \A p \in 1..n : p # i => t[p].next = s[p].next
      /\ \A p \in 1..n : p # k => t[p].prev = s[p].prev
      /\ k # 0 => t[k].prev = i
      /\ \A p \in 1..n : p \notin {i, j} => t[p].c = s[p].c
  <2>1. t[i].prev = s[i].prev /\ t[i].next = k /\ t[i].c = id
    BY <1>1, <1>3
  <2>2. t[j].c = dead /\ t[j].prev = s[j].prev /\ t[j].next = k
    BY <1>1, <1>3
  <2>3. k # 0 => t[k].prev = i /\ t[k].next = s[k].next /\ t[k].c = s[k].c
    <3> SUFFICES ASSUME k # 0
                 PROVE  t[k].prev = i /\ t[k].next = s[k].next /\ t[k].c = s[k].c
      OBVIOUS
    <3>1. k \in 1..n /\ k # i /\ k # j
      BY <1>1, <1>2
    <3> HIDE DEF s, j, k
    <3>2. t[k] = [c |-> s[k].c, prev |-> i, next |-> s[k].next]
      BY <3>1, <1>3
    <3> QED BY <3>2
  <2>4. \A p \in 1..n : p \notin {i, j, k} => t[p] = s[p]
    BY <1>3
  <2>5. \A p \in 1..n : p # i => t[p].next = s[p].next
    BY <2>2, <2>3, <2>4, <1>1, <1>2
  <2>6. \A p \in 1..n : p # k => t[p].prev = s[p].prev
    BY <2>1, <2>2, <2>4
  <2>7. \A p \in 1..n : p \notin {i, j} => t[p].c = s[p].c
    BY <2>3, <2>4
  <2> QED BY <2>1, <2>2, <2>3, <2>5, <2>6, <2>7
<1>6. Chain(t, n)
  <2>1. ASSUME NEW p \in 1..n
        PROVE  /\ t[p].prev \in 0..(p - 1) /\ (t[p].prev = 0 <=> p = 1)
               /\ t[p].next \in {0} \cup ((p + 1)..n)
    <3>1. s[p].prev \in 0..(p - 1) /\ (s[p].prev = 0 <=> p = 1)
          /\ s[p].next \in {0} \cup ((p + 1)..n)
      BY DEF Chain
    <3>2. t[p].prev \in 0..(p - 1) /\ (t[p].prev = 0 <=> p = 1)
      BY <3>1, <1>1, <1>2, <1>5
    <3>3. t[p].next \in {0} \cup ((p + 1)..n)
      BY <3>1, <1>1, <1>2, <1>5
    <3> QED BY <3>2, <3>3
  <2> QED BY <1>4, <2>1 DEF Chain
<1>7. \A p \in 1..n : p # 1 => (p \in L <=> s[s[p].prev].next = p)
  BY DEF LiveIn, Chain
<1>8. \A p \in 1..n : p # 1 => (p \in LiveIn(t) <=> t[t[p].prev].next = p)
  BY <1>4 DEF LiveIn
<1>9. \A p \in 1..n : p \in LiveIn(t) <=> (p \in L /\ p # j)
  <2> SUFFICES ASSUME NEW p \in 1..n
               PROVE  p \in LiveIn(t) <=> (p \in L /\ p # j)
    OBVIOUS
  <2>1. CASE p = 1
    BY <2>1, <1>1, <1>4 DEF LiveIn, Chain
  <2>2. CASE p = j
    BY <2>2, <1>1, <1>2, <1>5, <1>8
  <2>3. CASE p = k
    BY <2>3, <1>1, <1>2, <1>5, <1>8
  <2>4. CASE p # 1 /\ p # j /\ p # k
    <3> DEFINE q == s[p].prev
    <3>1. q \in 1..n /\ t[p].prev = q
      <4>1. s[p].prev \in 0..(p - 1) /\ s[p].prev # 0
        BY <2>4 DEF Chain
      <4> QED BY <4>1, <2>4, <1>5
    <3>2. CASE q = i
      BY <2>4, <3>1, <3>2, <1>5, <1>7, <1>8
    <3>3. CASE q # i
      BY <2>4, <3>1, <3>3, <1>5, <1>7, <1>8
    <3> QED BY <3>2, <3>3
  <2> QED BY <2>1, <2>2, <2>3, <2>4
<1>10. LiveIn(t) = L \ {j}
  BY <1>9, <1>4 DEF LiveIn, Chain
<1>11. Linked(t)
  <2>1. ASSUME NEW p \in LiveIn(t), t[p].next # 0
        PROVE  t[p].next \in DOMAIN t /\ t[t[p].next].prev = p
    <3>1. p \in L /\ p # j /\ p \in 1..n
      BY <1>10 DEF LiveIn, Chain
    <3>2. CASE p = i
      BY <3>2, <2>1, <1>2, <1>4, <1>5
    <3>3. CASE p # i
      <4> DEFINE q == s[p].next
      <4>1. t[p].next = q /\ q # 0
        BY <2>1, <3>1, <3>3, <1>5
      <4>2. q \in L /\ q \in 1..n /\ s[q].prev = p
        BY <3>1, <4>1, NextIsLive
      <4>3. q # k
        BY <4>1, <4>2, <3>1, <1>2
      <4> QED BY <4>1, <4>2, <4>3, <1>4, <1>5
    <3> QED BY <3>2, <3>3
  <2>2. ASSUME NEW p \in LiveIn(t), p # 1
        PROVE  t[p].prev \in LiveIn(t)
    <3>1. p \in L /\ p # j /\ p \in 1..n
      BY <1>10 DEF LiveIn, Chain
    <3>2. CASE p = k
      BY <3>1, <3>2, <1>1, <1>2, <1>5, <1>10
    <3>3. CASE p # k
      <4>1. s[p].prev # 0 /\ t[p].prev = s[p].prev
        BY <2>2, <3>1, <3>3, <1>5 DEF Chain
      <4>2. s[p].prev \in L /\ s[s[p].prev].next = p
        BY <3>1, <4>1, PrevIsLive
      <4> QED BY <3>3, <4>1, <4>2, <1>10
    <3> QED BY <3>2, <3>3
  <2>3. ASSUME NEW p \in LiveIn(t), NEW q \in LiveIn(t), p < q
        PROVE  t[p].next # 0 /\ t[p].next <= q
    <3>1. p \in L /\ q \in L /\ p # j /\ q # j /\ p \in 1..n /\ q \in 1..n
      BY <1>10 DEF LiveIn, Chain
    <3>2. CASE p # i
      BY <2>3, <3>1, <3>2, <1>5 DEF Linked
    <3>3. CASE p = i
      <4>1. j <= q
        BY <2>3, <3>1, <3>3 DEF Linked
      <4>2. j < q
        BY <4>1, <3>1, <1>1
      <4> QED BY <4>2, <3>1, <3>3, <1>1, <1>5 DEF Linked
    <3> QED BY <3>2, <3>3
  <2> QED BY <2>1, <2>2, <2>3 DEF Linked
<1> QED BY <1>5, <1>6, <1>10, <1>11 DEF Live

\* Two neighbours after the merge are the new token and one beside it, or two
\* that were neighbours before.
LEMMA PairsAfter ==
  ASSUME NEW n \in Nat, Chain(sym, n), Linked(sym),
         NEW i \in Live, sym[i].next # 0, NEW id, NEW dead,
         NEW t, t = Absorbed(i, id, dead),
         NEW p \in LiveIn(t), t[p].next # 0
  PROVE  \/ p = i
         \/ p = t[i].prev /\ t[p].next = i
         \/ /\ p # i /\ p \in Live /\ sym[p].next = t[p].next
            /\ t[p].c = sym[p].c /\ t[t[p].next].c = sym[t[p].next].c
<1> DEFINE j == sym[i].next
           q == sym[p].next
<1>1. /\ LiveIn(t) = Live \ {j}
      /\ \A x \in 1..n : x \notin {i, j} => t[x].c = sym[x].c
      /\ t[i].prev = sym[i].prev
      /\ \A x \in 1..n : x # i => t[x].next = sym[x].next
  BY AbsorbedChain
<1>2. i \in 1..n /\ j \in Live /\ sym[j].prev = i
  BY NextIsLive DEF Live
<1>3. p \in Live /\ p # j /\ p \in 1..n
  BY <1>1 DEF Live, LiveIn, Chain
<1>4. CASE p # i
  <2>1. t[p].next = q /\ q # 0
    BY <1>1, <1>3, <1>4
  <2>2. q \in Live /\ q \in 1..n /\ sym[q].prev = p
    BY <1>3, <2>1, NextIsLive DEF Live
  <2>3. CASE q = i
    BY <2>1, <2>2, <2>3, <1>1
  <2>4. CASE q # i
    <3>1. q # j
      BY <2>2, <1>2, <1>4
    <3> QED BY <3>1, <2>1, <2>2, <2>4, <1>1, <1>3, <1>4
  <2> QED BY <2>3, <2>4
<1> QED BY <1>4

\* A new list has every symbol, each linked to the one beside it.
LEMMA SymbolsChain ==
  ASSUME NEW tokens \in Seq(Nat), Len(tokens) > 1
  PROVE  /\ Chain(Symbols(tokens), Len(tokens)) /\ Linked(Symbols(tokens))
         /\ LiveIn(Symbols(tokens)) = 1..Len(tokens)
         /\ \A i \in 1..Len(tokens) :
                /\ Symbols(tokens)[i].c = tokens[i]
                /\ Symbols(tokens)[i].next = IF i = Len(tokens) THEN 0 ELSE i + 1
<1> DEFINE s == Symbols(tokens)
           n == Len(tokens)
<1>1. n \in Nat /\ n > 1
  OBVIOUS
<1>2. /\ DOMAIN s = 1..n
      /\ \A i \in 1..n : /\ s[i].c = tokens[i] /\ s[i].prev = i - 1
                         /\ s[i].next = IF i = n THEN 0 ELSE i + 1
  BY DEF Symbols
<1> HIDE DEF s, n
<1>3. Chain(s, n)
  <2>1. ASSUME NEW i \in 1..n
        PROVE  /\ s[i].prev \in 0..(i - 1) /\ (s[i].prev = 0 <=> i = 1)
               /\ s[i].next \in {0} \cup ((i + 1)..n)
    <3>1. s[i].prev = i - 1 /\ i \in 1..n
      BY <1>2
    <3>2. s[i].next = IF i = n THEN 0 ELSE i + 1
      BY <1>2
    <3>3. s[i].prev \in 0..(i - 1) /\ (s[i].prev = 0 <=> i = 1)
      BY <1>1, <3>1
    <3>4. s[i].next \in {0} \cup ((i + 1)..n)
      BY <1>1, <3>1, <3>2
    <3> QED BY <3>3, <3>4
  <2> QED BY <1>2, <2>1 DEF Chain
<1>4. LiveIn(s) = 1..n
  <2>1. ASSUME NEW i \in 1..n, i # 1
        PROVE  s[s[i].prev].next = i
    <3>1. s[i].prev = i - 1 /\ i - 1 \in 1..n /\ i - 1 # n
      BY <1>1, <1>2, <2>1
    <3> QED BY <3>1, <1>2
  <2> QED BY <2>1, <1>2 DEF LiveIn
<1>5. Linked(s)
  <2>1. ASSUME NEW i \in 1..n, s[i].next # 0
        PROVE  s[i].next \in DOMAIN s /\ s[s[i].next].prev = i
    <3>1. s[i].next = i + 1 /\ i + 1 \in 1..n
      BY <1>1, <1>2, <2>1
    <3> QED BY <3>1, <1>2
  <2>2. ASSUME NEW i \in 1..n, i # 1
        PROVE  s[i].prev \in 1..n
    BY <1>1, <1>2, <2>2
  <2>3. ASSUME NEW i \in 1..n, NEW k \in 1..n, i < k
        PROVE  s[i].next # 0 /\ s[i].next <= k
    BY <1>1, <1>2, <2>3
  <2> QED BY <1>4, <2>1, <2>2, <2>3 DEF Linked
<1> QED BY <1>2, <1>3, <1>4, <1>5 DEF s, n

-----------------------------------------------------------------------------
(* The invariant. *)

\* TypeOK in terms of chains.
LEMMA TypesOfActive ==
  ASSUME TypeOK, Active
  PROVE  /\ IsCall(call) /\ Len(call.tokens) \in Nat /\ Len(call.tokens) > 1
         /\ Chain(sym, Len(call.tokens)) /\ Positions = 1..Len(call.tokens)
<1>1. IsCall(call) /\ Positions = 1..Len(call.tokens) /\ Len(call.tokens) > 1
  BY DEF TypeOK
<1>2. Len(call.tokens) \in Nat
  BY <1>1 DEF IsCall
<1> QED BY <1>1, <1>2 DEF TypeOK, Chain, Positions

\* A pair that can be merged has a rank and makes a token.
LEMMA PairTypes ==
  ASSUME IsCall(call), NEW l, NEW r, Adjacent(l, r)
  PROVE  /\ l \in Nat /\ r \in Nat
         /\ Adj(l, r).rank \in Nat /\ Adj(l, r).id \in Nat /\ Adj(l, r) # NoPair
<1>1. <<l, r>> \in DOMAIN call.table /\ <<l, r>> \in Nat \X Nat
  BY DEF IsCall, Adjacent
<1>2. Adj(l, r) \in [rank : Nat, id : Nat]
  BY <1>1 DEF IsCall, Adj
<1> QED BY <1>1, <1>2 DEF NoPair

\* The entry of the heap that is popped fits: it is of a live symbol.
LEMMA PoppedIsLive ==
  ASSUME IInv, pc = "heap", NEW e \in heap, Fits(e)
  PROVE  /\ e.pos \in Live /\ sym[e.pos].next # 0 /\ Mergeable(e.pos)
         /\ e = Entry(e.pos, sym[e.pos].c, sym[sym[e.pos].next].c)
         /\ e.left = sym[e.pos].c /\ e.right = sym[sym[e.pos].next].c
<1>1. /\ e.pos \in Positions /\ e.left \in Nat
      /\ e = Entry(e.pos, e.left, e.right)
  BY DEF IInv, TypeOK
<1>2. /\ sym[e.pos].c = e.left /\ sym[e.pos].next # 0
      /\ sym[sym[e.pos].next].c = e.right /\ Adjacent(e.left, e.right)
  BY DEF Fits
<1>3. e.pos \in Live
  BY <1>1, <1>2 DEF IInv, HeapKnows
<1> QED BY <1>1, <1>2, <1>3 DEF Mergeable

LEMMA BeginHeapKeeps ==
  ASSUME IInv, BeginHeap
  PROVE  IInv'
<1>1. PICK cl \in Calls :
        /\ Merging(cl) /\ call' = cl /\ sym' = Symbols(cl.tokens) /\ pc' = "heap"
        /\ heap' = {[rank |-> cl.table[<<cl.tokens[i], cl.tokens[i + 1]>>].rank, pos |-> i,
                     left |-> cl.tokens[i], right |-> cl.tokens[i + 1]] : i \in TokenPairs(cl)}
  BY DEF BeginHeap
<1> DEFINE n == Len(cl.tokens)
           s == Symbols(cl.tokens)
<1>2. IsCall(cl) /\ cl.tokens \in Seq(Nat) /\ n \in Nat /\ n > 1
  BY <1>1, CallsAssumption DEF IsCall, Merging
<1>3. /\ Chain(s, n) /\ Linked(s) /\ LiveIn(s) = 1..n
      /\ \A i \in 1..n : /\ s[i].c = cl.tokens[i]
                         /\ s[i].next = IF i = n THEN 0 ELSE i + 1
  BY <1>2, SymbolsChain
<1>4. \A i \in 1..n : cl.tokens[i] \in Nat
  BY <1>2
<1>5. \A i \in TokenPairs(cl) : i \in 1..n /\ i + 1 \in 1..n
                                /\ <<cl.tokens[i], cl.tokens[i + 1]>> \in DOMAIN cl.table
  BY <1>2 DEF TokenPairs
<1> HIDE DEF s
<1>6. TypeOK'
  <2>1. \A e \in heap' :
           /\ e.pos \in 1..n /\ e.left \in Nat /\ e.right \in Nat
           /\ <<e.left, e.right>> \in DOMAIN cl.table
           /\ e = [rank |-> cl.table[<<e.left, e.right>>].rank, pos |-> e.pos,
                   left |-> e.left, right |-> e.right]
    <3>1. SUFFICES ASSUME NEW e \in heap'
                   PROVE  /\ e.pos \in 1..n /\ e.left \in Nat /\ e.right \in Nat
                          /\ <<e.left, e.right>> \in DOMAIN cl.table
                          /\ e = [rank |-> cl.table[<<e.left, e.right>>].rank,
                                  pos |-> e.pos, left |-> e.left, right |-> e.right]
      OBVIOUS
    <3>2. PICK i \in TokenPairs(cl) :
            e = [rank |-> cl.table[<<cl.tokens[i], cl.tokens[i + 1]>>].rank, pos |-> i,
                 left |-> cl.tokens[i], right |-> cl.tokens[i + 1]]
      BY <1>1
    <3>3. e.pos = i /\ e.left = cl.tokens[i] /\ e.right = cl.tokens[i + 1]
      BY <3>2
    <3> QED BY <3>2, <3>3, <1>4, <1>5
  <2>2. sym' = s /\ pc' = "heap" /\ call' = cl
    BY <1>1 DEF s
  <2> QED BY <1>2, <1>3, <2>1, <2>2
          DEF TypeOK, Active, Chain, Positions, Adjacent, Entry, Adj
<1>7. Linked(sym)'
  BY <1>1, <1>3 DEF s, Linked, LiveIn
<1>8. HeapKnows'
  <2>1. sym' = s /\ call' = cl
    BY <1>1 DEF s
  <2>2. DOMAIN s = 1..n
    BY <1>3 DEF Chain
  <2>3. ASSUME NEW i \in 1..n, Mergeable(i)'
        PROVE  Entry(i, sym[i].c, sym[sym[i].next].c)' \in heap'
    <3>1. i # n /\ s[i].next = i + 1 /\ i + 1 \in 1..n /\ i \in 1..(n - 1)
      BY <2>1, <2>3, <1>2, <1>3 DEF Mergeable
    <3>2. s[i].c = cl.tokens[i] /\ s[s[i].next].c = cl.tokens[i + 1]
      BY <3>1, <1>3
    <3>3. i \in TokenPairs(cl)
      BY <3>1, <3>2, <2>1, <2>3 DEF Mergeable, Adjacent, TokenPairs
    <3> QED BY <3>2, <3>3, <2>1, <1>1 DEF Entry, Adj
  <2>4. \A i \in 1..n : s[i].c \in Nat /\ i \in LiveIn(s)
    BY <1>3, <1>4
  <2> QED BY <2>1, <2>2, <2>3, <2>4 DEF HeapKnows, Positions, Live
<1> QED BY <1>1, <1>6, <1>7, <1>8 DEF IInv

LEMMA BeginScanKeeps ==
  ASSUME IInv, BeginScan
  PROVE  IInv'
<1>1. PICK cl \in Calls :
        /\ Merging(cl) /\ call' = cl /\ sym' = Symbols(cl.tokens) /\ pc' = "scan"
        /\ ranks' = [i \in 1..Len(cl.tokens) |->
                        IF i \in TokenPairs(cl)
                        THEN cl.table[<<cl.tokens[i], cl.tokens[i + 1]>>] ELSE NoPair]
  BY DEF BeginScan
<1> DEFINE n == Len(cl.tokens)
           s == Symbols(cl.tokens)
<1>2. IsCall(cl) /\ cl.tokens \in Seq(Nat) /\ n \in Nat /\ n > 1
  BY <1>1, CallsAssumption DEF IsCall, Merging
<1>3. /\ Chain(s, n) /\ Linked(s) /\ LiveIn(s) = 1..n
      /\ \A i \in 1..n : /\ s[i].c = cl.tokens[i]
                         /\ s[i].next = IF i = n THEN 0 ELSE i + 1
  BY <1>2, SymbolsChain
<1>4. \A i \in 1..n : cl.tokens[i] \in Nat
  BY <1>2
<1> HIDE DEF s
<1>5. sym' = s /\ pc' = "scan" /\ call' = cl /\ DOMAIN s = 1..n /\ DOMAIN ranks' = 1..n
  BY <1>1, <1>3 DEF s, Chain
<1>6. TypeOK'
  BY <1>2, <1>3, <1>5 DEF TypeOK, Active, Chain, Positions
<1>7. Linked(sym)'
  BY <1>3, <1>5 DEF Linked, LiveIn
<1>8. RanksKnow'
  <2>1. ASSUME NEW i \in 1..n
        PROVE  ranks'[i] = IF Mergeable(i)' THEN Adj(sym[i].c, sym[sym[i].next].c)' ELSE NoPair
    <3>1. CASE i = n
      <4>1. s[i].next = 0 /\ i \notin TokenPairs(cl)
        BY <3>1, <1>2, <1>3 DEF TokenPairs
      <4> QED BY <4>1, <1>1, <1>5 DEF Mergeable
    <3>2. CASE i # n
      <4>1. s[i].next = i + 1 /\ i + 1 \in 1..n /\ i \in 1..(n - 1) /\ i + 1 # 0
        BY <3>2, <1>2, <1>3
      <4>2. s[i].c = cl.tokens[i] /\ s[s[i].next].c = cl.tokens[i + 1]
        BY <4>1, <1>3
      <4>3. i \in TokenPairs(cl) <=> <<cl.tokens[i], cl.tokens[i + 1]>> \in DOMAIN cl.table
        BY <4>1 DEF TokenPairs
      <4>4. Mergeable(i)' <=> i \in TokenPairs(cl)
        BY <4>1, <4>2, <4>3, <1>3, <1>5 DEF Mergeable, Adjacent, Live
      <4>5. Adj(sym[i].c, sym[sym[i].next].c)' = cl.table[<<cl.tokens[i], cl.tokens[i + 1]>>]
        BY <4>2, <1>5 DEF Adj
      <4> QED BY <4>4, <4>5, <1>1
    <3> QED BY <3>1, <3>2
  <2>2. \A i \in 1..n : s[i].c \in Nat
    BY <1>3, <1>4
  <2> QED BY <2>1, <2>2, <1>5 DEF RanksKnow, Positions
<1> QED BY <1>5, <1>6, <1>7, <1>8 DEF IInv

LEMMA PopStaleKeeps ==
  ASSUME IInv, PopStale
  PROVE  IInv'
<1>1. PICK e \in heap : pc = "heap" /\ ~ Fits(e) /\ heap' = heap \ {e}
  BY DEF PopStale
<1>2. UNCHANGED <<pc, call, sym, ranks, out>>
  BY DEF PopStale
<1>3. TypeOK'
  BY <1>1, <1>2 DEF IInv, TypeOK, Active, Positions, Adjacent, Entry, Adj
<1>4. Linked(sym)'
  BY <1>1, <1>2 DEF IInv, Active, Linked, LiveIn
<1>5. \A i \in Positions : Mergeable(i) =>
        Entry(i, sym[i].c, sym[sym[i].next].c) \in heap \ {e}
  <2> SUFFICES ASSUME NEW i \in Positions, Mergeable(i),
                      e = Entry(i, sym[i].c, sym[sym[i].next].c)
               PROVE  FALSE
    BY <1>1 DEF IInv, HeapKnows
  <2>1. e.pos = i /\ e.left = sym[i].c /\ e.right = sym[sym[i].next].c
    BY DEF Entry
  <2> QED BY <2>1, <1>1 DEF Mergeable, Fits
<1>6. HeapKnows'
  BY <1>1, <1>2, <1>5 DEF IInv, HeapKnows, Mergeable, Entry, Adj, Adjacent, Positions, Live
<1> QED BY <1>1, <1>2, <1>3, <1>4, <1>6 DEF IInv

LEMMA PopMergeKeeps ==
  ASSUME IInv, PopMerge
  PROVE  IInv'
<1>1. PICK e \in heap :
        /\ pc = "heap" /\ Fits(e)
        /\ sym' = Absorbed(e.pos, Adj(e.left, e.right).id, Invalid)
        /\ heap' = (heap \ {e}) \cup Discovered(sym', e.pos)
  BY DEF PopMerge
<1>2. pc' = "heap" /\ call' = call
  BY <1>1 DEF PopMerge
<1> DEFINE n  == Len(call.tokens)
           i  == e.pos
           j  == sym[i].next
           id == Adj(e.left, e.right).id
           t  == sym'
<1>3. /\ IsCall(call) /\ n \in Nat /\ n > 1 /\ Chain(sym, n) /\ Positions = 1..n
      /\ Linked(sym) /\ HeapKnows /\ TypeOK
  BY <1>1, TypesOfActive DEF IInv, Active
<1>4. /\ i \in Live /\ j # 0
      /\ e = Entry(i, sym[i].c, sym[j].c) /\ Adjacent(e.left, e.right)
  BY <1>1, PoppedIsLive DEF Fits
<1>5. id \in Nat
  BY <1>3, <1>4, PairTypes
<1>6. /\ Chain(t, n) /\ Linked(t) /\ LiveIn(t) = Live \ {j}
      /\ t[i].c = id /\ t[j].c = Invalid
      /\ \A p \in 1..n : p \notin {i, j} => t[p].c = sym[p].c
      /\ t[i].prev = sym[i].prev
  BY <1>1, <1>3, <1>4, AbsorbedChain
<1>7. i \in 1..n /\ j \in 1..n /\ i < j /\ j \in Live
  BY <1>3, <1>4, NextIsLive DEF Live
<1>8. \A p \in LiveIn(t) : t[p].next # 0 =>
        \/ p = i
        \/ p = t[i].prev /\ t[p].next = i
        \/ /\ p # i /\ p \in Live /\ sym[p].next = t[p].next
           /\ t[p].c = sym[p].c /\ t[t[p].next].c = sym[t[p].next].c
  BY <1>1, <1>3, <1>4, PairsAfter
<1>9. DOMAIN t = 1..n
  BY <1>6 DEF Chain
<1> HIDE DEF t, id
<1>10. \A p \in 1..n : t[p].c \in Nat \cup {Invalid} /\ (p \in LiveIn(t) <=> t[p].c \in Nat)
  <2> SUFFICES ASSUME NEW p \in 1..n
               PROVE  t[p].c \in Nat \cup {Invalid} /\ (p \in LiveIn(t) <=> t[p].c \in Nat)
    OBVIOUS
  <2>1. CASE p = i
    BY <2>1, <1>4, <1>5, <1>6, <1>7
  <2>2. CASE p = j
    BY <2>2, <1>6, CallsAssumption
  <2>3. CASE p \notin {i, j}
    BY <2>3, <1>3, <1>6 DEF HeapKnows
  <2> QED BY <2>1, <2>2, <2>3
<1>11. ASSUME NEW p, NEW l, NEW r, p \in 1..n, Adjacent(l, r)
       PROVE  /\ Entry(p, l, r).pos = p /\ Entry(p, l, r).left = l /\ Entry(p, l, r).right = r
              /\ l \in Nat /\ r \in Nat
  BY <1>3, <1>11, PairTypes DEF Entry
<1>12. \A f \in Discovered(t, i) :
         /\ f.pos \in 1..n /\ f.left \in Nat /\ f.right \in Nat
         /\ Adjacent(f.left, f.right) /\ f = Entry(f.pos, f.left, f.right)
  <2>1. SUFFICES ASSUME NEW f \in Discovered(t, i)
                 PROVE  /\ f.pos \in 1..n /\ f.left \in Nat /\ f.right \in Nat
                        /\ Adjacent(f.left, f.right) /\ f = Entry(f.pos, f.left, f.right)
    OBVIOUS
  <2>2. t[i].prev = 0 \/ t[i].prev \in 1..n
    BY <1>6, <1>7 DEF Chain
  <2>3. \E p \in 1..n : \E l, r : Adjacent(l, r) /\ f = Entry(p, l, r)
    BY <2>1, <2>2, <1>7 DEF Discovered, EntryIf
  <2> QED BY <2>3, <1>11
<1>13. TypeOK'
  <2>1. \A f \in heap' :
          /\ f.pos \in 1..n /\ f.left \in Nat /\ f.right \in Nat
          /\ Adjacent(f.left, f.right) /\ f = Entry(f.pos, f.left, f.right)
    BY <1>1, <1>3, <1>12 DEF TypeOK, t
  <2>2. \A f \in heap' :
          /\ f.pos \in 1..n /\ f.left \in Nat /\ f.right \in Nat
          /\ Adjacent(f.left, f.right)' /\ f = Entry(f.pos, f.left, f.right)'
    BY <2>1, <1>2 DEF Adjacent, Entry, Adj
  <2>3. /\ Positions' = 1..n
        /\ \A p \in 1..n : /\ sym'[p].prev \in 0..(p - 1) /\ (sym'[p].prev = 0 <=> p = 1)
                           /\ sym'[p].next \in {0} \cup ((p + 1)..n)
    BY <1>6, <1>9 DEF t, Chain, Positions
  <2>4. IsCall(call)'
    BY <1>2, <1>3 DEF IsCall
  <2> QED BY <2>2, <2>3, <2>4, <1>2, <1>3 DEF TypeOK, Active
<1>14. Linked(sym)'
  BY <1>6 DEF t, Linked, LiveIn
<1>15. \A p \in 1..n : (p \in LiveIn(t) /\ t[p].next # 0 /\ Adjacent(t[p].c, t[t[p].next].c)) =>
         Entry(p, t[p].c, t[t[p].next].c) \in heap'
  <2> SUFFICES ASSUME NEW p \in LiveIn(t), p \in 1..n, t[p].next # 0,
                      Adjacent(t[p].c, t[t[p].next].c)
               PROVE  Entry(p, t[p].c, t[t[p].next].c) \in heap'
    OBVIOUS
  <2>1. CASE p = i
    BY <2>1, <1>1 DEF t, Discovered, EntryIf
  <2>2. CASE p = t[i].prev /\ t[p].next = i
    <3>1. t[i].prev # 0
      BY <2>2
    <3> QED BY <2>2, <3>1, <1>1 DEF t, Discovered, EntryIf
  <2>3. CASE /\ p # i /\ p \in Live /\ sym[p].next = t[p].next
             /\ t[p].c = sym[p].c /\ t[t[p].next].c = sym[t[p].next].c
    <3>1. Mergeable(p)
      BY <2>3 DEF Mergeable
    <3>2. Entry(p, t[p].c, t[t[p].next].c) \in heap
      BY <2>3, <3>1, <1>3 DEF HeapKnows
    <3>3. Entry(p, t[p].c, t[t[p].next].c) # e
      BY <2>3, <1>11
    <3> QED BY <3>2, <3>3, <1>1
  <2> QED BY <1>8, <2>1, <2>2, <2>3
<1>16. HeapKnows'
  BY <1>2, <1>9, <1>10, <1>15
     DEF t, HeapKnows, Mergeable, Entry, Adj, Adjacent, Positions, Live
<1> QED BY <1>2, <1>13, <1>14, <1>16 DEF IInv

\* The position of the lowest rank is one whose pair can be merged.
LEMMA BestIsMergeable ==
  ASSUME RanksKnow, NEW i \in Positions, BestRank(i)
  PROVE  /\ Mergeable(i) /\ i \in Live /\ sym[i].next # 0
         /\ Adjacent(sym[i].c, sym[sym[i].next].c)
         /\ ranks[i] = Adj(sym[i].c, sym[sym[i].next].c)
BY DEF BestRank, Ranked, RanksKnow, Mergeable

LEMMA ScanMergeKeeps ==
  ASSUME IInv, ScanMerge
  PROVE  IInv'
<1>1. PICK i \in Positions :
        /\ pc = "scan" /\ BestRank(i)
        /\ LET j == sym[i].next
               s == Absorbed(i, ranks[i].id, sym[j].c)
               left == s[i].prev
               right == s[i].next
           IN  /\ sym' = s
               /\ ranks' = [p \in Positions |->
                      IF p = i /\ right # 0 THEN PairAt(s[i].c, s[right].c)
                      ELSE IF p = left THEN PairAt(s[left].c, s[i].c)
                      ELSE IF p \in {i, j} THEN NoPair
                      ELSE ranks[p]]
  BY DEF ScanMerge
<1>2. pc' = "scan" /\ call' = call
  BY <1>1 DEF ScanMerge
<1> DEFINE n  == Len(call.tokens)
           j  == sym[i].next
           id == ranks[i].id
           t  == Absorbed(i, id, sym[j].c)
<1>3. /\ pc = "scan" /\ BestRank(i) /\ sym' = t
      /\ ranks' = [p \in Positions |->
             IF p = i /\ t[i].next # 0 THEN PairAt(t[i].c, t[t[i].next].c)
             ELSE IF p = t[i].prev THEN PairAt(t[t[i].prev].c, t[i].c)
             ELSE IF p \in {i, j} THEN NoPair
             ELSE ranks[p]]
  BY <1>1
<1>4. pc = "scan" /\ BestRank(i)
  BY <1>3
<1>5. /\ IsCall(call) /\ n \in Nat /\ n > 1 /\ Chain(sym, n) /\ Positions = 1..n
      /\ Linked(sym) /\ RanksKnow
  BY <1>4, TypesOfActive DEF IInv, Active
<1>6. i \in Live /\ j # 0
  BY <1>4, <1>5, BestIsMergeable
<1>7. id \in Nat
  <2>1. ranks[i] = Adj(sym[i].c, sym[j].c) /\ Adjacent(sym[i].c, sym[j].c)
    BY <1>4, <1>5, BestIsMergeable
  <2> QED BY <2>1, <1>5, PairTypes
<1>8. /\ Chain(t, n) /\ Linked(t) /\ LiveIn(t) = Live \ {j}
      /\ t[i].c = id /\ t[j].c = sym[j].c
      /\ \A p \in 1..n : p \notin {i, j} => t[p].c = sym[p].c
      /\ t[i].prev = sym[i].prev
      /\ \A p \in 1..n : p # i => t[p].next = sym[p].next
  BY <1>5, <1>6, AbsorbedChain
<1>9. i \in 1..n /\ j \in 1..n /\ i < j /\ j \in Live
  BY <1>5, <1>6, NextIsLive DEF Live
<1>10. \A p \in LiveIn(t) : t[p].next # 0 =>
        \/ p = i
        \/ p = t[i].prev /\ t[p].next = i
        \/ /\ p # i /\ p \in Live /\ sym[p].next = t[p].next
           /\ t[p].c = sym[p].c /\ t[t[p].next].c = sym[t[p].next].c
  <2> DEFINE dead == sym[j].c
  <2>1. t = Absorbed(i, id, dead) /\ sym[i].next # 0
    BY <1>6
  <2> HIDE DEF t, id, dead, j
  <2> QED
    BY <1>5, <1>6, <2>1, PairsAfter
<1>11. DOMAIN t = 1..n
  BY <1>8 DEF Chain
<1>12. i \in LiveIn(t)
  <2>1. LiveIn(t) = Live \ {j}
    BY <1>8
  <2>2. i \in Live /\ i # j
    BY <1>6, <1>9
  <2> HIDE DEF t, j
  <2> QED BY <2>1, <2>2
<1>13. t[i].prev # 0 =>
         t[i].prev \in LiveIn(t) /\ t[t[i].prev].next = i /\ t[i].prev < i /\ t[i].prev \in 1..n
  <2>1. t[i].prev # 0 =>
          t[i].prev \in LiveIn(t) /\ t[t[i].prev].next = i /\ t[i].prev < i
    BY <1>5, <1>8, <1>12, PrevIsLive
  <2> QED BY <2>1, <1>11 DEF LiveIn
<1> HIDE DEF t, id
<1>14. \A p \in 1..n : ranks'[p] =
         IF p = i /\ t[i].next # 0 THEN PairAt(t[i].c, t[t[i].next].c)
         ELSE IF p = t[i].prev THEN PairAt(t[t[i].prev].c, t[i].c)
         ELSE IF p \in {i, j} THEN NoPair
         ELSE ranks[p]
  BY <1>3, <1>5
<1>15. DOMAIN ranks' = 1..n
  BY <1>3, <1>5
<1>16. sym' = t
  BY <1>3
<1> DEFINE Pair(p) == p \in LiveIn(t) /\ t[p].next # 0 /\ Adjacent(t[p].c, t[t[p].next].c)
<1>17. TypeOK'
  <2>1. /\ Positions' = 1..n
        /\ \A p \in 1..n : /\ sym'[p].prev \in 0..(p - 1) /\ (sym'[p].prev = 0 <=> p = 1)
                           /\ sym'[p].next \in {0} \cup ((p + 1)..n)
    BY <1>16, <1>8, <1>11 DEF Chain, Positions
  <2>2. IsCall(call)'
    BY <1>2, <1>5 DEF IsCall
  <2> QED BY <2>1, <2>2, <1>2, <1>5, <1>15 DEF TypeOK, Active
<1>18. Linked(sym)'
  BY <1>16, <1>8 DEF Linked, LiveIn
<1>19. \A p \in 1..n : t[p].c \in Nat
  <2> SUFFICES ASSUME NEW p \in 1..n
               PROVE  t[p].c \in Nat
    OBVIOUS
  <2>1. sym[p].c \in Nat
    BY <1>5 DEF RanksKnow
  <2> QED BY <2>1, <1>7, <1>8
<1>20. ASSUME NEW p \in 1..n
       PROVE  ranks'[p] = IF Pair(p) THEN Adj(t[p].c, t[t[p].next].c) ELSE NoPair
  <2>1. CASE p = i /\ t[i].next # 0
    BY <2>1, <1>12, <1>14 DEF PairAt
  <2>2. CASE p = i /\ t[i].next = 0
    <3>1. p # t[i].prev
      BY <2>2, <1>9, <1>13
    <3> QED BY <2>2, <3>1, <1>14
  <2>3. CASE p # i /\ p = t[i].prev
    <3>1. p \in LiveIn(t) /\ t[p].next = i /\ i # 0
      BY <2>3, <1>9, <1>13
    <3> QED BY <2>3, <3>1, <1>14 DEF PairAt
  <2>4. CASE p # i /\ p # t[i].prev /\ p = j
    BY <2>4, <1>8, <1>14
  <2>5. CASE p # i /\ p # t[i].prev /\ p # j
    <3>1. ranks'[p] = ranks[p]
      BY <2>5, <1>14
    <3>2. ranks[p] = IF Mergeable(p) THEN Adj(sym[p].c, sym[sym[p].next].c) ELSE NoPair
      BY <1>5 DEF RanksKnow
    <3>3. p \in LiveIn(t) <=> p \in Live
      BY <2>5, <1>8
    <3>4. t[p].next = sym[p].next
      BY <2>5, <1>8
    <3>5. CASE p \in Live /\ t[p].next # 0
      <4>1. t[p].c = sym[p].c /\ t[t[p].next].c = sym[t[p].next].c
        BY <2>5, <3>3, <3>5, <1>10
      <4> QED BY <3>1, <3>2, <3>3, <3>4, <3>5, <4>1 DEF Mergeable
    <3>6. CASE ~ (p \in Live /\ t[p].next # 0)
      BY <3>1, <3>2, <3>3, <3>4, <3>6 DEF Mergeable
    <3> QED BY <3>5, <3>6
  <2> QED BY <2>1, <2>2, <2>3, <2>4, <2>5
<1>21. RanksKnow'
  BY <1>2, <1>16, <1>11, <1>19, <1>20
     DEF RanksKnow, Mergeable, Adj, Adjacent, Positions, Live
<1> QED BY <1>2, <1>17, <1>18, <1>21 DEF IInv

\* In every state the list is a chain of the live symbols, and the heap or the
\* ranks know every pair of neighbours that can be merged.
THEOREM Invariance == Spec => []IInv
<1>1. Init => IInv
  BY DEF Init, IInv, TypeOK, Active
<1>2. IInv /\ [Next]_vars => IInv'
  <2> SUFFICES ASSUME IInv, [Next]_vars
               PROVE  IInv'
    OBVIOUS
  <2>1. CASE BeginFails \/ BeginWhole
    BY <2>1 DEF BeginFails, BeginWhole, IInv, TypeOK, Active
  <2>2. CASE Emit \/ Return
    BY <2>2 DEF Emit, Return, IInv, TypeOK, Active
  <2>3. CASE UNCHANGED vars
    BY <2>3 DEF vars, IInv, TypeOK, Active, IsCall, Positions, Adjacent, Adj, Entry,
                Linked, LiveIn, Live, HeapKnows, RanksKnow, Mergeable, NoPair
  <2> QED
    BY <2>1, <2>2, <2>3, BeginHeapKeeps, BeginScanKeeps, PopStaleKeeps,
       PopMergeKeeps, ScanMergeKeeps DEF Next
<1> QED BY <1>1, <1>2, PTL DEF Spec

-----------------------------------------------------------------------------
(* The refinement. *)

RankOf(i) == Adj(sym[i].c, sym[sym[i].next].c).rank

\* The pair at i is the first of the lowest rank.
FirstOfLowest(i) ==
    /\ Mergeable(i)
    /\ \A k \in Live : Mergeable(k) =>
           RankOf(i) < RankOf(k) \/ (RankOf(i) = RankOf(k) /\ i <= k)

\* A merge of the first pair of the lowest rank is a merge of RankMerge.
LEMMA MergeMaps ==
  ASSUME TypeOK, Active, Linked(sym), NEW i, FirstOfLowest(i),
         NEW dead, sym' = Absorbed(i, Adj(sym[i].c, sym[sym[i].next].c).id, dead),
         UNCHANGED <<pc, call>>
  PROVE  Promise!Merge
<1> DEFINE n  == Len(call.tokens)
           j  == sym[i].next
           id == Adj(sym[i].c, sym[j].c).id
           w  == [k \in Live |-> sym[k].c]
           ww == [k \in Live \ {j} |-> IF k = i THEN id ELSE w[k]]
           tb == call.table
<1>1. n \in Nat /\ Chain(sym, n) /\ Live \subseteq 1..n
  BY TypesOfActive DEF Live, LiveIn, Chain
<1>2. i \in Live /\ j # 0 /\ Adjacent(sym[i].c, sym[j].c)
  BY DEF FirstOfLowest, Mergeable
<1>3. j \in Live
  BY <1>1, <1>2, NextIsLive DEF Live
<1>4. /\ LiveIn(sym') = Live \ {j} /\ sym'[i].c = id
      /\ \A p \in 1..n : p \notin {i, j} => sym'[p].c = sym[p].c
  <2> DEFINE t == Absorbed(i, id, dead)
  <2>1. sym' = t
    OBVIOUS
  <2>2. i \in Live /\ sym[i].next # 0
    BY <1>2
  <2>3. ASSUME NEW u, NEW z, u = Absorbed(i, z, dead)
        PROVE  /\ LiveIn(u) = Live \ {j} /\ u[i].c = z
               /\ \A p \in 1..n : p \notin {i, j} => u[p].c = sym[p].c
    BY <1>1, <2>2, <2>3, AbsorbedChain, SMTT(30)
  <2> HIDE DEF id, j
  <2>4. /\ LiveIn(t) = Live \ {j} /\ t[i].c = id
        /\ \A p \in 1..n : p \notin {i, j} => t[p].c = sym[p].c
    BY <2>3
  <2> HIDE DEF t
  <2> QED BY <2>1, <2>4
<1>5. \A k, l \in Live : Promise!Follows(w, k, l) <=> (sym[k].next # 0 /\ l = sym[k].next)
  BY <1>1, FollowsIsNext DEF Live
<1>6. Promise!MergesAt(tb, w, i, j)
  BY <1>2, <1>3, <1>5 DEF Promise!MergesAt, Adjacent
<1>7. Promise!Lowest(tb, w, i, j)
  <2> SUFFICES ASSUME NEW k \in Live, NEW l \in Live, Promise!MergesAt(tb, w, k, l)
               PROVE  \/ Promise!RankAt(tb, w, i, j) < Promise!RankAt(tb, w, k, l)
                      \/ Promise!RankAt(tb, w, i, j) = Promise!RankAt(tb, w, k, l) /\ i <= k
    BY DEF Promise!Lowest
  <2>1. l = sym[k].next /\ Mergeable(k)
    BY <1>5 DEF Promise!MergesAt, Mergeable, Adjacent
  <2> QED BY <2>1, <1>2, <1>3 DEF Promise!RankAt, Adj, FirstOfLowest, RankOf
<1>8. [k \in Live |-> sym[k].c]' = ww
  BY <1>1, <1>4 DEF Live
<1>9. id = tb[<<w[i], w[j]>>].id
  BY <1>2, <1>3 DEF Adj
<1>10. DOMAIN w = Live
  OBVIOUS
<1>11. Active'
  BY DEF Active
<1>12. ww = [k \in DOMAIN w \ {j} |-> IF k = i THEN tb[<<w[i], w[j]>>].id ELSE w[k]]
  BY <1>9, <1>10
<1> HIDE DEF w, ww
<1> QED BY <1>2, <1>3, <1>6, <1>7, <1>8, <1>10, <1>11, <1>12 DEF Promise!Merge, w

\* Work begins with every position of the word.
LEMMA BeginMaps ==
  ASSUME IInv', ~ Active, Active', NEW cl \in Calls, Merging(cl), sym' = Symbols(cl.tokens)
  PROVE  Promise!Begin
<1>1. cl.tokens \in Seq(Nat) /\ Len(cl.tokens) > 1
  BY CallsAssumption DEF IsCall, Merging
<1>2. Live' = 1..Len(cl.tokens) /\ Len(cl.tokens) \in Nat
  BY <1>1, SymbolsChain DEF Live
<1> DEFINE w == [i \in Live |-> sym[i].c]
<1>3. DOMAIN w' = 1..Len(cl.tokens)
  BY <1>2
<1>4. w' # [i \in {} |-> i]
  <2>1. 1 \in DOMAIN w'
    BY <1>1, <1>2, <1>3
  <2> QED BY <2>1
<1>5. \A j \in DOMAIN w' : 1..j \subseteq DOMAIN w'
  BY <1>2, <1>3
<1> HIDE DEF w
<1> QED BY <1>4, <1>5 DEF Promise!Begin, Promise!NoWork, w

\* Every step of the procedures is a step of RankMerge or leaves it alone.
LEMMA StepMaps ==
  ASSUME IInv, IInv', [Next]_vars
  PROVE  [Promise!Next]_<<IF Active THEN call.table ELSE [i \in {} |-> i],
                          IF Active THEN [i \in Live |-> sym[i].c] ELSE [i \in {} |-> i]>>
<1> DEFINE tb == IF Active THEN call.table ELSE [i \in {} |-> i]
           wd == IF Active THEN [i \in Live |-> sym[i].c] ELSE [i \in {} |-> i]
<1>1. CASE BeginFails \/ BeginWhole \/ Return
  <2>1. ~ Active /\ ~ Active'
    BY <1>1 DEF BeginFails, BeginWhole, Return, Active
  <2> QED BY <2>1
<1>2. CASE BeginHeap
  BY <1>2, BeginMaps DEF BeginHeap, Active, Promise!Next
<1>3. CASE BeginScan
  BY <1>3, BeginMaps DEF BeginScan, Active, Promise!Next
<1>4. CASE PopStale
  BY <1>4 DEF PopStale, Active, Live, LiveIn
<1>5. CASE PopMerge
  <2>1. PICK e \in heap :
          /\ pc = "heap" /\ Top(e) /\ Fits(e)
          /\ sym' = Absorbed(e.pos, Adj(e.left, e.right).id, Invalid)
    BY <1>5 DEF PopMerge
  <2>2. UNCHANGED <<pc, call>>
    BY <1>5 DEF PopMerge
  <2> DEFINE i == e.pos
  <2>3. /\ Mergeable(i) /\ e = Entry(i, sym[i].c, sym[sym[i].next].c)
        /\ e.left = sym[i].c /\ e.right = sym[sym[i].next].c
    BY <2>1, PoppedIsLive
  <2>4. e.rank = RankOf(i)
    BY <2>3 DEF Entry, RankOf
  <2>5. ASSUME NEW k \in Live, Mergeable(k)
        PROVE  e.rank < RankOf(k) \/ (e.rank = RankOf(k) /\ i <= k)
    <3> DEFINE f == Entry(k, sym[k].c, sym[sym[k].next].c)
    <3>1. f \in heap
      BY <2>1, <2>5 DEF IInv, HeapKnows, Live, LiveIn, Positions
    <3>2. f.rank = RankOf(k) /\ f.pos = k
      BY DEF Entry, RankOf
    <3> QED BY <3>1, <3>2, <2>1 DEF Top
  <2>6. sym' = Absorbed(i, Adj(sym[i].c, sym[sym[i].next].c).id, Invalid)
    BY <2>1, <2>3
  <2>7. TypeOK /\ Active /\ Linked(sym)
    BY <2>1 DEF IInv, Active
  <2>8. FirstOfLowest(i)
    BY <2>3, <2>4, <2>5 DEF FirstOfLowest
  <2> QED BY <2>2, <2>6, <2>7, <2>8, MergeMaps DEF Promise!Next
<1>6. CASE ScanMerge
  <2>1. PICK i \in Positions :
          /\ pc = "scan" /\ BestRank(i)
          /\ sym' = Absorbed(i, ranks[i].id, sym[sym[i].next].c)
    BY <1>6 DEF ScanMerge
  <2>2. UNCHANGED <<pc, call>>
    BY <1>6 DEF ScanMerge
  <2>3. TypeOK /\ Active /\ Linked(sym) /\ RanksKnow
    BY <2>1 DEF IInv, Active
  <2>4. Mergeable(i) /\ ranks[i] = Adj(sym[i].c, sym[sym[i].next].c)
    BY <2>1, <2>3, BestIsMergeable
  <2>5. ASSUME NEW k \in Live, Mergeable(k)
        PROVE  ranks[i].rank < RankOf(k) \/ (ranks[i].rank = RankOf(k) /\ i <= k)
    <3>1. k \in Positions /\ ranks[k] = Adj(sym[k].c, sym[sym[k].next].c)
      BY <2>3, <2>5 DEF RanksKnow, Live, LiveIn, Positions
    <3>2. Ranked(k)
      BY <3>1, <2>3, <2>5, TypesOfActive, PairTypes DEF Ranked, Mergeable
    <3> QED BY <3>1, <3>2, <2>1 DEF BestRank, RankOf
  <2>6. sym' = Absorbed(i, Adj(sym[i].c, sym[sym[i].next].c).id, sym[sym[i].next].c)
    BY <2>1, <2>4
  <2>7. FirstOfLowest(i)
    BY <2>4, <2>5 DEF FirstOfLowest, RankOf
  <2> QED BY <2>2, <2>3, <2>6, <2>7, MergeMaps DEF Promise!Next
<1>7. CASE Emit
  <2>1. Active /\ ~ Active'
    BY <1>7 DEF Emit, Active
  <2>2. \A k \in Live : ~ Mergeable(k)
    <3> SUFFICES ASSUME NEW k \in Live, Mergeable(k)
                 PROVE  FALSE
      OBVIOUS
    <3>1. k \in Positions
      BY DEF Live, LiveIn, Positions
    <3>2. CASE pc = "heap" /\ heap = {}
      BY <3>1, <3>2 DEF IInv, HeapKnows
    <3>3. CASE pc = "scan" /\ \A i \in Positions : ~ Ranked(i)
      <4>1. ranks[k] = Adj(sym[k].c, sym[sym[k].next].c)
        BY <3>1, <3>3 DEF IInv, RanksKnow
      <4>2. ranks[k] # NoPair
        BY <4>1, <2>1, TypesOfActive, PairTypes DEF IInv, Mergeable
      <4> QED BY <3>1, <3>3, <4>2 DEF Ranked
    <3> QED BY <1>7, <3>2, <3>3 DEF Emit
  <2> DEFINE w == [k \in Live |-> sym[k].c]
             n == Len(call.tokens)
  <2>3. n \in Nat /\ Chain(sym, n) /\ Linked(sym)
    BY <2>1, TypesOfActive DEF IInv
  <2>4. \A k, l \in Live : Promise!Follows(w, k, l) <=> (sym[k].next # 0 /\ l = sym[k].next)
    BY <2>3, FollowsIsNext DEF Live
  <2>5. \A k, l \in DOMAIN w : ~ Promise!MergesAt(call.table, w, k, l)
    BY <2>2, <2>4 DEF Promise!MergesAt, Mergeable, Adjacent
  <2> HIDE DEF w
  <2> QED BY <2>1, <2>5 DEF Promise!Next, Promise!Finish, Promise!NoWork, w
<1>8. CASE UNCHANGED vars
  BY <1>8 DEF vars, Active, Live, LiveIn
<1> QED
  BY <1>1, <1>2, <1>3, <1>4, <1>5, <1>6, <1>7, <1>8 DEF Next

\* Whatever the vocabulary and the pretoken, the heap with its stale entries
\* and the linear scan merge the pair of the lowest rank at each step, the
\* leftmost of equals, and stop only when no neighbours can be merged.
THEOREM MergesLowestFirst == Spec => LowestFirst
<1>1. Init => Promise!Init
  BY DEF Init, Active, Promise!Init, Promise!NoWork
<1>2. IInv /\ IInv' /\ [Next]_vars =>
        [Promise!Next]_<<IF Active THEN call.table ELSE [i \in {} |-> i],
                         IF Active THEN [i \in Live |-> sym[i].c] ELSE [i \in {} |-> i]>>
  BY StepMaps
<1> QED BY <1>1, <1>2, Invariance, PTL DEF Spec, LowestFirst, Promise!Spec


(***************************************************************************)
(* Spelling.                                                               *)
(***************************************************************************)

\* The texts of ids, put together.
Spelling(json, ids) == FlattenSeq([k \in 1..Len(ids) |-> TextOf(json, ids[k])])

\* An id of the vocabulary stands for a text that is listed with it.
LEMMA TextListed ==
  ASSUME NEW json, IsJson(json), NEW id \in VocabIds(json)
  PROVE  /\ TextOf(json, id) \in DOMAIN json.vocab /\ json.vocab[TextOf(json, id)] = id
         /\ TextOf(json, id) \in Seq(STRING) /\ id \in Nat
<1>1. \E text \in DOMAIN json.vocab : json.vocab[text] = id
  BY DEF VocabIds
<1>2. TextOf(json, id) \in DOMAIN json.vocab /\ json.vocab[TextOf(json, id)] = id
  BY <1>1 DEF TextOf
<1> QED
  BY <1>2 DEF IsJson

\* If no id is listed twice, a text of the vocabulary is the text of its id.
LEMMA TextFound ==
  ASSUME NEW json, IsJson(json), Distinct(json), NEW text \in DOMAIN json.vocab
  PROVE  json.vocab[text] \in VocabIds(json) /\ TextOf(json, json.vocab[text]) = text
<1>1. json.vocab[text] \in VocabIds(json)
  BY DEF VocabIds
<1>2. /\ TextOf(json, json.vocab[text]) \in DOMAIN json.vocab
      /\ json.vocab[TextOf(json, json.vocab[text])] = json.vocab[text]
  BY <1>1, TextListed
<1> QED
  BY <1>1, <1>2 DEF Distinct

\* Texts of ids are texts.
LEMMA TextsType ==
  ASSUME NEW json, IsJson(json), NEW ids \in Seq(VocabIds(json))
  PROVE  [k \in 1..Len(ids) |-> TextOf(json, ids[k])] \in Seq(Seq(STRING))
<1> DEFINE f == [k \in 1..Len(ids) |-> TextOf(json, ids[k])]
           U == Seq(STRING)
<1>1. \A k \in 1..Len(ids) : TextOf(json, ids[k]) \in U
  BY TextListed
<1>2. Len(ids) \in Nat
  OBVIOUS
<1> HIDE DEF U
<1>3. f \in [1..Len(ids) -> U]
  BY <1>1
<1> HIDE DEF f
<1>4. f \in Seq(U)
  BY <1>2, <1>3, Tabled
<1> QED
  BY <1>4 DEF f, U

\* A spelling is a text.
LEMMA SpellingType ==
  ASSUME NEW json, IsJson(json), NEW ids \in Seq(VocabIds(json))
  PROVE  Spelling(json, ids) \in Seq(STRING)
BY TextsType, FlattenType DEF Spelling

\* What two sequences of ids spell, they spell together.
LEMMA SpellConcat ==
  ASSUME NEW json, IsJson(json), NEW s \in Seq(VocabIds(json)), NEW t \in Seq(VocabIds(json))
  PROVE  Spelling(json, s \o t) = Spelling(json, s) \o Spelling(json, t)
<1> DEFINE V == VocabIds(json)
           F(r) == [k \in 1..Len(r) |-> TextOf(json, r[k])]
<1>1. s \o t \in Seq(V) /\ Len(s \o t) = Len(s) + Len(t) /\ Len(s) \in Nat /\ Len(t) \in Nat
      /\ \A k \in 1..Len(s) + Len(t) : (s \o t)[k] = IF k <= Len(s) THEN s[k] ELSE t[k - Len(s)]
  BY ConcatProperties
<1>2. F(s) \in Seq(Seq(STRING)) /\ F(t) \in Seq(Seq(STRING)) /\ F(s \o t) \in Seq(Seq(STRING))
  BY <1>1, TextsType
<1>3. F(s \o t) = F(s) \o F(t)
  <2> DEFINE U == Seq(STRING)
             a == F(s)
             b == F(t)
             c == F(s \o t)
  <2>1. a \in Seq(U) /\ b \in Seq(U) /\ c \in Seq(U)
    BY <1>2
  <2>2. Len(a) = Len(s) /\ Len(b) = Len(t) /\ Len(c) = Len(s) + Len(t)
    BY <1>1
  <2>3. /\ \A k \in 1..Len(s) : a[k] = TextOf(json, s[k])
        /\ \A k \in 1..Len(t) : b[k] = TextOf(json, t[k])
        /\ \A k \in 1..Len(s) + Len(t) : c[k] = TextOf(json, (s \o t)[k])
    BY <1>1
  <2> HIDE DEF U, a, b, c
  <2>4. /\ a \o b \in Seq(U) /\ Len(a \o b) = Len(s) + Len(t)
        /\ \A k \in 1..Len(s) + Len(t) :
              (a \o b)[k] = IF k <= Len(s) THEN a[k] ELSE b[k - Len(s)]
    <3>1. /\ a \o b \in Seq(U) /\ Len(a \o b) = Len(a) + Len(b)
          /\ \A k \in 1..Len(a) + Len(b) :
                (a \o b)[k] = IF k <= Len(a) THEN a[k] ELSE b[k - Len(a)]
      BY <2>1, ConcatProperties
    <3> QED
      BY <2>2, <3>1, Zenon
  <2>5. ASSUME NEW k \in 1..Len(s) + Len(t)
        PROVE  c[k] = (a \o b)[k]
    <3>1. CASE k <= Len(s)
      BY <3>1, <2>3, <2>4, <1>1
    <3>2. CASE ~ k <= Len(s)
      <4>1. k - Len(s) \in 1..Len(t)
        BY <3>2, <1>1
      <4>2. (s \o t)[k] = t[k - Len(s)] /\ (a \o b)[k] = b[k - Len(s)]
        BY <3>2, <2>4, <1>1
      <4> QED
        BY <4>1, <4>2, <2>3
    <3> QED
      BY <3>1, <3>2
  <2>6. c = a \o b
    BY <2>1, <2>2, <2>4, <2>5, SeqEqual
  <2> QED
    BY <2>6 DEF a, b, c
<1>4. FlattenSeq(F(s) \o F(t)) = FlattenSeq(F(s)) \o FlattenSeq(F(t))
  <2> HIDE DEF F
  <2> QED
    BY <1>2, FlattenConcat
<1> QED
  BY <1>3, <1>4 DEF Spelling

\* One id spells its text.
LEMMA SpellOne ==
  ASSUME NEW json, IsJson(json), NEW id \in VocabIds(json)
  PROVE  Spelling(json, <<id>>) = TextOf(json, id)
<1>1. [k \in 1..Len(<<id>>) |-> TextOf(json, <<id>>[k])] = <<TextOf(json, id)>>
  OBVIOUS
<1>2. TextOf(json, id) \in Seq(STRING)
  BY TextListed
<1> QED
  BY <1>1, <1>2, FlattenOne DEF Spelling

\* No ids spell nothing.
LEMMA SpellNone ==
  ASSUME NEW json
  PROVE  Spelling(json, <<>>) = <<>>
<1>1. [k \in 1..Len(<<>>) |-> TextOf(json, <<>>[k])] = <<>>
  OBVIOUS
<1>2. FlattenSeq(<<>>) = <<>>
  BY FlattenOfNone
<1> QED
  BY <1>1, <1>2 DEF Spelling

(***************************************************************************)
(* What the list spells when it is read.                                   *)
(***************************************************************************)

\* f reads the list from a position on.
Reads(f) ==
  f = [i \in Positions \cup {0} |-> IF i = 0 THEN <<>> ELSE <<sym[i].c>> \o f[sym[i].next]]

\* Walk reads the list from its first symbol on, if it can be read.
LEMMA WalkReads ==
  ASSUME \E f : Reads(f)
  PROVE  \E f : Reads(f) /\ Walk = f[1]
BY DEF Reads, Walk

\* A list can be read: it ends.
LEMMA Readable ==
  ASSUME NEW n \in Nat, Chain(sym, n), \A i \in 1..n : sym[i].c \in Int
  PROVE  \E f : Reads(f)
<1> DEFINE S == 0..n
           T == Seq(Int)
           D == {0}
           val == [i \in S |-> <<>>]
           step == [i \in S |-> sym[i].next]
           join == [i \in S |-> [x \in T |-> <<sym[i].c>> \o x]]
           size == [i \in S |-> IF i = 0 THEN 0 ELSE n + 1 - i]
<1>1. Positions \cup {0} = S
  BY DEF Chain, Positions
<1>2. WellFounded(S, T, D, val, step, join, size)
  <2>1. T # {} /\ \A s \in S : s \in D => val[s] \in T
    <3>1. <<>> \in Seq(Int)
      BY EmptySeq
    <3> HIDE DEF S
    <3> QED
      BY <3>1
  <2>2. \A s \in S : size[s] \in Nat
    OBVIOUS
  <2>3. ASSUME NEW s \in S, s \notin D
        PROVE  step[s] \in S /\ size[step[s]] < size[s]
    <3>1. s \in 1..n /\ step[s] = sym[s].next /\ size[s] = n + 1 - s
      BY <2>3
    <3>2. sym[s].next = 0 \/ (sym[s].next \in (s + 1)..n)
      BY <3>1 DEF Chain
    <3>3. CASE sym[s].next = 0
      <4>1. size[0] = 0 /\ 0 \in S
        OBVIOUS
      <4> HIDE DEF size, step
      <4> QED
        BY <3>1, <3>3, <4>1
    <3>4. CASE sym[s].next \in (s + 1)..n
      <4> DEFINE j == sym[s].next
      <4>1. j \in S /\ j # 0
        BY <3>1, <3>4
      <4>2. size[j] = n + 1 - j
        BY <4>1
      <4> HIDE DEF size, step, j
      <4> QED
        BY <3>1, <3>4, <4>1, <4>2 DEF j
    <3> QED
      BY <3>2, <3>3, <3>4
  <2>4. ASSUME NEW s \in S, NEW x \in T, s \notin D
        PROVE  join[s][x] \in T
    <3>1. <<sym[s].c>> \in Seq(Int)
      BY <2>4
    <3>2. <<sym[s].c>> \o x \in Seq(Int)
      BY <3>1, ConcatProperties
    <3> QED
      BY <3>2
  <2> HIDE DEF S, T, D, val, step, join, size
  <2> QED
    BY <2>1, <2>2, <2>3, <2>4 DEF WellFounded
<1>3. PICK h \in [S -> T] :
        h = [s \in S |-> IF s \in D THEN val[s] ELSE join[s][h[step[s]]]]
  <2> HIDE DEF S, T, D, val, step, join, size
  <2> QED
    BY <1>2, Recursion
<1>4. h = [i \in S |-> IF i = 0 THEN <<>> ELSE <<sym[i].c>> \o h[sym[i].next]]
  <2>1. ASSUME NEW s \in S
        PROVE  h[s] = IF s = 0 THEN <<>> ELSE <<sym[s].c>> \o h[sym[s].next]
    <3>1. h[s] = IF s \in D THEN val[s] ELSE join[s][h[step[s]]]
      BY <1>3
    <3>2. s # 0 => step[s] = sym[s].next /\ step[s] \in S
      BY <1>2 DEF WellFounded
    <3>3. s # 0 => h[step[s]] \in T
      BY <3>2
    <3>4. s # 0 => join[s][h[step[s]]] = <<sym[s].c>> \o h[step[s]]
      BY <3>3
    <3>5. (s \in D <=> s = 0) /\ val[s] = <<>>
      OBVIOUS
    <3> HIDE DEF D, val, step, join
    <3> QED
      BY <3>1, <3>2, <3>4, <3>5
  <2> HIDE DEF S
  <2> QED
    BY <2>1, <1>3
<1> QED
  BY <1>1, <1>4 DEF Reads

\* What is read from a list whose symbols cover a text spells the text.
LEMMA WalkSpells ==
  ASSUME NEW json, IsJson(json), NEW text \in Seq(STRING), NEW n \in Nat, n = Len(text), n > 0,
         Chain(sym, n), Linked(sym), Covers(json, text, sym), \A i \in 1..n : sym[i].c \in Int
  PROVE  Walk \in Seq(VocabIds(json)) /\ Spelling(json, Walk) = text
<1> DEFINE V == VocabIds(json)
<1>1. PICK f : Reads(f) /\ Walk = f[1]
  BY Readable, WalkReads
<1>2. f[0] = <<>> /\ \A i \in 1..n : f[i] = <<sym[i].c>> \o f[sym[i].next]
  <2>1. Positions \cup {0} = 0..n
    BY DEF Chain, Positions
  <2>2. f = [i \in 0..n |-> IF i = 0 THEN <<>> ELSE <<sym[i].c>> \o f[sym[i].next]]
    BY <1>1, <2>1 DEF Reads
  <2>3. \A i \in 0..n : f[i] = IF i = 0 THEN <<>> ELSE <<sym[i].c>> \o f[sym[i].next]
    BY <2>2, Zenon
  <2>4. 0 \in 0..n /\ \A i \in 1..n : i \in 0..n /\ i # 0
    OBVIOUS
  <2>5. f[0] = <<>>
    BY <2>3, <2>4, Zenon
  <2>6. ASSUME NEW i \in 1..n
        PROVE  f[i] = <<sym[i].c>> \o f[sym[i].next]
    BY <2>3, <2>4, Zenon
  <2> QED
    BY <2>5, <2>6, Zenon
<1> DEFINE Good(i) == f[i] \in Seq(V) /\ Spelling(json, f[i]) = SubSeq(text, i, n)
           N == {m \in 0..n : \A i \in Live : i > n - m => Good(i)}
<1>3. 0 \in N
  <2>1. \A i \in Live : ~ i > n - 0
    BY DEF Live, LiveIn, Chain
  <2> QED
    BY <2>1
<1>4. ASSUME NEW m \in Nat, m < n, m \in N
      PROVE  m + 1 \in N
  <2>1. ASSUME NEW i \in Live, i > n - (m + 1)
        PROVE  Good(i)
    <3> DEFINE c == sym[i].c
               j == sym[i].next
    <3>1. i \in 1..n /\ c \in V /\ TextOf(json, c) = Segment(text, sym, i)
      BY DEF Live, LiveIn, Chain, Covers
    <3>2. <<c>> \in Seq(V) /\ Spelling(json, <<c>>) = TextOf(json, c)
      BY <3>1, SpellOne
    <3>3. CASE j = 0
      <4>1. f[i] = <<c>> \o <<>>
        BY <3>1, <3>3, <1>2
      <4>2. f[i] = <<c>>
        BY <4>1
      <4>3. Segment(text, sym, i) = SubSeq(text, i, n)
        BY <3>3 DEF Segment
      <4> QED
        BY <3>1, <3>2, <4>2, <4>3
    <3>4. CASE j # 0
      <4>1. j \in Live /\ j \in 1..n /\ i < j
        BY <3>4, NextIsLive DEF Live
      <4>2. j > n - m
        BY <4>1, <3>1, <2>1, <1>4
      <4>3. f[j] \in Seq(V) /\ Spelling(json, f[j]) = SubSeq(text, j, n)
        BY <4>1, <4>2, <1>4
      <4>4. f[i] = <<c>> \o f[j]
        BY <3>1, <1>2
      <4>5. f[i] \in Seq(V)
        BY <3>2, <4>3, <4>4, ConcatProperties
      <4>6. Spelling(json, f[i]) = TextOf(json, c) \o SubSeq(text, j, n)
        BY <3>2, <4>3, <4>4, SpellConcat
      <4>7. TextOf(json, c) = SubSeq(text, i, j - 1)
        BY <3>1, <3>4 DEF Segment
      <4>8. SubSeq(text, i, j - 1) \o SubSeq(text, j, n) = SubSeq(text, i, n)
        <5> DEFINE k == j - 1
        <5>1. i \in 1..Len(text) + 1 /\ k \in i - 1..Len(text) /\ n \in k..Len(text) /\ k + 1 = j
          BY <3>1, <4>1
        <5> HIDE DEF k
        <5>2. SubSeq(text, i, k) \o SubSeq(text, k + 1, n) = SubSeq(text, i, n)
          BY <5>1, ConcatAdjacentSubSeq
        <5> QED
          BY <5>1, <5>2 DEF k
      <4> QED
        BY <4>5, <4>6, <4>7, <4>8
    <3> QED
      BY <3>3, <3>4
  <2> QED
    BY <2>1, <1>4
<1>5. n \in N
  <2> HIDE DEF N
  <2> QED
    BY <1>3, <1>4, UpTo
<1>6. 1 \in Live /\ 1 > n - n
  BY DEF Live, LiveIn, Chain
<1>7. Good(1)
  BY <1>5, <1>6
<1>8. SubSeq(text, 1, n) = text
  BY SubSeqFull
<1> QED
  BY <1>1, <1>7, <1>8

(***************************************************************************)
(* Calls.                                                                  *)
(***************************************************************************)

\* What a call of a loaded model is made of.
LEMMA CallIs ==
  ASSUME NEW cl \in Calls
  PROVE  /\ IsJson(cl.json) /\ Loads(cl.json) /\ IsCall(cl) /\ cl.text \in Seq(STRING)
         /\ cl.table = parse_merges(cl.json)
         /\ cl.tokens = Tokens(cl.json, cl.text, cl.raw)
         /\ cl.whole = IF cl.raw THEN whole_pretoken_id(cl.json, cl.text)
                       ELSE whole_token(cl.json, Orphans(cl.json), cl.text)
<1>1. /\ IsJson(cl.json) /\ Loads(cl.json) /\ cl.text \in Seq(STRING)
      /\ cl \in CallsOf(cl.json, cl.file, {cl.text}, {cl.raw})
  BY ModelsAssumption
<1>2. IsCall(cl)
  BY CallsAssumption
<1>3. PICK text \in {cl.text}, raw \in {cl.raw} :
        cl = [json |-> cl.json, file |-> cl.file, text |-> text, raw |-> raw,
              table |-> parse_merges(cl.json), tokens |-> Tokens(cl.json, text, raw),
              whole |-> IF raw THEN whole_pretoken_id(cl.json, text)
                        ELSE whole_token(cl.json, Orphans(cl.json), text)]
  BY <1>1 DEF CallsOf
<1> QED
  BY <1>1, <1>2, <1>3

\* The ids of characters of the vocabulary.
LEMMA CharIdsType ==
  ASSUME NEW json, IsJson(json), NEW text \in Seq(STRING), InVocab(json, text)
  PROVE  /\ CharIds(json, text) \in Seq(VocabIds(json))
         /\ Len(CharIds(json, text)) = Len(text)
         /\ \A i \in 1..Len(text) : CharIds(json, text)[i] = json.vocab[<<text[i]>>]
<1>1. \A i \in 1..Len(text) : json.vocab[<<text[i]>>] \in VocabIds(json)
  BY DEF InVocab, VocabIds
<1>2. Len(text) \in Nat
  OBVIOUS
<1>3. CharIds(json, text) \in [1..Len(text) -> VocabIds(json)]
  BY <1>1 DEF CharIds
<1>4. CharIds(json, text) \in Seq(VocabIds(json)) /\ Len(CharIds(json, text)) = Len(text)
  BY <1>2, <1>3, Tabled
<1> QED
  BY <1>4 DEF CharIds

\* If every character has an id, these are the tokens to merge.
LEMMA TokensAre ==
  ASSUME NEW json, IsJson(json), NEW text \in Seq(STRING), InVocab(json, text), NEW raw
  PROVE  Tokens(json, text, raw) = CharIds(json, text)
<1> DEFINE ids == CharIds(json, text)
           Ids(char) == IF Known(json, char) THEN <<json.vocab[<<char>>]>> ELSE json.fallback[char]
<1>1. \A i \in 1..Len(text) : Known(json, text[i])
  BY DEF InVocab, Known
<1>2. Tokens(json, text, raw) = FlattenSeq([i \in 1..Len(text) |-> Ids(text[i])])
  BY <1>1 DEF Tokens
<1>3. ids \in Seq(VocabIds(json)) /\ Len(ids) = Len(text)
      /\ \A i \in 1..Len(text) : ids[i] = json.vocab[<<text[i]>>]
  BY CharIdsType
<1>4. [i \in 1..Len(text) |-> Ids(text[i])] = [i \in 1..Len(ids) |-> <<ids[i]>>]
  <2> HIDE DEF ids
  <2> QED
    BY <1>1, <1>3
<1> HIDE DEF ids
<1>5. FlattenSeq([i \in 1..Len(ids) |-> <<ids[i]>>]) = ids
  BY <1>3, FlattenSingles
<1> QED
  BY <1>2, <1>4, <1>5 DEF ids

\* What a pair makes, and that it makes their texts together.
LEMMA PairText ==
  ASSUME NEW json, IsJson(json), Loads(json), NEW l, NEW r,
         <<l, r>> \in DOMAIN parse_merges(json)
  PROVE  /\ l \in VocabIds(json) /\ r \in VocabIds(json)
         /\ parse_merges(json)[<<l, r>>].id \in VocabIds(json)
         /\ Distinct(json) => TextOf(json, parse_merges(json)[<<l, r>>].id)
                                = TextOf(json, l) \o TextOf(json, r)
<1> DEFINE L == Len(json.merges)
           Is(k) == IdPair(json, k) = <<l, r>>
           IsLast(k) == Is(k) /\ \A s \in (k + 1)..L : ~ Is(s)
           last == CHOOSE k \in 1..L : IsLast(k)
<1>0. L \in Nat
  BY DEF IsJson
<1>1. PICK k \in 1..L : Is(k)
  BY DEF parse_merges
<1>2. last \in 1..L /\ Is(last)
  <2> DEFINE D == {m \in Nat : \E s \in 1..L : Is(s) /\ m = L - s}
  <2>1. D \in SUBSET Nat /\ L - k \in D
    BY <1>0, <1>1
  <2> HIDE DEF D
  <2>2. PICK m \in D : \A e \in D : m <= e
    BY <2>1, Least
  <2> HIDE DEF Is
  <2>3. PICK s \in 1..L : Is(s) /\ m = L - s
    BY <2>2 DEF D
  <2>4. ASSUME NEW q \in (s + 1)..L, Is(q)
        PROVE  FALSE
    <3>1. q \in 1..L /\ L - q \in Nat /\ L - q < L - s
      BY <1>0, <2>3
    <3>2. L - q \in D
      BY <3>1, <2>4 DEF D
    <3> QED
      BY <3>1, <3>2, <2>2, <2>3, <1>0
  <2>5. IsLast(s)
    BY <2>3, <2>4
  <2>6. \E q \in 1..L : IsLast(q)
    BY <2>5
  <2> HIDE DEF IsLast
  <2>7. IsLast(last) /\ last \in 1..L
    BY <2>6
  <2> QED
    BY <2>7 DEF IsLast
<1>3. parse_merges(json)[<<l, r>>].id = json.vocab[Merged(json, last)]
  BY DEF parse_merges
<1> HIDE DEF last
<1>4. l = json.vocab[Left(json, last)] /\ r = json.vocab[Right(json, last)]
  BY <1>2 DEF IdPair
<1>5. {Left(json, last), Right(json, last), Merged(json, last)} \subseteq DOMAIN json.vocab
  BY <1>2 DEF Loads
<1>6. l \in VocabIds(json) /\ r \in VocabIds(json) /\ json.vocab[Merged(json, last)] \in VocabIds(json)
  BY <1>4, <1>5 DEF VocabIds
<1>7. ASSUME Distinct(json)
      PROVE  /\ TextOf(json, l) = Left(json, last) /\ TextOf(json, r) = Right(json, last)
             /\ TextOf(json, json.vocab[Merged(json, last)]) = Merged(json, last)
  BY <1>4, <1>5, <1>7, TextFound
<1> QED
  BY <1>3, <1>6, <1>7 DEF Merged

(***************************************************************************)
(* The symbols cover the text.                                             *)
(***************************************************************************)

\* At first each symbol stands for its character.
LEMMA SymbolsCover ==
  ASSUME NEW json, IsJson(json), Distinct(json), NEW text \in Seq(STRING), InVocab(json, text),
         NEW ids \in Seq(Nat), Len(ids) > 1, ids = CharIds(json, text)
  PROVE  Covers(json, text, Symbols(ids))
<1> DEFINE s == Symbols(ids)
           n == Len(ids)
<1>1. /\ LiveIn(s) = 1..n
      /\ \A i \in 1..n : s[i].c = ids[i] /\ s[i].next = IF i = n THEN 0 ELSE i + 1
  BY SymbolsChain
<1>2. n = Len(text) /\ \A i \in 1..n : ids[i] = json.vocab[<<text[i]>>]
  BY CharIdsType
<1> HIDE DEF s
<1>3. ASSUME NEW i \in 1..n
      PROVE  s[i].c \in VocabIds(json) /\ TextOf(json, s[i].c) = Segment(text, s, i)
  <2>1. <<text[i]>> \in DOMAIN json.vocab
    BY <1>2 DEF InVocab
  <2>2. s[i].c \in VocabIds(json) /\ TextOf(json, s[i].c) = <<text[i]>>
    BY <1>1, <1>2, <2>1, TextFound
  <2>3. Segment(text, s, i) = SubSeq(text, i, i)
    BY <1>1, <1>2 DEF Segment
  <2>4. SubSeq(text, i, i) = <<text[i]>>
    <3>1. i \in 1..Len(text) /\ i \in i..Len(text) /\ i + 1 \in Int /\ i < i + 1
      BY <1>2
    <3>2. SubSeq(text, i, i) = <<text[i]>> \o SubSeq(text, i + 1, i)
      BY <3>1, SubSeqRecursiveFirst
    <3>3. SubSeq(text, i + 1, i) = <<>>
      BY <3>1, SubSeqEmpty
    <3>4. <<text[i]>> \o <<>> = <<text[i]>>
      OBVIOUS
    <3> QED
      BY <3>2, <3>3, <3>4
  <2> QED
    BY <2>2, <2>3, <2>4
<1> QED
  BY <1>1, <1>3 DEF Covers, s

\* A merge puts two neighbouring parts together.
LEMMA AbsorbedCovers ==
  ASSUME NEW json, NEW text \in Seq(STRING), NEW n \in Nat, n = Len(text),
         Chain(sym, n), Linked(sym), Covers(json, text, sym),
         NEW i \in Live, sym[i].next # 0, NEW id \in VocabIds(json), NEW dead,
         TextOf(json, id) = TextOf(json, sym[i].c) \o TextOf(json, sym[sym[i].next].c),
         NEW t, t = Absorbed(i, id, dead)
  PROVE  Covers(json, text, t)
<1> DEFINE j == sym[i].next
           k == IF sym[j].next = 0 THEN n ELSE sym[j].next - 1
<1>1. /\ Chain(t, n) /\ LiveIn(t) = Live \ {j} /\ t[i].c = id
      /\ \A p \in 1..n : p \notin {i, j} => t[p].c = sym[p].c
      /\ t[i].next = sym[j].next
      /\ \A p \in 1..n : p # i => t[p].next = sym[p].next
  BY AbsorbedChain
<1>2. i \in 1..n /\ j \in 1..n /\ i < j /\ j \in Live
  BY NextIsLive DEF Live
<1>3. ASSUME NEW p \in LiveIn(t), p # i
      PROVE  t[p].c \in VocabIds(json) /\ TextOf(json, t[p].c) = Segment(text, t, p)
  <2>1. p \in Live /\ p # j /\ p \in 1..n
    BY <1>1 DEF LiveIn, Chain
  <2>2. t[p].c = sym[p].c /\ t[p].next = sym[p].next
    BY <1>1, <1>3, <2>1
  <2>3. sym[p].c \in VocabIds(json) /\ TextOf(json, sym[p].c) = Segment(text, sym, p)
    BY <2>1 DEF Covers, Live
  <2> QED
    BY <2>2, <2>3 DEF Segment
<1>4. TextOf(json, id) = Segment(text, t, i)
  <2>1. TextOf(json, sym[i].c) = SubSeq(text, i, j - 1)
    BY DEF Covers, Live, Segment
  <2>2. TextOf(json, sym[j].c) = SubSeq(text, j, k)
    BY <1>2 DEF Covers, Live, Segment
  <2>3. Segment(text, t, i) = SubSeq(text, i, k)
    BY <1>1 DEF Segment
  <2>4. k \in j..n
    <3>1. sym[j].next \in {0} \cup (j + 1)..n
      BY <1>2 DEF Chain
    <3> QED
      BY <1>2, <3>1
  <2>5. SubSeq(text, i, j - 1) \o SubSeq(text, j, k) = SubSeq(text, i, k)
    <3> DEFINE m == j - 1
    <3>1. i \in 1..Len(text) + 1 /\ m \in i - 1..Len(text) /\ k \in m..Len(text) /\ m + 1 = j
      BY <1>2, <2>4
    <3> HIDE DEF m, k
    <3>2. SubSeq(text, i, m) \o SubSeq(text, m + 1, k) = SubSeq(text, i, k)
      BY <3>1, ConcatAdjacentSubSeq
    <3> QED
      BY <3>1, <3>2 DEF m
  <2> HIDE DEF j, k
  <2> QED
    BY <2>1, <2>2, <2>3, <2>5 DEF j
<1> QED
  BY <1>1, <1>3, <1>4 DEF Covers

\* Characters are spelled by their ids.
LEMMA CharsSpell ==
  ASSUME NEW json, IsJson(json), Distinct(json), NEW text \in Seq(STRING), InVocab(json, text)
  PROVE  Spelling(json, CharIds(json, text)) = text
<1> DEFINE ids == CharIds(json, text)
<1>1. Len(ids) = Len(text) /\ \A i \in 1..Len(text) : ids[i] = json.vocab[<<text[i]>>]
  BY CharIdsType
<1>2. \A i \in 1..Len(text) : TextOf(json, json.vocab[<<text[i]>>]) = <<text[i]>>
  BY TextFound DEF InVocab
<1> HIDE DEF ids
<1>3. [i \in 1..Len(ids) |-> TextOf(json, ids[i])] = [i \in 1..Len(text) |-> <<text[i]>>]
  BY <1>1, <1>2
<1> QED
  BY <1>3, FlattenSingles DEF Spelling, ids

\* A text found as a whole is the text of its token.
LEMMA WholeText ==
  ASSUME NEW cl \in Calls, cl.whole # Invalid
  PROVE  /\ cl.text \in DOMAIN cl.json.vocab /\ cl.whole = cl.json.vocab[cl.text]
         /\ ~ cl.raw => cl.text \notin Orphans(cl.json)
<1>1. cl.whole = IF cl.raw THEN whole_pretoken_id(cl.json, cl.text)
                 ELSE whole_token(cl.json, Orphans(cl.json), cl.text)
  BY CallIs
<1>2. Invalid = INVALID_TOKEN
  BY ModelsAssumption
<1>3. CASE cl.raw
  BY <1>1, <1>2, <1>3 DEF whole_pretoken_id
<1>4. CASE ~ cl.raw
  BY <1>1, <1>2, <1>4 DEF whole_token
<1> QED
  BY <1>3, <1>4

\* NoFallback says that the text is one of characters of the vocabulary.
LEMMA NoFallbackIs ==
  ASSUME call \in Calls, NoFallback
  PROVE  /\ InVocab(call.json, call.text)
         /\ call.tokens = CharIds(call.json, call.text) /\ Len(call.tokens) = Len(call.text)
<1>1. InVocab(call.json, call.text)
  BY DEF NoFallback, Known, InVocab
<1> QED
  BY <1>1, CallIs, TokensAre, CharIdsType

(***************************************************************************)
(* What is answered spells the text.                                       *)
(***************************************************************************)

\* The answer to a call without merges.
LEMMA UnmergedSpells ==
  ASSUME NEW cl \in Calls, InVocab(cl.json, cl.text), Distinct(cl.json),
         cl.whole # Invalid \/ Len(cl.tokens) = 1
  PROVE  Spelling(cl.json, IF cl.whole # Invalid THEN <<cl.whole>> ELSE cl.tokens) = cl.text
<1>1. IsJson(cl.json) /\ cl.text \in Seq(STRING)
      /\ cl.tokens = Tokens(cl.json, cl.text, cl.raw)
  BY CallIs
<1>2. CASE cl.whole # Invalid
  <2>1. cl.text \in DOMAIN cl.json.vocab /\ cl.whole = cl.json.vocab[cl.text]
    BY <1>2, WholeText
  <2>2. cl.whole \in VocabIds(cl.json) /\ TextOf(cl.json, cl.whole) = cl.text
    BY <1>1, <2>1, TextFound
  <2>3. Spelling(cl.json, <<cl.whole>>) = cl.text
    BY <1>1, <2>2, SpellOne
  <2> QED
    BY <1>2, <2>3
<1>3. CASE cl.whole = Invalid
  <2>1. cl.tokens = CharIds(cl.json, cl.text)
    BY <1>1, TokensAre
  <2>2. Spelling(cl.json, cl.tokens) = cl.text
    BY <1>1, <2>1, CharsSpell
  <2> QED
    BY <1>3, <2>2
<1> QED
  BY <1>2, <1>3

\* A call without merges is answered at once.
LEMMA BeginWholeKeeps ==
  ASSUME TextInv, BeginWhole
  PROVE  TextInv'
<1>1. PICK cl \in Calls :
        /\ cl.whole # Invalid \/ Len(cl.tokens) = 1
        /\ call' = cl /\ pc' = "done"
        /\ out' = IF cl.whole # Invalid THEN <<cl.whole>> ELSE cl.tokens
  BY DEF BeginWhole
<1>2. ASSUME NoFallback', Distinct(cl.json)
      PROVE  Spelling(cl.json, out') = cl.text
  <2>1. InVocab(cl.json, cl.text)
    BY <1>1, <1>2 DEF NoFallback, Known, InVocab
  <2> QED
    BY <1>1, <1>2, <2>1, UnmergedSpells
<1>3. Spells'
  BY <1>1, <1>2 DEF Spells, Spelling
<1>4. ~ Active'
  BY <1>1 DEF Active
<1> QED
  BY <1>1, <1>3, <1>4 DEF TextInv

\* The list of a new call covers its text.
LEMMA BeginMergingKeeps ==
  ASSUME TextInv, BeginHeap \/ BeginScan
  PROVE  TextInv'
<1>1. PICK cl \in Calls :
        Merging(cl) /\ call' = cl /\ sym' = Symbols(cl.tokens) /\ pc' \in {"heap", "scan"}
  BY DEF BeginHeap, BeginScan
<1>2. cl.whole = Invalid /\ Len(cl.tokens) > 1
  BY <1>1 DEF Merging
<1>3. /\ IsJson(cl.json) /\ cl.text \in Seq(STRING) /\ cl.tokens \in Seq(Nat)
      /\ cl.tokens = Tokens(cl.json, cl.text, cl.raw)
  BY CallIs DEF IsCall
<1>4. ASSUME NoFallback', Distinct(cl.json)
      PROVE  Covers(cl.json, cl.text, sym')
  <2>1. InVocab(cl.json, cl.text)
    BY <1>1, <1>4 DEF NoFallback, Known, InVocab
  <2>2. cl.tokens = CharIds(cl.json, cl.text)
    BY <1>3, <2>1, TokensAre
  <2> QED
    BY <1>1, <1>2, <1>3, <1>4, <2>1, <2>2, SymbolsCover
<1>5. ~ Answered' /\ pc' # "done"
  BY <1>1 DEF Answered
<1> QED
  BY <1>1, <1>2, <1>4, <1>5 DEF TextInv, Spells

\* A pair of neighbours is merged.
LEMMA MergeKeeps ==
  ASSUME IInv, TextInv, Active, NEW i, Mergeable(i), NEW dead,
         sym' = Absorbed(i, Adj(sym[i].c, sym[sym[i].next].c).id, dead),
         UNCHANGED <<pc, call, out>>
  PROVE  TextInv'
<1> DEFINE l == sym[i].c
           r == sym[sym[i].next].c
           id == Adj(l, r).id
           n == Len(call.tokens)
<1>1. i \in Live /\ sym[i].next # 0 /\ <<l, r>> \in DOMAIN call.table
  BY DEF Mergeable, Adjacent
<1>2. n \in Nat /\ Chain(sym, n) /\ Linked(sym)
  BY TypesOfActive DEF IInv
<1>3. call \in Calls
  BY DEF TextInv, Active
<1>4. IsJson(call.json) /\ Loads(call.json) /\ call.text \in Seq(STRING)
      /\ call.table = parse_merges(call.json)
  BY <1>3, CallIs
<1>5. /\ id \in VocabIds(call.json)
      /\ Distinct(call.json) =>
            TextOf(call.json, id) = TextOf(call.json, l) \o TextOf(call.json, r)
  BY <1>1, <1>4, PairText DEF Adj
<1>6. ASSUME NoFallback, Distinct(call.json)
      PROVE  Covers(call.json, call.text, sym')
  <2>1. n = Len(call.text)
    BY <1>3, <1>6, NoFallbackIs
  <2>2. Covers(call.json, call.text, sym)
    BY <1>6 DEF TextInv
  <2> HIDE DEF n, id
  <2>3. TextOf(call.json, id) = TextOf(call.json, sym[i].c) \o TextOf(call.json, sym[sym[i].next].c)
    BY <1>5, <1>6
  <2>4. sym' = Absorbed(i, id, dead)
    BY DEF id
  <2> HIDE DEF l, r
  <2> QED
    BY <1>1, <1>2, <1>4, <1>5, <2>1, <2>2, <2>3, <2>4, AbsorbedCovers
<1>7. ~ Answered' /\ pc' # "done"
  BY DEF Answered, Active
<1> QED
  BY <1>3, <1>6, <1>7 DEF TextInv, Spells, NoFallback, Active

\* The entry that is popped is of a pair of neighbours.
LEMMA PopMergeKeepsText ==
  ASSUME IInv, TextInv, PopMerge
  PROVE  TextInv'
<1>1. PICK e \in heap :
        /\ pc = "heap" /\ Fits(e) /\ UNCHANGED <<pc, call, ranks, out>>
        /\ sym' = Absorbed(e.pos, Adj(e.left, e.right).id, Invalid)
  BY DEF PopMerge
<1>2. Mergeable(e.pos) /\ e.left = sym[e.pos].c /\ e.right = sym[sym[e.pos].next].c
  BY <1>1, PoppedIsLive
<1>3. Active /\ UNCHANGED <<pc, call, out>>
  BY <1>1 DEF Active
<1>4. sym' = Absorbed(e.pos, Adj(sym[e.pos].c, sym[sym[e.pos].next].c).id, Invalid)
  BY <1>1, <1>2
<1> QED
  BY <1>2, <1>3, <1>4, MergeKeeps

\* So is the position of the best rank.
LEMMA ScanMergeKeepsText ==
  ASSUME IInv, TextInv, ScanMerge
  PROVE  TextInv'
<1>1. PICK i \in Positions :
        /\ pc = "scan" /\ BestRank(i) /\ UNCHANGED <<pc, call, heap, out>>
        /\ sym' = Absorbed(i, ranks[i].id, sym[sym[i].next].c)
  BY DEF ScanMerge
<1>2. ranks[i] = IF Mergeable(i) THEN Adj(sym[i].c, sym[sym[i].next].c) ELSE NoPair
  BY <1>1 DEF IInv, RanksKnow
<1>3. Mergeable(i) /\ ranks[i] = Adj(sym[i].c, sym[sym[i].next].c)
  BY <1>1, <1>2 DEF BestRank, Ranked
<1>4. Active /\ UNCHANGED <<pc, call, out>>
  BY <1>1 DEF Active
<1>5. sym' = Absorbed(i, Adj(sym[i].c, sym[sym[i].next].c).id, sym[sym[i].next].c)
  BY <1>1, <1>3
<1> QED
  BY <1>3, <1>4, <1>5, MergeKeeps

\* The list is read when it covers the text.
LEMMA EmitKeeps ==
  ASSUME IInv, TextInv, Emit
  PROVE  TextInv'
<1>1. out' = Walk /\ pc' = "done" /\ call' = call /\ Active
  BY DEF Emit, Active
<1>2. call \in Calls /\ call.whole = Invalid
  BY <1>1 DEF TextInv, Active
<1>3. IsJson(call.json) /\ call.text \in Seq(STRING)
  BY <1>2, CallIs
<1> DEFINE n == Len(call.tokens)
<1>4. n \in Nat /\ n > 1 /\ Chain(sym, n) /\ Linked(sym) /\ Positions = 1..n
  BY <1>1, TypesOfActive DEF IInv
<1>5. \A i \in 1..n : sym[i].c \in Int
  <2>1. Invalid \in Int
    BY ModelsAssumption DEF INVALID_TOKEN
  <2>2. CASE pc = "heap"
    BY <1>4, <2>1, <2>2 DEF IInv, HeapKnows
  <2>3. CASE pc = "scan"
    BY <1>4, <2>3 DEF IInv, RanksKnow
  <2> QED
    BY <1>1, <2>2, <2>3 DEF Active
<1>6. ASSUME NoFallback, Distinct(call.json)
      PROVE  Spelling(call.json, Walk) = call.text
  <2>1. n = Len(call.text)
    BY <1>2, <1>6, NoFallbackIs
  <2>2. Covers(call.json, call.text, sym)
    BY <1>1, <1>6 DEF TextInv
  <2>3. n > 0
    BY <1>4
  <2> HIDE DEF n
  <2> QED
    BY <1>3, <1>4, <1>5, <2>1, <2>2, <2>3, WalkSpells
<1>7. Spells'
  BY <1>1, <1>6 DEF Spells, Spelling, NoFallback
<1>8. ~ Active'
  BY <1>1 DEF Active
<1> QED
  BY <1>1, <1>2, <1>7, <1>8 DEF TextInv

\* Whatever has been merged, the symbols of the list still stand for the whole text,
\* one part each, in merge_all_raw_into and in merge_all_encoded_into.
THEOREM TextInvariance == Spec => []TextInv
<1>1. Init => TextInv
  BY DEF Init, TextInv, Active, Spells, Answered
<1>2. IInv /\ IInv' /\ TextInv /\ [Next]_vars => TextInv'
  <2> SUFFICES ASSUME IInv, TextInv, [Next]_vars
               PROVE  TextInv'
    OBVIOUS
  <2>1. CASE BeginFails
    BY <2>1 DEF BeginFails, TextInv, Active, Spells, Answered
  <2>2. CASE PopStale
    BY <2>2 DEF PopStale, TextInv, Active, Spells, Answered, NoFallback
  <2>3. CASE Return
    BY <2>3 DEF Return, TextInv, Active, Spells, Answered
  <2>4. CASE UNCHANGED vars
    BY <2>4 DEF vars, TextInv, Active, Spells, Answered, NoFallback
  <2> QED
    BY <2>1, <2>2, <2>3, <2>4, BeginWholeKeeps, BeginMergingKeeps, PopMergeKeepsText,
       ScanMergeKeepsText, EmitKeeps DEF Next
<1> QED
  BY <1>1, <1>2, Invariance, PTL DEF Spec

\* tokenize_into and tokenize_into_fused answer ids whose texts, put together, are the
\* pretoken, for every model that lists no id twice: the list is read without a gap.
THEOREM AlwaysSpells == Spec => []Spells
<1>1. TextInv => Spells
  BY DEF TextInv
<1> QED
  BY <1>1, TextInvariance, PTL

(***************************************************************************)
(* Merging a sequence of tokens.                                           *)
(***************************************************************************)

\* A table of merges, whatever model it is of.
IsTable(table) == \A pair \in DOMAIN table : table[pair] \in [rank : Nat, id : Nat]

PairsOf(table, ts) ==
    {i \in 1..(Len(ts) - 1) : <<ts[i], ts[i + 1]>> \in DOMAIN table}

\* BestAt finds a pair, if there is one.
LEMMA BestIs ==
  ASSUME NEW table, IsTable(table), NEW ts \in Seq(Int)
  PROVE  IF PairsOf(table, ts) = {} THEN BestAt(table, ts) = 0
         ELSE BestAt(table, ts) \in PairsOf(table, ts)
<1> DEFINE P == PairsOf(table, ts)
           Rank(i) == table[<<ts[i], ts[i + 1]>>].rank
           Best(i) == \A j \in P : Rank(i) < Rank(j) \/ (Rank(i) = Rank(j) /\ i <= j)
<1>1. BestAt(table, ts) = IF P = {} THEN 0 ELSE CHOOSE i \in P : Best(i)
  BY DEF BestAt, PairsOf
<1>2. \A i \in P : i \in Nat /\ Rank(i) \in Nat
  BY DEF PairsOf, IsTable
<1> HIDE DEF P, Rank
<1>3. ASSUME P # {}
      PROVE  \E i \in P : Best(i)
  <2> DEFINE R == {Rank(i) : i \in P}
  <2>1. R \in SUBSET Nat /\ R # {}
    BY <1>2, <1>3
  <2> HIDE DEF R
  <2>2. PICK m \in R : \A e \in R : m <= e
    BY <2>1, Least
  <2> DEFINE D == {i \in P : Rank(i) = m}
  <2>3. D \in SUBSET Nat /\ D # {}
    BY <1>2, <2>2 DEF R
  <2> HIDE DEF D
  <2>4. PICK i \in D : \A j \in D : i <= j
    BY <2>3, Least
  <2>5. i \in P /\ Rank(i) = m
    BY DEF D
  <2>6. ASSUME NEW j \in P
        PROVE  Rank(i) < Rank(j) \/ (Rank(i) = Rank(j) /\ i <= j)
    <3>1. m <= Rank(j) /\ Rank(j) \in Nat /\ m \in Nat
      BY <1>2, <2>1, <2>2 DEF R
    <3>2. Rank(j) = m => i <= j
      BY <2>4 DEF D
    <3> QED
      BY <3>1, <3>2, <2>5
  <2> QED
    BY <2>5, <2>6
<1> HIDE DEF Best
<1>4. P # {} => (CHOOSE i \in P : Best(i)) \in P
  BY <1>3
<1> QED
  BY <1>1, <1>4 DEF P

\* Two tokens become one.
LEMMA MergedType ==
  ASSUME NEW table, NEW T, NEW ts \in Seq(T), NEW i \in PairsOf(table, ts),
         table[<<ts[i], ts[i + 1]>>].id \in T
  PROVE  MergedAt(table, ts, i) \in Seq(T) /\ Len(MergedAt(table, ts, i)) = Len(ts) - 1
<1> DEFINE n == Len(ts)
           a == SubSeq(ts, 1, i - 1)
           x == <<table[<<ts[i], ts[i + 1]>>].id>>
           b == SubSeq(ts, i + 2, n)
<1>1. n \in Nat /\ i \in 1..(n - 1) /\ \A k \in 1..n : ts[k] \in T
  BY DEF PairsOf
<1> HIDE DEF n
<1>2. a \in Seq(T) /\ Len(a) = i - 1
  <2>1. 1 \in Int /\ i - 1 \in Int /\ \A k \in 1..(i - 1) : ts[k] \in T
    BY <1>1
  <2>2. Len(a) = IF 1 <= i - 1 THEN (i - 1) - 1 + 1 ELSE 0
    BY <2>1, SubSeqProperties
  <2>3. a \in Seq(T)
    BY <2>1, SubSeqProperties
  <2> HIDE DEF a
  <2> QED
    BY <1>1, <2>2, <2>3
<1>3. b \in Seq(T) /\ Len(b) = n - i - 1
  <2>1. i + 2 \in Int /\ n \in Int /\ \A k \in (i + 2)..n : ts[k] \in T
    BY <1>1
  <2>2. Len(b) = IF i + 2 <= n THEN n - (i + 2) + 1 ELSE 0
    BY <2>1, SubSeqProperties
  <2>3. b \in Seq(T)
    BY <2>1, SubSeqProperties
  <2> HIDE DEF b
  <2> QED
    BY <1>1, <2>2, <2>3
<1>4. x \in Seq(T) /\ Len(x) = 1
  OBVIOUS
<1>5. MergedAt(table, ts, i) = (a \o x) \o b
  BY DEF MergedAt, n
<1> HIDE DEF a, x, b
<1>6. a \o x \in Seq(T) /\ Len(a \o x) = Len(a) + Len(x)
  BY <1>2, <1>4, ConcatProperties
<1>7. (a \o x) \o b \in Seq(T) /\ Len((a \o x) \o b) = Len(a \o x) + Len(b)
  BY <1>3, <1>6, ConcatProperties
<1>8. Len((a \o x) \o b) = n - 1
  BY <1>1, <1>2, <1>3, <1>4, <1>6, <1>7
<1> QED
  BY <1>5, <1>7, <1>8 DEF n

\* A merge does not change what is spelled.
LEMMA MergedSpells ==
  ASSUME NEW json, IsJson(json), Loads(json), Distinct(json), NEW ts \in Seq(VocabIds(json)),
         NEW i \in PairsOf(parse_merges(json), ts)
  PROVE  /\ MergedAt(parse_merges(json), ts, i) \in Seq(VocabIds(json))
         /\ Spelling(json, MergedAt(parse_merges(json), ts, i)) = Spelling(json, ts)
<1> DEFINE V == VocabIds(json)
           n == Len(ts)
           a == SubSeq(ts, 1, i - 1)
           l == ts[i]
           r == ts[i + 1]
           id == parse_merges(json)[<<l, r>>].id
           b == SubSeq(ts, i + 2, n)
<1>1. n \in Nat /\ i \in 1..(n - 1) /\ <<l, r>> \in DOMAIN parse_merges(json)
  BY DEF PairsOf
<1>2. l \in V /\ r \in V /\ id \in V /\ TextOf(json, id) = TextOf(json, l) \o TextOf(json, r)
  BY <1>1, PairText
<1>3. MergedAt(parse_merges(json), ts, i) \in Seq(V)
  BY <1>2, MergedType
<1>4. MergedAt(parse_merges(json), ts, i) = (a \o <<id>>) \o b
  BY DEF MergedAt
<1>5. a \in Seq(V) /\ b \in Seq(V)
  <2>1. \A k \in 1..(i - 1) : ts[k] \in V
    BY <1>1
  <2>2. \A k \in (i + 2)..n : ts[k] \in V
    BY <1>1
  <2>3. a \in Seq(V)
    BY <1>1, <2>1, SubSeqProperties
  <2>4. b \in Seq(V)
    BY <1>1, <2>2, SubSeqProperties
  <2> QED
    BY <2>3, <2>4
<1>6. ts = a \o (<<l>> \o (<<r>> \o b))
  <2>1. i \in 1..Len(ts) /\ n \in i..Len(ts) /\ i + 1 \in 1..Len(ts) /\ n \in (i + 1)..Len(ts)
        /\ (i + 1) + 1 = i + 2
    BY <1>1
  <2>2. SubSeq(ts, i, n) = <<l>> \o SubSeq(ts, i + 1, n)
    BY <2>1, SubSeqRecursiveFirst
  <2>3. SubSeq(ts, i + 1, n) = <<r>> \o b
    BY <2>1, SubSeqRecursiveFirst
  <2>4. ts = a \o SubSeq(ts, i, n)
    <3> DEFINE m == i - 1
    <3>1. 1 \in 1..Len(ts) + 1 /\ m \in 1 - 1..Len(ts) /\ n \in m..Len(ts) /\ m + 1 = i
      BY <1>1
    <3> HIDE DEF m, n
    <3>2. SubSeq(ts, 1, m) \o SubSeq(ts, m + 1, n) = SubSeq(ts, 1, n)
      BY <3>1, ConcatAdjacentSubSeq
    <3>3. SubSeq(ts, 1, n) = ts
      BY SubSeqFull DEF n
    <3> QED
      BY <3>1, <3>2, <3>3 DEF m
  <2> HIDE DEF a, b, l, r, n
  <2> QED
    BY <2>2, <2>3, <2>4
<1> HIDE DEF a, b, l, r, id
<1>7. <<id>> \in Seq(V) /\ <<l>> \in Seq(V) /\ <<r>> \in Seq(V)
  BY <1>2
<1> DEFINE A == Spelling(json, a)
           B == Spelling(json, b)
           tl == TextOf(json, l)
           tr == TextOf(json, r)
<1>8. A \in Seq(STRING) /\ B \in Seq(STRING) /\ tl \in Seq(STRING) /\ tr \in Seq(STRING)
  BY <1>2, <1>5, SpellingType, TextListed
<1>9. /\ Spelling(json, <<id>>) = tl \o tr
      /\ Spelling(json, <<l>>) = tl /\ Spelling(json, <<r>>) = tr
  BY <1>2, SpellOne
<1>10. Spelling(json, (a \o <<id>>) \o b) = A \o ((tl \o tr) \o B)
  <2>1. <<id>> \o b \in Seq(V) /\ Spelling(json, <<id>> \o b) = (tl \o tr) \o B
    BY <1>5, <1>7, <1>9, SpellConcat, ConcatProperties
  <2>2. Spelling(json, a \o (<<id>> \o b)) = A \o ((tl \o tr) \o B)
    BY <1>5, <2>1, SpellConcat
  <2>3. Spelling(json, (a \o <<id>>) \o b) = Spelling(json, a \o (<<id>> \o b))
    <3>1. Three(V, a, <<id>>, b)
      BY <1>5, <1>7 DEF Three
    <3>2. (a \o <<id>>) \o b = a \o (<<id>> \o b)
      BY <3>1, Bracketed
    <3> QED
      BY <3>2, Zenon
  <2> QED
    BY <2>2, <2>3, Zenon
<1>11. Spelling(json, a \o (<<l>> \o (<<r>> \o b))) = A \o (tl \o (tr \o B))
  <2>1. <<r>> \o b \in Seq(V) /\ Spelling(json, <<r>> \o b) = tr \o B
    BY <1>5, <1>7, <1>9, SpellConcat, ConcatProperties
  <2>2. <<l>> \o (<<r>> \o b) \in Seq(V) /\ Spelling(json, <<l>> \o (<<r>> \o b)) = tl \o (tr \o B)
    BY <1>7, <1>9, <2>1, SpellConcat, ConcatProperties
  <2> QED
    BY <1>5, <2>2, SpellConcat
<1> HIDE DEF A, B, tl, tr
<1>12. (tl \o tr) \o B = tl \o (tr \o B)
  <2>1. Three(STRING, tl, tr, B)
    BY <1>8 DEF Three
  <2> QED
    BY <2>1, Bracketed
<1> QED
  BY <1>3, <1>4, <1>6, <1>10, <1>11, <1>12

\* BestAt says so if there is no pair.
LEMMA BestIsNone ==
  ASSUME NEW table, IsTable(table), NEW ts \in Seq(Int)
  PROVE  BestAt(table, ts) = 0 <=> PairsOf(table, ts) = {}
<1>1. 0 \notin PairsOf(table, ts)
  BY DEF PairsOf
<1> QED
  BY <1>1, BestIs

\* Where merging ends, and with which sequence: at the latest when no pair is left.
Ends(table, D, val) ==
  /\ \A ts \in Seq(Int) : PairsOf(table, ts) = {} => ts \in D
  /\ \A ts \in Seq(Int) : val[ts] \in Seq(Int)

\* Merging comes to an end, whatever it ends with: each merge leaves one token less.
LEMMA MergingEnds ==
  ASSUME NEW table, IsTable(table), NEW D, NEW val, Ends(table, D, val)
  PROVE  \E f : f = [ts \in Seq(Int) |-> IF ts \in D THEN val[ts]
                                          ELSE f[MergedAt(table, ts, BestAt(table, ts))]]
<1> DEFINE S == Seq(Int)
           After(ts) == MergedAt(table, ts, BestAt(table, ts))
           step == [ts \in S |-> After(ts)]
           join == [ts \in S |-> [x \in S |-> x]]
           size == [ts \in S |-> Len(ts)]
<1>1. ASSUME NEW ts \in S, ts \notin D
      PROVE  step[ts] \in S /\ size[step[ts]] < size[ts]
  <2> DEFINE i == BestAt(table, ts)
  <2>1. i \in PairsOf(table, ts)
    BY <1>1, BestIs DEF Ends
  <2>2. table[<<ts[i], ts[i + 1]>>].id \in Int
    BY <2>1 DEF PairsOf, IsTable
  <2> HIDE DEF i
  <2>3. MergedAt(table, ts, i) \in S /\ Len(MergedAt(table, ts, i)) = Len(ts) - 1
    BY <2>1, <2>2, MergedType
  <2>4. After(ts) \in S /\ Len(After(ts)) = Len(ts) - 1 /\ Len(ts) \in Nat
    BY <2>3 DEF i
  <2>5. step[ts] = After(ts) /\ size[ts] = Len(ts)
    OBVIOUS
  <2> HIDE DEF After, step
  <2>6. size[step[ts]] = Len(step[ts])
    BY <2>4, <2>5
  <2> HIDE DEF size
  <2> QED
    BY <2>4, <2>5, <2>6
<1>2. \A ts \in S, x \in S : join[ts][x] = x
  OBVIOUS
<1>3. \A ts \in S : size[ts] \in Nat
  OBVIOUS
<1>4. S # {}
  BY EmptySeq
<1>5. \A ts \in S : step[ts] = After(ts)
  OBVIOUS
<1> HIDE DEF After, step, join, size, S
<1>6. WellFounded(S, S, D, val, step, join, size)
  BY <1>1, <1>2, <1>3, <1>4 DEF WellFounded, S, Ends
<1>7. PICK h \in [S -> S] : h = [s \in S |-> IF s \in D THEN val[s] ELSE join[s][h[step[s]]]]
  BY <1>6, Recursion
<1>8. ASSUME NEW ts \in S
      PROVE  h[ts] = IF ts \in D THEN val[ts] ELSE h[After(ts)]
  <2>1. h[ts] = IF ts \in D THEN val[ts] ELSE join[ts][h[step[ts]]]
    BY <1>7
  <2>2. ts \notin D => step[ts] \in S
    BY <1>1
  <2>3. ts \notin D => h[step[ts]] \in S
    BY <2>2
  <2> QED
    BY <2>1, <2>3, <1>2, <1>5
<1>9. h = [ts \in S |-> IF ts \in D THEN val[ts] ELSE h[After(ts)]]
  BY <1>7, <1>8
<1> QED
  BY <1>9 DEF S, After

\* f merges until no pair is left.
MergesAll(table, f) ==
  f = [ts \in Seq(Int) |->
        LET i == BestAt(table, ts) IN IF i = 0 THEN ts ELSE f[MergedAt(table, ts, i)]]

\* Merges is the value of such a function, if there is one.
LEMMA MergesBy ==
  ASSUME NEW table, NEW ids, \E f : MergesAll(table, f)
  PROVE  \E f : MergesAll(table, f) /\ Merges(table, ids) = f[ids]
BY DEF MergesAll, Merges

\* What it does with a sequence.
Merger(table, f) ==
  \A ts \in Seq(Int) :
     f[ts] = IF PairsOf(table, ts) = {} THEN ts
             ELSE f[MergedAt(table, ts, BestAt(table, ts))]

\* There is one.
LEMMA MergesIs ==
  ASSUME NEW table, IsTable(table), NEW ids
  PROVE  \E f : Merges(table, ids) = f[ids] /\ Merger(table, f)
<1> DEFINE D == {ts \in Seq(Int) : PairsOf(table, ts) = {}}
           val == [ts \in Seq(Int) |-> ts]
<1>1. \A ts \in Seq(Int) : BestAt(table, ts) = 0 <=> PairsOf(table, ts) = {}
  BY BestIsNone
<1>2. Ends(table, D, val)
  BY DEF Ends
<1>3. \A ts \in Seq(Int) : val[ts] = ts /\ (ts \in D <=> PairsOf(table, ts) = {})
  OBVIOUS
<1> HIDE DEF D, val
<1>4. PICK f : f = [ts \in Seq(Int) |-> IF ts \in D THEN val[ts]
                                         ELSE f[MergedAt(table, ts, BestAt(table, ts))]]
  BY <1>2, MergingEnds
<1>5. MergesAll(table, f)
  <2>1. \A ts \in Seq(Int) :
          f[ts] = IF BestAt(table, ts) = 0 THEN ts ELSE f[MergedAt(table, ts, BestAt(table, ts))]
    BY <1>1, <1>3, <1>4
  <2> QED
    BY <1>4, <2>1 DEF MergesAll
<1>6. PICK g : MergesAll(table, g) /\ Merges(table, ids) = g[ids]
  BY <1>5, MergesBy
<1>7. \A ts \in Seq(Int) :
        g[ts] = IF BestAt(table, ts) = 0 THEN ts ELSE g[MergedAt(table, ts, BestAt(table, ts))]
  BY <1>6 DEF MergesAll
<1>8. Merger(table, g)
  BY <1>1, <1>7 DEF Merger
<1> QED
  BY <1>6, <1>8

\* g merges until two tokens are left.
MergesToTwo(table, g) ==
  g = [ts \in Seq(Int) |->
        IF Len(ts) <= 2 THEN ts
        ELSE LET i == BestAt(table, ts)
             IN  IF i = 0 THEN Stuck ELSE g[MergedAt(table, ts, i)]]

\* A decomposition is the value of such a function, if there is one.
LEMMA DecompositionBy ==
  ASSUME NEW table, NEW ids, \E g : MergesToTwo(table, g)
  PROVE  \E g : MergesToTwo(table, g) /\ encoding_decomposition(table, ids) = g[ids]
BY DEF MergesToTwo, encoding_decomposition

\* What it does with a sequence.
Halver(table, g) ==
  \A ts \in Seq(Int) :
     g[ts] = IF Len(ts) <= 2 THEN ts
             ELSE IF PairsOf(table, ts) = {} THEN Stuck
             ELSE g[MergedAt(table, ts, BestAt(table, ts))]

\* There is one.
LEMMA DecompositionIs ==
  ASSUME NEW table, IsTable(table), NEW ids
  PROVE  \E g : encoding_decomposition(table, ids) = g[ids] /\ Halver(table, g)
<1> DEFINE D == {ts \in Seq(Int) : Len(ts) <= 2 \/ PairsOf(table, ts) = {}}
           val == [ts \in Seq(Int) |-> IF Len(ts) <= 2 THEN ts ELSE Stuck]
<1>1. \A ts \in Seq(Int) : BestAt(table, ts) = 0 <=> PairsOf(table, ts) = {}
  BY BestIsNone
<1>2. Ends(table, D, val)
  <2>1. Stuck \in Seq(Int)
    BY EmptySeq DEF Stuck
  <2> QED
    BY <2>1 DEF Ends
<1>3. \A ts \in Seq(Int) : /\ val[ts] = IF Len(ts) <= 2 THEN ts ELSE Stuck
                           /\ ts \in D <=> (Len(ts) <= 2 \/ PairsOf(table, ts) = {})
  OBVIOUS
<1> HIDE DEF D, val
<1>4. PICK g : g = [ts \in Seq(Int) |-> IF ts \in D THEN val[ts]
                                         ELSE g[MergedAt(table, ts, BestAt(table, ts))]]
  BY <1>2, MergingEnds
<1>5. MergesToTwo(table, g)
  <2>1. \A ts \in Seq(Int) :
          g[ts] = IF Len(ts) <= 2 THEN ts
                  ELSE IF BestAt(table, ts) = 0 THEN Stuck
                  ELSE g[MergedAt(table, ts, BestAt(table, ts))]
    BY <1>1, <1>3, <1>4
  <2> QED
    BY <1>4, <2>1 DEF MergesToTwo
<1>6. PICK h : MergesToTwo(table, h) /\ encoding_decomposition(table, ids) = h[ids]
  BY <1>5, DecompositionBy
<1>7. \A ts \in Seq(Int) :
        h[ts] = IF Len(ts) <= 2 THEN ts
                ELSE IF BestAt(table, ts) = 0 THEN Stuck
                ELSE h[MergedAt(table, ts, BestAt(table, ts))]
  BY <1>6 DEF MergesToTwo
<1>8. Halver(table, h)
  BY <1>1, <1>7 DEF Halver
<1> QED
  BY <1>6, <1>8

(***************************************************************************)
(* Tokens found as a whole.                                                *)
(***************************************************************************)

\* Ids are numbers.
LEMMA IdsAreInts ==
  ASSUME NEW json, IsJson(json), NEW ts \in Seq(VocabIds(json))
  PROVE  ts \in Seq(Int)
<1>1. VocabIds(json) \subseteq Int
  BY DEF VocabIds, IsJson
<1> HIDE DEF VocabIds
<1> QED
  BY <1>1, SeqMonotonic

\* What becomes of ts, and that nothing else becomes of what it is decomposed into.
Decomposed(json, ts, f, g) ==
  /\ g[ts] \in Seq(VocabIds(json)) /\ Len(g[ts]) = 2
  /\ f[g[ts]] = f[ts]
  /\ Spelling(json, g[ts]) = Spelling(json, ts)

\* Merging to two tokens and then on is merging.
LEMMA DecompositionMerges ==
  ASSUME NEW json, IsJson(json), Loads(json), Distinct(json),
         NEW table, IsTable(table), table = parse_merges(json),
         NEW f, Merger(table, f),
         NEW g, Halver(table, g),
         NEW ids \in Seq(VocabIds(json)), Len(ids) >= 2, g[ids] # Stuck
  PROVE  Decomposed(json, ids, f, g)
<1> DEFINE V == VocabIds(json)
           n == Len(ids)
           N == {m \in 0..n : \A ts \in Seq(V) :
                    Len(ts) >= 2 /\ Len(ts) <= m /\ g[ts] # Stuck => Decomposed(json, ts, f, g)}
<1>0. n \in Nat
  OBVIOUS
<1>1. 0 \in N
  OBVIOUS
<1>2. ASSUME NEW m \in Nat, m < n, m \in N
      PROVE  m + 1 \in N
  <2>1. ASSUME NEW ts \in Seq(V), Len(ts) >= 2, Len(ts) <= m + 1, g[ts] # Stuck
        PROVE  Decomposed(json, ts, f, g)
    <3>1. ts \in Seq(Int) /\ Len(ts) \in Nat
      BY IdsAreInts
    <3>2. CASE Len(ts) <= 2
      <4>1. g[ts] = ts
        BY <3>1, <3>2 DEF Halver
      <4>2. Len(ts) = 2
        <5> DEFINE k == Len(ts)
        <5>1. k \in Nat /\ k >= 2 /\ k <= 2
          BY <2>1, <3>1, <3>2
        <5> HIDE DEF k
        <5>2. k = 2
          BY <5>1
        <5> QED
          BY <5>2 DEF k
      <4> QED
        BY <4>1, <4>2 DEF Decomposed
    <3>3. CASE ~ Len(ts) <= 2
      <4> DEFINE i == BestAt(table, ts)
                 rest == MergedAt(table, ts, i)
      <4>1. PairsOf(table, ts) # {}
        BY <2>1, <3>1, <3>3 DEF Halver
      <4>2. i \in PairsOf(table, ts)
        BY <3>1, <4>1, BestIs
      <4>3. f[ts] = f[rest] /\ g[ts] = g[rest]
        BY <3>1, <3>3, <4>1 DEF Merger, Halver
      <4> HIDE DEF i
      <4>4. rest \in Seq(V) /\ Spelling(json, rest) = Spelling(json, ts)
        BY <4>2, MergedSpells
      <4>5. Len(rest) = Len(ts) - 1
        <5>1. table[<<ts[i], ts[i + 1]>>].id \in Int
          BY <4>2 DEF PairsOf, IsTable
        <5> QED
          BY <3>1, <4>2, <5>1, MergedType
      <4> HIDE DEF rest
      <4>6. Len(rest) >= 2 /\ Len(rest) <= m
        BY <2>1, <3>1, <3>3, <4>5, <1>2
      <4>7. Decomposed(json, rest, f, g)
        BY <2>1, <4>3, <4>4, <4>6, <1>2
      <4> QED
        BY <4>3, <4>4, <4>7 DEF Decomposed
    <3> QED
      BY <3>2, <3>3
  <2>2. m + 1 \in 0..n
    BY <1>0, <1>2
  <2> QED
    BY <2>1, <2>2
<1>3. n \in N
  <2> HIDE DEF N
  <2> QED
    BY <1>0, <1>1, <1>2, UpTo
<1> QED
  BY <1>0, <1>3

\* A pair that is listed makes the token that spells what the two spell.
LEMMA LastMerge ==
  ASSUME NEW json, IsJson(json), Loads(json), Distinct(json),
         NEW table, IsTable(table), table = parse_merges(json),
         NEW f, Merger(table, f),
         NEW d \in Seq(VocabIds(json)), Len(d) = 2, d \in DOMAIN table,
         NEW text \in DOMAIN json.vocab, Spelling(json, d) = text
  PROVE  f[d] = <<json.vocab[text]>>
<1> DEFINE V == VocabIds(json)
           i == BestAt(table, d)
           rest == MergedAt(table, d, i)
<1>1. d \in Seq(Int)
  BY IdsAreInts
<1>2. i \in PairsOf(table, d)
  <2>1. d = <<d[1], d[2]>>
    OBVIOUS
  <2>2. 1 \in PairsOf(table, d)
    <3>1. 1 \in 1..(Len(d) - 1) /\ 1 + 1 = 2
      OBVIOUS
    <3> QED
      BY <2>1, <3>1 DEF PairsOf
  <2> QED
    BY <1>1, <2>2, BestIs
<1>3. f[d] = f[rest]
  BY <1>1, <1>2 DEF Merger
<1> HIDE DEF i
<1>4. rest \in Seq(V) /\ Spelling(json, rest) = text
  BY <1>2, MergedSpells
<1>5. Len(rest) = 1
  <2>1. table[<<d[i], d[i + 1]>>].id \in Int
    BY <1>2 DEF PairsOf, IsTable
  <2>2. Len(MergedAt(table, d, i)) = Len(d) - 1
    BY <1>1, <1>2, <2>1, MergedType
  <2> QED
    BY <2>2
<1> HIDE DEF rest
<1>6. rest = <<rest[1]>> /\ rest[1] \in V
  <2>1. 1 \in 1..Len(rest)
    BY <1>5
  <2>2. rest[1] \in V
    BY <1>4, <2>1, ElementOfSeq
  <2> HIDE DEF V
  <2>3. rest \in Seq(V) /\ Len(rest) = 1
    BY <1>4, <1>5
  <2>4. rest = <<rest[1]>>
    BY <2>3
  <2> QED
    BY <2>2, <2>4
<1>7. Spelling(json, <<rest[1]>>) = TextOf(json, rest[1])
  BY <1>6, SpellOne
<1>8. TextOf(json, rest[1]) = text
  BY <1>4, <1>6, <1>7
<1>9. json.vocab[text] = rest[1]
  BY <1>6, <1>8, TextListed
<1>10. f[rest] = rest
  <2>1. rest \in Seq(Int)
    BY <1>4, IdsAreInts
  <2>2. PairsOf(table, rest) = {}
    BY <1>5 DEF PairsOf
  <2> QED
    BY <2>1, <2>2 DEF Merger
<1> QED
  BY <1>3, <1>6, <1>9, <1>10

\* The characters of a token found as a whole are merged to it.
LEMMA WholeMerged ==
  ASSUME NEW cl \in Calls, cl.whole # Invalid, ~ cl.raw, InVocab(cl.json, cl.text),
         Distinct(cl.json),
         LET left == encoding_decomposition(cl.table, CharIds(cl.json, cl.text))
         IN  Len(left) = 2 => left \in DOMAIN cl.table
  PROVE  Merges(cl.table, CharIds(cl.json, cl.text)) = <<cl.whole>>
<1> DEFINE json == cl.json
           text == cl.text
           table == cl.table
           ids == CharIds(json, text)
           V == VocabIds(json)
<1>1. /\ IsJson(json) /\ Loads(json) /\ IsCall(cl) /\ text \in Seq(STRING)
      /\ table = parse_merges(json)
  BY CallIs
<1>2. IsTable(table)
  BY <1>1 DEF IsTable, IsCall
<1>3. text \in DOMAIN json.vocab /\ cl.whole = json.vocab[text] /\ text \notin Orphans(json)
  BY WholeText
<1>4. ids \in Seq(V) /\ Len(ids) = Len(text) /\ Len(ids) \in Nat
      /\ \A i \in 1..Len(text) : ids[i] = json.vocab[<<text[i]>>]
  BY <1>1, CharIdsType
<1>5. ids \in Seq(Int)
  BY <1>1, <1>4, IdsAreInts
<1> HIDE DEF ids
<1>6. PICK f : Merges(table, ids) = f[ids] /\ Merger(table, f)
  BY <1>2, MergesIs
<1>7. CASE Len(text) < 2
  <2>1. Len(text) = 1
    <3>1. text # <<>>
      BY <1>1, <1>3 DEF Loads
    <3> DEFINE k == Len(text)
    <3>2. k \in Nat \ {0} /\ k < 2
      BY <1>1, <1>7, <3>1, EmptySeq
    <3> HIDE DEF k
    <3>3. k = 1
      BY <3>2
    <3> QED
      BY <3>3 DEF k
  <2>2. text = <<text[1]>>
    BY <1>1, <2>1
  <2>3. ids = <<cl.whole>>
    <3>1. ids = <<ids[1]>>
      BY <1>4, <2>1
    <3>2. ids[1] = json.vocab[<<text[1]>>]
      BY <1>4, <2>1
    <3> QED
      BY <1>3, <2>2, <3>1, <3>2
  <2>4. PairsOf(table, ids) = {}
    BY <1>4, <2>1 DEF PairsOf
  <2> QED
    BY <1>5, <1>6, <2>3, <2>4 DEF ids, Merger
<1>8. CASE ~ Len(text) < 2
  <2>1. Len(ids) >= 2
    BY <1>4, <1>8
  <2>2. PICK g : encoding_decomposition(table, ids) = g[ids] /\ Halver(table, g)
    BY <1>2, DecompositionIs
  <2>3. encoding_decomposition(table, ids) # Stuck
    <3>1. Decomposes(json, text)
      BY <1>4, <2>1 DEF Decomposes
    <3> QED
      BY <1>1, <1>3, <3>1 DEF Orphans, ids
  <2>4. Decomposed(json, ids, f, g)
    BY <1>1, <1>2, <1>4, <1>6, <2>1, <2>2, <2>3, DecompositionMerges
  <2> DEFINE d == g[ids]
  <2>5. d \in Seq(V) /\ Len(d) = 2 /\ f[d] = f[ids] /\ Spelling(json, d) = Spelling(json, ids)
    BY <2>4 DEF Decomposed
  <2>6. Spelling(json, ids) = text
    BY <1>1, CharsSpell DEF ids
  <2>7. d \in DOMAIN table
    BY <2>2, <2>5 DEF ids
  <2> HIDE DEF d
  <2>8. f[d] = <<json.vocab[text]>>
    BY <1>1, <1>2, <1>3, <1>6, <2>5, <2>6, <2>7, LastMerge
  <2> QED
    BY <1>3, <1>6, <2>5, <2>8 DEF ids
<1> QED
  BY <1>7, <1>8

\* The automaton of Bpe::new holds no token that merging would not make, except by a
\* last merge that is not listed: tokenize_into answers a pretoken
\* that it finds there as if it had merged its characters.
THEOREM WholeAnswersMerged == Spec => []WholeIsMerged
<1>1. TextInv => WholeIsMerged
  <2> SUFFICES ASSUME TextInv, FoundWhole, Distinct(call.json), LastMergeListed
               PROVE  out = Merges(call.table, CharIds(call.json, call.text))
    BY DEF WholeIsMerged
  <2>1. call \in Calls /\ out = <<call.whole>> /\ call.whole # Invalid /\ ~ call.raw /\ NoFallback
    BY DEF TextInv, FoundWhole, Answered
  <2>2. InVocab(call.json, call.text)
    BY <2>1, NoFallbackIs
  <2>3. Merges(call.table, CharIds(call.json, call.text)) = <<call.whole>>
    BY <2>1, <2>2, WholeMerged DEF LastMergeListed
  <2> QED
    BY <2>1, <2>3
<1> QED
  BY <1>1, TextInvariance, PTL
=============================================================================
