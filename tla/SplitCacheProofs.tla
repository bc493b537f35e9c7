-------------------------- MODULE SplitCacheProofs --------------------------
(***************************************************************************)
(* What the incremental cache of the PCRE2 tier guarantees, for any number *)
(* of Splits, any texts and any depth of nesting, when the only split of a *)
(* buffer is the whole buffer.                                             *)
(***************************************************************************)
EXTENDS SplitCache, SequenceTheorems, TLAPS

WholeBuffers == Margins = {<<0, 0>>}

\* Calls of different Splits never run inside each other.
OneAtATime == \A pair \in Nests : pair[1] = pair[2]

AllDecided == \A s \in Splits : Decided(PatternOf[s])

(* ----------------------------- Texts, spans ----------------------------- *)

LEMMA DropFacts ==
  ASSUME NEW x \in Texts, NEW n \in 0..Len(x)
  PROVE  /\ Drop(x, n) \in Texts
         /\ Len(Drop(x, n)) = Len(x) - n
         /\ \A i \in 1..(Len(x) - n) : Drop(x, n)[i] = x[n + i]
<1>1. x \in Seq(Chars)
  BY SplitAssumption
<1>2. Len(x) \in Nat
  BY <1>1, LenProperties
<1>3. Drop(x, n) \in Texts
  BY SplitAssumption
<1>4. Len(Drop(x, n)) = Len(x) - n
  BY <1>1, <1>2, SubSeqProperties DEF Drop
<1>5. \A i \in 1..(Len(x) - n) : Drop(x, n)[i] = x[n + i]
  <2> SUFFICES ASSUME NEW i \in 1..(Len(x) - n)
               PROVE  SubSeq(x, n + 1, Len(x))[i] = x[n + i]
    BY DEF Drop
  <2>1. i \in 1..(Len(x) - (n + 1) + 1) /\ (n + 1) + i - 1 = n + i
    BY <1>2
  <2> QED
    BY <1>1, <1>2, <2>1, SubSeqProperties
<1> QED
  BY <1>3, <1>4, <1>5

LEMMA FirstShape ==
  ASSUME NEW p \in Patterns, NEW x \in Texts, First(p, x) # NoMatch
  PROVE  /\ First(p, x)[1] \in Nat /\ First(p, x)[2] \in Nat
         /\ First(p, x)[1] < First(p, x)[2]
         /\ First(p, x)[2] <= Len(x)
<1>1. PICK s \in 0..Len(x), e \in 0..Len(x) : s < e /\ First(p, x) = <<s, e>>
  BY SplitAssumption
<1>2. Len(x) \in Nat
  BY SplitAssumption, LenProperties
<1> QED
  BY <1>1, <1>2

LEMMA PrefixFacts ==
  ASSUME NEW m \in Spans, NEW n \in 0..Len(m)
  PROVE  /\ SubSeq(m, 1, n) \in Spans
         /\ Len(SubSeq(m, 1, n)) = n
         /\ \A i \in 1..n : SubSeq(m, 1, n)[i] = m[i]
<1>1. m \in Seq(Nat \X Nat) /\ Len(m) \in Nat
  BY LenProperties DEF Spans
<1>2. Len(SubSeq(m, 1, n)) = n
  BY <1>1, SubSeqProperties
<1>3. \A i \in 1..n : SubSeq(m, 1, n)[i] = m[i]
  <2> SUFFICES ASSUME NEW i \in 1..n PROVE SubSeq(m, 1, n)[i] = m[i]
    OBVIOUS
  <2>1. i \in 1..(n - 1 + 1) /\ 1 + i - 1 = i
    OBVIOUS
  <2> QED
    BY <1>1, <2>1, SubSeqProperties
<1>4. SubSeq(m, 1, n) \in Spans
  BY <1>1, SubSeqProperties DEF Spans
<1> QED
  BY <1>2, <1>3, <1>4

LEMMA SpanFacts ==
  ASSUME NEW m \in Spans
  PROVE  /\ Len(m) \in Nat
         /\ \A i \in 1..Len(m) : m[i] \in Nat \X Nat
         /\ EndOf(m) \in Nat
         /\ m = <<>> <=> Len(m) = 0
         /\ m # <<>> => EndOf(m) = m[Len(m)][2]
<1>1. Len(m) \in Nat /\ (m = <<>> <=> Len(m) = 0)
  BY LenProperties, EmptySeq DEF Spans
<1>2. \A i \in 1..Len(m) : m[i] \in Nat \X Nat
  BY ElementOfSeq DEF Spans
<1>3. CASE m = <<>>
  BY <1>1, <1>2, <1>3 DEF EndOf
<1>4. CASE m # <<>>
  <2>1. Len(m) \in 1..Len(m)
    BY <1>1, <1>4
  <2> QED
    BY <1>1, <1>2, <1>4, <2>1 DEF EndOf
<1> QED
  BY <1>3, <1>4

(* ------------------------- What a call may reuse ------------------------ *)

LEMMA ReusedOrdered ==
  ASSUME NEW a \in Texts, NEW b \in Texts, NEW m \in Spans,
         NEW n \in 0..Len(m), Ordered(m, 0, Len(a)),
         \A i \in 1..n : Shared(a, b, m[i][2] + 1)
  PROVE  /\ Ordered(SubSeq(m, 1, n), 0, Len(b))
         /\ EndOf(SubSeq(m, 1, n)) <= Len(b)
<1> DEFINE r == SubSeq(m, 1, n)
<1>1. r \in Spans /\ Len(r) = n /\ \A i \in 1..n : r[i] = m[i]
  BY PrefixFacts
<1>2. Len(m) \in Nat /\ \A i \in 1..Len(m) : m[i] \in Nat \X Nat
  BY SpanFacts
<1>3. Len(b) \in Nat
  BY SplitAssumption, LenProperties
<1>4. \A i \in 1..n : m[i][2] <= Len(b)
  BY <1>2, <1>3 DEF Shared
<1>5. Ordered(r, 0, Len(b))
  <2> SUFFICES ASSUME NEW i \in 1..n
               PROVE  /\ (IF i = 1 THEN 0 ELSE r[i - 1][2]) <= r[i][1]
                      /\ r[i][1] < r[i][2]
                      /\ r[i][2] <= Len(b)
    BY <1>1 DEF Ordered
  <2>1. i \in 1..Len(m) /\ r[i] = m[i] /\ (i # 1 => r[i - 1] = m[i - 1])
    <3>1. i # 1 => i - 1 \in 1..n
      OBVIOUS
    <3> QED
      BY <1>1, <1>2, <3>1
  <2>2. /\ (IF i = 1 THEN 0 ELSE m[i - 1][2]) <= m[i][1]
        /\ m[i][1] < m[i][2]
    BY <2>1 DEF Ordered
  <2> QED
    BY <1>4, <2>1, <2>2
<1>6. EndOf(r) <= Len(b)
  <2>1. CASE r = <<>>
    BY <1>3, <2>1 DEF EndOf
  <2>2. CASE r # <<>>
    <3>1. EndOf(r) = r[Len(r)][2] /\ Len(r) # 0
      BY <1>1, <2>2, SpanFacts
    <3>2. n \in 1..n
      BY <1>1, <3>1
    <3> QED
      BY <1>1, <1>4, <3>1, <3>2
  <2> QED
    BY <2>1, <2>2
<1> QED
  BY <1>5, <1>6

\* A match that ends before the common prefix does is also a match of the new
\* input.
LEMMA ReusedFollow ==
  ASSUME NEW p \in Patterns, Decided(p),
         NEW a \in Texts, NEW b \in Texts, NEW m \in Spans,
         NEW n \in 0..Len(m),
         Ordered(m, 0, Len(a)), Follow(p, a, 0, m),
         \A i \in 1..n : Shared(a, b, m[i][2] + 1)
  PROVE  Follow(p, b, 0, SubSeq(m, 1, n))
<1> DEFINE r == SubSeq(m, 1, n)
<1>1. r \in Spans /\ Len(r) = n /\ \A i \in 1..n : r[i] = m[i]
  BY PrefixFacts
<1>2. Len(m) \in Nat /\ \A i \in 1..Len(m) : m[i] \in Nat \X Nat
  BY SpanFacts
<1>3. Len(a) \in Nat /\ Len(b) \in Nat
  BY SplitAssumption, LenProperties
<1> SUFFICES ASSUME NEW i \in 1..n
             PROVE  LET from == IF i = 1 THEN 0 ELSE r[i - 1][2] - 0
                        f    == First(p, Drop(b, from))
                    IN  /\ f # NoMatch
                        /\ r[i] = <<0 + from + f[1], 0 + from + f[2]>>
  BY <1>1 DEF Follow
<1> DEFINE from == IF i = 1 THEN 0 ELSE m[i - 1][2] - 0
           x    == Drop(a, from)
           y    == Drop(b, from)
           f    == First(p, x)
<1>4. i \in 1..Len(m) /\ r[i] = m[i] /\ (i # 1 => r[i - 1] = m[i - 1])
  <2>1. i # 1 => i - 1 \in 1..n
    OBVIOUS
  <2> QED
    BY <1>1, <1>2, <2>1
<1>5. f # NoMatch /\ m[i] = <<0 + from + f[1], 0 + from + f[2]>>
  BY <1>4 DEF Follow
<1>6. /\ (IF i = 1 THEN 0 ELSE m[i - 1][2]) <= m[i][1]
      /\ m[i][1] < m[i][2]
      /\ m[i][2] <= Len(a)
  BY <1>4 DEF Ordered
<1>7. m[i][1] \in Nat /\ m[i][2] \in Nat
      /\ (i # 1 => m[i - 1][2] \in Nat)
  <2>1. i # 1 => i - 1 \in 1..Len(m)
    BY <1>4
  <2> QED
    BY <1>2, <1>4, <2>1
<1>8. Shared(a, b, m[i][2] + 1)
  OBVIOUS
<1>9. from \in Nat /\ from <= m[i][1] /\ m[i][2] + 1 <= Len(b)
      /\ m[i][2] + 1 <= Len(a) /\ m[i][1] < m[i][2]
  BY <1>6, <1>7, <1>8 DEF Shared
<1> HIDE DEF from
<1>10. from \in 0..Len(a) /\ from \in 0..Len(b)
  BY <1>3, <1>7, <1>9
<1>11. x \in Texts /\ Len(x) = Len(a) - from
       /\ \A k \in 1..(Len(a) - from) : x[k] = a[from + k]
  BY <1>10, DropFacts
<1>12. y \in Texts /\ Len(y) = Len(b) - from
       /\ \A k \in 1..(Len(b) - from) : y[k] = b[from + k]
  BY <1>10, DropFacts
<1>13. f[1] \in Nat /\ f[2] \in Nat
  BY <1>5, <1>11, FirstShape
<1>14. m[i][2] = from + f[2]
  BY <1>5, <1>9, <1>13
<1>15. Shared(x, y, f[2] + 1)
  <2>1. f[2] + 1 <= Len(a) - from /\ f[2] + 1 <= Len(b) - from
    BY <1>3, <1>9, <1>13, <1>14
  <2>2. \A k \in 1..(f[2] + 1) : x[k] = y[k]
    <3> SUFFICES ASSUME NEW k \in 1..(f[2] + 1) PROVE x[k] = y[k]
      OBVIOUS
    <3>1. k \in 1..(Len(a) - from) /\ k \in 1..(Len(b) - from)
          /\ from + k \in 1..(m[i][2] + 1)
      <4>1. from \in Nat /\ f[2] \in Nat /\ Len(a) \in Nat /\ Len(b) \in Nat
        BY <1>3, <1>9, <1>13
      <4>2. k \in Nat /\ 1 <= k /\ k <= f[2] + 1
        BY <4>1
      <4> HIDE DEF f
      <4>3. from + k \in 1..(m[i][2] + 1)
        BY <1>14, <4>1, <4>2
      <4>4. k \in 1..(Len(a) - from) /\ k \in 1..(Len(b) - from)
        BY <2>1, <4>1, <4>2
      <4> QED
        BY <4>3, <4>4
    <3>2. x[k] = a[from + k] /\ y[k] = b[from + k]
      BY <1>11, <1>12, <3>1
    <3>3. a[from + k] = b[from + k]
      BY <1>8, <3>1 DEF Shared
    <3> QED
      BY <3>2, <3>3
  <2> QED
    BY <1>11, <1>12, <2>1, <2>2 DEF Shared
<1>16. First(p, y) = f
  BY <1>5, <1>11, <1>12, <1>15 DEF Decided
<1>17. from = IF i = 1 THEN 0 ELSE r[i - 1][2] - 0
  BY <1>4 DEF from
<1> QED
  BY <1>4, <1>5, <1>16, <1>17

(* ----------------------------- One more match --------------------------- *)

LEMMA AppendFacts ==
  ASSUME NEW m \in Spans, NEW s \in Nat, NEW e \in Nat
  PROVE  /\ Append(m, <<s, e>>) \in Spans
         /\ Len(Append(m, <<s, e>>)) = Len(m) + 1
         /\ Append(m, <<s, e>>)[Len(m) + 1] = <<s, e>>
         /\ \A i \in 1..Len(m) : Append(m, <<s, e>>)[i] = m[i]
         /\ EndOf(Append(m, <<s, e>>)) = e
<1>1. m \in Seq(Nat \X Nat) /\ <<s, e>> \in Nat \X Nat /\ Len(m) \in Nat
  BY LenProperties DEF Spans
<1>2. /\ Append(m, <<s, e>>) \in Spans
      /\ Len(Append(m, <<s, e>>)) = Len(m) + 1
      /\ Append(m, <<s, e>>)[Len(m) + 1] = <<s, e>>
      /\ \A i \in 1..Len(m) : Append(m, <<s, e>>)[i] = m[i]
  BY <1>1, AppendProperties DEF Spans
<1>3. EndOf(Append(m, <<s, e>>)) = e
  <2>1. Append(m, <<s, e>>) # <<>>
    <3> DEFINE r == Append(m, <<s, e>>)
    <3>1. r \in Spans /\ Len(r) # 0
      BY <1>1, <1>2
    <3> HIDE DEF r
    <3>2. r # <<>>
      BY <3>1, SpanFacts
    <3> QED
      BY <3>2 DEF r
  <2> QED
    BY <1>2, <2>1 DEF EndOf
<1> QED
  BY <1>2, <1>3

LEMMA AppendOrdered ==
  ASSUME NEW m \in Spans, NEW s \in Nat, NEW e \in Nat, NEW stop \in Nat,
         Ordered(m, 0, stop), EndOf(m) <= s, s < e, e <= stop
  PROVE  Ordered(Append(m, <<s, e>>), 0, stop)
<1> DEFINE r == Append(m, <<s, e>>)
<1>1. /\ Len(r) = Len(m) + 1 /\ r[Len(m) + 1] = <<s, e>>
      /\ \A i \in 1..Len(m) : r[i] = m[i]
  BY AppendFacts
<1>2. /\ Len(m) \in Nat /\ (m = <<>> <=> Len(m) = 0)
      /\ (m # <<>> => EndOf(m) = m[Len(m)][2])
  BY SpanFacts
<1> SUFFICES ASSUME NEW i \in 1..(Len(m) + 1)
             PROVE  /\ (IF i = 1 THEN 0 ELSE r[i - 1][2]) <= r[i][1]
                    /\ r[i][1] < r[i][2]
                    /\ r[i][2] <= stop
  BY <1>1 DEF Ordered
<1>3. CASE i \in 1..Len(m)
  <2>1. r[i] = m[i] /\ (i # 1 => r[i - 1] = m[i - 1])
    <3>1. i # 1 => i - 1 \in 1..Len(m)
      BY <1>2, <1>3
    <3> QED
      BY <1>1, <1>3, <3>1
  <2> QED
    BY <1>3, <2>1 DEF Ordered
<1>4. CASE i = Len(m) + 1
  <2>1. r[i] = <<s, e>>
    BY <1>1, <1>4
  <2>2. i # 1 => r[i - 1][2] = EndOf(m)
    <3>1. i # 1 => Len(m) \in 1..Len(m) /\ i - 1 = Len(m)
      BY <1>2, <1>4
    <3> QED
      BY <1>1, <1>2, <3>1
  <2> QED
    BY <2>1, <2>2
<1> QED
  BY <1>2, <1>3, <1>4

LEMMA AppendFollow ==
  ASSUME NEW p \in Patterns, NEW b \in Texts, NEW m \in Spans,
         Follow(p, b, 0, m), EndOf(m) \in 0..Len(b),
         First(p, Drop(b, EndOf(m))) # NoMatch
  PROVE  LET f == First(p, Drop(b, EndOf(m)))
         IN  Follow(p, b, 0, Append(m, <<EndOf(m) + f[1], EndOf(m) + f[2]>>))
<1> DEFINE f == First(p, Drop(b, EndOf(m)))
           s == EndOf(m) + f[1]
           e == EndOf(m) + f[2]
           r == Append(m, <<s, e>>)
<1>1. f[1] \in Nat /\ f[2] \in Nat
  BY FirstShape, DropFacts
<1>2. /\ Len(m) \in Nat /\ EndOf(m) \in Nat /\ (m = <<>> <=> Len(m) = 0)
      /\ (m # <<>> => EndOf(m) = m[Len(m)][2])
      /\ \A i \in 1..Len(m) : m[i] \in Nat \X Nat
  BY SpanFacts
<1>3. s \in Nat /\ e \in Nat
  BY <1>1, <1>2
<1>4. /\ Len(r) = Len(m) + 1 /\ r[Len(m) + 1] = <<s, e>>
      /\ \A i \in 1..Len(m) : r[i] = m[i]
  <2> HIDE DEF s, e
  <2> QED
    BY <1>3, AppendFacts
<1> SUFFICES ASSUME NEW i \in 1..(Len(m) + 1)
             PROVE  LET from == IF i = 1 THEN 0 ELSE r[i - 1][2] - 0
                        g    == First(p, Drop(b, from))
                    IN  /\ g # NoMatch
                        /\ r[i] = <<0 + from + g[1], 0 + from + g[2]>>
  BY <1>4 DEF Follow
<1>5. CASE i \in 1..Len(m)
  <2>1. r[i] = m[i] /\ (i # 1 => r[i - 1] = m[i - 1])
    <3>1. i # 1 => i - 1 \in 1..Len(m)
      BY <1>2, <1>5
    <3> HIDE DEF r
    <3> QED
      BY <1>4, <1>5, <3>1
  <2> HIDE DEF r
  <2> QED
    BY <1>5, <2>1 DEF Follow
<1>6. CASE i = Len(m) + 1
  <2>1. (IF i = 1 THEN 0 ELSE r[i - 1][2] - 0) = EndOf(m)
    <3>1. CASE i = 1
      BY <1>2, <1>6, <3>1 DEF EndOf
    <3>2. CASE i # 1
      <4>1. i - 1 = Len(m) /\ Len(m) \in 1..Len(m) /\ m # <<>>
        BY <1>2, <1>6, <3>2
      <4>2. r[i - 1] = m[Len(m)]
        BY <1>4, <4>1
      <4>3. m[Len(m)][2] - 0 = m[Len(m)][2]
        BY <1>2, <4>1
      <4> QED
        BY <1>2, <3>2, <4>1, <4>2, <4>3
    <3> QED
      BY <3>1, <3>2
  <2>2. r[i] = <<0 + EndOf(m) + f[1], 0 + EndOf(m) + f[2]>>
    BY <1>1, <1>2, <1>4, <1>6
  <2> HIDE DEF r
  <2> QED
    BY <2>1, <2>2
<1> QED
  BY <1>2, <1>5, <1>6

(* ------------------------------ The calls ------------------------------- *)

LEMMA TopFacts ==
  ASSUME TypeOK, calls # <<>>
  PROVE  /\ Len(calls) \in Nat /\ Len(calls) \in 1..Len(calls)
         /\ DOMAIN calls = 1..Len(calls)
         /\ Top \in Calls
         /\ \A i \in 1..Len(calls) : calls[i] \in Calls
<1>1. calls \in Seq(Calls)
  BY DEF TypeOK
<1>2. Len(calls) \in Nat /\ Len(calls) # 0 /\ DOMAIN calls = 1..Len(calls)
  BY <1>1, LenProperties, EmptySeq
<1>3. \A i \in 1..Len(calls) : calls[i] \in Calls
  BY <1>1, ElementOfSeq
<1> QED
  BY <1>2, <1>3 DEF Top

LEMMA ReplaceTop ==
  ASSUME TypeOK, calls # <<>>, NEW c \in Calls,
         calls' = [calls EXCEPT ![Len(calls)] = c]
  PROVE  /\ calls' \in Seq(Calls)
         /\ DOMAIN calls' = DOMAIN calls
         /\ \A i \in DOMAIN calls : calls'[i] \in {c, calls[i]}
<1>1. calls \in Seq(Calls)
  BY DEF TypeOK
<1>2. Len(calls) \in 1..Len(calls) /\ DOMAIN calls = 1..Len(calls)
  BY TopFacts
<1>3. calls' \in Seq(Calls)
  BY <1>1, <1>2, ExceptSeq
<1> QED
  BY <1>2, <1>3

LEMMA PushTop ==
  ASSUME TypeOK, NEW c \in Calls, calls' = Append(calls, c)
  PROVE  /\ calls' \in Seq(Calls)
         /\ \A i \in DOMAIN calls' :
              calls'[i] = c \/ (i \in DOMAIN calls /\ calls'[i] = calls[i])
<1>1. calls \in Seq(Calls) /\ Len(calls) \in Nat /\ DOMAIN calls = 1..Len(calls)
  BY LenProperties DEF TypeOK
<1>2. /\ calls' \in Seq(Calls)
      /\ Len(calls') = Len(calls) + 1
      /\ calls'[Len(calls) + 1] = c
      /\ \A i \in 1..Len(calls) : calls'[i] = calls[i]
  BY <1>1, AppendProperties
<1>3. DOMAIN calls' = 1..(Len(calls) + 1)
  BY <1>2, LenProperties
<1> QED
  BY <1>1, <1>2, <1>3

LEMMA PopTop ==
  ASSUME TypeOK, calls # <<>>, calls' = SubSeq(calls, 1, Len(calls) - 1)
  PROVE  /\ calls' \in Seq(Calls)
         /\ \A i \in DOMAIN calls' :
              i \in DOMAIN calls /\ calls'[i] = calls[i]
<1>1. calls \in Seq(Calls) /\ Len(calls) \in Nat /\ Len(calls) # 0
      /\ DOMAIN calls = 1..Len(calls)
  BY TopFacts DEF TypeOK
<1> DEFINE n == Len(calls) - 1
<1>2. n \in Nat /\ 1..n \subseteq 1..Len(calls)
  BY <1>1
<1>3. calls' \in Seq(Calls) /\ Len(calls') = n
  BY <1>1, <1>2, SubSeqProperties
<1>4. \A i \in 1..n : calls'[i] = calls[i]
  <2> SUFFICES ASSUME NEW i \in 1..n PROVE calls'[i] = calls[i]
    OBVIOUS
  <2>1. i \in 1..(n - 1 + 1) /\ 1 + i - 1 = i
    BY <1>2
  <2> QED
    BY <1>1, <1>2, <2>1, SubSeqProperties
<1>5. DOMAIN calls' = 1..n
  BY <1>3, LenProperties
<1> QED
  BY <1>1, <1>2, <1>3, <1>4, <1>5

(* ------------------------------- Tiling --------------------------------- *)

\* What a call that begins may reuse lies in its buffer.
LEMMA BeginReuses ==
  ASSUME TypeOK, NEW s \in Splits, NEW buffer \in Buffers,
         NEW n \in 0..Len(cache.prev_matches), Reuses(cache, s, buffer, n)
  PROVE  /\ buffer \in Texts /\ cache.prev_input \in Texts
         /\ cache.prev_matches \in Spans
         /\ \A i \in 1..n : Shared(cache.prev_input, buffer,
                                   cache.prev_matches[i][2] + 1)
<1>1. buffer \in Texts /\ Len(buffer) \in Nat
  BY SplitAssumption, LenProperties
<1>2. cache.prev_matches \in Spans
      /\ cache.prev_input \in Buffers \cup {<<>>}
  BY DEF TypeOK
<1>3. <<>> \in Texts
  <2>1. Len(buffer) \in 0..Len(buffer)
    BY <1>1
  <2>2. Drop(buffer, Len(buffer)) \in Texts
        /\ Len(Drop(buffer, Len(buffer))) = Len(buffer) - Len(buffer)
    BY <1>1, <2>1, DropFacts
  <2>3. Drop(buffer, Len(buffer)) \in Seq(Chars)
        /\ Len(Drop(buffer, Len(buffer))) = 0
    BY <1>1, <2>2, SplitAssumption
  <2>4. Drop(buffer, Len(buffer)) = <<>>
    BY <2>3, EmptySeq
  <2> QED
    BY <2>2, <2>4
<1>4. cache.prev_input \in Texts
  BY <1>2, <1>3, SplitAssumption
<1>5. Len(cache.prev_matches) \in Nat
  BY <1>2, SpanFacts
<1>6. \A i \in 1..n : i \in 1..Len(cache.prev_matches) /\ i <= n
  BY <1>5
<1>7. \A i \in 1..n : Shared(cache.prev_input, buffer,
                            cache.prev_matches[i][2] + 1)
  <2>1. CASE n = 0
    BY <2>1
  <2>2. CASE n # 0
    <3>1. ReuseCount(cache, buffer, n)
      BY <2>2 DEF Reuses
    <3> QED
      BY <1>6, <3>1 DEF ReuseCount
  <2> QED
    BY <2>1, <2>2
<1> QED
  BY <1>1, <1>2, <1>4, <1>7

\* The probe leaves a well-formed cache.
LEMMA ProbedType ==
  ASSUME TypeOK, NEW s \in Splits, NEW buffer,
         cache' = Probed(cache, s, buffer)
  PROVE  /\ cache' \in [split_id : Splits \cup {0},
                       prev_input : Buffers \cup {<<>>},
                       prev_matches : Spans]
         /\ Ordered(cache'.prev_matches, 0, Len(cache'.prev_input))
         /\ cache'.split_id = s
         /\ cache'.prev_matches # <<>> =>
              cache' = cache
<1>1. <<>> \in Spans /\ \A stop : Ordered(<<>>, 0, stop)
  BY EmptySeq DEF Spans, Ordered
<1>2. /\ cache \in [split_id : Splits \cup {0},
                   prev_input : Buffers \cup {<<>>},
                   prev_matches : Spans]
      /\ Ordered(cache.prev_matches, 0, Len(cache.prev_input))
  BY DEF TypeOK
<1>3. CASE cache.split_id # s
  <2>1. cache' = [split_id |-> s, prev_input |-> <<>>, prev_matches |-> <<>>]
    BY <1>3 DEF Probed
  <2> QED
    BY <1>1, <2>1
<1>4. CASE cache.split_id = s /\ Shared(cache.prev_input, buffer, MinPrefix)
  <2>1. cache' = [cache EXCEPT !.prev_matches = <<>>]
    BY <1>4 DEF Probed
  <2> QED
    BY <1>1, <1>2, <1>4, <2>1
<1>5. CASE cache.split_id = s /\ ~ Shared(cache.prev_input, buffer, MinPrefix)
  <2>1. cache' = cache
    BY <1>5 DEF Probed
  <2> QED
    BY <1>2, <1>5, <2>1
<1> QED
  BY <1>3, <1>4, <1>5

\* The record a call begins with.
NewCall(s, buffer, m) ==
  [split |-> s, buffer |-> buffer, base |-> 0, stop |-> Len(buffer),
   matches |-> m, pos |-> EndOf(m),
   parallel |-> Len(buffer) - EndOf(m) >= ParallelLen, stage |-> "scan"]

LEMMA BeginCall ==
  ASSUME WholeBuffers, TypeOK,
         NEW s \in Splits, NEW buffer \in Buffers, NEW margin \in Margins,
         NEW n \in 0..Len(cache.prev_matches), Begin(s, buffer, margin, n)
  PROVE  LET m == SubSeq(cache.prev_matches, 1, n)
             c == NewCall(s, buffer, m)
         IN  /\ calls' = Append(calls, c)
             /\ c \in Calls
             /\ Framed(c)
<1> DEFINE m == SubSeq(cache.prev_matches, 1, n)
           c == NewCall(s, buffer, m)
<1>1. /\ buffer \in Texts /\ cache.prev_input \in Texts
      /\ cache.prev_matches \in Spans
      /\ \A i \in 1..n : Shared(cache.prev_input, buffer,
                                cache.prev_matches[i][2] + 1)
  BY BeginReuses DEF Begin
<1>2. Ordered(cache.prev_matches, 0, Len(cache.prev_input))
  BY DEF TypeOK
<1>3. Ordered(m, 0, Len(buffer)) /\ EndOf(m) <= Len(buffer)
  BY <1>1, <1>2, ReusedOrdered
<1>4. m \in Spans
  BY <1>1, PrefixFacts
<1>5. EndOf(m) \in Nat /\ Len(buffer) \in Nat
  BY <1>1, <1>4, SpanFacts, SplitAssumption, LenProperties
<1>6. margin[1] = 0 /\ margin[2] = 0
  BY DEF WholeBuffers
<1>7. calls' = Append(calls, c)
  <2> HIDE DEF m
  <2>1. /\ Len(buffer) - 0 = Len(buffer)
        /\ Len(buffer) - 0 - 0 - EndOf(m) = Len(buffer) - EndOf(m)
        /\ ~ (EndOf(m) > Len(buffer) - 0 - 0)
    BY <1>3, <1>5
  <2>2. calls' = Append(calls,
           [split |-> s, buffer |-> buffer, base |-> 0,
            stop |-> Len(buffer) - 0, matches |-> m, pos |-> EndOf(m),
            parallel |-> Len(buffer) - 0 - 0 - EndOf(m) >= ParallelLen,
            stage |-> IF EndOf(m) > Len(buffer) - 0 - 0
                      THEN "panic" ELSE "scan"])
    BY <1>6 DEF Begin, m
  <2> QED
    BY <2>1, <2>2 DEF NewCall
<1>8. c \in Calls
  <2> HIDE DEF m
  <2>1. (Len(buffer) - EndOf(m) >= ParallelLen) \in BOOLEAN
    OBVIOUS
  <2> QED
    BY <1>4, <1>5, <2>1 DEF Calls, NewCall, Stages
<1>9. Framed(c)
  BY <1>3 DEF Framed, NewCall
<1> QED
  BY <1>7, <1>8, <1>9

\* The record of a call after one more match.
ScannedCall(c, f) ==
  [c EXCEPT !.matches = Append(@, <<c.base + c.pos + f[1],
                                    c.base + c.pos + f[2]>>),
            !.pos = @ + f[2]]

\* A call that matches its whole buffer goes from one framed record to another.
LEMMA ScanCall ==
  ASSUME NEW c \in Calls, Framed(c),
         First(PatternOf[c.split], Drop(Text(c), c.pos)) # NoMatch
  PROVE  LET f == First(PatternOf[c.split], Drop(Text(c), c.pos))
         IN  /\ Text(c) = c.buffer
             /\ EndOf(c.matches) \in 0..Len(c.buffer)
             /\ ScannedCall(c, f) \in Calls
             /\ Framed(ScannedCall(c, f))
             /\ ScannedCall(c, f).matches =
                   Append(c.matches, <<EndOf(c.matches) + f[1],
                                       EndOf(c.matches) + f[2]>>)
             /\ ScannedCall(c, f).split = c.split
             /\ ScannedCall(c, f).stage = c.stage
             /\ ScannedCall(c, f).buffer = c.buffer
<1> DEFINE f == First(PatternOf[c.split], Drop(Text(c), c.pos))
<1>1. /\ c.buffer \in Texts /\ c.buffer \in Seq(Chars)
      /\ c.matches \in Spans /\ c.split \in Splits
      /\ Len(c.buffer) \in Nat
  BY SplitAssumption, LenProperties DEF Calls
<1>2. /\ c.base = 0 /\ c.stop = Len(c.buffer) /\ c.pos = EndOf(c.matches)
      /\ Ordered(c.matches, 0, Len(c.buffer))
  BY DEF Framed
<1>3. Text(c) = c.buffer
  <2>1. SubSeq(c.buffer, 1, Len(c.buffer)) = c.buffer
    BY <1>1, SubSeqFull
  <2> QED
    BY <1>2, <2>1 DEF Text
<1>4. EndOf(c.matches) \in 0..Len(c.buffer)
  <2>1. /\ Len(c.matches) \in Nat /\ EndOf(c.matches) \in Nat
        /\ (c.matches = <<>> <=> Len(c.matches) = 0)
        /\ (c.matches # <<>> => EndOf(c.matches) =
                                 c.matches[Len(c.matches)][2])
    BY <1>1, SpanFacts
  <2>2. CASE c.matches = <<>>
    BY <1>1, <2>1, <2>2 DEF EndOf
  <2>3. CASE c.matches # <<>>
    <3>1. Len(c.matches) \in 1..Len(c.matches)
      BY <2>1, <2>3
    <3>2. c.matches[Len(c.matches)][2] <= Len(c.buffer)
      BY <1>2, <3>1 DEF Ordered
    <3> QED
      BY <1>1, <2>1, <2>3, <3>2
  <2> QED
    BY <2>2, <2>3
<1>5. /\ f[1] \in Nat /\ f[2] \in Nat /\ f[1] < f[2]
      /\ f[2] <= Len(c.buffer) - EndOf(c.matches)
  <2>1. Drop(c.buffer, EndOf(c.matches)) \in Texts
        /\ Len(Drop(c.buffer, EndOf(c.matches))) =
              Len(c.buffer) - EndOf(c.matches)
    BY <1>1, <1>4, DropFacts
  <2>2. PatternOf[c.split] \in Patterns
    BY <1>1, SplitAssumption
  <2>3. f = First(PatternOf[c.split], Drop(c.buffer, EndOf(c.matches)))
    BY <1>2, <1>3
  <2> HIDE DEF f
  <2>4. f # NoMatch
    BY DEF f
  <2> QED
    BY <2>1, <2>2, <2>3, <2>4, FirstShape
<1> DEFINE a == EndOf(c.matches) + f[1]
           b == EndOf(c.matches) + f[2]
           d == ScannedCall(c, f)
<1> HIDE DEF f
<1>6. /\ a \in Nat /\ b \in Nat /\ EndOf(c.matches) <= a /\ a < b
      /\ b <= Len(c.buffer) /\ 0 + EndOf(c.matches) = EndOf(c.matches)
  BY <1>1, <1>4, <1>5
<1>7. d = [split |-> c.split, buffer |-> c.buffer, base |-> c.base,
           stop |-> c.stop, matches |-> Append(c.matches, <<a, b>>), pos |-> b,
           parallel |-> c.parallel, stage |-> c.stage]
  <2>1. c.base + c.pos + f[1] = a /\ c.base + c.pos + f[2] = b
        /\ c.pos + f[2] = b
    BY <1>2, <1>6
  <2>2. d = [c EXCEPT !.matches = Append(c.matches, <<a, b>>), !.pos = b]
    BY <2>1 DEF ScannedCall
  <2> HIDE DEF a, b
  <2> QED
    BY <2>2 DEF Calls
<1> HIDE DEF a, b, d
<1>8. /\ Append(c.matches, <<a, b>>) \in Spans
      /\ EndOf(Append(c.matches, <<a, b>>)) = b
  BY <1>1, <1>6, AppendFacts
<1>9. Ordered(Append(c.matches, <<a, b>>), 0, Len(c.buffer))
  BY <1>1, <1>2, <1>6, AppendOrdered
<1>10. d \in Calls
  BY <1>6, <1>7, <1>8 DEF Calls
<1>11. Framed(d)
  BY <1>2, <1>7, <1>8, <1>9 DEF Framed
<1> QED
  BY <1>3, <1>4, <1>7, <1>10, <1>11 DEF a, b, d, f

\* A call whose stage changes.
LEMMA StagedCall ==
  ASSUME NEW c \in Calls, NEW st \in {"done", "failed"}, Framed(c)
  PROVE  LET d == [c EXCEPT !.stage = st]
         IN  /\ d \in Calls /\ Framed(d)
             /\ d.stage = st /\ d.split = c.split /\ d.buffer = c.buffer
             /\ d.matches = c.matches /\ d.pos = c.pos
BY DEF Calls, Stages, Framed

LEMMA TiledInit == Init => IInvTiled
<1> SUFFICES ASSUME Init PROVE IInvTiled
  OBVIOUS
<1>1. <<>> \in Spans /\ calls \in Seq(Calls) /\ DOMAIN calls = {}
  BY EmptySeq DEF Init, Spans
<1>2. Ordered(cache.prev_matches, 0, Len(cache.prev_input))
  BY EmptySeq DEF Init, Ordered
<1> QED
  BY <1>1, <1>2 DEF IInvTiled, TypeOK, Init

\* Every action keeps the cache and the calls well-formed.
LEMMA TiledStep ==
  ASSUME WholeBuffers, IInvTiled, [Next]_vars
  PROVE  IInvTiled'
<1> USE DEF IInvTiled
<1>1. ASSUME NEW s \in Splits, NEW buffer \in Buffers, NEW margin \in Margins,
             NEW n \in 0..Len(cache.prev_matches), Begin(s, buffer, margin, n)
      PROVE  IInvTiled'
  <2> DEFINE c == NewCall(s, buffer, SubSeq(cache.prev_matches, 1, n))
  <2>1. calls' = Append(calls, c) /\ c \in Calls /\ Framed(c)
    BY <1>1, BeginCall
  <2> HIDE DEF c
  <2>2. /\ calls' \in Seq(Calls)
        /\ \A i \in DOMAIN calls' :
             calls'[i] = c \/ (i \in DOMAIN calls /\ calls'[i] = calls[i])
    BY <2>1, PushTop
  <2>3. /\ cache' \in [split_id : Splits \cup {0},
                      prev_input : Buffers \cup {<<>>},
                      prev_matches : Spans]
        /\ Ordered(cache'.prev_matches, 0, Len(cache'.prev_input))
    BY <1>1, ProbedType DEF Begin
  <2> QED
    BY <2>1, <2>2, <2>3 DEF TypeOK
<1>2. CASE Scan
  <2> DEFINE f == First(PatternOf[Top.split], Drop(Text(Top), Top.pos))
             c == ScannedCall(Top, f)
  <2>1. calls # <<>> /\ f # NoMatch
    BY <1>2 DEF Scan, Scanning
  <2>2. Top \in Calls /\ Framed(Top)
    BY <2>1, TopFacts DEF Top
  <2>3. c \in Calls /\ Framed(c)
    BY <2>1, <2>2, ScanCall
  <2>4. calls' = [calls EXCEPT ![Len(calls)] = c]
    BY <1>2 DEF Scan, ScannedCall
  <2> HIDE DEF c
  <2>5. /\ calls' \in Seq(Calls) /\ DOMAIN calls' = DOMAIN calls
        /\ \A i \in DOMAIN calls : calls'[i] \in {c, calls[i]}
    BY <2>1, <2>3, <2>4, ReplaceTop
  <2>6. cache' = cache
    BY <1>2 DEF Scan
  <2> QED
    BY <2>3, <2>5, <2>6 DEF TypeOK
<1>3. ASSUME NEW st \in {"done", "failed"}, Scanning,
             calls' = [calls EXCEPT ![Len(calls)] = [Top EXCEPT !.stage = st]]
      PROVE  /\ Top \in Calls /\ Framed(Top)
             /\ calls' \in Seq(Calls)
             /\ \A i \in DOMAIN calls' : Framed(calls'[i])
  <2> DEFINE c == [Top EXCEPT !.stage = st]
  <2>1. calls # <<>>
    BY <1>3 DEF Scanning
  <2>2. Top \in Calls /\ Framed(Top)
    BY <2>1, TopFacts DEF Top
  <2>3. c \in Calls /\ Framed(c)
    BY <2>2, StagedCall
  <2> HIDE DEF c
  <2>4. calls' = [calls EXCEPT ![Len(calls)] = c]
    BY <1>3 DEF c
  <2>5. /\ calls' \in Seq(Calls) /\ DOMAIN calls' = DOMAIN calls
        /\ \A i \in DOMAIN calls : calls'[i] \in {c, calls[i]}
    BY <2>1, <2>3, <2>4, ReplaceTop
  <2> QED
    BY <2>2, <2>3, <2>5
<1>4. CASE Store
  <2>1. /\ Top \in Calls /\ Framed(Top)
        /\ calls' \in Seq(Calls)
        /\ \A i \in DOMAIN calls' : Framed(calls'[i])
    BY <1>3, <1>4 DEF Store
  <2>2. cache' = [cache EXCEPT !.prev_input = Top.buffer,
                              !.prev_matches = Top.matches]
    BY <1>4 DEF Store
  <2>3. Top.buffer \in Buffers /\ Top.matches \in Spans
        /\ Ordered(Top.matches, 0, Len(Top.buffer))
    BY <2>1 DEF Calls, Framed
  <2>4. /\ cache' \in [split_id : Splits \cup {0},
                      prev_input : Buffers \cup {<<>>},
                      prev_matches : Spans]
        /\ cache'.prev_input = Top.buffer /\ cache'.prev_matches = Top.matches
    BY <2>2, <2>3 DEF TypeOK
  <2> QED
    BY <2>1, <2>3, <2>4 DEF TypeOK
<1>5. CASE Fail
  <2>1. calls' \in Seq(Calls) /\ \A i \in DOMAIN calls' : Framed(calls'[i])
    BY <1>3, <1>5 DEF Fail
  <2> QED
    BY <1>5, <2>1 DEF Fail, TypeOK
<1>6. CASE Return
  <2>1. /\ calls' \in Seq(Calls)
        /\ \A i \in DOMAIN calls' :
             i \in DOMAIN calls /\ calls'[i] = calls[i]
    BY <1>6, PopTop DEF Return
  <2> QED
    BY <1>6, <2>1 DEF Return, TypeOK
<1>7. CASE UNCHANGED vars
  BY <1>7 DEF vars, TypeOK
<1> QED
  BY <1>1, <1>2, <1>4, <1>5, <1>6, <1>7 DEF Next

\* Whatever Splits run on a thread, inside each other or not, and whatever
\* their patterns look ahead at, no call slices its text out of range and the
\* spans it returns tile the text.
THEOREM AlwaysTiled == WholeBuffers => (Spec => []Tiled)
<1>1. IInvTiled => Tiled
  BY DEF IInvTiled, Tiled, Framed
<1> SUFFICES ASSUME WholeBuffers PROVE Spec => []Tiled
  OBVIOUS
<1>2. IInvTiled /\ [Next]_vars => IInvTiled'
  BY TiledStep
<1> QED
  BY TiledInit, <1>1, <1>2, PTL DEF Spec

(* ------------------------------ Freshness ------------------------------- *)

LEMMA FreshInit == Init => Owned /\ \A i \in DOMAIN calls :
                                     Matched(calls[i], cache.split_id)
BY EmptySeq DEF Init, Owned

\* The matches a call begins with are matches of its own input.
LEMMA BeginMatched ==
  ASSUME WholeBuffers, AllDecided, TypeOK, Owned,
         NEW s \in Splits, NEW buffer \in Buffers,
         NEW n \in 0..Len(cache.prev_matches), Reuses(cache, s, buffer, n)
  PROVE  Matched(NewCall(s, buffer, SubSeq(cache.prev_matches, 1, n)), s)
<1> DEFINE m == SubSeq(cache.prev_matches, 1, n)
<1>1. /\ buffer \in Texts /\ cache.prev_input \in Texts
      /\ cache.prev_matches \in Spans
      /\ \A i \in 1..n : Shared(cache.prev_input, buffer,
                                cache.prev_matches[i][2] + 1)
  BY BeginReuses
<1>2. PatternOf[s] \in Patterns /\ Decided(PatternOf[s])
  BY SplitAssumption DEF AllDecided
<1>3. Follow(PatternOf[s], buffer, 0, m)
  <2>1. CASE n = 0
    <3>1. Len(m) = 0
      BY <1>1, <2>1, PrefixFacts
    <3> HIDE DEF m
    <3> QED
      BY <3>1 DEF Follow
  <2>2. CASE n # 0
    <3>1. cache.split_id = s
      BY <2>2 DEF Reuses
    <3>2. cache.prev_matches # <<>>
      BY <1>1, <2>2, SpanFacts
    <3>3. Follow(PatternOf[s], cache.prev_input, 0, cache.prev_matches)
      BY <3>1, <3>2 DEF Owned
    <3>4. Ordered(cache.prev_matches, 0, Len(cache.prev_input))
      BY DEF TypeOK
    <3> QED
      BY <1>1, <1>2, <3>3, <3>4, ReusedFollow
  <2> QED
    BY <2>1, <2>2
<1> DEFINE c == NewCall(s, buffer, m)
<1> HIDE DEF m
<1>4. c.split = s /\ c.buffer = buffer /\ c.matches = m /\ c.stage = "scan"
  BY DEF NewCall
<1> HIDE DEF c
<1>5. Matched(c, s)
  BY <1>3, <1>4 DEF Matched
<1> QED
  BY <1>5 DEF c, m

\* Every action keeps what is matched and what is cached right.
LEMMA FreshStep ==
  ASSUME WholeBuffers, OneAtATime, AllDecided, IInv, [Next]_vars
  PROVE  /\ Owned'
         /\ \A i \in DOMAIN calls' : Matched(calls'[i], cache'.split_id)
<1> USE DEF IInv, IInvTiled
<1>1. ASSUME NEW s \in Splits, NEW buffer \in Buffers, NEW margin \in Margins,
             NEW n \in 0..Len(cache.prev_matches), Begin(s, buffer, margin, n)
      PROVE  /\ Owned'
             /\ \A i \in DOMAIN calls' : Matched(calls'[i], cache'.split_id)
  <2> DEFINE c == NewCall(s, buffer, SubSeq(cache.prev_matches, 1, n))
  <2>1. calls' = Append(calls, c) /\ c \in Calls
    BY <1>1, BeginCall
  <2>2. Matched(c, s)
    BY <1>1, BeginMatched DEF Begin
  <2> HIDE DEF c
  <2>3. \A i \in DOMAIN calls' :
          calls'[i] = c \/ (i \in DOMAIN calls /\ calls'[i] = calls[i])
    BY <2>1, PushTop
  <2>4. /\ cache'.split_id = s
        /\ cache'.prev_matches # <<>> => cache' = cache
    BY <1>1, ProbedType DEF Begin
  <2>5. Owned'
    BY <2>4 DEF Owned
  <2>6. \A i \in DOMAIN calls : Matched(calls[i], s)
    <3>1. CASE calls = <<>>
      BY <3>1, EmptySeq
    <3>2. CASE calls # <<>>
      <4>1. Scanning /\ <<Top.split, s>> \in Nests
        BY <1>1, <3>2 DEF Begin
      <4>2. Top.split = s
        BY <4>1 DEF OneAtATime
      <4>3. Matched(Top, cache.split_id)
        <5>1. Len(calls) \in DOMAIN calls
          BY <3>2, TopFacts
        <5> QED
          BY <5>1 DEF Top
      <4>4. cache.split_id = s
        BY <4>1, <4>2, <4>3 DEF Matched, Scanning
      <4> QED
        BY <4>4
    <3> QED
      BY <3>1, <3>2
  <2> QED
    BY <2>2, <2>3, <2>4, <2>5, <2>6
<1>2. CASE Scan
  <2> DEFINE f == First(PatternOf[Top.split], Drop(Text(Top), Top.pos))
             c == ScannedCall(Top, f)
             p == PatternOf[Top.split]
             b == Top.buffer
             m == Top.matches
  <2>1. calls # <<>> /\ f # NoMatch /\ Top.stage = "scan"
    BY <1>2 DEF Scan, Scanning
  <2>2. Top \in Calls /\ Framed(Top) /\ Matched(Top, cache.split_id)
    BY <2>1, TopFacts DEF Top
  <2>3. /\ Text(Top) = b /\ EndOf(m) \in 0..Len(b)
        /\ c \in Calls
        /\ c.matches = Append(m, <<EndOf(m) + f[1], EndOf(m) + f[2]>>)
        /\ c.split = Top.split /\ c.stage = "scan" /\ c.buffer = b
    BY <2>1, <2>2, ScanCall
  <2>4. Top.pos = EndOf(m)
    BY <2>2 DEF Framed
  <2>5. Follow(p, b, 0, c.matches)
    <3>1. p \in Patterns /\ b \in Texts /\ m \in Spans
      BY <2>2, SplitAssumption DEF Calls
    <3>2. Follow(p, b, 0, m)
      BY <2>2 DEF Matched
    <3>3. f = First(p, Drop(b, EndOf(m)))
      BY <2>3, <2>4
    <3>4. First(p, Drop(b, EndOf(m))) # NoMatch
      BY <2>1, <3>3
    <3> HIDE DEF p, b, m, c
    <3>5. LET g == First(p, Drop(b, EndOf(m)))
          IN  Follow(p, b, 0, Append(m, <<EndOf(m) + g[1], EndOf(m) + g[2]>>))
      BY <2>3, <3>1, <3>2, <3>4, AppendFollow
    <3> HIDE DEF f
    <3> QED
      BY <2>3, <3>3, <3>5
  <2>6. Matched(c, cache.split_id)
    <3>1. Top.split = cache.split_id
      BY <2>1, <2>2 DEF Matched
    <3> HIDE DEF c
    <3> QED
      BY <2>3, <2>5, <3>1 DEF Matched
  <2>7. calls' = [calls EXCEPT ![Len(calls)] = c]
    BY <1>2 DEF Scan, ScannedCall
  <2> HIDE DEF c
  <2>8. /\ DOMAIN calls' = DOMAIN calls
        /\ \A i \in DOMAIN calls : calls'[i] \in {c, calls[i]}
    BY <2>1, <2>3, <2>7, ReplaceTop
  <2>9. cache' = cache
    BY <1>2 DEF Scan
  <2> QED
    BY <2>6, <2>8, <2>9 DEF Owned
<1>3. ASSUME NEW st \in {"done", "failed"}, Scanning,
             calls' = [calls EXCEPT ![Len(calls)] = [Top EXCEPT !.stage = st]],
             cache'.split_id = cache.split_id,
             st = "done" =>
               First(PatternOf[Top.split], Drop(Text(Top), Top.pos)) = NoMatch
      PROVE  /\ Top \in Calls
             /\ Follow(PatternOf[Top.split], Top.buffer, 0, Top.matches)
             /\ Top.split = cache.split_id
             /\ \A i \in DOMAIN calls' : Matched(calls'[i], cache'.split_id)
  <2> DEFINE c == [Top EXCEPT !.stage = st]
  <2>1. calls # <<>> /\ Top.stage = "scan"
    BY <1>3 DEF Scanning
  <2>2. Top \in Calls /\ Framed(Top) /\ Matched(Top, cache.split_id)
    BY <2>1, TopFacts DEF Top
  <2>3. /\ c \in Calls /\ c.stage = st /\ c.split = Top.split
        /\ c.buffer = Top.buffer /\ c.matches = Top.matches /\ c.pos = Top.pos
    BY <2>2, StagedCall
  <2> HIDE DEF c
  <2>4. Text(Top) = Top.buffer
    <3>1. Top.buffer \in Seq(Chars)
      BY <2>2, SplitAssumption DEF Calls
    <3>2. Top.base + 1 = 1 /\ Top.stop = Len(Top.buffer)
      BY <2>2 DEF Framed
    <3> QED
      BY <3>1, <3>2, SubSeqFull DEF Text
  <2>5. Matched(c, cache.split_id)
    BY <1>3, <2>1, <2>2, <2>3, <2>4 DEF Matched
  <2>6. calls' = [calls EXCEPT ![Len(calls)] = c]
    BY <1>3 DEF c
  <2>7. /\ DOMAIN calls' = DOMAIN calls
        /\ \A i \in DOMAIN calls : calls'[i] \in {c, calls[i]}
    BY <2>1, <2>3, <2>6, ReplaceTop
  <2>8. \A i \in DOMAIN calls' : Matched(calls'[i], cache'.split_id)
    BY <1>3, <2>5, <2>7
  <2> QED
    BY <2>1, <2>2, <2>8 DEF Matched
<1>4. CASE Store
  <2>1. cache' = [cache EXCEPT !.prev_input = Top.buffer,
                              !.prev_matches = Top.matches]
    BY <1>4 DEF Store
  <2>2. /\ cache'.split_id = cache.split_id
        /\ cache'.prev_input = Top.buffer /\ cache'.prev_matches = Top.matches
    BY <2>1 DEF TypeOK
  <2>3. /\ Top \in Calls
        /\ Follow(PatternOf[Top.split], Top.buffer, 0, Top.matches)
        /\ Top.split = cache.split_id
        /\ \A i \in DOMAIN calls' : Matched(calls'[i], cache'.split_id)
    BY <1>3, <1>4, <2>2 DEF Store
  <2>4. Owned'
    BY <2>2, <2>3 DEF Owned, Calls
  <2> QED
    BY <2>3, <2>4
<1>5. CASE Fail
  <2>1. cache' = cache
    BY <1>5 DEF Fail
  <2>2. \A i \in DOMAIN calls' : Matched(calls'[i], cache'.split_id)
    BY <1>3, <1>5, <2>1 DEF Fail
  <2> QED
    BY <2>1, <2>2 DEF Owned
<1>6. CASE Return
  <2>1. \A i \in DOMAIN calls' :
          i \in DOMAIN calls /\ calls'[i] = calls[i]
    BY <1>6, PopTop DEF Return
  <2> QED
    BY <1>6, <2>1 DEF Return, Owned
<1>7. CASE UNCHANGED vars
  BY <1>7 DEF vars, Owned
<1> QED
  BY <1>1, <1>2, <1>4, <1>5, <1>6, <1>7 DEF Next

LEMMA FreshFollows == IInv => Fresh
<1> SUFFICES ASSUME IInv, NEW i \in DOMAIN calls
             PROVE  /\ calls[i].stage # "panic"
                    /\ calls[i].stage = "done" =>
                         Complete(PatternOf[calls[i].split], Text(calls[i]),
                                  calls[i].base, calls[i].matches)
  BY DEF Fresh
<1> DEFINE c == calls[i]
<1>1. Framed(c) /\ Matched(c, cache.split_id) /\ TypeOK
  BY DEF IInv, IInvTiled
<1>2. c \in Calls
  <2>1. calls # <<>>
    BY EmptySeq
  <2> QED
    BY <1>1, <2>1, TopFacts
<1> HIDE DEF c
<1>3. Text(c) = c.buffer
  <2>1. c.buffer \in Seq(Chars)
    BY <1>2, SplitAssumption DEF Calls
  <2>2. c.base + 1 = 1 /\ c.stop = Len(c.buffer)
    BY <1>1 DEF Framed
  <2> QED
    BY <2>1, <2>2, SubSeqFull DEF Text
<1>4. c.pos = IF c.matches = <<>> THEN 0 ELSE EndOf(c.matches) - 0
  <2>1. c.matches \in Spans
    BY <1>2 DEF Calls
  <2>2. EndOf(c.matches) \in Nat
    BY <2>1, SpanFacts
  <2> QED
    BY <1>1, <2>2 DEF Framed, EndOf
<1>5. c.stage # "panic" /\ c.base = 0
  BY <1>1 DEF Framed
<1>6. c.stage = "done" =>
        Complete(PatternOf[c.split], c.buffer, 0, c.matches)
  BY <1>1, <1>4 DEF Matched, Complete
<1> QED
  BY <1>3, <1>5, <1>6 DEF c

\* When patterns depend on no more than the byte after a match and calls of
\* different Splits never run inside each other, every call returns what a
\* fresh Split would, and the cache carries matches of the Split it names.
THEOREM FreshWhenDecided ==
  WholeBuffers /\ OneAtATime /\ AllDecided => (Spec => [](Fresh /\ Owned))
<1> SUFFICES ASSUME WholeBuffers, OneAtATime, AllDecided
             PROVE  Spec => [](Fresh /\ Owned)
  OBVIOUS
<1>1. Init => IInv
  BY TiledInit, FreshInit DEF IInv
<1>2. IInv /\ [Next]_vars => IInv'
  <2> SUFFICES ASSUME IInv, [Next]_vars PROVE IInv'
    OBVIOUS
  <2>1. IInvTiled'
    BY TiledStep DEF IInv
  <2>2. Owned' /\ \A i \in DOMAIN calls' : Matched(calls'[i], cache'.split_id)
    BY FreshStep
  <2> QED
    BY <2>1, <2>2 DEF IInv
<1>3. IInv => Fresh /\ Owned
  BY FreshFollows DEF IInv
<1> QED
  BY <1>1, <1>2, <1>3, PTL DEF Spec

\* Under the same conditions the cache a call leaves behind carries matches of
\* the very Split that split_id names, for the next call to reuse.
THEOREM OwnedWhenDecided ==
  WholeBuffers /\ OneAtATime /\ AllDecided => (Spec => []Owned)
<1> SUFFICES ASSUME WholeBuffers, OneAtATime, AllDecided
             PROVE  Spec => []Owned
  OBVIOUS
<1>1. Spec => [](Fresh /\ Owned)
  BY FreshWhenDecided
<1>2. Fresh /\ Owned => Owned
  OBVIOUS
<1> QED BY <1>1, <1>2, PTL
=============================================================================
