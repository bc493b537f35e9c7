------------------------------ MODULE Folding ------------------------------
(***************************************************************************)
(* What recursive functions, FlattenSeq, FoldLeft and UTF-8 compute for    *)
(* data of any size: the lemmas that proofs about concatenations, folds    *)
(* and texts rest on.  Induction is over a set of numbers (UpTo), whose    *)
(* hypotheses are first-order facts, and a recursive function is unfolded  *)
(* once it is shown that there is one (Recursion, Unrolling, FoldExists).  *)
(* At the end is what byte-level tokens are decoded to, and what texts     *)
(* that are cut are made of.                                               *)
(***************************************************************************)
EXTENDS Decoding, WellFoundedInduction, SequenceTheorems, FiniteSetTheorems, TLAPS

(***************************************************************************)
(* Induction over the numbers up to a bound.                               *)
(***************************************************************************)

\* A set of naturals that is not empty has a least element.
LEMMA Least ==
  ASSUME NEW D \in SUBSET Nat, D # {}
  PROVE  \E m \in D : \A e \in D : m <= e
<1>1. PICK m \in D : \A e \in D : <<e, m>> \notin OpToRel(<, Nat)
  BY WFMin, NatLessThanWellFounded
<1>2. \A e \in D : ~ e < m
  BY <1>1 DEF OpToRel
<1> QED
  BY <1>2

\* A set that holds 0 and, with every number below n, the next one, holds n.
LEMMA UpTo ==
  ASSUME NEW n \in Nat, NEW S, 0 \in S,
         \A m \in Nat : m < n /\ m \in S => m + 1 \in S
  PROVE  n \in S
<1> SUFFICES ASSUME n \notin S
             PROVE  FALSE
  OBVIOUS
<1> DEFINE D == {m \in 0..n : m \notin S}
<1>1. PICK m \in D : \A e \in D : m <= e
  <2>1. D \in SUBSET Nat /\ n \in D
    OBVIOUS
  <2> HIDE DEF D
  <2> QED
    BY <2>1, Least
<1>2. m # 0 /\ m - 1 \in 0..n /\ m - 1 \notin D
  BY <1>1
<1> QED
  BY <1>1, <1>2

(***************************************************************************)
(* Recursive functions over any set.                                       *)
(***************************************************************************)

\* A recursion over S with values in T: it ends in D, and each other s leads to
\* step[s], which is smaller, and makes a value of the one found there.
WellFounded(S, T, D, val, step, join, size) ==
  /\ T # {}
  /\ \A s \in S : size[s] \in Nat
  /\ \A s \in S : s \in D => val[s] \in T
  /\ \A s \in S : s \notin D => step[s] \in S /\ size[step[s]] < size[s]
  /\ \A s \in S, x \in T : s \notin D => join[s][x] \in T

\* The equation of the recursion, at one place.
Equals(D, val, step, join, h, s) ==
  h[s] = IF s \in D THEN val[s] ELSE join[s][h[step[s]]]

\* Two solutions for the sizes below n agree on them.
LEMMA SolutionsAgree ==
  ASSUME NEW S, NEW T, NEW D, NEW val, NEW step, NEW join, NEW size,
         WellFounded(S, T, D, val, step, join, size),
         NEW n \in Nat, NEW g, NEW h,
         \A s \in S : size[s] < n => Equals(D, val, step, join, g, s),
         \A s \in S : size[s] < n => Equals(D, val, step, join, h, s)
  PROVE  \A s \in S : size[s] < n => g[s] = h[s]
<1> DEFINE N == {m \in 0..n : \A s \in S : size[s] < m => g[s] = h[s]}
<1>1. 0 \in N
  BY DEF WellFounded
<1>2. ASSUME NEW m \in Nat, m < n, m \in N
      PROVE  m + 1 \in N
  <2>1. ASSUME NEW s \in S, size[s] < m + 1
        PROVE  g[s] = h[s]
    <3>1. size[s] < n /\ size[s] \in Nat
      BY <1>2, <2>1 DEF WellFounded
    <3>2. Equals(D, val, step, join, g, s) /\ Equals(D, val, step, join, h, s)
      BY <3>1
    <3>3. ASSUME s \notin D
          PROVE  g[step[s]] = h[step[s]]
      <4>1. step[s] \in S /\ size[step[s]] \in Nat /\ size[step[s]] < size[s]
        BY <3>3 DEF WellFounded
      <4>2. size[step[s]] < m
        BY <4>1, <3>1, <2>1, <1>2
      <4> QED
        BY <4>1, <4>2, <1>2
    <3> QED
      BY <3>2, <3>3 DEF Equals
  <2> QED
    BY <2>1, <1>2
<1> HIDE DEF N
<1>3. n \in N
  BY <1>1, <1>2, UpTo
<1> QED
  BY <1>3 DEF N

\* There is a solution for the sizes below any number.
LEMMA SolutionsBelow ==
  ASSUME NEW S, NEW T, NEW D, NEW val, NEW step, NEW join, NEW size,
         WellFounded(S, T, D, val, step, join, size),
         NEW n \in Nat
  PROVE  \E h \in [S -> T] : \A s \in S : size[s] < n => Equals(D, val, step, join, h, s)
<1> DEFINE N == {m \in Nat : \E h \in [S -> T] :
                    \A s \in S : size[s] < m => Equals(D, val, step, join, h, s)}
<1>1. 0 \in N
  <2>1. PICK t \in T : TRUE
    BY DEF WellFounded
  <2>2. [s \in S |-> t] \in [S -> T]
    OBVIOUS
  <2>3. \A s \in S : ~ size[s] < 0
    BY DEF WellFounded
  <2> QED
    BY <2>2, <2>3
<1>2. ASSUME NEW m \in Nat, m \in N
      PROVE  m + 1 \in N
  <2>1. PICK h \in [S -> T] : \A s \in S : size[s] < m => Equals(D, val, step, join, h, s)
    BY <1>2
  <2> DEFINE g == [s \in S |-> IF s \in D THEN val[s] ELSE join[s][h[step[s]]]]
  <2>2. g \in [S -> T]
    BY <2>1 DEF WellFounded
  <2>3. \A s \in S : g[s] = IF s \in D THEN val[s] ELSE join[s][h[step[s]]]
    OBVIOUS
  <2> HIDE DEF g
  <2>4. ASSUME NEW s \in S, size[s] < m + 1
        PROVE  Equals(D, val, step, join, g, s)
    <3>1. ASSUME s \notin D
          PROVE  g[step[s]] = h[step[s]]
      <4>1. step[s] \in S /\ size[step[s]] < m
        BY <2>4, <3>1, <1>2 DEF WellFounded
      <4>2. Equals(D, val, step, join, h, step[s])
        BY <4>1, <2>1
      <4> QED
        BY <4>1, <4>2, <2>3 DEF Equals
    <3> QED
      BY <3>1, <2>3 DEF Equals
  <2> QED
    BY <2>2, <2>4
<1> HIDE DEF N
<1>3. n \in N
  BY <1>1, <1>2, UpTo
<1> QED
  BY <1>3 DEF N

\* A well-founded recursion has a solution.
LEMMA Recursion ==
  ASSUME NEW S, NEW T, NEW D, NEW val, NEW step, NEW join, NEW size,
         WellFounded(S, T, D, val, step, join, size)
  PROVE  \E h \in [S -> T] :
            h = [s \in S |-> IF s \in D THEN val[s] ELSE join[s][h[step[s]]]]
<1> DEFINE Sol(n, f) == \A s \in S : size[s] < n => Equals(D, val, step, join, f, s)
           At(s) == CHOOSE f \in [S -> T] : Sol(size[s] + 1, f)
           h == [s \in S |-> At(s)[s]]
<1>1. ASSUME NEW s \in S
      PROVE  At(s) \in [S -> T] /\ Sol(size[s] + 1, At(s))
  <2>1. size[s] + 1 \in Nat
    BY DEF WellFounded
  <2>2. \E f \in [S -> T] : Sol(size[s] + 1, f)
    BY <2>1, SolutionsBelow
  <2> HIDE DEF Sol
  <2> QED
    BY <2>2
<1>2. \A s \in S : h[s] = At(s)[s]
  OBVIOUS
<1>3. h \in [S -> T]
  BY <1>1
<1> HIDE DEF At, h
<1>4. ASSUME NEW s \in S
      PROVE  Equals(D, val, step, join, h, s)
  <2>0. size[s] \in Nat
    BY DEF WellFounded
  <2>1. Equals(D, val, step, join, At(s), s)
    <3>1. size[s] < size[s] + 1
      BY <2>0
    <3> QED
      BY <3>1, <1>1
  <2>2. ASSUME s \notin D
        PROVE  h[step[s]] = At(s)[step[s]]
    <3> DEFINE r == step[s]
               n == size[r] + 1
    <3>1. r \in S /\ size[r] \in Nat /\ size[r] < size[s]
      BY <2>2 DEF WellFounded
    <3>2. n \in Nat /\ n < size[s] + 1 /\ size[r] < n
      BY <3>1, <2>0
    <3>3. Sol(n, At(r))
      BY <3>1, <1>1
    <3>4. Sol(n, At(s))
      BY <3>1, <3>2, <1>1, <2>0 DEF WellFounded
    <3> HIDE DEF n, r
    <3>5. \A q \in S : size[q] < n => At(r)[q] = At(s)[q]
      BY <3>2, <3>3, <3>4, SolutionsAgree
    <3>6. h[r] = At(s)[r]
      BY <3>1, <3>2, <3>5, <1>2
    <3> QED
      BY <3>6 DEF r
  <2> QED
    BY <2>1, <2>2, <1>2 DEF Equals
<1>5. h = [s \in S |-> IF s \in D THEN val[s] ELSE join[s][h[step[s]]]]
  BY <1>3, <1>4 DEF Equals
<1> QED
  BY <1>3, <1>5

(***************************************************************************)
(* The recursive function under FlattenSeq.                                *)
(***************************************************************************)

\* g is the table of the concatenations of the first 1, 2, ... elements of s.
Unrolls(s, g) ==
  g = [i \in 1..Len(s) |-> IF i = 1 THEN s[i] ELSE g[i - 1] \o s[i]]

\* FlattenSeq is the last entry of the table, if there is a table.
LEMMA FlattenUnrolls ==
  ASSUME NEW s, Len(s) # 0, \E g : Unrolls(s, g)
  PROVE  \E g : Unrolls(s, g) /\ FlattenSeq(s) = g[Len(s)]
BY DEF FlattenSeq, Unrolls

\* There is a table for every sequence of sequences.
LEMMA Unrolling ==
  ASSUME NEW T, NEW s \in Seq(Seq(T))
  PROVE  \E g \in [1..Len(s) -> Seq(T)] : Unrolls(s, g)
<1> DEFINE P(m, g) == \A i \in 1..m : g[i] = IF i = 1 THEN s[i] ELSE g[i - 1] \o s[i]
           S == {m \in 0..Len(s) : \E g \in [1..Len(s) -> Seq(T)] : P(m, g)}
<1>1. 0 \in S
  <2> DEFINE g == [i \in 1..Len(s) |-> <<>>]
  <2>1. g \in [1..Len(s) -> Seq(T)] /\ P(0, g)
    OBVIOUS
  <2> QED
    BY <2>1
<1>2. ASSUME NEW m \in Nat, m < Len(s), m \in S
      PROVE  m + 1 \in S
  <2>0. m \in Nat /\ m < Len(s) /\ Len(s) \in Nat
    BY <1>2
  <2>1. PICK g \in [1..Len(s) -> Seq(T)] : P(m, g)
    BY <1>2
  <2> DEFINE x == IF m = 0 THEN s[1] ELSE g[m] \o s[m + 1]
             h == [g EXCEPT ![m + 1] = x]
  <2>2. x \in Seq(T)
    <3>1. CASE m = 0
      BY <3>1, <1>2
    <3>2. CASE m # 0
      <4>1. m \in 1..Len(s) /\ m + 1 \in 1..Len(s)
        BY <2>0, <3>2
      <4>2. g[m] \in Seq(T)
        BY <2>1, <4>1
      <4>3. s[m + 1] \in Seq(T)
        BY <4>1
      <4> QED
        BY <3>2, <4>2, <4>3
    <3> QED
      BY <3>1, <3>2
  <2> HIDE DEF x
  <2>3. h \in [1..Len(s) -> Seq(T)]
    BY <2>2
  <2>4. h[m + 1] = x /\ \A i \in 1..m : h[i] = g[i]
    BY <2>0
  <2> HIDE DEF h
  <2>5. ASSUME NEW i \in 1..m + 1
        PROVE  h[i] = IF i = 1 THEN s[i] ELSE h[i - 1] \o s[i]
    <3>1. CASE i = m + 1
      BY <3>1, <2>4, <2>0 DEF x
    <3>2. CASE i # m + 1
      <4>1. i \in 1..m /\ (i # 1 => i - 1 \in 1..m)
        BY <3>2, <2>0
      <4>2. g[i] = IF i = 1 THEN s[i] ELSE g[i - 1] \o s[i]
        BY <4>1, <2>1
      <4>3. h[i] = g[i] /\ (i # 1 => h[i - 1] = g[i - 1])
        BY <4>1, <2>4
      <4> QED
        BY <4>2, <4>3
    <3> QED
      BY <3>1, <3>2
  <2>6. P(m + 1, h)
    BY <2>5
  <2>7. m + 1 \in 0..Len(s)
    BY <2>0
  <2> HIDE DEF P
  <2> QED
    BY <2>3, <2>6, <2>7
<1> HIDE DEF S
<1>3. Len(s) \in S
  BY <1>1, <1>2, UpTo
<1>4. PICK g \in [1..Len(s) -> Seq(T)] : P(Len(s), g)
  BY <1>3 DEF S
<1> QED
  BY <1>4 DEF Unrolls

\* Tables agree as far as their sequences do.
LEMMA SameUnrolling ==
  ASSUME NEW s, NEW t, NEW g, NEW h, Len(s) \in Nat, Len(t) \in Nat, Unrolls(s, g), Unrolls(t, h),
         NEW n \in Nat, n <= Len(s), n <= Len(t), \A i \in 1..n : s[i] = t[i]
  PROVE  \A i \in 1..n : g[i] = h[i]
<1> DEFINE S == {m \in 0..n : \A i \in 1..m : g[i] = h[i]}
<1>1. 0 \in S
  OBVIOUS
<1>2. ASSUME NEW m \in Nat, m < n, m \in S
      PROVE  m + 1 \in S
  <2>1. g[m + 1] = (IF m + 1 = 1 THEN s[m + 1] ELSE g[m] \o s[m + 1])
    <3>1. m + 1 \in 1..Len(s) /\ (m + 1) - 1 = m
      BY <1>2
    <3> QED
      BY <3>1 DEF Unrolls
  <2>2. h[m + 1] = (IF m + 1 = 1 THEN t[m + 1] ELSE h[m] \o t[m + 1])
    <3>1. m + 1 \in 1..Len(t) /\ (m + 1) - 1 = m
      BY <1>2
    <3> QED
      BY <3>1 DEF Unrolls
  <2>3. g[m + 1] = h[m + 1]
    BY <2>1, <2>2, <1>2
  <2> QED
    BY <2>3, <1>2
<1> HIDE DEF S
<1>3. n \in S
  BY <1>1, <1>2, UpTo
<1> QED
  BY <1>3 DEF S

(***************************************************************************)
(* Concatenations.                                                         *)
(***************************************************************************)

\* No sequences concatenate to the empty one.
LEMMA FlattenOfNone ==
  ASSUME NEW s, Len(s) = 0
  PROVE  FlattenSeq(s) = s
BY DEF FlattenSeq

\* A concatenation is a sequence over what its parts are made of.
LEMMA FlattenType ==
  ASSUME NEW T, NEW s \in Seq(Seq(T))
  PROVE  FlattenSeq(s) \in Seq(T)
<1>1. CASE Len(s) = 0
  <2>1. s = <<>> /\ FlattenSeq(s) = s
    BY <1>1, FlattenOfNone
  <2>2. <<>> \in Seq(T)
    OBVIOUS
  <2> QED
    BY <2>1, <2>2
<1>2. CASE Len(s) # 0
  <2>1. PICK g \in [1..Len(s) -> Seq(T)] : Unrolls(s, g)
    BY Unrolling
  <2>2. PICK h : Unrolls(s, h) /\ FlattenSeq(s) = h[Len(s)]
    BY <1>2, <2>1, FlattenUnrolls
  <2>3. Len(s) \in Nat
    OBVIOUS
  <2>4. \A i \in 1..Len(s) : g[i] = h[i]
    <3>1. Len(s) <= Len(s)
      BY <2>3
    <3> QED
      BY <2>1, <2>2, <2>3, <3>1, SameUnrolling
  <2>5. g[Len(s)] = h[Len(s)]
    BY <1>2, <2>3, <2>4
  <2>6. g[Len(s)] \in Seq(T)
    <3>1. Len(s) \in 1..Len(s)
      BY <1>2, <2>3
    <3> QED
      BY <3>1
  <2> QED
    BY <2>2, <2>5, <2>6
<1> QED
  BY <1>1, <1>2

\* One more part adds to the end.
LEMMA FlattenAppend ==
  ASSUME NEW T, NEW s \in Seq(Seq(T)), NEW x \in Seq(T)
  PROVE  FlattenSeq(Append(s, x)) = FlattenSeq(s) \o x
<1> DEFINE t == Append(s, x)
<1>1. t \in Seq(Seq(T)) /\ Len(t) = Len(s) + 1 /\ Len(s) \in Nat /\ t[Len(s) + 1] = x
      /\ \A i \in 1..Len(s) : t[i] = s[i]
  OBVIOUS
<1> HIDE DEF t
<1>2. PICK g : Unrolls(t, g) /\ FlattenSeq(t) = g[Len(t)]
  <2>1. \E g : Unrolls(t, g)
    BY <1>1, Unrolling
  <2>2. Len(t) # 0
    BY <1>1
  <2> QED
    BY <2>1, <2>2, FlattenUnrolls
<1>3. FlattenSeq(t) = IF Len(t) = 1 THEN x ELSE g[Len(s)] \o x
  <2>1. Len(t) \in 1..Len(t) /\ Len(t) - 1 = Len(s) /\ t[Len(t)] = x
    BY <1>1
  <2>2. g[Len(t)] = IF Len(t) = 1 THEN t[Len(t)] ELSE g[Len(t) - 1] \o t[Len(t)]
    BY <1>2, <2>1 DEF Unrolls
  <2> QED
    BY <1>2, <2>1, <2>2
<1>4. CASE Len(s) = 0
  <2>1. s = <<>> /\ FlattenSeq(s) = <<>>
    BY <1>4, FlattenOfNone
  <2>2. FlattenSeq(t) = x
    BY <1>1, <1>3, <1>4
  <2>3. <<>> \o x = x
    OBVIOUS
  <2>4. FlattenSeq(t) = FlattenSeq(s) \o x
    BY <2>1, <2>2, <2>3
  <2> QED
    BY <2>4 DEF t
<1>5. CASE Len(s) # 0
  <2>1. PICK h : Unrolls(s, h) /\ FlattenSeq(s) = h[Len(s)]
    BY <1>5, FlattenUnrolls, Unrolling
  <2>2. \A i \in 1..Len(s) : g[i] = h[i]
    <3>1. Len(s) <= Len(s) /\ Len(s) <= Len(t) /\ Len(t) \in Nat
      BY <1>1
    <3>2. \A i \in 1..Len(s) : t[i] = s[i]
      BY <1>1
    <3>3. Unrolls(t, g) /\ Unrolls(s, h) /\ Len(s) \in Nat
      BY <1>1, <1>2, <2>1
    <3> QED
      BY <3>1, <3>2, <3>3, SameUnrolling
  <2>3. g[Len(s)] = h[Len(s)]
    BY <1>1, <1>5, <2>2
  <2>4. Len(t) # 1
    BY <1>1, <1>5
  <2>5. FlattenSeq(t) = FlattenSeq(s) \o x
    BY <1>3, <2>1, <2>3, <2>4
  <2> QED
    BY <2>5 DEF t
<1> QED
  BY <1>4, <1>5

\* A function on 1..n is a sequence of length n.
LEMMA Tabled ==
  ASSUME NEW T, NEW n \in Nat, NEW f \in [1..n -> T]
  PROVE  f \in Seq(T) /\ Len(f) = n
OBVIOUS

\* Three sequences of one kind.
Three(T, s, t, u) == s \in Seq(T) /\ t \in Seq(T) /\ u \in Seq(T)

\* Concatenation does not depend on brackets.
LEMMA Bracketed ==
  ASSUME NEW T, NEW s, NEW t, NEW u, Three(T, s, t, u)
  PROVE  (s \o t) \o u = s \o (t \o u)
BY DEF Three

\* The parts of two sequences concatenate to the two concatenations.
LEMMA FlattenConcat ==
  ASSUME NEW T, NEW s \in Seq(Seq(T)), NEW t \in Seq(Seq(T))
  PROVE  FlattenSeq(s \o t) = FlattenSeq(s) \o FlattenSeq(t)
<1> DEFINE u(m) == [i \in 1..m |-> t[i]]
           S == {m \in 0..Len(t) : FlattenSeq(s \o u(m)) = FlattenSeq(s) \o FlattenSeq(u(m))}
<1>1. 0 \in S
  <2>1. u(0) = <<>> /\ s \o <<>> = s
    OBVIOUS
  <2>2. FlattenSeq(s) \in Seq(T) /\ FlattenSeq(<<>>) = <<>>
    BY FlattenType, FlattenOfNone
  <2>3. FlattenSeq(s) \o <<>> = FlattenSeq(s)
    BY <2>2
  <2> QED
    BY <2>1, <2>2, <2>3
<1>2. ASSUME NEW m \in Nat, m < Len(t), m \in S
      PROVE  m + 1 \in S
  <2>1. u(m) \in Seq(Seq(T)) /\ t[m + 1] \in Seq(T) /\ u(m + 1) = Append(u(m), t[m + 1])
    BY <1>2
  <2>2. s \o u(m) \in Seq(Seq(T)) /\ s \o u(m + 1) = Append(s \o u(m), t[m + 1])
    BY <2>1
  <2>3. FlattenSeq(s \o u(m)) = FlattenSeq(s) \o FlattenSeq(u(m))
    BY <1>2
  <2> HIDE DEF u, S
  <2>4. FlattenSeq(s \o u(m + 1)) = FlattenSeq(s \o u(m)) \o t[m + 1]
    BY <2>1, <2>2, FlattenAppend
  <2>5. FlattenSeq(u(m + 1)) = FlattenSeq(u(m)) \o t[m + 1]
    BY <2>1, FlattenAppend
  <2>6. FlattenSeq(s) \in Seq(T) /\ FlattenSeq(u(m)) \in Seq(T)
    BY <2>1, FlattenType
  <2>7. FlattenSeq(s \o u(m + 1)) = FlattenSeq(s) \o FlattenSeq(u(m + 1))
    <3>1. (FlattenSeq(s) \o FlattenSeq(u(m))) \o t[m + 1]
          = FlattenSeq(s) \o (FlattenSeq(u(m)) \o t[m + 1])
      <4> DEFINE a == FlattenSeq(s)
                 b == FlattenSeq(u(m))
                 c == t[m + 1]
      <4>1. a \in Seq(T) /\ b \in Seq(T) /\ c \in Seq(T)
        BY <2>1, <2>6
      <4> HIDE DEF a, b, c
      <4>2. Three(T, a, b, c)
        BY <4>1 DEF Three
      <4>3. (a \o b) \o c = a \o (b \o c)
        BY <4>2, Bracketed
      <4> QED
        BY <4>3 DEF a, b, c
    <3> QED
      BY <2>3, <2>4, <2>5, <3>1, Zenon
  <2>8. m + 1 \in 0..Len(t)
    BY <1>2
  <2> QED
    BY <2>7, <2>8 DEF S
<1>3. Len(t) \in S
  <2> HIDE DEF S
  <2> QED
    BY <1>1, <1>2, UpTo
<1>4. u(Len(t)) = t
  OBVIOUS
<1> QED
  BY <1>3, <1>4

\* A single part is its own concatenation.
LEMMA FlattenOne ==
  ASSUME NEW T, NEW x \in Seq(T)
  PROVE  FlattenSeq(<<x>>) = x
<1>1. <<>> \in Seq(Seq(T)) /\ Append(<<>>, x) = <<x>>
  OBVIOUS
<1>2. FlattenSeq(Append(<<>>, x)) = FlattenSeq(<<>>) \o x
  BY <1>1, FlattenAppend
<1>3. FlattenSeq(<<>>) = <<>>
  BY FlattenOfNone
<1> QED
  BY <1>1, <1>2, <1>3

(***************************************************************************)
(* Parts of a sequence, and of its concatenation.                          *)
(***************************************************************************)

\* The first m elements of s.
First(s, m) == [i \in 1..m |-> s[i]]

\* The elements of s after the m-th, up to the n-th.
Middle(s, m, n) == [i \in 1..n - m |-> s[m + i]]

\* The first n elements of s are the first m and those between.
Cuts(T, s, m, n) ==
  /\ First(s, m) \in Seq(T) /\ Len(First(s, m)) = m
  /\ Middle(s, m, n) \in Seq(T) /\ Len(Middle(s, m, n)) = n - m
  /\ First(s, n) = First(s, m) \o Middle(s, m, n)

\* A sequence may be cut anywhere.
LEMMA FirstSplits ==
  ASSUME NEW T, NEW s \in Seq(T), NEW m \in Nat, NEW n \in Nat, m <= n, n <= Len(s)
  PROVE  Cuts(T, s, m, n)
<1> DEFINE f == First(s, m)
           r == Middle(s, m, n)
           g == First(s, n)
<1>0. n - m \in Nat
  OBVIOUS
<1>1. f \in Seq(T) /\ Len(f) = m /\ \A i \in 1..m : f[i] = s[i]
  BY DEF First
<1>2. r \in Seq(T) /\ Len(r) = n - m /\ \A i \in 1..n - m : r[i] = s[m + i]
  BY <1>0 DEF Middle
<1>3. g \in Seq(T) /\ Len(g) = n /\ \A i \in 1..n : g[i] = s[i]
  BY DEF First
<1> HIDE DEF f, r, g
<1>4. f \o r \in Seq(T) /\ Len(f \o r) = n
  <2>1. f \o r \in Seq(T) /\ Len(f \o r) = Len(f) + Len(r)
    BY <1>1, <1>2, ConcatProperties
  <2>2. m + (n - m) = n
    OBVIOUS
  <2> QED
    BY <1>1, <1>2, <2>1, <2>2
<1>5. ASSUME NEW i \in 1..n
      PROVE  (f \o r)[i] = s[i]
  <2>1. (f \o r)[i] = IF i <= Len(f) THEN f[i] ELSE r[i - Len(f)]
    BY <1>0, <1>1, <1>2, ConcatProperties
  <2>2. CASE i <= m
    BY <1>1, <2>1, <2>2
  <2>3. CASE ~ i <= m
    <3>1. i - m \in 1..n - m /\ m + (i - m) = i
      BY <2>3
    <3> QED
      BY <1>1, <1>2, <2>1, <2>3, <3>1
  <2> QED
    BY <2>2, <2>3
<1>6. g = f \o r
  BY <1>3, <1>4, <1>5, SeqEqual
<1> QED
  BY <1>1, <1>2, <1>6 DEF f, r, g, Cuts

\* As many first elements as there are make up the sequence.
LEMMA FirstAll ==
  ASSUME NEW T, NEW s \in Seq(T)
  PROVE  First(s, Len(s)) = s
BY DEF First

\* The first m elements are the first m - 1 and one more.
LEMMA FirstGrows ==
  ASSUME NEW T, NEW s \in Seq(T), NEW m \in 1..Len(s)
  PROVE  First(s, m) = Append(First(s, m - 1), s[m])
BY DEF First

\* The middle of three parts is found between their lengths.
LEMMA Between ==
  ASSUME NEW T, NEW a \in Seq(T), NEW b \in Seq(T), NEW c \in Seq(T)
  PROVE  SubSeq((a \o b) \o c, Len(a) + 1, Len(a \o b)) = b
OBVIOUS

\* Part m lies in the concatenation between the ends of what is before it and of
\* itself: ids are cut out of a bucket by the ends kept for its splits.
LEMMA FlattenSlice ==
  ASSUME NEW T, NEW s \in Seq(Seq(T)), NEW m \in 1..Len(s)
  PROVE  SubSeq(FlattenSeq(s), Len(FlattenSeq(First(s, m - 1))) + 1, Len(FlattenSeq(First(s, m)))) = s[m]
<1> DEFINE r == Middle(s, m, Len(s))
           a == FlattenSeq(First(s, m - 1))
           b == s[m]
           c == FlattenSeq(r)
<1>1. First(s, m - 1) \in Seq(Seq(T)) /\ First(s, m) \in Seq(Seq(T)) /\ r \in Seq(Seq(T))
      /\ s = First(s, m) \o r
  <2>1. m \in Nat /\ m - 1 \in Nat /\ m <= Len(s) /\ m - 1 <= Len(s) /\ Len(s) \in Nat /\ Len(s) <= Len(s)
    OBVIOUS
  <2> DEFINE U == Seq(T)
  <2>2. s \in Seq(U)
    OBVIOUS
  <2> HIDE DEF U
  <2>3. First(s, m - 1) \in Seq(U)
    <3>1. Cuts(U, s, m - 1, Len(s))
      BY <2>1, <2>2, FirstSplits
    <3> QED
      BY <3>1 DEF Cuts
  <2>4. First(s, m) \in Seq(U) /\ r \in Seq(U) /\ First(s, Len(s)) = First(s, m) \o r
    <3>1. Cuts(U, s, m, Len(s))
      BY <2>1, <2>2, FirstSplits
    <3> QED
      BY <3>1 DEF Cuts
  <2>5. First(s, Len(s)) = s
    BY <2>2, FirstAll
  <2> QED
    BY <2>3, <2>4, <2>5 DEF U
<1>2. a \in Seq(T) /\ b \in Seq(T) /\ c \in Seq(T)
  <2>1. b \in Seq(T)
    OBVIOUS
  <2> QED
    BY <1>1, <2>1, FlattenType
<1>3. FlattenSeq(First(s, m)) = a \o b
  <2>1. First(s, m) = Append(First(s, m - 1), b)
    BY FirstGrows
  <2> QED
    BY <1>1, <1>2, <2>1, FlattenAppend
<1>4. FlattenSeq(s) = (a \o b) \o c
  <2>1. FlattenSeq(First(s, m) \o r) = FlattenSeq(First(s, m)) \o c
    BY <1>1, FlattenConcat
  <2> QED
    BY <1>1, <1>3, <2>1
<1> HIDE DEF a, b, c
<1>5. SubSeq(FlattenSeq(s), Len(a) + 1, Len(a \o b)) = b
  BY <1>2, <1>4, Between
<1> QED
  BY <1>3, <1>5 DEF a, b

\* w is the concatenations of n contiguous pieces of s, cut at cut.
Concatenates(T, s, n, cut, w) ==
  /\ s \in Seq(Seq(T)) /\ w \in Seq(Seq(T))
  /\ n \in Nat /\ Len(w) = n
  /\ cut \in [0..n -> 0..Len(s)] /\ cut[0] = 0 /\ cut[n] = Len(s)
  /\ \A p \in 1..n :
       /\ cut[p - 1] <= cut[p]
       /\ w[p] = FlattenSeq([i \in 1..cut[p] - cut[p - 1] |-> s[cut[p - 1] + i]])

\* Concatenating contiguous pieces, each concatenated by itself, is concatenating
\* all: chunks may be tokenized apart.
LEMMA FlattenPieces ==
  ASSUME NEW T, NEW s, NEW n, NEW cut, NEW w, Concatenates(T, s, n, cut, w)
  PROVE  FlattenSeq(w) = FlattenSeq(s)
<1> USE DEF Concatenates
<1> DEFINE S == {p \in 0..n : FlattenSeq(First(w, p)) = FlattenSeq(First(s, cut[p]))}
<1>1. 0 \in S
  <2>1. First(w, 0) = First(s, cut[0])
    BY DEF First
  <2> QED
    BY <2>1
<1>2. ASSUME NEW p \in Nat, p < n, p \in S
      PROVE  p + 1 \in S
  <2> DEFINE a == First(s, cut[p])
             b == Middle(s, cut[p], cut[p + 1])
  <2>1. p \in Nat /\ p + 1 \in 1..n /\ (p + 1) - 1 = p /\ p + 1 \in 0..n /\ p \in 0..n
    BY <1>2
  <2>2. cut[p] \in Nat /\ cut[p + 1] \in Nat /\ cut[p] <= cut[p + 1] /\ cut[p + 1] <= Len(s) /\ cut[p] <= Len(s)
    <3>1. cut[p] \in 0..Len(s) /\ cut[p + 1] \in 0..Len(s) /\ cut[p] <= cut[p + 1]
      BY <2>1
    <3> QED
      BY <3>1
  <2>5. w[p + 1] = FlattenSeq(b) /\ w[p + 1] \in Seq(T)
    <3>1. w[p + 1] = FlattenSeq(b)
      BY <2>1 DEF Middle
    <3>2. p + 1 \in 1..Len(w)
      BY <2>1
    <3> QED
      BY <3>1, <3>2
  <2>6. FlattenSeq(First(w, p)) = FlattenSeq(a)
    BY <1>2
  <2> HIDE DEF S
  <2>7. a \in Seq(Seq(T)) /\ b \in Seq(Seq(T)) /\ First(s, cut[p + 1]) = a \o b
    <3> DEFINE U == Seq(T)
    <3>1. s \in Seq(U)
      OBVIOUS
    <3> HIDE DEF U
    <3>2. a \in Seq(U) /\ b \in Seq(U) /\ First(s, cut[p + 1]) = a \o b
      <4>1. Cuts(U, s, cut[p], cut[p + 1])
        BY <2>2, <3>1, FirstSplits
      <4> QED
        BY <4>1 DEF Cuts
    <3> QED
      BY <3>2 DEF U
  <2>8. First(w, p) \in Seq(Seq(T)) /\ First(w, p + 1) = Append(First(w, p), w[p + 1])
    <3>1. p + 1 \in 1..Len(w) /\ p <= Len(w)
      BY <2>1
    <3> DEFINE U == Seq(T)
    <3>2. w \in Seq(U)
      OBVIOUS
    <3> HIDE DEF U
    <3>3. First(w, p) \in Seq(U)
      <4>1. Cuts(U, w, p, p)
        BY <3>1, <3>2, <2>1, FirstSplits
      <4> QED
        BY <4>1 DEF Cuts
    <3>4. First(w, p + 1) = Append(First(w, p), w[p + 1])
      BY <3>1, <3>2, <2>1, FirstGrows
    <3> QED
      BY <3>3, <3>4 DEF U
  <2>9. FlattenSeq(First(w, p + 1)) = FlattenSeq(First(w, p)) \o w[p + 1]
    BY <2>5, <2>8, FlattenAppend
  <2>10. FlattenSeq(a \o b) = FlattenSeq(a) \o FlattenSeq(b)
    BY <2>7, FlattenConcat
  <2>11. FlattenSeq(First(w, p + 1)) = FlattenSeq(First(s, cut[p + 1]))
    BY <2>5, <2>6, <2>7, <2>9, <2>10
  <2> QED
    BY <2>1, <2>11 DEF S
<1>3. n \in S
  <2> HIDE DEF S
  <2> QED
    BY <1>1, <1>2, UpTo
<1>4. First(w, n) = w /\ First(s, Len(s)) = s
  BY DEF First
<1> QED
  BY <1>3, <1>4

(***************************************************************************)
(* Folds: what FoldLeft computes, one element after the other.             *)
(***************************************************************************)

\* The greatest of some of the numbers up to n is one of them.
LEMMA Greatest ==
  ASSUME NEW n \in Nat, NEW s \in SUBSET (1..n), s # {}
  PROVE  Max(s) \in s /\ \A x \in s : x <= Max(s)
<1> DEFINE D == {n - x : x \in s}
<1>0. \A x \in s : x \in 1..n /\ n - x \in Nat /\ n - x \in D
  OBVIOUS
<1>1. D \in SUBSET Nat /\ D # {}
  BY <1>0
<1>2. PICK m \in D : \A e \in D : m <= e
  BY <1>1, Least
<1>3. PICK x \in s : m = n - x
  BY <1>2
<1>4. ASSUME NEW y \in s
      PROVE  y <= x
  <2>1. n - x <= n - y
    BY <1>0, <1>2, <1>3
  <2> QED
    BY <1>0, <2>1
<1>5. \E y \in s : \A z \in s : y >= z
  BY <1>3, <1>4
<1>6. Max(s) \in s /\ \A z \in s : Max(s) >= z
  BY <1>5 DEF Max
<1> QED
  BY <1>6

\* The greatest of the numbers up to k, and what is left without it.
LEMMA GreatestUpTo ==
  ASSUME NEW k \in Nat \ {0}
  PROVE  Max(1..k) = k /\ (1..k) \ {k} = 1..(k - 1)
<1>1. 1..k \in SUBSET (1..k) /\ 1..k # {}
  OBVIOUS
<1>2. Max(1..k) \in 1..k /\ \A x \in 1..k : x <= Max(1..k)
  BY <1>1, Greatest
<1> QED
  BY <1>2

\* What FoldLeft builds: at a set of places, the fold of the elements there.
Iterates(n, base, join, g) ==
  g = [s \in SUBSET (1..n) |-> IF s = {} THEN base ELSE join[Max(s)][g[s \ {Max(s)}]]]

\* There is such a function if the steps stay in a set.
LEMMA FoldExists ==
  ASSUME NEW n \in Nat, NEW T, NEW base \in T, NEW join, \A i \in 1..n, x \in T : join[i][x] \in T
  PROVE  \E g \in [SUBSET (1..n) -> T] : Iterates(n, base, join, g)
<1> DEFINE S == SUBSET (1..n)
           D == {{}}
           val == [s \in S |-> base]
           step == [s \in S |-> s \ {Max(s)}]
           through == [s \in S |-> join[Max(s)]]
           size == [s \in S |-> IF s = {} THEN 0 ELSE Max(s)]
<1>1. ASSUME NEW s \in S, s # {}
      PROVE  Max(s) \in 1..n /\ step[s] \in S /\ size[step[s]] < size[s]
  <2>1. Max(s) \in s /\ \A x \in s : x <= Max(s)
    BY <1>1, Greatest
  <2>2. step[s] = s \ {Max(s)} /\ step[s] \in S
    BY <1>1
  <2>3. step[s] # {} => Max(step[s]) \in step[s]
    BY <2>2, Greatest
  <2>4. Max(s) \in 1..n
    BY <2>1
  <2> QED
    BY <2>1, <2>2, <2>3, <2>4
<1>2. WellFounded(S, T, D, val, step, through, size)
  <2>1. ASSUME NEW s \in S
        PROVE  size[s] \in Nat
    <3>1. CASE s = {}
      BY <3>1
    <3>2. CASE s # {}
      <4>1. Max(s) \in 1..n
        BY <3>2, <1>1
      <4> QED
        BY <3>2, <4>1
    <3> QED
      BY <3>1, <3>2
  <2>2. \A s \in S : s \in D => val[s] \in T
    OBVIOUS
  <2>3. \A s \in S : s \notin D => step[s] \in S /\ size[step[s]] < size[s]
    BY <1>1
  <2>4. \A s \in S, x \in T : s \notin D => through[s][x] \in T
    BY <1>1
  <2> HIDE DEF S, D, val, step, through, size
  <2> QED
    BY <2>1, <2>2, <2>3, <2>4 DEF WellFounded
<1>3. PICK g \in [S -> T] : g = [s \in S |-> IF s \in D THEN val[s] ELSE through[s][g[step[s]]]]
  <2> HIDE DEF S, D, val, step, through, size
  <2> QED
    BY <1>2, Recursion
<1>4. Iterates(n, base, join, g)
  BY <1>3 DEF Iterates
<1> QED
  BY <1>3, <1>4

\* Two functions that go the same steps are the same on the first places.
LEMMA FoldAgrees ==
  ASSUME NEW n \in Nat, NEW f, NEW g, f[{}] = g[{}],
         \A s \in SUBSET (1..n) : s # {} /\ f[s \ {Max(s)}] = g[s \ {Max(s)}] => f[s] = g[s]
  PROVE  f[1..n] = g[1..n]
<1> DEFINE N == {k \in 0..n : f[1..k] = g[1..k]}
<1>1. 0 \in N
  <2>1. 1..0 = {}
    OBVIOUS
  <2> QED
    BY <2>1
<1>2. ASSUME NEW k \in Nat, k < n /\ k \in N
      PROVE  k + 1 \in N
  <2>1. Max(1..(k + 1)) = k + 1 /\ (1..(k + 1)) \ {k + 1} = 1..k
    <3>1. k + 1 \in Nat \ {0} /\ (k + 1) - 1 = k
      OBVIOUS
    <3> QED
      BY <3>1, GreatestUpTo
  <2>2. 1..(k + 1) \in SUBSET (1..n) /\ 1..(k + 1) # {} /\ k + 1 \in 0..n
    <3>1. 1..(k + 1) \subseteq 1..n
      BY <1>2
    <3>2. k + 1 \in 1..(k + 1) /\ k + 1 \in 0..n
      BY <1>2
    <3> QED
      BY <3>1, <3>2
  <2>3. f[1..(k + 1)] = g[1..(k + 1)]
    BY <1>2, <2>1, <2>2
  <2> QED
    BY <2>2, <2>3
<1> HIDE DEF N
<1>3. n \in N
  BY <1>1, <1>2, UpTo
<1> QED
  BY <1>3 DEF N

\* The fold of the first k elements, for each k: h begins with base and goes on by join.
Goes(n, base, join, h) == h[0] = base /\ \A k \in 1..n : h[k] = join[k][h[k - 1]]

\* There are such folds, and the last is x.
Leads(n, T, base, join, x) == \E h \in [0..n -> T] : Goes(n, base, join, h) /\ h[n] = x

\* What FoldLeft builds goes through the folds of the first elements.
LEMMA FoldGoes ==
  ASSUME NEW n \in Nat, NEW T, NEW base, NEW join, NEW g \in [SUBSET (1..n) -> T], Iterates(n, base, join, g)
  PROVE  Leads(n, T, base, join, g[1..n])
<1> DEFINE h == [k \in 0..n |-> g[1..k]]
<1>1. \A k \in 0..n : 1..k \in SUBSET (1..n)
  OBVIOUS
<1>2. h \in [0..n -> T]
  BY <1>1
<1>3. h[0] = base
  <2>1. 1..0 = {} /\ {} \in SUBSET (1..n)
    OBVIOUS
  <2> QED
    BY <2>1 DEF Iterates
<1>4. ASSUME NEW k \in 1..n
      PROVE  h[k] = join[k][h[k - 1]]
  <2>1. Max(1..k) = k /\ (1..k) \ {k} = 1..(k - 1)
    BY GreatestUpTo
  <2>2. 1..k \in SUBSET (1..n) /\ 1..k # {} /\ k - 1 \in 0..n
    OBVIOUS
  <2>3. g[1..k] = join[k][g[1..(k - 1)]]
    BY <2>1, <2>2 DEF Iterates
  <2> QED
    BY <2>2, <2>3
<1>5. h[n] = g[1..n]
  OBVIOUS
<1> HIDE DEF h
<1> QED
  BY <1>2, <1>3, <1>4, <1>5 DEF Goes, Leads

\* What FoldLeft chooses ends where the steps lead.
LEMMA FoldEnds ==
  ASSUME NEW n \in Nat, NEW T, NEW base, NEW join, NEW iter \in [SUBSET (1..n) -> T],
         Iterates(n, base, join, iter), NEW g, g[{}] = base,
         \A s \in SUBSET (1..n) : s # {} /\ g[s \ {Max(s)}] = iter[s \ {Max(s)}] => g[s] = iter[s]
  PROVE  Leads(n, T, base, join, g[1..n])
<1>1. iter[{}] = base
  BY DEF Iterates
<1>2. g[1..n] = iter[1..n]
  BY <1>1, FoldAgrees
<1>3. Leads(n, T, base, join, iter[1..n])
  BY FoldGoes
<1> QED
  BY <1>2, <1>3

(***************************************************************************)
(* Sequences with the same elements, and numbers within a bound.           *)
(***************************************************************************)

\* Sequences of one length with the same elements are one.
LEMMA SameSeq ==
  ASSUME NEW T, NEW x \in Seq(T), NEW y \in Seq(T), Len(x) = Len(y), \A k \in 1..Len(x) : x[k] = y[k]
  PROVE  x = y
OBVIOUS

\* A sequence over a set is one over a larger set.
LEMMA WiderSeq ==
  ASSUME NEW U, NEW V, U \subseteq V, NEW z \in Seq(U)
  PROVE  z \in Seq(V)
OBVIOUS

\* Finitely many numbers are bounded.
LEMMA Bounded ==
  ASSUME NEW m \in Nat, NEW f, \A i \in 1..m : f[i] \in Nat
  PROVE  \E b \in Nat : \A i \in 1..m : f[i] <= b
<1> DEFINE S == {k \in 0..m : \E b \in Nat : \A i \in 1..k : f[i] <= b}
<1>1. 0 \in S
  <2>1. \A i \in 1..0 : f[i] <= 0
    OBVIOUS
  <2> QED
    BY <2>1
<1>2. ASSUME NEW k \in Nat, k < m /\ k \in S
      PROVE  k + 1 \in S
  <2>1. PICK b \in Nat : \A i \in 1..k : f[i] <= b
    BY <1>2
  <2>2. f[k + 1] \in Nat /\ b + f[k + 1] \in Nat
    BY <1>2
  <2>3. ASSUME NEW i \in 1..(k + 1)
        PROVE  f[i] <= b + f[k + 1]
    <3>1. CASE i = k + 1
      BY <3>1, <2>2
    <3>2. CASE i # k + 1
      <4>1. i \in 1..k /\ f[i] \in Nat /\ f[i] <= b
        BY <1>2, <2>1, <3>2
      <4> QED
        BY <2>2, <4>1
    <3> QED
      BY <3>1, <3>2
  <2> QED
    BY <1>2, <2>2, <2>3
<1> HIDE DEF S
<1>3. m \in S
  BY <1>1, <1>2, UpTo
<1> QED
  BY <1>3 DEF S

(***************************************************************************)
(* The elements at the chosen places of a sequence.                        *)
(***************************************************************************)

\* There is a place up to which there are k of the chosen ones.
LEMMA NthIs ==
  ASSUME NEW n \in Nat, NEW places \in SUBSET (1..n)
  PROVE  /\ Cardinality(places) \in Nat
         /\ \A k \in 1..Cardinality(places) :
               Nth(places, k) \in places /\ Cardinality({j \in places : j <= Nth(places, k)}) = k
<1> DEFINE U(i) == {j \in places : j <= i}
           c == [i \in 0..n |-> Cardinality(U(i))]
<1>0. \A j \in places : j \in Int /\ 1 <= j /\ j <= n
  OBVIOUS
<1>1. IsFiniteSet(places) /\ Cardinality(places) \in Nat
  <2>1. IsFiniteSet(1..n)
    BY FS_Interval
  <2>2. IsFiniteSet(places)
    BY <2>1, FS_Subset
  <2> QED
    BY <2>2, FS_CardinalityType
<1>2. \A i \in 0..n : IsFiniteSet(U(i)) /\ c[i] \in Nat
  BY <1>1, FS_Subset, FS_CardinalityType
<1>3. c[0] = 0 /\ c[n] = Cardinality(places)
  <2>1. U(0) = {}
    <3>1. \A j \in places : ~ (j <= 0)
      BY <1>0
    <3> QED
      BY <3>1
  <2>2. U(n) = places
    BY <1>0
  <2>3. 0 \in 0..n /\ n \in 0..n
    OBVIOUS
  <2> QED
    BY <2>1, <2>2, <2>3, FS_EmptySet
<1>4. ASSUME NEW i \in 1..n
      PROVE  /\ c[i] = (IF i \in places THEN c[i - 1] + 1 ELSE c[i - 1])
  <2>1. i - 1 \in 0..n /\ i \in 0..n /\ i \notin U(i - 1)
    OBVIOUS
  <2>2. CASE i \in places
    <3>1. \A j \in places : j <= i <=> (j <= i - 1 \/ j = i)
      BY <1>0
    <3>4. U(i) = U(i - 1) \cup {i}
      BY <3>1, <2>2
    <3>2. Cardinality(U(i - 1) \cup {i}) = Cardinality(U(i - 1)) + 1
      BY <1>2, <2>1, FS_AddElement
    <3> QED
      BY <2>1, <2>2, <3>4, <3>2
  <2>3. CASE i \notin places
    <3>2. \A j \in places : j <= i <=> j <= i - 1
      BY <1>0, <2>3
    <3>1. U(i) = U(i - 1)
      BY <3>2
    <3> QED
      BY <2>1, <2>3, <3>1
  <2> QED
    BY <2>2, <2>3
<1>5. ASSUME NEW k \in 1..Cardinality(places)
      PROVE  Nth(places, k) \in places /\ Cardinality({j \in places : j <= Nth(places, k)}) = k
  <2> DEFINE D == {i \in 0..n : c[i] >= k}
  <2> HIDE DEF c
  <2>1. D \in SUBSET Nat /\ n \in D
    BY <1>1, <1>3
  <2>2. PICK m \in D : \A e \in D : m <= e
    BY <2>1, Least
  <2>3. m \in 1..n /\ m - 1 \in 0..n /\ m - 1 \notin D
    BY <2>2, <1>3
  <2>7. m \in 0..n /\ \A i \in 0..n : c[i] \in Nat
    BY <2>3, <1>2
  <2>4. c[m - 1] \in Nat /\ c[m] \in Nat /\ c[m - 1] < k /\ c[m] >= k
    BY <2>2, <2>3, <2>7
  <2>5. m \in places /\ c[m] = k
    BY <2>3, <2>4, <1>4
  <2>6. \E i \in places : Cardinality({j \in places : j <= i}) = k
    BY <2>5 DEF c
  <2> QED
    BY <2>6 DEF Nth
<1> QED
  BY <1>1, <1>5

\* The chosen places are in order.
LEMMA NthGrows ==
  ASSUME NEW n \in Nat, NEW places \in SUBSET (1..n), NEW k \in 1..Cardinality(places), NEW m \in 1..Cardinality(places), k < m
  PROVE  Nth(places, k) < Nth(places, m)
<1> DEFINE a == Nth(places, k)
           b == Nth(places, m)
           low == {j \in places : j <= a}
           high == {j \in places : j <= b}
<1>1. a \in places /\ b \in places /\ Cardinality(low) = k /\ Cardinality(high) = m
  BY NthIs
<1> HIDE DEF a, b
<1>2. a \in Nat /\ b \in Nat /\ k \in Int /\ m \in Int /\ \A j \in places : j \in Nat
  <2>1. \A j \in places : j \in Nat
    OBVIOUS
  <2> QED
    BY <1>1, <2>1
<1> SUFFICES ASSUME b <= a PROVE FALSE
  BY <1>2 DEF a, b
<1>3. IsFiniteSet(low)
  <2>1. IsFiniteSet(1..n)
    BY FS_Interval
  <2>2. low \subseteq 1..n
    OBVIOUS
  <2> HIDE DEF low
  <2> QED
    BY <2>1, <2>2, FS_Subset
<1>4. high \subseteq low
  <2>1. ASSUME NEW j \in places, j <= b PROVE j <= a
    BY <1>2, <2>1
  <2> QED
    BY <2>1
<1> HIDE DEF low, high
<1>5. Cardinality(high) <= Cardinality(low)
  BY <1>3, <1>4, FS_Subset
<1> QED
  BY <1>1, <1>2, <1>5

\* What is chosen is a sequence of elements at the places.
LEMMA ChosenType ==
  ASSUME NEW s, NEW n \in Nat, NEW places \in SUBSET (1..n), NEW U, \A i \in places : s[i] \in U
  PROVE  /\ Chosen(s, places) \in Seq(U) /\ Len(Chosen(s, places)) = Cardinality(places)
         /\ \A k \in 1..Len(Chosen(s, places)) : Nth(places, k) \in places /\ Chosen(s, places)[k] = s[Nth(places, k)]
<1>1. Cardinality(places) \in Nat /\ \A k \in 1..Cardinality(places) : Nth(places, k) \in places
  BY NthIs
<1>2. Chosen(s, places) \in [1..Cardinality(places) -> U]
  BY <1>1 DEF Chosen
<1>3. Chosen(s, places) \in Seq(U) /\ Len(Chosen(s, places)) = Cardinality(places)
  BY <1>1, <1>2, Tabled
<1> QED
  BY <1>1, <1>3 DEF Chosen

(***************************************************************************)
(* What is made of a sequence, element by element.                         *)
(***************************************************************************)

\* Sequences by index: what each element is made into is a sequence of such.
LEMMA Mapped ==
  ASSUME NEW T, NEW s, Len(s) \in Nat, DOMAIN s = 1..Len(s), NEW f, DOMAIN f = DOMAIN s,
         f = [i \in DOMAIN f |-> f[i]], \A i \in 1..Len(s) : f[i] \in T
  PROVE  f \in Seq(T) /\ Len(f) = Len(s)
<1>1. f \in [1..Len(s) -> T]
  OBVIOUS
<1> QED
  BY <1>1, Tabled

\* A sequence with the elements of y and then those of z.
InHalves(T, x, y, z) ==
  /\ x \in Seq(T) /\ y \in Seq(T) /\ z \in Seq(T) /\ Len(x) = Len(y) + Len(z)
  /\ \A i \in 1..Len(y) : x[i] = y[i]
  /\ \A i \in 1..Len(z) : x[Len(y) + i] = z[i]

\* It is the two one after the other.
LEMMA TwoHalves ==
  ASSUME NEW T, NEW x, NEW y, NEW z, InHalves(T, x, y, z)
  PROVE  x = y \o z
<1> USE DEF InHalves
<1>1. Len(x) \in Nat /\ Len(y) \in Nat /\ Len(z) \in Nat /\ y \o z \in Seq(T) /\ Len(y \o z) = Len(x)
  OBVIOUS
<1>2. ASSUME NEW k \in 1..Len(x)
      PROVE  x[k] = (y \o z)[k]
  <2>1. CASE k <= Len(y)
    BY <2>1, <1>1
  <2>2. CASE k > Len(y)
    <3>1. k - Len(y) \in 1..Len(z) /\ Len(y) + (k - Len(y)) = k
      BY <2>2, <1>1
    <3>2. x[k] = z[k - Len(y)]
      BY <3>1
    <3>3. (y \o z)[k] = z[k - Len(y)]
      BY <2>2, <1>1
    <3> QED
      BY <3>2, <3>3
  <2> QED
    BY <2>1, <2>2, <1>1
<1> QED
  BY <1>1, <1>2, SameSeq

\* Concatenation of three lists.
Brackets(s, t, u) == (s \o t) \o u = s \o (t \o u)

\* It does not depend on brackets (Bracketed).
LEMMA Rebracketed ==
  ASSUME NEW T, NEW s \in Seq(T), NEW t \in Seq(T), NEW u \in Seq(T)
  PROVE  Brackets(s, t, u)
<1>1. (s \o t) \o u = s \o (t \o u)
  OBVIOUS
<1> QED
  BY <1>1, Zenon DEF Brackets

\* A function that gives a sequence over U for each element of T.
Gives(f, T, U) == f \in [T -> Seq(U)]

\* What f gives for each element of a sequence, one after the other.
Each(f, s) == [i \in 1..Len(s) |-> f[s[i]]]
EachJoined(f, s) == FlattenSeq(Each(f, s))

\* Each gives a sequence for each element.
LEMMA EachType ==
  ASSUME NEW T, NEW U, NEW f, Gives(f, T, U), NEW s \in Seq(T)
  PROVE  /\ Each(f, s) \in Seq(Seq(U)) /\ Len(Each(f, s)) = Len(s) /\ Len(s) \in Nat
         /\ \A i \in 1..Len(s) : Each(f, s)[i] = f[s[i]]
         /\ EachJoined(f, s) \in Seq(U)
<1>1. Len(s) \in Nat /\ \A i \in 1..Len(s) : s[i] \in T /\ f[s[i]] \in Seq(U)
  BY DEF Gives
<1>2. Each(f, s) \in [1..Len(s) -> Seq(U)] /\ \A i \in 1..Len(s) : Each(f, s)[i] = f[s[i]]
  BY <1>1 DEF Each
<1>3. Each(f, s) \in Seq(Seq(U)) /\ Len(Each(f, s)) = Len(s)
  BY <1>1, <1>2, Tabled
<1> QED
  BY <1>1, <1>2, <1>3, FlattenType DEF EachJoined

\* Of one sequence after another it is the one after the other.
LEMMA EachOfTwo ==
  ASSUME NEW T, NEW U, NEW f, Gives(f, T, U), NEW a \in Seq(T), NEW b \in Seq(T)
  PROVE  EachJoined(f, a \o b) = EachJoined(f, a) \o EachJoined(f, b)
<1> DEFINE c == a \o b
           x == Each(f, c)  y == Each(f, a)  z == Each(f, b)
<1>1. /\ c \in Seq(T) /\ Len(c) = Len(a) + Len(b) /\ Len(a) \in Nat /\ Len(b) \in Nat
      /\ \A i \in 1..Len(a) : c[i] = a[i]
      /\ \A i \in 1..Len(b) : c[Len(a) + i] = b[i]
  OBVIOUS
<1> HIDE DEF c
<1>2. /\ x \in Seq(Seq(U)) /\ y \in Seq(Seq(U)) /\ z \in Seq(Seq(U))
      /\ Len(x) = Len(c) /\ Len(y) = Len(a) /\ Len(z) = Len(b)
      /\ \A i \in 1..Len(c) : x[i] = f[c[i]]
      /\ \A i \in 1..Len(a) : y[i] = f[a[i]]
      /\ \A i \in 1..Len(b) : z[i] = f[b[i]]
  <2>1. x \in Seq(Seq(U)) /\ Len(x) = Len(c) /\ \A i \in 1..Len(c) : x[i] = f[c[i]]
    <3>1. c \in Seq(T)
      BY <1>1
    <3> QED
      BY <3>1, EachType
  <2>2. y \in Seq(Seq(U)) /\ Len(y) = Len(a) /\ \A i \in 1..Len(a) : y[i] = f[a[i]]
    BY EachType
  <2>3. z \in Seq(Seq(U)) /\ Len(z) = Len(b) /\ \A i \in 1..Len(b) : z[i] = f[b[i]]
    BY EachType
  <2> QED
    BY <2>1, <2>2, <2>3
<1> HIDE DEF x, y, z
<1>3. (\A i \in 1..Len(a) : i \in 1..Len(c)) /\ (\A i \in 1..Len(b) : Len(a) + i \in 1..Len(c))
  BY <1>1
<1>4. InHalves(Seq(U), x, y, z)
  <2>1. Len(x) = Len(y) + Len(z)
    BY <1>1, <1>2
  <2>2. \A i \in 1..Len(a) : x[i] = y[i]
    <3> SUFFICES ASSUME NEW i \in 1..Len(a) PROVE x[i] = y[i]
      OBVIOUS
    <3>1. i \in 1..Len(c) /\ c[i] = a[i]
      BY <1>1, <1>3
    <3> QED
      BY <1>2, <3>1
  <2>3. \A i \in 1..Len(b) : x[Len(a) + i] = z[i]
    <3> SUFFICES ASSUME NEW i \in 1..Len(b) PROVE x[Len(a) + i] = z[i]
      OBVIOUS
    <3>1. Len(a) + i \in 1..Len(c) /\ c[Len(a) + i] = b[i]
      BY <1>1, <1>3
    <3> QED
      BY <1>2, <3>1
  <2> QED
    BY <1>2, <2>1, <2>2, <2>3, Zenon DEF InHalves
<1>5. x = y \o z
  BY <1>4, TwoHalves
<1>6. FlattenSeq(x) = FlattenSeq(y) \o FlattenSeq(z)
  BY <1>2, <1>5, FlattenConcat
<1> QED
  BY <1>6 DEF EachJoined, x, y, z, c

\* Of sequences put together it is what it is of each, put together.
LEMMA EachOfAll ==
  ASSUME NEW T, NEW U, NEW f, Gives(f, T, U), NEW w \in Seq(Seq(T)), NEW v \in Seq(Seq(U)), Len(v) = Len(w),
         \A i \in 1..Len(w) : v[i] = EachJoined(f, w[i])
  PROVE  EachJoined(f, FlattenSeq(w)) = FlattenSeq(v)
<1> DEFINE n == Len(w)
           S == {k \in 0..n : EachJoined(f, FlattenSeq(First(w, k))) = FlattenSeq(First(v, k))}
<1>1. n \in Nat /\ \A i \in 1..n : w[i] \in Seq(T) /\ v[i] \in Seq(U)
  OBVIOUS
<1>2. ASSUME NEW k \in 0..n
      PROVE  First(w, k) \in Seq(Seq(T)) /\ First(v, k) \in Seq(Seq(U))
  <2>1. Cuts(Seq(T), w, k, k) /\ Cuts(Seq(U), v, k, k)
    BY <1>1, FirstSplits
  <2> QED
    BY <2>1 DEF Cuts
<1>3. 0 \in S
  <2>1. First(w, 0) = <<>> /\ First(v, 0) = <<>>
    BY DEF First
  <2>2. FlattenSeq(<<>>) = <<>>
    BY FlattenOfNone
  <2>3. EachJoined(f, <<>>) = <<>>
    <3>1. Each(f, <<>>) = <<>>
      BY DEF Each
    <3> QED
      BY <2>2, <3>1 DEF EachJoined
  <2> QED
    BY <1>1, <2>1, <2>2, <2>3
<1>4. ASSUME NEW k \in Nat, k < n, k \in S
      PROVE  k + 1 \in S
  <2>1. k + 1 \in 1..n /\ k + 1 \in 1..Len(v) /\ (k + 1) - 1 = k /\ k \in 0..n /\ k + 1 \in 0..n
    BY <1>1, <1>4
  <2>2. First(w, k + 1) = Append(First(w, k), w[k + 1]) /\ First(v, k + 1) = Append(First(v, k), v[k + 1])
    BY <2>1, FirstGrows
  <2>3. FlattenSeq(First(w, k + 1)) = FlattenSeq(First(w, k)) \o w[k + 1]
    BY <1>1, <1>2, <2>1, <2>2, FlattenAppend
  <2>4. FlattenSeq(First(v, k + 1)) = FlattenSeq(First(v, k)) \o v[k + 1]
    BY <1>1, <1>2, <2>1, <2>2, FlattenAppend
  <2>5. FlattenSeq(First(w, k)) \in Seq(T)
    BY <1>2, <2>1, FlattenType
  <2>6. EachJoined(f, FlattenSeq(First(w, k)) \o w[k + 1]) =
          EachJoined(f, FlattenSeq(First(w, k))) \o EachJoined(f, w[k + 1])
    <3>1. w[k + 1] \in Seq(T)
      BY <1>1, <2>1
    <3> DEFINE a == FlattenSeq(First(w, k))
               b == w[k + 1]
    <3>2. a \in Seq(T) /\ b \in Seq(T)
      BY <2>5, <3>1
    <3> HIDE DEF a, b
    <3>3. EachJoined(f, a \o b) = EachJoined(f, a) \o EachJoined(f, b)
      BY <3>2, EachOfTwo
    <3> QED
      BY <3>3 DEF a, b
  <2> QED
    BY <1>4, <2>1, <2>3, <2>4, <2>6
<1> HIDE DEF S
<1>5. n \in S
  BY <1>1, <1>3, <1>4, UpTo
<1>6. First(v, n) = v /\ First(w, n) = w
  BY FirstAll
<1> QED
  BY <1>5, <1>6 DEF S

\* Sequences of one, put together, are the sequence of what is in them.
LEMMA FlattenSingles ==
  ASSUME NEW T, NEW f \in Seq(T)
  PROVE  FlattenSeq([i \in 1..Len(f) |-> <<f[i]>>]) = f
<1> DEFINE g(m) == [i \in 1..m |-> <<f[i]>>]
           N == {m \in 0..Len(f) : FlattenSeq(g(m)) = First(f, m)}
<1>0. Len(f) \in Nat /\ \A i \in 1..Len(f) : f[i] \in T
  OBVIOUS
<1>1. 0 \in N
  <2>1. g(0) = <<>> /\ First(f, 0) = <<>>
    BY DEF First
  <2>2. FlattenSeq(<<>>) = <<>>
    BY FlattenOfNone
  <2> QED
    BY <1>0, <2>1, <2>2
<1>2. ASSUME NEW m \in Nat, m < Len(f), m \in N
      PROVE  m + 1 \in N
  <2> DEFINE x == <<f[m + 1]>>
             U == Seq(T)
  <2>1. x \in U /\ \A i \in 1..m : <<f[i]>> \in U
    BY <1>0, <1>2
  <2>2. First(f, m) \in Seq(T)
    BY <1>0, <1>2 DEF First
  <2>3. g(m + 1) = Append(g(m), x)
    BY <1>2
  <2>4. g(m) \in Seq(U)
    <3> DEFINE h == g(m)
    <3>1. h \in [1..m -> U]
      BY <2>1
    <3> HIDE DEF h, U
    <3>2. h \in Seq(U)
      BY <3>1, <1>2, Tabled
    <3> QED
      BY <3>2 DEF h
  <2>5. First(f, m + 1) = Append(First(f, m), f[m + 1])
    <3>1. m + 1 \in 1..Len(f) /\ (m + 1) - 1 = m
      BY <1>0, <1>2
    <3>2. First(f, m + 1) = Append(First(f, (m + 1) - 1), f[m + 1])
      BY <3>1, FirstGrows
    <3> QED
      BY <3>1, <3>2
  <2>6. FlattenSeq(g(m)) = First(f, m)
    BY <1>2
  <2>7. First(f, m) \o x = Append(First(f, m), f[m + 1])
    BY <1>0, <1>2, <2>2, AppendIsConcat
  <2> HIDE DEF g, x
  <2>8. FlattenSeq(Append(g(m), x)) = FlattenSeq(g(m)) \o x
    BY <2>1, <2>4, FlattenAppend DEF U
  <2>9. m + 1 \in 0..Len(f)
    BY <1>0, <1>2
  <2> QED
    BY <2>3, <2>5, <2>6, <2>7, <2>8, <2>9
<1>3. Len(f) \in N
  <2> HIDE DEF N
  <2> QED
    BY <1>0, <1>1, <1>2, UpTo
<1>4. First(f, Len(f)) = f
  BY FirstAll
<1> QED
  BY <1>3, <1>4

(***************************************************************************)
(* UTF-8 and decoding it.                                                  *)
(***************************************************************************)

\* What UTF-8 makes of a code point: a first byte that says how many follow, and
\* bytes that continue.
Encoded(cp, u) ==
  /\ u \in Seq(Bytes) /\ Len(u) \in 1..4 /\ Len(u) = CharWidth(u[1]) /\ ~ Continues(u[1])
  /\ \A j \in 2..Len(u) : u[j] \in 128..191
  /\ Len(u) > 1 => u[2] \in Second(u[1])
  /\ CodePoint(u, 1, Len(u)) = cp

\* Each code point is encoded so, in one to four bytes.
LEMMA Utf8Encodes ==
  ASSUME NEW cp, IsCodePoint(cp)
  PROVE  Encoded(cp, Utf8(cp))
<1>0. cp \in Nat /\ cp <= 1114111 /\ (cp < 55296 \/ cp > 57343)
  BY SMT DEF IsCodePoint
<1>1. CASE cp < 128
  <2>1. Utf8(cp) = <<cp>> /\ cp \in 0..127
    BY <1>0, <1>1, SMT DEF Utf8
  <2> QED
    BY <2>1, SMT DEF Encoded, CharWidth, Continues, CodePoint, Bytes
<1>2. CASE cp >= 128 /\ cp < 2048
  <2> DEFINE a == cp \div 64
             b == cp % 64
  <2>1. Utf8(cp) = <<192 + a, 128 + b>>
    BY <1>0, <1>2, SMT DEF Utf8, Low
  <2>2. a \in 2..31 /\ b \in 0..63 /\ cp = 64 * a + b
    BY <1>0, <1>2, SMT
  <2> HIDE DEF a, b
  <2>3. 192 + a \in 194..223 /\ 128 + b \in 128..191
    BY <2>2, SMT
  <2>4. CharWidth(192 + a) = 2 /\ ~ Continues(192 + a) /\ Second(192 + a) = 128..191
    BY <2>3, SMT DEF CharWidth, Continues, Second
  <2>5. CodePoint(<<192 + a, 128 + b>>, 1, 2) = cp
    BY <2>2, SMT DEF CodePoint
  <2> QED
    BY <2>1, <2>3, <2>4, <2>5, SMT DEF Encoded, Bytes
<1>3. CASE cp >= 2048 /\ cp < 65536
  <2> DEFINE a == cp \div 4096
             b == (cp \div 64) % 64
             c == cp % 64
  <2>1. Utf8(cp) = <<224 + a, 128 + b, 128 + c>>
    BY <1>0, <1>3, SMT DEF Utf8, Low
  <2>2. a \in 0..15 /\ b \in 0..63 /\ c \in 0..63 /\ cp = 4096 * a + 64 * b + c
    BY <1>0, <1>3, SMT
  <2> HIDE DEF a, b, c
  <2>3. 224 + a \in 224..239 /\ 128 + b \in 128..191 /\ 128 + c \in 128..191
    BY <2>2, SMT
  <2>4. CharWidth(224 + a) = 3 /\ ~ Continues(224 + a)
    BY <2>3, SMT DEF CharWidth, Continues
  <2>5. 128 + b \in Second(224 + a)
    <3>1. a = 0 => b >= 32
      BY <2>2, <1>3, SMT
    <3>2. a = 13 => b < 32
      BY <2>2, <1>0, SMT
    <3> QED
      BY <3>1, <3>2, <2>2, <2>3, SMT DEF Second
  <2>6. CodePoint(<<224 + a, 128 + b, 128 + c>>, 1, 3) = cp
    BY <2>2, SMT DEF CodePoint
  <2> QED
    BY <2>1, <2>3, <2>4, <2>5, <2>6, SMT DEF Encoded, Bytes
<1>4. CASE cp >= 65536
  <2> DEFINE a == cp \div 262144
             b == (cp \div 4096) % 64
             c == (cp \div 64) % 64
             d == cp % 64
  <2>1. Utf8(cp) = <<240 + a, 128 + b, 128 + c, 128 + d>>
    BY <1>0, <1>4, SMT DEF Utf8, Low
  <2>2. a \in 0..4 /\ b \in 0..63 /\ c \in 0..63 /\ d \in 0..63 /\ cp = 262144 * a + 4096 * b + 64 * c + d
    BY <1>0, <1>4, SMT
  <2> HIDE DEF a, b, c, d
  <2>3. 240 + a \in 240..244 /\ 128 + b \in 128..191 /\ 128 + c \in 128..191 /\ 128 + d \in 128..191
    BY <2>2, SMT
  <2>4. CharWidth(240 + a) = 4 /\ ~ Continues(240 + a)
    BY <2>3, SMT DEF CharWidth, Continues
  <2>5. 128 + b \in Second(240 + a)
    <3>1. a = 0 => b >= 16
      BY <2>2, <1>4, SMT
    <3>2. a = 4 => b < 16
      BY <2>2, <1>0, SMT
    <3> QED
      BY <3>1, <3>2, <2>2, <2>3, SMT DEF Second
  <2>6. CodePoint(<<240 + a, 128 + b, 128 + c, 128 + d>>, 1, 4) = cp
    BY <2>2, SMT DEF CodePoint
  <2> QED
    BY <2>1, <2>3, <2>4, <2>5, <2>6, SMT DEF Encoded, Bytes
<1> QED
  BY <1>0, <1>1, <1>2, <1>3, <1>4, SMT

\* The parts of a text, one for each of its characters.
PartsOfText(cps) == [i \in 1..Len(cps) |-> Utf8(cps[i])]

\* A text is the concatenation of its parts, each of one to four bytes.
LEMMA TextParts ==
  ASSUME NEW cps, AreCodePoints(cps)
  PROVE  /\ Len(cps) \in Nat /\ cps \in Seq(Nat) /\ DOMAIN cps = 1..Len(cps)
         /\ \A i \in 1..Len(cps) : Encoded(cps[i], Utf8(cps[i]))
         /\ PartsOfText(cps) \in Seq(Seq(Bytes)) /\ Len(PartsOfText(cps)) = Len(cps)
         /\ Str(cps) = FlattenSeq(PartsOfText(cps)) /\ Str(cps) \in Seq(Bytes)
<1>1. Len(cps) \in Nat /\ cps \in Seq(Nat) /\ DOMAIN cps = 1..Len(cps) /\ \A i \in 1..Len(cps) : IsCodePoint(cps[i])
  BY DEF AreCodePoints
<1>2. \A i \in 1..Len(cps) : Encoded(cps[i], Utf8(cps[i]))
  BY <1>1, Utf8Encodes
<1>3. PartsOfText(cps) \in [1..Len(cps) -> Seq(Bytes)]
  BY <1>2 DEF PartsOfText, Encoded
<1>4. PartsOfText(cps) \in Seq(Seq(Bytes)) /\ Len(PartsOfText(cps)) = Len(cps)
  <2> DEFINE f == PartsOfText(cps)
             U == Seq(Bytes)
             n == Len(cps)
  <2>1. f \in [1..n -> U] /\ n \in Nat
    BY <1>1, <1>3
  <2> HIDE DEF f, U, n
  <2>2. f \in Seq(U) /\ Len(f) = n
    BY <2>1, Tabled
  <2> QED
    BY <2>2 DEF f, U, n
<1>5. Str(cps) = FlattenSeq(PartsOfText(cps))
  BY DEF Str, PartsOfText
<1> QED
  BY <1>1, <1>2, <1>4, <1>5, FlattenType

\* Code points stay such in parts of a sequence and in two of them.
LEMMA CodePointsStay ==
  ASSUME NEW cps, AreCodePoints(cps), NEW more, AreCodePoints(more)
  PROVE  /\ AreCodePoints(cps \o more)
         /\ \A a, b \in Int : 1 <= a /\ b <= Len(cps) => AreCodePoints(SubSeq(cps, a, b))
         /\ \A k \in 0..Len(cps) : First(cps, k) = SubSeq(cps, 1, k)
<1>1. AreCodePoints(cps \o more)
  BY DEF AreCodePoints
<1>2. ASSUME NEW a \in Int, NEW b \in Int, 1 <= a, b <= Len(cps)
      PROVE  AreCodePoints(SubSeq(cps, a, b))
  BY <1>2 DEF AreCodePoints
<1>3. ASSUME NEW k \in 0..Len(cps)
      PROVE  First(cps, k) = SubSeq(cps, 1, k)
  BY DEF First, AreCodePoints
<1> QED
  BY <1>1, <1>2, <1>3

\* The bytes of two texts are those of one, then those of the other.
LEMMA TextConcat ==
  ASSUME NEW cps, AreCodePoints(cps), NEW more, AreCodePoints(more)
  PROVE  Str(cps \o more) = Str(cps) \o Str(more)
<1> DEFINE f == PartsOfText(cps)
           g == PartsOfText(more)
           U == Seq(Bytes)
<1>1. AreCodePoints(cps \o more)
  BY CodePointsStay
<1>2. /\ f \in Seq(U) /\ Len(f) = Len(cps) /\ g \in Seq(U) /\ Len(g) = Len(more)
      /\ Str(cps) = FlattenSeq(f) /\ Str(more) = FlattenSeq(g)
      /\ Str(cps \o more) = FlattenSeq(PartsOfText(cps \o more))
      /\ cps \in Seq(Nat) /\ more \in Seq(Nat) /\ Len(cps) \in Nat /\ Len(more) \in Nat
  BY <1>1, TextParts
<1>3. PartsOfText(cps \o more) = f \o g
  <2> DEFINE h == PartsOfText(cps \o more)
  <2>1. /\ h = [i \in 1..Len(cps) + Len(more) |-> Utf8((cps \o more)[i])]
        /\ f = [i \in 1..Len(cps) |-> Utf8(cps[i])] /\ g = [i \in 1..Len(more) |-> Utf8(more[i])]
    BY <1>2 DEF PartsOfText
  <2>2. \A i \in 1..Len(cps) + Len(more) : (cps \o more)[i] = IF i <= Len(cps) THEN cps[i] ELSE more[i - Len(cps)]
    BY <1>2
  <2>3. /\ f \o g \in Seq(U) /\ Len(f \o g) = Len(cps) + Len(more)
        /\ \A i \in 1..Len(f) + Len(g) : (f \o g)[i] = IF i <= Len(f) THEN f[i] ELSE g[i - Len(f)]
    <3> HIDE DEF f, g, U
    <3>1. f \in Seq(U) /\ g \in Seq(U) /\ Len(f) = Len(cps) /\ Len(g) = Len(more)
      BY <1>2
    <3>2. /\ f \o g \in Seq(U) /\ Len(f \o g) = Len(f) + Len(g)
          /\ \A i \in 1..Len(f) + Len(g) : (f \o g)[i] = IF i <= Len(f) THEN f[i] ELSE g[i - Len(f)]
      BY <3>1, ConcatProperties, Zenon
    <3> QED
      BY <3>1, <3>2
  <2>4. h \in Seq(U) /\ Len(h) = Len(cps \o more)
    BY <1>1, TextParts
  <2>5. \A i \in 1..Len(cps) + Len(more) : h[i] = IF i <= Len(cps) THEN f[i] ELSE g[i - Len(cps)]
    <3> HIDE DEF f, g, h
    <3> QED
      BY <2>1, <2>2, <1>2
  <2>6. Len(cps \o more) = Len(cps) + Len(more)
    BY <1>2
  <2>7. \A i \in 1..Len(h) : h[i] = (f \o g)[i]
    <3> HIDE DEF f, g, h, U
    <3> QED
      BY <2>3, <2>4, <2>5, <2>6, <1>2
  <2> HIDE DEF f, g, h, U
  <2>8. h = f \o g
    BY <2>3, <2>4, <2>6, <2>7, SeqEqual
  <2> QED
    BY <2>8 DEF h
<1> HIDE DEF f, g
<1> QED
  BY <1>2, <1>3, FlattenConcat

\* e tells where each character of the text s ends: after e[k] bytes the k-th.
Parsing(s, cps, e) ==
  /\ s \in Seq(Bytes) /\ AreCodePoints(cps)
  /\ e \in [0..Len(cps) -> Nat] /\ e[0] = 0 /\ e[Len(cps)] = Len(s)
  /\ \A k \in 0..Len(cps) : e[k] = Len(Str(SubSeq(cps, 1, k)))
  /\ \A k \in 1..Len(cps) :
        /\ e[k] = e[k - 1] + Len(Utf8(cps[k])) /\ e[k] <= Len(s)
        /\ \A j \in 1..Len(Utf8(cps[k])) : s[e[k - 1] + j] = Utf8(cps[k])[j]

\* Every text can be parsed.
LEMMA Parses ==
  ASSUME NEW cps, AreCodePoints(cps)
  PROVE  \E e : Parsing(Str(cps), cps, e)
<1> DEFINE s == Str(cps)
           f == PartsOfText(cps)
           e == [k \in 0..Len(cps) |-> Len(FlattenSeq(First(f, k)))]
<1>1. /\ f \in Seq(Seq(Bytes)) /\ Len(f) = Len(cps) /\ s = FlattenSeq(f) /\ s \in Seq(Bytes) /\ Len(cps) \in Nat
      /\ \A i \in 1..Len(cps) : f[i] = Utf8(cps[i]) /\ Encoded(cps[i], Utf8(cps[i]))
  BY TextParts DEF PartsOfText
<1>2. ASSUME NEW k \in 0..Len(cps)
      PROVE  /\ First(f, k) \in Seq(Seq(Bytes)) /\ FlattenSeq(First(f, k)) \in Seq(Bytes)
             /\ e[k] \in Nat /\ e[k] <= Len(s)
  <2> HIDE DEF f, s
  <2>1. Cuts(Seq(Bytes), f, k, Len(f))
    BY <1>1, FirstSplits
  <2>2. First(f, Len(f)) = f
    BY <1>1, FirstAll
  <2> DEFINE a == First(f, k)
             b == Middle(f, k, Len(f))
  <2>3. a \in Seq(Seq(Bytes)) /\ b \in Seq(Seq(Bytes)) /\ f = a \o b
    BY <2>1, <2>2 DEF Cuts
  <2> HIDE DEF a, b
  <2>4. FlattenSeq(a) \in Seq(Bytes) /\ FlattenSeq(b) \in Seq(Bytes) /\ s = FlattenSeq(a) \o FlattenSeq(b)
    BY <2>3, <1>1, FlattenType, FlattenConcat
  <2>5. Len(FlattenSeq(a)) \in Nat /\ Len(FlattenSeq(a)) <= Len(s)
    BY <2>4
  <2> QED
    BY <2>3, <2>4, <2>5 DEF a
<1>3. e[0] = 0
  <2>1. Len(First(f, 0)) = 0
    BY DEF First
  <2> QED
    BY <2>1, FlattenOfNone
<1>4. e[Len(cps)] = Len(s)
  <2> HIDE DEF f, s
  <2> QED
    BY <1>1, FirstAll
<1>5. ASSUME NEW k \in 1..Len(cps)
      PROVE  /\ e[k] = e[k - 1] + Len(Utf8(cps[k]))
             /\ \A j \in 1..Len(Utf8(cps[k])) : s[e[k - 1] + j] = Utf8(cps[k])[j]
  <2> DEFINE a == FlattenSeq(First(f, k - 1))
             u == Utf8(cps[k])
             m == e[k - 1]
             n == e[k]
  <2>0. k - 1 \in 0..Len(cps) /\ k \in 0..Len(cps)
    BY <1>1
  <2>1. f[k] = u /\ u \in Seq(Bytes) /\ a \in Seq(Bytes) /\ m = Len(a)
    BY <1>1, <1>2, <2>0 DEF Encoded
  <2>2. First(f, k) = Append(First(f, k - 1), u)
    <3> HIDE DEF f
    <3> QED
      BY <1>1, <2>1, FirstGrows
  <2>3. FlattenSeq(First(f, k)) = a \o u
    <3>1. First(f, k - 1) \in Seq(Seq(Bytes))
      BY <1>2, <2>0
    <3> HIDE DEF f, u
    <3> QED
      BY <2>1, <2>2, <3>1, FlattenAppend
  <2>4. n = m + Len(u)
    BY <2>0, <2>1, <2>3
  <2>5. SubSeq(s, m + 1, n) = u
    <3> HIDE DEF s, f, u
    <3>1. SubSeq(FlattenSeq(f), Len(FlattenSeq(First(f, k - 1))) + 1, Len(FlattenSeq(First(f, k)))) = f[k]
      BY <1>1, FlattenSlice
    <3> QED
      BY <3>1, <1>1, <2>0, <2>1
  <2>6. m \in Nat /\ n \in Nat /\ n <= Len(s)
    BY <1>2, <2>0
  <2> HIDE DEF m, n, u, s, a, e, f
  <2>7. \A j \in 1..Len(u) : SubSeq(s, m + 1, n)[j] = s[m + j]
    BY <2>1, <2>4, <2>6, <1>1
  <2> QED
    BY <2>4, <2>5, <2>7 DEF m, n, u
<1>6. e \in [0..Len(cps) -> Nat]
  BY <1>2
<1>7. ASSUME NEW k \in 0..Len(cps)
      PROVE  e[k] = Len(Str(SubSeq(cps, 1, k)))
  <2> DEFINE c == SubSeq(cps, 1, k)
  <2>1. cps \in Seq(Nat) /\ Len(c) = k /\ \A i \in 1..k : c[i] = cps[i]
    <3>1. cps \in Seq(Nat) /\ k \in Int
      BY <1>1, TextParts
    <3> QED
      BY <3>1, <1>1
  <2>2. \A i \in 1..k : f[i] = Utf8(c[i])
    <3> HIDE DEF c, f
    <3>1. \A i \in 1..k : i \in 1..Len(cps)
      BY <1>1
    <3> QED
      BY <2>1, <3>1, <1>1
  <2>3. First(f, k) = [i \in 1..Len(c) |-> Utf8(c[i])]
    <3> HIDE DEF c, f
    <3> QED
      BY <2>1, <2>2 DEF First
  <2> QED
    BY <2>3 DEF Str
<1> HIDE DEF e, s, f
<1>8. Parsing(s, cps, e)
  BY <1>1, <1>2, <1>3, <1>4, <1>5, <1>6, <1>7 DEF Parsing
<1> QED
  BY <1>8 DEF s

\* What a parsing is made of.
LEMMA ParseTypes ==
  ASSUME NEW s, NEW cps, NEW e, Parsing(s, cps, e)
  PROVE  /\ Len(cps) \in Nat /\ Len(s) \in Nat /\ e[0] = 0 /\ e[Len(cps)] = Len(s)
         /\ \A k \in 0..Len(cps) : e[k] \in Nat
         /\ s \in Seq(Bytes) /\ cps \in Seq(Nat) /\ AreCodePoints(cps)
<1>1. AreCodePoints(cps) /\ s \in Seq(Bytes) /\ e \in [0..Len(cps) -> Nat] /\ e[0] = 0 /\ e[Len(cps)] = Len(s)
  BY DEF Parsing
<1>2. cps \in Seq(Nat)
  BY <1>1 DEF AreCodePoints
<1>3. Len(cps) \in Nat /\ Len(s) \in Nat
  BY <1>1, <1>2
<1>4. \A k \in 0..Len(cps) : e[k] \in Nat
  BY <1>1
<1> QED
  BY <1>1, <1>2, <1>3, <1>4

\* A character that is parsed: its bytes in the text.
CharAt(s, cps, e, k) ==
  /\ e[k - 1] \in Nat /\ e[k] \in Nat /\ e[k] - e[k - 1] \in 1..4 /\ e[k] <= Len(s)
  /\ CharWidth(s[e[k - 1] + 1]) = e[k] - e[k - 1]
  /\ ~ Continues(s[e[k - 1] + 1])
  /\ \A j \in 2..(e[k] - e[k - 1]) : s[e[k - 1] + j] \in 128..191
  /\ e[k] - e[k - 1] > 1 => s[e[k - 1] + 2] \in Second(s[e[k - 1] + 1])
  /\ CodePoint(s, e[k - 1] + 1, e[k] - e[k - 1]) = cps[k]

\* Every character of a parsed text is so.
LEMMA ParsedChar ==
  ASSUME NEW s, NEW cps, NEW e, Parsing(s, cps, e), NEW k \in 1..Len(cps)
  PROVE  CharAt(s, cps, e, k) /\ IsCodePoint(cps[k]) /\ Len(cps) \in Nat /\ Len(s) \in Nat
<1> DEFINE u == Utf8(cps[k])
           m == e[k - 1]
           w == Len(u)
<1>1. Encoded(cps[k], u) /\ Len(cps) \in Nat /\ IsCodePoint(cps[k]) /\ Len(s) \in Nat
  <2>1. AreCodePoints(cps) /\ s \in Seq(Bytes)
    BY DEF Parsing
  <2>2. \A i \in 1..Len(cps) : Encoded(cps[i], Utf8(cps[i]))
    BY <2>1, TextParts
  <2>3. Len(cps) \in Nat /\ IsCodePoint(cps[k])
    BY <2>1 DEF AreCodePoints
  <2> QED
    BY <2>1, <2>2, <2>3
<1>2. /\ m \in Nat /\ e[k] = m + w /\ e[k] <= Len(s) /\ e[k] \in Nat
      /\ \A j \in 1..w : s[m + j] = u[j]
  <2>1. k - 1 \in 0..Len(cps) /\ k \in 0..Len(cps)
    BY <1>1
  <2> HIDE DEF u
  <2> QED
    BY <2>1 DEF Parsing, u
<1>3. w \in 1..4 /\ w = CharWidth(u[1]) /\ ~ Continues(u[1])
  BY <1>1 DEF Encoded
<1> HIDE DEF u, m, w
<1>4. e[k] - m = w
  BY <1>2, <1>3
<1>5. s[m + 1] = u[1]
  BY <1>2, <1>3
<1>6. \A j \in 2..w : s[m + j] \in 128..191
  <2>1. \A j \in 2..w : u[j] \in 128..191
    BY <1>1 DEF Encoded, w
  <2>2. \A j \in 2..w : s[m + j] = u[j]
    BY <1>2, <1>3
  <2> QED
    BY <2>1, <2>2
<1>7. w > 1 => s[m + 2] \in Second(s[m + 1])
  <2>1. w > 1 => u[2] \in Second(u[1])
    BY <1>1 DEF Encoded, w
  <2>2. w > 1 => s[m + 2] = u[2]
    BY <1>2, <1>3
  <2> QED
    BY <2>1, <2>2, <1>5
<1>8. CodePoint(s, m + 1, w) = cps[k]
  <2>1. CodePoint(u, 1, w) = cps[k]
    BY <1>1 DEF Encoded, w
  <2>2. CASE w = 1
    BY <2>1, <2>2, <1>2, <1>5, SMT DEF CodePoint
  <2>3. CASE w = 2
    <3>1. s[m + 1] = u[1] /\ s[(m + 1) + 1] = u[2]
      BY <1>2, <2>3
    <3> QED
      BY <2>1, <2>3, <3>1, SMT DEF CodePoint
  <2>4. CASE w = 3
    <3>1. s[m + 1] = u[1] /\ s[(m + 1) + 1] = u[2] /\ s[(m + 1) + 2] = u[3]
      BY <1>2, <2>4
    <3> QED
      BY <2>1, <2>4, <3>1, SMT DEF CodePoint
  <2>5. CASE w = 4
    <3>1. s[m + 1] = u[1] /\ s[(m + 1) + 1] = u[2] /\ s[(m + 1) + 2] = u[3] /\ s[(m + 1) + 3] = u[4]
      BY <1>2, <2>5
    <3> QED
      BY <2>1, <2>5, <3>1, SMT DEF CodePoint
  <2>6. w = 1 \/ w = 2 \/ w = 3 \/ w = 4
    BY <1>3
  <2> QED
    BY <2>2, <2>3, <2>4, <2>5, <2>6
<1>9. CharWidth(s[m + 1]) = w /\ ~ Continues(s[m + 1])
  BY <1>3, <1>5
<1>10. CharAt(s, cps, e, k)
  BY <1>2, <1>3, <1>4, <1>6, <1>7, <1>8, <1>9 DEF CharAt, m
<1> QED
  BY <1>1, <1>10

\* Later characters end later.
LEMMA ParseGrows ==
  ASSUME NEW s, NEW cps, NEW e, Parsing(s, cps, e), NEW a \in 0..Len(cps), NEW b \in 0..Len(cps), a < b
  PROVE  e[a] \in Nat /\ e[b] \in Nat /\ e[a] < e[b] /\ e[b] <= Len(s)
<1> DEFINE n == Len(cps)
           S == {k \in 0..n : k > a => e[a] < e[k]}
<1>1. n \in Nat /\ Len(s) \in Nat /\ \A k \in 0..n : e[k] \in Nat
  BY ParseTypes
<1>2. 0 \in S
  BY <1>1
<1>3. ASSUME NEW k \in 1..n
      PROVE  e[k - 1] < e[k] /\ e[k] <= Len(s)
  <2>1. CharAt(s, cps, e, k)
    BY ParsedChar
  <2>2. e[k - 1] \in Nat /\ e[k] \in Nat /\ e[k] - e[k - 1] \in 1..4 /\ e[k] <= Len(s)
    BY <2>1 DEF CharAt
  <2> QED
    BY <2>2
<1>4. ASSUME NEW k \in Nat, k < b /\ k \in S
      PROVE  k + 1 \in S
  <2>1. k + 1 \in 1..n /\ e[k] < e[k + 1] /\ e[k] \in Nat /\ e[k + 1] \in Nat /\ e[a] \in Nat
    <3>1. k + 1 \in 1..n /\ (k + 1) - 1 = k /\ k \in 0..n
      BY <1>4, <1>1
    <3> QED
      BY <3>1, <1>3, <1>1
  <2>2. k > a \/ k = a \/ k < a
    OBVIOUS
  <2> QED
    BY <2>1, <2>2, <1>4
<1> HIDE DEF S
<1>5. b \in S
  BY <1>1, <1>2, <1>4, UpTo
<1>6. e[b] <= Len(s)
  <2>1. b \in 1..n
    BY <1>1
  <2> QED
    BY <2>1, <1>3
<1> QED
  BY <1>5, <1>6, <1>1 DEF S

\* Every byte is one of a character.
LEMMA ParsedByte ==
  ASSUME NEW s, NEW cps, NEW e, Parsing(s, cps, e), NEW p \in 1..Len(s)
  PROVE  \E k \in 1..Len(cps) : e[k - 1] < p /\ p <= e[k]
<1> DEFINE n == Len(cps)
           D == {k \in 0..n : p <= e[k]}
<1>1. n \in Nat /\ Len(s) \in Nat /\ e[0] = 0 /\ e[n] = Len(s) /\ \A k \in 0..n : e[k] \in Nat
  BY ParseTypes
<1>2. D \in SUBSET Nat /\ n \in D
  BY <1>1
<1> HIDE DEF D
<1>3. PICK k \in D : \A j \in D : k <= j
  BY <1>2, Least
<1>4. k \in 1..n /\ p <= e[k]
  BY <1>1, <1>3 DEF D
<1>5. k - 1 \notin D /\ k - 1 \in 0..n
  BY <1>3, <1>4
<1>6. e[k - 1] < p
  BY <1>5, <1>1 DEF D
<1> QED
  BY <1>4, <1>6

\* The places where a text may be cut are the ends of its characters.
LEMMA CharStarts ==
  ASSUME NEW s, NEW cps, NEW e, Parsing(s, cps, e)
  PROVE  /\ \A k \in 0..Len(cps) : e[k] + 1 \in 1..Len(s) + 1 /\ IsBoundary(s, e[k] + 1)
         /\ \A p \in 1..Len(s) + 1 : IsBoundary(s, p) => \E k \in 0..Len(cps) : p = e[k] + 1
<1> DEFINE n == Len(cps)
<1>1. n \in Nat /\ Len(s) \in Nat /\ e[0] = 0 /\ e[n] = Len(s) /\ \A k \in 0..n : e[k] \in Nat
  BY ParseTypes
<1>2. ASSUME NEW k \in 0..n
      PROVE  e[k] + 1 \in 1..Len(s) + 1 /\ IsBoundary(s, e[k] + 1)
  <2>1. CASE k = n
    BY <2>1, <1>1 DEF IsBoundary
  <2>2. CASE k # n
    <3>1. k + 1 \in 1..n /\ (k + 1) - 1 = k
      BY <2>2, <1>1
    <3>2. CharAt(s, cps, e, k + 1)
      BY <3>1, ParsedChar
    <3>3. e[k] < e[k + 1] /\ e[k + 1] <= Len(s) /\ e[k] \in Nat /\ e[k + 1] \in Nat /\ ~ Continues(s[e[k] + 1])
      BY <3>1, <3>2 DEF CharAt
    <3> QED
      BY <3>3, <1>1 DEF IsBoundary
  <2> QED
    BY <2>1, <2>2
<1>3. ASSUME NEW p \in 1..Len(s) + 1, IsBoundary(s, p)
      PROVE  \E k \in 0..n : p = e[k] + 1
  <2>1. CASE p = Len(s) + 1
    BY <2>1, <1>1
  <2>2. CASE p # Len(s) + 1
    <3>1. p \in 1..Len(s) /\ ~ Continues(s[p])
      BY <2>2, <1>1, <1>3 DEF IsBoundary
    <3>2. PICK k \in 1..n : e[k - 1] < p /\ p <= e[k]
      BY <3>1, ParsedByte
    <3>3. CharAt(s, cps, e, k)
      BY <3>2, ParsedChar
    <3> DEFINE j == p - e[k - 1]
    <3>4. e[k - 1] \in Nat /\ e[k] \in Nat /\ j \in 1..(e[k] - e[k - 1]) /\ p = e[k - 1] + j
      <4>1. e[k - 1] \in Nat /\ e[k] \in Nat
        BY <3>3 DEF CharAt
      <4> QED
        BY <4>1, <3>2, <3>1
    <3> HIDE DEF j
    <3>5. j = 1
      <4> SUFFICES ASSUME j # 1 PROVE FALSE
        OBVIOUS
      <4>1. j \in 2..(e[k] - e[k - 1])
        BY <3>4
      <4>2. s[e[k - 1] + j] \in 128..191
        BY <4>1, <3>3 DEF CharAt
      <4> QED
        BY <4>2, <3>1, <3>4 DEF Continues
    <3>6. k - 1 \in 0..n
      BY <1>1
    <3> QED
      BY <3>4, <3>5, <3>6
  <2> QED
    BY <2>1, <2>2
<1> QED
  BY <1>2, <1>3

\* Max and Min are what they are called, for sets of numbers that are not empty.
LEMMA MaxIs ==
  ASSUME NEW n \in Nat, NEW S \in SUBSET (0..n), S # {}
  PROVE  Max(S) \in S /\ \A x \in S : x <= Max(S)
<1> DEFINE D == {n - x : x \in S}
<1>1. D \in SUBSET Nat /\ D # {}
  <2>1. \A x \in S : x \in 0..n
    OBVIOUS
  <2>2. \A x \in S : n - x \in Nat
    BY <2>1
  <2>3. D \in SUBSET Nat
    BY <2>2
  <2>4. PICK x \in S : TRUE
    OBVIOUS
  <2>5. n - x \in D
    BY <2>4
  <2> QED
    BY <2>3, <2>5
<1> HIDE DEF D
<1>2. PICK d \in D : \A y \in D : d <= y
  BY <1>1, Least
<1>3. PICK m \in S : d = n - m
  BY <1>2 DEF D
<1>4. \A x \in S : m >= x
  <2> SUFFICES ASSUME NEW x \in S PROVE m >= x
    OBVIOUS
  <2>1. n - x \in D /\ d <= n - x
    BY <1>2 DEF D
  <2> QED
    BY <2>1, <1>3
<1>5. Max(S) \in S /\ \A x \in S : Max(S) >= x
  BY <1>3, <1>4, Zenon DEF Max
<1> QED
  BY <1>5

\* The least of a set of numbers is in it, and no larger than any of them.
LEMMA MinIs ==
  ASSUME NEW S \in SUBSET Nat, S # {}
  PROVE  Min(S) \in S /\ \A x \in S : Min(S) <= x
<1>1. PICK m \in S : \A y \in S : m <= y
  BY Least
<1> QED
  BY <1>1, Zenon DEF Min

\* The greater of two numbers.
LEMMA MaxOfTwo ==
  ASSUME NEW a \in Nat, NEW b \in Nat
  PROVE  Max({a, b}) \in {a, b} /\ Max({a, b}) >= a /\ Max({a, b}) >= b
<1>1. \E x \in {a, b} : \A y \in {a, b} : x >= y
  OBVIOUS
<1>2. Max({a, b}) \in {a, b} /\ \A y \in {a, b} : Max({a, b}) >= y
  BY <1>1, Zenon DEF Max
<1> QED
  BY <1>2

\* Where the slices of at most max characters end.
SliceEnd(c, max, n) == IF n * max <= c THEN n * max ELSE c
SliceCount(c, max) == (c + max - 1) \div max

\* Each begins where the one before ends, all but the last are full, and none is
\* without characters.
LEMMA SliceEnds ==
  ASSUME NEW c \in Nat, NEW max \in Nat \ {0}
  PROVE  /\ SliceCount(c, max) \in Nat /\ SliceEnd(c, max, 0) = 0
         /\ SliceEnd(c, max, SliceCount(c, max)) = c
         /\ \A n \in 1..SliceCount(c, max) :
              LET a == SliceEnd(c, max, n - 1)
                  b == SliceEnd(c, max, n)
              IN  /\ a = (n - 1) * max /\ a \in Nat /\ a % max = 0 /\ b \in a + 1..c /\ b - a <= max
                  /\ Min({n * max, c}) = b
<1> DEFINE k == SliceCount(c, max)
<1>1. k \in Nat /\ k * max <= c + max - 1 /\ k * max >= c
  BY DEF SliceCount
<1>2. SliceEnd(c, max, 0) = 0
  BY DEF SliceEnd
<1>3. SliceEnd(c, max, k) = c
  <2> DEFINE p == k * max
  <2> HIDE DEF k
  <2>1. p \in Nat /\ p >= c
    BY <1>1
  <2> HIDE DEF p
  <2>2. SliceEnd(c, max, k) = IF p <= c THEN p ELSE c
    BY DEF SliceEnd, p
  <2> QED
    BY <2>1, <2>2
<1> HIDE DEF k
<1>4. ASSUME NEW n \in 1..k
      PROVE  LET a == SliceEnd(c, max, n - 1)
                 b == SliceEnd(c, max, n)
             IN  /\ a = (n - 1) * max /\ a \in Nat /\ a % max = 0 /\ b \in a + 1..c /\ b - a <= max
                 /\ Min({n * max, c}) = b
  <2> DEFINE d == (n - 1) * max
             e == n * max
             f == IF e <= c THEN e ELSE c
  <2>1. d \in Nat /\ e \in Nat /\ e = d + max
    BY <1>1
  <2>2. d < c
    <3>1. e <= k * max
      BY <1>1
    <3> QED
      BY <1>1, <2>1, <3>1
  <2>3. d % max = 0
    <3>1. n - 1 \in Nat
      BY <1>1
    <3> QED
      BY <3>1
  <2>4. SliceEnd(c, max, n - 1) = IF d <= c THEN d ELSE c
    BY DEF SliceEnd
  <2>5. SliceEnd(c, max, n) = f
    BY DEF SliceEnd
  <2> HIDE DEF d, e
  <2>6. Min({e, c}) = f
    <3>1. {e, c} \in SUBSET Nat /\ {e, c} # {}
      BY <2>1
    <3>2. Min({e, c}) \in {e, c} /\ \A x \in {e, c} : Min({e, c}) <= x
      BY <3>1, MinIs
    <3> QED
      BY <2>1, <3>2
  <2>7. f \in d + 1..c /\ f - d <= max
    BY <2>1, <2>2
  <2>8. SliceEnd(c, max, n - 1) = d
    BY <2>1, <2>2, <2>4
  <2> HIDE DEF f
  <2> QED
    BY <2>1, <2>3, <2>5, <2>6, <2>7, <2>8 DEF d, e
<1> QED
  BY <1>1, <1>2, <1>3, <1>4 DEF k

\* What has begun at a byte is no longer than its character, and in the text.
LEMMA BegunFits ==
  ASSUME NEW s \in Seq(Bytes), NEW i \in 1..Len(s)
  PROVE  /\ CharWidth(s[i]) \in 0..4 /\ Begun(s, i) \in 0..CharWidth(s[i]) /\ i + Begun(s, i) - 1 <= Len(s)
         /\ (/\ i + CharWidth(s[i]) - 1 <= Len(s)
             /\ \A j \in 1..(CharWidth(s[i]) - 1) : s[i + j] \in IF j = 1 THEN Second(s[i]) ELSE 128..191)
                => Begun(s, i) = CharWidth(s[i])
<1> DEFINE w == CharWidth(s[i])
           Is(n) == /\ i + n - 1 <= Len(s)
                    /\ \A j \in 1..(n - 1) : s[i + j] \in IF j = 1 THEN Second(s[i]) ELSE 128..191
           S == {n \in 0..w : Is(n)}
<1>1. w \in 0..4
  BY DEF CharWidth
<1>2. Begun(s, i) = Max(S)
  BY DEF Begun
<1>3. 0 \in S
  <2>1. i + 0 - 1 <= Len(s) /\ 1..(0 - 1) = {} /\ 0 \in 0..w
    <3> HIDE DEF w
    <3> QED
      BY <1>1
  <2> QED
    BY <2>1
<1>4. S \in SUBSET (0..w)
  OBVIOUS
<1> HIDE DEF S, w
<1>5. Max(S) \in S /\ \A x \in S : x <= Max(S)
  <2>1. w \in Nat /\ S # {}
    BY <1>1, <1>3
  <2> QED
    BY <2>1, <1>4, MaxIs
<1>6. Max(S) \in 0..w /\ i + Max(S) - 1 <= Len(s)
  BY <1>5 DEF S
<1>7. Is(w) => Max(S) = w
  <2> SUFFICES ASSUME Is(w) PROVE Max(S) = w
    OBVIOUS
  <2> HIDE DEF Is
  <2>1. w \in S
    BY <1>1 DEF S
  <2>2. w <= Max(S) /\ Max(S) \in 0..w
    BY <2>1, <1>5, <1>6
  <2> QED
    BY <2>2, <1>1
<1> QED
  BY <1>1, <1>2, <1>6, <1>7 DEF w

\* One step of Lossy: what is at byte i of s, and how far it goes.
LossyChar(s, i) ==
  LET n == Begun(s, i) IN IF n > 0 /\ n = CharWidth(s[i]) THEN CodePoint(s, i, n) ELSE REPLACEMENT
\* Where decoding goes on after the byte at i.
LossyNext(s, i) ==
  LET n == Begun(s, i) IN IF n > 0 /\ n = CharWidth(s[i]) THEN i + n ELSE i + Max({n, 1})

\* The greater of a number and one.
LEMMA AtLeastOne ==
  ASSUME NEW n \in Nat
  PROVE  Max({n, 1}) = IF n > 0 THEN n ELSE 1
<1>1. {n, 1} \in SUBSET (0..n + 1) /\ {n, 1} # {}
  OBVIOUS
<1>2. n + 1 \in Nat
  OBVIOUS
<1>3. Max({n, 1}) \in {n, 1} /\ \A x \in {n, 1} : x <= Max({n, 1})
  BY <1>1, <1>2, MaxIs
<1> QED
  BY <1>3

\* It is a number, and it goes on in the text.
LEMMA LossySteps ==
  ASSUME NEW s \in Seq(Bytes), NEW i \in 1..Len(s)
  PROVE  LossyChar(s, i) \in Int /\ LossyNext(s, i) \in i + 1..Len(s) + 1
<1> DEFINE n == Begun(s, i)
           w == CharWidth(s[i])
<1>1. w \in 0..4 /\ n \in 0..w /\ i + n - 1 <= Len(s)
  BY BegunFits
<1>2. Max({n, 1}) = IF n > 0 THEN n ELSE 1
  <2>1. n \in Nat
    BY <1>1
  <2> HIDE DEF n
  <2> QED
    BY <2>1, AtLeastOne
<1>3. \A j \in 0..n - 1 : s[i + j] \in Int
  <2>1. \A k \in 1..Len(s) : s[k] \in Bytes
    OBVIOUS
  <2>2. \A b \in Bytes : b \in Int
    BY DEF Bytes
  <2>3. \A j \in 0..n - 1 : i + j \in 1..Len(s)
    <3> HIDE DEF n, w
    <3> QED
      BY <1>1
  <2> QED
    BY <2>1, <2>2, <2>3
<1>4. CASE n > 0 /\ n = w
  <2>1. LossyChar(s, i) = CodePoint(s, i, n) /\ LossyNext(s, i) = i + n
    BY <1>4 DEF LossyChar, LossyNext
  <2> HIDE DEF n, w
  <2>2. i + n \in i + 1..Len(s) + 1
    BY <1>1, <1>4
  <2>3. CodePoint(s, i, n) \in Int
    <3>1. s[i] \in Int
      <4>1. 0 \in 0..n - 1 /\ i + 0 = i
        BY <1>1, <1>4
      <4> QED
        BY <4>1, <1>3
    <3>2. n = 1 \/ n = 2 \/ n = 3 \/ n = 4
      BY <1>1, <1>4
    <3>3. /\ n > 1 => s[i + 1] \in Int
          /\ n > 2 => s[i + 2] \in Int
          /\ n > 3 => s[i + 3] \in Int
      BY <1>1, <1>3
    <3>4. CASE n = 1
      BY <3>4, <3>1 DEF CodePoint
    <3>5. CASE n = 2
      BY <3>5, <3>1, <3>3 DEF CodePoint
    <3>6. CASE n = 3
      <4> DEFINE a == s[i]  b == s[i + 1]  c == s[i + 2]
      <4>1. CodePoint(s, i, n) = (a - 224) * 4096 + (b - 128) * 64 + c - 128
        BY <3>6, SMT DEF CodePoint
      <4>2. a \in Int /\ b \in Int /\ c \in Int
        BY <3>6, <3>1, <3>3
      <4> HIDE DEF a, b, c
      <4> QED
        BY <4>1, <4>2, SMT
    <3>7. CASE n = 4
      <4> DEFINE a == s[i]  b == s[i + 1]  c == s[i + 2]  d == s[i + 3]
      <4>1. CodePoint(s, i, n) = (a - 240) * 262144 + (b - 128) * 4096 + (c - 128) * 64 + d - 128
        BY <3>7, SMT DEF CodePoint
      <4>2. a \in Int /\ b \in Int /\ c \in Int /\ d \in Int
        BY <3>7, <3>1, <3>3
      <4> HIDE DEF a, b, c, d
      <4> QED
        BY <4>1, <4>2, SMT
    <3> QED
      BY <3>2, <3>4, <3>5, <3>6, <3>7
  <2> QED
    BY <2>1, <2>2, <2>3
<1>5. CASE ~ (n > 0 /\ n = w)
  <2>1. LossyChar(s, i) = REPLACEMENT /\ LossyNext(s, i) = i + Max({n, 1})
    BY <1>5 DEF LossyChar, LossyNext
  <2> HIDE DEF n, w
  <2>2. i + Max({n, 1}) \in i + 1..Len(s) + 1
    BY <1>1, <1>2
  <2>3. REPLACEMENT \in Int
    BY SMT DEF REPLACEMENT
  <2> QED
    BY <2>1, <2>2, <2>3
<1> QED
  BY <1>4, <1>5

\* Lossy goes from step to step.
LossyGoes(s, f) ==
  /\ f \in [1..Len(s) + 1 -> Seq(Int)] /\ f[Len(s) + 1] = <<>>
  /\ \A i \in 1..Len(s) : f[i] = <<LossyChar(s, i)>> \o f[LossyNext(s, i)]

\* Decoding of bytes is the value, at the first byte, of a function each value of
\* which is a code point before the value further on.
LEMMA LossyIs ==
  ASSUME NEW s \in Seq(Bytes)
  PROVE  \E f : LossyGoes(s, f) /\ Lossy(s) = f[1]
<1> DEFINE n == Len(s)
           P == 1..n + 1
           T == Seq(Int)
           D == {n + 1}
           val == [i \in P |-> <<>>]
           step == [i \in P |-> IF i = n + 1 THEN i ELSE LossyNext(s, i)]
           join == [i \in P |-> [x \in T |-> <<LossyChar(s, i)>> \o x]]
           size == [i \in P |-> n + 1 - i]
           Is(f) == f = [i \in P |->
                         LET m == Begun(s, i)
                         IN  IF i > n THEN <<>>
                             ELSE IF m > 0 /\ m = CharWidth(s[i]) THEN <<CodePoint(s, i, m)>> \o f[i + m]
                             ELSE <<REPLACEMENT>> \o f[i + Max({m, 1})]]
<1>0. n \in Nat
  OBVIOUS
<1>1. \A i \in 1..n : LossyChar(s, i) \in Int /\ LossyNext(s, i) \in i + 1..n + 1
  BY LossySteps
<1>2. WellFounded(P, T, D, val, step, join, size)
  <2>1. <<>> \in T
    OBVIOUS
  <2>2. \A i \in P : size[i] \in Nat
    BY <1>0
  <2>3. \A i \in P : i \in D => val[i] \in T
    OBVIOUS
  <2>4. \A i \in P : i \notin D => step[i] \in P /\ size[step[i]] < size[i]
    <3> SUFFICES ASSUME NEW i \in P, i \notin D PROVE step[i] \in P /\ size[step[i]] < size[i]
      OBVIOUS
    <3>1. i \in 1..n
      BY <1>0
    <3>2. LossyNext(s, i) \in i + 1..n + 1
      BY <3>1, <1>1
    <3>3. step[i] = LossyNext(s, i) /\ step[i] \in P
      BY <3>1, <3>2, <1>0
    <3>4. size[i] = n + 1 - i /\ size[step[i]] = n + 1 - step[i]
      BY <3>3
    <3> HIDE DEF n, size, step
    <3> QED
      BY <3>1, <3>2, <3>3, <3>4, <1>0
  <2>5. \A i \in P, x \in T : i \notin D => join[i][x] \in T
    <3> SUFFICES ASSUME NEW i \in P, NEW x \in T, i \notin D PROVE join[i][x] \in T
      OBVIOUS
    <3>1. LossyChar(s, i) \in Int
      BY <1>0, <1>1
    <3> QED
      BY <3>1
  <2> HIDE DEF P, T, D, val, step, join, size
  <2> QED
    BY <2>1, <2>2, <2>3, <2>4, <2>5 DEF WellFounded
<1>3. PICK h \in [P -> T] : h = [i \in P |-> IF i \in D THEN val[i] ELSE join[i][h[step[i]]]]
  <2> HIDE DEF P, T, D, val, step, join, size
  <2> QED
    BY <1>2, Recursion
<1>4. ASSUME NEW i \in 1..n
      PROVE  h[i] = <<LossyChar(s, i)>> \o h[LossyNext(s, i)]
  <2>1. LossyNext(s, i) \in P /\ i \in P /\ i # n + 1
    BY <1>0, <1>1
  <2>2. h[LossyNext(s, i)] \in T /\ step[i] = LossyNext(s, i)
    BY <2>1, <1>3
  <2>3. h[i] = join[i][h[step[i]]]
    BY <2>1, <1>3
  <2> QED
    BY <2>1, <2>2, <2>3
<1>5. h[n + 1] = <<>>
  <2>1. n + 1 \in P
    BY <1>0
  <2> QED
    BY <2>1, <1>3
<1>6. Is(h)
  <2>1. ASSUME NEW i \in P
        PROVE  h[i] = LET m == Begun(s, i)
                      IN  IF i > n THEN <<>>
                          ELSE IF m > 0 /\ m = CharWidth(s[i]) THEN <<CodePoint(s, i, m)>> \o h[i + m]
                          ELSE <<REPLACEMENT>> \o h[i + Max({m, 1})]
    <3>1. CASE i = n + 1
      <4>1. i > n
        BY <3>1, <1>0
      <4> QED
        BY <4>1, <3>1, <1>5
    <3>2. CASE i # n + 1
      <4>1. i \in 1..n /\ ~ i > n
        BY <3>2, <1>0
      <4> HIDE DEF n
      <4> QED
        BY <4>1, <1>4 DEF LossyChar, LossyNext
    <3> QED
      BY <3>1, <3>2
  <2> QED
    BY <2>1, <1>3, Zenon
<1>7. PICK f : Is(f) /\ Lossy(s) = f[1]
  <2>1. \E f : Is(f)
    BY <1>6
  <2>2. Lossy(s) = (CHOOSE f : Is(f))[1]
    BY DEF Lossy
  <2>3. Is(CHOOSE f : Is(f))
    BY <2>1, Zenon
  <2> QED
    BY <2>2, <2>3
<1>8. ASSUME NEW g, Is(g)
      PROVE  g[n + 1] = <<>> /\ \A i \in 1..n : g[i] = <<LossyChar(s, i)>> \o g[LossyNext(s, i)]
  <2>1. ASSUME NEW i \in P
        PROVE  g[i] = LET m == Begun(s, i)
                      IN  IF i > n THEN <<>>
                          ELSE IF m > 0 /\ m = CharWidth(s[i]) THEN <<CodePoint(s, i, m)>> \o g[i + m]
                          ELSE <<REPLACEMENT>> \o g[i + Max({m, 1})]
    BY <1>8, Zenon
  <2>2. n + 1 \in P /\ n + 1 > n
    BY <1>0
  <2>3. g[n + 1] = <<>>
    BY <2>1, <2>2
  <2>4. ASSUME NEW i \in 1..n
        PROVE  g[i] = <<LossyChar(s, i)>> \o g[LossyNext(s, i)]
    <3>1. i \in P /\ ~ i > n
      BY <1>0
    <3> HIDE DEF P, n, Is
    <3> QED
      BY <3>1, <2>1 DEF LossyChar, LossyNext
  <2> QED
    BY <2>3, <2>4
<1>9. \A i \in P : f[i] = h[i]
  <2> DEFINE S == {m \in 0..n : \A i \in P : i > n - m => f[i] = h[i]}
  <2>1. f[n + 1] = <<>> /\ \A i \in 1..n : f[i] = <<LossyChar(s, i)>> \o f[LossyNext(s, i)]
    BY <1>7, <1>8
  <2>2. 0 \in S
    BY <1>0, <1>5, <2>1
  <2>3. ASSUME NEW m \in Nat, m < n /\ m \in S
        PROVE  m + 1 \in S
    <3>1. ASSUME NEW i \in P, i > n - (m + 1)
          PROVE  f[i] = h[i]
      <4>1. CASE i > n - m
        BY <4>1, <2>3
      <4>2. CASE ~ i > n - m
        <5>1. i = n - m /\ i \in 1..n
          BY <4>2, <3>1, <2>3, <1>0
        <5>2. LossyNext(s, i) \in P /\ LossyNext(s, i) > n - m
          BY <5>1, <1>1, <1>0
        <5>3. f[LossyNext(s, i)] = h[LossyNext(s, i)]
          BY <5>2, <2>3
        <5> QED
          BY <5>1, <5>3, <2>1, <1>4
      <4> QED
        BY <4>1, <4>2
    <3> QED
      BY <3>1, <2>3, <1>0
  <2> HIDE DEF S
  <2>4. n \in S
    BY <1>0, <2>2, <2>3, UpTo
  <2>5. \A i \in P : i > n - n
    BY <1>0
  <2> QED
    BY <2>4, <2>5 DEF S
<1>10. Lossy(s) = h[1]
  <2>1. Lossy(s) = f[1] /\ 1 \in P
    BY <1>7, <1>0
  <2> QED
    BY <2>1, <1>9
<1>11. LossyGoes(s, h)
  BY <1>3, <1>4, <1>5 DEF LossyGoes
<1> QED
  BY <1>10, <1>11

\* Lossy makes a sequence of numbers of any bytes.
LEMMA LossyType ==
  ASSUME NEW s \in Seq(Bytes)
  PROVE  Lossy(s) \in Seq(Int)
<1>1. PICK f : LossyGoes(s, f) /\ Lossy(s) = f[1]
  BY LossyIs
<1>2. 1 \in 1..Len(s) + 1 /\ f \in [1..Len(s) + 1 -> Seq(Int)]
  BY <1>1 DEF LossyGoes
<1> QED
  BY <1>1, <1>2

\* At a character, Lossy finds the character and goes on to the next.
LEMMA LossyAtChar ==
  ASSUME NEW s, NEW cps, NEW e, Parsing(s, cps, e), NEW k \in 1..Len(cps)
  PROVE  /\ e[k - 1] + 1 \in 1..Len(s)
         /\ LossyChar(s, e[k - 1] + 1) = cps[k] /\ LossyNext(s, e[k - 1] + 1) = e[k] + 1
<1> DEFINE i == e[k - 1] + 1
           w == e[k] - e[k - 1]
<1>1. CharAt(s, cps, e, k) /\ Len(s) \in Nat /\ s \in Seq(Bytes)
  BY ParsedChar, ParseTypes
<1>2. e[k - 1] \in Nat /\ e[k] \in Nat /\ w \in 1..4 /\ e[k] <= Len(s)
  BY <1>1 DEF CharAt
<1>3. i \in 1..Len(s)
  BY <1>1, <1>2
<1>4. /\ CharWidth(s[i]) = w
      /\ \A j \in 2..w : s[e[k - 1] + j] \in 128..191
      /\ w > 1 => s[e[k - 1] + 2] \in Second(s[i])
      /\ CodePoint(s, i, w) = cps[k]
  BY <1>1 DEF CharAt
<1>5. i + w - 1 = e[k] /\ i + w = e[k] + 1
  BY <1>2
<1>6. ASSUME NEW j \in 1..(w - 1)
      PROVE  s[i + j] \in IF j = 1 THEN Second(s[i]) ELSE 128..191
  <2> DEFINE m == e[k - 1]
             d == j + 1
  <2>1. d \in 2..w /\ i + j = m + d /\ (j = 1 => w > 1 /\ d = 2)
    BY <1>2
  <2>2. CASE j = 1
    BY <2>1, <2>2, <1>4
  <2>3. CASE j # 1
    <3>1. s[m + d] \in 128..191
      BY <2>1, <1>4
    <3> HIDE DEF i, m, d, w
    <3> QED
      BY <2>1, <2>3, <3>1
  <2> QED
    BY <2>2, <2>3
<1> HIDE DEF i, w
<1>7. Begun(s, i) = w
  <2>1. i + w - 1 <= Len(s)
    BY <1>2, <1>5
  <2>2. (/\ i + CharWidth(s[i]) - 1 <= Len(s)
         /\ \A j \in 1..(CharWidth(s[i]) - 1) : s[i + j] \in IF j = 1 THEN Second(s[i]) ELSE 128..191)
            => Begun(s, i) = CharWidth(s[i])
    BY <1>1, <1>3, BegunFits
  <2> QED
    BY <2>1, <2>2, <1>4, <1>6
<1>8. LossyChar(s, i) = cps[k] /\ LossyNext(s, i) = e[k] + 1
  <2>1. w > 0 /\ Begun(s, i) = w /\ CharWidth(s[i]) = w
    BY <1>2, <1>4, <1>7
  <2> QED
    BY <2>1, <1>4, <1>5, Zenon DEF LossyChar, LossyNext
<1> QED
  BY <1>3, <1>8 DEF i

\* The characters of a text are those it was made of.
LEMMA TextIsText ==
  ASSUME NEW cps, AreCodePoints(cps)
  PROVE  Chars(Str(cps)) = cps /\ IsText(Str(cps))
<1> DEFINE s == Str(cps)
           n == Len(cps)
<1>1. PICK e : Parsing(s, cps, e)
  BY Parses
<1>2. /\ n \in Nat /\ Len(s) \in Nat /\ e[0] = 0 /\ e[n] = Len(s) /\ \A k \in 0..n : e[k] \in Nat
      /\ s \in Seq(Bytes) /\ cps \in Seq(Nat)
  BY <1>1, ParseTypes
<1>3. PICK f : LossyGoes(s, f) /\ Lossy(s) = f[1]
  BY <1>2, LossyIs
<1> DEFINE S == {m \in 0..n : f[e[n - m] + 1] = SubSeq(cps, n - m + 1, n)}
<1>4. 0 \in S
  <2>1. n - 0 = n /\ f[e[n] + 1] = <<>>
    BY <1>2, <1>3 DEF LossyGoes
  <2>2. SubSeq(cps, n + 1, n) = <<>>
    BY <1>2
  <2>3. 0 \in 0..n
    BY <1>2
  <2>4. f[e[n - 0] + 1] = SubSeq(cps, n - 0 + 1, n)
    BY <2>1, <2>2
  <2> QED
    BY <2>3, <2>4
<1>5. ASSUME NEW m \in Nat, m < n /\ m \in S
      PROVE  m + 1 \in S
  <2> DEFINE k == n - m
  <2>1. k \in 1..n /\ n - (m + 1) = k - 1 /\ (k - 1) + 1 = k /\ m + 1 \in 0..n
    BY <1>2, <1>5
  <2>2. f[e[k] + 1] = SubSeq(cps, k + 1, n)
    BY <1>5
  <2> HIDE DEF k, n, s
  <2>3. LossyChar(s, e[k - 1] + 1) = cps[k] /\ LossyNext(s, e[k - 1] + 1) = e[k] + 1 /\ e[k - 1] + 1 \in 1..Len(s)
    BY <2>1, <1>1, LossyAtChar DEF n
  <2>4. f[e[k - 1] + 1] = <<cps[k]>> \o SubSeq(cps, k + 1, n)
    BY <2>2, <2>3, <1>3 DEF LossyGoes
  <2>5. <<cps[k]>> \o SubSeq(cps, k + 1, n) = SubSeq(cps, k, n)
    BY <2>1, <1>2, SubSeqRecursiveFirst DEF n
  <2> QED
    BY <2>1, <2>4, <2>5 DEF S
<1> HIDE DEF S, s, n
<1>6. n \in S
  BY <1>2, <1>4, <1>5, UpTo
<1>7. f[1] = SubSeq(cps, 1, n)
  <2>1. n - n = 0 /\ e[0] + 1 = 1 /\ 0 + 1 = 1
    BY <1>2
  <2> QED
    BY <2>1, <1>6 DEF S
<1>8. f[1] = cps
  BY <1>7, <1>2, SubSeqFull DEF n
<1>9. Chars(s) = cps
  BY <1>3, <1>8 DEF Chars
<1>10. IsText(s)
  BY <1>2, <1>9 DEF IsText, s
<1> QED
  BY <1>9, <1>10 DEF s

\* A text has a parsing, into its characters.
LEMMA TextParses ==
  ASSUME NEW s, IsText(s)
  PROVE  /\ \E e : Parsing(s, Chars(s), e)
         /\ AreCodePoints(Chars(s)) /\ s = Str(Chars(s)) /\ s \in Seq(Bytes)
<1>1. AreCodePoints(Chars(s)) /\ s = Str(Chars(s)) /\ s \in Seq(Bytes)
  BY DEF IsText
<1>2. \E e : Parsing(Str(Chars(s)), Chars(s), e)
  BY <1>1, Parses
<1> QED
  BY <1>1, <1>2

\* Two texts make a text, and nothing is one.
LEMMA TextsJoin ==
  ASSUME NEW s, IsText(s), NEW t, IsText(t)
  PROVE  IsText(s \o t) /\ Chars(s \o t) = Chars(s) \o Chars(t)
<1>1. AreCodePoints(Chars(s)) /\ s = Str(Chars(s)) /\ AreCodePoints(Chars(t)) /\ t = Str(Chars(t))
  BY TextParses
<1>2. s \o t = Str(Chars(s) \o Chars(t))
  <2>1. Str(Chars(s) \o Chars(t)) = Str(Chars(s)) \o Str(Chars(t))
    BY <1>1, TextConcat
  <2> QED
    BY <2>1, <1>1, Zenon
<1>3. AreCodePoints(Chars(s) \o Chars(t))
  BY <1>1, CodePointsStay
<1> QED
  BY <1>2, <1>3, TextIsText

\* The empty string is a text of no code points.
LEMMA NothingIsText == IsText(<<>>) /\ AreCodePoints(<<>>) /\ Str(<<>>) = <<>> /\ Chars(<<>>) = <<>>
<1>1. AreCodePoints(<<>>)
  BY DEF AreCodePoints
<1>2. Str(<<>>) = <<>>
  BY FlattenOfNone DEF Str
<1> QED
  BY <1>1, <1>2, TextIsText

\* What lies between two places where a text may be cut is a text.
LEMMA TextCut ==
  ASSUME NEW s, IsText(s), NEW p \in 1..Len(s) + 1, NEW q \in 1..Len(s) + 1, p <= q,
         IsBoundary(s, p), IsBoundary(s, q)
  PROVE  IsText(SubSeq(s, p, q - 1))
<1> DEFINE c == Chars(s)
<1>1. PICK e : Parsing(s, c, e)
  BY TextParses
<1>2. PICK a \in 0..Len(c), b \in 0..Len(c) : p = e[a] + 1 /\ q = e[b] + 1
  BY <1>1, CharStarts
<1> DEFINE x == SubSeq(c, 1, a)
           y == SubSeq(c, a + 1, b)
           xy == SubSeq(c, 1, b)
           z == SubSeq(c, b + 1, Len(c))
<1>3. /\ c \in Seq(Nat) /\ AreCodePoints(c) /\ Len(c) \in Nat /\ s = Str(c)
      /\ e[a] \in Nat /\ e[b] \in Nat
      /\ e[a] = Len(Str(x)) /\ e[b] = Len(Str(xy))
  <2>1. c \in Seq(Nat) /\ AreCodePoints(c) /\ Len(c) \in Nat /\ \A k \in 0..Len(c) : e[k] \in Nat
    BY <1>1, ParseTypes
  <2>2. \A k \in 0..Len(c) : e[k] = Len(Str(SubSeq(c, 1, k)))
    BY <1>1 DEF Parsing
  <2> QED
    BY <2>1, <2>2, TextParses
<1>4. a <= b
  <2> SUFFICES ASSUME b < a PROVE FALSE
    BY <1>3
  <2>1. e[b] < e[a]
    BY <1>1, ParseGrows
  <2> QED
    BY <2>1, <1>2, <1>3
<1> HIDE DEF c
<1>5. AreCodePoints(x) /\ AreCodePoints(y) /\ AreCodePoints(xy) /\ AreCodePoints(z)
  <2>1. /\ 1 \in Int /\ a \in Int /\ b \in Int /\ a + 1 \in Int /\ b + 1 \in Int /\ Len(c) \in Int
        /\ 1 <= 1 /\ 1 <= a + 1 /\ 1 <= b + 1 /\ a <= Len(c) /\ b <= Len(c) /\ Len(c) <= Len(c)
    BY <1>3
  <2>2. \A i, j \in Int : 1 <= i /\ j <= Len(c) => AreCodePoints(SubSeq(c, i, j))
    BY <1>3, CodePointsStay
  <2> HIDE DEF x, y, xy, z
  <2> QED
    BY <2>1, <2>2 DEF x, y, xy, z
<1>6. xy = x \o y /\ c = xy \o z
  <2>1. c \in Seq(Nat) /\ 1 \in 1..Len(c) + 1 /\ a \in 1 - 1..Len(c) /\ b \in a..Len(c) /\ b \in 1 - 1..Len(c)
        /\ Len(c) \in b..Len(c)
    BY <1>3, <1>4
  <2>2. SubSeq(c, 1, a) \o SubSeq(c, a + 1, b) = SubSeq(c, 1, b)
    BY <2>1, ConcatAdjacentSubSeq
  <2>3. SubSeq(c, 1, b) \o SubSeq(c, b + 1, Len(c)) = SubSeq(c, 1, Len(c))
    BY <2>1, ConcatAdjacentSubSeq
  <2>4. SubSeq(c, 1, Len(c)) = c
    BY <1>3, SubSeqFull
  <2> QED
    BY <2>2, <2>3, <2>4
<1> HIDE DEF x, y, xy, z
<1>7. /\ Str(xy) = Str(x) \o Str(y) /\ s = Str(xy) \o Str(z)
      /\ Str(x) \in Seq(Bytes) /\ Str(y) \in Seq(Bytes) /\ Str(z) \in Seq(Bytes)
  BY <1>3, <1>5, <1>6, TextConcat, TextParts
<1>8. SubSeq(s, p, q - 1) = Str(y)
  <2>1. p = Len(Str(x)) + 1 /\ q - 1 = Len(Str(x) \o Str(y))
    BY <1>2, <1>3, <1>7
  <2>2. SubSeq((Str(x) \o Str(y)) \o Str(z), Len(Str(x)) + 1, Len(Str(x) \o Str(y))) = Str(y)
    BY <1>7, Between
  <2> QED
    BY <2>1, <2>2, <1>7
<1> QED
  BY <1>5, <1>8, TextIsText

\* The code points, and the strings of the program: bytes that are UTF-8.
CodePoints == {cp \in Nat : IsCodePoint(cp)}
Strings == {s \in Seq(Bytes) : IsText(s)}

\* Code points one after the other are a sequence of them.
LEMMA CodePointSeqs ==
  ASSUME NEW cps
  PROVE  AreCodePoints(cps) <=> cps \in Seq(CodePoints)
BY DEF AreCodePoints, CodePoints

\* Characters of a text are code points, and code points make a text.
LEMMA StringsAre ==
  /\ \A s \in Strings : Chars(s) \in Seq(CodePoints) /\ s = Str(Chars(s)) /\ s \in Seq(Bytes)
  /\ \A cps \in Seq(CodePoints) : Str(cps) \in Strings /\ Chars(Str(cps)) = cps
<1>1. ASSUME NEW s \in Strings
      PROVE  Chars(s) \in Seq(CodePoints) /\ s = Str(Chars(s)) /\ s \in Seq(Bytes)
  BY CodePointSeqs DEF Strings, IsText
<1>2. ASSUME NEW cps \in Seq(CodePoints)
      PROVE  Str(cps) \in Strings /\ Chars(Str(cps)) = cps
  <2>1. AreCodePoints(cps)
    BY CodePointSeqs
  <2>2. IsText(Str(cps)) /\ Chars(Str(cps)) = cps
    BY <2>1, TextIsText
  <2> QED
    BY <2>2 DEF Strings, IsText
<1> QED
  BY <1>1, <1>2

(***************************************************************************)
(* Where lossy decoding can be done in parts.                              *)
(***************************************************************************)

\* Bytes from i on that begin one character.
Opens(s, i, n) ==
  /\ i + n - 1 <= Len(s)
  /\ \A j \in 1..(n - 1) : s[i + j] \in IF j = 1 THEN Second(s[i]) ELSE 128..191

\* As many have begun as there are.
LEMMA BegunIs ==
  ASSUME NEW s \in Seq(Bytes), NEW i \in 1..Len(s)
  PROVE  /\ CharWidth(s[i]) \in 0..4 /\ Begun(s, i) \in 0..CharWidth(s[i]) /\ Opens(s, i, Begun(s, i))
         /\ \A n \in 0..CharWidth(s[i]) : Opens(s, i, n) => n <= Begun(s, i)
<1> DEFINE w == CharWidth(s[i])
           S == {n \in 0..w : Opens(s, i, n)}
<1>1. w \in 0..4
  BY DEF CharWidth
<1>2. Begun(s, i) = Max(S)
  BY DEF Begun, Opens
<1>3. 0 \in S
  <2>1. i + 0 - 1 <= Len(s) /\ 1..(0 - 1) = {} /\ 0 \in 0..w
    <3> HIDE DEF w
    <3> QED
      BY <1>1
  <2>2. Opens(s, i, 0)
    BY <2>1 DEF Opens
  <2> QED
    BY <2>1, <2>2
<1>4. S \in SUBSET (0..w)
  OBVIOUS
<1> HIDE DEF S, w
<1>5. Max(S) \in S /\ \A x \in S : x <= Max(S)
  <2>1. w \in Nat /\ S # {}
    BY <1>1, <1>3
  <2> QED
    BY <2>1, <1>4, MaxIs
<1>6. Begun(s, i) \in 0..w /\ Opens(s, i, Begun(s, i))
  BY <1>2, <1>5 DEF S
<1>7. ASSUME NEW n \in 0..w, Opens(s, i, n)
      PROVE  n <= Begun(s, i)
  <2>1. n \in S
    BY <1>7 DEF S
  <2> QED
    BY <2>1, <1>2, <1>5
<1> QED
  BY <1>1, <1>6, <1>7 DEF w

\* The code points of two, three and four bytes.
OfTwo(a, b) == (a - 192) * 64 + b - 128
OfThree(a, b, c) == (a - 224) * 4096 + (b - 128) * 64 + c - 128
OfFour(a, b, c, d) == (a - 240) * 262144 + (b - 128) * 4096 + (c - 128) * 64 + d - 128

\* A code point is one of these, or a byte.
LEMMA CodeIs ==
  ASSUME NEW s, NEW p
  PROVE  /\ CodePoint(s, p, 1) = s[p]
         /\ CodePoint(s, p, 2) = OfTwo(s[p], s[p + 1])
         /\ CodePoint(s, p, 3) = OfThree(s[p], s[p + 1], s[p + 2])
         /\ CodePoint(s, p, 4) = OfFour(s[p], s[p + 1], s[p + 2], s[p + 3])
<1>1. CodePoint(s, p, 1) = s[p]
  BY DEF CodePoint
<1>2. CodePoint(s, p, 2) = OfTwo(s[p], s[p + 1])
  BY SMT DEF CodePoint, OfTwo
<1>3. CodePoint(s, p, 3) = OfThree(s[p], s[p + 1], s[p + 2])
  BY SMT DEF CodePoint, OfThree
<1>4. CodePoint(s, p, 4) = OfFour(s[p], s[p + 1], s[p + 2], s[p + 3])
  BY SMT DEF CodePoint, OfFour
<1> QED
  BY <1>1, <1>2, <1>3, <1>4

\* What a character of two, three or four bytes stands for.
LEMMA Pairs ==
  ASSUME NEW a \in Bytes, CharWidth(a) = 2, NEW b \in 128..191
  PROVE  OfTwo(a, b) \in CodePoints
<1>1. a \in 194..223
  BY SMT DEF CharWidth
<1> QED
  BY <1>1, SMT DEF IsCodePoint, CodePoints, OfTwo, OfThree, OfFour

\* The same of three bytes.
LEMMA Triples ==
  ASSUME NEW a \in Bytes, CharWidth(a) = 3, NEW b \in Second(a), NEW c \in 128..191
  PROVE  OfThree(a, b, c) \in CodePoints
<1>1. a \in 224..239
  BY SMT DEF CharWidth
<1>2. CASE a = 224
  <2>1. b \in 160..191
    BY <1>2, SMT DEF Second
  <2> QED
    BY <1>2, <2>1, SMT DEF IsCodePoint, CodePoints, OfTwo, OfThree, OfFour
<1>3. CASE a = 237
  <2>1. b \in 128..159
    BY <1>3, SMT DEF Second
  <2> QED
    BY <1>3, <2>1, SMT DEF IsCodePoint, CodePoints, OfTwo, OfThree, OfFour
<1>4. CASE a \notin {224, 237}
  <2>1. b \in 128..191
    BY <1>1, <1>4, SMT DEF Second
  <2> QED
    BY <1>1, <1>4, <2>1, SMT DEF IsCodePoint, CodePoints, OfTwo, OfThree, OfFour
<1> QED
  BY <1>2, <1>3, <1>4

\* The same of four bytes.
LEMMA Quads ==
  ASSUME NEW a \in Bytes, CharWidth(a) = 4, NEW b \in Second(a), NEW c \in 128..191, NEW d \in 128..191
  PROVE  OfFour(a, b, c, d) \in CodePoints
<1>1. a \in 240..244
  BY SMT DEF CharWidth
<1>2. CASE a = 240
  <2>1. b \in 144..191
    BY <1>2, SMT DEF Second
  <2> QED
    BY <1>2, <2>1, SMT DEF IsCodePoint, CodePoints, OfTwo, OfThree, OfFour
<1>3. CASE a = 244
  <2>1. b \in 128..143
    BY <1>3, SMT DEF Second
  <2> QED
    BY <1>3, <2>1, SMT DEF IsCodePoint, CodePoints, OfTwo, OfThree, OfFour
<1>4. CASE a \notin {240, 244}
  <2>1. b \in 128..191
    BY <1>1, <1>4, SMT DEF Second
  <2> QED
    BY <1>1, <1>4, <2>1, SMT DEF IsCodePoint, CodePoints, OfTwo, OfThree, OfFour
<1> QED
  BY <1>2, <1>3, <1>4

\* Whatever bytes are decoded, a step finds a code point.
LEMMA LossyCharIs ==
  ASSUME NEW s \in Seq(Bytes), NEW i \in 1..Len(s)
  PROVE  LossyChar(s, i) \in CodePoints
<1> DEFINE n == Begun(s, i)
           w == CharWidth(s[i])
<1>1. w \in 0..4 /\ n \in 0..w /\ Opens(s, i, n)
  BY BegunIs
<1>2. CASE n > 0 /\ n = w
  <2>1. LossyChar(s, i) = CodePoint(s, i, n)
    BY <1>2 DEF LossyChar
  <2>2. s[i] \in Bytes /\ \A j \in 1..n - 1 : s[i + j] \in IF j = 1 THEN Second(s[i]) ELSE 128..191
    BY <1>1 DEF Opens
  <2>3. n \in 1..4 /\ w = n
    BY <1>1, <1>2
  <2>4. CASE n = 1
    <3>1. s[i] < 128
      BY <2>2, <2>3, <2>4, SMT DEF CharWidth, Bytes
    <3>2. LossyChar(s, i) = s[i]
      BY <2>1, <2>4, CodeIs
    <3>3. \A b \in Bytes : b < 128 => b \in CodePoints
      BY SMT DEF IsCodePoint, CodePoints, Bytes
    <3> QED
      BY <2>2, <3>1, <3>2, <3>3
  <2>5. CASE n = 2
    <3>1. LossyChar(s, i) = OfTwo(s[i], s[i + 1])
      BY <2>1, <2>5, CodeIs
    <3>2. s[i + 1] \in Second(s[i]) /\ CharWidth(s[i]) = 2
      BY <2>2, <2>3, <2>5
    <3>3. ASSUME NEW a \in Bytes, CharWidth(a) = 2
          PROVE  Second(a) = 128..191
      <4>1. a \in 194..223
        BY <3>3, SMT DEF CharWidth, Bytes
      <4>2. a # 224 /\ a # 237 /\ a # 240 /\ a # 244
        BY <4>1
      <4> QED
        BY <4>2, Zenon DEF Second
    <3> QED
      BY <2>2, <3>1, <3>2, <3>3, Pairs
  <2>6. CASE n = 3
    <3>1. LossyChar(s, i) = OfThree(s[i], s[i + 1], s[i + 2])
      BY <2>1, <2>6, CodeIs
    <3>2. s[i + 1] \in Second(s[i]) /\ s[i + 2] \in 128..191 /\ CharWidth(s[i]) = 3
      BY <2>2, <2>3, <2>6
    <3> QED
      BY <2>2, <3>1, <3>2, Triples
  <2>7. CASE n = 4
    <3>1. LossyChar(s, i) = OfFour(s[i], s[i + 1], s[i + 2], s[i + 3])
      BY <2>1, <2>7, CodeIs
    <3>2. s[i + 1] \in Second(s[i]) /\ s[i + 2] \in 128..191 /\ s[i + 3] \in 128..191 /\ CharWidth(s[i]) = 4
      BY <2>2, <2>3, <2>7
    <3> QED
      BY <2>2, <3>1, <3>2, Quads
  <2> QED
    BY <2>3, <2>4, <2>5, <2>6, <2>7
<1>3. CASE ~ (n > 0 /\ n = w)
  <2>1. LossyChar(s, i) = REPLACEMENT
    BY <1>3 DEF LossyChar
  <2> QED
    BY <2>1, SMT DEF REPLACEMENT, IsCodePoint, CodePoints
<1> QED
  BY <1>2, <1>3

\* What Lossy makes of any bytes are code points.
LEMMA LossyCodes ==
  ASSUME NEW s \in Seq(Bytes)
  PROVE  /\ Lossy(s) \in Seq(CodePoints) /\ AreCodePoints(Lossy(s))
         /\ \E f : LossyGoes(s, f) /\ Lossy(s) = f[1] /\ \A i \in 1..Len(s) + 1 : f[i] \in Seq(CodePoints)
<1> DEFINE n == Len(s)
<1>0. n \in Nat
  OBVIOUS
<1>1. PICK f : LossyGoes(s, f) /\ Lossy(s) = f[1]
  BY LossyIs
<1> DEFINE S == {m \in 0..n : \A i \in n + 1 - m..n + 1 : f[i] \in Seq(CodePoints)}
<1>2. 0 \in S
  <2>1. f[n + 1] = <<>> /\ <<>> \in Seq(CodePoints)
    BY <1>1 DEF LossyGoes
  <2>2. \A i \in n + 1 - 0..n + 1 : i = n + 1
    BY <1>0
  <2>3. f[n + 1] \in Seq(CodePoints) /\ 0 \in 0..n
    BY <1>0, <2>1
  <2> HIDE DEF n
  <2> QED
    BY <2>2, <2>3
<1>3. ASSUME NEW m \in Nat, m < n, m \in S
      PROVE  m + 1 \in S
  <2>1. \A i \in n + 1 - m..n + 1 : f[i] \in Seq(CodePoints)
    BY <1>3
  <2> DEFINE k == n - m
  <2>2. k \in 1..n /\ k + 1 = n + 1 - m /\ k = n + 1 - (m + 1) /\ m + 1 \in 0..n
    BY <1>0, <1>3
  <2>3. f[k] = <<LossyChar(s, k)>> \o f[LossyNext(s, k)]
    BY <1>1, <2>2 DEF LossyGoes
  <2>4. LossyChar(s, k) \in CodePoints /\ LossyNext(s, k) \in k + 1..n + 1
    BY <2>2, LossyCharIs, LossySteps
  <2> HIDE DEF k, n
  <2>5. f[LossyNext(s, k)] \in Seq(CodePoints)
    BY <2>1, <2>2, <2>4
  <2>6. f[k] \in Seq(CodePoints)
    <3> DEFINE c == LossyChar(s, k)  r == f[LossyNext(s, k)]
    <3>1. c \in CodePoints /\ r \in Seq(CodePoints) /\ f[k] = <<c>> \o r
      BY <2>3, <2>4, <2>5
    <3> HIDE DEF c, r
    <3> QED
      BY <3>1
  <2>7. \A i \in k..n + 1 : i = k \/ i \in k + 1..n + 1
    BY <1>0, <2>2
  <2>8. \A i \in n + 1 - (m + 1)..n + 1 : f[i] \in Seq(CodePoints)
    BY <2>1, <2>2, <2>6, <2>7
  <2> QED
    BY <2>2, <2>8
<1> HIDE DEF S
<1>4. n \in S
  <2> HIDE DEF n
  <2> QED
    BY <1>0, <1>2, <1>3, UpTo
<1>5. \A i \in 1..n + 1 : f[i] \in Seq(CodePoints)
  <2>1. n + 1 - n = 1
    BY <1>0
  <2> QED
    BY <1>4, <2>1 DEF S
<1>6. Lossy(s) \in Seq(CodePoints)
  <2>1. 1 \in 1..n + 1
    BY <1>0
  <2> QED
    BY <1>1, <1>5, <2>1
<1>7. AreCodePoints(Lossy(s))
  BY <1>6, CodePointSeqs
<1> QED
  BY <1>1, <1>5, <1>6, <1>7

\* Text whose last character is complete.
Whole(cps) == cps = <<>> \/ cps[Len(cps)] # REPLACEMENT

\* The bytes t in s, from the one behind m on.
Within(s, t, m) ==
  /\ s \in Seq(Bytes) /\ t \in Seq(Bytes) /\ m \in Nat /\ Len(s) = m + Len(t)
  /\ \A i \in 1..Len(t) : s[m + i] = t[i]

\* The n bytes from p on in s are those from i on in t.
SameBytes(s, p, t, i, n) == s[p] = t[i] /\ \A j \in 1..n - 1 : s[p + j] = t[i + j]

\* The same bytes are the same code point.
LEMMA SameCode ==
  ASSUME NEW s, NEW p, NEW t, NEW i, NEW n \in 1..4, SameBytes(s, p, t, i, n)
  PROVE  CodePoint(s, p, n) = CodePoint(t, i, n)
<1>1. s[p] = t[i] /\ \A j \in 1..n - 1 : s[p + j] = t[i + j]
  BY DEF SameBytes
<1>2. CASE n = 1
  BY <1>1, <1>2, CodeIs
<1>3. CASE n = 2
  <2>1. s[p + 1] = t[i + 1]
    BY <1>1, <1>3
  <2> QED
    BY <1>1, <1>3, <2>1, CodeIs
<1>4. CASE n = 3
  <2>1. s[p + 1] = t[i + 1] /\ s[p + 2] = t[i + 2]
    BY <1>1, <1>4
  <2> QED
    BY <1>1, <1>4, <2>1, CodeIs
<1>5. CASE n = 4
  <2>1. s[p + 1] = t[i + 1] /\ s[p + 2] = t[i + 2] /\ s[p + 3] = t[i + 3]
    BY <1>1, <1>5
  <2> QED
    BY <1>1, <1>5, <2>1, CodeIs
<1> QED
  BY <1>2, <1>3, <1>4, <1>5

\* A step at a byte asks only for what is behind it.
LEMMA StepWithin ==
  ASSUME NEW s, NEW t, NEW m, Within(s, t, m), NEW i \in 1..Len(t)
  PROVE  LossyChar(s, m + i) = LossyChar(t, i) /\ LossyNext(s, m + i) = m + LossyNext(t, i)
<1> DEFINE p == m + i
           n == Begun(t, i)
           w == CharWidth(t[i])
<1>1. /\ s \in Seq(Bytes) /\ t \in Seq(Bytes) /\ m \in Nat /\ Len(s) = m + Len(t) /\ Len(t) \in Nat
      /\ p \in 1..Len(s) /\ s[p] = t[i]
  BY DEF Within
<1>2. /\ w \in 0..4 /\ n \in 0..w /\ Opens(t, i, n) /\ \A k \in 0..w : Opens(t, i, k) => k <= n
      /\ Begun(s, p) \in 0..w /\ Opens(s, p, Begun(s, p)) /\ \A k \in 0..w : Opens(s, p, k) => k <= Begun(s, p)
  BY <1>1, BegunIs
<1>3. ASSUME NEW k \in 0..w
      PROVE  Opens(s, p, k) <=> Opens(t, i, k)
  <2>1. (p + k - 1 <= Len(s)) <=> (i + k - 1 <= Len(t))
    <3>1. k \in Int
      BY <1>2
    <3>2. m \in Nat /\ Len(s) = m + Len(t) /\ Len(t) \in Nat
      BY <1>1
    <3> QED
      BY <3>1, <3>2
  <2>2. i + k - 1 <= Len(t) => \A j \in 1..(k - 1) : s[p + j] = t[i + j]
    <3> SUFFICES ASSUME i + k - 1 <= Len(t), NEW j \in 1..(k - 1) PROVE s[p + j] = t[i + j]
      OBVIOUS
    <3>1. i + j \in 1..Len(t) /\ p + j = m + (i + j)
      BY <1>1, <1>2
    <3> QED
      BY <3>1 DEF Within
  <2> HIDE DEF p, w
  <2> QED
    BY <2>1, <2>2, <1>1 DEF Opens
<1>4. Begun(s, p) = n
  <2>1. Opens(t, i, Begun(s, p)) /\ Opens(s, p, n)
    BY <1>2, <1>3
  <2>2. Begun(s, p) <= n /\ n <= Begun(s, p)
    BY <1>2, <2>1
  <2> QED
    BY <2>2, <1>2
<1>5. CodePoint(s, p, n) = CodePoint(t, i, n) \/ n \notin 1..4
  <2> SUFFICES ASSUME n \in 1..4 PROVE CodePoint(s, p, n) = CodePoint(t, i, n)
    OBVIOUS
  <2>1. i + n - 1 <= Len(t)
    BY <1>2 DEF Opens
  <2>2. \A j \in 0..n - 1 : i + j \in 1..Len(t) /\ p + j = m + (i + j)
    <3> HIDE DEF n
    <3> QED
      BY <2>1, <1>1
  <2>3. \A j \in 0..n - 1 : s[p + j] = t[i + j]
    BY <2>2 DEF Within
  <2> HIDE DEF n, p
  <2>4. SameBytes(s, p, t, i, n)
    <3>1. \A j \in 1..n - 1 : j \in 0..n - 1
      OBVIOUS
    <3> QED
      BY <2>3, <1>1, <3>1 DEF SameBytes
  <2> QED
    BY <2>4, SameCode
<1>6. LossyChar(s, p) = LossyChar(t, i)
  <2>1. n > 0 /\ n = w => n \in 1..4
    BY <1>2
  <2> QED
    BY <2>1, <1>1, <1>4, <1>5 DEF LossyChar
<1>7. LossyNext(s, p) = m + LossyNext(t, i)
  <2>1. Max({n, 1}) = IF n > 0 THEN n ELSE 1
    <3>1. n \in Nat
      BY <1>2
    <3> HIDE DEF n
    <3> QED
      BY <3>1, AtLeastOne
  <2>2. LossyNext(t, i) = IF n > 0 /\ n = w THEN i + n ELSE i + Max({n, 1})
    BY DEF LossyNext
  <2>3. LossyNext(s, p) = IF n > 0 /\ n = w THEN p + n ELSE p + Max({n, 1})
    BY <1>1, <1>4 DEF LossyNext
  <2>4. m \in Nat /\ i \in Nat /\ n \in Nat /\ Max({n, 1}) \in Nat
    <3>1. m \in Nat /\ i \in Nat /\ n \in Nat
      BY <1>1, <1>2
    <3> HIDE DEF n
    <3> QED
      BY <2>1, <3>1
  <2> HIDE DEF n, w
  <2> QED
    BY <2>2, <2>3, <2>4
<1> QED
  BY <1>6, <1>7

\* So what is behind m is decoded the same.
LEMMA RestWithin ==
  ASSUME NEW s, NEW t, NEW m, Within(s, t, m), NEW f, LossyGoes(s, f), NEW g, LossyGoes(t, g)
  PROVE  f[m + 1] = g[1]
<1> DEFINE n == Len(t)
           S == {k \in 0..n : \A i \in n + 1 - k..n + 1 : f[m + i] = g[i]}
<1>1. s \in Seq(Bytes) /\ t \in Seq(Bytes) /\ m \in Nat /\ Len(s) = m + n /\ n \in Nat
  BY DEF Within
<1>2. 0 \in S
  <2>1. f[m + (n + 1)] = <<>> /\ g[n + 1] = <<>>
    <3>1. m + (n + 1) = Len(s) + 1
      BY <1>1
    <3> QED
      BY <3>1 DEF LossyGoes
  <2>2. \A i \in n + 1 - 0..n + 1 : i = n + 1
    BY <1>1
  <2> HIDE DEF n
  <2> QED
    BY <1>1, <2>1, <2>2
<1>3. ASSUME NEW k \in Nat, k < n, k \in S
      PROVE  k + 1 \in S
  <2>1. \A i \in n + 1 - k..n + 1 : f[m + i] = g[i]
    BY <1>3
  <2> DEFINE i == n - k
  <2>2. i \in 1..n /\ i + 1 = n + 1 - k /\ i = n + 1 - (k + 1) /\ k + 1 \in 0..n /\ m + i \in 1..Len(s)
    BY <1>1, <1>3
  <2>3. g[i] = <<LossyChar(t, i)>> \o g[LossyNext(t, i)] /\ f[m + i] = <<LossyChar(s, m + i)>> \o f[LossyNext(s, m + i)]
    BY <2>2 DEF LossyGoes
  <2>4. LossyChar(s, m + i) = LossyChar(t, i) /\ LossyNext(s, m + i) = m + LossyNext(t, i)
    BY <2>2, StepWithin
  <2>5. LossyNext(t, i) \in i + 1..n + 1
    BY <1>1, <2>2, LossySteps
  <2> HIDE DEF i, n
  <2>6. f[m + LossyNext(t, i)] = g[LossyNext(t, i)]
    BY <2>1, <2>2, <2>5
  <2>7. f[m + i] = g[i]
    BY <2>3, <2>4, <2>6
  <2>8. \A j \in i..n + 1 : j = i \/ j \in i + 1..n + 1
    BY <1>1, <2>2
  <2>9. \A j \in n + 1 - (k + 1)..n + 1 : f[m + j] = g[j]
    BY <2>1, <2>2, <2>7, <2>8
  <2> QED
    BY <2>2, <2>9
<1> HIDE DEF S
<1>4. n \in S
  <2> HIDE DEF n
  <2> QED
    BY <1>1, <1>2, <1>3, UpTo
<1> QED
  <2>1. n + 1 - n = 1 /\ 1 \in 1..n + 1
    BY <1>1
  <2> QED
    BY <1>4, <2>1 DEF S

\* A step that ends before the end of s, or finds a whole character, is the same
\* whatever follows s.
LEMMA StepBefore ==
  ASSUME NEW s \in Seq(Bytes), NEW t \in Seq(Bytes), NEW i \in 1..Len(s),
         LossyNext(s, i) <= Len(s) \/ LossyChar(s, i) # REPLACEMENT
  PROVE  LossyChar(s \o t, i) = LossyChar(s, i) /\ LossyNext(s \o t, i) = LossyNext(s, i)
<1> DEFINE u == s \o t
           n == Begun(s, i)
           w == CharWidth(s[i])
           b == Begun(u, i)
<1>1. /\ u \in Seq(Bytes) /\ Len(u) = Len(s) + Len(t) /\ Len(s) \in Nat /\ Len(t) \in Nat
      /\ \A j \in 1..Len(s) : u[j] = s[j]
      /\ i \in 1..Len(u)
  OBVIOUS
<1> HIDE DEF u
<1>2. /\ w \in 0..4 /\ n \in 0..w /\ Opens(s, i, n) /\ \A k \in 0..w : Opens(s, i, k) => k <= n
      /\ b \in 0..w /\ Opens(u, i, b) /\ \A k \in 0..w : Opens(u, i, k) => k <= b
  <2>1. u[i] = s[i]
    BY <1>1
  <2> QED
    BY <1>1, <2>1, BegunIs
<1>3. Max({n, 1}) = IF n > 0 THEN n ELSE 1
  <2>1. n \in Nat
    BY <1>2
  <2> HIDE DEF n
  <2> QED
    BY <2>1, AtLeastOne
<1>4. n = w \/ i + n <= Len(s)
  <2>1. CASE LossyChar(s, i) # REPLACEMENT
    BY <2>1 DEF LossyChar
  <2>2. CASE LossyNext(s, i) <= Len(s)
    <3>1. LossyNext(s, i) = IF n > 0 /\ n = w THEN i + n ELSE i + Max({n, 1})
      BY DEF LossyNext
    <3> HIDE DEF n, w
    <3> QED
      BY <2>2, <3>1, <1>2, <1>3
  <2> QED
    BY <2>1, <2>2
<1>5. ASSUME NEW k \in 0..w, i + k - 1 <= Len(s)
      PROVE  Opens(u, i, k) <=> Opens(s, i, k)
  <2>1. \A j \in 1..(k - 1) : u[i + j] = s[i + j]
    <3> SUFFICES ASSUME NEW j \in 1..(k - 1) PROVE u[i + j] = s[i + j]
      OBVIOUS
    <3>1. i + j \in 1..Len(s)
      BY <1>1, <1>2, <1>5
    <3> QED
      BY <3>1, <1>1
  <2>2. i + k - 1 <= Len(u) /\ u[i] = s[i]
    <3>1. k \in Int
      BY <1>2
    <3> HIDE DEF w
    <3> QED
      BY <3>1, <1>1, <1>5
  <2> HIDE DEF w
  <2> QED
    BY <2>1, <2>2, <1>5 DEF Opens
<1>6. b = n
  <2>1. n <= b
    <3>1. i + n - 1 <= Len(s)
      BY <1>2 DEF Opens
    <3>2. Opens(u, i, n)
      BY <1>2, <1>5, <3>1
    <3> QED
      BY <1>2, <3>2
  <2>2. CASE b > n
    <3> DEFINE k == n + 1
    <3>1. k \in 0..w /\ k <= b /\ i + k - 1 <= Len(s)
      <4>1. w \in 0..4 /\ n \in 0..w /\ b \in 0..w /\ b > n
        BY <2>2, <1>2
      <4> HIDE DEF w, b, n
      <4> QED
        BY <4>1, <1>1, <1>4
    <3>2. Opens(u, i, k)
      <4>1. i + k - 1 <= Len(u)
        BY <3>1, <1>1
      <4>2. \A j \in 1..(k - 1) : j \in 1..(b - 1)
        BY <3>1, <1>2
      <4>3. \A j \in 1..(b - 1) : u[i + j] \in IF j = 1 THEN Second(u[i]) ELSE 128..191
        BY <1>2 DEF Opens
      <4> HIDE DEF k, b
      <4> QED
        BY <4>1, <4>2, <4>3 DEF Opens
    <3>3. Opens(s, i, k)
      BY <3>1, <3>2, <1>5
    <3>4. k <= n
      BY <3>1, <3>3, <1>2
    <3> QED
      BY <3>4, <1>2
  <2> QED
    BY <2>1, <2>2, <1>2
<1>7. CodePoint(u, i, n) = CodePoint(s, i, n) \/ n \notin 1..4
  <2> SUFFICES ASSUME n \in 1..4 PROVE CodePoint(u, i, n) = CodePoint(s, i, n)
    OBVIOUS
  <2>1. i + n - 1 <= Len(s)
    BY <1>2 DEF Opens
  <2>2. \A j \in 0..n - 1 : i + j \in 1..Len(s)
    <3> HIDE DEF n
    <3> QED
      BY <2>1, <1>1
  <2>3. \A j \in 0..n - 1 : u[i + j] = s[i + j]
    BY <2>2, <1>1
  <2> HIDE DEF n
  <2>4. SameBytes(u, i, s, i, n)
    <3>1. \A j \in 1..n - 1 : j \in 0..n - 1
      OBVIOUS
    <3> QED
      BY <2>3, <1>1, <3>1 DEF SameBytes
  <2> QED
    BY <2>4, SameCode
<1>8. LossyChar(u, i) = LossyChar(s, i)
  <2>1. n > 0 /\ n = w => n \in 1..4
    BY <1>2
  <2>2. u[i] = s[i]
    BY <1>1
  <2> QED
    BY <2>1, <2>2, <1>6, <1>7 DEF LossyChar
<1>9. LossyNext(u, i) = LossyNext(s, i)
  <2>1. u[i] = s[i]
    BY <1>1
  <2> QED
    BY <2>1, <1>6 DEF LossyNext
<1> QED
  BY <1>8, <1>9 DEF u

\* If the text of s is whole, what follows s is decoded alone.
LEMMA LossyJoins ==
  ASSUME NEW s \in Seq(Bytes), NEW t \in Seq(Bytes), Whole(Lossy(s))
  PROVE  Lossy(s \o t) = Lossy(s) \o Lossy(t)
<1> DEFINE u == s \o t
           n == Len(s)
<1>1. u \in Seq(Bytes) /\ Len(u) = n + Len(t) /\ n \in Nat /\ Len(t) \in Nat /\ \A i \in 1..Len(t) : u[n + i] = t[i]
  OBVIOUS
<1>2. PICK f : LossyGoes(s, f) /\ Lossy(s) = f[1] /\ \A i \in 1..n + 1 : f[i] \in Seq(CodePoints)
  BY LossyCodes
<1>3. PICK g : LossyGoes(t, g) /\ Lossy(t) = g[1]
  BY LossyIs
<1>4. PICK h : LossyGoes(u, h) /\ Lossy(u) = h[1]
  BY <1>1, LossyIs
<1>5. g[1] \in Seq(CodePoints)
  BY <1>3, LossyCodes
<1>6. h[n + 1] = g[1]
  <2>1. Within(u, t, n)
    BY <1>1 DEF Within
  <2> QED
    BY <2>1, <1>3, <1>4, RestWithin
<1> DEFINE S == {k \in 0..n : \A i \in n + 1 - k..n + 1 : Whole(f[i]) => h[i] = f[i] \o g[1]}
<1>7. 0 \in S
  <2>1. f[n + 1] = <<>>
    BY <1>2 DEF LossyGoes
  <2>2. \A i \in n + 1 - 0..n + 1 : i = n + 1
    BY <1>1
  <2>3. <<>> \o g[1] = g[1]
    BY <1>5
  <2>4. h[n + 1] = f[n + 1] \o g[1]
    BY <1>6, <2>1, <2>3
  <2>5. 0 \in 0..n
    BY <1>1
  <2> HIDE DEF n
  <2> QED
    BY <2>2, <2>4, <2>5
<1>8. ASSUME NEW k \in Nat, k < n, k \in S
      PROVE  k + 1 \in S
  <2>1. \A i \in n + 1 - k..n + 1 : Whole(f[i]) => h[i] = f[i] \o g[1]
    BY <1>8
  <2> DEFINE i == n - k
  <2>2. i \in 1..n /\ i + 1 = n + 1 - k /\ i = n + 1 - (k + 1) /\ k + 1 \in 0..n /\ i \in 1..Len(u)
    BY <1>1, <1>8
  <2>3. f[i] = <<LossyChar(s, i)>> \o f[LossyNext(s, i)] /\ h[i] = <<LossyChar(u, i)>> \o h[LossyNext(u, i)]
    BY <2>2, <1>2, <1>4 DEF LossyGoes
  <2>4. LossyChar(s, i) \in CodePoints /\ LossyNext(s, i) \in i + 1..n + 1
    BY <2>2, LossyCharIs, LossySteps
  <2> HIDE DEF i, n, u
  <2> DEFINE c == LossyChar(s, i)
             j == LossyNext(s, i)
             r == f[j]
  <2>5. /\ c \in CodePoints /\ j \in i + 1..n + 1 /\ r \in Seq(CodePoints) /\ f[i] = <<c>> \o r
        /\ h[i] = <<LossyChar(u, i)>> \o h[LossyNext(u, i)]
    <3>1. c \in CodePoints /\ j \in i + 1..n + 1 /\ f[i] = <<c>> \o r
          /\ h[i] = <<LossyChar(u, i)>> \o h[LossyNext(u, i)]
      BY <2>3, <2>4
    <3> HIDE DEF c, j
    <3>2. j \in 1..n + 1
      BY <3>1, <2>2, <1>1
    <3>3. r \in Seq(CodePoints)
      BY <3>2, <1>2 DEF n
    <3> QED
      BY <3>1, <3>3
  <2>6. ASSUME Whole(f[i])
        PROVE  h[i] = f[i] \o g[1]
    <3>1. Whole(r) /\ (c # REPLACEMENT \/ r # <<>>)
      <4> HIDE DEF c, j, r
      <4>1. Len(r) \in Nat /\ Len(f[i]) = 1 + Len(r) /\ f[i] # <<>>
        BY <2>5
      <4>2. CASE r = <<>>
        <5>1. f[i] = <<c>>
          BY <4>2, <2>5
        <5> QED
          BY <4>2, <5>1, <2>6 DEF Whole
      <4>3. CASE r # <<>>
        <5>1. Len(r) > 0 /\ f[i][1 + Len(r)] = r[Len(r)]
          BY <4>1, <4>3, <2>5
        <5> QED
          BY <4>1, <4>3, <5>1, <2>6 DEF Whole
      <4> QED
        BY <4>2, <4>3
    <3>2. j <= n \/ c # REPLACEMENT
      <4>1. CASE r = <<>>
        BY <3>1, <4>1
      <4>2. CASE r # <<>>
        <5>1. j # n + 1
          BY <4>2, <1>2 DEF LossyGoes, n
        <5> QED
          BY <5>1, <2>5, <1>1
      <4> QED
        BY <4>1, <4>2
    <3>3. LossyChar(u, i) = c /\ LossyNext(u, i) = j
      BY <3>2, <2>2, StepBefore DEF u, n
    <3> HIDE DEF c, j, r
    <3>4. h[j] = r \o g[1]
      <4>1. j \in n + 1 - k..n + 1
        BY <2>2, <2>5
      <4> QED
        BY <4>1, <2>1, <3>1 DEF r
    <3>5. h[i] = <<c>> \o (r \o g[1])
      BY <2>5, <3>3, <3>4
    <3>6. Three(CodePoints, <<c>>, r, g[1])
      BY <2>5, <1>5 DEF Three
    <3>7. <<c>> \o (r \o g[1]) = (<<c>> \o r) \o g[1]
      <4> DEFINE a == <<c>>  b == g[1]
      <4>1. a \in Seq(CodePoints) /\ r \in Seq(CodePoints) /\ b \in Seq(CodePoints)
        BY <3>6 DEF Three
      <4> HIDE DEF a, b
      <4>2. a \o (r \o b) = (a \o r) \o b
        BY <4>1
      <4> QED
        BY <4>2 DEF a, b
    <3> QED
      BY <3>5, <3>7, <2>5
  <2>7. \A p \in i..n + 1 : p = i \/ p \in i + 1..n + 1
    BY <1>1, <2>2
  <2>8. \A p \in n + 1 - (k + 1)..n + 1 : Whole(f[p]) => h[p] = f[p] \o g[1]
    BY <2>1, <2>2, <2>6, <2>7
  <2> QED
    BY <2>2, <2>8
<1> HIDE DEF S
<1>9. n \in S
  <2> HIDE DEF n
  <2> QED
    BY <1>1, <1>7, <1>8, UpTo
<1>10. h[1] = f[1] \o g[1]
  <2>1. n + 1 - n = 1 /\ 1 \in 1..n + 1
    BY <1>1
  <2>2. Whole(f[1])
    BY <1>2
  <2> QED
    BY <1>9, <2>1, <2>2 DEF S
<1> QED
  BY <1>2, <1>3, <1>4, <1>10 DEF u

\* The bytes of U+FFFD.
LEMMA ReplacementIs == Utf8(REPLACEMENT) = <<239, 191, 189>>
BY SMT DEF Utf8, Low, REPLACEMENT

\* A string that ends with them.
LEMMA EndsIs ==
  ASSUME NEW s \in Seq(Bytes)
  PROVE  EndsIncomplete(s) <=>
            Len(s) >= 3 /\ s[Len(s) - 2] = 239 /\ s[Len(s) - 1] = 191 /\ s[Len(s)] = 189
<1> DEFINE u == <<239, 191, 189>>
           n == Len(s)
           r == Reverse(s)
           v == Reverse(u)
<1>1. n \in Nat
  OBVIOUS
<1>2. Len(r) = n /\ \A i \in 1..n : r[i] = s[n - i + 1]
  BY <1>1 DEF Reverse
<1>3. v = <<189, 191, 239>>
  BY DEF Reverse
<1>4. EndsIncomplete(s) <=> 3 <= n /\ SubSeq(v, 1, 3) = SubSeq(r, 1, 3)
  <2>1. Len(v) = 3
    BY <1>3
  <2> HIDE DEF v, r, n
  <2>2. EndsIncomplete(s) <=> IsPrefix(v, r)
    BY ReplacementIs DEF EndsIncomplete, IsSuffix, v, r
  <2> QED
    BY <2>1, <2>2, <1>2 DEF IsPrefix
<1>5. ASSUME n >= 3
      PROVE  SubSeq(v, 1, 3) = SubSeq(r, 1, 3) <=> s[n - 2] = 239 /\ s[n - 1] = 191 /\ s[n] = 189
  <2>1. r \in Seq(Bytes)
    <3>1. r = [i \in 1..n |-> s[n - i + 1]]
      BY DEF Reverse
    <3>2. \A i \in 1..n : n - i + 1 \in 1..n
      BY <1>1
    <3> QED
      BY <3>1, <3>2
  <2>2. r[1] = s[n] /\ r[2] = s[n - 1] /\ r[3] = s[n - 2]
    <3>1. 1 \in 1..n /\ 2 \in 1..n /\ 3 \in 1..n /\ n - 1 + 1 = n /\ n - 2 + 1 = n - 1 /\ n - 3 + 1 = n - 2
      BY <1>1, <1>5
    <3> HIDE DEF r, n
    <3> QED
      BY <3>1, <1>2
  <2>3. v \in Seq(Bytes) /\ Len(v) = 3 /\ v[1] = 189 /\ v[2] = 191 /\ v[3] = 239
    <3> HIDE DEF v
    <3> QED
      BY <1>3 DEF Bytes
  <2> DEFINE x == SubSeq(v, 1, 3)  y == SubSeq(r, 1, 3)
  <2> HIDE DEF r, v, n
  <2>4. /\ x \in Seq(Bytes) /\ Len(x) = 3 /\ \A i \in 1..3 : x[i] = v[i]
        /\ y \in Seq(Bytes) /\ Len(y) = 3 /\ \A i \in 1..3 : y[i] = r[i]
    <3>1. x \in Seq(Bytes) /\ Len(x) = 3 /\ \A i \in 1..3 : x[i] = v[i]
      BY <2>3
    <3>2. Len(r) \in Nat /\ 3 <= Len(r)
      BY <1>1, <1>2, <1>5
    <3>3. y \in Seq(Bytes) /\ Len(y) = 3 /\ \A i \in 1..3 : y[i] = r[i]
      BY <2>1, <3>2
    <3> QED
      BY <3>1, <3>3
  <2> HIDE DEF x, y
  <2>5. x = y <=> \A i \in 1..3 : x[i] = y[i]
    BY <2>4, SameSeq
  <2>6. (\A i \in 1..3 : x[i] = y[i]) <=> x[1] = y[1] /\ x[2] = y[2] /\ x[3] = y[3]
    <3>1. 1..3 = {1, 2, 3}
      OBVIOUS
    <3> QED
      BY <3>1
  <2>7. x[1] = 189 /\ x[2] = 191 /\ x[3] = 239 /\ y[1] = s[n] /\ y[2] = s[n - 1] /\ y[3] = s[n - 2]
    BY <2>2, <2>3, <2>4
  <2> QED
    BY <2>5, <2>6, <2>7 DEF x, y
<1> HIDE DEF r, v
<1> QED
  BY <1>1, <1>4, <1>5

\* A text ends so if its last character is U+FFFD.
LEMMA IncompleteIs ==
  ASSUME NEW cps, AreCodePoints(cps)
  PROVE  EndsIncomplete(Str(cps)) <=> ~ Whole(cps)
<1> DEFINE s == Str(cps)
           k == Len(cps)
           n == Len(s)
<1>1. PICK e : Parsing(s, cps, e)
  BY Parses
<1>2. k \in Nat /\ n \in Nat /\ e[0] = 0 /\ e[k] = n /\ s \in Seq(Bytes) /\ cps \in Seq(Nat)
  BY <1>1, ParseTypes
<1>3. EndsIncomplete(s) <=> n >= 3 /\ s[n - 2] = 239 /\ s[n - 1] = 191 /\ s[n] = 189
  BY <1>2, EndsIs
<1>4. CASE k = 0
  <2>1. cps = <<>> /\ n = 0
    BY <1>2, <1>4
  <2>2. Whole(cps)
    BY <2>1 DEF Whole
  <2>3. ~ EndsIncomplete(s)
    <3> HIDE DEF s, n
    <3> QED
      BY <2>1, <1>3
  <2> QED
    BY <2>2, <2>3
<1>5. CASE k # 0
  <2> DEFINE m == e[k - 1]
             w == n - m
  <2>1. k \in 1..k
    BY <1>2, <1>5
  <2>2. CharAt(s, cps, e, k)
    BY <1>1, <2>1, ParsedChar
  <2>3. /\ m \in Nat /\ w \in 1..4 /\ CharWidth(s[m + 1]) = w /\ \A j \in 2..w : s[m + j] \in 128..191
        /\ CodePoint(s, m + 1, w) = cps[k]
    BY <2>2, <1>2 DEF CharAt
  <2>4. n = m + Len(Utf8(cps[k])) /\ \A j \in 1..Len(Utf8(cps[k])) : s[m + j] = Utf8(cps[k])[j]
    BY <1>1, <1>2, <2>1 DEF Parsing
  <2>5. Whole(cps) <=> cps[k] # REPLACEMENT
    BY <1>2, <1>5 DEF Whole
  <2> HIDE DEF s, k, n, m
  <2>6. ASSUME cps[k] = REPLACEMENT
        PROVE  EndsIncomplete(s)
    <3>1. Utf8(cps[k]) = <<239, 191, 189>>
      BY <2>6, ReplacementIs
    <3>2. n = m + 3 /\ s[m + 1] = 239 /\ s[m + 2] = 191 /\ s[m + 3] = 189
      BY <3>1, <2>4
    <3> QED
      BY <3>2, <2>3, <1>3
  <2>7. ASSUME EndsIncomplete(s)
        PROVE  cps[k] = REPLACEMENT
    <3>1. n >= 3 /\ s[n - 2] = 239 /\ s[n - 1] = 191 /\ s[n] = 189
      BY <2>7, <1>3
    <3>2. CASE w = 1
      <4>1. m + 1 = n
        BY <3>2, <2>3, <1>2
      <4> QED
        BY <3>1, <3>2, <4>1, <2>3, SMT DEF CharWidth
    <3>3. CASE w = 2
      <4>1. m + 1 = n - 1
        BY <3>3, <2>3, <1>2
      <4> QED
        BY <3>1, <3>3, <4>1, <2>3, SMT DEF CharWidth
    <3>4. CASE w = 4
      <4>1. m + 2 = n - 2 /\ 2 \in 2..w
        BY <3>4, <2>3, <1>2
      <4> HIDE DEF w
      <4> QED
        BY <3>1, <4>1, <2>3
    <3>5. CASE w = 3
      <4>1. m + 1 = n - 2 /\ (m + 1) + 1 = n - 1 /\ (m + 1) + 2 = n
        BY <3>5, <2>3, <1>2
      <4>2. CodePoint(s, m + 1, 3) = 65533
        BY <3>1, <4>1, SMT DEF CodePoint
      <4> QED
        BY <2>3, <3>5, <4>2 DEF REPLACEMENT
    <3>6. w = 1 \/ w = 2 \/ w = 3 \/ w = 4
      <4> HIDE DEF w
      <4> QED
        BY <2>3
    <3> QED
      BY <3>2, <3>3, <3>4, <3>5, <3>6
  <2> QED
    BY <2>5, <2>6, <2>7 DEF s
<1> QED
  BY <1>4, <1>5

(***************************************************************************)
(* Bytes as characters of the byte-level alphabet, and back.               *)
(***************************************************************************)

\* A token is bytes, those of its characters or its own.
LEMMA UnmappedType ==
  ASSUME NEW token \in Strings
  PROVE  Unmapped(token) \in Seq(Bytes)
<1> DEFINE cps == Chars(token)
           bytes == BytesOf(cps)
<1>1. cps \in Seq(CodePoints) /\ token \in Seq(Bytes)
  BY StringsAre
<1>2. \A cp \in CodePoints : CHAR_TO_BYTE(cp) \in Bytes \cup {NoByte}
  BY SMT DEF CHAR_TO_BYTE, Nice, Bytes, NoByte, CodePoints
<1>3. CASE \E i \in DOMAIN bytes : bytes[i] = NoByte
  BY <1>1, <1>3 DEF Unmapped, BytesOr
<1>4. CASE ~ \E i \in DOMAIN bytes : bytes[i] = NoByte
  <2>1. Unmapped(token) = bytes
    BY <1>4 DEF Unmapped, BytesOr
  <2>2. bytes = [i \in 1..Len(cps) |-> bytes[i]] /\ DOMAIN bytes = 1..Len(cps) /\ Len(cps) \in Nat
    <3>1. DOMAIN cps = 1..Len(cps) /\ Len(cps) \in Nat
      BY <1>1
    <3> HIDE DEF cps
    <3> QED
      BY <3>1 DEF BytesOf
  <2>3. \A i \in 1..Len(cps) : bytes[i] \in Bytes
    <3>1. \A i \in 1..Len(cps) : bytes[i] = CHAR_TO_BYTE(cps[i]) /\ cps[i] \in CodePoints
      <4> HIDE DEF cps
      <4> QED
        BY <1>1, <2>2 DEF BytesOf
    <3>2. \A i \in 1..Len(cps) : bytes[i] # NoByte
      BY <2>2, <1>4
    <3> HIDE DEF cps, bytes
    <3> QED
      BY <3>1, <3>2, <1>2
  <2> HIDE DEF cps, bytes
  <2>4. bytes \in Seq(Bytes)
    BY <2>2, <2>3
  <2> QED
    BY <2>1, <2>4
<1> QED
  BY <1>3, <1>4

\* The alphabet has a character for each byte, and the byte for it.
LEMMA ByteBack ==
  \A b \in Bytes : BYTE_TO_CHAR(b) \in CodePoints /\ CHAR_TO_BYTE(BYTE_TO_CHAR(b)) = b /\ b # NoByte
<1> SUFFICES ASSUME NEW b \in Bytes
             PROVE  BYTE_TO_CHAR(b) \in CodePoints /\ CHAR_TO_BYTE(BYTE_TO_CHAR(b)) = b /\ b # NoByte
  OBVIOUS
<1>1. b \in 0..255
  BY DEF Bytes
<1> DEFINE c == BYTE_TO_CHAR(b)
<1>2. c \in 0..511 /\ CHAR_TO_BYTE(c) = b
  <2>1. CASE Nice(b)
    <3>1. c = b
      BY <2>1 DEF BYTE_TO_CHAR
    <3> QED
      BY <1>1, <2>1, <3>1 DEF CHAR_TO_BYTE
  <2>2. CASE ~ Nice(b) /\ b < 33
    <3>1. c = 256 + b
      BY <2>2 DEF BYTE_TO_CHAR
    <3> QED
      BY <1>1, <2>2, <3>1, SMT DEF CHAR_TO_BYTE
  <2>3. CASE ~ Nice(b) /\ b >= 33 /\ b < 161
    <3>1. c = 289 + b - 127
      BY <1>1, <2>3, SMT DEF BYTE_TO_CHAR
    <3>2. b \in 127..160
      BY <1>1, <2>3, SMT DEF Nice
    <3> QED
      BY <3>1, <3>2, SMT DEF CHAR_TO_BYTE
  <2>4. CASE ~ Nice(b) /\ b >= 161
    <3>1. b = 173
      BY <1>1, <2>4, SMT DEF Nice
    <3>2. c = 323
      BY <2>4, <3>1, SMT DEF BYTE_TO_CHAR
    <3> QED
      BY <3>1, <3>2, SMT DEF CHAR_TO_BYTE
  <2> QED
    BY <1>1, <2>1, <2>2, <2>3, <2>4
<1> HIDE DEF c
<1>3. c \in CodePoints
  BY <1>2 DEF CodePoints, IsCodePoint
<1> QED
  BY <1>1, <1>2, <1>3 DEF c, NoByte

\* Encoded bytes are a text that is decoded to them.
LEMMA EncodedIs ==
  ASSUME NEW s \in Seq(Bytes)
  PROVE  /\ encode_bytes(s) \in Strings /\ Unmapped(encode_bytes(s)) = s
         /\ Chars(encode_bytes(s)) = [i \in 1..Len(s) |-> BYTE_TO_CHAR(s[i])]
<1> DEFINE cps == [i \in 1..Len(s) |-> BYTE_TO_CHAR(s[i])]
<1>1. Len(s) \in Nat /\ DOMAIN s = 1..Len(s) /\ \A i \in 1..Len(s) : s[i] \in Bytes
  OBVIOUS
<1>2. cps \in Seq(CodePoints) /\ Len(cps) = Len(s)
  <2>1. cps \in [1..Len(s) -> CodePoints]
    BY <1>1, ByteBack
  <2> HIDE DEF cps
  <2> QED
    BY <1>1, <2>1, Tabled
<1>3. \A i \in 1..Len(s) : cps[i] = BYTE_TO_CHAR(s[i])
  OBVIOUS
<1>4. DOMAIN cps = 1..Len(s)
  OBVIOUS
<1> HIDE DEF cps
<1>5. Str(cps) \in Strings /\ Chars(Str(cps)) = cps
  BY <1>2, StringsAre
<1> DEFINE bytes == BytesOf(cps)
<1>6. DOMAIN bytes = 1..Len(s) /\ \A i \in 1..Len(s) : bytes[i] = s[i]
  BY <1>1, <1>3, <1>4, ByteBack DEF BytesOf
<1>7. bytes = s
  <2>1. bytes = [i \in DOMAIN bytes |-> bytes[i]]
    BY DEF BytesOf
  <2>2. s = [i \in 1..Len(s) |-> s[i]]
    BY <1>1
  <2> HIDE DEF bytes
  <2> QED
    BY <1>6, <2>1, <2>2
<1>8. \A i \in DOMAIN s : s[i] # NoByte
  BY <1>1, ByteBack
<1>9. BytesOr(bytes, Str(cps)) = s
  BY <1>7, <1>8 DEF BytesOr
<1>10. encode_bytes(s) = Str(cps)
  BY DEF encode_bytes, cps
<1>11. Unmapped(Str(cps)) = BytesOr(bytes, Str(cps))
  BY <1>5 DEF Unmapped
<1> QED
  BY <1>5, <1>9, <1>10, <1>11 DEF cps

\* A byte of the fallback is told by its token.
LEMMA FallbackByte ==
  ASSUME NEW b \in Bytes
  PROVE  fallback_byte(Str(<<HEX + b>>)) = b
<1>1. b \in 0..255 /\ HEX + b \in CodePoints /\ HEX + b >= HEX /\ HEX + b - HEX = b
  BY DEF Bytes, HEX, CodePoints, IsCodePoint
<1> DEFINE cps == <<HEX + b>>
<1>2. cps \in Seq(CodePoints) /\ Len(cps) = 1 /\ cps[1] = HEX + b
  BY <1>1
<1> HIDE DEF cps
<1>3. Chars(Str(cps)) = cps
  BY <1>2, StringsAre
<1>4. ByteOfHex(cps) = b
  <2>1. Len(cps) = 1 /\ cps[1] >= HEX /\ cps[1] - HEX = b
    BY <1>1, <1>2 DEF HEX
  <2> QED
    BY <2>1, Zenon DEF ByteOfHex
<1> QED
  BY <1>3, <1>4 DEF fallback_byte, cps

\* The bytes of tokens.
BytesOfTokens(tokens) == FlattenSeq([i \in 1..Len(tokens) |-> Unmapped(tokens[i])])

\* The bytes of two lists of tokens are those of one, then those of the other.
LEMMA BytesJoin ==
  ASSUME NEW a \in Seq(Strings), NEW b \in Seq(Strings)
  PROVE  /\ BytesOfTokens(a) \in Seq(Bytes) /\ BytesOfTokens(b) \in Seq(Bytes)
         /\ BytesOfTokens(a \o b) = BytesOfTokens(a) \o BytesOfTokens(b)
<1> DEFINE f == [token \in Strings |-> Unmapped(token)]
<1>1. Gives(f, Strings, Bytes)
  BY UnmappedType DEF Gives
<1>2. ASSUME NEW tokens \in Seq(Strings)
      PROVE  BytesOfTokens(tokens) = EachJoined(f, tokens) /\ EachJoined(f, tokens) \in Seq(Bytes)
  <2>1. \A i \in 1..Len(tokens) : f[tokens[i]] = Unmapped(tokens[i])
    OBVIOUS
  <2>2. Each(f, tokens) = [i \in 1..Len(tokens) |-> Unmapped(tokens[i])]
    BY <2>1 DEF Each
  <2>3. EachJoined(f, tokens) \in Seq(Bytes)
    <3> HIDE DEF f
    <3> QED
      BY <1>1, EachType
  <2> QED
    BY <2>2, <2>3 DEF BytesOfTokens, EachJoined
<1>3. a \o b \in Seq(Strings)
  OBVIOUS
<1> HIDE DEF f
<1>4. EachJoined(f, a \o b) = EachJoined(f, a) \o EachJoined(f, b)
  BY <1>1, EachOfTwo
<1> QED
  BY <1>2, <1>3, <1>4

\* What a decoder makes of tokens.
DecodedBy(base, seq) == LET Apply(ts, step) == decode_chain(step, ts) IN FoldLeft(Apply, base, seq)

\* The tokens after the first steps of a decoder.
LEMMA DecodeFold ==
  ASSUME NEW T, NEW base \in T, NEW seq, Len(seq) \in Nat, DOMAIN seq = 1..Len(seq),
         \A i \in 1..Len(seq), x \in T : decode_chain(seq[i], x) \in T
  PROVE  /\ Leads(Len(seq), T, base, [i \in 1..Len(seq) |-> [x \in T |-> decode_chain(seq[i], x)]],
                  DecodedBy(base, seq))
         /\ DecodedBy(base, seq) \in T
<1> DEFINE n == Len(seq)
           join == [i \in 1..n |-> [x \in T |-> decode_chain(seq[i], x)]]
           Is(g) == g = [s_ \in SUBSET DOMAIN seq |->
                           IF s_ = {} THEN base ELSE decode_chain(seq[Max(s_)], g[s_ \ {Max(s_)}])]
<1>1. PICK iter \in [SUBSET (1..n) -> T] : Iterates(n, base, join, iter)
  <2>1. \A i \in 1..n, x \in T : join[i][x] \in T
    OBVIOUS
  <2> HIDE DEF join
  <2> QED
    BY <2>1, FoldExists
<1>2. Is(iter)
  <2>1. ASSUME NEW s_ \in SUBSET (1..n), s_ # {}
        PROVE  join[Max(s_)][iter[s_ \ {Max(s_)}]] = decode_chain(seq[Max(s_)], iter[s_ \ {Max(s_)}])
    <3>1. Max(s_) \in 1..n /\ iter[s_ \ {Max(s_)}] \in T
      BY <2>1, <1>1, Greatest
    <3> QED
      BY <3>1
  <2> HIDE DEF join
  <2> QED
    BY <2>1, <1>1 DEF Iterates
<1>3. PICK g : Is(g) /\ DecodedBy(base, seq) = g[1..n]
  BY <1>2, Zenon DEF FoldLeft, MapThenFoldSet, DecodedBy
<1>4. g[{}] = base
  BY <1>3
<1>5. Leads(n, T, base, join, g[1..n])
  <2>1. ASSUME NEW s_ \in SUBSET (1..n), s_ # {}, g[s_ \ {Max(s_)}] = iter[s_ \ {Max(s_)}]
        PROVE  g[s_] = iter[s_]
    BY <1>2, <1>3, <2>1
  <2>2. n \in Nat
    OBVIOUS
  <2> HIDE DEF Is, join, n
  <2> QED
    BY <1>1, <1>4, <2>1, <2>2, FoldEnds
<1>6. g[1..n] \in T
  BY <1>5 DEF Leads
<1> QED
  BY <1>3, <1>5, <1>6

\* A decoder that is the byte level alone.
ByteLevelOnly == <<[kind |-> "ByteLevel"]>>

\* Such a decoder makes one text of all tokens.
LEMMA BytesDecode ==
  ASSUME NEW tokens \in Seq(Strings)
  PROVE  decode_tokens(ByteLevelOnly, tokens) = Str(Lossy(BytesOfTokens(tokens)))
<1> DEFINE s == Str(Lossy(BytesOfTokens(tokens)))
           seq == ByteLevelOnly
<1>1. s \in Strings
  <2>1. BytesOfTokens(tokens) \in Seq(Bytes)
    BY BytesJoin
  <2>2. Lossy(BytesOfTokens(tokens)) \in Seq(CodePoints)
    BY <2>1, LossyCodes
  <2> QED
    BY <2>2, StringsAre
<1>2. ByteLevelDecoder(tokens) = <<s>>
  BY DEF ByteLevelDecoder, BytesOfTokens
<1>3. DecodedBy(tokens, seq) = <<s>>
  <2> DEFINE U == Seq(Strings)
             join == [i \in 1..1 |-> [x \in U |-> decode_chain(seq[i], x)]]
  <2>1. Len(seq) = 1 /\ DOMAIN seq = 1..1 /\ \A x : decode_chain(seq[1], x) = ByteLevelDecoder(x)
    BY DEF ByteLevelOnly, decode_chain
  <2>2. ASSUME NEW x \in U
        PROVE  ByteLevelDecoder(x) \in U
    <3>1. BytesOfTokens(x) \in Seq(Bytes)
      BY <2>2, BytesJoin
    <3>2. Lossy(BytesOfTokens(x)) \in Seq(CodePoints)
      BY <3>1, LossyCodes
    <3>3. Str(Lossy(BytesOfTokens(x))) \in Strings
      BY <3>2, StringsAre
    <3>4. ByteLevelDecoder(x) = <<Str(Lossy(BytesOfTokens(x)))>>
      BY DEF ByteLevelDecoder, BytesOfTokens
    <3> DEFINE y == Str(Lossy(BytesOfTokens(x)))
    <3> HIDE DEF y
    <3> QED
      BY <3>3, <3>4 DEF y
  <2>3. Leads(1, U, tokens, join, DecodedBy(tokens, seq))
    <3>1. \A i \in 1..Len(seq), x \in U : decode_chain(seq[i], x) \in U
      BY <2>1, <2>2
    <3>3. tokens \in U /\ Len(seq) \in Nat /\ DOMAIN seq = 1..Len(seq)
      BY <2>1
    <3> HIDE DEF U, seq, join
    <3>2. Leads(Len(seq), U, tokens, [i \in 1..Len(seq) |-> [x \in U |-> decode_chain(seq[i], x)]],
                DecodedBy(tokens, seq))
      BY <3>1, <3>3, DecodeFold
    <3> QED
      BY <2>1, <3>2 DEF join
  <2>4. join[1][tokens] = ByteLevelDecoder(tokens)
    BY <2>1
  <2> HIDE DEF U, join, seq
  <2>5. PICK h \in [0..1 -> U] : Goes(1, tokens, join, h) /\ h[1] = DecodedBy(tokens, seq)
    BY <2>3 DEF Leads
  <2>6. h[1] = join[1][h[0]] /\ h[0] = tokens
    BY <2>5 DEF Goes
  <2> QED
    BY <1>2, <2>4, <2>5, <2>6
<1>4. decode_tokens(seq, tokens) = FlattenSeq(DecodedBy(tokens, seq))
  BY Zenon DEF decode_tokens, DecodedBy
<1> HIDE DEF s, seq
<1>5. FlattenSeq(<<s>>) = s
  <2>1. s \in Seq(Bytes)
    BY <1>1, StringsAre
  <2> QED
    BY <2>1, FlattenOne
<1> QED
  BY <1>3, <1>4, <1>5 DEF s, seq

(***************************************************************************)
(* Texts within texts, and texts one after the other.                      *)
(***************************************************************************)

\* Texts one after the other are a text.
LEMMA TextsFlatten ==
  ASSUME NEW w \in Seq(Strings)
  PROVE  FlattenSeq(w) \in Strings
<1> DEFINE n == Len(w)
           S == {k \in 0..n : FlattenSeq(First(w, k)) \in Strings}
<1>1. n \in Nat /\ w \in Seq(Seq(Bytes)) /\ \A i \in 1..n : w[i] \in Strings /\ w[i] \in Seq(Bytes)
  <2>1. Strings \subseteq Seq(Bytes)
    BY DEF Strings
  <2>2. w \in Seq(Seq(Bytes))
    BY <2>1, WiderSeq
  <2> QED
    BY <2>1, <2>2
<1>2. 0 \in S
  <2>1. First(w, 0) = <<>>
    BY DEF First
  <2>2. FlattenSeq(<<>>) = <<>> /\ <<>> \in Strings
    BY FlattenOfNone, NothingIsText DEF Strings, IsText
  <2> QED
    BY <1>1, <2>1, <2>2
<1>3. ASSUME NEW k \in Nat, k < n, k \in S
      PROVE  k + 1 \in S
  <2>1. k + 1 \in 1..n /\ (k + 1) - 1 = k /\ k \in 0..n /\ k + 1 \in 0..n
    BY <1>1, <1>3
  <2>2. First(w, k + 1) = Append(First(w, k), w[k + 1])
    BY <2>1, FirstGrows
  <2>3. First(w, k) \in Seq(Seq(Bytes))
    <3>1. Cuts(Seq(Bytes), w, k, k)
      BY <1>1, <2>1, FirstSplits
    <3> QED
      BY <3>1 DEF Cuts
  <2>4. FlattenSeq(First(w, k + 1)) = FlattenSeq(First(w, k)) \o w[k + 1]
    BY <1>1, <2>1, <2>2, <2>3, FlattenAppend
  <2>5. FlattenSeq(First(w, k)) \o w[k + 1] \in Strings
    BY <1>1, <1>3, <2>1, TextsJoin DEF Strings
  <2> QED
    BY <2>1, <2>4, <2>5
<1> HIDE DEF S
<1>4. n \in S
  BY <1>1, <1>2, <1>3, UpTo
<1>5. First(w, n) = w
  BY FirstAll
<1> QED
  BY <1>4, <1>5 DEF S

\* A text is its beginning and the rest.
LEMMA CutInTwo ==
  ASSUME NEW s \in Seq(Bytes), NEW a \in 0..Len(s), NEW b \in a..Len(s)
  PROVE  SubSeq(s, 1, a) \o SubSeq(s, a + 1, b) = SubSeq(s, 1, b)
<1>1. Len(s) \in Nat /\ 1 \in 1..Len(s) + 1 /\ a \in 1 - 1..Len(s)
  OBVIOUS
<1> QED
  BY <1>1, ConcatAdjacentSubSeq

\* The string t lies in the string s from byte p on.
LiesAt(s, t, p) == p + Len(t) - 1 <= Len(s) /\ SubSeq(s, p, p + Len(t) - 1) = t

\* A text that lies in a text lies between places where this may be cut.
LEMMA TextAligned ==
  ASSUME NEW s \in Strings, NEW t \in Strings, t # <<>>, NEW p \in Nat \ {0}, LiesAt(s, t, p)
  PROVE  p \in 1..Len(s) /\ p + Len(t) \in 1..Len(s) + 1 /\ IsBoundary(s, p) /\ IsBoundary(s, p + Len(t))
<1> DEFINE c == Chars(s)
           d == Chars(t)
           m == Len(t)
<1>1. IsText(s) /\ IsText(t) /\ s \in Seq(Bytes) /\ t \in Seq(Bytes)
  BY DEF Strings
<1>2. PICK e : Parsing(s, c, e)
  BY <1>1, TextParses
<1>3. PICK g : Parsing(t, d, g)
  BY <1>1, TextParses
<1>4. Len(s) \in Nat /\ m \in Nat \ {0}
  BY <1>1, EmptySeq
<1>5. p \in 1..Len(s) /\ p + m \in 1..Len(s) + 1
  BY <1>4 DEF LiesAt
<1>6. \A j \in 1..m : t[j] = s[p + j - 1]
  <2>1. \A j \in 1..m : SubSeq(s, p, p + m - 1)[j] = s[p + j - 1]
    BY <1>1, <1>4, <1>5
  <2> QED
    BY <2>1 DEF LiesAt
<1> HIDE DEF c, d, m
<1>7. Len(t) = m
  BY DEF m
<1>8. IsBoundary(s, p)
  <2>1. g[0] = 0 /\ 0 \in 0..Len(d)
    BY <1>3, ParseTypes
  <2>2. IsBoundary(t, g[0] + 1)
    BY <1>3, <2>1, CharStarts
  <2>3. ~ Continues(t[1])
    BY <2>1, <2>2, <1>4, <1>7 DEF IsBoundary
  <2>4. t[1] = s[p]
    BY <1>4, <1>5, <1>6
  <2> QED
    BY <2>3, <2>4 DEF IsBoundary
<1>9. IsBoundary(s, p + m)
  <2> SUFFICES ASSUME ~ IsBoundary(s, p + m) PROVE FALSE
    OBVIOUS
  <2>1. p + m \in 1..Len(s)
    BY <1>5 DEF IsBoundary
  <2>2. PICK k \in 1..Len(c) : e[k - 1] < p + m /\ p + m <= e[k]
    BY <2>1, <1>2, ParsedByte
  <2>3. CharAt(s, c, e, k) /\ k - 1 \in 0..Len(c) /\ Len(c) \in Nat
    BY <2>2, <1>2, ParsedChar, ParseTypes
  <2> DEFINE a == e[k - 1] + 1
             w == e[k] - e[k - 1]
  <2>4. e[k - 1] \in Nat /\ e[k] \in Nat /\ w \in 1..4 /\ CharWidth(s[a]) = w /\ ~ Continues(s[a])
    BY <2>3 DEF CharAt
  <2>0. a = e[k - 1] + 1 /\ w = e[k] - e[k - 1] /\ a \in Nat /\ p \in Nat /\ m \in Nat \ {0}
    BY <1>4, <2>4
  <2> HIDE DEF a, w
  <2> DEFINE u == e[k - 1]
             v == e[k]
  <2>19. u \in Nat /\ v \in Nat /\ a = u + 1 /\ w = v - u /\ w \in Nat /\ u < p + m /\ p + m <= v
    BY <2>0, <2>2, <2>4
  <2> HIDE DEF u, v
  <2>5. IsBoundary(s, a)
    BY <2>4 DEF IsBoundary
  <2>6. a # p + m
    BY <2>5
  <2>7. a < p + m /\ p + m < a + w
    BY <2>0, <2>19, <2>6
  <2>8. a >= p
    \* p is a boundary, so the character cannot begin before it and go on behind it
    <3> SUFFICES ASSUME a < p PROVE FALSE
      BY <2>0
    <3>1. PICK b \in 0..Len(c) : p = e[b] + 1
      BY <1>2, <1>5, <1>8, CharStarts
    <3>2. e[b] \in Nat
      BY <1>2, <3>1, ParseTypes
    <3> DEFINE x == e[b]
    <3>5. x \in Nat /\ p = x + 1
      BY <3>1, <3>2
    <3> HIDE DEF x
    <3>3. u < x /\ x < v
      BY <3>5, <2>0, <2>19
    <3>4. ~ (b <= k - 1) /\ ~ (k <= b)
      <4>1. k \in 0..Len(c) /\ k - 1 \in 0..Len(c)
        BY <2>3
      <4>2. b < k - 1 => e[b] < e[k - 1]
        BY <4>1, <1>2, ParseGrows
      <4>3. k < b => e[k] < e[b]
        BY <4>1, <1>2, ParseGrows
      <4> QED
        BY <4>1, <4>2, <4>3, <3>2, <3>3, <2>19 DEF u, v, x
    <3> QED
      BY <3>4, <2>3
  <2> DEFINE q == a - p + 1
  <2>9. q \in 1..m /\ t[q] = s[a]
    <3>1. q \in 1..m
      BY <2>0, <2>7, <2>8
    <3>2. p + q - 1 = a
      BY <2>0
    <3> QED
      BY <3>1, <3>2, <1>6
  <2>10. IsBoundary(t, q) /\ q \in 1..Len(t) + 1
    BY <2>4, <2>9, <1>4, <1>7 DEF IsBoundary
  <2>11. PICK h \in 0..Len(d) : q = g[h] + 1
    <3> HIDE DEF q
    <3> QED
      BY <2>10, <1>3, CharStarts
  <2>12. Len(d) \in Nat /\ g[Len(d)] = m /\ g[h] \in Nat
    BY <1>3, <1>7, ParseTypes
  <2>13. h + 1 \in 1..Len(d)
    <3> HIDE DEF q
    <3>1. h # Len(d)
      BY <2>9, <2>11, <2>12, <1>4
    <3> QED
      BY <3>1, <2>12
  <2>14. CharAt(t, d, g, h + 1)
    BY <2>13, <1>3, ParsedChar
  <2>15. (h + 1) - 1 = h
    BY <2>12
  <2>16. g[h] \in Nat /\ g[h + 1] \in Nat /\ CharWidth(t[g[h] + 1]) = g[h + 1] - g[h] /\ g[h + 1] <= m
    BY <2>14, <2>15, <1>7 DEF CharAt
  <2>17. g[h + 1] - g[h] = w
    <3> HIDE DEF q
    <3> QED
      BY <2>4, <2>9, <2>11, <2>16
  <2>18. a - p + 1 = g[h] + 1
    BY <2>11
  <2> DEFINE x == g[h]
             y == g[h + 1]
  <2>20. x \in Nat /\ y \in Nat /\ y - x = w /\ y <= m /\ a - p + 1 = x + 1
    BY <2>16, <2>17, <2>18
  <2>21. a \in Nat /\ p \in Nat /\ m \in Nat /\ w \in Nat /\ p + m < a + w
    BY <2>0, <2>7, <2>19
  <2> HIDE DEF x, y
  <2>22. y = w + (a - p)
    BY <2>20, <2>21
  <2> QED
    BY <2>20, <2>21, <2>22
<1> QED
  BY <1>5, <1>7, <1>8, <1>9

\* No text is complete.
LEMMA NothingEnds == ~ EndsIncomplete(<<>>) /\ <<>> \in Strings
<1>1. ~ EndsIncomplete(Str(<<>>))
  BY NothingIsText, IncompleteIs DEF Whole
<1> QED
  BY <1>1, NothingIsText DEF Strings

\* Of two texts, the second, if there is one, says whether the whole is complete.
LEMMA EndOfTwo ==
  ASSUME NEW x \in Strings, NEW y \in Strings, y # <<>>
  PROVE  EndsIncomplete(x \o y) <=> EndsIncomplete(y)
<1> DEFINE a == Chars(x)
           b == Chars(y)
<1>1. a \in Seq(CodePoints) /\ b \in Seq(CodePoints) /\ x = Str(a) /\ y = Str(b) /\ AreCodePoints(a) /\ AreCodePoints(b)
  BY StringsAre, CodePointSeqs
<1> HIDE DEF a, b
<1>2. b # <<>>
  BY <1>1, NothingIsText
<1>3. x \o y = Str(a \o b) /\ AreCodePoints(a \o b)
  BY <1>1, TextConcat, CodePointsStay
<1>4. Whole(a \o b) <=> Whole(b)
  <2>1. Len(a) \in Nat /\ Len(b) \in Nat /\ Len(b) > 0 /\ Len(a \o b) = Len(a) + Len(b) /\ a \o b # <<>>
    BY <1>1, <1>2
  <2>2. (a \o b)[Len(a) + Len(b)] = b[Len(b)]
    BY <2>1, <1>1
  <2> QED
    BY <1>2, <2>1, <2>2 DEF Whole
<1> QED
  BY <1>1, <1>3, <1>4, IncompleteIs

\* How a text goes on from a prefix: the rest is all there is to return, and is
\* complete as the text is.
GoesOn(prefix, text, new) ==
  /\ text \in Seq(Bytes) /\ prefix \in Seq(Bytes) /\ new \in Seq(Bytes)
  /\ Len(text) > Len(prefix) <=> new # <<>>
  /\ IsPrefix(prefix, text) /\ SubSeq(text, Len(prefix) + 1, Len(text)) = new
  /\ new # <<>> => (EndsIncomplete(text) <=> EndsIncomplete(new))

\* Two texts go on from one another.
LEMMA TextGoesOn ==
  ASSUME NEW prefix \in Strings, NEW new \in Strings
  PROVE  GoesOn(prefix, prefix \o new, new)
<1> DEFINE text == prefix \o new
<1>1. prefix \in Seq(Bytes) /\ new \in Seq(Bytes) /\ (new # <<>> => (EndsIncomplete(text) <=> EndsIncomplete(new)))
  BY StringsAre, EndOfTwo
<1>2. /\ Len(prefix) \in Nat /\ Len(new) \in Nat /\ text \in Seq(Bytes) /\ Len(text) = Len(prefix) + Len(new)
      /\ new # <<>> <=> Len(new) > 0
  BY <1>1
<1>3. SubSeq(text, Len(prefix) + 1, Len(text)) = new
  <2>1. /\ SubSeq(text, Len(prefix) + 1, Len(text)) \in Seq(Bytes)
        /\ Len(SubSeq(text, Len(prefix) + 1, Len(text))) = Len(new)
        /\ \A i \in 1..Len(new) : SubSeq(text, Len(prefix) + 1, Len(text))[i] = new[i]
    BY <1>1, <1>2
  <2> QED
    BY <1>1, <2>1, SameSeq
<1>4. IsPrefix(prefix, text)
  BY <1>1, <1>2 DEF IsPrefix
<1> HIDE DEF text
<1>5. GoesOn(prefix, text, new)
  BY <1>1, <1>2, <1>3, <1>4 DEF GoesOn
<1> QED
  BY <1>5 DEF text

(***************************************************************************)
(* Texts that are cut: slices, splits that lie side by side, pieces, and   *)
(* what is chosen of a sequence.                                           *)
(***************************************************************************)

\* The beginning and the end of a text are places where it may be cut.
LEMMA TextEnds ==
  ASSUME NEW s \in Strings
  PROVE  Len(s) \in Nat /\ IsBoundary(s, 1) /\ IsBoundary(s, Len(s) + 1)
<1>1. IsText(s) /\ s \in Seq(Bytes)
  BY DEF Strings
<1>2. PICK e : Parsing(s, Chars(s), e)
  BY <1>1, TextParses
<1>3. e[0] = 0 /\ 0 \in 0..Len(Chars(s)) /\ Len(s) \in Nat
  BY <1>2, ParseTypes
<1>4. IsBoundary(s, e[0] + 1)
  BY <1>2, <1>3, CharStarts
<1>5. IsBoundary(s, 1)
  BY <1>3, <1>4
<1> QED
  BY <1>3, <1>5 DEF IsBoundary

\* Replacing characters by texts makes a text of a text.
LEMMA ReplacedType ==
  ASSUME NEW s \in Strings, NEW pattern, NEW content \in Seq(CodePoints)
  PROVE  Replaced(s, pattern, content) \in Strings
<1> DEFINE c == Chars(s)
           w == [i \in DOMAIN c |-> IF c[i] = pattern THEN content ELSE <<c[i]>>]
<1>1. c \in Seq(CodePoints)
  BY StringsAre
<1>2. w \in Seq(Seq(CodePoints))
  <2>1. Len(c) \in Nat /\ DOMAIN c = 1..Len(c) /\ \A i \in 1..Len(c) : c[i] \in CodePoints
    BY <1>1
  <2>2. \A i \in 1..Len(c) : <<c[i]>> \in Seq(CodePoints)
    BY <2>1
  <2>3. w \in [1..Len(c) -> Seq(CodePoints)]
    BY <2>1, <2>2
  <2> QED
    BY <2>1, <2>3, Tabled
<1>3. FlattenSeq(w) \in Seq(CodePoints)
  BY <1>2, FlattenType
<1> QED
  BY <1>3, StringsAre DEF Replaced, ReplacedChars

\* Characters, one or more.
Slices == Seq(CodePoints) \ {<<>>}

\* Of characters there is a text.
LEMMA SomeText ==
  ASSUME NEW cps \in Slices
  PROVE  Str(cps) \in Strings \ {<<>>}
<1>1. cps \in Seq(CodePoints) /\ cps # <<>>
  BY DEF Slices
<1>2. Str(cps) \in Strings /\ Chars(Str(cps)) = cps
  BY <1>1, StringsAre
<1> QED
  BY <1>1, <1>2, NothingIsText

\* A sequence in slices of a length, the last of which may be shorter.
SlicesOf(cps, max) ==
  [n \in 1..((Len(cps) + max - 1) \div max) |->
     SubSeq(cps, (n - 1) * max + 1, Min({n * max, Len(cps)}))]

\* The slices of at most max characters, none of them empty.
LEMMA SlicesType ==
  ASSUME NEW cps \in Seq(CodePoints), NEW max \in Nat \ {0}
  PROVE  /\ SlicesOf(cps, max) \in Seq(Seq(CodePoints))
         /\ \A n \in 1..Len(SlicesOf(cps, max)) : SlicesOf(cps, max)[n] # <<>>
<1> DEFINE c == Len(cps)
           k == (c + max - 1) \div max
           slice(n) == SubSeq(cps, (n - 1) * max + 1, Min({n * max, c}))
           all == [n \in 1..k |-> slice(n)]
<1>1. c \in Nat
  OBVIOUS
<1>2. k \in Nat
  BY <1>1
<1>3. ASSUME NEW n \in 1..k
      PROVE  slice(n) \in Seq(CodePoints) /\ slice(n) # <<>>
  <2>1. (n - 1) * max \in Nat /\ n * max \in Nat /\ n * max = (n - 1) * max + max
    BY <1>2
  <2>2. (n - 1) * max < c
    <3>1. k * max <= c + max - 1
      BY <1>1
    <3>2. n * max <= k * max
      BY <1>2
    <3> QED
      BY <1>1, <1>2, <2>1, <3>1, <3>2
  <2>3. Min({n * max, c}) \in (n - 1) * max + 1..c
    <3>1. {n * max, c} \in SUBSET Nat /\ {n * max, c} # {}
      BY <1>1, <2>1
    <3>2. Min({n * max, c}) \in {n * max, c} /\ \A x \in {n * max, c} : Min({n * max, c}) <= x
      BY <3>1, MinIs
    <3> QED
      BY <1>1, <2>1, <2>2, <3>2
  <2> DEFINE a == (n - 1) * max + 1
             b == Min({n * max, c})
  <2>4. a \in 1..c /\ b \in a..c
    BY <1>1, <2>1, <2>2, <2>3
  <2> HIDE DEF a, b
  <2>5. SubSeq(cps, a, b) \in Seq(CodePoints) /\ Len(SubSeq(cps, a, b)) = b - a + 1
    BY <2>4
  <2>6. SubSeq(cps, a, b) # <<>>
    BY <2>4, <2>5
  <2> QED
    BY <2>5, <2>6 DEF a, b
<1>4. all \in [1..k -> Seq(CodePoints)]
  <2> HIDE DEF k
  <2> QED
    BY <1>3
<1>5. all \in Seq(Seq(CodePoints)) /\ Len(all) = k
  BY <1>2, <1>4, Tabled
<1>6. SlicesOf(cps, max) = all
  BY DEF SlicesOf
<1> HIDE DEF slice, k
<1> QED
  BY <1>3, <1>5, <1>6

\* The text of a split stays when text is added at the end of the buffer.
LEMMA FrontStays ==
  ASSUME NEW s \in Seq(Bytes), NEW t \in Seq(Bytes), NEW a \in Nat \ {0}, NEW b \in 0..Len(s)
  PROVE  SubSeq(s \o t, a, b) = SubSeq(s, a, b)
<1> DEFINE x == SubSeq(s \o t, a, b)
           y == SubSeq(s, a, b)
<1>1. s \o t \in Seq(Bytes) /\ Len(s \o t) = Len(s) + Len(t) /\ \A i \in 1..Len(s) : (s \o t)[i] = s[i]
  BY ConcatProperties
<1>2. CASE a > b
  BY <1>1, <1>2
<1>3. CASE a <= b
  <2> DEFINE u == s \o t
  <2>0. u \in Seq(Bytes) /\ Len(s) <= Len(u) /\ Len(s) \in Nat /\ Len(u) \in Nat /\ \A i \in 1..Len(s) : u[i] = s[i]
    BY <1>1
  <2> HIDE DEF u
  <2>1. SubSeq(u, a, b) \in Seq(Bytes) /\ Len(SubSeq(u, a, b)) = b - a + 1 /\ \A i \in 1..b - a + 1 : SubSeq(u, a, b)[i] = u[a + i - 1]
    BY <1>3, <2>0
  <2>2. y \in Seq(Bytes) /\ Len(y) = b - a + 1 /\ \A i \in 1..b - a + 1 : y[i] = s[a + i - 1]
    BY <1>3
  <2>3. \A i \in 1..b - a + 1 : a + i - 1 \in 1..Len(s)
    BY <1>3
  <2> HIDE DEF y
  <2>4. \A i \in 1..Len(y) : SubSeq(u, a, b)[i] = y[i]
    BY <2>0, <2>1, <2>2, <2>3
  <2>5. SubSeq(u, a, b) = y
    BY <2>1, <2>2, <2>4, SameSeq
  <2> QED
    BY <2>5 DEF u, y
<1> QED
  BY <1>2, <1>3

\* The first character of a part, and a cut in two.
LEMMA PartOf ==
  ASSUME NEW T, NEW s \in Seq(T), NEW a \in 1..Len(s), NEW b \in a..Len(s)
  PROVE  /\ SubSeq(s, a, b) \in Seq(T) /\ Len(SubSeq(s, a, b)) = b - a + 1 /\ SubSeq(s, a, b)[1] = s[a]
         /\ SubSeq(s, 1, a - 1) \o SubSeq(s, a, b) = SubSeq(s, 1, b)
<1>1. SubSeq(s, a, b) \in Seq(T) /\ Len(SubSeq(s, a, b)) = b - a + 1 /\ SubSeq(s, a, b)[1] = s[a]
  OBVIOUS
<1>2. Len(s) \in Nat /\ 1 \in 1..Len(s) + 1 /\ a - 1 \in 1 - 1..Len(s) /\ b \in a - 1..Len(s) /\ a - 1 + 1 = a
  OBVIOUS
<1>3. SubSeq(s, 1, a - 1) \o SubSeq(s, a - 1 + 1, b) = SubSeq(s, 1, b)
  BY <1>2, ConcatAdjacentSubSeq
<1> QED
  BY <1>1, <1>2, <1>3

\* A place where the text may be cut.
IsCut(s, a) == a \in 1..Len(s) + 1 /\ IsBoundary(s, a)

\* Where a text may be cut it may be cut with more text at its end.
LEMMA CutStays ==
  ASSUME NEW s \in Strings, NEW t \in Strings
  PROVE  /\ s \o t \in Strings /\ Len(s \o t) = Len(s) + Len(t) /\ Len(s) \in Nat /\ Len(t) \in Nat
         /\ \A a : IsCut(s, a) => IsCut(s \o t, a)
         /\ IsCut(s \o t, Len(s) + 1) /\ IsCut(s \o t, Len(s) + Len(t) + 1)
<1> DEFINE u == s \o t
<1>1. s \in Seq(Bytes) /\ t \in Seq(Bytes) /\ u \in Strings
  <2>1. IsText(s) /\ IsText(t) /\ s \in Seq(Bytes) /\ t \in Seq(Bytes)
    BY DEF Strings
  <2>2. IsText(u)
    BY <2>1, TextsJoin
  <2> QED
    BY <2>1, <2>2 DEF Strings
<1>2. /\ Len(s) \in Nat /\ Len(t) \in Nat /\ Len(u) = Len(s) + Len(t)
      /\ \A i \in 1..Len(u) : u[i] = IF i <= Len(s) THEN s[i] ELSE t[i - Len(s)]
  BY <1>1, ConcatProperties
<1>3. IsBoundary(t, 1) /\ IsBoundary(u, Len(u) + 1)
  BY <1>1, TextEnds
<1> HIDE DEF u
<1>4. IsCut(u, Len(s) + 1)
  <2>1. CASE Len(t) = 0
    BY <1>2, <1>3, <2>1 DEF IsCut
  <2>2. CASE Len(t) # 0
    <3>1. Len(s) + 1 \in 1..Len(u) /\ ~ Len(s) + 1 <= Len(s) /\ Len(s) + 1 - Len(s) = 1 /\ ~ 1 > Len(t)
      BY <1>2, <2>2
    <3>2. u[Len(s) + 1] = t[1]
      BY <1>2, <3>1
    <3>3. ~ Continues(t[1])
      BY <1>3, <3>1 DEF IsBoundary
    <3> QED
      BY <1>2, <3>1, <3>2, <3>3 DEF IsCut, IsBoundary
  <2> QED
    BY <2>1, <2>2
<1>5. ASSUME NEW a, IsCut(s, a)
      PROVE  IsCut(u, a)
  <2>1. a \in 1..Len(s) + 1 /\ IsBoundary(s, a)
    BY <1>5 DEF IsCut
  <2>2. CASE a = Len(s) + 1
    BY <1>4, <2>2
  <2>3. CASE a # Len(s) + 1
    <3>1. a \in 1..Len(u) /\ a <= Len(s) /\ ~ a > Len(s) /\ u[a] = s[a]
      BY <1>2, <2>1, <2>3
    <3>2. ~ Continues(s[a])
      BY <2>1, <3>1 DEF IsBoundary
    <3> QED
      BY <1>2, <3>1, <3>2 DEF IsCut, IsBoundary
  <2> QED
    BY <2>2, <2>3
<1>6. IsCut(u, Len(s) + Len(t) + 1)
  BY <1>2, <1>3 DEF IsCut
<1> QED
  BY <1>1, <1>2, <1>4, <1>5, <1>6 DEF u

\* The id of a split that is text.
NoToken == -1

\* The splits of a buffer.
TextSplits == [from : Nat, to : Nat, id : Nat \cup {NoToken}]

\* A split lies in the text, and that of an added token is empty.
FitsText(s, sp) == IsCut(s, sp.from) /\ IsCut(s, sp.to) /\ sp.from <= sp.to /\ (sp.id # NoToken => sp.from = sp.to)

\* Splits that cover the text from a on up to b.
Tiles(sps, s, a, b) ==
  /\ sps \in Seq(TextSplits) /\ IsCut(s, a) /\ IsCut(s, b)
  /\ \A i \in 1..Len(sps) : FitsText(s, sps[i])
  /\ sps = <<>> => a = b
  /\ sps # <<>> => sps[1].from = a /\ sps[Len(sps)].to = b
  /\ \A i \in 1..(Len(sps) - 1) : sps[i + 1].from = sps[i].to

\* A split covers what it lies in.
LEMMA TilesOne ==
  ASSUME NEW s, NEW sp \in TextSplits, FitsText(s, sp)
  PROVE  Tiles(<<sp>>, s, sp.from, sp.to)
<1> DEFINE one == <<sp>>
<1>1. one \in Seq(TextSplits) /\ Len(one) = 1 /\ one[1] = sp /\ one # <<>>
  OBVIOUS
<1> HIDE DEF one
<1>2. IsCut(s, sp.from) /\ IsCut(s, sp.to)
  BY DEF FitsText
<1>3. Tiles(one, s, sp.from, sp.to)
  BY <1>1, <1>2 DEF Tiles
<1> QED
  BY <1>3 DEF one

\* Nothing covers nothing.
LEMMA TilesNone ==
  ASSUME NEW s, NEW a, IsCut(s, a)
  PROVE  Tiles(<<>>, s, a, a)
BY DEF Tiles

\* Splits may follow splits.
LEMMA TilesJoin ==
  ASSUME NEW s, NEW x, NEW y, NEW a, NEW b, NEW c, Tiles(x, s, a, b), Tiles(y, s, b, c)
  PROVE  Tiles(x \o y, s, a, c)
<1> DEFINE z == x \o y
<1>1. x \in Seq(TextSplits) /\ y \in Seq(TextSplits)
  BY DEF Tiles
<1>2. /\ Len(x) \in Nat /\ Len(y) \in Nat /\ Len(z) = Len(x) + Len(y) /\ z \in Seq(TextSplits)
      /\ \A i \in 1..Len(z) : z[i] = IF i <= Len(x) THEN x[i] ELSE y[i - Len(x)]
  BY <1>1, ConcatProperties
<1>3. (x = <<>> <=> Len(x) = 0) /\ (y = <<>> <=> Len(y) = 0) /\ (z = <<>> <=> Len(z) = 0)
  BY <1>1, <1>2, EmptySeq
<1> HIDE DEF z
<1>4. \A i \in 1..Len(z) : FitsText(s, z[i])
  <2> SUFFICES ASSUME NEW i \in 1..Len(z) PROVE FitsText(s, z[i])
    OBVIOUS
  <2>1. CASE i <= Len(x)
    <3>1. i \in 1..Len(x) /\ z[i] = x[i]
      BY <1>2, <2>1
    <3> QED
      BY <3>1 DEF Tiles
  <2>2. CASE ~ i <= Len(x)
    <3>1. i - Len(x) \in 1..Len(y) /\ z[i] = y[i - Len(x)]
      BY <1>2, <2>2
    <3> QED
      BY <3>1 DEF Tiles
  <2> QED
    BY <2>1, <2>2
<1>5. ASSUME x = <<>>
      PROVE  Tiles(z, s, a, c)
  <2>1. a = b /\ Len(z) = Len(y) /\ \A i \in 1..Len(z) : z[i] = y[i]
    BY <1>2, <1>3, <1>5 DEF Tiles
  <2>2. z = y
    BY <1>1, <1>2, <2>1, SameSeq
  <2> QED
    BY <2>1, <2>2
<1>6. ASSUME y = <<>>
      PROVE  Tiles(z, s, a, c)
  <2>1. b = c /\ Len(z) = Len(x) /\ \A i \in 1..Len(z) : z[i] = x[i]
    BY <1>2, <1>3, <1>6 DEF Tiles
  <2>2. z = x
    BY <1>1, <1>2, <2>1, SameSeq
  <2> QED
    BY <2>1, <2>2
<1>7. ASSUME x # <<>>, y # <<>>
      PROVE  Tiles(z, s, a, c)
  <2>1. Len(x) \in Nat \ {0} /\ Len(y) \in Nat \ {0}
    BY <1>2, <1>3, <1>7
  <2>2. /\ z # <<>> /\ z[1] = x[1] /\ z[Len(z)] = y[Len(y)]
        /\ x[1].from = a /\ x[Len(x)].to = b /\ y[1].from = b /\ y[Len(y)].to = c
    <3>1. 1 \in 1..Len(z) /\ Len(z) \in 1..Len(z) /\ 1 <= Len(x) /\ ~ Len(z) <= Len(x) /\ Len(z) - Len(x) = Len(y)
      BY <1>2, <2>1
    <3>2. z[1] = x[1] /\ z[Len(z)] = y[Len(y)] /\ z # <<>>
      BY <1>2, <1>3, <2>1, <3>1
    <3> QED
      BY <1>7, <3>2 DEF Tiles
  <2>3. \A i \in 1..(Len(z) - 1) : z[i + 1].from = z[i].to
    <3> SUFFICES ASSUME NEW i \in 1..(Len(z) - 1) PROVE z[i + 1].from = z[i].to
      OBVIOUS
    <3>1. i \in 1..Len(z) /\ i + 1 \in 1..Len(z)
      BY <1>2
    <3>2. CASE i < Len(x)
      <4>1. i \in 1..(Len(x) - 1) /\ z[i] = x[i] /\ z[i + 1] = x[i + 1]
        BY <1>2, <3>1, <3>2
      <4> QED
        BY <4>1 DEF Tiles
    <3>3. CASE i = Len(x)
      <4>1. z[i] = x[Len(x)] /\ z[i + 1] = y[1]
        BY <1>2, <3>1, <3>3
      <4> QED
        BY <2>2, <4>1
    <3>4. CASE i > Len(x)
      <4> DEFINE k == i - Len(x)
      <4>1. k \in 1..(Len(y) - 1) /\ z[i] = y[k] /\ z[i + 1] = y[k + 1]
        <5>1. k \in 1..(Len(y) - 1) /\ ~ i <= Len(x) /\ ~ i + 1 <= Len(x) /\ i + 1 - Len(x) = k + 1
          BY <1>2, <3>1, <3>4
        <5>2. z[i] = y[i - Len(x)] /\ z[i + 1] = y[i + 1 - Len(x)]
          BY <1>2, <3>1, <5>1
        <5> QED
          BY <5>1, <5>2
      <4> HIDE DEF k
      <4> QED
        BY <4>1 DEF Tiles
    <3> QED
      BY <1>2, <3>1, <3>2, <3>3, <3>4
  <2>4. IsCut(s, a) /\ IsCut(s, c)
    BY DEF Tiles
  <2> QED
    BY <1>2, <1>4, <2>2, <2>3, <2>4 DEF Tiles
<1> QED
  BY <1>5, <1>6, <1>7 DEF z

\* So splits cover what they did.
LEMMA TilesStay ==
  ASSUME NEW s \in Strings, NEW t \in Strings, NEW x, NEW a, NEW b, Tiles(x, s, a, b)
  PROVE  Tiles(x, s \o t, a, b)
<1>1. \A c : IsCut(s, c) => IsCut(s \o t, c)
  BY CutStays
<1>2. \A sp : FitsText(s, sp) => FitsText(s \o t, sp)
  BY <1>1 DEF FitsText
<1> QED
  BY <1>1, <1>2 DEF Tiles

\* Splits that cover each of some splits cover what these do.
LEMMA TilesFlatten ==
  ASSUME NEW s, NEW sps, NEW a, NEW b, Tiles(sps, s, a, b), NEW w \in Seq(Seq(TextSplits)), Len(w) = Len(sps),
         \A i \in 1..Len(sps) : Tiles(w[i], s, sps[i].from, sps[i].to)
  PROVE  Tiles(FlattenSeq(w), s, a, b)
<1> DEFINE n == Len(sps)
           end(k) == IF k = 0 THEN a ELSE sps[k].to
           S == {k \in 0..n : Tiles(FlattenSeq(First(w, k)), s, a, end(k))}
<1>1. n \in Nat /\ sps \in Seq(TextSplits)
  BY DEF Tiles
<1>2. ASSUME NEW k \in 0..n
      PROVE  First(w, k) \in Seq(Seq(TextSplits))
  <2>1. Cuts(Seq(TextSplits), w, k, k)
    BY <1>1, FirstSplits
  <2> QED
    BY <2>1 DEF Cuts
<1>3. 0 \in S
  <2>1. First(w, 0) \in Seq(Seq(TextSplits)) /\ Len(First(w, 0)) = 0 /\ First(w, 0) = <<>>
    BY <1>1, <1>2 DEF First
  <2>2. FlattenSeq(First(w, 0)) = <<>>
    BY <2>1, FlattenOfNone
  <2>3. Tiles(<<>>, s, a, a)
    BY TilesNone DEF Tiles
  <2> QED
    BY <1>1, <2>2, <2>3
<1>4. ASSUME NEW k \in Nat, k < n, k \in S
      PROVE  k + 1 \in S
  <2>1. k + 1 \in 1..n /\ k + 1 \in 1..Len(w) /\ (k + 1) - 1 = k /\ k \in 0..n /\ k + 1 \in 0..n /\ k + 1 # 0
    BY <1>1, <1>4
  <2>2. First(w, k + 1) = Append(First(w, k), w[k + 1])
    BY <2>1, FirstGrows
  <2>3. FlattenSeq(First(w, k + 1)) = FlattenSeq(First(w, k)) \o w[k + 1]
    <3>1. First(w, k) \in Seq(Seq(TextSplits)) /\ w[k + 1] \in Seq(TextSplits)
      BY <1>2, <2>1
    <3> QED
      BY <2>2, <3>1, FlattenAppend
  <2>4. end(k) = sps[k + 1].from
    <3>1. CASE k = 0
      <4>1. sps # <<>>
        BY <1>1, <1>4
      <4> QED
        BY <3>1, <4>1 DEF Tiles
    <3>2. CASE k # 0
      <4>1. k \in 1..(n - 1)
        BY <1>1, <1>4, <3>2
      <4> QED
        BY <3>2, <4>1 DEF Tiles
    <3> QED
      BY <3>1, <3>2
  <2>5. Tiles(FlattenSeq(First(w, k)), s, a, end(k))
    BY <1>4
  <2> HIDE DEF end
  <2>6. Tiles(w[k + 1], s, end(k), sps[k + 1].to)
    BY <2>1, <2>4
  <2>7. Tiles(FlattenSeq(First(w, k)) \o w[k + 1], s, a, sps[k + 1].to)
    BY <2>5, <2>6, TilesJoin
  <2> QED
    BY <2>1, <2>3, <2>7 DEF end
<1> HIDE DEF S
<1>5. n \in S
  BY <1>1, <1>3, <1>4, UpTo
<1>6. First(w, n) = w
  BY FirstAll
<1>7. end(n) = b
  <2>1. CASE n = 0
    <3>1. sps = <<>>
      BY <1>1, <2>1, EmptySeq
    <3> QED
      BY <2>1, <3>1 DEF Tiles
  <2>2. CASE n # 0
    <3>1. sps # <<>>
      BY <1>1, <2>2
    <3> QED
      BY <2>2, <3>1 DEF Tiles
  <2> QED
    BY <2>1, <2>2
<1> QED
  BY <1>5, <1>6, <1>7 DEF S

\* A split for each of the texts that follow one another from a place on.
SideBySide(parts, from) ==
  LET Until(n) == from + Len(FlattenSeq(SubSeq(parts, 1, n)))
  IN  [n \in DOMAIN parts |-> [from |-> Until(n - 1), to |-> Until(n), id |-> NoToken]]

\* The splits for texts that follow one another cover what these are.
LEMMA SidesTile ==
  ASSUME NEW s \in Strings, NEW sp \in TextSplits, FitsText(s, sp), NEW parts \in Seq(Strings),
         FlattenSeq(parts) = SubSeq(s, sp.from, sp.to - 1)
  PROVE  Tiles(SideBySide(parts, sp.from), s, sp.from, sp.to)
<1> DEFINE m == Len(parts)
           a == sp.from
           text == SubSeq(s, a, sp.to - 1)
           pre(k) == FlattenSeq(First(parts, k))
           until(k) == a + Len(pre(k))
           all == SideBySide(parts, a)
<1>1. /\ s \in Seq(Bytes) /\ Len(s) \in Nat /\ m \in Nat /\ DOMAIN parts = 1..m
      /\ a \in 1..Len(s) + 1 /\ sp.to \in 1..Len(s) + 1 /\ a <= sp.to /\ IsCut(s, a) /\ IsCut(s, sp.to)
      /\ \A k \in 1..m : parts[k] \in Strings /\ parts[k] \in Seq(Bytes)
  <2>1. s \in Seq(Bytes)
    BY DEF Strings
  <2>2. /\ a \in 1..Len(s) + 1 /\ sp.to \in 1..Len(s) + 1 /\ a <= sp.to
        /\ IsCut(s, a) /\ IsCut(s, sp.to)
    BY DEF FitsText, IsCut
  <2>3. \A k \in 1..m : parts[k] \in Strings
    OBVIOUS
  <2> QED
    BY <2>1, <2>2, <2>3 DEF Strings
<1>2. parts \in Seq(Seq(Bytes))
  <2>1. Strings \subseteq Seq(Bytes)
    BY DEF Strings
  <2> QED
    BY <2>1, WiderSeq
<1>3. FlattenSeq(parts) = text /\ Len(text) = sp.to - a /\ text \in Seq(Bytes)
  <2> DEFINE b == sp.to
  <2>1. FlattenSeq(parts) = text
    OBVIOUS
  <2> HIDE DEF a, b
  <2>2. SubSeq(s, a, b - 1) \in Seq(Bytes) /\ Len(SubSeq(s, a, b - 1)) = b - a
    BY <1>1 DEF b
  <2> QED
    BY <2>1, <2>2 DEF b
<1> HIDE DEF a, m, all
<1>4. ASSUME NEW k \in 0..m
      PROVE  First(parts, k) \in Seq(Seq(Bytes)) /\ pre(k) \in Seq(Bytes) /\ Len(pre(k)) \in 0..Len(text)
             /\ SubSeq(text, 1, Len(pre(k))) = pre(k) /\ First(parts, k) = SubSeq(parts, 1, k)
  <2>1. k \in Nat /\ k <= Len(parts) /\ Len(parts) <= Len(parts) /\ Len(parts) \in Nat
    BY <1>1 DEF m
  <2>2. First(parts, k) \in Seq(Seq(Bytes)) /\ Middle(parts, k, Len(parts)) \in Seq(Seq(Bytes))
        /\ parts = First(parts, k) \o Middle(parts, k, Len(parts))
    <3>1. Cuts(Seq(Bytes), parts, k, Len(parts))
      BY <1>2, <2>1, FirstSplits
    <3>2. First(parts, Len(parts)) = parts
      BY <1>2, FirstAll
    <3> QED
      BY <3>1, <3>2 DEF Cuts
  <2> DEFINE x == FlattenSeq(First(parts, k))
             y == FlattenSeq(Middle(parts, k, Len(parts)))
  <2>3. x \in Seq(Bytes) /\ y \in Seq(Bytes) /\ text = x \o y
    <3>1. FlattenSeq(First(parts, k) \o Middle(parts, k, Len(parts))) = x \o y
      BY <2>2, FlattenConcat
    <3> QED
      BY <1>3, <2>2, <3>1, FlattenType
  <2>4. First(parts, k) = SubSeq(parts, 1, k)
    <3>1. 1 <= k + 1
      BY <2>1
    <3> QED
      BY <1>1, <2>1 DEF First, m
  <2> HIDE DEF x, y, text
  <2>5. Len(x) \in 0..Len(x \o y) /\ SubSeq(x \o y, 1, Len(x)) = x
    BY <2>3
  <2> QED
    BY <2>2, <2>3, <2>4, <2>5 DEF x
<1>5. pre(0) = <<>> /\ pre(m) = text
  <2>1. 0 \in 0..m /\ m \in 0..m
    BY <1>1
  <2>2. First(parts, m) = parts
    BY <1>2, FirstAll DEF m
  <2>3. First(parts, 0) \in Seq(Seq(Bytes)) /\ Len(First(parts, 0)) = 0 /\ First(parts, 0) = <<>>
    BY <1>4, <2>1 DEF First
  <2>4. FlattenSeq(<<>>) = <<>>
    BY FlattenOfNone
  <2> QED
    BY <1>3, <2>2, <2>3, <2>4
<1>6. ASSUME NEW k \in 1..m
      PROVE  pre(k) = pre(k - 1) \o parts[k]
  <2>1. k \in 1..Len(parts) /\ k - 1 \in 0..m
    BY <1>1 DEF m
  <2>2. First(parts, k) = Append(First(parts, k - 1), parts[k])
    BY <1>2, <2>1, FirstGrows
  <2>3. First(parts, k - 1) \in Seq(Seq(Bytes)) /\ parts[k] \in Seq(Bytes)
    BY <1>1, <1>4, <2>1
  <2> QED
    BY <2>2, <2>3, FlattenAppend
<1> DEFINE S == {k \in 0..m : pre(k) \in Strings}
<1>7. 0 \in S
  <2>1. <<>> \in Strings
    BY NothingIsText DEF Strings, IsText
  <2>2. 0 \in 0..m /\ pre(0) \in Strings
    BY <1>1, <1>5, <2>1
  <2> HIDE DEF pre
  <2> QED
    BY <2>2
<1>8. ASSUME NEW k \in Nat, k < m, k \in S
      PROVE  k + 1 \in S
  <2>1. k + 1 \in 1..m /\ (k + 1) - 1 = k /\ k + 1 \in 0..m
    BY <1>1, <1>8
  <2>2. pre(k + 1) = pre(k) \o parts[k + 1] /\ pre(k) \in Strings /\ parts[k + 1] \in Strings
    <3>1. pre(k + 1) = pre((k + 1) - 1) \o parts[k + 1]
      BY <1>6, <2>1
    <3> HIDE DEF pre
    <3> QED
      BY <1>1, <1>8, <2>1, <3>1
  <2> DEFINE x == pre(k)
             y == parts[k + 1]
  <2> HIDE DEF pre
  <2>3. pre(k + 1) \in Strings
    <3>1. x \in Strings /\ y \in Strings /\ pre(k + 1) = x \o y
      BY <2>2
    <3> HIDE DEF x, y
    <3>2. x \o y \in Strings
      BY <3>1, CutStays
    <3> QED
      BY <3>1, <3>2
  <2> QED
    BY <2>1, <2>3
<1>9. ASSUME NEW k \in 0..m
      PROVE  pre(k) \in Strings
  <2> HIDE DEF S, pre
  <2>1. k \in Nat /\ \A j \in Nat : j < k /\ j \in S => j + 1 \in S
    BY <1>1, <1>8
  <2>2. k \in S
    BY <1>7, <2>1, UpTo
  <2> QED
    BY <2>2 DEF S
<1> HIDE DEF S
<1>10. ASSUME NEW k \in 0..m
       PROVE  IsCut(s, until(k)) /\ until(k) \in Nat /\ until(k) <= sp.to
  <2> DEFINE x == pre(k)
  <2>1. x \in Strings /\ x \in Seq(Bytes) /\ Len(x) \in 0..Len(text) /\ SubSeq(text, 1, Len(x)) = x
    BY <1>4, <1>9
  <2> HIDE DEF x, text
  <2>2. Len(x) \in Nat /\ a + Len(x) <= sp.to /\ a + Len(x) \in 1..Len(s) + 1
    BY <1>1, <1>3, <2>1
  <2>3. CASE x = <<>>
    <3>1. a + Len(x) = a
      BY <1>1, <2>3
    <3> QED
      BY <1>1, <2>2, <3>1 DEF x
  <2>4. CASE x # <<>>
    <3>1. LiesAt(s, x, a)
      <4> DEFINE c == Len(x)
                 b == sp.to - 1
      <4>1. c \in Nat /\ a + c - 1 <= b /\ b <= Len(s) /\ a \in Nat \ {0} /\ b \in Nat /\ b = a + (sp.to - a) - 1
        BY <1>1, <2>2
      <4>2. text = SubSeq(s, a, b)
        BY DEF text, a
      <4> HIDE DEF c, b
      <4>3. SubSeq(SubSeq(s, a, b), 1, c) = SubSeq(s, a, a + c - 1)
        BY <1>1, <4>1
      <4>4. SubSeq(s, a, a + c - 1) = x
        BY <2>1, <4>2, <4>3 DEF c
      <4>5. a + c - 1 <= Len(s)
        BY <1>1, <4>1
      <4> QED
        BY <4>4, <4>5 DEF LiesAt, c
    <3>2. a \in Nat \ {0}
      BY <1>1
    <3>3. IsBoundary(s, a + Len(x))
      BY <2>1, <2>4, <3>1, <3>2, TextAligned
    <3> QED
      BY <2>2, <3>3 DEF IsCut, x
  <2> QED
    BY <2>3, <2>4
<1>11. ASSUME NEW k \in 1..m
       PROVE  until(k - 1) <= until(k)
  <2> DEFINE x == pre(k - 1)
             y == parts[k]
  <2>1. x \in Seq(Bytes) /\ y \in Seq(Bytes) /\ pre(k) = x \o y
    <3>1. k - 1 \in 0..m
      BY <1>1
    <3> QED
      BY <1>1, <1>4, <1>6, <3>1
  <2> HIDE DEF x, y
  <2>2. Len(x \o y) = Len(x) + Len(y) /\ Len(x) \in Nat /\ Len(y) \in Nat
    BY <2>1
  <2>3. a + Len(x) <= a + Len(x \o y)
    BY <1>1, <2>2
  <2> QED
    BY <2>1, <2>3 DEF x
<1>12. until(0) = a /\ until(m) = sp.to
  <2>1. Len(pre(0)) = 0 /\ Len(pre(m)) = sp.to - a
    BY <1>3, <1>5
  <2>2. a + 0 = a /\ a + (sp.to - a) = sp.to
    BY <1>1
  <2> HIDE DEF pre
  <2> QED
    BY <2>1, <2>2
<1>13. /\ DOMAIN all = 1..m
       /\ \A k \in 1..m : all[k] = [from |-> until(k - 1), to |-> until(k), id |-> NoToken]
  <2> DEFINE cut(k) == a + Len(FlattenSeq(SubSeq(parts, 1, k)))
  <2>1. all = [k \in DOMAIN parts |-> [from |-> cut(k - 1), to |-> cut(k), id |-> NoToken]]
    BY Zenon DEF all, SideBySide
  <2>2. \A k \in 0..m : cut(k) = until(k)
    BY <1>4
  <2>3. \A k \in 1..m : k - 1 \in 0..m /\ k \in 0..m
    BY <1>1
  <2> HIDE DEF cut, until
  <2> QED
    BY <1>1, <2>1, <2>2, <2>3
<1> HIDE DEF until, pre, text
<1>14. ASSUME NEW k \in 1..m
       PROVE  /\ all[k] \in TextSplits /\ FitsText(s, all[k])
              /\ all[k].from = until(k - 1) /\ all[k].to = until(k)
  <2>1. k - 1 \in 0..m /\ k \in 0..m
    BY <1>1
  <2>2. /\ until(k - 1) \in Nat /\ until(k) \in Nat /\ IsCut(s, until(k - 1)) /\ IsCut(s, until(k))
        /\ until(k - 1) <= until(k)
    BY <1>10, <1>11, <2>1
  <2> QED
    BY <1>13, <2>2 DEF TextSplits, FitsText
<1>15. all \in Seq(TextSplits) /\ Len(all) = m
  <2>1. all = [k \in DOMAIN all |-> all[k]]
    BY <1>13, Zenon DEF all, SideBySide
  <2>2. all \in [1..m -> TextSplits]
    BY <1>13, <1>14, <2>1
  <2> QED
    BY <1>1, <2>2, Tabled
<1>16. all # <<>> => all[1].from = a /\ all[m].to = sp.to
  <2> SUFFICES ASSUME all # <<>> PROVE all[1].from = a /\ all[m].to = sp.to
    OBVIOUS
  <2>1. 1 \in 1..m /\ m \in 1..m /\ 1 - 1 = 0
    BY <1>1, <1>15, EmptySeq
  <2> QED
    BY <1>12, <1>14, <2>1
<1>17. all = <<>> => a = sp.to
  <2> SUFFICES ASSUME all = <<>> PROVE a = sp.to
    OBVIOUS
  <2>1. m = 0
    BY <1>15
  <2> QED
    BY <1>12, <2>1
<1>18. \A k \in 1..(m - 1) : all[k + 1].from = all[k].to
  <2> SUFFICES ASSUME NEW k \in 1..(m - 1) PROVE all[k + 1].from = all[k].to
    OBVIOUS
  <2>1. k \in 1..m /\ k + 1 \in 1..m /\ (k + 1) - 1 = k
    BY <1>1
  <2> QED
    BY <1>14, <2>1
<1>19. Tiles(all, s, a, sp.to)
  BY <1>1, <1>14, <1>15, <1>16, <1>17, <1>18 DEF Tiles
<1> QED
  BY <1>19 DEF all, a

\* Places from the first element to the end.
Ordered(at, n) ==
  /\ at \in Seq(Nat) /\ Len(at) \in Nat \ {0} /\ at[1] = 1 /\ at[Len(at)] = n + 1
  /\ \A i \in 1..Len(at) : at[i] \in 1..n + 1
  /\ \A i \in 1..(Len(at) - 1) : at[i] < at[i + 1]

\* Of some places, the first among them, and the place after the last.
LEMMA PlacesOrdered ==
  ASSUME NEW n \in Nat, NEW places \in SUBSET (1..n), n > 0 => 1 \in places
  PROVE  Ordered(Chosen([i \in 1..n |-> i], places) \o <<n + 1>>, n)
<1> DEFINE at == [i \in 1..n |-> i]
           x == Chosen(at, places)
           c == Cardinality(places)
           all == x \o <<n + 1>>
<1>1. n \in Nat /\ places \in SUBSET (1..n) /\ \A i \in places : at[i] = i
  OBVIOUS
<1>2. n > 0 => 1 \in places
  OBVIOUS
<1>3. n = 0 => places = {}
  BY <1>1
<1> HIDE DEF at
<1>5. /\ x \in Seq(1..n) /\ Len(x) = c /\ c \in Nat
      /\ \A k \in 1..c : Nth(places, k) \in places /\ x[k] = Nth(places, k) /\ x[k] \in 1..n
  <2>1. \A i \in places : at[i] \in 1..n
    BY <1>1
  <2>2. /\ x \in Seq(1..n) /\ Len(x) = c
        /\ \A k \in 1..Len(x) : Nth(places, k) \in places /\ x[k] = at[Nth(places, k)]
    <3> DEFINE U == 1..n
    <3>1. \A i \in places : at[i] \in U
      BY <2>1
    <3> HIDE DEF U
    <3>2. x \in Seq(U) /\ Len(x) = c /\ \A k \in 1..Len(x) : Nth(places, k) \in places /\ x[k] = at[Nth(places, k)]
      BY <1>1, <3>1, ChosenType
    <3> QED
      BY <3>2 DEF U
  <2>3. c \in Nat
    BY <1>1, NthIs
  <2> HIDE DEF x, c
  <2> QED
    BY <1>1, <2>1, <2>2, <2>3
<1>6. \A k \in 1..(c - 1) : x[k] < x[k + 1]
  <2> SUFFICES ASSUME NEW k \in 1..(c - 1) PROVE x[k] < x[k + 1]
    OBVIOUS
  <2>1. k \in 1..c /\ k + 1 \in 1..c /\ k < k + 1
    BY <1>5
  <2>2. Nth(places, k) < Nth(places, k + 1)
    BY <1>1, <2>1, NthGrows
  <2> QED
    BY <1>5, <2>1, <2>2
<1>7. c > 0 => x[1] = 1
  <2> SUFFICES ASSUME c > 0 PROVE x[1] = 1
    OBVIOUS
  <2>1. 1 \in 1..c /\ Nth(places, 1) \in places /\ Cardinality({j \in places : j <= Nth(places, 1)}) = 1
    <3>1. 1 \in 1..c
      BY <1>5
    <3> QED
      BY <1>1, <3>1, NthIs
  <2>2. 1 \in places
    <3>1. n # 0
      <4>1. ASSUME n = 0 PROVE FALSE
        <5>1. c = 0
          BY <1>3, <4>1, FS_EmptySet
        <5> QED
          BY <5>1
      <4> QED
        BY <4>1
    <3> QED
      BY <1>1, <1>2, <3>1
  <2> DEFINE first == Nth(places, 1)
             upto == {j \in places : j <= first}
  <2> HIDE DEF first
  <2>3. upto \subseteq 1..n /\ 1 \in upto /\ first \in upto
    <3>1. first \in places
      BY <2>1 DEF first
    <3>2. places \subseteq Nat /\ \A j \in places : 1 <= j
      BY <1>1
    <3> QED
      <4>1. 1 <= first /\ first <= first
        BY <3>1, <3>2
      <4> QED
        BY <1>1, <2>2, <3>1, <4>1
  <2>4. IsFiniteSet(upto)
    <3>1. IsFiniteSet(1..n)
      BY <1>1, FS_Interval
    <3> HIDE DEF upto
    <3> QED
      BY <2>3, <3>1, FS_Subset
  <2>5. Cardinality(upto) = 1
    BY <2>1 DEF first
  <2> HIDE DEF upto
  <2>6. \A a, b \in upto : a = b
    <3>1. PICK z : upto = {z}
      BY <2>4, <2>5, FS_Singleton
    <3> QED
      BY <3>1
  <2> QED
    BY <1>5, <2>1, <2>3, <2>6 DEF first
<1>8. c = 0 => n = 0
  <2>1. ASSUME c = 0, n > 0 PROVE FALSE
    <3>1. IsFiniteSet(places)
      <4>1. IsFiniteSet(1..n) /\ places \subseteq 1..n
        BY <1>1, FS_Interval
      <4> QED
        BY <4>1, FS_Subset
    <3>2. places = {}
      BY <2>1, <3>1, FS_EmptySet
    <3> QED
      BY <1>2, <2>1, <3>2
  <2> QED
    BY <1>1, <2>1
<1> HIDE DEF x, c
<1>9. /\ Len(all) = c + 1
      /\ \A i \in 1..Len(all) : all[i] = IF i <= c THEN x[i] ELSE n + 1
  <2>1. x \in Seq(Nat) /\ <<n + 1>> \in Seq(Nat) /\ Len(<<n + 1>>) = 1 /\ <<n + 1>>[1] = n + 1
    <3>1. x \in Seq(Nat)
      <4>1. 1..n \subseteq Nat
        BY <1>1
      <4> QED
        BY <1>5, <4>1
    <3> QED
      BY <1>1, <3>1
  <2> DEFINE y == <<n + 1>>
  <2> HIDE DEF y
  <2>2. /\ Len(x \o y) = Len(x) + Len(y)
        /\ \A i \in 1..Len(x \o y) : (x \o y)[i] = IF i <= Len(x) THEN x[i] ELSE y[i - Len(x)]
    BY <2>1, ConcatProperties DEF y
  <2>3. Len(y) = 1 /\ y[1] = n + 1
    BY <2>1 DEF y
  <2>4. \A i \in 1..c + 1 : ~ i <= c => i - c = 1
    BY <1>5
  <2> QED
    BY <1>5, <2>2, <2>3, <2>4 DEF y
<1>10. all \in Seq(Nat)
  <2>1. x \in Seq(1..n) /\ 1..n \subseteq Nat /\ n + 1 \in Nat
    BY <1>1, <1>5
  <2>2. \A z \in Seq(1..n) : z \in Seq(Nat)
    <3> DEFINE U == 1..n
    <3>1. U \subseteq Nat
      BY <2>1
    <3> HIDE DEF U
    <3>2. \A z \in Seq(U) : z \in Seq(Nat)
      BY <3>1, WiderSeq
    <3> QED
      BY <3>2 DEF U
  <2> QED
    BY <2>1, <2>2
<1> HIDE DEF all
<1>11. /\ Len(all) \in Nat \ {0} /\ all[1] = 1 /\ all[Len(all)] = n + 1
       /\ \A i \in 1..Len(all) : all[i] \in 1..n + 1
  <2>1. Len(all) \in Nat \ {0} /\ 1 \in 1..Len(all) /\ Len(all) \in 1..Len(all) /\ ~ Len(all) <= c /\ (1 <= c <=> c > 0)
    BY <1>5, <1>9
  <2>2. all[1] = 1
    BY <1>5, <1>7, <1>8, <1>9, <2>1
  <2>3. all[Len(all)] = n + 1
    BY <1>9, <2>1
  <2>4. \A i \in 1..Len(all) : all[i] \in 1..n + 1
    BY <1>1, <1>5, <1>9
  <2> QED
    BY <2>1, <2>2, <2>3, <2>4
<1>12. \A i \in 1..(Len(all) - 1) : all[i] < all[i + 1]
  <2> SUFFICES ASSUME NEW i \in 1..(Len(all) - 1) PROVE all[i] < all[i + 1]
    OBVIOUS
  <2>1. i \in 1..c /\ i \in 1..Len(all) /\ i + 1 \in 1..Len(all) /\ all[i] = x[i]
    BY <1>5, <1>9
  <2>2. CASE i < c
    BY <1>5, <1>6, <1>9, <2>1, <2>2
  <2>3. CASE i = c
    BY <1>1, <1>5, <1>9, <2>1, <2>3
  <2> QED
    BY <1>5, <2>1, <2>2, <2>3
<1> QED
  BY <1>10, <1>11, <1>12 DEF Ordered, all, x, at

\* The texts between places.
TextsAt(cps, at) == [n \in 1..(Len(at) - 1) |-> Str(SubSeq(cps, at[n], at[n + 1] - 1))]

\* What is between such places are texts, and together they are the text.
LEMMA TextsBetween ==
  ASSUME NEW cps \in Seq(CodePoints), NEW at, Ordered(at, Len(cps))
  PROVE  TextsAt(cps, at) \in Seq(Strings) /\ FlattenSeq(TextsAt(cps, at)) = Str(cps)
<1> DEFINE n == Len(cps)
           m == Len(at) - 1
           w == TextsAt(cps, at)
           piece(i) == SubSeq(cps, at[i], at[i + 1] - 1)
<1>1. /\ n \in Nat /\ m \in Nat /\ at[1] = 1 /\ at[m + 1] = n + 1
      /\ \A i \in 1..m + 1 : at[i] \in 1..n + 1
      /\ \A i \in 1..m : at[i] < at[i + 1]
  BY DEF Ordered
<1>2. \A i \in 1..m : w[i] = Str(piece(i))
  BY DEF TextsAt
<1>3. \A i \in 1..m : piece(i) \in Seq(CodePoints) /\ w[i] \in Strings /\ w[i] \in Seq(Bytes)
  <2> SUFFICES ASSUME NEW i \in 1..m PROVE piece(i) \in Seq(CodePoints) /\ w[i] \in Strings /\ w[i] \in Seq(Bytes)
    OBVIOUS
  <2> DEFINE a == at[i]
             b == at[i + 1]
  <2>1. a \in 1..n + 1 /\ b \in 1..n + 1 /\ a < b
    BY <1>1
  <2> HIDE DEF a, b
  <2>2. SubSeq(cps, a, b - 1) \in Seq(CodePoints)
    BY <2>1
  <2>3. piece(i) \in Seq(CodePoints)
    BY <2>2 DEF a, b
  <2> HIDE DEF piece, w
  <2>4. w[i] \in Strings
    BY <1>2, <2>3, StringsAre
  <2> QED
    BY <2>3, <2>4 DEF Strings
<1>4. w \in Seq(Strings) /\ w \in Seq(Seq(Bytes)) /\ Len(w) = m
  <2>1. DOMAIN w = 1..m
    BY DEF TextsAt
  <2>2. w \in [1..m -> Strings] /\ w \in [1..m -> Seq(Bytes)]
    <3>1. w = [i \in 1..m |-> w[i]]
      BY DEF TextsAt
    <3> HIDE DEF w, m, piece
    <3> QED
      BY <1>3, <2>1, <3>1
  <2> HIDE DEF w, m
  <2> QED
    BY <1>1, <2>2, Tabled
<1> HIDE DEF w, m, piece
<1> DEFINE S == {k \in 0..m : FlattenSeq(First(w, k)) = Str(SubSeq(cps, 1, at[k + 1] - 1))}
<1>5. 0 \in S
  <2>1. First(w, 0) = <<>>
    <3>1. First(w, 0) \in Seq(Seq(Bytes)) /\ Len(First(w, 0)) = 0
      <4>1. Cuts(Seq(Bytes), w, 0, 0)
        BY <1>1, <1>4, FirstSplits
      <4> QED
        BY <4>1 DEF Cuts
    <3> QED
      BY <3>1, EmptySeq
  <2>2. FlattenSeq(<<>>) = <<>>
    BY FlattenOfNone
  <2>3. SubSeq(cps, 1, at[0 + 1] - 1) = <<>>
    <3>1. at[0 + 1] - 1 = 0
      BY <1>1
    <3>2. SubSeq(cps, 1, 0) = <<>>
      OBVIOUS
    <3> QED
      BY <3>1, <3>2
  <2>4. FlattenSeq(First(w, 0)) = Str(SubSeq(cps, 1, at[0 + 1] - 1))
    BY <2>1, <2>2, <2>3, NothingIsText
  <2>5. 0 \in 0..m
    BY <1>1
  <2> QED
    BY <2>4, <2>5
<1>6. ASSUME NEW k \in Nat, k < m, k \in S
      PROVE  k + 1 \in S
  <2>1. k + 1 \in 1..Len(w) /\ (k + 1) - 1 = k /\ k + 1 \in 1..m /\ k \in 0..m /\ k + 1 \in 0..m /\ k + 2 \in 1..m + 1
        /\ (k + 1) + 1 = k + 2 /\ k <= Len(w)
    BY <1>1, <1>4, <1>6
  <2>2. First(w, k + 1) = Append(First(w, k), w[k + 1])
    BY <1>4, <2>1, FirstGrows
  <2>3. First(w, k) \in Seq(Seq(Bytes))
    <3>1. Cuts(Seq(Bytes), w, k, k)
      BY <1>1, <1>4, <2>1, FirstSplits
    <3> QED
      BY <3>1 DEF Cuts
  <2>4. FlattenSeq(First(w, k + 1)) = FlattenSeq(First(w, k)) \o w[k + 1]
    BY <1>3, <2>1, <2>2, <2>3, FlattenAppend
  <2> DEFINE a == at[k + 1] - 1
             b == at[k + 2] - 1
  <2>5. a \in 0..n /\ b \in a..n /\ a + 1 = at[k + 1]
    <3> DEFINE c == at[k + 1]
               d == at[k + 2]
    <3>1. c \in 1..n + 1 /\ d \in 1..n + 1
      BY <1>1, <2>1
    <3>2. c < d
      BY <1>1, <2>1
    <3> HIDE DEF c, d
    <3>3. c - 1 \in 0..n /\ d - 1 \in c - 1..n /\ (c - 1) + 1 = c
      BY <1>1, <3>1, <3>2
    <3> QED
      BY <3>3 DEF c, d
  <2>6. w[k + 1] = Str(SubSeq(cps, a + 1, b))
    BY <1>2, <2>1, <2>5 DEF piece
  <2>7. FlattenSeq(First(w, k)) = Str(SubSeq(cps, 1, a))
    BY <1>6
  <2> HIDE DEF a, b
  <2>8. SubSeq(cps, 1, a) \o SubSeq(cps, a + 1, b) = SubSeq(cps, 1, b)
    <3>1. Len(cps) \in Nat /\ 1 \in 1..Len(cps) + 1 /\ a \in 1 - 1..Len(cps) /\ b \in a..Len(cps)
      BY <1>1, <2>5 DEF n
    <3> QED
      BY <3>1, ConcatAdjacentSubSeq
  <2>9. AreCodePoints(SubSeq(cps, 1, a)) /\ AreCodePoints(SubSeq(cps, a + 1, b))
    <3>1. SubSeq(cps, 1, a) \in Seq(CodePoints) /\ SubSeq(cps, a + 1, b) \in Seq(CodePoints)
      BY <1>1, <2>5 DEF n
    <3> QED
      BY <3>1, CodePointSeqs
  <2>10. FlattenSeq(First(w, k + 1)) = Str(SubSeq(cps, 1, b))
    <3> DEFINE x == SubSeq(cps, 1, a)
               y == SubSeq(cps, a + 1, b)
    <3>1. AreCodePoints(x) /\ AreCodePoints(y) /\ x \o y = SubSeq(cps, 1, b)
      BY <2>8, <2>9
    <3>2. FlattenSeq(First(w, k + 1)) = Str(x) \o Str(y)
      BY <2>4, <2>6, <2>7
    <3> HIDE DEF x, y
    <3>3. Str(x \o y) = Str(x) \o Str(y)
      BY <3>1, TextConcat
    <3> QED
      BY <3>1, <3>2, <3>3
  <2> QED
    BY <2>1, <2>10 DEF b
<1> HIDE DEF S
<1>7. m \in S
  BY <1>1, <1>5, <1>6, UpTo
<1>8. First(w, m) = w /\ at[m + 1] - 1 = n
  BY <1>1, <1>4, FirstAll
<1>9. SubSeq(cps, 1, n) = cps
  BY <1>1, SubSeqFull DEF n
<1>10. FlattenSeq(w) = Str(cps)
  BY <1>7, <1>8, <1>9 DEF S
<1> QED
  BY <1>4, <1>10 DEF w

\* No two elements have one id, by place.
OneEach(configs, n) == \A i, j \in 1..n : configs[i].id = configs[j].id => i = j

\* Elements are chosen at different places.
LEMMA ChosenOnce ==
  ASSUME NEW s, NEW n \in Nat, NEW places \in SUBSET (1..n), OneEach(s, n)
  PROVE  /\ Len(Chosen(s, places)) \in Nat /\ DOMAIN Chosen(s, places) = 1..Len(Chosen(s, places))
         /\ OneEach(Chosen(s, places), Len(Chosen(s, places)))
<1> DEFINE c == Cardinality(places)
<1>1. /\ c \in Nat
      /\ \A k \in 1..c : Nth(places, k) \in places /\ Cardinality({j \in places : j <= Nth(places, k)}) = k
  BY NthIs
<1>2. Len(Chosen(s, places)) = c /\ DOMAIN Chosen(s, places) = 1..c
      /\ \A k \in 1..c : Chosen(s, places)[k] = s[Nth(places, k)]
  BY <1>1 DEF Chosen
<1> HIDE DEF c
<1>3. ASSUME NEW k \in 1..c, NEW m \in 1..c, Chosen(s, places)[k].id = Chosen(s, places)[m].id
      PROVE  k = m
  <2>1. Nth(places, k) = Nth(places, m)
    BY <1>1, <1>2, <1>3 DEF OneEach
  <2> QED
    BY <1>1, <2>1
<1> QED
  BY <1>1, <1>2, <1>3 DEF OneEach

\* What is chosen of ids is ids.
LEMMA ChosenIds ==
  ASSUME NEW s \in Seq(Nat), NEW places \in SUBSET (1..Len(s))
  PROVE  /\ Chosen(s, places) \in Seq(Nat) /\ Len(Chosen(s, places)) = Cardinality(places)
         /\ \A k \in 1..Cardinality(places) : Chosen(s, places)[k] = s[Nth(places, k)]
<1> DEFINE n == Len(s)
           U == Nat
<1>1. n \in Nat /\ places \in SUBSET (1..n) /\ \A i \in places : s[i] \in U
  OBVIOUS
<1> HIDE DEF n, U
<1>2. /\ Chosen(s, places) \in Seq(U) /\ Len(Chosen(s, places)) = Cardinality(places)
      /\ \A k \in 1..Len(Chosen(s, places)) : Nth(places, k) \in places /\ Chosen(s, places)[k] = s[Nth(places, k)]
  BY <1>1, ChosenType
<1> QED
  BY <1>2 DEF U

\* How many numbers are in a row.
LEMMA RowCard ==
  ASSUME NEW u \in Int, NEW v \in Int
  PROVE  Cardinality(u..v) = IF u > v THEN 0 ELSE v - u + 1
BY FS_Interval

\* What is chosen of a sequence at places in a row is what is there.
LEMMA ChosenRow ==
  ASSUME NEW s \in Seq(Nat), NEW list \in Seq(Nat), NEW a \in Nat, a + Len(list) <= Len(s),
         \A i \in 1..Len(list) : s[a + i] = list[i], NEW places, places = a + 1..a + Len(list)
  PROVE  Chosen(s, places) = list
<1> DEFINE n == Len(list)
           c == Chosen(s, places)
<1>1. n \in Nat /\ Len(s) \in Nat /\ places \in SUBSET (1..Len(s))
  OBVIOUS
<1>2. Cardinality(places) = n
  <2>1. a + 1 \in Int /\ a + n \in Int
    BY <1>1
  <2>2. Cardinality(a + 1..a + n) = IF a + 1 > a + n THEN 0 ELSE a + n - (a + 1) + 1
    BY <2>1, RowCard
  <2> QED
    BY <1>1, <2>2
<1>3. \A i \in places : s[i] \in Nat
  BY <1>1
<1>4. /\ c \in Seq(Nat) /\ Len(c) = n
      /\ \A k \in 1..n : c[k] = s[Nth(places, k)]
  <2>1. /\ Chosen(s, places) \in Seq(Nat) /\ Len(Chosen(s, places)) = Cardinality(places)
        /\ \A k \in 1..Cardinality(places) : Chosen(s, places)[k] = s[Nth(places, k)]
    BY <1>1, ChosenIds, Zenon
  <2> HIDE DEF c, n
  <2> QED
    BY <1>2, <2>1 DEF c
<1>5. ASSUME NEW k \in 1..n
      PROVE  Nth(places, k) = a + k
  <2> DEFINE m == Nth(places, k)
  <2>1. m \in places /\ Cardinality({j \in places : j <= m}) = k
    BY <1>1, <1>2, NthIs
  <2> HIDE DEF m
  <2>2. m \in a + 1..a + n /\ {j \in places : j <= m} = a + 1..m
    BY <1>1, <2>1
  <2>3. a + 1 \in Int /\ m \in Int
    BY <1>1, <2>2
  <2>4. Cardinality(a + 1..m) = IF a + 1 > m THEN 0 ELSE m - (a + 1) + 1
    BY <2>3, RowCard
  <2>5. m - a = k
    <3>1. k = IF a + 1 > m THEN 0 ELSE m - (a + 1) + 1
      BY <2>1, <2>2, <2>4
    <3> HIDE DEF n
    <3> QED
      BY <1>1, <2>2, <3>1
  <2> QED
    BY <1>1, <2>2, <2>5 DEF m
<1> HIDE DEF c
<1>6. \A k \in 1..Len(c) : c[k] = list[k]
  BY <1>4, <1>5
<1> QED
  BY <1>4, <1>6, SameSeq DEF c

\* One sequence after another begins with it.
LEMMA JoinBegins ==
  ASSUME NEW T, NEW a \in Seq(T), NEW b \in Seq(T)
  PROVE  Len(a \o b) = Len(a) + Len(b) /\ \A i \in 1..Len(a) : (a \o b)[i] = a[i]
<1>1. /\ Len(a \o b) = Len(a) + Len(b)
      /\ \A i \in 1..Len(a) + Len(b) : (a \o b)[i] = IF i <= Len(a) THEN a[i] ELSE b[i - Len(a)]
  BY ConcatProperties
<1>2. \A i \in 1..Len(a) : i <= Len(a) /\ i \in 1..Len(a) + Len(b)
  OBVIOUS
<1> QED
  BY <1>1, <1>2

=============================================================================
