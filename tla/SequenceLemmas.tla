--------------------------- MODULE SequenceLemmas ---------------------------
(***************************************************************************)
(* Ranges and concatenations, induction over an interval, functions that   *)
(* are defined by recursion over one, and FlattenSeq (SequencesExt), which *)
(* concatenates the sequences of a sequence: what the proofs of several    *)
(* components need of them.  What needs induction is shown by looking at   *)
(* the least number where it would fail.                                   *)
(***************************************************************************)
EXTENDS Selection, SequenceTheorems, WellFoundedInduction, TLAPS

LEMMA LeastNat ==
    ASSUME NEW S \in SUBSET Nat, S # {}
    PROVE  \E n \in S : \A m \in S : n <= m
<1>1. PICK n \in S : \A m \in S : ~(<<m, n>> \in OpToRel(<, Nat))
  BY NatLessThanWellFounded, WFMin
<1>2. \A m \in S : ~(m < n)
  BY <1>1 DEF OpToRel
<1> QED BY <1>2

LEMMA UpTo ==
    ASSUME NEW N \in Nat, NEW P, 0 \in P, \A n \in 1..N : n - 1 \in P => n \in P
    PROVE  0..N \subseteq P
<1> DEFINE Bad == {n \in 0..N : n \notin P}
<1>1. SUFFICES ASSUME Bad # {} PROVE FALSE
  OBVIOUS
<1>2. PICK n \in Bad : \A m \in Bad : n <= m
  <2>1. Bad \in SUBSET Nat
    OBVIOUS
  <2> HIDE DEF Bad
  <2> QED BY <1>1, <2>1, LeastNat
<1>3. n \in 1..N
  BY <1>2
<1>4. n - 1 \in 0..N /\ ~(n <= n - 1)
  BY <1>3
<1> QED BY <1>2, <1>3, <1>4

\* g is step applied N times, first to base.
Iterates(g, base, step, N) == g[0] = base /\ \A n \in 1..N : g[n] = step[n][g[n - 1]]

LEMMA IterationExists ==
    ASSUME NEW S, NEW N \in Nat, NEW base \in S, NEW step \in [1..N -> [S -> S]]
    PROVE  \E g \in [0..N -> S] : Iterates(g, base, step, N)
<1> DEFINE P == {n \in 0..N : \E g \in [0..n -> S] : Iterates(g, base, step, n)}
<1>1. 0 \in P
  <2>1. [i \in 0..0 |-> base] \in [0..0 -> S] /\ Iterates([i \in 0..0 |-> base], base, step, 0)
    BY DEF Iterates
  <2> QED BY <2>1
<1>2. ASSUME NEW n \in 1..N, n - 1 \in P PROVE n \in P
  <2>1. PICK g \in [0..(n - 1) -> S] : Iterates(g, base, step, n - 1)
    BY <1>2
  <2>2. n - 1 \in 0..(n - 1) /\ n \in 0..N
    OBVIOUS
  <2> DEFINE e == step[n][g[n - 1]]
             h == [i \in 0..n |-> IF i = n THEN e ELSE g[i]]
  <2>3. e \in S
    <3>1. g[n - 1] \in S
      BY <2>1, <2>2
    <3> QED BY <3>1
  <2> HIDE DEF e
  <2>4. h \in [0..n -> S]
    BY <2>1, <2>3
  <2>5. Iterates(h, base, step, n)
    <3>1. h[0] = base
      BY <2>1 DEF Iterates
    <3>2. ASSUME NEW i \in 1..n PROVE h[i] = step[i][h[i - 1]]
      <4>1. CASE i = n
        <5>1. h[i] = e /\ h[i - 1] = g[n - 1]
          BY <4>1
        <5> QED BY <4>1, <5>1 DEF e
      <4>2. CASE i # n
        <5>1. i \in 1..(n - 1) /\ h[i] = g[i] /\ h[i - 1] = g[i - 1]
          BY <4>2
        <5> QED BY <2>1, <5>1 DEF Iterates
      <4> QED BY <4>1, <4>2
    <3> HIDE DEF h
    <3> QED BY <3>1, <3>2 DEF Iterates
  <2> HIDE DEF h
  <2> QED BY <2>2, <2>4, <2>5
<1>3. N \in 0..N
  OBVIOUS
<1> HIDE DEF P
<1>4. N \in P
  BY <1>1, <1>2, <1>3, UpTo
<1> QED BY <1>4 DEF P

LEMMA RangeIs ==
    ASSUME NEW S, NEW s \in Seq(S)
    PROVE  /\ Len(s) \in Nat /\ DOMAIN s = 1..Len(s)
           /\ \A i \in 1..Len(s) : s[i] \in S /\ s[i] \in Range(s)
           /\ \A x \in Range(s) : \E i \in 1..Len(s) : x = s[i]
           /\ Range(s) \subseteq S
BY DEF Range

LEMMA RangeEmpty == Range(<<>>) = {}
BY DEF Range

LEMMA NoneInRange ==
    ASSUME NEW S, NEW s \in Seq(S), Range(s) = {}
    PROVE  s = <<>>
<1>1. Len(s) \in Nat /\ \A i \in 1..Len(s) : s[i] \in Range(s)
  BY RangeIs
<1>2. Len(s) = 0
  BY <1>1
<1> QED BY <1>2

LEMMA ConcatIs ==
    ASSUME NEW S, NEW s \in Seq(S), NEW t \in Seq(S)
    PROVE  /\ s \o t \in Seq(S)
           /\ Len(s \o t) = Len(s) + Len(t)
           /\ \A i \in 1..Len(s) : (s \o t)[i] = s[i]
           /\ \A i \in 1..Len(t) : (s \o t)[Len(s) + i] = t[i]
           /\ \A i \in 1..(Len(s) + Len(t)) : i \notin 1..Len(s) =>
                 i - Len(s) \in 1..Len(t) /\ (s \o t)[i] = t[i - Len(s)]
<1>1. Len(s) \in Nat /\ Len(t) \in Nat /\ s \o t \in Seq(S)
  OBVIOUS
<1>2. Len(s \o t) = Len(s) + Len(t)
  OBVIOUS
<1>3. \A i \in 1..Len(s) : (s \o t)[i] = s[i]
  BY <1>1
<1>4. \A i \in 1..(Len(s) + Len(t)) : i \notin 1..Len(s) =>
         i - Len(s) \in 1..Len(t) /\ (s \o t)[i] = t[i - Len(s)]
  BY <1>1
<1>5. ASSUME NEW i \in 1..Len(t) PROVE (s \o t)[Len(s) + i] = t[i]
  <2>1. Len(s) + i \in 1..(Len(s) + Len(t)) /\ Len(s) + i \notin 1..Len(s) /\ (Len(s) + i) - Len(s) = i
    BY <1>1
  <2> QED BY <1>4, <2>1
<1> QED BY <1>1, <1>2, <1>3, <1>4, <1>5

LEMMA RangeConcat ==
    ASSUME NEW S, NEW s \in Seq(S), NEW t \in Seq(S)
    PROVE  Range(s \o t) = Range(s) \cup Range(t)
<1>1. /\ Len(s) \in Nat /\ Len(t) \in Nat
      /\ \A i \in 1..Len(s) : s[i] \in Range(s)
      /\ \A i \in 1..Len(t) : t[i] \in Range(t)
      /\ \A x \in Range(s) : \E i \in 1..Len(s) : x = s[i]
      /\ \A x \in Range(t) : \E i \in 1..Len(t) : x = t[i]
  BY RangeIs
<1>2. /\ s \o t \in Seq(S) /\ Len(s \o t) = Len(s) + Len(t)
      /\ \A i \in 1..Len(s) : (s \o t)[i] = s[i]
      /\ \A i \in 1..Len(t) : (s \o t)[Len(s) + i] = t[i]
      /\ \A i \in 1..(Len(s) + Len(t)) : i \notin 1..Len(s) =>
            i - Len(s) \in 1..Len(t) /\ (s \o t)[i] = t[i - Len(s)]
  BY ConcatIs
<1>3. /\ \A i \in 1..(Len(s) + Len(t)) : (s \o t)[i] \in Range(s \o t)
      /\ \A x \in Range(s \o t) : \E i \in 1..(Len(s) + Len(t)) : x = (s \o t)[i]
  <2> DEFINE st == s \o t
  <2> HIDE DEF st
  <2>1. st \in Seq(S) /\ Len(st) = Len(s) + Len(t)
    BY <1>2 DEF st
  <2>2. /\ \A i \in 1..Len(st) : st[i] \in Range(st)
        /\ \A x \in Range(st) : \E i \in 1..Len(st) : x = st[i]
    BY <2>1, RangeIs
  <2> QED BY <2>1, <2>2 DEF st
<1>4. ASSUME NEW x \in Range(s \o t) PROVE x \in Range(s) \cup Range(t)
  <2>1. PICK i \in 1..(Len(s) + Len(t)) : x = (s \o t)[i]
    BY <1>3
  <2>2. CASE i \in 1..Len(s)
    BY <1>1, <1>2, <2>1, <2>2
  <2>3. CASE i \notin 1..Len(s)
    BY <1>1, <1>2, <2>1, <2>3
  <2> QED BY <2>2, <2>3
<1>5. ASSUME NEW x \in Range(s) PROVE x \in Range(s \o t)
  <2>1. PICK i \in 1..Len(s) : x = s[i]
    BY <1>1
  <2>2. i \in 1..(Len(s) + Len(t))
    BY <1>1
  <2> QED BY <1>2, <1>3, <2>1, <2>2
<1>6. ASSUME NEW x \in Range(t) PROVE x \in Range(s \o t)
  <2>1. PICK i \in 1..Len(t) : x = t[i]
    BY <1>1
  <2>2. Len(s) + i \in 1..(Len(s) + Len(t))
    BY <1>1
  <2> QED BY <1>2, <1>3, <2>1, <2>2
<1> QED BY <1>4, <1>5, <1>6

\* g adds up the first n sequences one after the other.
Adds(g, seqs, n) == \A i \in 1..n : g[i] = IF i = 1 THEN seqs[1] ELSE g[i - 1] \o seqs[i]

LEMMA AddsExists ==
    ASSUME NEW D, NEW seqs \in Seq(Seq(D))
    PROVE  \A n \in 0..Len(seqs) : \E g \in [1..n -> Seq(D)] : Adds(g, seqs, n)
<1> DEFINE Good(n) == \E g \in [1..n -> Seq(D)] : Adds(g, seqs, n)
           Bad == {n \in 0..Len(seqs) : ~Good(n)}
<1>0. Len(seqs) \in Nat /\ \A i \in 1..Len(seqs) : seqs[i] \in Seq(D)
  OBVIOUS
<1>1. SUFFICES ASSUME Bad # {} PROVE FALSE
  OBVIOUS
<1>2. Bad \in SUBSET Nat
  BY <1>0
<1>3. PICK n \in Bad : \A m \in Bad : n <= m
  <2> HIDE DEF Bad
  <2> QED BY <1>1, <1>2, LeastNat
<1>4. n \in 0..Len(seqs) /\ ~Good(n)
  BY <1>3
<1>5. n # 0
  <2>1. [i \in 1..0 |-> <<>>] \in [1..0 -> Seq(D)] /\ Adds([i \in 1..0 |-> <<>>], seqs, 0)
    BY DEF Adds
  <2> QED BY <1>4, <2>1
<1>6. Good(n - 1)
  <2>1. n - 1 \in 0..Len(seqs) /\ ~(n <= n - 1)
    BY <1>0, <1>4, <1>5
  <2>2. n - 1 \notin Bad
    BY <1>3, <2>1
  <2> HIDE DEF Good
  <2> QED BY <2>1, <2>2
<1>7. PICK g \in [1..(n - 1) -> Seq(D)] : Adds(g, seqs, n - 1)
  BY <1>6
<1> DEFINE e == IF n = 1 THEN seqs[1] ELSE g[n - 1] \o seqs[n]
           h == [i \in 1..n |-> IF i = n THEN e ELSE g[i]]
<1>8. e \in Seq(D)
  <2>1. n \in 1..Len(seqs)
    BY <1>0, <1>4, <1>5
  <2>2. CASE n = 1
    BY <1>0, <2>1, <2>2
  <2>3. CASE n # 1
    <3>1. g[n - 1] \in Seq(D) /\ seqs[n] \in Seq(D)
      BY <1>0, <1>7, <2>1, <2>3
    <3> QED BY <2>3, <3>1
  <2> QED BY <2>2, <2>3
<1> HIDE DEF e
<1>9. h \in [1..n -> Seq(D)]
  BY <1>0, <1>4, <1>7, <1>8
<1>10. Adds(h, seqs, n)
  <2> SUFFICES ASSUME NEW i \in 1..n
               PROVE  h[i] = IF i = 1 THEN seqs[1] ELSE h[i - 1] \o seqs[i]
    BY DEF Adds
  <2>1. n \in Nat
    BY <1>0, <1>4
  <2>2. CASE i = n
    <3>1. h[i] = e /\ (i # 1 => h[i - 1] = g[n - 1])
      BY <2>1, <2>2
    <3> QED BY <2>2, <3>1 DEF e
  <2>3. CASE i # n
    <3>1. h[i] = g[i] /\ (i # 1 => h[i - 1] = g[i - 1]) /\ i \in 1..(n - 1)
      BY <2>1, <2>3
    <3> QED BY <1>7, <3>1 DEF Adds
  <2> QED BY <2>2, <2>3
<1> QED BY <1>4, <1>9, <1>10

LEMMA AddsUnique ==
    ASSUME NEW n \in Nat, NEW seqs, NEW g, NEW h, Adds(g, seqs, n), Adds(h, seqs, n)
    PROVE  \A i \in 1..n : g[i] = h[i]
<1> DEFINE Bad == {i \in 1..n : g[i] # h[i]}
<1>1. SUFFICES ASSUME Bad # {} PROVE FALSE
  OBVIOUS
<1>2. PICK i \in Bad : \A j \in Bad : i <= j
  <2>1. Bad \in SUBSET Nat
    OBVIOUS
  <2> HIDE DEF Bad
  <2> QED BY <1>1, <2>1, LeastNat
<1>3. i # 1
  BY <1>2 DEF Adds
<1>4. i - 1 \in 1..n /\ ~(i <= i - 1)
  BY <1>2, <1>3
<1>5. g[i - 1] = h[i - 1]
  BY <1>2, <1>4
<1>6. g[i] = g[i - 1] \o seqs[i] /\ h[i] = h[i - 1] \o seqs[i]
  BY <1>2, <1>3 DEF Adds
<1> QED BY <1>2, <1>5, <1>6

LEMMA FlattenIs ==
    ASSUME NEW D, NEW seqs \in Seq(Seq(D)), Len(seqs) # 0,
           NEW g \in [1..Len(seqs) -> Seq(D)], Adds(g, seqs, Len(seqs))
    PROVE  FlattenSeq(seqs) = g[Len(seqs)]
<1> DEFINE Solves(f) == f = [i \in 1..Len(seqs) |-> IF i = 1 THEN seqs[i] ELSE f[i - 1] \o seqs[i]]
           flatten == CHOOSE f : Solves(f)
<1>1. FlattenSeq(seqs) = flatten[Len(seqs)]
  BY DEF FlattenSeq
<1>2. Solves(g)
  <2>1. \A i \in 1..Len(seqs) : g[i] = IF i = 1 THEN seqs[i] ELSE g[i - 1] \o seqs[i]
    BY DEF Adds
  <2> QED BY <2>1
<1>3. Solves(flatten)
  <2> HIDE DEF Solves
  <2> QED BY <1>2
<1> HIDE DEF flatten
<1>4. Adds(flatten, seqs, Len(seqs))
  BY <1>3 DEF Adds
<1>5. Len(seqs) \in Nat /\ Len(seqs) \in 1..Len(seqs)
  OBVIOUS
<1> QED BY <1>1, <1>4, <1>5, AddsUnique

LEMMA FlattenEmpty == FlattenSeq(<<>>) = <<>>
BY DEF FlattenSeq

LEMMA FlattenType ==
    ASSUME NEW D, NEW seqs \in Seq(Seq(D))
    PROVE  FlattenSeq(seqs) \in Seq(D)
<1>1. CASE Len(seqs) = 0
  BY <1>1 DEF FlattenSeq
<1>2. CASE Len(seqs) # 0
  <2>1. Len(seqs) \in 0..Len(seqs) /\ Len(seqs) \in 1..Len(seqs)
    BY <1>2
  <2>2. PICK g \in [1..Len(seqs) -> Seq(D)] : Adds(g, seqs, Len(seqs))
    BY <2>1, AddsExists
  <2>3. FlattenSeq(seqs) = g[Len(seqs)]
    BY <1>2, <2>2, FlattenIs
  <2> QED BY <2>1, <2>3
<1> QED BY <1>1, <1>2

\* What is appended is added at the end.
LEMMA FlattenAppend ==
    ASSUME NEW D, NEW seqs \in Seq(Seq(D)), NEW x \in Seq(D)
    PROVE  FlattenSeq(Append(seqs, x)) = FlattenSeq(seqs) \o x
<1> DEFINE longer == Append(seqs, x)
           n == Len(seqs)
<1>1. /\ longer \in Seq(Seq(D)) /\ Len(longer) = n + 1 /\ longer[n + 1] = x
      /\ \A i \in 1..n : longer[i] = seqs[i]
      /\ n \in Nat
  OBVIOUS
<1> HIDE DEF longer, n
<1>2. n + 1 \in 0..Len(longer)
  BY <1>1
<1>3. PICK g \in [1..(n + 1) -> Seq(D)] : Adds(g, longer, n + 1)
  BY <1>1, <1>2, AddsExists
<1>4. FlattenSeq(longer) = g[n + 1]
  <2>1. Len(longer) # 0 /\ g \in [1..Len(longer) -> Seq(D)] /\ Adds(g, longer, Len(longer))
    BY <1>1, <1>3
  <2>2. FlattenSeq(longer) = g[Len(longer)]
    BY <1>1, <2>1, FlattenIs
  <2> QED BY <1>1, <2>2
<1>5. CASE n = 0
  <2>1. g[n + 1] = x
    BY <1>1, <1>3, <1>5 DEF Adds
  <2>2. FlattenSeq(seqs) = <<>> /\ seqs = <<>>
    BY <1>5 DEF FlattenSeq, n
  <2>3. <<>> \o x = x
    OBVIOUS
  <2> QED BY <1>4, <2>1, <2>2, <2>3 DEF longer
<1>6. CASE n # 0
  <2> DEFINE h == [i \in 1..n |-> g[i]]
  <2>1. h \in [1..n -> Seq(D)]
    BY <1>1, <1>3
  <2>2. Adds(h, seqs, n)
    <3> SUFFICES ASSUME NEW i \in 1..n
                 PROVE  h[i] = IF i = 1 THEN seqs[1] ELSE h[i - 1] \o seqs[i]
      BY DEF Adds
    <3>1. i \in 1..(n + 1) /\ (i # 1 => i - 1 \in 1..n) /\ 1 \in 1..n
      BY <1>1, <1>6
    <3>2. g[i] = IF i = 1 THEN longer[1] ELSE g[i - 1] \o longer[i]
      BY <1>3, <3>1 DEF Adds
    <3>3. h[i] = g[i] /\ (i # 1 => h[i - 1] = g[i - 1])
      BY <3>1
    <3>4. longer[1] = seqs[1] /\ longer[i] = seqs[i]
      BY <1>1, <3>1
    <3> HIDE DEF h
    <3> QED BY <3>2, <3>3, <3>4
  <2>3. n \in 1..n
    BY <1>1, <1>6
  <2>4. h[n] = g[n]
    BY <2>3
  <2> HIDE DEF h
  <2>5. FlattenSeq(seqs) = h[n]
    BY <1>6, <2>1, <2>2, FlattenIs DEF n
  <2>6. g[n + 1] = g[n] \o x
    <3>1. n + 1 \in 1..(n + 1) /\ n + 1 # 1 /\ (n + 1) - 1 = n
      BY <1>1, <1>6
    <3> QED BY <1>1, <1>3, <3>1 DEF Adds
  <2> QED BY <1>4, <2>4, <2>5, <2>6 DEF longer
<1> QED BY <1>5, <1>6

LEMMA Associative ==
    ASSUME NEW D
    PROVE  \A a, b, c \in Seq(D) : (a \o b) \o c = a \o (b \o c)
<1> SUFFICES ASSUME NEW a \in Seq(D), NEW b \in Seq(D), NEW c \in Seq(D)
             PROVE  (a \o b) \o c = a \o (b \o c)
  OBVIOUS
<1> QED BY ConcatAssociative

LEMMA FlattenConcat ==
    ASSUME NEW D, NEW seqs \in Seq(Seq(D)), NEW more \in Seq(Seq(D))
    PROVE  FlattenSeq(seqs \o more) = FlattenSeq(seqs) \o FlattenSeq(more)
<1> DEFINE first(n) == SubSeq(more, 1, n)
           P == {n \in 0..Len(more) : FlattenSeq(seqs \o first(n)) = FlattenSeq(seqs) \o FlattenSeq(first(n))}
<1>0. \A a, b, c \in Seq(D) : (a \o b) \o c = a \o (b \o c)
  BY Associative
<1>1. 0 \in P
  <2>1. first(0) = <<>> /\ seqs \o <<>> = seqs
    OBVIOUS
  <2>2. FlattenSeq(seqs) \in Seq(D) /\ FlattenSeq(<<>>) = <<>>
    BY FlattenType, FlattenEmpty
  <2>3. FlattenSeq(seqs) \o <<>> = FlattenSeq(seqs)
    BY <2>2
  <2>4. FlattenSeq(seqs \o first(0)) = FlattenSeq(seqs) \o FlattenSeq(first(0))
    BY <2>1, <2>2, <2>3
  <2>5. 0 \in 0..Len(more)
    OBVIOUS
  <2> QED BY <2>4, <2>5
<1>2. ASSUME NEW n \in 1..Len(more), n - 1 \in P PROVE n \in P
  <2>1. /\ first(n) = Append(first(n - 1), more[n])
        /\ first(n - 1) \in Seq(Seq(D)) /\ more[n] \in Seq(D)
    OBVIOUS
  <2>2. FlattenSeq(seqs \o first(n - 1)) = FlattenSeq(seqs) \o FlattenSeq(first(n - 1))
    BY <1>2
  <2> DEFINE f == first(n - 1)
             x == more[n]
  <2> HIDE DEF f, x
  <2>3. f \in Seq(Seq(D)) /\ x \in Seq(D) /\ FlattenSeq(seqs \o f) = FlattenSeq(seqs) \o FlattenSeq(f)
    BY <2>1, <2>2 DEF f, x
  <2>4. seqs \o Append(f, x) = Append(seqs \o f, x) /\ seqs \o f \in Seq(Seq(D))
    BY <2>3
  <2>5. /\ FlattenSeq(Append(seqs \o f, x)) = FlattenSeq(seqs \o f) \o x
        /\ FlattenSeq(Append(f, x)) = FlattenSeq(f) \o x
    BY <2>3, <2>4, FlattenAppend
  <2>6. FlattenSeq(seqs) \in Seq(D) /\ FlattenSeq(f) \in Seq(D)
    BY <2>3, FlattenType
  <2>7. (FlattenSeq(seqs) \o FlattenSeq(f)) \o x = FlattenSeq(seqs) \o (FlattenSeq(f) \o x)
    <3> DEFINE a == FlattenSeq(seqs)
               b == FlattenSeq(f)
    <3>1. a \in Seq(D) /\ b \in Seq(D) /\ x \in Seq(D)
      BY <2>3, <2>6
    <3> HIDE DEF a, b
    <3>2. (a \o b) \o x = a \o (b \o x)
      BY <3>1, <1>0
    <3> QED BY <3>2 DEF a, b
  <2>8. FlattenSeq(seqs \o Append(f, x)) = FlattenSeq(seqs) \o FlattenSeq(Append(f, x))
    BY <2>3, <2>4, <2>5, <2>7
  <2>9. FlattenSeq(seqs \o first(n)) = FlattenSeq(seqs) \o FlattenSeq(first(n))
    BY <2>1, <2>8 DEF f, x
  <2> QED BY <2>9
<1>3. Len(more) \in Nat /\ Len(more) \in 0..Len(more) /\ first(Len(more)) = more
  OBVIOUS
<1> HIDE DEF P
<1>4. Len(more) \in P
  BY <1>1, <1>2, <1>3, UpTo
<1> QED BY <1>3, <1>4 DEF P

\* Sequences of numbers that rise.
Rising(s) == \A i, j \in 1..Len(s) : i < j => s[i] < s[j]
Below(A, B) == \A a \in A, b \in B : a < b

LEMMA RisingConcat ==
    ASSUME NEW s \in Seq(Nat), NEW t \in Seq(Nat), Rising(s), Rising(t), Below(Range(s), Range(t))
    PROVE  Rising(s \o t)
<1> SUFFICES ASSUME NEW i \in 1..Len(s \o t), NEW j \in 1..Len(s \o t), i < j
             PROVE  (s \o t)[i] < (s \o t)[j]
  BY DEF Rising
<1>1. /\ Len(s) \in Nat /\ Len(t) \in Nat
      /\ \A k \in 1..Len(s) : s[k] \in Range(s)
      /\ \A k \in 1..Len(t) : t[k] \in Range(t)
  BY RangeIs
<1>2. /\ Len(s \o t) = Len(s) + Len(t)
      /\ \A k \in 1..Len(s) : (s \o t)[k] = s[k]
      /\ \A k \in 1..(Len(s) + Len(t)) : k \notin 1..Len(s) =>
            k - Len(s) \in 1..Len(t) /\ (s \o t)[k] = t[k - Len(s)]
  BY ConcatIs
<1>3. CASE j \in 1..Len(s)
  <2>1. i \in 1..Len(s)
    BY <1>1, <1>3
  <2> QED BY <1>2, <1>3, <2>1 DEF Rising
<1>4. CASE i \in 1..Len(s) /\ j \notin 1..Len(s)
  BY <1>1, <1>2, <1>4 DEF Below
<1>5. CASE i \notin 1..Len(s) /\ j \notin 1..Len(s)
  <2>1. i - Len(s) < j - Len(s)
    BY <1>1, <1>2
  <2> QED BY <1>1, <1>2, <1>5, <2>1 DEF Rising
<1>6. CASE i \notin 1..Len(s) /\ j \in 1..Len(s)
  BY <1>1, <1>2, <1>6
<1> QED BY <1>3, <1>4, <1>5, <1>6

(***************************************************************************)
(* Only and its kin (Selection).                                           *)
(***************************************************************************)

\* A function that collects what is in S of the first n elements of s.
Collects(g, s, S, n) ==
    \A i \in 0..n : g[i] = IF i = 0 THEN <<>>
                           ELSE IF s[i] \in S THEN Append(g[i - 1], s[i]) ELSE g[i - 1]

LEMMA CollectsExists ==
    ASSUME NEW D, NEW S, NEW s \in Seq(D)
    PROVE  \A n \in 0..Len(s) : \E g \in [0..n -> Seq(D)] : Collects(g, s, S, n)
<1> DEFINE Good(n) == \E g \in [0..n -> Seq(D)] : Collects(g, s, S, n)
           Bad == {n \in 0..Len(s) : ~Good(n)}
<1>0. Len(s) \in Nat /\ \A i \in 1..Len(s) : s[i] \in D
  OBVIOUS
<1>1. SUFFICES ASSUME Bad # {} PROVE FALSE
  OBVIOUS
<1>2. Bad \in SUBSET Nat
  BY <1>0
<1>3. PICK n \in Bad : \A m \in Bad : n <= m
  <2> HIDE DEF Bad
  <2> QED BY <1>1, <1>2, LeastNat
<1>4. n \in 0..Len(s) /\ ~Good(n)
  BY <1>3
<1>5. n # 0
  <2>1. [i \in 0..0 |-> <<>>] \in [0..0 -> Seq(D)] /\ Collects([i \in 0..0 |-> <<>>], s, S, 0)
    BY DEF Collects
  <2> QED BY <1>4, <2>1
<1>6. Good(n - 1)
  <2>1. n - 1 \in 0..Len(s) /\ ~(n <= n - 1)
    BY <1>0, <1>4, <1>5
  <2>2. n - 1 \notin Bad
    BY <1>3, <2>1
  <2> HIDE DEF Good
  <2> QED BY <2>1, <2>2
<1>7. PICK g \in [0..(n - 1) -> Seq(D)] : Collects(g, s, S, n - 1)
  BY <1>6
<1> DEFINE e == IF s[n] \in S THEN Append(g[n - 1], s[n]) ELSE g[n - 1]
           h == [i \in 0..n |-> IF i = n THEN e ELSE g[i]]
<1>8. e \in Seq(D)
  <2>1. n \in 1..Len(s) /\ n - 1 \in 0..(n - 1)
    BY <1>0, <1>4, <1>5
  <2>2. g[n - 1] \in Seq(D) /\ s[n] \in D
    BY <1>0, <1>7, <2>1
  <2> QED BY <2>2
<1> HIDE DEF e
<1>9. h \in [0..n -> Seq(D)]
  BY <1>0, <1>4, <1>7, <1>8
<1>10. Collects(h, s, S, n)
  <2> SUFFICES ASSUME NEW i \in 0..n
               PROVE  h[i] = IF i = 0 THEN <<>>
                             ELSE IF s[i] \in S THEN Append(h[i - 1], s[i]) ELSE h[i - 1]
    BY DEF Collects
  <2>1. n \in Nat
    BY <1>0, <1>4
  <2>2. CASE i = n
    <3>1. h[i] = e /\ h[i - 1] = g[n - 1] /\ i # 0
      BY <1>5, <2>1, <2>2
    <3> QED BY <2>2, <3>1 DEF e
  <2>3. CASE i # n
    <3>1. h[i] = g[i] /\ (i # 0 => h[i - 1] = g[i - 1]) /\ i \in 0..(n - 1)
      BY <2>1, <2>3
    <3> HIDE DEF h
    <3> QED BY <1>7, <3>1 DEF Collects
  <2> QED BY <2>2, <2>3
<1> QED BY <1>4, <1>9, <1>10

LEMMA OnlyCollects ==
    ASSUME NEW D, NEW S, NEW s \in Seq(D)
    PROVE  \E g : Collects(g, s, S, Len(s)) /\ Only(s, S) = g[Len(s)]
<1> DEFINE Solves(g) == g = [n \in 0..Len(s) |->
                               IF n = 0 THEN <<>>
                               ELSE IF s[n] \in S THEN Append(g[n - 1], s[n]) ELSE g[n - 1]]
           only == CHOOSE g : Solves(g)
<1>1. Only(s, S) = only[Len(s)]
  BY DEF Only
<1>2. PICK g \in [0..Len(s) -> Seq(D)] : Collects(g, s, S, Len(s))
  <2>1. Len(s) \in 0..Len(s)
    OBVIOUS
  <2> QED BY <2>1, CollectsExists
<1>3. Solves(g)
  <2>1. \A n \in 0..Len(s) : g[n] = IF n = 0 THEN <<>>
                              ELSE IF s[n] \in S THEN Append(g[n - 1], s[n]) ELSE g[n - 1]
    BY <1>2 DEF Collects
  <2> QED BY <2>1
<1>4. Solves(only)
  <2> HIDE DEF Solves
  <2> QED BY <1>3
<1> HIDE DEF only
<1>5. Collects(only, s, S, Len(s))
  BY <1>4 DEF Collects
<1> QED BY <1>1, <1>5

\* The elements that were collected, in their order.
LEMMA OnlyIs ==
    ASSUME NEW D, NEW S, NEW s \in Seq(D)
    PROVE  /\ Only(s, S) \in Seq(D)
           /\ Range(Only(s, S)) = Range(s) \cap S
           /\ D \subseteq Nat /\ Rising(s) => Rising(Only(s, S))
<1>1. PICK g : Collects(g, s, S, Len(s)) /\ Only(s, S) = g[Len(s)]
  BY OnlyCollects
<1> DEFINE Taken(n) ==
              /\ g[n] \in Seq(D)
              /\ \A x \in Range(g[n]) : x \in S /\ \E k \in 1..n : x = s[k]
              /\ \A k \in 1..n : s[k] \in S => s[k] \in Range(g[n])
              /\ D \subseteq Nat /\ Rising(s) => Rising(g[n])
           Bad == {n \in 0..Len(s) : ~Taken(n)}
<1>2. Len(s) \in Nat /\ \A i \in 1..Len(s) : s[i] \in D
  OBVIOUS
<1>3. Bad = {}
  <2> SUFFICES ASSUME Bad # {} PROVE FALSE
    OBVIOUS
  <2>1. Bad \in SUBSET Nat
    BY <1>2
  <2>2. PICK n \in Bad : \A m \in Bad : n <= m
    <3> HIDE DEF Bad
    <3> QED BY <2>1, LeastNat
  <2>3. n \in 0..Len(s) /\ ~Taken(n)
    BY <2>2
  <2>4. n # 0
    <3>1. g[0] = <<>> /\ 1..0 = {}
      BY <1>1, <1>2 DEF Collects
    <3>2. Rising(<<>>)
      BY DEF Rising
    <3>3. Taken(0)
      BY <3>1, <3>2, RangeEmpty
    <3> QED BY <2>3, <3>3
  <2>5. n \in 1..Len(s) /\ n - 1 \in 0..Len(s) /\ ~(n <= n - 1) /\ n \in Nat
    BY <1>2, <2>3, <2>4
  <2>6. Taken(n - 1)
    <3>1. n - 1 \notin Bad
      BY <2>2, <2>5
    <3> HIDE DEF Taken
    <3> QED BY <2>5, <3>1
  <2>7. g[n] = IF s[n] \in S THEN Append(g[n - 1], s[n]) ELSE g[n - 1]
    BY <1>1, <2>3, <2>4 DEF Collects
  <2>8. \A k \in 1..n : k = n \/ k \in 1..(n - 1)
    BY <2>5
  <2>9. \A k \in 1..(n - 1) : k \in 1..n
    BY <2>5
  <2>10. CASE s[n] \notin S
    <3>1. g[n] = g[n - 1]
      BY <2>7, <2>10
    <3>2. Taken(n)
      BY <2>6, <2>8, <2>9, <2>10, <3>1
    <3> QED BY <2>3, <3>2
  <2>11. CASE s[n] \in S
    <3> DEFINE e == <<s[n]>>
    <3>1. g[n] = g[n - 1] \o e /\ e \in Seq(D) /\ s[n] \in D
      BY <1>2, <2>5, <2>6, <2>7, <2>11
    <3>2. Range(e) = {s[n]} /\ Rising(e)
      BY DEF Range, Rising
    <3> HIDE DEF e
    <3>3. g[n] \in Seq(D) /\ Range(g[n]) = Range(g[n - 1]) \cup {s[n]}
      BY <2>6, <3>1, <3>2, RangeConcat
    <3>4. \A x \in Range(g[n]) : x \in S /\ \E k \in 1..n : x = s[k]
      BY <2>5, <2>6, <2>9, <2>11, <3>3
    <3>5. \A k \in 1..n : s[k] \in S => s[k] \in Range(g[n])
      BY <2>6, <2>8, <3>3
    <3>6. ASSUME D \subseteq Nat, Rising(s) PROVE Rising(g[n])
      <4>1. Rising(g[n - 1])
        BY <2>6, <3>6
      <4>2. \A k \in 1..(n - 1) : s[k] < s[n]
        <5> SUFFICES ASSUME NEW k \in 1..(n - 1) PROVE s[k] < s[n]
          OBVIOUS
        <5>1. k \in 1..Len(s) /\ k < n
          BY <1>2, <2>5
        <5> QED BY <2>5, <3>6, <5>1 DEF Rising
      <4>3. Below(Range(g[n - 1]), Range(e))
        BY <2>6, <3>2, <4>2 DEF Below
      <4>4. g[n - 1] \in Seq(Nat) /\ e \in Seq(Nat)
        BY <2>6, <3>1, <3>6, SeqMonotonic
      <4> QED BY <3>1, <3>2, <4>1, <4>3, <4>4, RisingConcat
    <3>7. Taken(n)
      BY <3>3, <3>4, <3>5, <3>6
    <3> QED BY <2>3, <3>7
  <2> QED BY <2>10, <2>11
<1>4. Taken(Len(s))
  <2>1. Len(s) \in 0..Len(s)
    BY <1>2
  <2> HIDE DEF Taken
  <2> QED BY <1>3, <2>1
<1>5. /\ \A x \in Range(s) : \E i \in 1..Len(s) : x = s[i]
      /\ \A i \in 1..Len(s) : s[i] \in Range(s)
  BY RangeIs
<1> QED BY <1>1, <1>4, <1>5


LEMMA CollectsUnique ==
    ASSUME NEW n \in Nat, NEW s, NEW t, NEW S, NEW T, NEW g, NEW h,
           Collects(g, s, S, n), Collects(h, t, T, n),
           \A i \in 1..n : (s[i] \in S <=> t[i] \in T) /\ (s[i] \in S => s[i] = t[i])
    PROVE  g[n] = h[n]
<1> DEFINE P == {i \in 0..n : g[i] = h[i]}
<1>1. 0 \in P
  BY DEF Collects
<1>2. ASSUME NEW i \in 1..n, i - 1 \in P PROVE i \in P
  <2>1. i \in 0..n /\ i # 0 /\ g[i - 1] = h[i - 1]
    BY <1>2
  <2>2. /\ g[i] = IF s[i] \in S THEN Append(g[i - 1], s[i]) ELSE g[i - 1]
        /\ h[i] = IF t[i] \in T THEN Append(h[i - 1], t[i]) ELSE h[i - 1]
    BY <2>1 DEF Collects
  <2>3. g[i] = h[i]
    BY <2>1, <2>2
  <2> QED BY <2>1, <2>3
<1> HIDE DEF P
<1>3. 0..n \subseteq P
  BY <1>1, <1>2, UpTo
<1> QED BY <1>3 DEF P

\* The same is kept of two sequences that differ only in what is not.
LEMMA OnlyAlike ==
    ASSUME NEW D, NEW S, NEW T, NEW s \in Seq(D), NEW t \in Seq(D), Len(s) = Len(t),
           \A i \in 1..Len(s) : (s[i] \in S <=> t[i] \in T) /\ (s[i] \in S => s[i] = t[i])
    PROVE  Only(s, S) = Only(t, T)
<1>1. PICK g : Collects(g, s, S, Len(s)) /\ Only(s, S) = g[Len(s)]
  BY OnlyCollects
<1>2. PICK h : Collects(h, t, T, Len(t)) /\ Only(t, T) = h[Len(t)]
  BY OnlyCollects
<1>3. Len(s) \in Nat
  OBVIOUS
<1>4. g[Len(s)] = h[Len(s)]
  BY <1>1, <1>2, <1>3, CollectsUnique
<1> QED BY <1>1, <1>2, <1>4

LEMMA OnlyEmpty == \A S : Only(<<>>, S) = <<>>
<1> SUFFICES ASSUME NEW S PROVE Only(<<>>, S) = <<>>
  OBVIOUS
<1>1. <<>> \in Seq({}) /\ Len(<<>>) = 0
  OBVIOUS
<1>2. PICK g : Collects(g, <<>>, S, 0) /\ Only(<<>>, S) = g[0]
  BY <1>1, OnlyCollects
<1> QED BY <1>2 DEF Collects

LEMMA OnlyAppend ==
    ASSUME NEW D, NEW S, NEW s \in Seq(D), NEW x \in D
    PROVE  Only(Append(s, x), S) = IF x \in S THEN Append(Only(s, S), x) ELSE Only(s, S)
<1> DEFINE r == Append(s, x)
           n == Len(s)
<1>1. r \in Seq(D) /\ n \in Nat /\ Len(r) = n + 1 /\ r[n + 1] = x /\ \A i \in 1..n : r[i] = s[i]
  OBVIOUS
<1> HIDE DEF r
<1>2. PICK g : Collects(g, r, S, n + 1) /\ Only(r, S) = g[n + 1]
  BY <1>1, OnlyCollects
<1>3. PICK h : Collects(h, s, S, n) /\ Only(s, S) = h[n]
  BY OnlyCollects
<1>4. Collects(g, r, S, n)
  BY <1>1, <1>2 DEF Collects
<1>5. g[n] = h[n]
  BY <1>1, <1>3, <1>4, CollectsUnique
<1>6. g[n + 1] = IF r[n + 1] \in S THEN Append(g[n], r[n + 1]) ELSE g[n]
  <2>1. n + 1 \in 0..(n + 1) /\ n + 1 # 0 /\ (n + 1) - 1 = n
    BY <1>1
  <2> QED BY <1>2, <2>1 DEF Collects
<1> QED BY <1>1, <1>2, <1>3, <1>5, <1>6 DEF r

\* Every sequence is made from the empty one by appending.
LEMMA Appended ==
    ASSUME NEW D, NEW P, <<>> \in P,
           \A s \in Seq(D), x \in D : s \in P => Append(s, x) \in P
    PROVE  Seq(D) \subseteq P
<1> SUFFICES ASSUME NEW s \in Seq(D) PROVE s \in P
  OBVIOUS
<1> DEFINE Q == {n \in 0..Len(s) : SubSeq(s, 1, n) \in P}
<1>1. 0 \in Q
  <2>1. SubSeq(s, 1, 0) = <<>> /\ 0 \in 0..Len(s)
    OBVIOUS
  <2> QED BY <2>1
<1>2. ASSUME NEW n \in 1..Len(s), n - 1 \in Q PROVE n \in Q
  <2>1. /\ SubSeq(s, 1, n) = Append(SubSeq(s, 1, n - 1), s[n]) /\ n \in 0..Len(s)
        /\ SubSeq(s, 1, n - 1) \in Seq(D) /\ s[n] \in D
    OBVIOUS
  <2>2. SubSeq(s, 1, n - 1) \in P
    BY <1>2
  <2>3. SubSeq(s, 1, n) \in P
    BY <2>1, <2>2
  <2> QED BY <2>1, <2>3
<1>3. Len(s) \in Nat /\ Len(s) \in 0..Len(s) /\ SubSeq(s, 1, Len(s)) = s
  OBVIOUS
<1> HIDE DEF Q
<1>4. Len(s) \in Q
  BY <1>1, <1>2, <1>3, UpTo
<1> QED BY <1>3, <1>4 DEF Q

LEMMA OnlyConcat ==
    ASSUME NEW D, NEW S, NEW s \in Seq(D), NEW t \in Seq(D)
    PROVE  Only(s \o t, S) = Only(s, S) \o Only(t, S)
<1> DEFINE P == {r \in Seq(D) : Only(s \o r, S) = Only(s, S) \o Only(r, S)}
<1>1. <<>> \in P
  <2>1. s \o <<>> = s /\ Only(s, S) \in Seq(D) /\ Only(<<>>, S) = <<>>
    BY OnlyEmpty, OnlyIs
  <2>2. Only(s, S) \o <<>> = Only(s, S)
    BY <2>1
  <2> QED BY <2>1, <2>2
<1>2. ASSUME NEW r \in Seq(D), NEW x \in D, r \in P PROVE Append(r, x) \in P
  <2>1. s \o Append(r, x) = Append(s \o r, x) /\ s \o r \in Seq(D) /\ Append(r, x) \in Seq(D)
    OBVIOUS
  <2>2. Only(s \o r, S) = Only(s, S) \o Only(r, S)
    BY <1>2
  <2>3. /\ Only(Append(s \o r, x), S) =
              IF x \in S THEN Append(Only(s \o r, S), x) ELSE Only(s \o r, S)
        /\ Only(Append(r, x), S) = IF x \in S THEN Append(Only(r, S), x) ELSE Only(r, S)
    <3> DEFINE sr == s \o r
    <3>1. sr \in Seq(D)
      OBVIOUS
    <3> HIDE DEF sr
    <3>2. Only(Append(sr, x), S) = IF x \in S THEN Append(Only(sr, S), x) ELSE Only(sr, S)
      BY <3>1, OnlyAppend
    <3>3. Only(Append(r, x), S) = IF x \in S THEN Append(Only(r, S), x) ELSE Only(r, S)
      BY OnlyAppend
    <3> QED BY <3>2, <3>3 DEF sr
  <2> DEFINE a == Only(s, S)
             b == Only(r, S)
  <2>4. a \in Seq(D) /\ b \in Seq(D)
    BY OnlyIs
  <2> HIDE DEF a, b
  <2>5. Append(a \o b, x) = a \o Append(b, x)
    <3>1. a \o b \in Seq(D) /\ <<x>> \in Seq(D)
      BY <2>4
    <3>2. Append(b, x) = b \o <<x>>
      BY <2>4, AppendIsConcat
    <3>3. Append(a \o b, x) = (a \o b) \o <<x>>
      <4> DEFINE ab == a \o b
      <4>1. ab \in Seq(D)
        BY <3>1
      <4> HIDE DEF ab
      <4>2. Append(ab, x) = ab \o <<x>>
        BY <4>1, AppendIsConcat
      <4> QED BY <4>2 DEF ab
    <3>4. (a \o b) \o <<x>> = a \o (b \o <<x>>)
      BY <2>4, <3>1, ConcatAssociative
    <3> QED BY <3>2, <3>3, <3>4
  <2>6. Only(s \o Append(r, x), S) = Only(s, S) \o Only(Append(r, x), S)
    BY <2>1, <2>2, <2>3, <2>5 DEF a, b
  <2> QED BY <2>1, <2>6
<1> HIDE DEF P
<1>3. Seq(D) \subseteq P
  BY <1>1, <1>2, Appended
<1> QED BY <1>3 DEF P

LEMMA OnlyNested ==
    ASSUME NEW D, NEW S, NEW T, NEW s \in Seq(D)
    PROVE  Only(Only(s, S), T) = Only(s, S \cap T)
<1> DEFINE P == {r \in Seq(D) : Only(Only(r, S), T) = Only(r, S \cap T)}
<1>1. <<>> \in P
  BY OnlyEmpty
<1>2. ASSUME NEW r \in Seq(D), NEW x \in D, r \in P PROVE Append(r, x) \in P
  <2>1. Append(r, x) \in Seq(D) /\ Only(r, S) \in Seq(D)
    BY OnlyIs
  <2>2. /\ Only(Append(r, x), S) = IF x \in S THEN Append(Only(r, S), x) ELSE Only(r, S)
        /\ Only(Append(r, x), S \cap T) =
              IF x \in S \cap T THEN Append(Only(r, S \cap T), x) ELSE Only(r, S \cap T)
    BY OnlyAppend
  <2>3. Only(Append(Only(r, S), x), T) =
           IF x \in T THEN Append(Only(Only(r, S), T), x) ELSE Only(Only(r, S), T)
    BY <2>1, OnlyAppend
  <2>4. Only(Only(r, S), T) = Only(r, S \cap T)
    BY <1>2
  <2>5. Only(Only(Append(r, x), S), T) = Only(Append(r, x), S \cap T)
    <3>1. CASE x \notin S
      BY <2>2, <2>4, <3>1
    <3>2. CASE x \in S /\ x \notin T
      BY <2>2, <2>3, <2>4, <3>2
    <3>3. CASE x \in S /\ x \in T
      <4>1. x \in S \cap T
        BY <3>3
      <4>2. /\ Only(Append(r, x), S) = Append(Only(r, S), x)
            /\ Only(Append(r, x), S \cap T) = Append(Only(r, S \cap T), x)
            /\ Only(Append(Only(r, S), x), T) = Append(Only(Only(r, S), T), x)
        BY <2>2, <2>3, <3>3, <4>1
      <4> QED BY <2>4, <4>2
    <3> QED BY <3>1, <3>2, <3>3
  <2> QED BY <2>1, <2>5
<1> HIDE DEF P
<1>3. Seq(D) \subseteq P
  BY <1>1, <1>2, Appended
<1> QED BY <1>3 DEF P

LEMMA OnlyAll ==
    ASSUME NEW D, NEW S, NEW s \in Seq(D), Range(s) \subseteq S
    PROVE  Only(s, S) = s
<1> DEFINE P == {r \in Seq(D) : Only(r, D) = r}
<1>1. <<>> \in P
  BY OnlyEmpty
<1>2. ASSUME NEW r \in Seq(D), NEW x \in D, r \in P PROVE Append(r, x) \in P
  <2>1. Append(r, x) \in Seq(D) /\ Only(r, D) = r
    BY <1>2
  <2>2. Only(Append(r, x), D) = Append(Only(r, D), x)
    BY OnlyAppend
  <2> QED BY <2>1, <2>2
<1> HIDE DEF P
<1>3. Seq(D) \subseteq P
  BY <1>1, <1>2, Appended
<1>4. Only(s, D) = s
  BY <1>3 DEF P
<1>5. Only(s, S) = Only(s, D)
  <2>1. \A i \in 1..Len(s) : s[i] \in S /\ s[i] \in D
    BY RangeIs
  <2> QED BY <2>1, OnlyAlike
<1> QED BY <1>4, <1>5

\* Injective with the domain of a sequence spelled out.
Distinct(s) == \A i, j \in 1..Len(s) : s[i] = s[j] => i = j

LEMMA OnlyDistinct ==
    ASSUME NEW D, NEW S, NEW s \in Seq(D), Distinct(s)
    PROVE  Distinct(Only(s, S))
<1> DEFINE P == {r \in Seq(D) : Distinct(r) => Distinct(Only(r, S))}
<1>1. <<>> \in P
  <2>1. Distinct(<<>>) /\ <<>> \in Seq(D)
    BY DEF Distinct
  <2> QED BY <2>1, OnlyEmpty
<1>2. ASSUME NEW r \in Seq(D), NEW x \in D, r \in P PROVE Append(r, x) \in P
  <2> DEFINE o == Only(r, S)
             rx == Append(r, x)
  <2>1. o \in Seq(D) /\ Range(o) = Range(r) \cap S
    BY OnlyIs
  <2>2. Only(rx, S) = IF x \in S THEN Append(o, x) ELSE o
    BY OnlyAppend
  <2>3. /\ rx \in Seq(D) /\ Len(rx) = Len(r) + 1 /\ Len(r) \in Nat
        /\ rx[Len(r) + 1] = x /\ \A i \in 1..Len(r) : rx[i] = r[i]
    OBVIOUS
  <2>4. ASSUME Distinct(rx) PROVE Distinct(Only(rx, S))
    <3> HIDE DEF rx, o
    <3>1. Distinct(r)
      <4> SUFFICES ASSUME NEW i \in 1..Len(r), NEW j \in 1..Len(r), r[i] = r[j] PROVE i = j
        BY DEF Distinct
      <4>1. rx[i] = rx[j] /\ i \in 1..Len(rx) /\ j \in 1..Len(rx)
        BY <2>3
      <4> QED BY <2>4, <4>1 DEF Distinct
    <3>2. x \notin Range(r)
      <4> SUFFICES ASSUME x \in Range(r) PROVE FALSE
        OBVIOUS
      <4>1. PICK i \in 1..Len(r) : x = r[i]
        BY RangeIs
      <4>2. rx[i] = rx[Len(r) + 1] /\ i \in 1..Len(rx) /\ Len(r) + 1 \in 1..Len(rx) /\ i # Len(r) + 1
        BY <2>3, <4>1
      <4> QED BY <2>4, <4>2 DEF Distinct
    <3>3. Distinct(o)
      BY <1>2, <3>1 DEF o
    <3>4. CASE x \notin S
      BY <2>2, <3>3, <3>4
    <3>5. CASE x \in S
      <4> DEFINE ox == Append(o, x)
      <4>1. /\ Len(ox) = Len(o) + 1 /\ Len(o) \in Nat /\ ox[Len(o) + 1] = x
            /\ \A i \in 1..Len(o) : ox[i] = o[i]
        BY <2>1
      <4>2. \A i \in 1..Len(o) : o[i] # x
        BY <2>1, <3>2, RangeIs
      <4> HIDE DEF ox
      <4>3. \A i \in 1..Len(ox) : i \in 1..Len(o) \/ i = Len(o) + 1
        BY <4>1
      <4>4. Distinct(ox)
        BY <3>3, <4>1, <4>2, <4>3 DEF Distinct
      <4> QED BY <2>2, <3>5, <4>4 DEF ox
    <3> QED BY <3>4, <3>5
  <2> QED BY <2>3, <2>4
<1> HIDE DEF P
<1>3. Seq(D) \subseteq P
  BY <1>1, <1>2, Appended
<1> QED BY <1>3 DEF P

LEMMA WithoutOnly ==
    ASSUME NEW D, NEW S, NEW s \in Seq(D)
    PROVE  Without(s, S) = Only(s, D \ S)
<1>1. \A i \in 1..Len(s) : s[i] \in D /\ s[i] \in Range(s)
  BY RangeIs
<1>2. \A i \in 1..Len(s) : s[i] \in Range(s) \ S <=> s[i] \in D \ S
  BY <1>1
<1>3. Only(s, Range(s) \ S) = Only(s, D \ S)
  BY <1>2, OnlyAlike
<1> QED BY <1>3 DEF Without

LEMMA WithoutIs ==
    ASSUME NEW D, NEW S, NEW s \in Seq(D)
    PROVE  Without(s, S) \in Seq(D) /\ Range(Without(s, S)) = Range(s) \ S
BY OnlyIs DEF Without

LEMMA WithoutConcat ==
    ASSUME NEW D, NEW S, NEW s \in Seq(D), NEW t \in Seq(D)
    PROVE  Without(s \o t, S) = Without(s, S) \o Without(t, S)
<1> DEFINE st == s \o t
<1>1. st \in Seq(D)
  OBVIOUS
<1> HIDE DEF st
<1>2. Without(st, S) = Only(st, D \ S) /\ Without(s, S) = Only(s, D \ S) /\ Without(t, S) = Only(t, D \ S)
  BY <1>1, WithoutOnly
<1>3. Only(s \o t, D \ S) = Only(s, D \ S) \o Only(t, D \ S)
  BY OnlyConcat
<1> QED BY <1>2, <1>3 DEF st

LEMMA WithoutNested ==
    ASSUME NEW D, NEW S, NEW T, NEW s \in Seq(D)
    PROVE  Without(Without(s, S), T) = Without(s, S \cup T)
<1>1. Without(s, S) \in Seq(D) /\ Without(s, S) = Only(s, D \ S) /\ Without(s, S \cup T) = Only(s, D \ (S \cup T))
  BY WithoutIs, WithoutOnly
<1>2. Without(Without(s, S), T) = Only(Only(s, D \ S), D \ T)
  BY <1>1, WithoutOnly
<1>3. (D \ S) \cap (D \ T) = D \ (S \cup T)
  OBVIOUS
<1> QED BY <1>1, <1>2, <1>3, OnlyNested

\* What is not there need not be left out.
LEMMA WithoutMore ==
    ASSUME NEW D, NEW S, NEW T, NEW s \in Seq(D), Range(s) \cap S = Range(s) \cap T
    PROVE  Without(s, S) = Without(s, T)
<1>1. Range(s) \ S = Range(s) \ T
  OBVIOUS
<1> QED BY <1>1 DEF Without

LEMMA WithoutAll ==
    ASSUME NEW D, NEW S, NEW s \in Seq(D), Range(s) \subseteq S
    PROVE  Without(s, S) = <<>>
<1>1. Without(s, S) \in Seq(D) /\ Range(Without(s, S)) = {}
  BY WithoutIs
<1> QED BY <1>1, NoneInRange

LEMMA PlacesAre ==
    ASSUME NEW D, NEW s \in Seq(D), NEW P \in SUBSET (1..Len(s))
    PROVE  /\ PlacesOf(s, P) \in Seq(1..Len(s))
           /\ Range(PlacesOf(s, P)) = P
           /\ Rising(PlacesOf(s, P))
<1> DEFINE places == [i \in DOMAIN s |-> i]
           E == 1..Len(s)
<1>1. Len(s) \in Nat /\ DOMAIN s = 1..Len(s) /\ E \subseteq Nat
  OBVIOUS
<1>2. places \in Seq(E) /\ Len(places) = Len(s) /\ \A i \in 1..Len(s) : places[i] = i
  BY <1>1
<1> HIDE DEF places
<1>3. Rising(places)
  BY <1>2 DEF Rising
<1>4. Range(places) = E
  <2>1. \A i \in 1..Len(places) : places[i] \in E /\ places[i] \in Range(places)
    BY <1>2, RangeIs
  <2>2. Range(places) \subseteq E
    BY <1>2, RangeIs
  <2> QED BY <1>2, <2>1, <2>2
<1> HIDE DEF E
<1>5. /\ Only(places, P) \in Seq(E)
      /\ Range(Only(places, P)) = Range(places) \cap P
      /\ Rising(Only(places, P))
  BY <1>1, <1>2, <1>3, OnlyIs
<1>6. PlacesOf(s, P) = Only(places, P)
  BY DEF PlacesOf, places
<1> QED BY <1>4, <1>5, <1>6 DEF E

=============================================================================
