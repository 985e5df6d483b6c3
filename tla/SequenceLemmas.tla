--------------------------- MODULE SequenceLemmas ----------------------------
(****************************************************************************)
(* Lemmas about naturals and sequences that the proofs of the components    *)
(* share: the least element of a set, by which an induction over data is    *)
(* about the least exception, and what FlattenSeq of SequencesExt computes, *)
(* which is defined by recursion.                                           *)
(****************************************************************************)
EXTENDS Naturals, SequencesExt, SequenceTheorems, WellFoundedInduction, TLAPS

\* A non-empty set of naturals has a least element.
LEMMA LeastNatural ==
    ASSUME NEW S \in SUBSET Nat, S # {}
    PROVE  \E n \in S : \A m \in S : n <= m
<1>1. PICK n \in S : \A m \in S : <<m, n>> \notin OpToRel(<, Nat)
  BY NatLessThanWellFounded, WFMin, Zenon
<1>2. \A m, k \in Nat : m < k => <<m, k>> \in OpToRel(<, Nat)
  BY Zenon DEF OpToRel
<1>3. \A m \in S : ~ (m < n)
  BY <1>1, <1>2, Zenon
<1> QED
  BY <1>3

\* f[i] is the concatenation of the first i of the sequences, for i up to n.
Flattens(f, seqs, n) ==
    f = [i \in 1..n |-> IF i = 1 THEN seqs[i] ELSE f[i - 1] \o seqs[i]]

\* Two functions agree on the first n numbers.
Agree(f, g, n) == \A i \in 1..n : f[i] = g[i]

\* There is such a function.
LEMMA FlattensExists ==
    ASSUME NEW seqs, NEW n \in Nat
    PROVE  \E f : Flattens(f, seqs, n)
<1> DEFINE Bad == {k \in Nat : ~ \E f : Flattens(f, seqs, k)}
<1> SUFFICES ASSUME Bad # {} PROVE FALSE
  OBVIOUS
<1>1. PICK k \in Bad : \A m \in Bad : k <= m
  <2>1. Bad \in SUBSET Nat
    OBVIOUS
  <2> QED
    BY <2>1, LeastNatural
<1>2. CASE k = 0
  <2>1. Flattens([i \in 1..0 |-> <<>>], seqs, 0)
    BY DEF Flattens
  <2> QED
    BY <1>2, <2>1
<1>3. CASE k # 0
  <2>1. k - 1 \in Nat /\ k - 1 \notin Bad
    BY <1>1, <1>3
  <2>2. PICK g : Flattens(g, seqs, k - 1)
    BY <2>1
  <2> DEFINE f == [i \in 1..k |-> IF i = k THEN IF k = 1 THEN seqs[1] ELSE g[k - 1] \o seqs[k]
                                           ELSE g[i]]
  <2>3. \A i \in 1..(k - 1) : g[i] = IF i = 1 THEN seqs[i] ELSE g[i - 1] \o seqs[i]
    BY <2>2 DEF Flattens
  <2>4. ASSUME NEW i \in 1..k
        PROVE  f[i] = IF i = 1 THEN seqs[i] ELSE f[i - 1] \o seqs[i]
    <3>1. CASE i = k
      BY <1>3, <3>1
    <3>2. CASE i # k
      <4>1. i \in 1..(k - 1) /\ i - 1 \in Int /\ (i # 1 => i - 1 \in 1..k /\ i - 1 # k)
        BY <3>2
      <4>2. f[i] = g[i] /\ (i # 1 => f[i - 1] = g[i - 1])
        BY <3>2, <4>1
      <4> QED
        BY <2>3, <4>1, <4>2
    <3> QED
      BY <3>1, <3>2
  <2>5. f = [i \in 1..k |-> IF i = 1 THEN seqs[i] ELSE f[i - 1] \o seqs[i]]
    BY <2>4
  <2>6. Flattens(f, seqs, k)
    BY <2>5 DEF Flattens
  <2> QED
    BY <2>6
<1> QED
  BY <1>2, <1>3

\* It depends on no more of the sequences than it concatenates.
LEMMA FlattensUnique ==
    ASSUME NEW s, NEW t, NEW m \in Nat, NEW n \in Nat, NEW f, NEW g,
           Flattens(f, s, m), Flattens(g, t, n),
           NEW k \in Nat, k <= m, k <= n, Agree(s, t, k)
    PROVE  Agree(f, g, k)
<1> USE DEF Agree
<1> DEFINE Bad == {i \in 1..k : f[i] # g[i]}
<1> SUFFICES ASSUME Bad # {} PROVE FALSE
  OBVIOUS
<1>1. PICK i \in Bad : \A j \in Bad : i <= j
  <2>1. Bad \in SUBSET Nat
    OBVIOUS
  <2> QED
    BY <2>1, LeastNatural
<1>2. /\ f[i] = IF i = 1 THEN s[i] ELSE f[i - 1] \o s[i]
      /\ g[i] = IF i = 1 THEN t[i] ELSE g[i - 1] \o t[i]
  <2>1. i \in 1..m /\ i \in 1..n
    OBVIOUS
  <2>2. \A j \in 1..m : f[j] = IF j = 1 THEN s[j] ELSE f[j - 1] \o s[j]
    BY DEF Flattens
  <2>3. \A j \in 1..n : g[j] = IF j = 1 THEN t[j] ELSE g[j - 1] \o t[j]
    BY DEF Flattens
  <2> QED
    BY <2>1, <2>2, <2>3
<1>3. i # 1 => f[i - 1] = g[i - 1]
  BY <1>1
<1> QED
  BY <1>2, <1>3

\* FlattenSeq is the last of them.
LEMMA FlattenSeqIs ==
    ASSUME NEW seqs, Len(seqs) \in Nat \ {0}, NEW f, Flattens(f, seqs, Len(seqs))
    PROVE  FlattenSeq(seqs) = f[Len(seqs)]
<1> DEFINE n == Len(seqs)
           g == CHOOSE h : Flattens(h, seqs, n)
<1>1. Flattens(g, seqs, n)
  OBVIOUS
<1>2. FlattenSeq(seqs) = g[n]
  BY DEF FlattenSeq, Flattens
<1>3. Agree(g, f, n)
  <2>1. Agree(seqs, seqs, n)
    BY DEF Agree
  <2> HIDE DEF g
  <2> QED
    BY <1>1, <2>1, FlattensUnique
<1> QED
  BY <1>2, <1>3 DEF Agree

\* FlattenSeq of one more sequence.
LEMMA FlattenAppend ==
    ASSUME NEW S, NEW seqs \in Seq(Seq(S)), NEW last \in Seq(S)
    PROVE  /\ FlattenSeq(<<>>) = <<>>
           /\ FlattenSeq(Append(seqs, last)) = FlattenSeq(seqs) \o last
<1> DEFINE n == Len(seqs)
           longer == Append(seqs, last)
<1>0. FlattenSeq(<<>>) = <<>>
  BY DEF FlattenSeq
<1>1. /\ n \in Nat /\ Len(longer) = n + 1 /\ longer[n + 1] = last
      /\ \A i \in 1..n : longer[i] = seqs[i]
      /\ (n = 0 => seqs = <<>>)
      /\ n + 1 \in Nat \ {0}
  BY LenProperties, EmptySeq
<1> HIDE DEF n, longer
<1>2. PICK f : Flattens(f, longer, n + 1)
  BY <1>1, FlattensExists
<1>3. FlattenSeq(longer) = f[n + 1]
  <2>1. Len(longer) \in Nat \ {0} /\ Flattens(f, longer, Len(longer))
    BY <1>1, <1>2
  <2> QED
    BY <1>1, <2>1, FlattenSeqIs
<1>4. \A i \in 1..(n + 1) : f[i] = IF i = 1 THEN longer[i] ELSE f[i - 1] \o longer[i]
  BY <1>2 DEF Flattens
<1>5. f[n + 1] = IF n = 0 THEN last ELSE f[n] \o last
  BY <1>1, <1>4
<1>6. CASE n = 0
  <2>1. FlattenSeq(seqs) \o last = last
    BY <1>0, <1>1, <1>6, ConcatEmptySeq
  <2> QED
    BY <1>0, <1>3, <1>5, <1>6, <2>1 DEF longer
<1>7. CASE n # 0
  <2>1. PICK g : Flattens(g, seqs, n)
    BY <1>1, FlattensExists
  <2>2. FlattenSeq(seqs) = g[n]
    BY <1>1, <1>7, <2>1, FlattenSeqIs DEF n
  <2>3. \A i \in 1..n : f[i] = g[i]
    <3>1. n \in Nat /\ n + 1 \in Nat /\ n <= n + 1 /\ n <= n
      BY <1>1
    <3>2. Agree(longer, seqs, n)
      BY <1>1 DEF Agree
    <3>3. Agree(f, g, n)
      BY <1>2, <2>1, <3>1, <3>2, FlattensUnique
    <3> QED
      BY <3>3 DEF Agree
  <2>4. f[n] = g[n]
    BY <1>1, <1>7, <2>3
  <2> QED
    BY <1>0, <1>1, <1>3, <1>5, <1>7, <2>2, <2>4 DEF longer
<1> QED
  BY <1>6, <1>7

\* Sequences of single elements are put together to what they were.
LEMMA FlattenSingles ==
    ASSUME NEW S, NEW s \in Seq(S)
    PROVE  FlattenSeq([i \in DOMAIN s |-> <<s[i]>>]) = s
<1> DEFINE singles == [i \in DOMAIN s |-> <<s[i]>>]
           n == Len(s)
           f == [i \in 1..n |-> SubSeq(s, 1, i)]
<1>1. n \in Nat /\ DOMAIN s = 1..n /\ \A i \in 1..n : s[i] \in S
  BY LenProperties, ElementOfSeq
<1>2. singles \in Seq(Seq(S)) /\ Len(singles) = n
  BY <1>1
<1>3. CASE n = 0
  <2>1. s = <<>> /\ singles = <<>>
    BY <1>2, <1>3, EmptySeq
  <2> QED
    BY <2>1 DEF FlattenSeq
<1>4. CASE n # 0
  <2>1. ASSUME NEW i \in 1..n
        PROVE  f[i] = IF i = 1 THEN singles[i] ELSE f[i - 1] \o singles[i]
    <3>1. CASE i = 1
      <4>1. SubSeq(s, 1, 1) = SubSeq(s, 1, 0) \o <<s[1]>> /\ SubSeq(s, 1, 0) = <<>>
        BY <1>1, <3>1, SubSeqRecursiveSecond, SubSeqEmpty
      <4>2. <<s[1]>> \in Seq(S)
        BY <1>1, <3>1
      <4>3. SubSeq(s, 1, 1) = <<s[1]>>
        BY <4>1, <4>2, ConcatEmptySeq
      <4> QED
        BY <1>1, <3>1, <4>3
    <3>2. CASE i # 1
      <4>1. SubSeq(s, 1, i) = SubSeq(s, 1, i - 1) \o <<s[i]>>
        BY <1>1, SubSeqRecursiveSecond
      <4>2. i - 1 \in 1..n
        BY <1>1, <3>2
      <4> QED
        BY <1>1, <3>2, <4>1, <4>2
    <3> QED
      BY <3>1, <3>2
  <2>2. Flattens(f, singles, n)
    BY <2>1 DEF Flattens
  <2>3. FlattenSeq(singles) = f[n]
    <3> HIDE DEF f, singles
    <3> QED BY <1>1, <1>2, <1>4, <2>2, FlattenSeqIs
  <2>4. f[n] = s
    BY <1>1, <1>4, SubSeqFull
  <2> QED
    BY <2>3, <2>4
<1> QED
  BY <1>3, <1>4

\* A sequence is what comes before its last element, and that.
LEMMA LastApart ==
    ASSUME NEW S, NEW s \in Seq(S), s # <<>>
    PROVE  LET front == SubSeq(s, 1, Len(s) - 1)
           IN  /\ Len(s) \in Nat \ {0} /\ front \in Seq(S) /\ Len(front) = Len(s) - 1
               /\ s[Len(s)] \in S /\ s = Append(front, s[Len(s)])
<1> DEFINE n == Len(s)
           front == SubSeq(s, 1, n - 1)
<1>1. n \in Nat \ {0} /\ \A i \in 1..n : s[i] \in S
  BY EmptySeq, LenProperties, ElementOfSeq
<1>2. front \in Seq(S) /\ Len(front) = n - 1 /\ \A i \in 1..(n - 1) : front[i] = s[i]
  <2>1. 1 \in Int /\ n - 1 \in Int /\ \A i \in 1..(n - 1) : s[i] \in S
    BY <1>1
  <2>2. /\ front \in Seq(S) /\ Len(front) = IF 1 <= n - 1 THEN n - 1 - 1 + 1 ELSE 0
        /\ \A i \in 1..(n - 1 - 1 + 1) : front[i] = s[1 + i - 1]
    BY <2>1, SubSeqProperties
  <2> HIDE DEF front, n
  <2>3. n - 1 - 1 + 1 = n - 1 /\ (IF 1 <= n - 1 THEN n - 1 - 1 + 1 ELSE 0) = n - 1
    BY <1>1
  <2>4. \A i \in 1..(n - 1) : 1 + i - 1 = i
    BY <1>1
  <2> QED
    BY <2>2, <2>3, <2>4
<1>3. /\ Append(front, s[n]) \in Seq(S) /\ Len(Append(front, s[n])) = n
      /\ \A i \in 1..n : Append(front, s[n])[i] = s[i]
  <2> HIDE DEF front
  <2> QED
    BY <1>1, <1>2, AppendProperties
<1>4. s = Append(front, s[n])
  <2> HIDE DEF front
  <2> QED
    BY <1>1, <1>3, SeqEqual
<1> QED
  BY <1>1, <1>2, <1>4

\* What is put together has the elements of its parts.
LEMMA FlattenTyped ==
    ASSUME NEW S, NEW seqs \in Seq(Seq(S))
    PROVE  FlattenSeq(seqs) \in Seq(S)
<1> DEFINE Bad == {k \in Nat : \E t \in Seq(Seq(S)) : Len(t) = k /\ FlattenSeq(t) \notin Seq(S)}
<1> SUFFICES ASSUME Bad # {} PROVE FALSE
  <2>1. Len(seqs) \in Nat
    BY LenProperties
  <2> QED
    BY <2>1
<1>1. PICK k \in Bad : \A m \in Bad : k <= m
  <2>1. Bad \in SUBSET Nat
    OBVIOUS
  <2> QED
    BY <2>1, LeastNatural
<1>2. PICK t \in Seq(Seq(S)) : Len(t) = k /\ FlattenSeq(t) \notin Seq(S)
  BY <1>1
<1>3. t # <<>>
  BY <1>2, FlattenAppend, EmptySeq
<1> DEFINE front == SubSeq(t, 1, Len(t) - 1)
           last == t[Len(t)]
<1>4. /\ Len(t) \in Nat \ {0} /\ front \in Seq(Seq(S)) /\ Len(front) = Len(t) - 1
      /\ last \in Seq(S) /\ t = Append(front, last)
  BY <1>3, LastApart
<1> HIDE DEF front, last
<1>5. FlattenSeq(front) \in Seq(S)
  BY <1>1, <1>2, <1>4
<1>6. FlattenSeq(t) = FlattenSeq(front) \o last
  BY <1>4, FlattenAppend
<1> QED
  BY <1>2, <1>4, <1>5, <1>6, ConcatProperties

\* The first of the sequences comes first.
LEMMA FlattenFirst ==
    ASSUME NEW S, NEW first \in Seq(S), NEW seqs \in Seq(Seq(S))
    PROVE  FlattenSeq(<<first>> \o seqs) = first \o FlattenSeq(seqs)
<1> DEFINE Bad == {k \in Nat : \E t \in Seq(Seq(S)) :
                      Len(t) = k /\ FlattenSeq(<<first>> \o t) # first \o FlattenSeq(t)}
<1> SUFFICES ASSUME Bad # {} PROVE FALSE
  <2>1. Len(seqs) \in Nat
    BY LenProperties
  <2> QED
    BY <2>1
<1>1. PICK k \in Bad : \A m \in Bad : k <= m
  <2>1. Bad \in SUBSET Nat
    OBVIOUS
  <2> QED
    BY <2>1, LeastNatural
<1>2. PICK t \in Seq(Seq(S)) : Len(t) = k /\ FlattenSeq(<<first>> \o t) # first \o FlattenSeq(t)
  BY <1>1
<1>3. <<first>> \in Seq(Seq(S)) /\ <<first>> = Append(<<>>, first) /\ <<>> \in Seq(Seq(S))
  BY EmptySeq
<1>4. FlattenSeq(<<first>>) = first
  <2>1. FlattenSeq(Append(<<>>, first)) = FlattenSeq(<<>>) \o first /\ FlattenSeq(<<>>) = <<>>
    BY <1>3, FlattenAppend
  <2> QED
    BY <1>3, <2>1, ConcatEmptySeq
<1>5. t # <<>>
  <2> SUFFICES ASSUME t = <<>> PROVE FALSE
    OBVIOUS
  <2>1. <<first>> \o t = <<first>> /\ FlattenSeq(t) = <<>> /\ first \o <<>> = first
    BY <1>3, FlattenAppend, ConcatEmptySeq
  <2> QED
    BY <1>2, <1>4, <2>1
<1> DEFINE front == SubSeq(t, 1, Len(t) - 1)
           last == t[Len(t)]
<1>6. /\ Len(t) \in Nat \ {0} /\ front \in Seq(Seq(S)) /\ Len(front) = Len(t) - 1
      /\ last \in Seq(S) /\ t = Append(front, last)
  BY <1>5, LastApart
<1> HIDE DEF front, last
<1>7. FlattenSeq(<<first>> \o front) = first \o FlattenSeq(front)
  <2>1. Len(front) \in Nat /\ Len(front) < k
    BY <1>2, <1>6
  <2>2. Len(front) \notin Bad
    <3>1. k \in Nat /\ \A m \in Bad : k <= m
      BY <1>1
    <3> HIDE DEF Bad
    <3> QED
      BY <2>1, <3>1
  <2> QED
    BY <1>6, <2>1, <2>2
<1> HIDE DEF Bad
<1>8. <<first>> \o t = Append(<<first>> \o front, last) /\ <<first>> \o front \in Seq(Seq(S))
  <2>1. <<last>> \in Seq(Seq(S)) /\ Append(front, last) = front \o <<last>>
    BY <1>6
  <2>2. <<first>> \o front \in Seq(Seq(S))
    BY <1>3, <1>6, ConcatProperties
  <2>3. Append(<<first>> \o front, last) = (<<first>> \o front) \o <<last>>
    BY <1>6, <2>2, AppendIsConcat
  <2>4. (<<first>> \o front) \o <<last>> = <<first>> \o (front \o <<last>>)
    BY <1>3, <1>6, <2>1, ConcatAssociative
  <2> QED
    BY <1>6, <2>1, <2>2, <2>3, <2>4
<1>9. FlattenSeq(<<first>> \o t) = (first \o FlattenSeq(front)) \o last
  BY <1>6, <1>7, <1>8, FlattenAppend
<1>10. FlattenSeq(t) = FlattenSeq(front) \o last /\ FlattenSeq(front) \in Seq(S)
  BY <1>6, FlattenAppend, FlattenTyped
<1>11. (first \o FlattenSeq(front)) \o last = first \o (FlattenSeq(front) \o last)
  <2>1. FlattenSeq(front) \in Seq(S) /\ last \in Seq(S)
    BY <1>6, <1>10
  <2> QED
    BY <2>1, ConcatAssociative
<1> QED
  BY <1>2, <1>9, <1>10, <1>11

\* One more of the sequences makes what is put together longer by it.
LEMMA FlattenNext ==
    ASSUME NEW S, NEW seqs \in Seq(Seq(S)), NEW n \in Nat, n < Len(seqs)
    PROVE  /\ FlattenSeq(SubSeq(seqs, 1, 0)) = <<>>
           /\ FlattenSeq(SubSeq(seqs, 1, n)) \in Seq(S)
           /\ FlattenSeq(SubSeq(seqs, 1, n + 1)) = FlattenSeq(SubSeq(seqs, 1, n)) \o seqs[n + 1]
<1> DEFINE front == SubSeq(seqs, 1, n)
<1>1. Len(seqs) \in Nat /\ \A i \in 1..Len(seqs) : seqs[i] \in Seq(S)
  BY LenProperties, ElementOfSeq
<1>2. front \in Seq(Seq(S)) /\ seqs[n + 1] \in Seq(S)
  BY <1>1, SubSeqProperties
<1>3. SubSeq(seqs, 1, n + 1) = Append(front, seqs[n + 1])
  <2>1. SubSeq(seqs, 1, n + 1) = SubSeq(seqs, 1, n) \o <<seqs[n + 1]>>
    BY <1>1, SubSeqRecursiveSecond
  <2>2. front \o <<seqs[n + 1]>> = Append(front, seqs[n + 1])
    <3> HIDE DEF front
    <3> QED BY <1>2
  <2> QED
    BY <2>1, <2>2
<1>4. SubSeq(seqs, 1, 0) = <<>>
  BY SubSeqEmpty
<1> HIDE DEF front
<1>5. /\ FlattenSeq(<<>>) = <<>> /\ FlattenSeq(front) \in Seq(S)
      /\ FlattenSeq(Append(front, seqs[n + 1])) = FlattenSeq(front) \o seqs[n + 1]
  BY <1>2, FlattenAppend, FlattenTyped
<1> QED
  BY <1>3, <1>4, <1>5 DEF front

\* A prefix is where the longer sequence begins.
LEMMA PrefixIs ==
    ASSUME NEW S, NEW s \in Seq(S), NEW t \in Seq(S), IsPrefix(s, t)
    PROVE  Len(s) <= Len(t) /\ \A k \in 1..Len(s) : s[k] = t[k]
<1>1. /\ Len(s) \in Nat /\ Len(t) \in Nat /\ Len(s) <= Len(t)
      /\ SubSeq(s, 1, Len(s)) = SubSeq(t, 1, Len(s))
  BY LenProperties DEF IsPrefix
<1>2. SubSeq(s, 1, Len(s)) = s
  BY SubSeqFull
<1>3. \A k \in 1..Len(s) : SubSeq(t, 1, Len(s))[k] = t[k]
  <2>1. 1 \in Int /\ Len(s) \in Int /\ \A k \in 1..Len(s) : t[k] \in S
    BY <1>1, ElementOfSeq
  <2>2. \A k \in 1..(Len(s) - 1 + 1) : SubSeq(t, 1, Len(s))[k] = t[1 + k - 1]
    BY <2>1, SubSeqProperties
  <2>3. Len(s) - 1 + 1 = Len(s) /\ \A k \in 1..Len(s) : 1 + k - 1 = k
    BY <1>1
  <2> QED
    BY <2>2, <2>3
<1> QED
  BY <1>1, <1>2, <1>3

\* What begins as the shorter sequence has it as a prefix.
LEMMA PrefixAgrees ==
    ASSUME NEW S, NEW s \in Seq(S), NEW t \in Seq(S)
    PROVE  IsPrefix(s, t) <=> Len(s) <= Len(t) /\ \A k \in 1..Len(s) : s[k] = t[k]
<1> SUFFICES ASSUME Len(s) <= Len(t), \A k \in 1..Len(s) : s[k] = t[k]
             PROVE  IsPrefix(s, t)
  BY PrefixIs
<1> DEFINE u == SubSeq(t, 1, Len(s))
<1>1. Len(s) \in Nat /\ Len(t) \in Nat /\ SubSeq(s, 1, Len(s)) = s
  BY LenProperties, SubSeqFull
<1>2. u \in Seq(S) /\ Len(u) = Len(s) /\ \A k \in 1..Len(s) : u[k] = t[k]
  <2>1. 1 \in Int /\ Len(s) \in Int /\ \A k \in 1..Len(s) : t[k] \in S
    BY <1>1, ElementOfSeq
  <2>2. /\ u \in Seq(S) /\ Len(u) = (IF 1 <= Len(s) THEN Len(s) - 1 + 1 ELSE 0)
        /\ \A k \in 1..(Len(s) - 1 + 1) : u[k] = t[1 + k - 1]
    BY <2>1, SubSeqProperties
  <2>3. Len(s) - 1 + 1 = Len(s) /\ \A k \in 1..Len(s) : 1 + k - 1 = k
    BY <1>1
  <2> QED
    BY <1>1, <2>2, <2>3
<1>3. u = s
  <2> HIDE DEF u
  <2> QED
    BY <1>1, <1>2, SeqEqual
<1> QED
  BY <1>1, <1>3 DEF IsPrefix

=============================================================================
