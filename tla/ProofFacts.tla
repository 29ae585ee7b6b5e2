----------------------------- MODULE ProofFacts -----------------------------
(***************************************************************************)
(* Facts about sequences and sets of numbers that the proofs of several    *)
(* components cite.                                                        *)
(***************************************************************************)
EXTENDS Integers, Sequences, SequencesExt, SequenceTheorems, WellFoundedInduction, TLAPS

-----------------------------------------------------------------------------
(* Sequences.                                                               *)

\* Moving the head of one sequence to the end of another keeps their
\* concatenation: a message that goes from the queue to the packet.
LEMMA MoveHead ==
  ASSUME NEW S, NEW p \in Seq(S), NEW q \in Seq(S), q # << >>
  PROVE  /\ Append(p, Head(q)) \in Seq(S) /\ Tail(q) \in Seq(S)
         /\ Append(p, Head(q)) \o Tail(q) = p \o q
         /\ Len(Append(p, Head(q))) = Len(p) + 1
         /\ Head(q) \in S
<1>1. Head(q) \in S /\ Tail(q) \in Seq(S) /\ q = <<Head(q)>> \o Tail(q)
  BY HeadTailProperties, HeadTailAppend, ConcatProperties
<1>2. Append(p, Head(q)) = p \o <<Head(q)>>
  BY <1>1, AppendIsConcat
<1>3. (p \o <<Head(q)>>) \o Tail(q) = p \o (<<Head(q)>> \o Tail(q))
  BY <1>1, ConcatAssociative
<1> QED
  BY <1>1, <1>2, <1>3, AppendProperties

\* A sequence cut in two is the concatenation of the parts: a packet of which
\* write() took only a prefix.
LEMMA SplitAt ==
  ASSUME NEW S, NEW s \in Seq(S), NEW n \in 0 .. Len(s)
  PROVE  /\ SubSeq(s, 1, n) \in Seq(S) /\ SubSeq(s, n + 1, Len(s)) \in Seq(S)
         /\ SubSeq(s, 1, n) \o SubSeq(s, n + 1, Len(s)) = s
         /\ Len(SubSeq(s, 1, n)) = n
<1>1. Len(s) \in Nat /\ \A i \in 1 .. Len(s) : s[i] \in S
  BY LenProperties, ElementOfSeq
<1>2. /\ SubSeq(s, 1, n) \in Seq(S)
      /\ Len(SubSeq(s, 1, n)) = n
  <2>1. \A i \in 1 .. n : s[i] \in S
    BY <1>1
  <2> QED
    BY <1>1, <2>1, SubSeqProperties
<1>3. SubSeq(s, n + 1, Len(s)) \in Seq(S)
  <2>1. \A i \in n + 1 .. Len(s) : s[i] \in S
    BY <1>1
  <2> QED
    BY <1>1, <2>1, SubSeqProperties
<1>4. SubSeq(s, 1, n) \o SubSeq(s, n + 1, Len(s)) = SubSeq(s, 1, Len(s))
  <2>1. /\ 1 \in 1 .. Len(s) + 1
        /\ n \in 1 - 1 .. Len(s)
        /\ Len(s) \in n .. Len(s)
    BY <1>1
  <2> QED
    BY <2>1, ConcatAdjacentSubSeq
<1> QED
  BY <1>2, <1>3, <1>4, SubSeqFull

\* Appending to the last of two sequences appends to their concatenation: a
\* push to the queue.
LEMMA AppendConcat ==
  ASSUME NEW S, NEW s \in Seq(S), NEW t \in Seq(S), NEW m \in S
  PROVE  s \o Append(t, m) = Append(s \o t, m)
<1>1. <<m>> \in Seq(S) /\ s \o t \in Seq(S)
  BY ConcatProperties
<1>2. Append(t, m) = t \o <<m>> /\ Append(s \o t, m) = (s \o t) \o <<m>>
  BY <1>1, AppendIsConcat
<1>3. s \o (t \o <<m>>) = (s \o t) \o <<m>>
  BY <1>1, ConcatAssociative
<1> QED
  BY <1>2, <1>3

-----------------------------------------------------------------------------
(* Sets of numbers.                                                         *)

\* What has the least of its numbers first, as a search that stops at the first hit,
\* exists: a set of natural numbers has a least element.
LEMMA Smallest ==
  ASSUME NEW S \in SUBSET Nat, S # {}
  PROVE  \E m \in S : \A k \in S : m <= k
<1> DEFINE R == {ss \in Nat \X Nat : ss[1] < ss[2]}
<1>1. IsWellFoundedOn(R, Nat)
  BY NatLessThanWellFounded DEF OpToRel
<1>2. \E m \in S : \A k \in S : ~ (<<k, m>> \in R)
  <2> HIDE DEF R
  <2> QED
    BY <1>1, WFMin
<1>3. PICK m \in S : \A k \in S : ~ (<<k, m>> \in R)
  BY <1>2
<1>4. ASSUME NEW k \in S
      PROVE  m <= k
  <2>1. m \in Nat /\ k \in Nat
    OBVIOUS
  <2>2. ~ (k < m)
    BY <1>3, <2>1
  <2> QED
    BY <2>1, <2>2
<1> QED
  BY <1>4

\* A set of natural numbers below a bound has a largest element.
LEMMA Largest ==
  ASSUME NEW S \in SUBSET Nat, S # {}, NEW n \in Nat, \A k \in S : k <= n
  PROVE  \E m \in S : \A k \in S : k <= m
<1> DEFINE T == {n - k : k \in S}
<1>1. T \in SUBSET Nat /\ T # {}
  <2>1. ASSUME NEW k \in S
        PROVE  n - k \in Nat
    <3>1. k \in Nat /\ k <= n
      OBVIOUS
    <3> QED
      BY <3>1
  <2> QED
    BY <2>1
<1>2. PICK d \in T : \A e \in T : d <= e
  BY <1>1, Smallest
<1>3. PICK m \in S : d = n - m
  BY <1>2
<1>4. ASSUME NEW k \in S
      PROVE  k <= m
  <2>1. n - k \in T /\ k \in Nat /\ m \in Nat
    OBVIOUS
  <2>2. n - m <= n - k
    BY <1>2, <1>3, <2>1
  <2> QED
    BY <2>1, <2>2
<1> QED
  BY <1>4

-----------------------------------------------------------------------------
(* Folds.  The library's induction takes a predicate as a parameter; with   *)
(* the set of the numbers that satisfy it, the same follows from Smallest.  *)

\* What holds at 0 and goes from each number to the next holds up to the bound.
LEMMA Stepwise ==
  ASSUME NEW n \in Nat, NEW P, 0 \in P, \A k \in 0 .. n - 1 : k \in P => k + 1 \in P
  PROVE  \A k \in 0 .. n : k \in P
<1> DEFINE Bad == {k \in 0 .. n : k \notin P}
<1> SUFFICES ASSUME Bad # {} PROVE FALSE
  OBVIOUS
<1>1. Bad \in SUBSET Nat
  OBVIOUS
<1>2. PICK m \in Bad : \A k \in Bad : m <= k
  BY <1>1, Smallest
<1>3. m \in 0 .. n /\ m \notin P /\ m # 0
  BY <1>2
<1>4. m - 1 \in 0 .. n - 1
  BY <1>3
<1>5. m - 1 \in P
  BY <1>2, <1>3, <1>4
<1> QED
  BY <1>3, <1>4, <1>5

\* As FiniteSetsExt defines Max.
Greatest(s) == CHOOSE x \in s : \A y \in s : x >= y

\* The greatest of a nonempty set of numbers up to N is one of them.
LEMMA GreatestOf ==
  ASSUME NEW n \in Nat, NEW s \in SUBSET (1 .. n), s # {}
  PROVE  Greatest(s) \in s /\ \A y \in s : Greatest(s) >= y
<1>1. s \in SUBSET Nat /\ \A k \in s : k <= n
  OBVIOUS
<1>2. PICK m \in s : \A k \in s : k <= m
  BY <1>1, Largest
<1>3. \A k \in s : m >= k
  BY <1>1, <1>2
<1> QED
  BY <1>3 DEF Greatest

\* Is f the recursive function by which a fold over the first n elements is defined?
Folds(G, base, list, n, f) ==
  \A s \in SUBSET (1 .. n) :
    f[s] = IF s = {} THEN base
           ELSE G[<<f[s \ {Greatest(s)}], list[Greatest(s)]>>]

\* It exists: G is the operation.
LEMMA FoldExists ==
  ASSUME NEW T, NEW D, NEW G \in [T \X D -> T], NEW base \in T, NEW list \in Seq(D)
  PROVE  \E f \in [SUBSET (1 .. Len(list)) -> T] : Folds(G, base, list, Len(list), f)
<1> DEFINE P == {n \in 0 .. Len(list) :
                   \E f \in [SUBSET (1 .. n) -> T] : Folds(G, base, list, n, f)}
<1>1. Len(list) \in Nat
      /\ \A i \in 1 .. Len(list) : list[i] \in D
  BY LenProperties, ElementOfSeq
<1>2. 0 \in P
  <2> DEFINE f == [s \in SUBSET (1 .. 0) |-> base]
  <2>1. SUBSET (1 .. 0) = {{}}
    OBVIOUS
  <2>2. f \in [SUBSET (1 .. 0) -> T] /\ Folds(G, base, list, 0, f)
    BY <2>1 DEF Folds
  <2>3. 0 \in 0 .. Len(list)
    BY <1>1
  <2> HIDE DEF f
  <2> QED
    BY <2>2, <2>3
<1>3. ASSUME NEW n \in 0 .. Len(list) - 1, n \in P PROVE n + 1 \in P
  <2>1. PICK f \in [SUBSET (1 .. n) -> T] : Folds(G, base, list, n, f)
    BY <1>3
  <2> DEFINE g == [s \in SUBSET (1 .. n + 1) |->
                     IF n + 1 \in s THEN G[<<f[s \ {n + 1}], list[n + 1]>>] ELSE f[s]]
  <2>2. n \in Nat /\ n + 1 \in 1 .. Len(list) /\ n + 1 \in 0 .. Len(list) /\ list[n + 1] \in D
    BY <1>1
  <2>3. ASSUME NEW s \in SUBSET (1 .. n + 1)
        PROVE  s \ {n + 1} \in SUBSET (1 .. n) /\ (n + 1 \notin s => s \in SUBSET (1 .. n))
    BY <2>2
  <2>4. g \in [SUBSET (1 .. n + 1) -> T]
    BY <2>1, <2>2, <2>3
  <2>5. ASSUME NEW s \in SUBSET (1 .. n + 1)
        PROVE  g[s] = IF s = {} THEN base
                      ELSE G[<<g[s \ {Greatest(s)}], list[Greatest(s)]>>]
    <3>1. CASE n + 1 \in s
      <4>1. Greatest(s) \in s /\ \A y \in s : Greatest(s) >= y
        <5>1. n + 1 \in Nat /\ s \in SUBSET (1 .. n + 1) /\ s # {}
          BY <2>2, <3>1
        <5>2. \A m \in Nat : \A r \in SUBSET (1 .. m) :
                r # {} => Greatest(r) \in r /\ \A y \in r : Greatest(r) >= y
          BY ONLY GreatestOf
        <5> HIDE DEF g, P
        <5> QED
          BY <5>1, <5>2
      <4>2. Greatest(s) = n + 1
        <5>1. Greatest(s) \in 1 .. n + 1 /\ Greatest(s) >= n + 1
          BY <3>1, <4>1
        <5> QED
          BY <2>2, <5>1
      <4>3. s \ {n + 1} \in SUBSET (1 .. n + 1) /\ n + 1 \notin s \ {n + 1}
        OBVIOUS
      <4>4. g[s \ {n + 1}] = f[s \ {n + 1}]
        BY <4>3
      <4> QED
        BY <3>1, <4>2, <4>4
    <3>2. CASE n + 1 \notin s /\ s # {}
      <4>1. s \in SUBSET (1 .. n)
        BY <2>3, <3>2
      <4>2. s \ {Greatest(s)} \in SUBSET (1 .. n) /\ s \ {Greatest(s)} \in SUBSET (1 .. n + 1)
            /\ n + 1 \notin s \ {Greatest(s)}
        BY <3>2, <4>1
      <4>3. g[s \ {Greatest(s)}] = f[s \ {Greatest(s)}] /\ g[s] = f[s]
        BY <3>2, <4>2
      <4> QED
        BY <2>1, <3>2, <4>1, <4>3 DEF Folds
    <3>3. CASE s = {}
      BY <2>1, <2>2, <3>3 DEF Folds
    <3> QED
      BY <3>1, <3>2, <3>3
  <2>6. Folds(G, base, list, n + 1, g)
    BY <2>5 DEF Folds
  <2> QED
    BY <2>2, <2>4, <2>6
<1>4. Len(list) \in P
  <2> HIDE DEF P
  <2>1. \A k \in 0 .. Len(list) : k \in P
    BY <1>1, <1>2, <1>3, Stepwise
  <2> QED
    BY <1>1, <2>1
<1> QED
  BY <1>1, <1>4

\* The values that a fold goes through, one for each prefix of the list.
Path(G, base, list, p) ==
  p[0] = base /\ \A k \in 1 .. Len(list) : p[k] = G[<<p[k - 1], list[k]>>]

\* A function applied to a list element by element goes through a path of values.
LEMMA PathExists ==
  ASSUME NEW T, NEW D, NEW G \in [T \X D -> T], NEW base \in T, NEW list \in Seq(D)
  PROVE  \E p \in [0 .. Len(list) -> T] : Path(G, base, list, p)
<1>1. Len(list) \in Nat /\ DOMAIN list = 1 .. Len(list)
  BY LenProperties
<1>2. PICK f \in [SUBSET (1 .. Len(list)) -> T] : Folds(G, base, list, Len(list), f)
  BY FoldExists
<1> DEFINE p == [k \in 0 .. Len(list) |-> f[1 .. k]]
<1>3. \A k \in 0 .. Len(list) : 1 .. k \in SUBSET (1 .. Len(list))
  BY <1>1
<1>4. p \in [0 .. Len(list) -> T]
  BY <1>2, <1>3
<1>5. p[0] = base
  <2>1. 1 .. 0 = {} /\ 0 \in 0 .. Len(list)
    BY <1>1
  <2> QED
    BY <1>2, <1>3, <2>1 DEF Folds
<1>6. ASSUME NEW k \in 1 .. Len(list) PROVE p[k] = G[<<p[k - 1], list[k]>>]
  <2>1. k \in 0 .. Len(list) /\ k - 1 \in 0 .. Len(list) /\ k \in Nat /\ k \in 1 .. k
    BY <1>1
  <2>2. Greatest(1 .. k) = k
    <3>1. Greatest(1 .. k) \in 1 .. k /\ Greatest(1 .. k) >= k
      BY <2>1, GreatestOf
    <3> QED
      BY <2>1, <3>1
  <2>3. (1 .. k) \ {k} = 1 .. (k - 1)
    BY <2>1
  <2> QED
    BY <1>2, <1>3, <2>1, <2>2, <2>3 DEF Folds
<1> HIDE DEF p
<1> QED
  BY <1>4, <1>5, <1>6 DEF Path

\* The greatest of the numbers 1 .. k is k, and 1 .. k - 1 are the others.
LEMMA GreatestUpTo ==
  ASSUME NEW k \in Nat \ {0}
  PROVE  Greatest(1 .. k) = k /\ (1 .. k) \ {k} = 1 .. (k - 1)
<1>1. 1 .. k \in SUBSET (1 .. k) /\ k \in 1 .. k
  OBVIOUS
<1>2. Greatest(1 .. k) \in 1 .. k /\ Greatest(1 .. k) >= k
  BY <1>1, GreatestOf
<1> QED
  BY <1>2

\* A recursive function of sets follows a path: at the first k elements, if it was on the
\* path before.  It need not be typed: that is how a fold's own function is known at first.
Follows(f, p, n) ==
  f[{}] = p[0] /\ \A k \in 1 .. n : f[1 .. (k - 1)] = p[k - 1] => f[1 .. k] = p[k]

\* Then it is on the path all along.
LEMMA FoldIsPath ==
  ASSUME NEW n \in Nat, NEW f, NEW p, Follows(f, p, n)
  PROVE  f[1 .. n] = p[n]
<1> DEFINE P == {k \in 0 .. n : f[1 .. k] = p[k]}
<1>1. 0 \in P
  <2>1. 1 .. 0 = {} /\ 0 \in 0 .. n
    OBVIOUS
  <2> QED
    BY <2>1 DEF Follows
<1>2. ASSUME NEW k \in 0 .. n - 1, k \in P PROVE k + 1 \in P
  <2>1. k + 1 \in 1 .. n /\ k + 1 - 1 = k /\ k + 1 \in 0 .. n
    OBVIOUS
  <2>2. f[1 .. (k + 1)] = p[k + 1]
    BY <1>2, <2>1 DEF Follows
  <2> QED
    BY <2>1, <2>2
<1>3. \A k \in 0 .. n : k \in P
  <2> HIDE DEF P
  <2> QED
    BY <1>1, <1>2, Stepwise
<1> QED
  BY <1>3

-----------------------------------------------------------------------------
(* Prefixes.                                                                *)

\* A prefix of a sequence is a sequence of its first elements.
LEMMA PrefixOf ==
  ASSUME NEW S, NEW s \in Seq(S), NEW k \in 0 .. Len(s)
  PROVE  /\ SubSeq(s, 1, k) \in Seq(S) /\ Len(SubSeq(s, 1, k)) = k
         /\ \A i \in 1 .. k : SubSeq(s, 1, k)[i] = s[i]
<1>1. Len(s) \in Nat /\ k \in Int /\ \A i \in 1 .. k : s[i] \in S
  BY LenProperties, ElementOfSeq
<1>2. /\ SubSeq(s, 1, k) \in Seq(S)
      /\ Len(SubSeq(s, 1, k)) = IF 1 <= k THEN k - 1 + 1 ELSE 0
      /\ \A i \in 1 .. k - 1 + 1 : SubSeq(s, 1, k)[i] = s[1 + i - 1]
  BY <1>1, SubSeqProperties
<1> QED
  BY <1>1, <1>2

\* A prefix grows by the next element.
LEMMA PrefixGrows ==
  ASSUME NEW S, NEW s \in Seq(S), NEW k \in 1 .. Len(s)
  PROVE  Append(SubSeq(s, 1, k - 1), s[k]) = SubSeq(s, 1, k)
<1>1. 1 \in 1 .. Len(s) /\ k \in 1 .. Len(s) /\ k - 1 \in 0 .. Len(s) /\ s[k] \in S
  BY LenProperties, ElementOfSeq
<1>2. SubSeq(s, 1, k) = SubSeq(s, 1, k - 1) \o <<s[k]>>
  BY <1>1, SubSeqRecursiveSecond
<1>3. SubSeq(s, 1, k - 1) \in Seq(S)
  BY <1>1, PrefixOf
<1> QED
  BY <1>1, <1>2, <1>3, AppendIsConcat

\* The prefixes of a sequence that has got one more element.
LEMMA PrefixOfAppend ==
  ASSUME NEW S, NEW s \in Seq(S), NEW e \in S, NEW k \in 0 .. Len(s)
  PROVE  SubSeq(Append(s, e), 1, k) = SubSeq(s, 1, k)
<1>1. /\ Append(s, e) \in Seq(S) /\ Len(Append(s, e)) = Len(s) + 1
      /\ \A i \in 1 .. Len(s) : Append(s, e)[i] = s[i]
      /\ Len(s) \in Nat
  BY AppendProperties, LenProperties
<1>2. k \in 0 .. Len(Append(s, e))
  BY <1>1
<1>3. /\ SubSeq(Append(s, e), 1, k) \in Seq(S) /\ Len(SubSeq(Append(s, e), 1, k)) = k
      /\ \A i \in 1 .. k : SubSeq(Append(s, e), 1, k)[i] = Append(s, e)[i]
  BY <1>1, <1>2, PrefixOf
<1>4. /\ SubSeq(s, 1, k) \in Seq(S) /\ Len(SubSeq(s, 1, k)) = k
      /\ \A i \in 1 .. k : SubSeq(s, 1, k)[i] = s[i]
  BY PrefixOf
<1>5. \A i \in 1 .. k : SubSeq(Append(s, e), 1, k)[i] = SubSeq(s, 1, k)[i]
  BY <1>1, <1>3, <1>4
<1> QED
  BY <1>3, <1>4, <1>5, SeqEqual

\* The prefixes of the tail are the tails of the prefixes.
LEMMA PrefixOfTail ==
  ASSUME NEW S, NEW s \in Seq(S), s # << >>, NEW k \in 0 .. Len(s) - 1
  PROVE  /\ SubSeq(s, 1, k + 1) \in Seq(S) /\ SubSeq(s, 1, k + 1) # << >>
         /\ Head(SubSeq(s, 1, k + 1)) = Head(s)
         /\ Tail(SubSeq(s, 1, k + 1)) = SubSeq(Tail(s), 1, k)
<1> DEFINE p == SubSeq(s, 1, k + 1)
<1>1. Len(s) \in Nat /\ k + 1 \in 0 .. Len(s) /\ k \in Nat
  BY LenProperties
<1>2. /\ p \in Seq(S) /\ Len(p) = k + 1 /\ \A i \in 1 .. k + 1 : p[i] = s[i]
  BY <1>1, PrefixOf
<1> HIDE DEF p
<1>3. p # << >>
  BY <1>1, <1>2, EmptySeq
<1>4. /\ Tail(s) \in Seq(S) /\ Len(Tail(s)) = Len(s) - 1
      /\ \A i \in 1 .. Len(s) - 1 : Tail(s)[i] = s[i + 1]
  BY HeadTailProperties
<1>5. /\ Tail(p) \in Seq(S) /\ Len(Tail(p)) = k
      /\ \A i \in 1 .. k : Tail(p)[i] = p[i + 1]
  <2>1. /\ Tail(p) \in Seq(S) /\ Len(Tail(p)) = Len(p) - 1
        /\ \A i \in 1 .. Len(Tail(p)) : Tail(p)[i] = p[i + 1]
    BY <1>2, <1>3, HeadTailProperties
  <2> QED
    BY <1>1, <1>2, <2>1
<1>6. /\ SubSeq(Tail(s), 1, k) \in Seq(S) /\ Len(SubSeq(Tail(s), 1, k)) = k
      /\ \A i \in 1 .. k : SubSeq(Tail(s), 1, k)[i] = Tail(s)[i]
  BY <1>4, PrefixOf
<1>7. \A i \in 1 .. k : Tail(p)[i] = SubSeq(Tail(s), 1, k)[i]
  <2> TAKE i \in 1 .. k
  <2>1. i \in 1 .. Len(s) - 1 /\ i + 1 \in 1 .. k + 1
    BY <1>1
  <2> QED
    BY <1>2, <1>4, <1>5, <1>6, <2>1
<1>8. Tail(p) = SubSeq(Tail(s), 1, k)
  BY <1>5, <1>6, <1>7, SeqEqual
<1>9. Head(p) = Head(s)
  <2>1. Head(p) = p[1] /\ Head(s) = s[1] /\ 1 \in 1 .. k + 1
    BY <1>1, <1>2, <1>3
  <2> QED
    BY <1>2, <2>1
<1> QED
  BY <1>2, <1>3, <1>8, <1>9 DEF p

-----------------------------------------------------------------------------
(* Ends and sums.                                                           *)

\* A sequence is its front and its last element.
LEMMA FrontAndLast ==
  ASSUME NEW S, NEW s \in Seq(S), s # << >>
  PROVE  /\ Front(s) \in Seq(S) /\ Last(s) \in S /\ s = Append(Front(s), Last(s))
         /\ Len(s) \in Nat \ {0} /\ Len(Front(s)) = Len(s) - 1 /\ Last(s) = s[Len(s)]
         /\ \A i \in 1 .. Len(s) - 1 : Front(s)[i] = s[i]
<1>1. Len(s) \in Nat \ {0}
  BY LenProperties, EmptySeq
<1>2. /\ Len(s) \in 1 .. Len(s) /\ Len(s) - 1 \in 0 .. Len(s) /\ Len(s) \in 0 .. Len(s)
      /\ s[Len(s)] \in S
  BY <1>1, ElementOfSeq
<1>3. /\ SubSeq(s, 1, Len(s) - 1) \in Seq(S) /\ Len(SubSeq(s, 1, Len(s) - 1)) = Len(s) - 1
      /\ \A i \in 1 .. Len(s) - 1 : SubSeq(s, 1, Len(s) - 1)[i] = s[i]
  BY <1>2, PrefixOf
<1>4. Append(SubSeq(s, 1, Len(s) - 1), s[Len(s)]) = SubSeq(s, 1, Len(s))
  BY <1>2, PrefixGrows
<1>5. SubSeq(s, 1, Len(s)) = s
  BY SubSeqFull
<1> QED
  BY <1>1, <1>2, <1>3, <1>4, <1>5 DEF Front, Last

\* What has been appended can be taken off again.
LEMMA FrontOfAppend ==
  ASSUME NEW S, NEW s \in Seq(S), NEW e \in S
  PROVE  Append(s, e) # << >> /\ Front(Append(s, e)) = s /\ Last(Append(s, e)) = e
<1> DEFINE t == Append(s, e)
<1>1. /\ t \in Seq(S) /\ Len(t) = Len(s) + 1 /\ t[Len(s) + 1] = e
      /\ \A i \in 1 .. Len(s) : t[i] = s[i]
      /\ Len(s) \in Nat
  BY AppendProperties, LenProperties
<1> HIDE DEF t
<1>2. t # << >>
  BY <1>1, EmptySeq
<1>3. /\ Front(t) \in Seq(S) /\ Len(Front(t)) = Len(t) - 1 /\ Last(t) = t[Len(t)]
      /\ \A i \in 1 .. Len(t) - 1 : Front(t)[i] = t[i]
  BY <1>1, <1>2, FrontAndLast
<1>4. Len(Front(t)) = Len(s) /\ \A i \in 1 .. Len(Front(t)) : Front(t)[i] = s[i]
  BY <1>1, <1>3
<1>5. Front(t) = s
  BY <1>3, <1>4, SeqEqual
<1> QED
  BY <1>1, <1>2, <1>3, <1>5 DEF t

\* An update of the last element.
LEMMA LastReplaced ==
  ASSUME NEW S, NEW s \in Seq(S), NEW e \in S, s # << >>
  PROVE  [s EXCEPT ![Len(s)] = e] = Append(Front(s), e)
<1>1. /\ Len(s) \in Nat \ {0} /\ Front(s) \in Seq(S) /\ Len(Front(s)) = Len(s) - 1
      /\ \A i \in 1 .. Len(s) - 1 : Front(s)[i] = s[i]
  BY FrontAndLast
<1> DEFINE t == [s EXCEPT ![Len(s)] = e]
           u == Append(Front(s), e)
<1>2. /\ t \in Seq(S) /\ Len(t) = Len(s)
      /\ \A j \in 1 .. Len(s) : t[j] = IF j = Len(s) THEN e ELSE s[j]
  <2>1. Len(s) \in 1 .. Len(s)
    BY <1>1
  <2> QED
    BY <2>1, ExceptSeq
<1>3. /\ u \in Seq(S) /\ Len(u) = Len(s) /\ u[Len(s)] = e
      /\ \A i \in 1 .. Len(s) - 1 : u[i] = s[i]
  <2>1. /\ u \in Seq(S) /\ Len(u) = Len(Front(s)) + 1 /\ u[Len(Front(s)) + 1] = e
        /\ \A i \in 1 .. Len(Front(s)) : u[i] = Front(s)[i]
    BY <1>1, AppendProperties
  <2> QED
    BY <1>1, <2>1
<1> HIDE DEF t, u
<1>4. \A i \in 1 .. Len(s) : t[i] = u[i]
  BY <1>1, <1>2, <1>3
<1>5. t = u
  BY <1>2, <1>3, <1>4, SeqEqual
<1> QED
  BY <1>5 DEF t, u

\* The sum of a list of numbers.
Total(list) == FoldLeft(LAMBDA sum, n : sum + n, 0, list)

\* The sums of the first k numbers.
Sums(list, p) == p[0] = 0 /\ \A k \in 1 .. Len(list) : p[k] = p[k - 1] + list[k]

\* Every list of numbers has such a path.
LEMMA SumsExist ==
  ASSUME NEW list \in Seq(Nat)
  PROVE  \E p \in [0 .. Len(list) -> Nat] : Sums(list, p)
<1> DEFINE G == [mn \in Nat \X Nat |-> mn[1] + mn[2]]
<1>1. G \in [Nat \X Nat -> Nat]
  OBVIOUS
<1>2. PICK p \in [0 .. Len(list) -> Nat] : Path(G, 0, list, p)
  <2> HIDE DEF G
  <2> QED
    BY <1>1, PathExists
<1>3. ASSUME NEW k \in 1 .. Len(list) PROVE p[k] = p[k - 1] + list[k]
  <2>1. k - 1 \in 0 .. Len(list) /\ list[k] \in Nat
    BY LenProperties, ElementOfSeq
  <2>2. <<p[k - 1], list[k]>> \in Nat \X Nat
    BY <2>1
  <2> QED
    BY <1>2, <2>2 DEF Path
<1> QED
  BY <1>2, <1>3 DEF Path, Sums

\* Total returns the last sum.
LEMMA TotalIsSum ==
  ASSUME NEW list \in Seq(Nat), NEW p \in [0 .. Len(list) -> Nat], Sums(list, p)
  PROVE  Total(list) = p[Len(list)]
<1> DEFINE G == [mn \in Nat \X Nat |-> mn[1] + mn[2]]
           Step(iter, s) == IF s = {} THEN 0
                            ELSE iter[s \ {Greatest(s)}] + list[Greatest(s)]
           F == CHOOSE iter : iter = [s \in SUBSET (DOMAIN list) |-> Step(iter, s)]
<1>1. DOMAIN list = 1 .. Len(list) /\ Len(list) \in Nat
      /\ \A k \in 1 .. Len(list) : list[k] \in Nat
  BY LenProperties, ElementOfSeq
<1>2. Total(list) = F[DOMAIN list]
  BY Zenon DEF Total, FoldLeft, MapThenFoldSet, Max, Greatest
<1>3. \E f : f = [s \in SUBSET (DOMAIN list) |-> Step(f, s)]
  <2>1. G \in [Nat \X Nat -> Nat]
    OBVIOUS
  <2>2. PICK f \in [SUBSET (1 .. Len(list)) -> Nat] : Folds(G, 0, list, Len(list), f)
    <3> HIDE DEF G
    <3> QED
      BY <2>1, FoldExists
  <2>3. ASSUME NEW s \in SUBSET (1 .. Len(list)) PROVE f[s] = Step(f, s)
    <3>1. CASE s = {}
      BY <2>2, <3>1 DEF Folds
    <3>2. CASE s # {}
      <4>1. Greatest(s) \in 1 .. Len(list) /\ s \ {Greatest(s)} \in SUBSET (1 .. Len(list))
        BY <1>1, <3>2, GreatestOf
      <4>2. <<f[s \ {Greatest(s)}], list[Greatest(s)]>> \in Nat \X Nat
        BY <1>1, <4>1
      <4>3. f[s] = G[<<f[s \ {Greatest(s)}], list[Greatest(s)]>>]
        BY <2>2, <3>2 DEF Folds
      <4> QED
        BY <3>2, <4>2, <4>3
    <3> QED
      BY <3>1, <3>2
  <2>4. f = [s \in SUBSET (DOMAIN list) |-> Step(f, s)]
    <3> HIDE DEF Step
    <3> QED
      BY <1>1, <2>3
  <2> QED
    BY <2>4
<1>4. F = [s \in SUBSET (DOMAIN list) |-> Step(F, s)]
  <2> HIDE DEF Step
  <2> QED
    BY <1>3
<1>5. \A s \in SUBSET (1 .. Len(list)) : F[s] = Step(F, s)
  <2> HIDE DEF Step, F
  <2> QED
    BY <1>1, <1>4
<1>6. F[{}] = p[0]
  <2>1. F[{}] = Step(F, {})
    BY <1>5
  <2> HIDE DEF F
  <2> QED
    BY <2>1 DEF Sums
<1>7. ASSUME NEW k \in 1 .. Len(list), F[1 .. (k - 1)] = p[k - 1]
      PROVE  F[1 .. k] = p[k]
  <2>1. Greatest(1 .. k) = k /\ (1 .. k) \ {k} = 1 .. (k - 1) /\ 1 .. k # {}
    <3>1. k \in Nat \ {0} /\ k \in 1 .. k
      BY <1>1
    <3> QED
      BY <3>1, GreatestUpTo
  <2>2. F[1 .. k] = Step(F, 1 .. k)
    <3> HIDE DEF F, Step
    <3> QED
      BY <1>1, <1>5
  <2> HIDE DEF F
  <2>3. F[1 .. k] = F[1 .. (k - 1)] + list[k]
    BY <2>1, <2>2
  <2> QED
    BY <1>7, <2>3 DEF Sums
<1>8. F[1 .. Len(list)] = p[Len(list)]
  <2> HIDE DEF F
  <2>1. Follows(F, p, Len(list))
    BY <1>6, <1>7 DEF Follows
  <2>2. Len(list) \in Nat
    BY <1>1
  <2> QED
    BY ONLY <2>1, <2>2, FoldIsPath
<1> QED
  BY <1>1, <1>2, <1>8

\* The sum of no numbers, of one more, and of none but zeros.
LEMMA TotalProperties ==
  /\ Total(<< >>) = 0
  /\ \A list \in Seq(Nat), n \in Nat :
       Total(list) \in Nat /\ Total(Append(list, n)) = Total(list) + n
  /\ \A list \in Seq(Nat) : (\A i \in 1 .. Len(list) : list[i] = 0) => Total(list) = 0
<1>1. Total(<< >>) = 0
  <2>1. << >> \in Seq(Nat) /\ Len(<< >>) = 0
    BY EmptySeq
  <2>2. PICK p \in [0 .. Len(<< >>) -> Nat] : Sums(<< >>, p)
    BY <2>1, SumsExist
  <2>3. Total(<< >>) = p[Len(<< >>)]
    BY <2>1, <2>2, TotalIsSum
  <2> QED
    BY <2>1, <2>2, <2>3 DEF Sums
<1>2. ASSUME NEW list \in Seq(Nat), NEW n \in Nat
      PROVE  Total(list) \in Nat /\ Total(Append(list, n)) = Total(list) + n
  <2>1. PICK p \in [0 .. Len(list) -> Nat] : Sums(list, p)
    BY SumsExist
  <2>2. Total(list) = p[Len(list)] /\ Len(list) \in Nat /\ p[Len(list)] \in Nat
    <3>1. Len(list) \in Nat /\ Len(list) \in 0 .. Len(list)
      BY LenProperties
    <3>2. Total(list) = p[Len(list)]
      BY <2>1, TotalIsSum
    <3> QED
      BY <3>1, <3>2
  <2>3. /\ Append(list, n) \in Seq(Nat) /\ Len(Append(list, n)) = Len(list) + 1
        /\ Append(list, n)[Len(list) + 1] = n
        /\ \A k \in 1 .. Len(list) : Append(list, n)[k] = list[k]
    BY AppendProperties
  <2> DEFINE q == [k \in 0 .. Len(list) + 1 |->
                     IF k = Len(list) + 1 THEN p[Len(list)] + n ELSE p[k]]
  <2>4. q \in [0 .. Len(list) + 1 -> Nat]
    BY <2>2
  <2>5. Sums(Append(list, n), q)
    <3>1. q[0] = 0
      BY <2>1, <2>2 DEF Sums
    <3>2. ASSUME NEW k \in 1 .. Len(list) + 1
          PROVE  q[k] = q[k - 1] + Append(list, n)[k]
      <4>1. CASE k = Len(list) + 1
        <5>1. q[k] = p[Len(list)] + n /\ q[k - 1] = p[Len(list)]
          BY <2>2, <4>1
        <5> QED
          BY <2>3, <4>1, <5>1
      <4>2. CASE k # Len(list) + 1
        <5>1. k \in 1 .. Len(list) /\ q[k] = p[k] /\ q[k - 1] = p[k - 1]
          BY <2>2, <4>2
        <5> QED
          BY <2>1, <2>3, <5>1 DEF Sums
      <4> QED
        BY <4>1, <4>2
    <3> HIDE DEF q
    <3> QED
      BY <2>3, <3>1, <3>2 DEF Sums
  <2>6. q[Len(list) + 1] = p[Len(list)] + n
    BY <2>2
  <2>7. Total(Append(list, n)) = q[Len(list) + 1]
    <3> HIDE DEF q
    <3> QED
      BY <2>3, <2>4, <2>5, TotalIsSum
  <2> QED
    BY <2>2, <2>6, <2>7
<1>3. ASSUME NEW list \in Seq(Nat), \A i \in 1 .. Len(list) : list[i] = 0
      PROVE  Total(list) = 0
  <2> DEFINE q == [k \in 0 .. Len(list) |-> 0]
  <2>1. Len(list) \in Nat /\ q \in [0 .. Len(list) -> Nat]
    BY LenProperties
  <2>2. Sums(list, q)
    BY <1>3, <2>1 DEF Sums
  <2>3. q[Len(list)] = 0
    BY <2>1
  <2> HIDE DEF q
  <2> QED
    BY <2>1, <2>2, <2>3, TotalIsSum
<1> QED
  BY <1>1, <1>2, <1>3

-----------------------------------------------------------------------------
(* Division.                                                                *)

\* A product grows with its factor.
LEMMA Scaled ==
  ASSUME NEW a \in Int, NEW b \in Int, NEW w \in Nat, a <= b
  PROVE  a * w <= b * w
<1>1. (b - a) * w >= 0
  OBVIOUS
<1>2. (b - a) * w = b * w - a * w
  OBVIOUS
<1>3. a * w \in Int /\ b * w \in Int
  OBVIOUS
<1> QED
  BY ONLY <1>1, <1>2, <1>3

\* What division by a natural number gives.
LEMMA Division ==
  ASSUME NEW w \in Nat \ {0}, NEW x \in Int
  PROVE  x \div w \in Int /\ x % w \in 0 .. w - 1 /\ x = (x \div w) * w + (x % w)
OBVIOUS

\* Quotient and remainder are the only ones.
LEMMA Quotient ==
  ASSUME NEW w \in Nat \ {0}, NEW x \in Int, NEW q \in Int, NEW a \in 0 .. w - 1,
         x = q * w + a
  PROVE  x \div w = q /\ x % w = a
<1> DEFINE p == x \div w
           b == x % w
<1>1. p \in Int /\ b \in 0 .. w - 1 /\ x = p * w + b
  BY Division
<1> HIDE DEF p, b
<1>2. ~ (p < q)
  <2> SUFFICES ASSUME p + 1 <= q PROVE FALSE
    BY <1>1
  <2>1. (p + 1) * w <= q * w
    BY <1>1, Scaled
  <2>2. (p + 1) * w = p * w + w /\ p * w \in Int /\ q * w \in Int
    BY <1>1
  <2> QED
    BY ONLY <1>1, <2>1, <2>2, x = q * w + a, a \in 0 .. w - 1, w \in Nat
<1>3. ~ (q < p)
  <2> SUFFICES ASSUME q + 1 <= p PROVE FALSE
    BY <1>1
  <2>1. (q + 1) * w <= p * w
    BY <1>1, Scaled
  <2>2. (q + 1) * w = q * w + w /\ p * w \in Int /\ q * w \in Int
    BY <1>1
  <2> QED
    BY ONLY <1>1, <2>1, <2>2, x = q * w + a, a \in 0 .. w - 1, w \in Nat
<1>4. p = q
  BY <1>1, <1>2, <1>3
<1>5. a = b
  <2>1. q * w \in Int
    OBVIOUS
  <2> QED
    BY ONLY <1>1, <1>4, <2>1, x = q * w + a, a \in 0 .. w - 1, w \in Nat
<1> QED
  BY <1>4, <1>5 DEF p, b

\* A sum modulo w may be reduced on the way.
LEMMA AddedUp ==
  ASSUME NEW w \in Nat \ {0}, NEW k \in Int, NEW m \in Int
  PROVE  ((k % w) + m) % w = (k + m) % w
<1> DEFINE p == k \div w
           b == k % w
           q == (b + m) \div w
           c == (b + m) % w
<1>1. p \in Int /\ b \in 0 .. w - 1 /\ k = p * w + b
  BY Division
<1>2. b + m \in Int
  BY <1>1
<1>3. q \in Int /\ c \in 0 .. w - 1 /\ b + m = q * w + c
  BY <1>2, Division
<1> HIDE DEF p, b, q, c
<1>4. k + m = (p + q) * w + c
  <2>1. (p + q) * w = p * w + q * w /\ p * w \in Int /\ q * w \in Int
    BY <1>1, <1>3
  <2> QED
    BY ONLY <1>1, <1>3, <2>1, m \in Int, k \in Int
<1>5. (k + m) % w = c
  <2>1. p + q \in Int /\ k + m \in Int
    BY <1>1, <1>3
  <2> QED
    BY <1>3, <1>4, <2>1, Quotient
<1> QED
  BY <1>5 DEF c, b

\* A later time is as many milliseconds, or more.
LEMMA LaterDivides ==
  ASSUME NEW w \in Nat \ {0}, NEW a \in Int, NEW b \in Int, a <= b
  PROVE  a \div w <= b \div w
<1>1. PICK p \in Int, r \in 0 .. w - 1 : p = a \div w /\ a = p * w + r
  BY Division
<1>2. PICK q \in Int, s \in 0 .. w - 1 : q = b \div w /\ b = q * w + s
  BY Division
<1>3. ~(q + 1 <= p)
  <2> SUFFICES ASSUME q + 1 <= p PROVE FALSE
    OBVIOUS
  <2>1. (q + 1) * w <= p * w
    BY Scaled
  <2>2. (q + 1) * w = q * w + w /\ q * w \in Int /\ p * w \in Int
    OBVIOUS
  <2> QED
    BY ONLY <1>1, <1>2, <2>1, <2>2, a <= b, w \in Nat \ {0}
<1> QED
  BY <1>1, <1>2, <1>3

\* A quotient of natural numbers is one.
LEMMA DivisionNat ==
  ASSUME NEW w \in Nat \ {0}, NEW a \in Nat
  PROVE  a \div w \in Nat
<1>1. PICK d \in Int, r \in 0 .. w - 1 : d = a \div w /\ a = d * w + r
  BY Division
<1>2. ~(d <= -1)
  <2> SUFFICES ASSUME d <= -1 PROVE FALSE
    OBVIOUS
  <2>1. d * w <= (-1) * w
    BY Scaled
  <2>2. (-1) * w = -w /\ d * w \in Int
    OBVIOUS
  <2> QED
    BY ONLY <1>1, <2>1, <2>2, w \in Nat \ {0}, a \in Nat
<1> QED
  BY <1>1, <1>2

=============================================================================
