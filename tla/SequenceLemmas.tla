--------------------------- MODULE SequenceLemmas ---------------------------
(***************************************************************************)
(* Lemmas about sequences that the proofs of several modules need: lists   *)
(* without repetition that are paged through while they are edited, lists  *)
(* that are sorted, and the first-in first-out queues of asyncio's Lock    *)
(* and Semaphore, which whoever is cancelled leaves from the middle.       *)
(***************************************************************************)
EXTENDS Integers, Sequences, SequencesExt, SequenceTheorems, FiniteSetTheorems,
        WellFoundedInduction, TLAPS

-----------------------------------------------------------------------------
(* One element less *)

\* Taking one element out of a sequence leaves a sequence over the same set: the
\* elements before it stay, those after it move up.
LEMMA RemoveAtElements ==
    ASSUME NEW S, NEW s \in Seq(S), NEW i \in 1 .. Len(s)
    PROVE  /\ RemoveAt(s, i) \in Seq(S)
           /\ Len(RemoveAt(s, i)) = Len(s) - 1
           /\ \A k \in 1 .. Len(s) - 1 :
                 RemoveAt(s, i)[k] = s[IF k < i THEN k ELSE k + 1]
  <1> DEFINE before == SubSeq(s, 1, i - 1)
             after == SubSeq(s, i + 1, Len(s))
  <1>1. Len(s) \in Nat /\ i \in Nat /\ 1 <= i /\ i <= Len(s)
    OBVIOUS
  <1>2. /\ before \in Seq(S)
        /\ Len(before) = i - 1
        /\ \A k \in 1 .. i - 1 : before[k] = s[k]
    BY <1>1
  <1>3. /\ after \in Seq(S)
        /\ Len(after) = Len(s) - i
        /\ \A k \in 1 .. Len(s) - i : after[k] = s[i + k]
    BY <1>1
  <1>4. RemoveAt(s, i) = before \o after
    BY DEF RemoveAt
  <1> HIDE DEF before, after
  <1>5. /\ before \o after \in Seq(S)
        /\ Len(before \o after) = Len(s) - 1
    <2>1. before \o after \in Seq(S) /\ Len(before \o after) = Len(before) + Len(after)
      BY <1>2, <1>3, ConcatProperties
    <2>2. Len(before) + Len(after) = Len(s) - 1
      BY <1>1, <1>2, <1>3
    <2>3. QED
      BY <2>1, <2>2
  <1>6. ASSUME NEW k \in 1 .. Len(s) - 1
        PROVE  (before \o after)[k] = s[IF k < i THEN k ELSE k + 1]
    <2>1. CASE k < i
      <3>1. (before \o after)[k] = before[k]
        BY <1>1, <1>2, <1>3, <2>1, ConcatProperties
      <3>2. QED
        BY <1>1, <1>2, <2>1, <3>1
    <2>2. CASE ~(k < i)
      <3>1. (before \o after)[k] = after[k - (i - 1)]
        BY <1>1, <1>2, <1>3, <2>2, ConcatProperties
      <3>2. k - (i - 1) \in 1 .. Len(s) - i /\ i + (k - (i - 1)) = k + 1
        BY <1>1, <2>2
      <3>3. QED
        BY <1>3, <2>2, <3>1, <3>2
    <2>3. QED
      BY <2>1, <2>2
  <1>7. QED
    BY <1>4, <1>5, <1>6

-----------------------------------------------------------------------------
(* Lists without repetition *)

\* Such a list is as long as its set is large.
LEMMA InjectiveCardinality ==
    ASSUME NEW S, NEW s \in Seq(S), IsInjective(s)
    PROVE  IsFiniteSet(ToSet(s)) /\ Cardinality(ToSet(s)) = Len(s)
  <1>1. Len(s) \in Nat /\ DOMAIN s = 1 .. Len(s) /\ s \in [1 .. Len(s) -> S]
    OBVIOUS
  <1>2. s \in Bijection(1 .. Len(s), ToSet(s))
    BY <1>1 DEF Bijection, Injection, Surjection, IsInjective, ToSet
  <1>3. ExistsBijection(1 .. Len(s), ToSet(s))
    BY <1>2 DEF ExistsBijection
  <1>4. IsFiniteSet(1 .. Len(s)) /\ Cardinality(1 .. Len(s)) = Len(s)
    BY <1>1, FS_Interval
  <1>5. QED
    BY <1>3, <1>4, FS_Bijection

\* A list without repetition that takes all its elements from another, and is as long,
\* has them all.
LEMMA SameLengthSameSet ==
    ASSUME NEW S, NEW s \in Seq(S), NEW t \in Seq(S),
           IsInjective(s), IsInjective(t),
           ToSet(s) \subseteq ToSet(t), Len(s) = Len(t)
    PROVE  ToSet(s) = ToSet(t)
  <1>1. /\ IsFiniteSet(ToSet(t)) /\ Cardinality(ToSet(t)) = Len(t)
        /\ Cardinality(ToSet(s)) = Len(s)
    BY InjectiveCardinality
  <1>2. QED
    BY <1>1, FS_Subset

\* A piece of a list has elements of the list only.
LEMMA PieceOf ==
    ASSUME NEW S, NEW s \in Seq(S), NEW m \in Nat \ {0}, NEW n \in Int, n <= Len(s)
    PROVE  /\ SubSeq(s, m, n) \in Seq(S)
           /\ ToSet(SubSeq(s, m, n)) \subseteq ToSet(s)
           /\ SubSeq(s, m, n) = <<>> => n < m
  <1> DEFINE p == SubSeq(s, m, n)
  <1>1. Len(s) \in Nat /\ DOMAIN s = 1 .. Len(s)
    OBVIOUS
  <1>2. CASE m <= n
    <2>1. /\ p \in Seq(S) /\ Len(p) = n - m + 1
          /\ \A i \in 1 .. n - m + 1 : p[i] = s[m + i - 1]
      BY <1>1, <1>2
    <2> HIDE DEF p
    <2>2. DOMAIN p = 1 .. n - m + 1
      BY <2>1
    <2>3. ASSUME NEW i \in 1 .. n - m + 1
          PROVE  p[i] \in ToSet(s)
      <3>1. m + i - 1 \in 1 .. Len(s)
        BY <1>1
      <3>2. QED
        BY <1>1, <2>1, <3>1 DEF ToSet
    <2>4. ToSet(p) \subseteq ToSet(s)
      BY <2>2, <2>3 DEF ToSet
    <2>5. p # <<>>
      BY <1>2, <2>1
    <2>6. QED
      BY <2>1, <2>4, <2>5 DEF p
  <1>3. CASE n < m
    <2>1. p = <<>>
      BY <1>1, <1>3
    <2>2. QED
      BY <1>3, <2>1 DEF ToSet
  <1>4. QED
    BY <1>1, <1>2, <1>3

\* The pieces of a list before and after a place make up the piece of both.
LEMMA PiecesJoin ==
    ASSUME NEW S, NEW s \in Seq(S), NEW k \in Nat, NEW n \in Nat, k <= n, n <= Len(s)
    PROVE  /\ SubSeq(s, 1, k) \o SubSeq(s, k + 1, n) = SubSeq(s, 1, n)
           /\ Len(SubSeq(s, k + 1, n)) = n - k
  <1> DEFINE p == SubSeq(s, 1, k)
             q == SubSeq(s, k + 1, n)
             r == SubSeq(s, 1, n)
  <1>1. Len(s) \in Nat /\ DOMAIN s = 1 .. Len(s)
    OBVIOUS
  <1>2. p \in Seq(S) /\ Len(p) = k /\ \A i \in 1 .. k : p[i] = s[i]
    BY <1>1
  <1>3. q \in Seq(S) /\ Len(q) = n - k /\ \A i \in 1 .. n - k : q[i] = s[k + i]
    BY <1>1
  <1>4. r \in Seq(S) /\ Len(r) = n /\ \A i \in 1 .. n : r[i] = s[i]
    BY <1>1
  <1> HIDE DEF p, q, r
  <1>5. p \o q \in Seq(S) /\ Len(p \o q) = n
    <2>1. p \o q \in Seq(S) /\ Len(p \o q) = Len(p) + Len(q)
      BY <1>2, <1>3, ConcatProperties
    <2>2. k + (n - k) = n
      OBVIOUS
    <2>3. QED
      BY <1>2, <1>3, <2>1, <2>2
  <1>6. ASSUME NEW i \in 1 .. n
        PROVE  (p \o q)[i] = r[i]
    <2>1. i \in 1 .. Len(p) + Len(q)
      BY <1>2, <1>3
    <2>2. (p \o q)[i] = IF i <= Len(p) THEN p[i] ELSE q[i - Len(p)]
      BY <1>2, <1>3, <2>1, ConcatProperties
    <2>3. CASE i <= k
      BY <1>2, <1>4, <2>2, <2>3
    <2>4. CASE i > k
      <3>1. i - k \in 1 .. n - k /\ k + (i - k) = i
        BY <2>4
      <3>2. q[i - k] = s[i]
        BY <1>3, <3>1
      <3>3. QED
        BY <1>2, <1>4, <2>2, <2>4, <3>2
    <2>5. i <= k \/ i > k
      OBVIOUS
    <2>6. QED
      BY <2>3, <2>4, <2>5, Zenon
  <1>7. p \o q = r
    BY <1>4, <1>5, <1>6, SeqEqual
  <1>8. QED
    BY <1>3, <1>7 DEF p, q, r

\* The beginning of a list, up to all of it.
LEMMA Beginning ==
    ASSUME NEW S, NEW s \in Seq(S), NEW n \in 0 .. Len(s)
    PROVE  /\ SubSeq(s, 1, n) \in Seq(S) /\ Len(SubSeq(s, 1, n)) = n
           /\ IsInjective(s) => IsInjective(SubSeq(s, 1, n))
           /\ n = Len(s) => SubSeq(s, 1, n) = s
  <1>1. Len(s) \in Nat /\ n \in Nat /\ n <= Len(s) /\ DOMAIN s = 1 .. Len(s)
    OBVIOUS
  <1>2. SubSeq(s, 1, n) \in Seq(S) /\ Len(SubSeq(s, 1, n)) = n
    BY <1>1
  <1>3. \A i \in 1 .. n : SubSeq(s, 1, n)[i] = s[i] /\ i \in DOMAIN s
    BY <1>1
  <1>4. DOMAIN SubSeq(s, 1, n) = 1 .. n
    BY <1>2
  <1>5. IsInjective(s) => IsInjective(SubSeq(s, 1, n))
    BY <1>3, <1>4 DEF IsInjective
  <1>6. n = Len(s) => SubSeq(s, 1, n) = s
    BY <1>1, <1>2, <1>3, SeqEqual
  <1>7. QED
    BY <1>2, <1>5, <1>6

\* A list put after another brings its elements with it.
LEMMA Concatenated ==
    ASSUME NEW S, NEW s \in Seq(S), NEW t \in Seq(S)
    PROVE  /\ s \o t \in Seq(S)
           /\ ToSet(s \o t) = ToSet(s) \cup ToSet(t)
  <1> DEFINE r == s \o t
  <1>1. /\ Len(s) \in Nat /\ DOMAIN s = 1 .. Len(s)
        /\ Len(t) \in Nat /\ DOMAIN t = 1 .. Len(t)
    OBVIOUS
  <1>2. /\ r \in Seq(S) /\ Len(r) = Len(s) + Len(t)
        /\ \A i \in 1 .. Len(s) + Len(t) : r[i] = IF i <= Len(s) THEN s[i] ELSE t[i - Len(s)]
    BY ConcatProperties
  <1> HIDE DEF r
  <1>3. DOMAIN r = 1 .. Len(s) + Len(t)
    BY <1>2
  <1>4. ASSUME NEW i \in 1 .. Len(s) + Len(t)
        PROVE  r[i] \in ToSet(s) \cup ToSet(t)
    <2>1. CASE i <= Len(s)
      BY <1>1, <1>2, <2>1 DEF ToSet
    <2>2. CASE i > Len(s)
      <3>1. i - Len(s) \in 1 .. Len(t)
        BY <1>1, <2>2
      <3>2. r[i] = t[i - Len(s)]
        BY <1>1, <1>2, <2>2
      <3>3. QED
        BY <1>1, <3>1, <3>2 DEF ToSet
    <2>3. QED
      BY <1>1, <2>1, <2>2
  <1>5. ASSUME NEW i \in 1 .. Len(s)
        PROVE  s[i] \in ToSet(r)
    <2>1. i \in 1 .. Len(s) + Len(t) /\ r[i] = s[i]
      BY <1>1, <1>2
    <2>2. QED
      BY <1>3, <2>1 DEF ToSet
  <1>6. ASSUME NEW i \in 1 .. Len(t)
        PROVE  t[i] \in ToSet(r)
    <2>1. /\ Len(s) + i \in 1 .. Len(s) + Len(t)
          /\ ~(Len(s) + i <= Len(s)) /\ (Len(s) + i) - Len(s) = i
      BY <1>1
    <2>2. r[Len(s) + i] = t[i]
      BY <1>2, <2>1
    <2>3. QED
      BY <1>3, <2>1, <2>2 DEF ToSet
  <1>7. ToSet(r) = ToSet(s) \cup ToSet(t)
    BY <1>1, <1>3, <1>4, <1>5, <1>6 DEF ToSet
  <1>8. QED
    BY <1>2, <1>7 DEF r

\* What is handed on from one list to the end of another leaves both together in order,
\* and is new there if nothing is in both together twice.
LEMMA InOrder ==
    ASSUME NEW S, NEW s \in Seq(S), NEW t \in Seq(S), t # <<>>
    PROVE  /\ Append(s, Head(t)) \o Tail(t) = s \o t
           /\ IsInjective(s \o t) => Head(t) \notin ToSet(s)
  <1> DEFINE a == Append(s, Head(t))
             b == Tail(t)
             r == s \o t
             q == a \o b
  <1>1. /\ Len(s) \in Nat /\ DOMAIN s = 1 .. Len(s)
        /\ Len(t) \in Nat /\ Len(t) >= 1 /\ Head(t) = t[1]
    OBVIOUS
  <1>2. /\ a \in Seq(S) /\ Len(a) = Len(s) + 1
        /\ a[Len(s) + 1] = t[1]
        /\ \A i \in 1 .. Len(s) : a[i] = s[i]
    BY <1>1
  <1>3. /\ b \in Seq(S) /\ Len(b) = Len(t) - 1
        /\ \A i \in 1 .. Len(t) - 1 : b[i] = t[i + 1]
    BY <1>1
  <1> HIDE DEF a, b
  <1>4. /\ r \in Seq(S) /\ Len(r) = Len(s) + Len(t)
        /\ \A i \in 1 .. Len(s) + Len(t) : r[i] = IF i <= Len(s) THEN s[i] ELSE t[i - Len(s)]
    BY ConcatProperties
  <1>5. /\ q \in Seq(S) /\ Len(q) = Len(a) + Len(b)
        /\ \A i \in 1 .. Len(a) + Len(b) : q[i] = IF i <= Len(a) THEN a[i] ELSE b[i - Len(a)]
    BY <1>2, <1>3, ConcatProperties
  <1> HIDE DEF r, q
  <1>6. Len(a) + Len(b) = Len(s) + Len(t)
    BY <1>1, <1>2, <1>3
  <1>7. ASSUME NEW i \in 1 .. Len(s) + Len(t)
        PROVE  q[i] = r[i]
    <2>1. q[i] = IF i <= Len(s) + 1 THEN a[i] ELSE b[i - (Len(s) + 1)]
      BY <1>2, <1>5, <1>6
    <2>2. CASE i <= Len(s)
      <3>1. i \in 1 .. Len(s) /\ i <= Len(s) + 1
        BY <1>1, <2>2
      <3>2. QED
        BY <1>2, <1>4, <2>1, <2>2, <3>1
    <2>3. CASE i = Len(s) + 1
      <3>1. ~(i <= Len(s)) /\ i - Len(s) = 1
        BY <1>1, <2>3
      <3>2. QED
        BY <1>2, <1>4, <2>1, <2>3, <3>1
    <2>4. CASE i > Len(s) + 1
      <3>1. /\ i - (Len(s) + 1) \in 1 .. Len(t) - 1
            /\ (i - (Len(s) + 1)) + 1 = i - Len(s)
            /\ ~(i <= Len(s)) /\ ~(i <= Len(s) + 1)
        BY <1>1, <2>4
      <3>2. b[i - (Len(s) + 1)] = t[i - Len(s)]
        BY <1>3, <3>1
      <3>3. QED
        BY <1>4, <2>1, <3>1, <3>2
    <2>5. i <= Len(s) \/ i = Len(s) + 1 \/ i > Len(s) + 1
      BY <1>1
    <2>6. QED
      BY <2>2, <2>3, <2>4, <2>5, Zenon
  <1>8. q = r
    BY <1>4, <1>5, <1>6, <1>7, SeqEqual
  <1>9. ASSUME IsInjective(r), NEW i \in 1 .. Len(s), s[i] = t[1]
        PROVE  FALSE
    <2>1. /\ i \in 1 .. Len(s) + Len(t) /\ i <= Len(s)
          /\ Len(s) + 1 \in 1 .. Len(s) + Len(t) /\ ~(Len(s) + 1 <= Len(s))
          /\ (Len(s) + 1) - Len(s) = 1 /\ i # Len(s) + 1
      BY <1>1
    <2>2. r[i] = r[Len(s) + 1]
      BY <1>4, <1>9, <2>1
    <2>3. DOMAIN r = 1 .. Len(s) + Len(t)
      BY <1>4
    <2>4. QED
      BY <1>9, <2>1, <2>2, <2>3 DEF IsInjective
  <1>10. IsInjective(r) => Head(t) \notin ToSet(s)
    BY <1>1, <1>9 DEF ToSet
  <1>11. QED
    BY <1>8, <1>10 DEF q, r, a, b

\* The first part of the beginning of a list is a prefix of the list.
LEMMA FirstPart ==
    ASSUME NEW S, NEW s \in Seq(S), NEW p \in Seq(S), NEW q \in Seq(S),
           NEW n \in 0 .. Len(s), p \o q = SubSeq(s, 1, n)
    PROVE  IsPrefix(p, s)
  <1> DEFINE m == Len(p)
  <1>1. /\ Len(s) \in Nat /\ m \in Nat /\ Len(q) \in Nat /\ n \in Nat /\ n <= Len(s)
    OBVIOUS
  <1>2. m + Len(q) = n
    BY Beginning, ConcatProperties
  <1>3. m <= n /\ m <= Len(s)
    BY <1>1, <1>2
  <1>4. ASSUME NEW i \in 1 .. m
        PROVE  p[i] = s[i]
    <2>1. i \in 1 .. m + Len(q) /\ i \in 1 .. n
      BY <1>1, <1>3, <1>2
    <2>2. (p \o q)[i] = p[i]
      BY <2>1, ConcatProperties
    <2>3. SubSeq(s, 1, n)[i] = s[i]
      BY <1>1, <2>1
    <2>4. QED
      BY <2>2, <2>3
  <1>5. /\ SubSeq(s, 1, m) \in Seq(S) /\ Len(SubSeq(s, 1, m)) = m
        /\ \A i \in 1 .. m : SubSeq(s, 1, m)[i] = s[i]
    BY <1>1, <1>3
  <1>6. SubSeq(p, 1, m) = p
    BY <1>1, Beginning
  <1>7. SubSeq(s, 1, m) = p
    BY <1>4, <1>5, SeqEqual
  <1>8. QED
    BY <1>3, <1>6, <1>7 DEF IsPrefix

\* No elements are a sequence of none.
LEMMA NoElements == \A S : <<>> \in Seq(S) /\ ToSet(<<>>) = {} /\ IsInjective(<<>>)
  <1>1. DOMAIN <<>> = {} /\ \A S : <<>> \in Seq(S)
    OBVIOUS
  <1>2. QED
    BY <1>1 DEF ToSet, IsInjective

\* Inserting what is new, removing and exchanging leave a list without repetition.
LEMMA Inserted ==
    ASSUME NEW S, NEW s \in Seq(S), IsInjective(s), NEW x \in S, x \notin ToSet(s),
           NEW i \in 1 .. Len(s) + 1
    PROVE  InsertAt(s, i, x) \in Seq(S) /\ IsInjective(InsertAt(s, i, x))
  <1> DEFINE before == SubSeq(s, 1, i - 1)
             after == SubSeq(s, i, Len(s))
             r == before \o <<x>> \o after
  <1>1. /\ Len(s) \in Nat /\ DOMAIN s = 1 .. Len(s)
        /\ i \in Nat /\ 1 <= i /\ i <= Len(s) + 1
    OBVIOUS
  <1>2. /\ before \in Seq(S) /\ Len(before) = i - 1
        /\ \A k \in 1 .. i - 1 : before[k] = s[k]
    BY <1>1
  <1>3. /\ after \in Seq(S) /\ Len(after) = Len(s) - i + 1
        /\ \A k \in 1 .. Len(s) - i + 1 : after[k] = s[i + k - 1]
    BY <1>1
  <1>4. <<x>> \in Seq(S) /\ Len(<<x>>) = 1 /\ <<x>>[1] = x
    OBVIOUS
  <1>5. InsertAt(s, i, x) = r
    BY DEF InsertAt
  <1> HIDE DEF before, after
  <1> DEFINE q == before \o <<x>>
  <1>6. /\ q \in Seq(S) /\ Len(q) = i
        /\ \A k \in 1 .. i - 1 : q[k] = s[k]
        /\ q[i] = x
    <2>1. q \in Seq(S) /\ Len(q) = Len(before) + 1
      BY <1>2, <1>4, ConcatProperties
    <2>2. ASSUME NEW k \in 1 .. i - 1
          PROVE  q[k] = s[k]
      <3>1. k \in 1 .. Len(before) + Len(<<x>>) /\ k <= Len(before)
        BY <1>1, <1>2, <1>4
      <3>2. q[k] = before[k]
        BY <1>2, <1>4, <3>1, ConcatProperties
      <3>3. QED
        BY <1>2, <3>2
    <2>3. q[i] = x
      <3>1. i \in 1 .. Len(before) + Len(<<x>>) /\ ~(i <= Len(before)) /\ i - Len(before) = 1
        BY <1>1, <1>2, <1>4
      <3>2. q[i] = <<x>>[i - Len(before)]
        BY <1>2, <1>4, <3>1, ConcatProperties
      <3>3. QED
        BY <1>4, <3>1, <3>2
    <2>4. Len(q) = i
      BY <1>1, <1>2, <2>1
    <2>5. QED
      BY <2>1, <2>2, <2>3, <2>4
  <1>7. r = q \o after
    OBVIOUS
  <1> HIDE DEF q, r
  <1>8. /\ r \in Seq(S) /\ Len(r) = Len(s) + 1
        /\ \A k \in 1 .. Len(s) + 1 :
              r[k] = IF k < i THEN s[k] ELSE IF k = i THEN x ELSE s[k - 1]
    <2>1. r \in Seq(S) /\ Len(r) = Len(q) + Len(after)
      BY <1>3, <1>6, <1>7, ConcatProperties
    <2>2. Len(r) = Len(s) + 1
      BY <1>1, <1>3, <1>6, <2>1
    <2>3. ASSUME NEW k \in 1 .. Len(s) + 1
          PROVE  r[k] = IF k < i THEN s[k] ELSE IF k = i THEN x ELSE s[k - 1]
      <3>1. k \in 1 .. Len(q) + Len(after)
        BY <1>1, <1>3, <1>6
      <3>2. r[k] = IF k <= Len(q) THEN q[k] ELSE after[k - Len(q)]
        BY <1>3, <1>6, <1>7, <3>1, ConcatProperties
      <3>3. CASE k < i
        BY <1>1, <1>6, <3>2, <3>3
      <3>4. CASE k = i
        BY <1>1, <1>6, <3>2, <3>4
      <3>5. CASE k > i
        <4>1. k - i \in 1 .. Len(s) - i + 1 /\ i + (k - i) - 1 = k - 1 /\ ~(k <= Len(q))
          BY <1>1, <1>6, <3>5
        <4>2. r[k] = after[k - i] /\ after[k - i] = s[k - 1]
          BY <1>3, <1>6, <3>2, <4>1
        <4>3. QED
          BY <1>1, <3>5, <4>2
      <3>6. QED
        BY <1>1, <3>3, <3>4, <3>5
    <2>4. QED
      BY <2>1, <2>2, <2>3
  <1>9. IsInjective(r)
    <2>1. \A k \in 1 .. Len(s) : s[k] # x
      BY <1>1 DEF ToSet
    <2>2. ASSUME NEW k \in 1 .. Len(s) + 1
          PROVE  \/ k = i /\ r[k] = x
                 \/ /\ k # i
                    /\ (IF k < i THEN k ELSE k - 1) \in 1 .. Len(s)
                    /\ r[k] = s[IF k < i THEN k ELSE k - 1]
      BY <1>1, <1>8
    <2>3. ASSUME NEW k \in 1 .. Len(s) + 1, NEW m \in 1 .. Len(s) + 1, r[k] = r[m]
          PROVE  k = m
      <3>1. CASE k = i \/ m = i
        BY <2>1, <2>2, <2>3, <3>1
      <3>2. CASE k # i /\ m # i
        <4>1. (IF k < i THEN k ELSE k - 1) = (IF m < i THEN m ELSE m - 1)
          BY <1>1, <2>2, <2>3, <3>2 DEF IsInjective
        <4>2. k \in Nat /\ m \in Nat
          BY <1>1
        <4>3. QED
          BY <1>1, <3>2, <4>1, <4>2
      <3>3. QED
        BY <3>1, <3>2
    <2>4. DOMAIN r = 1 .. Len(s) + 1
      BY <1>8
    <2>5. QED
      BY <2>3, <2>4 DEF IsInjective
  <1>10. QED
    BY <1>5, <1>8, <1>9

LEMMA Removed ==
    ASSUME NEW S, NEW s \in Seq(S), IsInjective(s), NEW i \in 1 .. Len(s)
    PROVE  RemoveAt(s, i) \in Seq(S) /\ IsInjective(RemoveAt(s, i))
  <1> DEFINE r == RemoveAt(s, i)
  <1>1. /\ Len(s) \in Nat /\ DOMAIN s = 1 .. Len(s) /\ i \in Nat
        /\ r \in Seq(S) /\ Len(r) = Len(s) - 1
        /\ \A k \in 1 .. Len(s) - 1 : r[k] = s[IF k < i THEN k ELSE k + 1]
    BY RemoveAtElements
  <1> HIDE DEF r
  <1>2. ASSUME NEW k \in 1 .. Len(s) - 1, NEW m \in 1 .. Len(s) - 1, r[k] = r[m]
        PROVE  k = m
    <2>1. /\ (IF k < i THEN k ELSE k + 1) \in 1 .. Len(s)
          /\ (IF m < i THEN m ELSE m + 1) \in 1 .. Len(s)
      BY <1>1
    <2>2. (IF k < i THEN k ELSE k + 1) = (IF m < i THEN m ELSE m + 1)
      BY <1>1, <1>2, <2>1 DEF IsInjective
    <2>3. k \in Nat /\ m \in Nat
      BY <1>1
    <2>4. QED
      BY <1>1, <2>2, <2>3
  <1>3. DOMAIN r = 1 .. Len(s) - 1
    BY <1>1
  <1>4. IsInjective(r)
    BY <1>2, <1>3 DEF IsInjective
  <1>5. QED
    BY <1>1, <1>4 DEF r

LEMMA Exchanged ==
    ASSUME NEW S, NEW s \in Seq(S), IsInjective(s),
           NEW i \in 1 .. Len(s), NEW j \in 1 .. Len(s)
    PROVE  LET r == [s EXCEPT ![i] = s[j], ![j] = s[i]]
           IN  r \in Seq(S) /\ IsInjective(r)
  <1> DEFINE r == [s EXCEPT ![i] = s[j], ![j] = s[i]]
  <1>1. /\ Len(s) \in Nat /\ DOMAIN s = 1 .. Len(s) /\ s \in [1 .. Len(s) -> S]
    OBVIOUS
  <1>2. /\ DOMAIN r = 1 .. Len(s)
        /\ r \in [1 .. Len(s) -> S]
        /\ r[j] = s[i]
        /\ i # j => r[i] = s[j]
        /\ \A k \in 1 .. Len(s) : k \notin {i, j} => r[k] = s[k]
    BY <1>1
  <1> HIDE DEF r
  <1>3. r \in Seq(S)
    BY <1>1, <1>2
  <1>4. IsInjective(r)
    BY <1>1, <1>2 DEF IsInjective
  <1>5. QED
    BY <1>3, <1>4 DEF r

\* Any one of the three, as the provider edits a list.
LEMMA Edited ==
    ASSUME NEW S, NEW s \in Seq(S), IsInjective(s), NEW t,
           \/ \E x \in S \ ToSet(s), i \in 1 .. Len(s) + 1 : t = InsertAt(s, i, x)
           \/ \E i \in 1 .. Len(s) : t = RemoveAt(s, i)
           \/ \E i, j \in 1 .. Len(s) : i < j /\ t = [s EXCEPT ![i] = s[j], ![j] = s[i]]
    PROVE  t \in Seq(S) /\ IsInjective(t)
  <1>1. CASE \E x \in S \ ToSet(s), i \in 1 .. Len(s) + 1 : t = InsertAt(s, i, x)
    BY <1>1, Inserted
  <1>2. CASE \E i \in 1 .. Len(s) : t = RemoveAt(s, i)
    BY <1>2, Removed
  <1>3. CASE \E i, j \in 1 .. Len(s) : i < j /\ t = [s EXCEPT ![i] = s[j], ![j] = s[i]]
    <2>1. PICK i \in 1 .. Len(s), j \in 1 .. Len(s) : t = [s EXCEPT ![i] = s[j], ![j] = s[i]]
      BY <1>3
    <2>2. QED
      BY <2>1, Exchanged
  <1>4. QED
    BY <1>1, <1>2, <1>3

-----------------------------------------------------------------------------
(* Pages of a list *)

\* How far the first n pages of size rows reach, and the last of them.
Reach(s, size, n) == IF n * size < Len(s) THEN n * size ELSE Len(s)
PageIn(s, size, n) == SubSeq(s, (n - 1) * size + 1, Reach(s, size, n))

\* Page after page, nothing is left out or repeated: what came before, and the next
\* page, are the beginning of the list; a page is empty only beyond its end.
LEMMA Paged ==
    ASSUME NEW S, NEW s \in Seq(S), NEW size \in Nat \ {0}, NEW n \in Nat \ {0}
    PROVE  /\ PageIn(s, size, n) \in Seq(S)
           /\ ToSet(PageIn(s, size, n)) \subseteq ToSet(s)
           /\ PageIn(s, size, n) = <<>> => n * size - size >= Len(s)
           /\ (n - 1) * size <= Len(s) =>
                 /\ SubSeq(s, 1, (n - 1) * size) \o PageIn(s, size, n)
                       = SubSeq(s, 1, Reach(s, size, n))
                 /\ Len(PageIn(s, size, n)) <= Len(s)
           /\ (n - 1) * size = n * size - size
           /\ Reach(s, size, n) \in 0 .. Len(s)
           /\ Reach(s, size, n) # Len(s) => Reach(s, size, n) = n * size /\ n * size < Len(s)
  <1> DEFINE before == (n - 1) * size
             upto == Reach(s, size, n)
  <1>1. Len(s) \in Nat /\ n \in Nat /\ n >= 1 /\ size \in Nat /\ size >= 1
    OBVIOUS
  <1>2. \A a, b \in Nat : a * b \in Nat
    OBVIOUS
  <1>3. n - 1 \in Nat
    BY <1>1
  <1>4. before \in Nat /\ n * size \in Nat
    BY <1>1, <1>2, <1>3
  <1>5. before = n * size - size
    BY <1>1
  <1>6. PageIn(s, size, n) = SubSeq(s, before + 1, upto)
    BY DEF PageIn
  <1>7. /\ upto \in 0 .. Len(s)
        /\ upto # Len(s) => upto = n * size /\ n * size < Len(s)
    BY <1>1, <1>4 DEF Reach
  <1> DEFINE product == n * size
  <1>8. product \in Nat /\ before = product - size
    BY <1>4, <1>5
  <1>9. upto = Len(s) \/ upto = product
    BY <1>7
  <1> HIDE DEF before, upto, product
  <1>10. before + 1 \in Nat \ {0} /\ upto \in Int /\ upto <= Len(s)
    BY <1>1, <1>4, <1>7
  <1> DEFINE page == SubSeq(s, before + 1, upto)
  <1>11. /\ page \in Seq(S) /\ ToSet(page) \subseteq ToSet(s)
         /\ page = <<>> => upto < before + 1
    BY <1>10, PieceOf
  <1>12. page = <<>> => before >= Len(s)
    BY <1>1, <1>8, <1>9, <1>11
  <1>13. ASSUME before <= Len(s)
         PROVE  SubSeq(s, 1, before) \o page = SubSeq(s, 1, upto) /\ Len(page) <= Len(s)
    <2>1. before <= upto /\ upto \in Nat
      BY <1>1, <1>7, <1>8, <1>9, <1>13
    <2>2. SubSeq(s, 1, before) \o page = SubSeq(s, 1, upto) /\ Len(page) = upto - before
      BY <1>4, <1>10, <2>1, PiecesJoin
    <2>3. QED
      BY <1>1, <1>4, <1>10, <2>1, <2>2
  <1>14. QED
    BY <1>5, <1>6, <1>7, <1>11, <1>12, <1>13 DEF before, upto

-----------------------------------------------------------------------------
(* Sorting *)

\* The least of some natural numbers.
LEMMA Least ==
    ASSUME NEW T \in SUBSET Nat, T # {}
    PROVE  \E n \in T : \A m \in T : n <= m
  <1> DEFINE less == OpToRel(<, Nat)
  <1>1. \A m, n \in Nat : <<m, n>> \in less <=> m < n
    BY DEF OpToRel
  <1>2. IsWellFoundedOn(less, Nat)
    BY NatLessThanWellFounded
  <1> HIDE DEF less
  <1>3. PICK n \in T : \A m \in T : ~(<<m, n>> \in less)
    BY <1>2, WFMin
  <1>4. ASSUME NEW m \in T
        PROVE  n <= m
    <2>1. ~(m < n) /\ m \in Nat /\ n \in Nat
      BY <1>1, <1>3
    <2>2. QED
      BY <2>1
  <1>5. QED
    BY <1>4

\* What has a strict order can be put in order: each at the place that the number of
\* those before it gives.
LEMMA Sorting ==
    ASSUME NEW n \in Nat, NEW R,
           \A i \in 1 .. n : <<i, i>> \notin R,
           \A i, j, k \in 1 .. n : <<i, j>> \in R /\ <<j, k>> \in R => <<i, k>> \in R,
           \A i, j \in 1 .. n : i # j => <<i, j>> \in R \/ <<j, i>> \in R
    PROVE  \E f \in [1 .. n -> 1 .. n] :
              \A i, j \in 1 .. n : i < j => <<f[i], f[j]>> \in R
  <1> DEFINE D == 1 .. n
             below(i) == {j \in D : <<j, i>> \in R}
             place == [i \in D |-> Cardinality(below(i)) + 1]
  <1>1. IsFiniteSet(D) /\ Cardinality(D) = n
    BY FS_Interval
  <1>2. \A i \in D : i \notin below(i) /\ below(i) \in SUBSET D
    OBVIOUS
  <1> HIDE DEF D, below, place
  <1>3. \A i \in D : IsFiniteSet(below(i)) /\ Cardinality(below(i)) \in Nat
    BY <1>1, <1>2, FS_Subset, FS_CardinalityType
  <1>4. ASSUME NEW i \in D
        PROVE  place[i] \in D
    <2>1. below(i) \cup {i} \in SUBSET D
      BY <1>2
    <2>2. Cardinality(below(i) \cup {i}) = Cardinality(below(i)) + 1
      BY <1>2, <1>3, FS_AddElement
    <2>3. Cardinality(below(i) \cup {i}) <= n
      BY <1>1, <2>1, FS_Subset
    <2>4. place[i] = Cardinality(below(i)) + 1
      BY DEF place
    <2>5. QED
      BY <1>3, <2>2, <2>3, <2>4 DEF D
  <1>5. ASSUME NEW i \in D, NEW j \in D, <<i, j>> \in R
        PROVE  place[i] < place[j]
    <2>1. below(i) \cup {i} \subseteq below(j)
      BY <1>5 DEF below, D
    <2>2. Cardinality(below(i) \cup {i}) = Cardinality(below(i)) + 1
      BY <1>2, <1>3, FS_AddElement
    <2>3. Cardinality(below(i) \cup {i}) <= Cardinality(below(j))
      BY <1>3, <2>1, FS_Subset
    <2>4. place[i] = Cardinality(below(i)) + 1 /\ place[j] = Cardinality(below(j)) + 1
      BY DEF place
    <2>5. QED
      BY <1>3, <2>2, <2>3, <2>4
  <1>6. place \in [D -> D]
    BY <1>4 DEF place
  <1>7. \A i, j \in D : place[i] = place[j] => i = j
    <2>1. TAKE i, j \in D
    <2>2. i # j => place[i] < place[j] \/ place[j] < place[i]
      BY <1>5 DEF D
    <2>3. QED
      BY <1>4, <2>2 DEF D
  <1>8. place \in Injection(D, D)
    BY <1>6, <1>7 DEF Injection, IsInjective
  <1>9. place \in Surjection(D, D)
    BY <1>1, <1>8, FS_Injection
  <1>10. \A k \in D : \E i \in D : place[i] = k
    BY <1>9 DEF Surjection
  <1> DEFINE f == [k \in D |-> CHOOSE i \in D : place[i] = k]
  <1>11. \A k \in D : f[k] \in D /\ place[f[k]] = k
    BY <1>10
  <1>12. f \in [D -> D]
    BY <1>11
  <1> HIDE DEF f
  <1>13. ASSUME NEW i \in D, NEW j \in D, i < j
         PROVE  <<f[i], f[j]>> \in R
    <2>1. f[i] \in D /\ f[j] \in D /\ place[f[i]] = i /\ place[f[j]] = j
      BY <1>11
    <2>2. f[i] # f[j] /\ ~(place[f[j]] < place[f[i]])
      BY <1>13, <2>1 DEF D
    <2>3. <<f[i], f[j]>> \in R \/ <<f[j], f[i]>> \in R
      BY <2>1, <2>2 DEF D
    <2>4. QED
      BY <1>5, <2>1, <2>2, <2>3
  <1>14. QED
    BY <1>12, <1>13 DEF D

\* A list has the same elements, as often, in another order.
LEMMA Rearranged ==
    ASSUME NEW S, NEW s \in Seq(S), NEW f \in [DOMAIN s -> DOMAIN s], IsInjective(f)
    PROVE  /\ [k \in DOMAIN s |-> s[f[k]]] \in Seq(S)
           /\ Len([k \in DOMAIN s |-> s[f[k]]]) = Len(s)
           /\ ToBag([k \in DOMAIN s |-> s[f[k]]]) = ToBag(s)
  <1> DEFINE D == DOMAIN s
             t == [k \in D |-> s[f[k]]]
             at(u, x) == {k \in D : u[k] = x}
  <1>1. D = 1 .. Len(s) /\ Len(s) \in Nat /\ \A k \in D : s[k] \in S
    OBVIOUS
  <1>2. t \in Seq(S) /\ Len(t) = Len(s) /\ DOMAIN t = D
    BY <1>1
  <1>3. IsFiniteSet(D)
    BY <1>1, FS_Interval
  <1>4. f \in Injection(D, D)
    BY DEF Injection
  <1>5. f \in Surjection(D, D)
    BY <1>3, <1>4, FS_Injection
  <1>6. \A k \in D : f[k] \in D /\ t[k] = s[f[k]] /\ \E l \in D : f[l] = k
    BY <1>5 DEF Surjection
  <1> HIDE DEF D, t
  <1>7. ASSUME NEW x
        PROVE  Cardinality(at(t, x)) = Cardinality(at(s, x))
    <2> DEFINE g == [k \in at(t, x) |-> f[k]]
    <2>1. g \in [at(t, x) -> at(s, x)]
      BY <1>6
    <2>2. \A k, l \in at(t, x) : g[k] = g[l] => k = l
      BY <1>4 DEF Injection, IsInjective
    <2>3. \A k \in at(s, x) : \E l \in at(t, x) : g[l] = k
      <3>1. TAKE k \in at(s, x)
      <3>2. PICK l \in D : f[l] = k
        BY <1>6
      <3>3. l \in at(t, x) /\ g[l] = k
        BY <1>6, <3>2
      <3>4. QED
        BY <3>3
    <2>4. ExistsBijection(at(t, x), at(s, x))
      <3>1. DOMAIN g = at(t, x)
        OBVIOUS
      <3> HIDE DEF g, at
      <3>2. g \in Injection(at(t, x), at(s, x)) /\ g \in Surjection(at(t, x), at(s, x))
        BY <2>1, <2>2, <2>3, <3>1 DEF Injection, Surjection, IsInjective
      <3>3. QED
        BY <3>2 DEF ExistsBijection, Bijection
    <2>5. IsFiniteSet(at(t, x))
      <3>1. at(t, x) \in SUBSET D
        OBVIOUS
      <3>2. QED
        BY <1>3, <3>1, FS_Subset
    <2>6. QED
      BY <2>4, <2>5, FS_Bijection
  <1>8. Range(t) = Range(s)
    BY <1>2, <1>6 DEF Range, D
  <1>9. ToBag(t) = [x \in Range(t) |-> Cardinality(at(t, x))]
    BY <1>2 DEF ToBag
  <1>10. ToBag(s) = [x \in Range(s) |-> Cardinality(at(s, x))]
    BY DEF ToBag, D
  <1> HIDE DEF at
  <1>11. ToBag(t) = ToBag(s)
    BY <1>7, <1>8, <1>9, <1>10
  <1>12. QED
    BY <1>2, <1>11 DEF t, D

-----------------------------------------------------------------------------
(* Queues *)

\* The sequence s holds the elements of waiting, each of them once.
QueueOf(s, waiting) ==
    /\ \A i \in 1 .. Len(s) : s[i] \in waiting
    /\ \A i, j \in 1 .. Len(s) : s[i] = s[j] => i = j
    /\ \A x \in waiting : \E i \in 1 .. Len(s) : s[i] = x

\* Who leaves a queue leaves the others in it.
LEMMA QueueWithout ==
    ASSUME NEW T, NEW s \in Seq(T), NEW W, QueueOf(s, W), NEW i \in 1 .. Len(s)
    PROVE  QueueOf(RemoveAt(s, i), W \ {s[i]})
  <1> DEFINE r == RemoveAt(s, i)
  <1>1. /\ Len(s) \in Nat
        /\ Len(r) = Len(s) - 1
        /\ \A k \in 1 .. Len(s) - 1 : r[k] = s[IF k < i THEN k ELSE k + 1]
    BY RemoveAtElements
  <1> HIDE DEF r
  <1>2. ASSUME NEW k \in 1 .. Len(r)
        PROVE  /\ (IF k < i THEN k ELSE k + 1) \in 1 .. Len(s)
               /\ (IF k < i THEN k ELSE k + 1) # i
               /\ r[k] = s[IF k < i THEN k ELSE k + 1]
    BY <1>1
  <1>3. ASSUME NEW k \in 1 .. Len(r)
        PROVE  r[k] \in W \ {s[i]}
    <2>1. PICK n \in 1 .. Len(s) : n # i /\ r[k] = s[n]
      BY <1>2
    <2>2. s[n] \in W /\ s[n] # s[i]
      BY <2>1 DEF QueueOf
    <2>3. QED
      BY <2>1, <2>2
  <1>4. ASSUME NEW k \in 1 .. Len(r), NEW m \in 1 .. Len(r), r[k] = r[m]
        PROVE  k = m
    <2>1. (IF k < i THEN k ELSE k + 1) = (IF m < i THEN m ELSE m + 1)
      BY <1>2, <1>4 DEF QueueOf
    <2>2. k \in Nat /\ m \in Nat /\ i \in Nat
      BY <1>1
    <2>3. QED
      BY <2>1, <2>2
  <1>5. ASSUME NEW x \in W \ {s[i]}
        PROVE  \E k \in 1 .. Len(r) : r[k] = x
    <2>1. PICK n \in 1 .. Len(s) : s[n] = x
      BY DEF QueueOf
    <2>2. n # i
      BY <2>1
    <2>3. CASE n < i
      <3>1. n \in 1 .. Len(r) /\ n \in 1 .. Len(s) - 1
        BY <1>1, <2>3
      <3>2. r[n] = x
        BY <1>1, <2>1, <2>3, <3>1
      <3>3. QED
        BY <3>1, <3>2
    <2>4. CASE ~(n < i)
      <3>1. /\ n - 1 \in 1 .. Len(r) /\ n - 1 \in 1 .. Len(s) - 1
            /\ ~(n - 1 < i) /\ (n - 1) + 1 = n
        BY <1>1, <2>2, <2>4
      <3>2. r[n - 1] = x
        BY <1>1, <2>1, <3>1
      <3>3. QED
        BY <3>1, <3>2
    <2>5. QED
      BY <2>3, <2>4
  <1>6. QueueOf(r, W \ {s[i]})
    BY <1>3, <1>4, <1>5 DEF QueueOf
  <1>7. QED
    BY <1>6 DEF r

\* Who is served first leaves the others in the queue.
LEMMA QueueTail ==
    ASSUME NEW T, NEW s \in Seq(T), NEW W, QueueOf(s, W), s # <<>>
    PROVE  /\ Head(s) \in W
           /\ QueueOf(Tail(s), W \ {Head(s)})
  <1>1. Len(s) \in Nat /\ 1 \in 1 .. Len(s) /\ s[1] = Head(s)
    OBVIOUS
  <1>2. Head(s) \in W
    BY <1>1 DEF QueueOf
  <1>3. /\ RemoveAt(s, 1) \in Seq(T)
        /\ Len(RemoveAt(s, 1)) = Len(s) - 1
        /\ \A k \in 1 .. Len(s) - 1 : RemoveAt(s, 1)[k] = s[k + 1]
    BY <1>1, RemoveAtElements
  <1>4. /\ Tail(s) \in Seq(T)
        /\ Len(Tail(s)) = Len(s) - 1
        /\ \A k \in 1 .. Len(s) - 1 : Tail(s)[k] = s[k + 1]
    BY <1>1
  <1>5. RemoveAt(s, 1) = Tail(s)
    BY <1>3, <1>4, SeqEqual
  <1>6. QueueOf(RemoveAt(s, 1), W \ {s[1]})
    BY <1>1, QueueWithout
  <1>7. QED
    BY <1>1, <1>2, <1>5, <1>6

\* Who is new goes to the end of the queue.
LEMMA QueueAppend ==
    ASSUME NEW T, NEW s \in Seq(T), NEW W, QueueOf(s, W), NEW x \in T, x \notin W
    PROVE  QueueOf(Append(s, x), W \cup {x})
  <1> DEFINE r == Append(s, x)
  <1>1. /\ Len(s) \in Nat /\ Len(r) = Len(s) + 1
        /\ r[Len(s) + 1] = x
        /\ \A i \in 1 .. Len(s) : r[i] = s[i]
    OBVIOUS
  <1> HIDE DEF r
  <1>2. ASSUME NEW i \in 1 .. Len(r)
        PROVE  i \in 1 .. Len(s) \/ i = Len(s) + 1
    BY <1>1
  <1>3. \A i \in 1 .. Len(s) : s[i] # x /\ i \in 1 .. Len(r)
    BY <1>1 DEF QueueOf
  <1>4. Len(s) + 1 \in 1 .. Len(r)
    BY <1>1
  <1>5. QueueOf(r, W \cup {x})
    BY <1>1, <1>2, <1>3, <1>4 DEF QueueOf
  <1>6. QED
    BY <1>5 DEF r
=============================================================================
