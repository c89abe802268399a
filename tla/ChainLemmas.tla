---------------------------- MODULE ChainLemmas ----------------------------
(***************************************************************************)
(* What the proofs need to know about the chains: sequences that grow at   *)
(* the end and lose their head (ADGenericChain's chain_put(), chain_get()) *)
(* or an element in the middle (chain_remove_by_ident()).                  *)
(***************************************************************************)
EXTENDS Naturals, SequencesExt, SequenceTheorems, FiniteSetTheorems,
        WellFoundedInduction, TLAPS

\* The elements after a chain_put().
LEMMA PutRange ==
  ASSUME NEW S, NEW s \in Seq(S), NEW e \in S
  PROVE  /\ Append(s, e) \in Seq(S)
         /\ Range(Append(s, e)) = Range(s) \cup {e}
<1>1. Append(s, e) \in Seq(S) /\ DOMAIN Append(s, e) = 1..(Len(s) + 1)
  OBVIOUS
<1>2. ASSUME NEW x PROVE x \in Range(Append(s, e)) <=> x \in Range(s) \cup {e}
  <2>1. ASSUME x \in Range(Append(s, e)) PROVE x \in Range(s) \cup {e}
    <3>1. PICK i \in 1..(Len(s) + 1) : x = Append(s, e)[i]
      BY <1>1, <2>1 DEF Range
    <3> QED  BY <3>1 DEF Range
  <2>2. ASSUME x \in Range(s) PROVE x \in Range(Append(s, e))
    <3>1. PICK i \in 1..Len(s) : x = s[i]
      BY <2>2 DEF Range
    <3> QED  BY <1>1, <3>1 DEF Range
  <2>3. e \in Range(Append(s, e))
    <3>1. e = Append(s, e)[Len(s) + 1] /\ Len(s) + 1 \in DOMAIN Append(s, e)
      OBVIOUS
    <3> QED  BY <3>1 DEF Range
  <2> QED  BY <2>1, <2>2, <2>3
<1> QED  BY <1>1, <1>2

\* The elements before a chain_get().
LEMMA GetRange ==
  ASSUME NEW S, NEW s \in Seq(S), s # <<>>
  PROVE  /\ Head(s) \in S /\ Tail(s) \in Seq(S)
         /\ Range(s) = Range(Tail(s)) \cup {Head(s)}
<1>1. /\ Head(s) \in S /\ Tail(s) \in Seq(S)
      /\ Len(s) \in Nat \ {0} /\ Len(Tail(s)) = Len(s) - 1
      /\ DOMAIN s = 1..Len(s) /\ DOMAIN Tail(s) = 1..(Len(s) - 1)
      /\ \A i \in 1..(Len(s) - 1) : Tail(s)[i] = s[i + 1]
      /\ Head(s) = s[1]
  OBVIOUS
<1>2. ASSUME NEW x PROVE x \in Range(s) <=> x \in Range(Tail(s)) \cup {Head(s)}
  <2>1. ASSUME x \in Range(s) PROVE x \in Range(Tail(s)) \cup {Head(s)}
    <3>1. PICK i \in 1..Len(s) : x = s[i]
      BY <1>1, <2>1 DEF Range
    <3>2. CASE i = 1
      BY <1>1, <3>1, <3>2
    <3>3. CASE i # 1
      <4>1. i - 1 \in DOMAIN Tail(s) /\ x = Tail(s)[i - 1]
        BY <1>1, <3>1, <3>3
      <4> QED  BY <4>1 DEF Range
    <3> QED  BY <3>2, <3>3
  <2>2. ASSUME x \in Range(Tail(s)) PROVE x \in Range(s)
    <3>1. PICK i \in 1..(Len(s) - 1) : x = Tail(s)[i]
      BY <1>1, <2>2 DEF Range
    <3>2. i + 1 \in DOMAIN s /\ x = s[i + 1]
      BY <1>1, <3>1
    <3> QED  BY <3>2 DEF Range
  <2>3. Head(s) \in Range(s)
    BY <1>1 DEF Range
  <2> QED  BY <2>1, <2>2, <2>3
<1> QED  BY <1>1, <1>2

\* A larger element at the end keeps a chain increasing.
LEMMA PutIncreasing ==
  ASSUME NEW s \in Seq(Nat), NEW e \in Nat,
         \A i, j \in DOMAIN s : i < j => s[i] < s[j],
         \A x \in Range(s) : x < e
  PROVE  \A i, j \in DOMAIN Append(s, e) :
            i < j => Append(s, e)[i] < Append(s, e)[j]
<1>1. \A i \in 1..Len(s) : s[i] < e
  BY DEF Range
<1> QED  BY <1>1

\* Without its head, an increasing chain is increasing, and all of it is
\* larger than that head.
LEMMA GetIncreasing ==
  ASSUME NEW s \in Seq(Nat), s # <<>>,
         \A i, j \in DOMAIN s : i < j => s[i] < s[j]
  PROVE  /\ \A i, j \in DOMAIN Tail(s) : i < j => Tail(s)[i] < Tail(s)[j]
         /\ \A x \in Range(Tail(s)) : Head(s) < x
<1>1. /\ Len(s) \in Nat \ {0}
      /\ DOMAIN s = 1..Len(s) /\ DOMAIN Tail(s) = 1..(Len(s) - 1)
      /\ \A i \in 1..(Len(s) - 1) : Tail(s)[i] = s[i + 1]
      /\ Head(s) = s[1]
  OBVIOUS
<1>2. \A i, j \in DOMAIN Tail(s) : i < j => Tail(s)[i] < Tail(s)[j]
  BY <1>1, SMTT(30)
<1>3. ASSUME NEW x \in Range(Tail(s)) PROVE Head(s) < x
  <2>1. PICK i \in 1..(Len(s) - 1) : x = s[i + 1]
    BY <1>1 DEF Range
  <2> QED  BY <1>1, <2>1
<1> QED  BY <1>2, <1>3

\* The steps of an element along a line of chains.  The head of the last chain
\* is taken into a hand behind the earlier ones: the line is the same.
LEMMA LineTake ==
  ASSUME NEW S, NEW a \in Seq(S), NEW q \in Seq(S), q # <<>>
  PROVE  (a \o <<>>) \o q = (a \o <<Head(q)>>) \o Tail(q)
<1>1. a \o <<>> = a /\ <<Head(q)>> \in Seq(S) /\ Tail(q) \in Seq(S)
  BY ConcatEmptySeq, HeadTailProperties
<1>2. q = <<Head(q)>> \o Tail(q)
  BY HeadTailProperties
<1>3. (a \o <<Head(q)>>) \o Tail(q) = a \o (<<Head(q)>> \o Tail(q))
  BY <1>1, ConcatAssociative
<1> QED  BY <1>1, <1>2, <1>3

\* The element in hand goes to the end of the chain before it: the line is
\* the same.
LEMMA LinePut ==
  ASSUME NEW S, NEW a \in Seq(S), NEW b \in Seq(S), NEW x \in S
  PROVE  (a \o b) \o <<x>> = (a \o Append(b, x)) \o <<>>
<1>1. Append(b, x) = b \o <<x>> /\ Append(b, x) \in Seq(S) /\ <<x>> \in Seq(S)
  BY AppendIsConcat, AppendProperties
<1>2. a \o Append(b, x) \in Seq(S)
  BY <1>1, ConcatProperties
<1>3. (a \o Append(b, x)) \o <<>> = a \o Append(b, x)
  BY <1>2, ConcatEmptySeq
<1>4. (a \o b) \o <<x>> = a \o (b \o <<x>>)
  BY <1>1, ConcatAssociative
<1> QED  BY <1>1, <1>3, <1>4

\* A put into the last chain is a put into the line.
LEMMA LineAppend ==
  ASSUME NEW S, NEW a \in Seq(S), NEW q \in Seq(S), NEW x \in S
  PROVE  a \o Append(q, x) = Append(a \o q, x)
<1>1. Append(q, x) = q \o <<x>> /\ <<x>> \in Seq(S) /\ a \o q \in Seq(S)
  BY AppendIsConcat, ConcatProperties
<1>2. Append(a \o q, x) = (a \o q) \o <<x>>
  BY <1>1, AppendIsConcat
<1>3. (a \o q) \o <<x>> = a \o (q \o <<x>>)
  BY <1>1, ConcatAssociative
<1> QED  BY <1>1, <1>2, <1>3

\* The head of a line is the head of its first chain.
LEMMA LineHead ==
  ASSUME NEW S, NEW f \in Seq(S), NEW q \in Seq(S), f # <<>>
  PROVE  /\ f \o q # <<>> /\ Head(f \o q) = Head(f)
         /\ Tail(f \o q) = Tail(f) \o q
<1>1. f \o q \in Seq(S) /\ Len(f \o q) = Len(f) + Len(q)
  BY ConcatProperties
<1>2. Tail(f) \in Seq(S) /\ Tail(f) \o q \in Seq(S)
  BY HeadTailProperties, ConcatProperties
<1>3. f \o q # <<>> /\ Head(f \o q) = Head(f)
  BY <1>1
<1>4. Tail(f \o q) = Tail(f) \o q
  BY <1>1, <1>2, <1>3
<1> QED  BY <1>3, <1>4

\* The element in the middle of the line is lost.
LEMMA LineLose ==
  ASSUME NEW S, NEW a \in Seq(S), NEW q \in Seq(S), NEW x \in S
  PROVE  /\ Len(a) + 1 \in DOMAIN ((a \o <<x>>) \o q)
         /\ RemoveAt((a \o <<x>>) \o q, Len(a) + 1) = (a \o <<>>) \o q
<1> DEFINE line == (a \o <<x>>) \o q
           i == Len(a) + 1
<1>1. <<x>> \in Seq(S) /\ a \o <<x>> \in Seq(S) /\ line \in Seq(S)
  BY ConcatProperties
<1>2. Len(a) \in Nat /\ Len(a \o <<x>>) = i /\ Len(line) = i + Len(q)
  BY <1>1, ConcatProperties
<1>3. i \in DOMAIN line
  BY <1>1, <1>2
<1>4. SubSeq(line, 1, i - 1) = a
  BY <1>1, <1>2
<1>5. SubSeq(line, i + 1, Len(line)) = q
  BY <1>1, <1>2
<1>6. a \o <<>> = a
  BY ConcatEmptySeq
<1> QED  BY <1>3, <1>4, <1>5, <1>6 DEF RemoveAt

\* A set of numbers has a smallest one.
LEMMA NatMinimum ==
  ASSUME NEW T, T \subseteq Nat, T # {}
  PROVE  \E m \in T : \A n \in T : m <= n
<1>1. PICK m \in T : \A n \in T : ~(<<n, m>> \in OpToRel(<, Nat))
  BY WFMin, NatLessThanWellFounded
<1>2. ASSUME NEW n \in T PROVE m <= n
  <2>1. ~(<<n, m>> \in OpToRel(<, Nat))
    BY <1>1
  <2>2. ~(n < m)
    BY <2>1 DEF OpToRel
  <2> QED  BY <2>2
<1> QED  BY <1>2

\* What is left when one element is taken out.
LEMMA RemovedAt ==
  ASSUME NEW S, NEW s \in Seq(S), NEW k \in DOMAIN s
  PROVE  /\ RemoveAt(s, k) \in Seq(S)
         /\ Len(RemoveAt(s, k)) = Len(s) - 1
         /\ \A i \in 1..(Len(s) - 1) :
               RemoveAt(s, k)[i] = IF i < k THEN s[i] ELSE s[i + 1]
         /\ Range(RemoveAt(s, k)) \subseteq Range(s)
         /\ Range(s) = Range(RemoveAt(s, k)) \cup {s[k]}
<1> SUFFICES ASSUME NEW r, r = RemoveAt(s, k)
             PROVE  /\ r \in Seq(S) /\ Len(r) = Len(s) - 1
                    /\ \A i \in 1..(Len(s) - 1) :
                          r[i] = IF i < k THEN s[i] ELSE s[i + 1]
                    /\ Range(r) \subseteq Range(s)
                    /\ Range(s) = Range(r) \cup {s[k]}
  OBVIOUS
<1>1. /\ r \in Seq(S) /\ Len(s) \in Nat /\ Len(r) = Len(s) - 1
      /\ DOMAIN s = 1..Len(s) /\ DOMAIN r = 1..(Len(s) - 1)
      /\ \A i \in 1..(Len(s) - 1) : r[i] = IF i < k THEN s[i] ELSE s[i + 1]
  <2> DEFINE a == SubSeq(s, 1, k - 1)
             b == SubSeq(s, k + 1, Len(s))
  <2>0. Len(s) \in Nat /\ k \in 1..Len(s) /\ DOMAIN s = 1..Len(s)
    OBVIOUS
  <2>1. /\ a \in Seq(S) /\ Len(a) = k - 1
        /\ \A i \in 1..(k - 1) : a[i] = s[i]
    BY <2>0
  <2>2. /\ b \in Seq(S) /\ Len(b) = Len(s) - k
        /\ \A i \in 1..(Len(s) - k) : b[i] = s[k + i]
    BY <2>0
  <2> HIDE DEF a, b
  <2>3. r = a \o b
    BY DEF RemoveAt, a, b
  <2>4. /\ a \o b \in Seq(S) /\ Len(a \o b) = Len(s) - 1
        /\ DOMAIN (a \o b) = 1..(Len(s) - 1)
    <3>1. a \o b \in Seq(S) /\ Len(a \o b) = Len(a) + Len(b)
      BY <2>1, <2>2, ConcatProperties
    <3>2. Len(a) + Len(b) = Len(s) - 1
      BY <2>0, <2>1, <2>2
    <3>3. DOMAIN (a \o b) = 1..Len(a \o b)
      BY <3>1, LenProperties
    <3> QED  BY <3>1, <3>2, <3>3
  <2>5. ASSUME NEW i \in 1..(Len(s) - 1)
        PROVE  (a \o b)[i] = IF i < k THEN s[i] ELSE s[i + 1]
    <3>1. CASE i < k
      BY <2>0, <2>1, <2>2, <3>1
    <3>2. CASE ~(i < k)
      <4>1. (a \o b)[i] = b[i - (k - 1)]
        BY <2>0, <2>1, <2>2, <3>2
      <4>2. i - (k - 1) \in 1..(Len(s) - k) /\ k + (i - (k - 1)) = i + 1
        BY <2>0, <3>2
      <4> QED  BY <2>2, <3>2, <4>1, <4>2
    <3> QED  BY <3>1, <3>2
  <2> QED  BY ONLY <2>0, <2>3, <2>4, <2>5, Zenon
<1>2. ASSUME NEW x \in Range(r) PROVE x \in Range(s)
  <2>1. PICK i \in 1..(Len(s) - 1) : x = r[i]
    BY <1>1 DEF Range
  <2>2. i \in DOMAIN s /\ i + 1 \in DOMAIN s /\ (x = s[i] \/ x = s[i + 1])
    BY <1>1, <2>1
  <2> QED  BY <2>2 DEF Range
<1>3. ASSUME NEW x \in Range(s), x # s[k] PROVE x \in Range(r)
  <2>1. PICK i \in 1..Len(s) : x = s[i]
    BY <1>1 DEF Range
  <2>2. CASE i < k
    <3>1. i \in DOMAIN r /\ r[i] = x
      BY <1>1, <2>1, <2>2
    <3> QED  BY <3>1 DEF Range
  <2>3. CASE i > k
    <3>1. i - 1 \in DOMAIN r /\ r[i - 1] = x
      BY <1>1, <2>1, <2>3
    <3> QED  BY <3>1 DEF Range
  <2> QED  BY <1>1, <1>3, <2>1, <2>2, <2>3
<1>4. s[k] \in Range(s)
  BY DEF Range
<1>5. Range(r) \subseteq Range(s) /\ Range(s) = Range(r) \cup {s[k]}
  BY ONLY <1>2, <1>3, <1>4
<1> QED  BY ONLY <1>1, <1>5

\* Where a chain holds an element of T.
Places(s, T) == {i \in DOMAIN s : s[i] \in T}

\* There are finitely many such places.
LEMMA PlacesFinite ==
  ASSUME NEW S, NEW s \in Seq(S), NEW T
  PROVE  IsFiniteSet(Places(s, T)) /\ Cardinality(Places(s, T)) \in Nat
<1>1. Places(s, T) \in SUBSET (1..Len(s)) /\ Len(s) \in Nat
  BY DEF Places
<1>2. IsFiniteSet(1..Len(s))
  BY <1>1, FS_Interval
<1>3. IsFiniteSet(Places(s, T))
  BY <1>1, <1>2, FS_Subset
<1> QED  BY <1>3, FS_CardinalityType

\* A chain without an element of T has no such place.
LEMMA NoPlaces ==
  ASSUME NEW s, NEW T, Range(s) \cap T = {}
  PROVE  Cardinality(Places(s, T)) = 0
<1>1. Places(s, T) = {}
  BY DEF Places, Range
<1> QED  BY <1>1, FS_EmptySet

\* A chain_put() adds one place, or none.
LEMMA PutCount ==
  ASSUME NEW S, NEW s \in Seq(S), NEW T, NEW e \in S
  PROVE  Cardinality(Places(Append(s, e), T)) =
            IF e \in T THEN Cardinality(Places(s, T)) + 1
                       ELSE Cardinality(Places(s, T))
<1>1. /\ Len(s) \in Nat /\ DOMAIN s = 1..Len(s)
      /\ DOMAIN Append(s, e) = 1..(Len(s) + 1)
      /\ \A i \in 1..Len(s) : Append(s, e)[i] = s[i]
      /\ Append(s, e)[Len(s) + 1] = e
  OBVIOUS
<1>2. Places(Append(s, e), T) =
         IF e \in T THEN Places(s, T) \cup {Len(s) + 1} ELSE Places(s, T)
  BY <1>1 DEF Places
<1>3. Len(s) + 1 \notin Places(s, T)
  BY <1>1 DEF Places
<1>4. IsFiniteSet(Places(s, T))
  BY PlacesFinite
<1>5. Cardinality(Places(s, T) \cup {Len(s) + 1}) = Cardinality(Places(s, T)) + 1
  BY <1>3, <1>4, FS_AddElement
<1> QED  BY <1>2, <1>5

\* A chain_get() takes one place, or none.
LEMMA GetCount ==
  ASSUME NEW S, NEW s \in Seq(S), NEW T, s # <<>>
  PROVE  Cardinality(Places(s, T)) =
            IF Head(s) \in T THEN Cardinality(Places(Tail(s), T)) + 1
                             ELSE Cardinality(Places(Tail(s), T))
<1>1. /\ Tail(s) \in Seq(S) /\ Len(s) \in Nat \ {0}
      /\ DOMAIN s = 1..Len(s) /\ DOMAIN Tail(s) = 1..(Len(s) - 1)
      /\ \A i \in 1..(Len(s) - 1) : Tail(s)[i] = s[i + 1]
      /\ Head(s) = s[1]
  OBVIOUS
<1> DEFINE P == Places(s, T)
           Q == Places(Tail(s), T)
           f == [i \in Q |-> i + 1]
<1>2. P \subseteq Int /\ Q \subseteq Int
  BY <1>1 DEF Places
<1>3. \A i \in Q : i + 1 \in P \ {1}
  BY <1>1 DEF Places
<1>4. \A j \in P \ {1} : j - 1 \in Q
  BY <1>1 DEF Places
<1>5. IsFiniteSet(P) /\ IsFiniteSet(Q) /\ Cardinality(P) \in Nat
  BY <1>1, PlacesFinite
<1>6. 1 \in P <=> Head(s) \in T
  BY <1>1 DEF Places
<1> HIDE DEF P, Q
<1>7. f \in Bijection(Q, P \ {1})
  <2>1. f \in [Q -> P \ {1}]
    BY <1>3
  <2>2. \A i, j \in Q : f[i] = f[j] => i = j
    BY <1>2
  <2>3. \A j \in P \ {1} : \E i \in Q : f[i] = j
    <3> TAKE j \in P \ {1}
    <3>1. j - 1 \in Q /\ f[j - 1] = j
      BY <1>2, <1>4
    <3> QED  BY <3>1
  <2> HIDE DEF f
  <2> QED  BY <2>1, <2>2, <2>3 DEF Bijection, Injection, Surjection, IsInjective
<1>8. ExistsBijection(Q, P \ {1})
  BY <1>7 DEF ExistsBijection
<1>9. Cardinality(P \ {1}) = Cardinality(Q)
  BY <1>5, <1>8, FS_Bijection
<1>10. Cardinality(P \ {1}) =
         IF 1 \in P THEN Cardinality(P) - 1 ELSE Cardinality(P)
  BY <1>5, FS_RemoveElement
<1> QED  BY <1>5, <1>6, <1>9, <1>10 DEF P, Q

\* A removal from the middle takes one place, or none.
LEMMA RemovedCount ==
  ASSUME NEW S, NEW s \in Seq(S), NEW T, NEW k \in DOMAIN s
  PROVE  Cardinality(Places(s, T)) =
            IF s[k] \in T THEN Cardinality(Places(RemoveAt(s, k), T)) + 1
                          ELSE Cardinality(Places(RemoveAt(s, k), T))
<1>1. PICK r \in Seq(S) :
        /\ r = RemoveAt(s, k) /\ Len(r) = Len(s) - 1
        /\ \A i \in 1..(Len(s) - 1) : r[i] = IF i < k THEN s[i] ELSE s[i + 1]
  BY RemovedAt
<1>2. /\ Len(s) \in Nat \ {0} /\ k \in 1..Len(s)
      /\ DOMAIN s = 1..Len(s) /\ DOMAIN r = 1..(Len(s) - 1)
  BY <1>1
<1> DEFINE P == Places(s, T)
           Q == Places(r, T)
           Old(i) == IF i < k THEN i ELSE i + 1
           f == [i \in Q |-> Old(i)]
<1>3. P \subseteq Int /\ Q \subseteq Int
  BY <1>2 DEF Places
<1>4. \A i \in Q : Old(i) \in P \ {k}
  BY <1>1, <1>2 DEF Places
<1>5. \A j \in P \ {k} : \E i \in Q : Old(i) = j
  <2> TAKE j \in P \ {k}
  <2>1. j \in 1..Len(s) /\ s[j] \in T /\ j # k
    BY <1>2 DEF Places
  <2>2. CASE j < k
    <3>1. j \in 1..(Len(s) - 1) /\ r[j] = s[j]
      BY <1>1, <1>2, <2>1, <2>2
    <3>2. j \in Q /\ Old(j) = j
      BY <1>2, <2>1, <2>2, <3>1 DEF Places
    <3> QED  BY <3>2
  <2>3. CASE j > k
    <3>1. j - 1 \in 1..(Len(s) - 1) /\ ~(j - 1 < k) /\ (j - 1) + 1 = j
      BY <1>2, <2>1, <2>3
    <3>2. r[j - 1] = s[j]
      BY <1>1, <3>1
    <3>3. j - 1 \in Q /\ Old(j - 1) = j
      BY <1>2, <2>1, <3>1, <3>2 DEF Places
    <3> QED  BY <3>3
  <2> QED  BY <1>2, <2>1, <2>2, <2>3
<1>6. IsFiniteSet(P) /\ IsFiniteSet(Q) /\ Cardinality(P) \in Nat
  BY PlacesFinite
<1>7. k \in P <=> s[k] \in T
  BY <1>2 DEF Places
<1>8. \A i, j \in Q : Old(i) = Old(j) => i = j
  BY <1>2, <1>3
<1> HIDE DEF P, Q, Old
<1>9. f \in Bijection(Q, P \ {k})
  <2>1. f \in [Q -> P \ {k}]
    BY <1>4
  <2>2. \A i, j \in Q : f[i] = f[j] => i = j
    BY <1>8
  <2>3. \A j \in P \ {k} : \E i \in Q : f[i] = j
    BY <1>5
  <2> HIDE DEF f
  <2> QED  BY <2>1, <2>2, <2>3 DEF Bijection, Injection, Surjection, IsInjective
<1>10. ExistsBijection(Q, P \ {k})
  BY <1>9 DEF ExistsBijection
<1>11. Cardinality(P \ {k}) = Cardinality(Q)
  BY <1>6, <1>10, FS_Bijection
<1>12. Cardinality(P \ {k}) =
         IF k \in P THEN Cardinality(P) - 1 ELSE Cardinality(P)
  BY <1>6, FS_RemoveElement
<1>13. Cardinality(P) = IF s[k] \in T THEN Cardinality(Q) + 1
                                      ELSE Cardinality(Q)
  BY <1>6, <1>7, <1>11, <1>12
<1> QED  BY <1>1, <1>13 DEF P, Q
============================================================================
