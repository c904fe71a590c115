----------------------------- MODULE CrawlProofs ----------------------------
(***************************************************************************)
(* Proofs about Crawl for every site, every command line and every room in *)
(* the channels: what n counts, that no channel closes under a sender      *)
(* while main is in its loop, that no url is asked for twice, and that a   *)
(* crawl from a url works through a Worklist.                              *)
(***************************************************************************)
EXTENDS Crawl, TLAPS, FiniteSetTheorems, SequenceTheorems

(* Sequences as the channels of the program. *)

\* A receive takes the first element out.
LEMMA SeqTail ==
  ASSUME NEW S, NEW s \in Seq(S), s # <<>>
  PROVE  /\ Head(s) \in S /\ Tail(s) \in Seq(S) /\ Len(Tail(s)) = Len(s) - 1 /\ Len(s) \in Nat
         /\ ToSet(Tail(s)) \cup {Head(s)} = ToSet(s)
         /\ IsInjective(s) => IsInjective(Tail(s)) /\ Head(s) \notin ToSet(Tail(s))
<1>1. /\ Len(s) \in Nat \ {0} /\ Head(s) = s[1] /\ Head(s) \in S /\ Tail(s) \in Seq(S)
      /\ Len(Tail(s)) = Len(s) - 1
      /\ \A i \in 1..(Len(s) - 1) : Tail(s)[i] = s[i + 1]
      /\ DOMAIN s = 1..Len(s) /\ DOMAIN Tail(s) = 1..(Len(s) - 1)
  BY HeadTailProperties, LenProperties, EmptySeq
<1>2. ToSet(Tail(s)) \cup {Head(s)} = ToSet(s)
  <2>1. ASSUME NEW x \in ToSet(Tail(s)) \cup {Head(s)} PROVE x \in ToSet(s)
    BY <1>1 DEF ToSet
  <2>2. ASSUME NEW i \in 1..Len(s) PROVE s[i] \in ToSet(Tail(s)) \cup {Head(s)}
    <3>1. CASE i = 1
      BY <1>1, <3>1
    <3>2. CASE i # 1
      <4> DEFINE j == i - 1
      <4>1. j \in 1..(Len(s) - 1) /\ i = j + 1
        BY <1>1, <3>2
      <4>2. Tail(s)[j] = s[i]
        BY <1>1, <4>1
      <4> HIDE DEF j
      <4> QED
        BY <1>1, <4>1, <4>2 DEF ToSet
    <3> QED
      BY <3>1, <3>2
  <2> QED
    BY <1>1, <2>1, <2>2 DEF ToSet
<1>3. ASSUME IsInjective(s) PROVE IsInjective(Tail(s)) /\ Head(s) \notin ToSet(Tail(s))
  <2>1. \A i, j \in 1..Len(s) : s[i] = s[j] => i = j
    BY <1>1, <1>3 DEF IsInjective
  <2>2. \A i, j \in 1..(Len(s) - 1) : Tail(s)[i] = Tail(s)[j] => i = j
    <3> SUFFICES ASSUME NEW i \in 1..(Len(s) - 1), NEW j \in 1..(Len(s) - 1), Tail(s)[i] = Tail(s)[j]
                 PROVE  i = j
      OBVIOUS
    <3>1. i + 1 \in 1..Len(s) /\ j + 1 \in 1..Len(s) /\ s[i + 1] = s[j + 1]
      BY <1>1
    <3> QED
      BY <2>1, <3>1
  <2>3. \A i \in 1..(Len(s) - 1) : Tail(s)[i] # Head(s)
    <3> SUFFICES ASSUME NEW i \in 1..(Len(s) - 1), Tail(s)[i] = s[1] PROVE FALSE
      BY <1>1
    <3>1. i + 1 \in 1..Len(s) /\ 1 \in 1..Len(s) /\ s[i + 1] = s[1]
      BY <1>1
    <3> QED
      BY <2>1, <3>1
  <2> QED
    BY <1>1, <2>2, <2>3 DEF IsInjective, ToSet
<1> QED
  BY <1>1, <1>2, <1>3

\* A send puts the element at the end.
LEMMA SeqAppend ==
  ASSUME NEW S, NEW s \in Seq(S), NEW x \in S
  PROVE  /\ Append(s, x) \in Seq(S) /\ Len(Append(s, x)) = Len(s) + 1 /\ Len(s) \in Nat
         /\ ToSet(Append(s, x)) = ToSet(s) \cup {x}
         /\ IsInjective(s) /\ x \notin ToSet(s) => IsInjective(Append(s, x))
<1>1. /\ Len(s) \in Nat /\ Append(s, x) \in Seq(S) /\ Len(Append(s, x)) = Len(s) + 1
      /\ Append(s, x)[Len(s) + 1] = x
      /\ \A i \in 1..Len(s) : Append(s, x)[i] = s[i]
      /\ DOMAIN s = 1..Len(s) /\ DOMAIN Append(s, x) = 1..(Len(s) + 1)
  BY AppendProperties, LenProperties
<1>2. \A i \in 1..(Len(s) + 1) : i \in 1..Len(s) \/ i = Len(s) + 1
  BY <1>1
<1>3. Len(s) + 1 \in 1..(Len(s) + 1) /\ 1..Len(s) \subseteq 1..(Len(s) + 1)
  BY <1>1
<1>4. ToSet(Append(s, x)) = ToSet(s) \cup {x}
  BY <1>1, <1>2, <1>3 DEF ToSet
<1>5. IsInjective(s) /\ x \notin ToSet(s) => IsInjective(Append(s, x))
  BY <1>1, <1>2 DEF IsInjective, ToSet
<1> QED
  BY <1>1, <1>4, <1>5

\* The entries of one list.
LEMMA RowCount ==
  ASSUME NEW k, NEW m \in Nat
  PROVE  IsFiniteSet({k} \X (1..m)) /\ Cardinality({k} \X (1..m)) = m
<1>1. IsFiniteSet({k}) /\ Cardinality({k}) = 1
  BY FS_Singleton
<1>2. IsFiniteSet(1..m) /\ Cardinality(1..m) = m
  <2>1. Cardinality(1..m) = IF 1 > m THEN 0 ELSE m - 1 + 1
    BY FS_Interval
  <2> QED
    BY <2>1, FS_Interval
<1>3. Cardinality({k} \X (1..m)) = Cardinality({k}) * Cardinality(1..m) /\ IsFiniteSet({k} \X (1..m))
  BY <1>1, <1>2, FS_Product
<1>4. 1 * m = m
  OBVIOUS
<1> QED
  BY <1>1, <1>2, <1>3, <1>4

\* The entries of a sequence of lists are finitely many.
LEMMA EntriesFinite ==
  ASSUME NEW S, NEW c \in Seq(Seq(S))
  PROVE  /\ IsFiniteSet(Entries(c)) /\ Cardinality(Entries(c)) \in Nat
         /\ \A i, j : <<i, j>> \in Entries(c) <=> i \in 1..Len(c) /\ j \in 1..Len(c[i])
<1>1. Len(c) \in Nat /\ \A i \in 1..Len(c) : c[i] \in Seq(S) /\ Len(c[i]) \in Nat
  BY LenProperties, ElementOfSeq
<1> DEFINE row == [i \in 1..Len(c) |-> {i} \X (1..Len(c[i]))]
<1>2. row \in Surjection(1..Len(c), {row[i] : i \in 1..Len(c)})
  BY DEF Surjection
<1>3. IsFiniteSet({row[i] : i \in 1..Len(c)})
  <2>1. IsFiniteSet(1..Len(c))
    BY <1>1, FS_Interval
  <2> HIDE DEF row
  <2> QED
    BY <1>2, <2>1, FS_Surjection
<1>4. \A i \in 1..Len(c) : IsFiniteSet(row[i])
  <2> SUFFICES ASSUME NEW i \in 1..Len(c) PROVE IsFiniteSet({i} \X (1..Len(c[i])))
    OBVIOUS
  <2>1. Len(c[i]) \in Nat
    BY <1>1
  <2> QED
    BY <2>1, RowCount
<1>5. Entries(c) = UNION {row[i] : i \in 1..Len(c)}
  BY DEF Entries
<1>6. IsFiniteSet(Entries(c))
  <2>1. \A T \in {row[i] : i \in 1..Len(c)} : IsFiniteSet(T)
    BY <1>4
  <2> HIDE DEF row
  <2> QED
    BY <1>3, <1>5, <2>1, FS_UNION
<1>7. \A i, j : <<i, j>> \in Entries(c) <=> i \in 1..Len(c) /\ j \in 1..Len(c[i])
  BY DEF Entries
<1> QED
  BY <1>6, <1>7, FS_CardinalityType

\* An entry is a list's place and a place in it.
LEMMA EntryPair ==
  ASSUME NEW c, NEW e \in Entries(c)
  PROVE  \E i \in 1..Len(c) : \E j \in 1..Len(c[i]) : e = <<i, j>>
  BY DEF Entries

\* What the lists hold.
LEMMA MemberOf ==
  ASSUME NEW c, NEW x
  PROVE  x \in Members(c) <=> \E i \in 1..Len(c) : x \in ToSet(c[i])
  BY DEF Members

\* A list sent on in adds its urls.
LEMMA EntriesAppend ==
  ASSUME NEW S, NEW c \in Seq(Seq(S)), NEW l \in Seq(S)
  PROVE  /\ Cardinality(Entries(Append(c, l))) = Cardinality(Entries(c)) + Len(l)
         /\ Members(Append(c, l)) = Members(c) \cup ToSet(l)
         /\ Unlike(c) /\ IsInjective(l) /\ Members(c) \cap ToSet(l) = {} => Unlike(Append(c, l))
<1> DEFINE d == Append(c, l)
           k == Len(c) + 1
           added == {k} \X (1..Len(l))
<1>1. /\ Len(c) \in Nat /\ Len(l) \in Nat /\ d \in Seq(Seq(S)) /\ Len(d) = k /\ d[k] = l
      /\ \A i \in 1..Len(c) : d[i] = c[i]
      /\ DOMAIN l = 1..Len(l) /\ k \notin 1..Len(c) /\ 1..k = (1..Len(c)) \cup {k}
  BY AppendProperties, LenProperties
<1> HIDE DEF d, k
<1>2. Entries(d) = Entries(c) \cup added
  BY <1>1 DEF Entries
<1>3. Entries(c) \cap added = {}
  BY <1>1 DEF Entries
<1>4. Cardinality(added) = Len(l) /\ IsFiniteSet(added)
  <2>1. Len(l) \in Nat
    BY <1>1
  <2> QED
    BY <2>1, RowCount
<1>5. Cardinality(Entries(d)) = Cardinality(Entries(c)) + Len(l)
  <2>1. IsFiniteSet(Entries(c)) /\ Cardinality(Entries(c)) \in Nat
    BY EntriesFinite
  <2>2. Cardinality(Entries(c) \cap added) = 0
    BY <1>3, FS_EmptySet
  <2>3. Cardinality(Entries(c) \cup added) = Cardinality(Entries(c)) + Cardinality(added) - Cardinality(Entries(c) \cap added)
    BY <1>4, <2>1, FS_Union
  <2> QED
    BY <1>1, <1>2, <1>4, <2>1, <2>2, <2>3
<1> HIDE DEF added
<1>6. /\ \A i \in 1..Len(c) : d[i] = c[i] /\ i # k /\ i \in 1..Len(d)
      /\ d[k] = l /\ k \in 1..Len(d)
      /\ \A i \in 1..Len(d) : i \in 1..Len(c) \/ i = k
  BY <1>1
<1>7. Members(d) = Members(c) \cup ToSet(l)
  BY <1>6, MemberOf
<1>8. ASSUME Unlike(c), IsInjective(l), Members(c) \cap ToSet(l) = {} PROVE Unlike(d)
  <2>1. \A i \in 1..Len(c) : ToSet(c[i]) \cap ToSet(l) = {}
    BY <1>8, MemberOf
  <2> QED
    BY <1>6, <1>8, <2>1 DEF Unlike
<1> QED
  BY <1>5, <1>7, <1>8 DEF d

\* A list received from in takes its urls with it.
LEMMA EntriesTail ==
  ASSUME NEW S, NEW c \in Seq(Seq(S)), c # <<>>
  PROVE  /\ Cardinality(Entries(c)) = Cardinality(Entries(Tail(c))) + Len(Head(c))
         /\ Members(c) = Members(Tail(c)) \cup ToSet(Head(c))
         /\ Unlike(c) => /\ Unlike(Tail(c)) /\ IsInjective(Head(c))
                         /\ Members(Tail(c)) \cap ToSet(Head(c)) = {}
<1> DEFINE d == Tail(c)
           l == Head(c)
           first == {1} \X (1..Len(l))
           rest == Entries(c) \ first
           shift == [e \in Entries(d) |-> <<e[1] + 1, e[2]>>]
<1>1. /\ Len(c) \in Nat \ {0} /\ d \in Seq(Seq(S)) /\ Len(d) = Len(c) - 1 /\ l = c[1] /\ l \in Seq(S)
      /\ Len(l) \in Nat /\ DOMAIN l = 1..Len(l)
      /\ \A i \in 1..(Len(c) - 1) : d[i] = c[i + 1]
  BY HeadTailProperties, LenProperties, EmptySeq
<1> HIDE DEF d, l
<1>2. /\ \A i \in 1..Len(d) : i + 1 \in 1..Len(c) /\ i + 1 # 1 /\ d[i] = c[i + 1]
      /\ \A i \in 1..Len(c) : i = 1 \/ \E h \in 1..Len(d) : i = h + 1
      /\ \A h, i \in 1..Len(d) : h + 1 = i + 1 => h = i
      /\ 1 \in 1..Len(c)
  <2>1. \A i \in 1..Len(c) : i = 1 \/ (i - 1 \in 1..Len(d) /\ i = (i - 1) + 1)
    BY <1>1
  <2> QED
    BY <1>1, <2>1
<1>3. \A e \in Entries(d) : shift[e] \in rest
  <2> SUFFICES ASSUME NEW i \in 1..Len(d), NEW j \in 1..Len(d[i]), <<i, j>> \in Entries(d)
               PROVE  shift[<<i, j>>] \in rest
    BY EntryPair
  <2>1. <<i + 1, j>> \in Entries(c)
    BY <1>2, EntriesFinite
  <2>2. i + 1 # 1
    BY <1>2
  <2> QED
    BY <2>1, <2>2
<1>4. \A f \in rest : \E e \in Entries(d) : f = shift[e]
  <2> SUFFICES ASSUME NEW i \in 1..Len(c), NEW j \in 1..Len(c[i]), <<i, j>> \in rest
               PROVE  \E e \in Entries(d) : <<i, j>> = shift[e]
    BY EntryPair
  <2>1. i # 1
    BY <1>1
  <2>2. PICK h \in 1..Len(d) : i = h + 1
    BY <1>2, <2>1
  <2>3. <<h, j>> \in Entries(d)
    BY <1>1, <1>2, <2>2, EntriesFinite
  <2>4. shift[<<h, j>>] = <<i, j>>
    BY <2>2, <2>3
  <2> QED
    BY <2>3, <2>4
<1>5. \A e, f \in Entries(d) : shift[e] = shift[f] => e = f
  <2> SUFFICES ASSUME NEW h \in 1..Len(d), NEW i \in 1..Len(d), NEW j, NEW k,
                      <<h, j>> \in Entries(d), <<i, k>> \in Entries(d), shift[<<h, j>>] = shift[<<i, k>>]
               PROVE  <<h, j>> = <<i, k>>
    <3> SUFFICES ASSUME NEW e \in Entries(d), NEW f \in Entries(d), shift[e] = shift[f] PROVE e = f
      OBVIOUS
    <3>1. \E h \in 1..Len(d) : \E j : e = <<h, j>>
      BY EntryPair
    <3>2. \E i \in 1..Len(d) : \E k : f = <<i, k>>
      BY EntryPair
    <3> QED
      BY <3>1, <3>2
  <2>1. <<h + 1, j>> = <<i + 1, k>>
    OBVIOUS
  <2>2. h + 1 = i + 1 /\ j = k
    BY <2>1
  <2> QED
    BY <1>2, <2>2
<1>6. shift \in Bijection(Entries(d), rest)
  <2>1. shift \in [Entries(d) -> rest]
    BY <1>3
  <2> HIDE DEF shift, rest
  <2> QED
    BY <1>4, <1>5, <2>1 DEF Bijection, Injection, Surjection, IsInjective
<1>7. Cardinality(rest) = Cardinality(Entries(d))
  <2>1. IsFiniteSet(Entries(d)) /\ ExistsBijection(Entries(d), rest)
    BY <1>1, <1>6, EntriesFinite DEF ExistsBijection
  <2> QED
    BY <2>1, FS_Bijection
<1>8. Cardinality(Entries(c)) = Cardinality(Entries(d)) + Len(l)
  <2>1. IsFiniteSet(Entries(c)) /\ Cardinality(Entries(c)) \in Nat
    BY EntriesFinite
  <2>2. Entries(c) \cap first = first
    BY <1>1 DEF Entries
  <2>3. Cardinality(first) = Len(l)
    <3>1. Len(l) \in Nat
      BY <1>1
    <3> QED
      BY <3>1, RowCount
  <2>4. Cardinality(rest) = Cardinality(Entries(c)) - Cardinality(Entries(c) \cap first)
    BY <2>1, FS_Difference
  <2>5. Cardinality(Entries(d)) = Cardinality(Entries(c)) - Len(l)
    BY <1>7, <2>2, <2>3, <2>4
  <2> QED
    BY <1>1, <2>1, <2>5
<1>9. Members(c) = Members(d) \cup ToSet(l)
  <2>1. ASSUME NEW x \in Members(c) PROVE x \in Members(d) \cup ToSet(l)
    <3>1. PICK i \in 1..Len(c) : x \in ToSet(c[i])
      BY MemberOf
    <3>2. CASE i = 1
      BY <1>1, <3>1, <3>2
    <3>3. CASE i # 1
      <4>1. PICK h \in 1..Len(d) : i = h + 1
        BY <1>2, <3>3
      <4>2. x \in ToSet(d[h])
        BY <1>2, <3>1, <4>1
      <4> QED
        BY <4>2, MemberOf
    <3> QED
      BY <3>2, <3>3
  <2>2. ASSUME NEW x \in Members(d) PROVE x \in Members(c)
    <3>1. PICK i \in 1..Len(d) : x \in ToSet(d[i])
      BY MemberOf
    <3>2. i + 1 \in 1..Len(c) /\ x \in ToSet(c[i + 1])
      BY <1>2, <3>1
    <3> QED
      BY <3>2, MemberOf
  <2>3. ToSet(l) \subseteq Members(c)
    BY <1>1, <1>2, MemberOf
  <2> QED
    BY <2>1, <2>2, <2>3
<1>10. ASSUME Unlike(c)
       PROVE  Unlike(d) /\ IsInjective(l) /\ Members(d) \cap ToSet(l) = {}
  <2>1. Unlike(d)
    <3>1. ASSUME NEW i \in 1..Len(d) PROVE IsInjective(d[i])
      <4>1. i + 1 \in 1..Len(c) /\ d[i] = c[i + 1]
        BY <1>2
      <4> QED
        BY <1>10, <4>1 DEF Unlike
    <3>2. ASSUME NEW h \in 1..Len(d), NEW i \in 1..Len(d), h # i
          PROVE  ToSet(d[h]) \cap ToSet(d[i]) = {}
      <4>1. /\ h + 1 \in 1..Len(c) /\ d[h] = c[h + 1]
            /\ i + 1 \in 1..Len(c) /\ d[i] = c[i + 1]
            /\ h + 1 # i + 1
        BY <1>2, <3>2
      <4> QED
        BY <1>10, <4>1 DEF Unlike
    <3> QED
      BY <3>1, <3>2 DEF Unlike
  <2>2. IsInjective(l)
    BY <1>1, <1>2, <1>10 DEF Unlike
  <2>3. \A i \in 1..Len(d) : ToSet(d[i]) \cap ToSet(l) = {}
    BY <1>1, <1>2, <1>10, ZenonT(60) DEF Unlike
  <2>4. Members(d) \cap ToSet(l) = {}
    BY <2>3, MemberOf
  <2> QED
    BY <2>1, <2>2, <2>4
<1> QED
  BY <1>8, <1>9, <1>10 DEF d, l

----------------------------------------------------------------------------
(* What main keeps of a list. *)

\* The members of a finite set of numbers are numbered from the smallest.
LEMMA Ranked ==
  ASSUME NEW m \in Nat, NEW K \in SUBSET (1..m)
  PROVE  /\ Cardinality(K) \in Nat
         /\ \A i \in K : Cardinality({j \in K : j <= i}) \in 1..Cardinality(K)
         /\ \A k \in 1..Cardinality(K) : \E i \in K : Cardinality({j \in K : j <= i}) = k
         /\ \A h, i \in K : Cardinality({j \in K : j <= h}) = Cardinality({j \in K : j <= i}) => h = i
<1> DEFINE upTo(i) == {j \in K : j <= i}
           rank == [i \in K |-> Cardinality(upTo(i))]
<1>1. IsFiniteSet(K) /\ Cardinality(K) \in Nat
  <2>1. IsFiniteSet(1..m)
    BY FS_Interval
  <2> QED
    BY <2>1, FS_Subset, FS_CardinalityType
<1>2. \A i \in K : upTo(i) \subseteq K /\ i \in upTo(i) /\ i \in Nat
  OBVIOUS
<1>3. \A i, j \in K : i < j => upTo(i) \subseteq upTo(j) /\ j \notin upTo(i)
  <2>1. \A h, i, j \in Nat : i < j /\ h <= i => h <= j
    OBVIOUS
  <2>2. \A i, j \in Nat : i < j => ~(j <= i)
    OBVIOUS
  <2>3. K \subseteq Nat
    OBVIOUS
  <2> QED
    BY <2>1, <2>2, <2>3
<1> HIDE DEF upTo
<1>4. \A i \in K : IsFiniteSet(upTo(i)) /\ Cardinality(upTo(i)) \in 1..Cardinality(K)
  <2> SUFFICES ASSUME NEW i \in K
               PROVE  IsFiniteSet(upTo(i)) /\ Cardinality(upTo(i)) \in 1..Cardinality(K)
    OBVIOUS
  <2>1. IsFiniteSet(upTo(i)) /\ Cardinality(upTo(i)) <= Cardinality(K)
    BY <1>1, <1>2, FS_Subset
  <2>2. Cardinality(upTo(i)) \in Nat /\ Cardinality(upTo(i)) # 0
    BY <1>2, <2>1, FS_CardinalityType, FS_EmptySet
  <2> QED
    BY <1>1, <2>1, <2>2
<1>5. \A i, j \in K : i < j => Cardinality(upTo(i)) # Cardinality(upTo(j))
  <2> SUFFICES ASSUME NEW i \in K, NEW j \in K, i < j, Cardinality(upTo(i)) = Cardinality(upTo(j))
               PROVE  FALSE
    OBVIOUS
  <2>1. upTo(i) \subseteq upTo(j) /\ IsFiniteSet(upTo(j))
    BY <1>3, <1>4
  <2>2. upTo(i) = upTo(j)
    BY <2>1, FS_Subset
  <2> QED
    BY <1>2, <1>3, <2>2
<1>6. \A i, j \in K : rank[i] = rank[j] => i = j
  <2> SUFFICES ASSUME NEW i \in K, NEW j \in K, rank[i] = rank[j] PROVE i = j
    OBVIOUS
  <2>1. i < j \/ j < i \/ i = j
    BY <1>2
  <2> QED
    BY <1>5, <2>1
<1>7. rank \in Injection(K, 1..Cardinality(K))
  BY <1>4, <1>6 DEF Injection, IsInjective
<1>8. rank \in Surjection(K, 1..Cardinality(K))
  <2>1. IsFiniteSet(1..Cardinality(K)) /\ Cardinality(1..Cardinality(K)) = Cardinality(K)
    <3>1. Cardinality(1..Cardinality(K)) = IF 1 > Cardinality(K) THEN 0 ELSE Cardinality(K) - 1 + 1
      BY <1>1, FS_Interval
    <3> QED
      BY <1>1, <3>1, FS_Interval
  <2> HIDE DEF rank
  <2> QED
    BY <1>7, <2>1, FS_Injection
<1>9. \A k \in 1..Cardinality(K) : \E i \in K : Cardinality(upTo(i)) = k
  BY <1>8 DEF Surjection
<1> QED
  BY <1>1, <1>4, <1>6, <1>9 DEF upTo

\* A list that has a url has a first place of it.
LEMMA FirstPlace ==
  ASSUME NEW S, NEW list \in Seq(S), NEW u \in ToSet(list)
  PROVE  \E i \in 1..Len(list) : list[i] = u /\ \A j \in 1..(i - 1) : list[j] # u
<1> DEFINE K == {i \in 1..Len(list) : list[i] = u}
           upTo(i) == {j \in K : j <= i}
<1>1. Len(list) \in Nat /\ DOMAIN list = 1..Len(list)
  BY LenProperties
<1>2. K # {} /\ K \in SUBSET (1..Len(list))
  BY <1>1 DEF ToSet
<1> HIDE DEF K
<1>3. IsFiniteSet(K)
  <2>1. IsFiniteSet(1..Len(list))
    BY <1>1, FS_Interval
  <2> QED
    BY <1>2, <2>1, FS_Subset
<1>4. Cardinality(K) \in Nat /\ Cardinality(K) # 0
  BY <1>2, <1>3, FS_CardinalityType, FS_EmptySet
<1>5. PICK i \in K : Cardinality(upTo(i)) = 1
  <2>1. 1 \in 1..Cardinality(K)
    BY <1>4
  <2>2. \A k \in 1..Cardinality(K) : \E i \in K : Cardinality(upTo(i)) = k
    BY <1>1, <1>2, Ranked
  <2> QED
    BY <2>1, <2>2
<1>6. i \in 1..Len(list) /\ i \in upTo(i) /\ list[i] = u
  BY <1>1, <1>2, <1>5 DEF K
<1>7. IsFiniteSet(upTo(i))
  BY <1>3, FS_Subset
<1>8. PICK x : upTo(i) = {x}
  BY <1>5, <1>7, FS_Singleton
<1>9. ASSUME NEW j \in 1..(i - 1), list[j] = u PROVE FALSE
  <2>1. j \in 1..Len(list) /\ j <= i /\ j # i
    BY <1>1, <1>6
  <2>2. j \in upTo(i)
    BY <1>9, <2>1 DEF K
  <2> QED
    BY <1>6, <1>8, <2>1, <2>2
<1> QED
  BY <1>6, <1>9

\* main keeps each new url that matches, once.
LEMMA FreshFacts ==
  ASSUME NEW list \in Seq(Url)
  PROVE  /\ Fresh(list) \in Seq(Url) /\ Len(Fresh(list)) \in Nat
         /\ IsInjective(Fresh(list))
         /\ ToSet(Fresh(list)) = (ToSet(list) \cap Matching) \ urlfilter
<1> DEFINE K == {i \in 1..Len(list) :
                    /\ list[i] \notin urlfilter /\ list[i] \in Matching
                    /\ \A j \in 1..(i - 1) : list[j] # list[i]}
           rank(i) == Cardinality({j \in K : j <= i})
           place(k) == CHOOSE i \in K : rank(i) = k
           m == Cardinality(K)
<1>1. Fresh(list) = [k \in 1..m |-> list[place(k)]]
  BY DEF Fresh
<1>2. /\ Len(list) \in Nat /\ DOMAIN list = 1..Len(list) /\ K \in SUBSET (1..Len(list))
      /\ \A i \in 1..Len(list) : list[i] \in Url
  BY LenProperties, ElementOfSeq
<1>3. /\ \A i \in K : i \in 1..Len(list) /\ list[i] \notin urlfilter /\ list[i] \in Matching
      /\ \A i, j \in K : list[i] = list[j] => i = j
  <2>1. \A i, j \in K : i < j => list[i] # list[j]
    BY <1>2
  <2>2. \A i, j \in K : i < j \/ j < i \/ i = j
    BY <1>2
  <2> QED
    BY <2>1, <2>2
<1>4. \A u \in (ToSet(list) \cap Matching) \ urlfilter : \E i \in K : list[i] = u
  BY FirstPlace
<1> HIDE DEF K
<1>5. /\ m \in Nat
      /\ \A i \in K : rank(i) \in 1..m
      /\ \A k \in 1..m : \E i \in K : rank(i) = k
      /\ \A h, i \in K : rank(h) = rank(i) => h = i
  BY <1>2, Ranked
<1> HIDE DEF rank, m
<1>6. \A k \in 1..m : place(k) \in K /\ rank(place(k)) = k
  BY <1>5
<1> HIDE DEF place
<1>7. Fresh(list) \in [1..m -> Url]
  BY <1>1, <1>2, <1>3, <1>6
<1>8. Fresh(list) \in Seq(Url) /\ Len(Fresh(list)) = m
  BY <1>5, <1>7, LenProperties
<1>9. IsInjective(Fresh(list))
  <2>1. \A j, k \in 1..m : list[place(j)] = list[place(k)] => j = k
    BY <1>3, <1>6
  <2> QED
    BY <1>1, <2>1 DEF IsInjective
<1>10. ASSUME NEW u PROVE u \in ToSet(Fresh(list)) <=> u \in (ToSet(list) \cap Matching) \ urlfilter
  <2>1. ASSUME NEW k \in 1..m PROVE list[place(k)] \in (ToSet(list) \cap Matching) \ urlfilter
    BY <1>2, <1>3, <1>6 DEF ToSet
  <2>2. ASSUME NEW i \in K PROVE list[i] \in ToSet(Fresh(list))
    <3>1. rank(i) \in 1..m
      BY <1>5
    <3>2. place(rank(i)) \in K /\ rank(place(rank(i))) = rank(i)
      BY <1>6, <3>1
    <3>3. \A k \in K : rank(k) = rank(i) => k = i
      BY <1>5
    <3> QED
      BY <1>1, <3>1, <3>2, <3>3 DEF ToSet
  <2> QED
    BY <1>1, <1>4, <2>1, <2>2 DEF ToSet
<1> QED
  BY <1>5, <1>8, <1>9, <1>10

----------------------------------------------------------------------------
(* Types. *)

\* A channel after a receive and after a send.
LEMMA ChanTail ==
  ASSUME NEW c \in Channel, c # <<>>
  PROVE  Head(c) \in Url /\ Tail(c) \in Channel
<1>1. c \in Seq(Url) /\ Len(c) <= Cap
  BY DEF Channel
<1> QED
  BY <1>1, SeqTail, CrawlAssumption DEF Channel

LEMMA ChanAppend ==
  ASSUME NEW c \in Channel, NEW u \in Url, Len(c) < Cap
  PROVE  Append(c, u) \in Channel
<1>1. c \in Seq(Url) /\ Len(c) <= Cap
  BY DEF Channel
<1> QED
  BY <1>1, SeqAppend, CrawlAssumption DEF Channel

\* The channel of lists.
LEMMA ListsTail ==
  ASSUME NEW c \in ListChannel, c # <<>>
  PROVE  Head(c) \in Seq(Url) /\ Tail(c) \in ListChannel
<1>1. c \in Seq(Seq(Url)) /\ Len(c) <= InCap
  BY DEF ListChannel
<1> QED
  BY <1>1, SeqTail, CrawlAssumption DEF ListChannel

LEMMA ListsAppend ==
  ASSUME NEW c \in ListChannel, NEW l \in Seq(Url), Len(c) < InCap
  PROVE  Append(c, l) \in ListChannel
<1>1. c \in Seq(Seq(Url)) /\ Len(c) <= InCap
  BY DEF ListChannel
<1> QED
  BY <1>1, SeqAppend, CrawlAssumption DEF ListChannel

\* A list.
LEMMA ListTail ==
  ASSUME NEW l \in Seq(Url), l # <<>>
  PROVE  Head(l) \in Url /\ Tail(l) \in Seq(Url)
  BY SeqTail

LEMMA ListAppend ==
  ASSUME NEW l \in Seq(Url), NEW u \in Url
  PROVE  Append(l, u) \in Seq(Url)
  BY SeqAppend

\* The command line.
LEMMA FirstTyped == TypeOK => cmd.first \in Url /\ cmd.stdin \in BOOLEAN /\ cmd.limit \in Int
  BY CrawlAssumption DEF TypeOK, MainTyped

\* What main makes of a list of links.
LEMMA RecvLinksTyped ==
  ASSUME TypeOK, link1 # <<>>
  PROVE  LET list == Links[Head(link1)]
         IN  /\ list \in Seq(Url) /\ Fresh(list) \in Seq(Url) /\ Gained(list) \in Nat
             /\ ToSet(list) \subseteq Url
<1>1. Head(link1) \in Url
  BY ChanTail DEF TypeOK, ChannelsTyped
<1>2. Links[Head(link1)] \in Seq(Url)
  BY <1>1, CrawlAssumption
<1> QED
  BY <1>2, FreshFacts, ElementOfSeq, LenProperties DEF ToSet, Gained

LEMMA InitTyped == Init => TypeOK
<1>1. <<>> \in Channel /\ <<>> \in ListChannel /\ <<>> \in Seq(Url)
  BY CrawlAssumption, EmptySeq DEF Channel, ListChannel
<1> SUFFICES ASSUME Init PROVE TypeOK
  OBVIOUS
<1>2. cmd.first \in Url /\ cmd.limit \in Int /\ cmd \in Command
  BY CrawlAssumption DEF Init
<1>3. ChannelsTyped
  BY <1>1 DEF Init, ChannelsTyped
<1>4. ClosedTyped
  BY DEF Init, ClosedTyped
<1>5. WorkersTyped
  BY <1>1, <1>2, CrawlAssumption DEF Init, WorkersTyped
<1>6. MainTyped
  BY <1>1, <1>2 DEF Init, MainTyped
<1> QED
  BY <1>3, <1>4, <1>5, <1>6 DEF TypeOK

\* The channels after a step.
LEMMA ChannelsStep ==
  ASSUME TypeOK, [Next]_vars
  PROVE  ChannelsTyped'
<1> USE DEF TypeOK, ChannelsTyped, channels, closed, getter, pipe, linker, source, sched
<1>1. CASE GetRecv
  BY <1>1, ChanTail, ChanAppend, ListsTail, ListsAppend, FirstTyped DEF GetRecv,
     WorkersTyped, MainTyped
<1>2. CASE Fetch
  BY <1>2, ChanTail, ChanAppend, ListsTail, ListsAppend, FirstTyped DEF Fetch
<1>3. CASE GetErr
  BY <1>3, ChanTail, ChanAppend, ListsTail, ListsAppend, FirstTyped DEF GetErr,
     WorkersTyped, MainTyped
<1>4. CASE GetSend
  BY <1>4, ChanTail, ChanAppend, ListsTail, ListsAppend, FirstTyped DEF GetSend,
     WorkersTyped, MainTyped
<1>5. CASE GetStop
  BY <1>5, ChanTail, ChanAppend, ListsTail, ListsAppend, FirstTyped DEF GetStop
<1>6. CASE PipeRecv
  BY <1>6, ChanTail, ChanAppend, ListsTail, ListsAppend, FirstTyped DEF PipeRecv,
     WorkersTyped, MainTyped
<1>7. CASE PipeSend
  BY <1>7, ChanTail, ChanAppend, ListsTail, ListsAppend, FirstTyped DEF PipeSend,
     WorkersTyped, MainTyped
<1>8. CASE PipeStop
  BY <1>8, ChanTail, ChanAppend, ListsTail, ListsAppend, FirstTyped DEF PipeStop
<1>9. CASE LinkRecv
  BY <1>9, ChanTail, ChanAppend, ListsTail, ListsAppend, FirstTyped DEF LinkRecv,
     WorkersTyped, MainTyped
<1>10. CASE LinkErr
  BY <1>10, ChanTail, ChanAppend, ListsTail, ListsAppend, FirstTyped DEF LinkErr,
     WorkersTyped, MainTyped
<1>11. CASE LinkSend
  BY <1>11, ChanTail, ChanAppend, ListsTail, ListsAppend, FirstTyped DEF LinkSend,
     WorkersTyped, MainTyped
<1>12. CASE LinkStop
  BY <1>12, ChanTail, ChanAppend, ListsTail, ListsAppend, FirstTyped DEF LinkStop
<1>13. CASE LinkStopTwice
  BY <1>13, ChanTail, ChanAppend, ListsTail, ListsAppend, FirstTyped DEF LinkStopTwice
<1>14. CASE FeedRecv
  BY <1>14, ChanTail, ChanAppend, ListsTail, ListsAppend, FirstTyped DEF FeedRecv,
     WorkersTyped, MainTyped
<1>15. CASE FeedSend
  <2>1. Head(flist) \in Url
    BY <1>15, ListTail DEF FeedSend, WorkersTyped
  <2> QED
    BY <1>15, <2>1, ChanAppend DEF FeedSend, SendGet0
<1>16. CASE SeedSend
  <2>1. Head(seeds) \in Url
    BY <1>16, ListTail DEF SeedSend, WorkersTyped
  <2> QED
    BY <1>16, <2>1, ChanAppend DEF SeedSend, SendGet0
<1>17. CASE SendFirst
  BY <1>17, ChanTail, ChanAppend, ListsTail, ListsAppend, FirstTyped DEF SendFirst,
     WorkersTyped, MainTyped
<1>18. CASE MarkFirst
  BY <1>18, ChanTail, ChanAppend, ListsTail, ListsAppend, FirstTyped DEF MarkFirst,
     WorkersTyped, MainTyped
<1>19. CASE Leave
  BY <1>19, ChanTail, ChanAppend, ListsTail, ListsAppend, FirstTyped DEF Leave
<1>20. CASE RecvErr
  BY <1>20, ChanTail DEF RecvErr, LinkErrs
<1>21. CASE RecvLinks
  BY <1>21, ChanTail, ChanAppend, ListsTail, ListsAppend, FirstTyped DEF RecvLinks,
     WorkersTyped, MainTyped
<1>22. CASE Hand
  BY <1>22, ChanTail, ChanAppend, ListsTail, ListsAppend, FirstTyped DEF Hand, WorkersTyped,
     MainTyped
<1>23. CASE CloseGet0
  BY <1>23, ChanTail, ChanAppend, ListsTail, ListsAppend, FirstTyped DEF CloseGet0
<1>24. CASE CloseDone
  BY <1>24, ChanTail, ChanAppend, ListsTail, ListsAppend, FirstTyped DEF CloseDone
<1>25. CASE Return
  BY <1>25, ChanTail, ChanAppend, ListsTail, ListsAppend, FirstTyped DEF Return
<1>26. CASE UNCHANGED vars
  BY <1>26 DEF vars
<1> QED
  BY <1>1, <1>2, <1>3, <1>4, <1>5, <1>6, <1>7, <1>8, <1>9, <1>10, <1>11, <1>12, <1>13,
     <1>14, <1>15, <1>16, <1>17, <1>18, <1>19, <1>20, <1>21, <1>22, <1>23, <1>24, <1>25,
     <1>26 DEF Next, Getter, Pipe, Link, Main

\* The closed flags after a step.
LEMMA ClosedStep ==
  ASSUME TypeOK, [Next]_vars
  PROVE  ClosedTyped'
<1> USE DEF TypeOK, ClosedTyped, channels, closed, getter, pipe, linker, source, sched
<1>1. CASE Getter
  BY <1>1 DEF Getter, GetRecv, Fetch, GetErr, GetSend, GetStop
<1>2. CASE Pipe
  BY <1>2 DEF Pipe, PipeRecv, PipeSend, PipeStop
<1>3. CASE Link
  BY <1>3 DEF Link, LinkRecv, LinkErr, LinkSend, LinkStop, LinkStopTwice
<1>4. CASE FeedRecv
  BY <1>4 DEF FeedRecv
<1>5. CASE FeedSend
  BY <1>5 DEF FeedSend, SendGet0
<1>6. CASE SeedSend
  BY <1>6 DEF SeedSend, SendGet0
<1>7. CASE Main
  BY <1>7 DEF Main, SendFirst, MarkFirst, Leave, RecvErr, RecvLinks, Hand, CloseGet0,
     CloseDone, Return
<1>8. CASE UNCHANGED vars
  BY <1>8 DEF vars
<1> QED
  BY <1>1, <1>2, <1>3, <1>4, <1>5, <1>6, <1>7, <1>8 DEF Next

\* The goroutines after a step.
LEMMA WorkersStep ==
  ASSUME TypeOK, [Next]_vars
  PROVE  WorkersTyped'
<1> USE DEF TypeOK, WorkersTyped, channels, closed, getter, pipe, linker, source, sched
<1>1. CASE GetRecv
  BY <1>1, ChanTail, ListsTail, ListAppend, ListTail DEF GetRecv, ChannelsTyped
<1>2. CASE Fetch
  BY <1>2, ChanTail, ListsTail, ListAppend, ListTail DEF Fetch
<1>3. CASE GetErr
  BY <1>3, ChanTail, ListsTail, ListAppend, ListTail DEF GetErr, ChannelsTyped
<1>4. CASE GetSend
  BY <1>4, ChanTail, ListsTail, ListAppend, ListTail DEF GetSend, ChannelsTyped
<1>5. CASE GetStop
  BY <1>5, ChanTail, ListsTail, ListAppend, ListTail DEF GetStop
<1>6. CASE PipeRecv
  BY <1>6, ChanTail, ListsTail, ListAppend, ListTail DEF PipeRecv, ChannelsTyped
<1>7. CASE PipeSend
  BY <1>7, ChanTail, ListsTail, ListAppend, ListTail DEF PipeSend, ChannelsTyped
<1>8. CASE PipeStop
  BY <1>8, ChanTail, ListsTail, ListAppend, ListTail DEF PipeStop
<1>9. CASE LinkRecv
  BY <1>9, ChanTail, ListsTail, ListAppend, ListTail DEF LinkRecv, ChannelsTyped
<1>10. CASE LinkErr
  BY <1>10, ChanTail, ListsTail, ListAppend, ListTail DEF LinkErr, ChannelsTyped
<1>11. CASE LinkSend
  BY <1>11, ChanTail, ListsTail, ListAppend, ListTail DEF LinkSend, ChannelsTyped
<1>12. CASE LinkStop
  BY <1>12, ChanTail, ListsTail, ListAppend, ListTail DEF LinkStop
<1>13. CASE LinkStopTwice
  BY <1>13, ChanTail, ListsTail, ListAppend, ListTail DEF LinkStopTwice
<1>14. CASE FeedRecv
  BY <1>14, ChanTail, ListsTail, ListAppend, ListTail DEF FeedRecv, ChannelsTyped
<1>15. CASE FeedSend
  BY <1>15, ChanTail, ListsTail, ListAppend, ListTail DEF FeedSend, SendGet0, ChannelsTyped
<1>16. CASE SeedSend
  BY <1>16, ChanTail, ListsTail, ListAppend, ListTail DEF SeedSend, SendGet0, ChannelsTyped
<1>17. CASE SendFirst
  BY <1>17, ChanTail, ListsTail, ListAppend, ListTail DEF SendFirst, ChannelsTyped
<1>18. CASE MarkFirst
  BY <1>18, ChanTail, ListsTail, ListAppend, ListTail DEF MarkFirst, ChannelsTyped
<1>19. CASE Leave
  BY <1>19, ChanTail, ListsTail, ListAppend, ListTail DEF Leave
<1>20. CASE RecvErr
  BY <1>20, ChanTail, ListsTail, ListAppend, ListTail DEF RecvErr, ChannelsTyped
<1>21. CASE RecvLinks
  BY <1>21, ChanTail, ListsTail, ListAppend, ListTail DEF RecvLinks, ChannelsTyped
<1>22. CASE Hand
  BY <1>22, ChanTail, ListsTail, ListAppend, ListTail DEF Hand, ChannelsTyped
<1>23. CASE CloseGet0
  BY <1>23, ChanTail, ListsTail, ListAppend, ListTail DEF CloseGet0
<1>24. CASE CloseDone
  BY <1>24, ChanTail, ListsTail, ListAppend, ListTail DEF CloseDone
<1>25. CASE Return
  BY <1>25, ChanTail, ListsTail, ListAppend, ListTail DEF Return
<1>26. CASE UNCHANGED vars
  BY <1>26 DEF vars
<1> QED
  BY <1>1, <1>2, <1>3, <1>4, <1>5, <1>6, <1>7, <1>8, <1>9, <1>10, <1>11, <1>12, <1>13,
     <1>14, <1>15, <1>16, <1>17, <1>18, <1>19, <1>20, <1>21, <1>22, <1>23, <1>24, <1>25,
     <1>26 DEF Next, Getter, Pipe, Link, Main

\* main after a step.
LEMMA MainStep ==
  ASSUME TypeOK, [Next]_vars
  PROVE  MainTyped'
<1> USE DEF TypeOK, MainTyped, channels, closed, getter, pipe, linker, source, sched
<1>1. CASE GetRecv
  BY <1>1, FirstTyped DEF GetRecv
<1>2. CASE Fetch
  BY <1>2, FirstTyped DEF Fetch
<1>3. CASE GetErr
  BY <1>3, FirstTyped DEF GetErr
<1>4. CASE GetSend
  BY <1>4, FirstTyped DEF GetSend
<1>5. CASE GetStop
  BY <1>5, FirstTyped DEF GetStop
<1>6. CASE PipeRecv
  BY <1>6, FirstTyped DEF PipeRecv
<1>7. CASE PipeSend
  BY <1>7, FirstTyped DEF PipeSend
<1>8. CASE PipeStop
  BY <1>8, FirstTyped DEF PipeStop
<1>9. CASE LinkRecv
  BY <1>9, FirstTyped DEF LinkRecv
<1>10. CASE LinkErr
  BY <1>10, FirstTyped DEF LinkErr
<1>11. CASE LinkSend
  BY <1>11, FirstTyped DEF LinkSend
<1>12. CASE LinkStop
  BY <1>12, FirstTyped DEF LinkStop
<1>13. CASE LinkStopTwice
  BY <1>13, FirstTyped DEF LinkStopTwice
<1>14. CASE FeedRecv
  BY <1>14, FirstTyped DEF FeedRecv
<1>15. CASE FeedSend
  BY <1>15, FirstTyped DEF FeedSend, SendGet0
<1>16. CASE SeedSend
  BY <1>16, FirstTyped DEF SeedSend, SendGet0
<1>17. CASE SendFirst
  BY <1>17, FirstTyped DEF SendFirst
<1>18. CASE MarkFirst
  BY <1>18, FirstTyped DEF MarkFirst
<1>19. CASE Leave
  BY <1>19, FirstTyped DEF Leave
<1>20. CASE RecvErr
  <2>1. n \in Int /\ n' = n - 1
    BY <1>20 DEF RecvErr
  <2>2. n' \in Int
    <3> HIDE DEF TypeOK, MainTyped
    <3> QED
      BY <2>1
  <2> QED
    BY <1>20, <2>2 DEF RecvErr
<1>21. CASE RecvLinks
  <2> DEFINE list == Links[Head(link1)]
  <2>1. /\ list \in Seq(Url) /\ Fresh(list) \in Seq(Url) /\ Gained(list) \in Nat
        /\ ToSet(list) \subseteq Url
    BY <1>21, RecvLinksTyped DEF RecvLinks
  <2>2. /\ n' = n - 1 + Gained(list) /\ mlist' = Fresh(list) /\ limit' = limit - 1
        /\ urlfilter' = urlfilter \cup ToSet(list)
        /\ mpc' \in {"close0", "hand"} /\ cmd' = cmd /\ panic' = panic
    BY <1>21 DEF RecvLinks
  <2> HIDE DEF list
  <2>3. n \in Int /\ limit \in Int /\ urlfilter \in SUBSET Url
    OBVIOUS
  <2>4. n' \in Int /\ limit' \in Int /\ urlfilter' \in SUBSET Url
    <3> HIDE DEF TypeOK, MainTyped
    <3> QED
      BY <2>1, <2>2, <2>3
  <2>5. mlist' \in Seq(Url)
    BY <2>1, <2>2
  <2>6. /\ cmd' \in Command /\ mpc' \in {"close0", "hand"}
        /\ panic' \in {"none", "send on closed get0", "close of closed link1"}
    BY <2>2
  <2> QED
    BY <2>4, <2>5, <2>6
<1>22. CASE Hand
  BY <1>22, EmptySeq DEF Hand
<1>23. CASE CloseGet0
  BY <1>23, FirstTyped DEF CloseGet0
<1>24. CASE CloseDone
  BY <1>24, FirstTyped DEF CloseDone
<1>25. CASE Return
  BY <1>25, FirstTyped DEF Return
<1>26. CASE UNCHANGED vars
  BY <1>26 DEF vars
<1> QED
  BY <1>1, <1>2, <1>3, <1>4, <1>5, <1>6, <1>7, <1>8, <1>9, <1>10, <1>11, <1>12, <1>13,
     <1>14, <1>15, <1>16, <1>17, <1>18, <1>19, <1>20, <1>21, <1>22, <1>23, <1>24, <1>25,
     <1>26 DEF Next, Getter, Pipe, Link, Main

\* Every step keeps the types.
LEMMA TypeStep ==
  ASSUME TypeOK, [Next]_vars
  PROVE  TypeOK'
  BY ChannelsStep, ClosedStep, WorkersStep, MainStep DEF TypeOK

----------------------------------------------------------------------------
(* Channels that are open, the limit and standard input. *)

\* No channel closes while main is in its loop.
LEMMA OpenStep ==
  ASSUME TypeOK, OpenWhileCrawling, [Next]_vars
  PROVE  OpenWhileCrawling'
<1> USE DEF OpenWhileCrawling, Running, NoMoreUrls, channels, closed, getter, pipe, linker, source, sched
<1>1. CASE GetRecv
  BY <1>1 DEF GetRecv
<1>2. CASE Fetch
  BY <1>2 DEF Fetch
<1>3. CASE GetErr
  BY <1>3 DEF GetErr
<1>4. CASE GetSend
  BY <1>4 DEF GetSend
<1>5. CASE GetStop
  BY <1>5 DEF GetStop
<1>6. CASE PipeRecv
  BY <1>6 DEF PipeRecv
<1>7. CASE PipeSend
  BY <1>7 DEF PipeSend
<1>8. CASE PipeStop
  BY <1>8 DEF PipeStop
<1>9. CASE LinkRecv
  BY <1>9 DEF LinkRecv
<1>10. CASE LinkErr
  BY <1>10 DEF LinkErr
<1>11. CASE LinkSend
  BY <1>11 DEF LinkSend
<1>12. CASE LinkStop
  BY <1>12 DEF LinkStop
<1>13. CASE LinkStopTwice
  BY <1>13 DEF LinkStopTwice
<1>14. CASE FeedRecv
  BY <1>14 DEF FeedRecv
<1>15. CASE FeedSend
  BY <1>15 DEF FeedSend, SendGet0
<1>16. CASE SeedSend
  BY <1>16 DEF SeedSend, SendGet0
<1>17. CASE SendFirst
  BY <1>17 DEF SendFirst
<1>18. CASE MarkFirst
  BY <1>18 DEF MarkFirst
<1>19. CASE Leave
  BY <1>19 DEF Leave
<1>20. CASE RecvErr
  BY <1>20 DEF RecvErr
<1>21. CASE RecvLinks
  BY <1>21 DEF RecvLinks
<1>22. CASE Hand
  BY <1>22 DEF Hand
<1>23. CASE CloseGet0
  BY <1>23 DEF CloseGet0
<1>24. CASE CloseDone
  BY <1>24 DEF CloseDone
<1>25. CASE Return
  BY <1>25 DEF Return
<1>26. CASE UNCHANGED vars
  BY <1>26 DEF vars
<1> QED
  BY <1>1, <1>2, <1>3, <1>4, <1>5, <1>6, <1>7, <1>8, <1>9, <1>10, <1>11, <1>12, <1>13,
     <1>14, <1>15, <1>16, <1>17, <1>18, <1>19, <1>20, <1>21, <1>22, <1>23, <1>24, <1>25,
     <1>26 DEF Next, Getter, Pipe, Link, Main

\* main counts the link lists it has yet to take.
LEMMA LimitStep ==
  ASSUME TypeOK, LimitKept, [Next]_vars
  PROVE  LimitKept'
<1> USE DEF LimitKept, TypeOK, MainTyped, Running, AtLimit, channels, closed, getter, pipe, linker, source, sched
<1>1. CASE GetRecv
  BY <1>1 DEF GetRecv
<1>2. CASE Fetch
  BY <1>2 DEF Fetch
<1>3. CASE GetErr
  BY <1>3 DEF GetErr
<1>4. CASE GetSend
  BY <1>4 DEF GetSend
<1>5. CASE GetStop
  BY <1>5 DEF GetStop
<1>6. CASE PipeRecv
  BY <1>6 DEF PipeRecv
<1>7. CASE PipeSend
  BY <1>7 DEF PipeSend
<1>8. CASE PipeStop
  BY <1>8 DEF PipeStop
<1>9. CASE LinkRecv
  BY <1>9 DEF LinkRecv
<1>10. CASE LinkErr
  BY <1>10 DEF LinkErr
<1>11. CASE LinkSend
  BY <1>11 DEF LinkSend
<1>12. CASE LinkStop
  BY <1>12 DEF LinkStop
<1>13. CASE LinkStopTwice
  BY <1>13 DEF LinkStopTwice
<1>14. CASE FeedRecv
  BY <1>14 DEF FeedRecv
<1>15. CASE FeedSend
  BY <1>15 DEF FeedSend, SendGet0
<1>16. CASE SeedSend
  BY <1>16 DEF SeedSend, SendGet0
<1>17. CASE SendFirst
  BY <1>17 DEF SendFirst
<1>18. CASE MarkFirst
  BY <1>18 DEF MarkFirst
<1>19. CASE Leave
  BY <1>19 DEF Leave
<1>20. CASE RecvErr
  BY <1>20 DEF RecvErr
<1>21. CASE RecvLinks
  BY <1>21 DEF RecvLinks
<1>22. CASE Hand
  BY <1>22 DEF Hand
<1>23. CASE CloseGet0
  BY <1>23 DEF CloseGet0
<1>24. CASE CloseDone
  BY <1>24 DEF CloseDone
<1>25. CASE Return
  BY <1>25 DEF Return
<1>26. CASE UNCHANGED vars
  BY <1>26 DEF vars
<1> QED
  BY <1>1, <1>2, <1>3, <1>4, <1>5, <1>6, <1>7, <1>8, <1>9, <1>10, <1>11, <1>12, <1>13,
     <1>14, <1>15, <1>16, <1>17, <1>18, <1>19, <1>20, <1>21, <1>22, <1>23, <1>24, <1>25,
     <1>26 DEF Next, Getter, Pipe, Link, Main

\* What main holds is empty until it has filled it.
LEMMA HeldStep ==
  ASSUME TypeOK, mpc \in {"first", "mark", "loop"} => mlist = <<>>, [Next]_vars
  PROVE  mpc' \in {"first", "mark", "loop"} => mlist' = <<>>
<1> USE DEF TypeOK, MainTyped, Running, AtLimit, channels, closed, getter, pipe, linker, source, sched
<1>1. CASE GetRecv
  BY <1>1 DEF GetRecv
<1>2. CASE Fetch
  BY <1>2 DEF Fetch
<1>3. CASE GetErr
  BY <1>3 DEF GetErr
<1>4. CASE GetSend
  BY <1>4 DEF GetSend
<1>5. CASE GetStop
  BY <1>5 DEF GetStop
<1>6. CASE PipeRecv
  BY <1>6 DEF PipeRecv
<1>7. CASE PipeSend
  BY <1>7 DEF PipeSend
<1>8. CASE PipeStop
  BY <1>8 DEF PipeStop
<1>9. CASE LinkRecv
  BY <1>9 DEF LinkRecv
<1>10. CASE LinkErr
  BY <1>10 DEF LinkErr
<1>11. CASE LinkSend
  BY <1>11 DEF LinkSend
<1>12. CASE LinkStop
  BY <1>12 DEF LinkStop
<1>13. CASE LinkStopTwice
  BY <1>13 DEF LinkStopTwice
<1>14. CASE FeedRecv
  BY <1>14 DEF FeedRecv
<1>15. CASE FeedSend
  BY <1>15 DEF FeedSend, SendGet0
<1>16. CASE SeedSend
  BY <1>16 DEF SeedSend, SendGet0
<1>17. CASE SendFirst
  BY <1>17 DEF SendFirst
<1>18. CASE MarkFirst
  BY <1>18 DEF MarkFirst
<1>19. CASE Leave
  BY <1>19 DEF Leave
<1>20. CASE RecvErr
  BY <1>20 DEF RecvErr
<1>21. CASE RecvLinks
  BY <1>21 DEF RecvLinks
<1>22. CASE Hand
  BY <1>22 DEF Hand
<1>23. CASE CloseGet0
  BY <1>23 DEF CloseGet0
<1>24. CASE CloseDone
  BY <1>24 DEF CloseDone
<1>25. CASE Return
  BY <1>25 DEF Return
<1>26. CASE UNCHANGED vars
  BY <1>26 DEF vars
<1> QED
  BY <1>1, <1>2, <1>3, <1>4, <1>5, <1>6, <1>7, <1>8, <1>9, <1>10, <1>11, <1>12, <1>13,
     <1>14, <1>15, <1>16, <1>17, <1>18, <1>19, <1>20, <1>21, <1>22, <1>23, <1>24, <1>25,
     <1>26 DEF Next, Getter, Pipe, Link, Main

\* What is sent of standard input is counted, and the rest is what is left.
LEMMA SeedRead ==
  ASSUME TypeOK, SeedsLeft, cmd.stdin, seeds # <<>>, seeds' = Tail(seeds)
  PROVE  /\ Len(seeds') <= Len(Seeds)
         /\ \A k \in 1..Len(seeds') : seeds'[k] = Seeds[SeedsRead' + k]
         /\ SeedsSent \in Nat
         /\ SeedsSent' = SeedsSent + One(Head(seeds) \notin Malformed)
<1> DEFINE r == SeedsRead
           sent(m) == {k \in 1..m : Seeds[k] \notin Malformed}
<1>1. /\ Len(Seeds) \in Nat /\ Len(seeds) \in Nat \ {0} /\ Len(seeds) <= Len(Seeds)
      /\ Len(seeds') = Len(seeds) - 1 /\ Head(seeds) = seeds[1]
      /\ \A k \in 1..Len(seeds) : seeds[k] = Seeds[r + k]
      /\ \A k \in 1..(Len(seeds) - 1) : seeds'[k] = seeds[k + 1]
  <2>1. seeds \in Seq(Url) /\ Seeds \in Seq(Url)
    BY CrawlAssumption DEF TypeOK, WorkersTyped
  <2> QED
    BY <2>1, HeadTailProperties, LenProperties, EmptySeq DEF SeedsLeft
<1>2. r \in Nat /\ SeedsRead' = r + 1
  BY <1>1 DEF SeedsRead
<1> HIDE DEF r
<1>3. \A k \in 1..Len(seeds') : seeds'[k] = Seeds[SeedsRead' + k]
  <2> SUFFICES ASSUME NEW k \in 1..Len(seeds') PROVE seeds'[k] = Seeds[SeedsRead' + k]
    OBVIOUS
  <2>1. k + 1 \in 1..Len(seeds) /\ seeds'[k] = seeds[k + 1]
    BY <1>1
  <2>2. r + (k + 1) = (r + 1) + k
    BY <1>2
  <2> QED
    BY <1>1, <1>2, <2>1, <2>2
<1>4. Head(seeds) = Seeds[r + 1]
  BY <1>1
<1>5. IsFiniteSet(sent(r)) /\ Cardinality(sent(r)) \in Nat /\ r + 1 \notin sent(r)
  <2>1. IsFiniteSet(1..r) /\ sent(r) \subseteq 1..r
    BY <1>2, FS_Interval
  <2> QED
    BY <1>2, <2>1, FS_Subset, FS_CardinalityType
<1>6. sent(r + 1) = IF Head(seeds) \notin Malformed THEN sent(r) \cup {r + 1} ELSE sent(r)
  BY <1>2, <1>4
<1> HIDE DEF sent
<1>7. Cardinality(sent(r + 1)) = Cardinality(sent(r)) + One(Head(seeds) \notin Malformed)
  <2>1. Cardinality(sent(r) \cup {r + 1}) = Cardinality(sent(r)) + 1
    BY <1>5, FS_AddElement
  <2> QED
    BY <1>5, <1>6, <2>1 DEF One
<1>8. SeedsSent = Cardinality(sent(r)) /\ SeedsSent' = Cardinality(sent(r + 1))
  BY <1>2 DEF SeedsSent, sent, r
<1> QED
  BY <1>1, <1>3, <1>5, <1>7, <1>8

\* What is left of standard input stays the end of it.
LEMMA SeedsStep ==
  ASSUME TypeOK, SeedsLeft, [Next]_vars
  PROVE  SeedsLeft'
<1>1. CASE SeedSend
  <2>1. seeds # <<>> /\ seeds' = Tail(seeds) /\ cmd' = cmd /\ mpc' = mpc
    BY <1>1 DEF SeedSend, sched
  <2>2. cmd.stdin
    BY <2>1 DEF SeedsLeft
  <2>3. /\ Len(seeds') <= Len(Seeds)
        /\ \A k \in 1..Len(seeds') : seeds'[k] = Seeds[SeedsRead' + k]
    BY <2>1, <2>2, SeedRead
  <2> QED
    BY <2>1, <2>2, <2>3 DEF SeedsLeft
<1>2. CASE ~SeedSend
  <2>1. /\ UNCHANGED <<seeds, cmd>>
        /\ mpc \notin {"first", "mark"} => mpc' \notin {"first", "mark"}
    <3> USE DEF channels, closed, getter, pipe, linker, source, sched
    <3>1. CASE GetRecv
      BY <3>1 DEF GetRecv
    <3>2. CASE Fetch
      BY <3>2 DEF Fetch
    <3>3. CASE GetErr
      BY <3>3 DEF GetErr
    <3>4. CASE GetSend
      BY <3>4 DEF GetSend
    <3>5. CASE GetStop
      BY <3>5 DEF GetStop
    <3>6. CASE PipeRecv
      BY <3>6 DEF PipeRecv
    <3>7. CASE PipeSend
      BY <3>7 DEF PipeSend
    <3>8. CASE PipeStop
      BY <3>8 DEF PipeStop
    <3>9. CASE LinkRecv
      BY <3>9 DEF LinkRecv
    <3>10. CASE LinkErr
      BY <3>10 DEF LinkErr
    <3>11. CASE LinkSend
      BY <3>11 DEF LinkSend
    <3>12. CASE LinkStop
      BY <3>12 DEF LinkStop
    <3>13. CASE LinkStopTwice
      BY <3>13 DEF LinkStopTwice
    <3>14. CASE FeedRecv
      BY <3>14 DEF FeedRecv
    <3>15. CASE FeedSend
      BY <3>15 DEF FeedSend
    <3>16. CASE SendFirst
      BY <3>16 DEF SendFirst
    <3>17. CASE MarkFirst
      BY <3>17 DEF MarkFirst
    <3>18. CASE Leave
      BY <3>18 DEF Leave
    <3>19. CASE RecvErr
      BY <3>19 DEF RecvErr
    <3>20. CASE RecvLinks
      BY <3>20 DEF RecvLinks, AtLimit
    <3>21. CASE Hand
      BY <3>21 DEF Hand
    <3>22. CASE CloseGet0
      BY <3>22 DEF CloseGet0
    <3>23. CASE CloseDone
      BY <3>23 DEF CloseDone
    <3>24. CASE Return
      BY <3>24 DEF Return
    <3>25. CASE UNCHANGED vars
      BY <3>25 DEF vars
    <3> QED
      BY <1>2, <3>1, <3>2, <3>3, <3>4, <3>5, <3>6, <3>7, <3>8, <3>9, <3>10, <3>11, <3>12,
         <3>13, <3>14, <3>15, <3>16, <3>17, <3>18, <3>19, <3>20, <3>21, <3>22, <3>23, <3>24,
         <3>25 DEF Next, Getter, Pipe, Link, Main
  <2> QED
    BY <2>1 DEF SeedsLeft, SeedsRead
<1> QED
  BY <1>1, <1>2

----------------------------------------------------------------------------
(* What main counts. *)

\* A receive from a channel makes it one shorter, a send one longer.
LEMMA ChanLen ==
  ASSUME NEW c \in Channel
  PROVE  /\ Len(c) \in Nat
         /\ c # <<>> => Len(Tail(c)) = Len(c) - 1
         /\ \A u \in Url : Len(Append(c, u)) = Len(c) + 1
<1>1. c \in Seq(Url)
  BY DEF Channel
<1> QED
  BY <1>1, SeqTail, SeqAppend, LenProperties

\* What is counted is a number.
LEMMA Counts ==
  ASSUME TypeOK
  PROVE  InChannels \in Nat /\ InLists \in Nat /\ InHands \in Nat
<1>1. InChannels \in Nat
  BY ChanLen DEF TypeOK, ChannelsTyped, InChannels
<1>2. InLists \in Nat
  <2>1. in \in Seq(Seq(Url)) /\ Len(flist) \in Nat /\ Len(mlist) \in Nat
    BY LenProperties DEF TypeOK, ChannelsTyped, WorkersTyped, MainTyped, ListChannel
  <2>2. Cardinality(Entries(in)) \in Nat
    BY <2>1, EntriesFinite
  <2> QED
    BY <2>1, <2>2 DEF InLists
<1>3. InHands \in Nat
  BY DEF InHands, One
<1> QED
  BY <1>1, <1>2, <1>3

\* What a step does to the number of urls in the channels.
LEMMA ChannelsCount ==
  ASSUME TypeOK
  PROVE  /\ GetErr \/ GetSend \/ PipeSend \/ LinkErr \/ LinkSend \/ SendFirst => InChannels'
            = InChannels + 1
         /\ Fetch \/ GetStop \/ PipeStop \/ LinkStop \/ FeedRecv \/ MarkFirst \/ Leave \/
            Hand \/ CloseGet0 \/ CloseDone \/ Return => InChannels' = InChannels
         /\ GetRecv \/ PipeRecv \/ LinkRecv \/ RecvErr \/ RecvLinks => InChannels' =
            InChannels - 1
<1>0. /\ Len(get0) \in Nat /\ Len(get1) \in Nat /\ Len(get2) \in Nat
      /\ Len(link0) \in Nat /\ Len(link1) \in Nat /\ Len(link2) \in Nat
  BY ChanLen DEF TypeOK, ChannelsTyped
<1>1. GetErr => InChannels' = InChannels + 1
  <2> SUFFICES ASSUME GetErr PROVE InChannels' = InChannels + 1
    OBVIOUS
  <2>1. Len(get2') = Len(get2) + 1 /\ UNCHANGED <<get0, get1, link0, link1, link2>>
    BY ChanLen, FirstTyped DEF GetErr, TypeOK, ChannelsTyped, WorkersTyped
  <2> QED
    BY <1>0, <2>1 DEF InChannels
<1>2. GetSend => InChannels' = InChannels + 1
  <2> SUFFICES ASSUME GetSend PROVE InChannels' = InChannels + 1
    OBVIOUS
  <2>1. Len(get1') = Len(get1) + 1 /\ UNCHANGED <<get0, get2, link0, link1, link2>>
    BY ChanLen, FirstTyped DEF GetSend, TypeOK, ChannelsTyped, WorkersTyped
  <2> QED
    BY <1>0, <2>1 DEF InChannels
<1>3. PipeSend => InChannels' = InChannels + 1
  <2> SUFFICES ASSUME PipeSend PROVE InChannels' = InChannels + 1
    OBVIOUS
  <2>1. Len(link0') = Len(link0) + 1 /\ UNCHANGED <<get0, get1, get2, link1, link2>>
    BY ChanLen, FirstTyped DEF PipeSend, TypeOK, ChannelsTyped, WorkersTyped
  <2> QED
    BY <1>0, <2>1 DEF InChannels
<1>4. LinkErr => InChannels' = InChannels + 1
  <2> SUFFICES ASSUME LinkErr PROVE InChannels' = InChannels + 1
    OBVIOUS
  <2>1. Len(link2') = Len(link2) + 1 /\ UNCHANGED <<get0, get1, get2, link0, link1>>
    BY ChanLen, FirstTyped DEF LinkErr, TypeOK, ChannelsTyped, WorkersTyped
  <2> QED
    BY <1>0, <2>1 DEF InChannels
<1>5. LinkSend => InChannels' = InChannels + 1
  <2> SUFFICES ASSUME LinkSend PROVE InChannels' = InChannels + 1
    OBVIOUS
  <2>1. Len(link1') = Len(link1) + 1 /\ UNCHANGED <<get0, get1, get2, link0, link2>>
    BY ChanLen, FirstTyped DEF LinkSend, TypeOK, ChannelsTyped, WorkersTyped
  <2> QED
    BY <1>0, <2>1 DEF InChannels
<1>6. SendFirst => InChannels' = InChannels + 1
  <2> SUFFICES ASSUME SendFirst PROVE InChannels' = InChannels + 1
    OBVIOUS
  <2>1. Len(get0') = Len(get0) + 1 /\ UNCHANGED <<get1, get2, link0, link1, link2>>
    BY ChanLen, FirstTyped DEF SendFirst, TypeOK, ChannelsTyped, WorkersTyped
  <2> QED
    BY <1>0, <2>1 DEF InChannels
<1>7. Fetch => InChannels' = InChannels
  BY DEF Fetch, InChannels, channels
<1>8. GetStop => InChannels' = InChannels
  BY DEF GetStop, InChannels, channels
<1>9. PipeStop => InChannels' = InChannels
  BY DEF PipeStop, InChannels, channels
<1>10. LinkStop => InChannels' = InChannels
  BY DEF LinkStop, InChannels, channels
<1>11. FeedRecv => InChannels' = InChannels
  BY DEF FeedRecv, InChannels, channels
<1>12. MarkFirst => InChannels' = InChannels
  BY DEF MarkFirst, InChannels, channels
<1>13. Leave => InChannels' = InChannels
  BY DEF Leave, InChannels, channels
<1>14. Hand => InChannels' = InChannels
  BY DEF Hand, InChannels, channels
<1>15. CloseGet0 => InChannels' = InChannels
  BY DEF CloseGet0, InChannels, channels
<1>16. CloseDone => InChannels' = InChannels
  BY DEF CloseDone, InChannels, channels
<1>17. Return => InChannels' = InChannels
  BY DEF Return, InChannels, channels
<1>18. GetRecv => InChannels' = InChannels - 1
  <2> SUFFICES ASSUME GetRecv PROVE InChannels' = InChannels - 1
    OBVIOUS
  <2>1. Len(get0') = Len(get0) - 1 /\ UNCHANGED <<get1, get2, link0, link1, link2>>
    BY ChanLen, FirstTyped DEF GetRecv, TypeOK, ChannelsTyped, WorkersTyped
  <2> QED
    BY <1>0, <2>1 DEF InChannels
<1>19. PipeRecv => InChannels' = InChannels - 1
  <2> SUFFICES ASSUME PipeRecv PROVE InChannels' = InChannels - 1
    OBVIOUS
  <2>1. Len(get1') = Len(get1) - 1 /\ UNCHANGED <<get0, get2, link0, link1, link2>>
    BY ChanLen, FirstTyped DEF PipeRecv, TypeOK, ChannelsTyped, WorkersTyped
  <2> QED
    BY <1>0, <2>1 DEF InChannels
<1>20. LinkRecv => InChannels' = InChannels - 1
  <2> SUFFICES ASSUME LinkRecv PROVE InChannels' = InChannels - 1
    OBVIOUS
  <2>1. Len(link0') = Len(link0) - 1 /\ UNCHANGED <<get0, get1, get2, link1, link2>>
    BY ChanLen, FirstTyped DEF LinkRecv, TypeOK, ChannelsTyped, WorkersTyped
  <2> QED
    BY <1>0, <2>1 DEF InChannels
<1>21. RecvErr => InChannels' = InChannels - 1
  <2>1. ASSUME link2 # <<>>, link2' = Tail(link2), UNCHANGED <<get0, get1, get2, link0, link1>>
        PROVE  InChannels' = InChannels - 1
    <3>1. Len(link2') = Len(link2) - 1
      BY <2>1, ChanLen DEF TypeOK, ChannelsTyped
    <3> QED
      BY <1>0, <2>1, <3>1 DEF InChannels
  <2>2. ASSUME get2 # <<>>, get2' = Tail(get2), UNCHANGED <<get0, get1, link0, link1, link2>>
        PROVE  InChannels' = InChannels - 1
    <3>1. Len(get2') = Len(get2) - 1
      BY <2>2, ChanLen DEF TypeOK, ChannelsTyped
    <3> QED
      BY <1>0, <2>2, <3>1 DEF InChannels
  <2> QED
    BY <2>1, <2>2 DEF RecvErr, LinkErrs
<1>22. RecvLinks => InChannels' = InChannels - 1
  <2> SUFFICES ASSUME RecvLinks PROVE InChannels' = InChannels - 1
    OBVIOUS
  <2>1. Len(link1') = Len(link1) - 1 /\ UNCHANGED <<get0, get1, get2, link0, link2>>
    BY ChanLen, FirstTyped DEF RecvLinks, TypeOK, ChannelsTyped, WorkersTyped
  <2> QED
    BY <1>0, <2>1 DEF InChannels
<1> QED
  BY <1>1, <1>2, <1>3, <1>4, <1>5, <1>6, <1>7, <1>8, <1>9, <1>10, <1>11, <1>12, <1>13,
     <1>14, <1>15, <1>16, <1>17, <1>18, <1>19, <1>20, <1>21, <1>22

\* What a step does to the number of urls in the hands of a goroutine.
LEMMA HandsCount ==
  ASSUME TypeOK
  PROVE  /\ GetRecv \/ PipeRecv \/ LinkRecv => InHands' = InHands + 1
         /\ Fetch \/ GetStop \/ PipeStop \/ LinkStop \/ FeedRecv \/ SendFirst \/ MarkFirst
            \/ Leave \/ RecvErr \/ RecvLinks \/ Hand \/ CloseGet0 \/ CloseDone \/ Return =>
            InHands' = InHands
         /\ GetErr \/ GetSend \/ PipeSend \/ LinkErr \/ LinkSend => InHands' = InHands - 1
<1> USE DEF One, InHands, channels, closed, getter, pipe, linker, source, sched
<1>1. GetRecv => InHands' = InHands + 1
  BY DEF GetRecv, InHands
<1>2. PipeRecv => InHands' = InHands + 1
  BY DEF PipeRecv, InHands
<1>3. LinkRecv => InHands' = InHands + 1
  BY DEF LinkRecv, InHands
<1>4. Fetch => InHands' = InHands
  BY DEF Fetch, InHands
<1>5. GetStop => InHands' = InHands
  BY DEF GetStop, InHands
<1>6. PipeStop => InHands' = InHands
  BY DEF PipeStop, InHands
<1>7. LinkStop => InHands' = InHands
  BY DEF LinkStop, InHands
<1>8. FeedRecv => InHands' = InHands
  BY DEF FeedRecv, InHands
<1>9. SendFirst => InHands' = InHands
  BY DEF SendFirst, InHands
<1>10. MarkFirst => InHands' = InHands
  BY DEF MarkFirst, InHands
<1>11. Leave => InHands' = InHands
  BY DEF Leave, InHands
<1>12. RecvErr => InHands' = InHands
  BY DEF RecvErr, InHands
<1>13. RecvLinks => InHands' = InHands
  BY DEF RecvLinks, InHands
<1>14. Hand => InHands' = InHands
  BY DEF Hand, InHands
<1>15. CloseGet0 => InHands' = InHands
  BY DEF CloseGet0, InHands
<1>16. CloseDone => InHands' = InHands
  BY DEF CloseDone, InHands
<1>17. Return => InHands' = InHands
  BY DEF Return, InHands
<1>18. GetErr => InHands' = InHands - 1
  BY DEF GetErr, InHands
<1>19. GetSend => InHands' = InHands - 1
  BY DEF GetSend, InHands
<1>20. PipeSend => InHands' = InHands - 1
  BY DEF PipeSend, InHands
<1>21. LinkErr => InHands' = InHands - 1
  BY DEF LinkErr, InHands
<1>22. LinkSend => InHands' = InHands - 1
  BY DEF LinkSend, InHands
<1> QED
  BY <1>1, <1>2, <1>3, <1>4, <1>5, <1>6, <1>7, <1>8, <1>9, <1>10, <1>11, <1>12, <1>13,
     <1>14, <1>15, <1>16, <1>17, <1>18, <1>19, <1>20, <1>21, <1>22

\* What n counts beside them is a number.
LEMMA BeyondInt ==
  ASSUME TypeOK
  PROVE  Beyond \in Int
<1> DEFINE sent == {k \in 1..SeedsRead : Seeds[k] \notin Malformed}
<1>1. SeedsRead \in Int
  BY LenProperties, CrawlAssumption DEF TypeOK, WorkersTyped, SeedsRead
<1>2. IsFiniteSet(1..SeedsRead) /\ sent \subseteq 1..SeedsRead
  BY <1>1, FS_Interval
<1>3. Cardinality(sent) \in Nat
  BY <1>2, FS_Subset, FS_CardinalityType
<1> HIDE DEF sent
<1>4. SeedsSent \in Nat
  BY <1>3 DEF sent, SeedsSent
<1> QED
  BY <1>4 DEF Beyond, One

\* The lists of urls after a receive, a send and a hand-over.
LEMMA ListsCount ==
  ASSUME TypeOK
  PROVE  /\ FeedRecv => InLists' = InLists
         /\ FeedSend /\ panic' = "none" => InLists' = InLists - 1
         /\ Hand => InLists' = InLists
<1>1. /\ in \in Seq(Seq(Url)) /\ flist \in Seq(Url) /\ mlist \in Seq(Url)
      /\ Len(flist) \in Nat /\ Len(mlist) \in Nat /\ Cardinality(Entries(in)) \in Nat
  <2>1. in \in Seq(Seq(Url)) /\ flist \in Seq(Url) /\ mlist \in Seq(Url)
    BY DEF TypeOK, ChannelsTyped, WorkersTyped, MainTyped, ListChannel
  <2> QED
    BY <2>1, LenProperties, EntriesFinite
<1>2. ASSUME FeedRecv PROVE InLists' = InLists
  <2>1. in # <<>> /\ flist = <<>> /\ in' = Tail(in) /\ flist' = Head(in) /\ mlist' = mlist
    BY <1>2 DEF FeedRecv, sched
  <2>2. /\ Cardinality(Entries(in)) = Cardinality(Entries(in')) + Len(flist')
        /\ Cardinality(Entries(in')) \in Nat /\ Len(flist') \in Nat
    <3>1. Tail(in) \in Seq(Seq(Url)) /\ Head(in) \in Seq(Url)
      BY <1>1, <2>1, SeqTail
    <3>2. Cardinality(Entries(in)) = Cardinality(Entries(Tail(in))) + Len(Head(in))
      BY <1>1, <2>1, EntriesTail
    <3>3. Cardinality(Entries(Tail(in))) \in Nat /\ Len(Head(in)) \in Nat
      BY <3>1, EntriesFinite, LenProperties
    <3> QED
      BY <2>1, <3>2, <3>3
  <2>3. Len(flist) = 0
    BY <2>1, EmptySeq
  <2> QED
    BY <1>1, <2>1, <2>2, <2>3 DEF InLists
<1>3. ASSUME FeedSend, panic' = "none" PROVE InLists' = InLists - 1
  <2>1. flist # <<>> /\ flist' = Tail(flist) /\ UNCHANGED <<in, mlist>>
    BY <1>3 DEF FeedSend, SendGet0, sched
  <2>2. Len(flist') = Len(flist) - 1
    BY <1>1, <2>1, SeqTail
  <2> QED
    BY <1>1, <2>1, <2>2 DEF InLists
<1>4. ASSUME Hand PROVE InLists' = InLists
  <2>1. in' = Append(in, mlist) /\ mlist' = <<>> /\ flist' = flist
    BY <1>4 DEF Hand
  <2>2. Cardinality(Entries(in')) = Cardinality(Entries(in)) + Len(mlist)
    BY <1>1, <2>1, EntriesAppend
  <2>3. Len(mlist') = 0
    BY <2>1, EmptySeq
  <2> QED
    BY <1>1, <2>1, <2>2, <2>3 DEF InLists
<1> QED
  BY <1>2, <1>3, <1>4

\* A send on get0 that does not panic.
LEMMA SendCount ==
  ASSUME TypeOK, NEW u \in Url, SendGet0(u), panic' = "none",
         UNCHANGED <<get1, get2, link0, link1, link2>>
  PROVE  InChannels' = InChannels + 1
<1>1. /\ Len(get0) \in Nat /\ Len(get1) \in Nat /\ Len(get2) \in Nat
      /\ Len(link0) \in Nat /\ Len(link1) \in Nat /\ Len(link2) \in Nat
  BY ChanLen DEF TypeOK, ChannelsTyped
<1>2. get0' = Append(get0, u)
  BY DEF SendGet0
<1>3. Len(get0') = Len(get0) + 1
  BY <1>2, ChanLen DEF TypeOK, ChannelsTyped
<1> QED
  BY <1>1, <1>3 DEF InChannels

\* n stays the number of urls on their way.
LEMMA CountStep ==
  ASSUME TypeOK, Outstanding, SeedsLeft, mpc \in {"first", "mark", "loop"} => mlist = <<>>, [Next]_vars
  PROVE  Outstanding'
<1>0. /\ InChannels \in Nat /\ InLists \in Nat /\ InHands \in Nat /\ Beyond \in Int /\ n \in Int
  BY Counts, BeyondInt DEF TypeOK, MainTyped
<1>1. CASE GetRecv
  <2>1. UNCHANGED <<n, panic, InLists, Beyond>>
    BY <1>1 DEF GetRecv, InLists, Beyond, One, SeedsSent, SeedsRead, channels, source, sched
  <2> QED
    BY <1>0, <1>1, <2>1, ChannelsCount, HandsCount DEF Outstanding, InFlight
<1>2. CASE Fetch
  <2>1. UNCHANGED <<n, panic, InLists, Beyond>>
    BY <1>2 DEF Fetch, InLists, Beyond, One, SeedsSent, SeedsRead, channels, source, sched
  <2> QED
    BY <1>0, <1>2, <2>1, ChannelsCount, HandsCount DEF Outstanding, InFlight
<1>3. CASE GetErr
  <2>1. UNCHANGED <<n, panic, InLists, Beyond>>
    BY <1>3 DEF GetErr, InLists, Beyond, One, SeedsSent, SeedsRead, channels, source, sched
  <2> QED
    BY <1>0, <1>3, <2>1, ChannelsCount, HandsCount DEF Outstanding, InFlight
<1>4. CASE GetSend
  <2>1. UNCHANGED <<n, panic, InLists, Beyond>>
    BY <1>4 DEF GetSend, InLists, Beyond, One, SeedsSent, SeedsRead, channels, source, sched
  <2> QED
    BY <1>0, <1>4, <2>1, ChannelsCount, HandsCount DEF Outstanding, InFlight
<1>5. CASE GetStop
  <2>1. UNCHANGED <<n, panic, InLists, Beyond>>
    BY <1>5 DEF GetStop, InLists, Beyond, One, SeedsSent, SeedsRead, channels, source, sched
  <2> QED
    BY <1>0, <1>5, <2>1, ChannelsCount, HandsCount DEF Outstanding, InFlight
<1>6. CASE PipeRecv
  <2>1. UNCHANGED <<n, panic, InLists, Beyond>>
    BY <1>6 DEF PipeRecv, InLists, Beyond, One, SeedsSent, SeedsRead, channels, source, sched
  <2> QED
    BY <1>0, <1>6, <2>1, ChannelsCount, HandsCount DEF Outstanding, InFlight
<1>7. CASE PipeSend
  <2>1. UNCHANGED <<n, panic, InLists, Beyond>>
    BY <1>7 DEF PipeSend, InLists, Beyond, One, SeedsSent, SeedsRead, channels, source, sched
  <2> QED
    BY <1>0, <1>7, <2>1, ChannelsCount, HandsCount DEF Outstanding, InFlight
<1>8. CASE PipeStop
  <2>1. UNCHANGED <<n, panic, InLists, Beyond>>
    BY <1>8 DEF PipeStop, InLists, Beyond, One, SeedsSent, SeedsRead, channels, source, sched
  <2> QED
    BY <1>0, <1>8, <2>1, ChannelsCount, HandsCount DEF Outstanding, InFlight
<1>9. CASE LinkRecv
  <2>1. UNCHANGED <<n, panic, InLists, Beyond>>
    BY <1>9 DEF LinkRecv, InLists, Beyond, One, SeedsSent, SeedsRead, channels, source, sched
  <2> QED
    BY <1>0, <1>9, <2>1, ChannelsCount, HandsCount DEF Outstanding, InFlight
<1>10. CASE LinkErr
  <2>1. UNCHANGED <<n, panic, InLists, Beyond>>
    BY <1>10 DEF LinkErr, InLists, Beyond, One, SeedsSent, SeedsRead, channels, source, sched
  <2> QED
    BY <1>0, <1>10, <2>1, ChannelsCount, HandsCount DEF Outstanding, InFlight
<1>11. CASE LinkSend
  <2>1. UNCHANGED <<n, panic, InLists, Beyond>>
    BY <1>11 DEF LinkSend, InLists, Beyond, One, SeedsSent, SeedsRead, channels, source, sched
  <2> QED
    BY <1>0, <1>11, <2>1, ChannelsCount, HandsCount DEF Outstanding, InFlight
<1>12. CASE LinkStop
  <2>1. UNCHANGED <<n, panic, InLists, Beyond>>
    BY <1>12 DEF LinkStop, InLists, Beyond, One, SeedsSent, SeedsRead, channels, source, sched
  <2> QED
    BY <1>0, <1>12, <2>1, ChannelsCount, HandsCount DEF Outstanding, InFlight
<1>13. CASE LinkStopTwice
  BY <1>13 DEF LinkStopTwice, Outstanding
<1>14. CASE FeedRecv
  <2>1. UNCHANGED <<n, panic, Beyond>> /\ InLists' = InLists /\ InChannels' = InChannels /\ InHands' = InHands
    BY <1>14, ChannelsCount, ListsCount DEF FeedRecv, Beyond, SeedsSent, SeedsRead, InHands,
       getter, pipe, linker, source, sched
  <2> QED
    BY <1>0, <2>1 DEF Outstanding, InFlight
<1>15. CASE FeedSend
  <2> SUFFICES ASSUME panic' = "none" PROVE n' = InFlight' + Beyond'
    BY DEF Outstanding
  <2>1. UNCHANGED <<n, panic, Beyond, InHands>>
    BY <1>15 DEF FeedSend, SendGet0, Running, Beyond, SeedsSent, SeedsRead, InHands, getter,
       pipe, linker, source, sched
  <2>2. InLists' = InLists - 1
    BY <1>15, ListsCount
  <2>3. InChannels' = InChannels + 1
    <3>1. Head(flist) \in Url /\ SendGet0(Head(flist)) /\ UNCHANGED <<get1, get2, link0, link1, link2>>
      BY <1>15, ListTail DEF FeedSend, TypeOK, WorkersTyped
    <3> QED
      BY <3>1, SendCount
  <2> QED
    BY <1>0, <2>1, <2>2, <2>3 DEF Outstanding, InFlight
<1>16. CASE SeedSend
  <2> SUFFICES ASSUME panic' = "none" PROVE n' = InFlight' + Beyond'
    BY DEF Outstanding
  <2>1. UNCHANGED <<n, panic, InHands, InLists, mpc, cmd>> /\ seeds # <<>> /\ seeds' = Tail(seeds)
    BY <1>16 DEF SeedSend, Running, InHands, InLists, getter, pipe, linker, sched
  <2>2. cmd.stdin /\ Head(seeds) \in Url
    BY <2>1, ListTail DEF SeedsLeft, TypeOK, WorkersTyped
  <2>3. SeedsSent \in Nat /\ SeedsSent' = SeedsSent + One(Head(seeds) \notin Malformed)
    BY <2>1, <2>2, SeedRead
  <2>4. Beyond' = Beyond - One(Head(seeds) \notin Malformed)
    BY <2>1, <2>2, <2>3 DEF Beyond, One
  <2>5. InChannels' = InChannels + One(Head(seeds) \notin Malformed)
    <3>1. CASE Head(seeds) \in Malformed
      BY <1>0, <1>16, <3>1 DEF SeedSend, InChannels, One
    <3>2. CASE Head(seeds) \notin Malformed
      BY <1>16, <2>2, <3>2, SendCount DEF SeedSend, One
    <3> QED
      BY <3>1, <3>2
  <2> QED
    BY <1>0, <2>1, <2>4, <2>5 DEF Outstanding, InFlight, One
<1>17. CASE SendFirst
  <2>1. UNCHANGED <<n, panic, InHands, InLists>>
    BY <1>17 DEF SendFirst, InHands, InLists, getter, pipe, linker
  <2>2. Beyond' = Beyond - 1
    <3>1. mpc = "first" /\ mpc' # "first" /\ ~cmd.stdin /\ ~cmd'.stdin
      BY <1>17 DEF SendFirst, SeedsLeft, source
    <3> QED
      BY <3>1 DEF Beyond, One
  <2>3. InChannels' = InChannels + 1
    BY <1>17, ChannelsCount
  <2> QED
    BY <1>0, <2>1, <2>2, <2>3 DEF Outstanding, InFlight
<1>18. CASE MarkFirst
  <2>1. UNCHANGED <<n, panic, InLists, Beyond>>
    BY <1>18 DEF MarkFirst, InLists, Beyond, One, SeedsSent, SeedsRead, channels, source, sched
  <2> QED
    BY <1>0, <1>18, <2>1, ChannelsCount, HandsCount DEF Outstanding, InFlight
<1>19. CASE Leave
  <2>1. UNCHANGED <<n, panic, InLists, Beyond>>
    BY <1>19 DEF Leave, InLists, Beyond, One, SeedsSent, SeedsRead, channels, source, sched
  <2> QED
    BY <1>0, <1>19, <2>1, ChannelsCount, HandsCount DEF Outstanding, InFlight
<1>20. CASE RecvErr
  <2>1. UNCHANGED <<panic, InHands, InLists, Beyond>> /\ n' = n - 1
    BY <1>20 DEF RecvErr, InHands, InLists, Beyond, SeedsSent, SeedsRead, getter, pipe,
       linker, source
  <2>2. InChannels' = InChannels - 1
    BY <1>20, ChannelsCount
  <2> QED
    BY <1>0, <2>1, <2>2 DEF Outstanding, InFlight
<1>21. CASE RecvLinks
  <2> DEFINE list == Links[Head(link1)]
  <2>1. /\ UNCHANGED <<panic, InHands, Beyond>> /\ n' = n - 1 + Gained(list) /\ mlist = <<>>
        /\ mlist' = Fresh(list) /\ UNCHANGED <<in, flist>>
    BY <1>21 DEF RecvLinks, InHands, Beyond, One, SeedsSent, SeedsRead, getter, pipe,
       linker, source
  <2>2. Gained(list) \in Nat
    BY <1>21, RecvLinksTyped DEF RecvLinks
  <2>3. InLists' = InLists + Gained(list)
    <3>1. Len(mlist) = 0 /\ Len(mlist') = Gained(list)
      BY <2>1, EmptySeq DEF Gained
    <3>2. Cardinality(Entries(in)) \in Nat /\ Len(flist) \in Nat
      BY EntriesFinite, LenProperties DEF TypeOK, ChannelsTyped, WorkersTyped, ListChannel
    <3>3. Cardinality(Entries(in')) = Cardinality(Entries(in)) /\ Len(flist') = Len(flist)
      BY <2>1
    <3> HIDE DEF list
    <3> QED
      BY <2>2, <3>1, <3>2, <3>3 DEF InLists
  <2>4. InChannels' = InChannels - 1
    BY <1>21, ChannelsCount
  <2> HIDE DEF list
  <2> QED
    BY <1>0, <2>1, <2>2, <2>3, <2>4 DEF Outstanding, InFlight
<1>22. CASE Hand
  <2>1. UNCHANGED <<n, panic, InHands, InChannels, Beyond>>
    BY <1>22 DEF Hand, InHands, InChannels, Beyond, One, SeedsSent, SeedsRead, getter, pipe,
       linker, source
  <2>2. InLists' = InLists
    BY <1>22, ListsCount
  <2> QED
    BY <1>0, <2>1, <2>2 DEF Outstanding, InFlight
<1>23. CASE CloseGet0
  <2>1. UNCHANGED <<n, panic, InLists, Beyond>>
    BY <1>23 DEF CloseGet0, InLists, Beyond, One, SeedsSent, SeedsRead, channels, source, sched
  <2> QED
    BY <1>0, <1>23, <2>1, ChannelsCount, HandsCount DEF Outstanding, InFlight
<1>24. CASE CloseDone
  <2>1. UNCHANGED <<n, panic, InLists, Beyond>>
    BY <1>24 DEF CloseDone, InLists, Beyond, One, SeedsSent, SeedsRead, channels, source, sched
  <2> QED
    BY <1>0, <1>24, <2>1, ChannelsCount, HandsCount DEF Outstanding, InFlight
<1>25. CASE Return
  <2>1. UNCHANGED <<n, panic, InLists, Beyond>>
    BY <1>25 DEF Return, InLists, Beyond, One, SeedsSent, SeedsRead, channels, source, sched
  <2> QED
    BY <1>0, <1>25, <2>1, ChannelsCount, HandsCount DEF Outstanding, InFlight
<1>26. CASE UNCHANGED vars
  <2>1. UNCHANGED <<n, panic, InFlight, Beyond>>
    BY <1>26 DEF vars, InFlight, InLists, InChannels, InHands, Beyond, SeedsSent, SeedsRead,
       channels, getter, pipe, linker, source, sched
  <2> QED
    BY <2>1 DEF Outstanding
<1> QED
  BY <1>1, <1>2, <1>3, <1>4, <1>5, <1>6, <1>7, <1>8, <1>9, <1>10, <1>11, <1>12,
     <1>13, <1>14, <1>15, <1>16, <1>17, <1>18, <1>19, <1>20, <1>21, <1>22, <1>23,
     <1>24, <1>25, <1>26 DEF Next, Getter, Pipe, Link, Main

----------------------------------------------------------------------------
(* Where a url is. *)

Place == {"get0", "get1", "get2", "link0", "link1", "link2", "in", "flist", "mlist",
          "getter", "pipe", "linker"}

LEMMA Places == DOMAIN At = Place /\ DOMAIN At' = Place
  BY DEF At, Place

\* Urls that go from one place to another.
LEMMA Moved ==
  ASSUME NEW V, NEW W, NEW p \in DOMAIN V, NEW q \in DOMAIN V, p # q, NEW X, X \subseteq V[p],
         Apart(V), DOMAIN W = DOMAIN V,
         W[p] = V[p] \ X, W[q] = V[q] \cup X, \A r \in DOMAIN V \ {p, q} : W[r] = V[r]
  PROVE  Apart(W) /\ Together(W) = Together(V)
<1>1. Apart(W)
  BY DEF Apart
<1>2. Together(W) = Together(V)
  BY DEF Together
<1> QED
  BY <1>1, <1>2

\* A url that leaves.
LEMMA Removed ==
  ASSUME NEW V, NEW W, NEW p \in DOMAIN V, NEW x \in V[p], Apart(V), DOMAIN W = DOMAIN V,
         W[p] = V[p] \ {x}, \A r \in DOMAIN V \ {p} : W[r] = V[r]
  PROVE  Apart(W) /\ Together(W) = Together(V) \ {x}
<1>1. Apart(W)
  BY DEF Apart
<1>2. \A r \in DOMAIN V \ {p} : x \notin V[r]
  BY DEF Apart
<1>3. Together(W) = Together(V) \ {x}
  BY <1>2 DEF Together
<1> QED
  BY <1>1, <1>3

\* New urls that come to a place.
LEMMA Added ==
  ASSUME NEW V, NEW W, NEW q \in DOMAIN V, NEW X, X \cap Together(V) = {},
         Apart(V), DOMAIN W = DOMAIN V,
         W[q] = V[q] \cup X, \A r \in DOMAIN V \ {q} : W[r] = V[r]
  PROVE  Apart(W) /\ Together(W) = Together(V) \cup X
<1>1. \A r \in DOMAIN V : X \cap V[r] = {}
  BY DEF Together
<1>2. Apart(W)
  BY <1>1 DEF Apart
<1>3. Together(W) = Together(V) \cup X
  BY DEF Together
<1> QED
  BY <1>2, <1>3

\* A channel of distinct urls after a receive and after a send.
LEMMA ChanUrls ==
  ASSUME NEW c \in Channel, IsInjective(c)
  PROVE  /\ c # <<>> => /\ Head(c) \in ToSet(c) /\ ToSet(Tail(c)) = ToSet(c) \ {Head(c)}
                        /\ IsInjective(Tail(c))
         /\ \A u \in Url \ ToSet(c) : /\ ToSet(Append(c, u)) = ToSet(c) \cup {u}
                                     /\ IsInjective(Append(c, u))
<1>1. c \in Seq(Url)
  BY DEF Channel
<1> QED
  BY <1>1, SeqTail, SeqAppend

\* The same of a list.
LEMMA ListUrls ==
  ASSUME NEW l \in Seq(Url), IsInjective(l), l # <<>>
  PROVE  /\ Head(l) \in ToSet(l) /\ ToSet(Tail(l)) = ToSet(l) \ {Head(l)}
         /\ IsInjective(Tail(l))
  BY SeqTail

\* Of what is typed, the parts that the places are made of.
LEMMA AtTyped ==
  ASSUME TypeOK
  PROVE  /\ in \in Seq(Seq(Url)) /\ flist \in Seq(Url) /\ mlist \in Seq(Url) /\ asked \in Seq(Url)
         /\ gurl \in Url /\ ppage \in Url /\ lpage \in Url /\ cmd.first \in Url
  BY FirstTyped DEF TypeOK, ChannelsTyped, WorkersTyped, MainTyped, ListChannel

\* Urls that go from one place to another are still in one place.
LEMMA MoveStep ==
  ASSUME Placed, NEW p \in Place, NEW q \in Place, p # q, NEW X, X \subseteq At[p],
         At'[p] = At[p] \ X, At'[q] = At[q] \cup X, \A r \in Place \ {p, q} : At'[r] = At[r],
         q \in Waiting => p \in Waiting, asked' = asked, Filtered' = Filtered
  PROVE  Placed' /\ OnTheirWay' = OnTheirWay
<1>1. Apart(At') /\ Together(At') = Together(At)
  BY Moved, Places DEF Placed
<1>2. \A r \in Waiting : ToSet(asked') \cap At'[r] = {}
  <2>1. Waiting \subseteq Place
    BY DEF Waiting, Place
  <2> QED
    BY <2>1 DEF Placed
<1> QED
  BY <1>1, <1>2 DEF Placed, OnTheirWay, Waiting

\* A step that hands urls on, or leaves them where they are.
LEMMA PlacesStep ==
  ASSUME TypeOK, Single, Placed, ~cmd.stdin, SeedsLeft, [Next]_vars, ~GetRecv, ~SendFirst, ~MarkFirst, ~RecvErr, ~RecvLinks
  PROVE  Single' /\ Placed' /\ OnTheirWay' = OnTheirWay
<1>0. /\ \A p \in Place : \A q \in Place \ {p} : At[p] \cap At[q] = {}
      /\ \A c \in {get0, get1, get2, link0, link1, link2} : c \in Channel /\ IsInjective(c)
  BY Places DEF TypeOK, ChannelsTyped, Placed, Apart, Single
<1>1. CASE Fetch
  <2>1. At' = At /\ asked' = asked /\ Filtered' = Filtered
    BY <1>1 DEF Fetch, At, Filtered, channels, closed, getter, pipe, linker, source, sched
  <2>2. Single'
    BY <1>1 DEF Fetch, Single, channels, sched
  <2> QED
    BY <2>1, <2>2 DEF Placed, OnTheirWay
<1>2. CASE GetErr
  <2>1. get2' = Append(get2, gurl) /\ UNCHANGED <<get0, get1, link0, link1, link2, in, flist, mlist>>
    BY <1>2 DEF GetErr, sched
  <2>2. /\ At["getter"] = {gurl} /\ At'["getter"] = {}
        /\ At["get2"] = ToSet(get2) /\ At'["get2"] = ToSet(get2')
    BY <1>2 DEF GetErr, At
  <2>3. ToSet(get2') = ToSet(get2) \cup {gurl} /\ IsInjective(get2')
    <3>1. gurl \in Url /\ gurl \notin ToSet(get2)
      BY <1>0, <2>2, AtTyped DEF Place
    <3> QED
      BY <1>0, <2>1, <3>1, ChanUrls
  <2>4. \A r \in Place \ {"getter", "get2"} : At'[r] = At[r]
    <3>1. UNCHANGED <<ppc, ppage, lpc, lpage>>
      BY <1>2 DEF GetErr, getter, pipe, linker
    <3>2. /\ At'["get0"] = At["get0"] /\ At'["get1"] = At["get1"]
         /\ At'["link0"] = At["link0"] /\ At'["link1"] = At["link1"]
         /\ At'["link2"] = At["link2"] /\ At'["in"] = At["in"]
         /\ At'["flist"] = At["flist"] /\ At'["mlist"] = At["mlist"]
         /\ At'["pipe"] = At["pipe"] /\ At'["linker"] = At["linker"]
      BY <2>1, <3>1 DEF At
    <3> QED
      BY <3>2 DEF Place
  <2>5. asked' = asked /\ Filtered' = Filtered
    BY <1>2 DEF GetErr, Filtered, getter, sched, source
  <2>6. Single'
    BY <2>1, <2>2, <2>3 DEF Single
  <2> DEFINE X == {gurl}
  <2>7. X \subseteq At["getter"] /\ At'["getter"] = At["getter"] \ X /\ At'["get2"] = At["get2"] \cup X
    BY <2>2, <2>3
  <2> HIDE DEF X
  <2>8. "getter" \in Place /\ "get2" \in Place /\ "getter" # "get2" /\ "get2" \notin Waiting
    BY DEF Place, Waiting
  <2>9. Placed' /\ OnTheirWay' = OnTheirWay
    BY <2>4, <2>5, <2>7, <2>8, MoveStep
  <2> QED
    BY <2>6, <2>9
<1>3. CASE GetSend
  <2>1. get1' = Append(get1, gurl) /\ UNCHANGED <<get0, get2, link0, link1, link2, in, flist, mlist>>
    BY <1>3 DEF GetSend, sched
  <2>2. /\ At["getter"] = {gurl} /\ At'["getter"] = {}
        /\ At["get1"] = ToSet(get1) /\ At'["get1"] = ToSet(get1')
    BY <1>3 DEF GetSend, At
  <2>3. ToSet(get1') = ToSet(get1) \cup {gurl} /\ IsInjective(get1')
    <3>1. gurl \in Url /\ gurl \notin ToSet(get1)
      BY <1>0, <2>2, AtTyped DEF Place
    <3> QED
      BY <1>0, <2>1, <3>1, ChanUrls
  <2>4. \A r \in Place \ {"getter", "get1"} : At'[r] = At[r]
    <3>1. UNCHANGED <<ppc, ppage, lpc, lpage>>
      BY <1>3 DEF GetSend, getter, pipe, linker
    <3>2. /\ At'["get0"] = At["get0"] /\ At'["get2"] = At["get2"]
         /\ At'["link0"] = At["link0"] /\ At'["link1"] = At["link1"]
         /\ At'["link2"] = At["link2"] /\ At'["in"] = At["in"]
         /\ At'["flist"] = At["flist"] /\ At'["mlist"] = At["mlist"]
         /\ At'["pipe"] = At["pipe"] /\ At'["linker"] = At["linker"]
      BY <2>1, <3>1 DEF At
    <3> QED
      BY <3>2 DEF Place
  <2>5. asked' = asked /\ Filtered' = Filtered
    BY <1>3 DEF GetSend, Filtered, getter, sched, source
  <2>6. Single'
    BY <2>1, <2>2, <2>3 DEF Single
  <2> DEFINE X == {gurl}
  <2>7. X \subseteq At["getter"] /\ At'["getter"] = At["getter"] \ X /\ At'["get1"] = At["get1"] \cup X
    BY <2>2, <2>3
  <2> HIDE DEF X
  <2>8. "getter" \in Place /\ "get1" \in Place /\ "getter" # "get1" /\ "get1" \notin Waiting
    BY DEF Place, Waiting
  <2>9. Placed' /\ OnTheirWay' = OnTheirWay
    BY <2>4, <2>5, <2>7, <2>8, MoveStep
  <2> QED
    BY <2>6, <2>9
<1>4. CASE GetStop
  <2>1. At' = At /\ asked' = asked /\ Filtered' = Filtered
    BY <1>4 DEF GetStop, At, Filtered, channels, closed, getter, pipe, linker, source, sched
  <2>2. Single'
    BY <1>4 DEF GetStop, Single, channels, sched
  <2> QED
    BY <2>1, <2>2 DEF Placed, OnTheirWay
<1>5. CASE PipeRecv
  <2>1. get1 # <<>> /\ get1' = Tail(get1) /\ UNCHANGED <<get0, get2, link0, link1, link2, in, flist, mlist>>
    BY <1>5 DEF PipeRecv, sched
  <2>2. /\ Head(get1) \in ToSet(get1) /\ ToSet(get1') = ToSet(get1) \ {Head(get1)}
        /\ IsInjective(get1')
    BY <1>0, <2>1, ChanUrls
  <2>3. /\ At["get1"] = ToSet(get1) /\ At'["get1"] = ToSet(get1')
        /\ At["pipe"] = {} /\ At'["pipe"] = {Head(get1)}
    BY <1>5 DEF PipeRecv, At
  <2>4. \A r \in Place \ {"get1", "pipe"} : At'[r] = At[r]
    <3>1. UNCHANGED <<gpc, gurl, lpc, lpage>>
      BY <1>5 DEF PipeRecv, getter, pipe, linker
    <3>2. /\ At'["get0"] = At["get0"] /\ At'["get2"] = At["get2"]
         /\ At'["link0"] = At["link0"] /\ At'["link1"] = At["link1"]
         /\ At'["link2"] = At["link2"] /\ At'["in"] = At["in"]
         /\ At'["flist"] = At["flist"] /\ At'["mlist"] = At["mlist"]
         /\ At'["getter"] = At["getter"] /\ At'["linker"] = At["linker"]
      BY <2>1, <3>1 DEF At
    <3> QED
      BY <3>2 DEF Place
  <2>5. asked' = asked /\ Filtered' = Filtered
    BY <1>5 DEF PipeRecv, Filtered, getter, sched, source
  <2>6. Single'
    BY <2>1, <2>2, <2>3 DEF Single
  <2> DEFINE X == {Head(get1)}
  <2>7. X \subseteq At["get1"] /\ At'["get1"] = At["get1"] \ X /\ At'["pipe"] = At["pipe"] \cup X
    BY <2>2, <2>3
  <2> HIDE DEF X
  <2>8. "get1" \in Place /\ "pipe" \in Place /\ "get1" # "pipe" /\ "pipe" \notin Waiting
    BY DEF Place, Waiting
  <2>9. Placed' /\ OnTheirWay' = OnTheirWay
    BY <2>4, <2>5, <2>7, <2>8, MoveStep
  <2> QED
    BY <2>6, <2>9
<1>6. CASE PipeSend
  <2>1. link0' = Append(link0, ppage) /\ UNCHANGED <<get0, get1, get2, link1, link2, in, flist, mlist>>
    BY <1>6 DEF PipeSend, sched
  <2>2. /\ At["pipe"] = {ppage} /\ At'["pipe"] = {}
        /\ At["link0"] = ToSet(link0) /\ At'["link0"] = ToSet(link0')
    BY <1>6 DEF PipeSend, At
  <2>3. ToSet(link0') = ToSet(link0) \cup {ppage} /\ IsInjective(link0')
    <3>1. ppage \in Url /\ ppage \notin ToSet(link0)
      BY <1>0, <2>2, AtTyped DEF Place
    <3> QED
      BY <1>0, <2>1, <3>1, ChanUrls
  <2>4. \A r \in Place \ {"pipe", "link0"} : At'[r] = At[r]
    <3>1. UNCHANGED <<gpc, gurl, lpc, lpage>>
      BY <1>6 DEF PipeSend, getter, pipe, linker
    <3>2. /\ At'["get0"] = At["get0"] /\ At'["get1"] = At["get1"]
         /\ At'["get2"] = At["get2"] /\ At'["link1"] = At["link1"]
         /\ At'["link2"] = At["link2"] /\ At'["in"] = At["in"]
         /\ At'["flist"] = At["flist"] /\ At'["mlist"] = At["mlist"]
         /\ At'["getter"] = At["getter"] /\ At'["linker"] = At["linker"]
      BY <2>1, <3>1 DEF At
    <3> QED
      BY <3>2 DEF Place
  <2>5. asked' = asked /\ Filtered' = Filtered
    BY <1>6 DEF PipeSend, Filtered, getter, sched, source
  <2>6. Single'
    BY <2>1, <2>2, <2>3 DEF Single
  <2> DEFINE X == {ppage}
  <2>7. X \subseteq At["pipe"] /\ At'["pipe"] = At["pipe"] \ X /\ At'["link0"] = At["link0"] \cup X
    BY <2>2, <2>3
  <2> HIDE DEF X
  <2>8. "pipe" \in Place /\ "link0" \in Place /\ "pipe" # "link0" /\ "link0" \notin Waiting
    BY DEF Place, Waiting
  <2>9. Placed' /\ OnTheirWay' = OnTheirWay
    BY <2>4, <2>5, <2>7, <2>8, MoveStep
  <2> QED
    BY <2>6, <2>9
<1>7. CASE PipeStop
  <2>1. At' = At /\ asked' = asked /\ Filtered' = Filtered
    BY <1>7 DEF PipeStop, At, Filtered, channels, closed, getter, pipe, linker, source, sched
  <2>2. Single'
    BY <1>7 DEF PipeStop, Single, channels, sched
  <2> QED
    BY <2>1, <2>2 DEF Placed, OnTheirWay
<1>8. CASE LinkRecv
  <2>1. link0 # <<>> /\ link0' = Tail(link0) /\ UNCHANGED <<get0, get1, get2, link1, link2, in, flist, mlist>>
    BY <1>8 DEF LinkRecv, sched
  <2>2. /\ Head(link0) \in ToSet(link0) /\ ToSet(link0') = ToSet(link0) \ {Head(link0)}
        /\ IsInjective(link0')
    BY <1>0, <2>1, ChanUrls
  <2>3. /\ At["link0"] = ToSet(link0) /\ At'["link0"] = ToSet(link0')
        /\ At["linker"] = {} /\ At'["linker"] = {Head(link0)}
    BY <1>8 DEF LinkRecv, At
  <2>4. \A r \in Place \ {"link0", "linker"} : At'[r] = At[r]
    <3>1. UNCHANGED <<gpc, gurl, ppc, ppage>>
      BY <1>8 DEF LinkRecv, getter, pipe, linker
    <3>2. /\ At'["get0"] = At["get0"] /\ At'["get1"] = At["get1"]
         /\ At'["get2"] = At["get2"] /\ At'["link1"] = At["link1"]
         /\ At'["link2"] = At["link2"] /\ At'["in"] = At["in"]
         /\ At'["flist"] = At["flist"] /\ At'["mlist"] = At["mlist"]
         /\ At'["getter"] = At["getter"] /\ At'["pipe"] = At["pipe"]
      BY <2>1, <3>1 DEF At
    <3> QED
      BY <3>2 DEF Place
  <2>5. asked' = asked /\ Filtered' = Filtered
    BY <1>8 DEF LinkRecv, Filtered, getter, sched, source
  <2>6. Single'
    BY <2>1, <2>2, <2>3 DEF Single
  <2> DEFINE X == {Head(link0)}
  <2>7. X \subseteq At["link0"] /\ At'["link0"] = At["link0"] \ X /\ At'["linker"] = At["linker"] \cup X
    BY <2>2, <2>3
  <2> HIDE DEF X
  <2>8. "link0" \in Place /\ "linker" \in Place /\ "link0" # "linker" /\ "linker" \notin Waiting
    BY DEF Place, Waiting
  <2>9. Placed' /\ OnTheirWay' = OnTheirWay
    BY <2>4, <2>5, <2>7, <2>8, MoveStep
  <2> QED
    BY <2>6, <2>9
<1>9. CASE LinkErr
  <2>1. link2' = Append(link2, lpage) /\ UNCHANGED <<get0, get1, get2, link0, link1, in, flist, mlist>>
    BY <1>9 DEF LinkErr, sched
  <2>2. /\ At["linker"] = {lpage} /\ At'["linker"] = {}
        /\ At["link2"] = ToSet(link2) /\ At'["link2"] = ToSet(link2')
    BY <1>9 DEF LinkErr, At
  <2>3. ToSet(link2') = ToSet(link2) \cup {lpage} /\ IsInjective(link2')
    <3>1. lpage \in Url /\ lpage \notin ToSet(link2)
      BY <1>0, <2>2, AtTyped, SMTT(60) DEF Place
    <3> QED
      BY <1>0, <2>1, <3>1, ChanUrls
  <2>4. \A r \in Place \ {"linker", "link2"} : At'[r] = At[r]
    <3>1. UNCHANGED <<gpc, gurl, ppc, ppage>>
      BY <1>9 DEF LinkErr, getter, pipe, linker
    <3>2. /\ At'["get0"] = At["get0"] /\ At'["get1"] = At["get1"]
         /\ At'["get2"] = At["get2"] /\ At'["link0"] = At["link0"]
         /\ At'["link1"] = At["link1"] /\ At'["in"] = At["in"]
         /\ At'["flist"] = At["flist"] /\ At'["mlist"] = At["mlist"]
         /\ At'["getter"] = At["getter"] /\ At'["pipe"] = At["pipe"]
      BY <2>1, <3>1 DEF At
    <3> QED
      BY <3>2 DEF Place
  <2>5. asked' = asked /\ Filtered' = Filtered
    BY <1>9 DEF LinkErr, Filtered, getter, sched, source
  <2>6. Single'
    BY <2>1, <2>2, <2>3 DEF Single
  <2> DEFINE X == {lpage}
  <2>7. X \subseteq At["linker"] /\ At'["linker"] = At["linker"] \ X /\ At'["link2"] = At["link2"] \cup X
    BY <2>2, <2>3
  <2> HIDE DEF X
  <2>8. "linker" \in Place /\ "link2" \in Place /\ "linker" # "link2" /\ "link2" \notin Waiting
    BY DEF Place, Waiting
  <2>9. Placed' /\ OnTheirWay' = OnTheirWay
    BY <2>4, <2>5, <2>7, <2>8, MoveStep
  <2> QED
    BY <2>6, <2>9
<1>10. CASE LinkSend
  <2>1. link1' = Append(link1, lpage) /\ UNCHANGED <<get0, get1, get2, link0, link2, in, flist, mlist>>
    BY <1>10 DEF LinkSend, sched
  <2>2. /\ At["linker"] = {lpage} /\ At'["linker"] = {}
        /\ At["link1"] = ToSet(link1) /\ At'["link1"] = ToSet(link1')
    BY <1>10 DEF LinkSend, At
  <2>3. ToSet(link1') = ToSet(link1) \cup {lpage} /\ IsInjective(link1')
    <3>1. lpage \in Url /\ lpage \notin ToSet(link1)
      BY <1>0, <2>2, AtTyped DEF Place
    <3> QED
      BY <1>0, <2>1, <3>1, ChanUrls
  <2>4. \A r \in Place \ {"linker", "link1"} : At'[r] = At[r]
    <3>1. UNCHANGED <<gpc, gurl, ppc, ppage>>
      BY <1>10 DEF LinkSend, getter, pipe, linker
    <3>2. /\ At'["get0"] = At["get0"] /\ At'["get1"] = At["get1"]
         /\ At'["get2"] = At["get2"] /\ At'["link0"] = At["link0"]
         /\ At'["link2"] = At["link2"] /\ At'["in"] = At["in"]
         /\ At'["flist"] = At["flist"] /\ At'["mlist"] = At["mlist"]
         /\ At'["getter"] = At["getter"] /\ At'["pipe"] = At["pipe"]
      BY <2>1, <3>1 DEF At
    <3> QED
      BY <3>2 DEF Place
  <2>5. asked' = asked /\ Filtered' = Filtered
    BY <1>10 DEF LinkSend, Filtered, getter, sched, source
  <2>6. Single'
    BY <2>1, <2>2, <2>3 DEF Single
  <2> DEFINE X == {lpage}
  <2>7. X \subseteq At["linker"] /\ At'["linker"] = At["linker"] \ X /\ At'["link1"] = At["link1"] \cup X
    BY <2>2, <2>3
  <2> HIDE DEF X
  <2>8. "linker" \in Place /\ "link1" \in Place /\ "linker" # "link1" /\ "link1" \notin Waiting
    BY DEF Place, Waiting
  <2>9. Placed' /\ OnTheirWay' = OnTheirWay
    BY <2>4, <2>5, <2>7, <2>8, MoveStep
  <2> QED
    BY <2>6, <2>9
<1>11. CASE LinkStop
  <2>1. At' = At /\ asked' = asked /\ Filtered' = Filtered
    BY <1>11 DEF LinkStop, At, Filtered, channels, closed, getter, pipe, linker, source, sched
  <2>2. Single'
    BY <1>11 DEF LinkStop, Single, channels, sched
  <2> QED
    BY <2>1, <2>2 DEF Placed, OnTheirWay
<1>12. CASE LinkStopTwice
  <2>1. At' = At /\ asked' = asked /\ Filtered' = Filtered
    BY <1>12 DEF LinkStopTwice, At, Filtered, channels, closed, getter, pipe, linker,
       source, sched
  <2>2. Single'
    BY <1>12 DEF LinkStopTwice, Single, channels, sched
  <2> QED
    BY <2>1, <2>2 DEF Placed, OnTheirWay
<1>13. CASE FeedRecv
  <2>1. /\ in # <<>> /\ flist = <<>> /\ in' = Tail(in) /\ flist' = Head(in)
        /\ UNCHANGED <<get0, get1, get2, link0, link1, link2, mlist>>
    BY <1>13 DEF FeedRecv, sched
  <2>2. /\ Members(in) = Members(in') \cup ToSet(flist') /\ Members(in') \cap ToSet(flist') = {}
        /\ Unlike(in') /\ IsInjective(flist')
    BY <2>1, AtTyped, EntriesTail DEF Single
  <2>3. ToSet(flist) = {}
    BY <2>1 DEF ToSet
  <2>4. /\ At["in"] = Members(in) /\ At'["in"] = Members(in')
        /\ At["flist"] = ToSet(flist) /\ At'["flist"] = ToSet(flist')
    BY DEF At
  <2>5. \A r \in Place \ {"in", "flist"} : At'[r] = At[r]
    <3>1. UNCHANGED <<gpc, gurl, ppc, ppage, lpc, lpage>>
      BY <1>13 DEF FeedRecv, getter, pipe, linker
    <3>2. /\ At'["get0"] = At["get0"] /\ At'["get1"] = At["get1"]
         /\ At'["get2"] = At["get2"] /\ At'["link0"] = At["link0"]
         /\ At'["link1"] = At["link1"] /\ At'["link2"] = At["link2"]
         /\ At'["mlist"] = At["mlist"] /\ At'["getter"] = At["getter"]
         /\ At'["pipe"] = At["pipe"] /\ At'["linker"] = At["linker"]
      BY <2>1, <3>1 DEF At
    <3> QED
      BY <3>2 DEF Place
  <2>6. asked' = asked /\ Filtered' = Filtered
    BY <1>13 DEF FeedRecv, Filtered, getter, sched, source
  <2>7. Single'
    BY <2>1, <2>2 DEF Single
  <2>8. /\ ToSet(flist') \subseteq At["in"] /\ At'["in"] = At["in"] \ ToSet(flist')
        /\ At'["flist"] = At["flist"] \cup ToSet(flist')
    BY <2>2, <2>3, <2>4
  <2>9. "in" \in Place /\ "flist" \in Place /\ "in" # "flist" /\ "in" \in Waiting
    BY DEF Place, Waiting
  <2> QED
    BY <2>5, <2>6, <2>7, <2>8, <2>9, MoveStep
<1>14. CASE FeedSend
  <2>1. CASE get0Closed
    <3>1. At' = At /\ asked' = asked /\ Filtered' = Filtered
      BY <1>14, <2>1 DEF FeedSend, SendGet0, At, Filtered, getter, pipe, linker, sched, source
    <3>2. Single'
      BY <1>14, <2>1 DEF FeedSend, SendGet0, Single, sched
    <3> QED
      BY <3>1, <3>2 DEF Placed, OnTheirWay
  <2>2. CASE ~get0Closed
    <3> DEFINE u == Head(flist)
    <3>1. /\ flist # <<>> /\ flist' = Tail(flist) /\ get0' = Append(get0, u)
          /\ UNCHANGED <<get1, get2, link0, link1, link2, in, mlist>>
      BY <1>14, <2>2 DEF FeedSend, SendGet0, sched
    <3>2. u \in ToSet(flist) /\ ToSet(flist') = ToSet(flist) \ {u} /\ IsInjective(flist')
      BY <3>1, AtTyped, ListUrls DEF Single
    <3>3. /\ At["flist"] = ToSet(flist) /\ At'["flist"] = ToSet(flist')
          /\ At["get0"] = ToSet(get0) /\ At'["get0"] = ToSet(get0')
      BY DEF At
    <3>4. ToSet(get0') = ToSet(get0) \cup {u} /\ IsInjective(get0')
      <4>1. u \in Url /\ u \notin ToSet(get0)
        BY <1>0, <3>1, <3>2, <3>3, AtTyped, SeqTail DEF Place
      <4> QED
        BY <1>0, <3>1, <4>1, ChanUrls
    <3>5. \A r \in Place \ {"flist", "get0"} : At'[r] = At[r]
      <4>1. UNCHANGED <<gpc, gurl, ppc, ppage, lpc, lpage>>
        BY <1>14 DEF FeedSend, getter, pipe, linker
      <4>2. /\ At'["get1"] = At["get1"] /\ At'["get2"] = At["get2"]
           /\ At'["link0"] = At["link0"] /\ At'["link1"] = At["link1"]
           /\ At'["link2"] = At["link2"] /\ At'["in"] = At["in"]
           /\ At'["mlist"] = At["mlist"] /\ At'["getter"] = At["getter"]
           /\ At'["pipe"] = At["pipe"] /\ At'["linker"] = At["linker"]
        BY <3>1, <4>1 DEF At
      <4> QED
        BY <4>2 DEF Place
    <3>6. asked' = asked /\ Filtered' = Filtered
      BY <1>14 DEF FeedSend, Filtered, getter, sched, source
    <3>7. Single'
      BY <3>1, <3>2, <3>4 DEF Single
    <3> HIDE DEF u
    <3>8. /\ {u} \subseteq At["flist"] /\ At'["flist"] = At["flist"] \ {u}
          /\ At'["get0"] = At["get0"] \cup {u}
      BY <3>2, <3>3, <3>4
    <3>9. "flist" \in Place /\ "get0" \in Place /\ "flist" # "get0" /\ "flist" \in Waiting
      BY DEF Place, Waiting
    <3> QED
      BY <3>5, <3>6, <3>7, <3>8, <3>9, MoveStep
  <2> QED
    BY <2>1, <2>2
<1>15. CASE SeedSend
  BY <1>15 DEF SeedSend, SeedsLeft
<1>16. CASE Leave
  <2>1. At' = At /\ asked' = asked /\ Filtered' = Filtered
    BY <1>16 DEF Leave, At, Filtered, channels, closed, getter, pipe, linker, source, sched
  <2>2. Single'
    BY <1>16 DEF Leave, Single, channels, sched
  <2> QED
    BY <2>1, <2>2 DEF Placed, OnTheirWay
<1>17. CASE Hand
  <2>1. /\ in' = Append(in, mlist) /\ mlist' = <<>>
        /\ UNCHANGED <<get0, get1, get2, link0, link1, link2, flist>>
    BY <1>17 DEF Hand
  <2>2. /\ At["in"] = Members(in) /\ At'["in"] = Members(in')
        /\ At["mlist"] = ToSet(mlist) /\ At'["mlist"] = ToSet(mlist')
    BY DEF At
  <2>3. ToSet(mlist') = {} /\ IsInjective(mlist')
    BY <2>1 DEF ToSet, IsInjective
  <2>4. Members(in') = Members(in) \cup ToSet(mlist) /\ Unlike(in')
    <3>1. Members(in) \cap ToSet(mlist) = {} /\ IsInjective(mlist) /\ Unlike(in)
      BY <1>0, <2>2 DEF Place, Single
    <3> QED
      BY <2>1, <3>1, AtTyped, EntriesAppend
  <2>5. \A r \in Place \ {"mlist", "in"} : At'[r] = At[r]
    <3>1. UNCHANGED <<gpc, gurl, ppc, ppage, lpc, lpage>>
      BY <1>17 DEF Hand, getter, pipe, linker
    <3>2. /\ At'["get0"] = At["get0"] /\ At'["get1"] = At["get1"]
         /\ At'["get2"] = At["get2"] /\ At'["link0"] = At["link0"]
         /\ At'["link1"] = At["link1"] /\ At'["link2"] = At["link2"]
         /\ At'["flist"] = At["flist"] /\ At'["getter"] = At["getter"]
         /\ At'["pipe"] = At["pipe"] /\ At'["linker"] = At["linker"]
      BY <2>1, <3>1 DEF At
    <3> QED
      BY <3>2 DEF Place
  <2>6. asked' = asked /\ Filtered' = Filtered
    BY <1>17 DEF Hand, Filtered, getter, sched, source
  <2>7. Single'
    BY <2>1, <2>3, <2>4 DEF Single
  <2>8. /\ ToSet(mlist) \subseteq At["mlist"] /\ At'["mlist"] = At["mlist"] \ ToSet(mlist)
        /\ At'["in"] = At["in"] \cup ToSet(mlist)
    BY <2>2, <2>3, <2>4
  <2>9. "mlist" \in Place /\ "in" \in Place /\ "mlist" # "in" /\ "mlist" \in Waiting
    BY DEF Place, Waiting
  <2> QED
    BY <2>5, <2>6, <2>7, <2>8, <2>9, MoveStep
<1>18. CASE CloseGet0
  <2>1. At' = At /\ asked' = asked /\ Filtered' = Filtered
    BY <1>18 DEF CloseGet0, At, Filtered, channels, closed, getter, pipe, linker, source, sched
  <2>2. Single'
    BY <1>18 DEF CloseGet0, Single, channels, sched
  <2> QED
    BY <2>1, <2>2 DEF Placed, OnTheirWay
<1>19. CASE CloseDone
  <2>1. At' = At /\ asked' = asked /\ Filtered' = Filtered
    BY <1>19 DEF CloseDone, At, Filtered, channels, closed, getter, pipe, linker, source, sched
  <2>2. Single'
    BY <1>19 DEF CloseDone, Single, channels, sched
  <2> QED
    BY <2>1, <2>2 DEF Placed, OnTheirWay
<1>20. CASE Return
  <2>1. At' = At /\ asked' = asked /\ Filtered' = Filtered
    BY <1>20 DEF Return, At, Filtered, channels, closed, getter, pipe, linker, source, sched
  <2>2. Single'
    BY <1>20 DEF Return, Single, channels, sched
  <2> QED
    BY <2>1, <2>2 DEF Placed, OnTheirWay
<1>21. CASE UNCHANGED vars
  <2>1. At' = At /\ asked' = asked /\ Filtered' = Filtered
    BY <1>21 DEF vars, At, Filtered, channels, closed, getter, pipe, linker, source, sched
  <2>2. Single'
    BY <1>21 DEF vars, Single, channels, sched
  <2> QED
    BY <2>1, <2>2 DEF Placed, OnTheirWay
<1> QED
  BY <1>1, <1>2, <1>3, <1>4, <1>5, <1>6, <1>7, <1>8, <1>9, <1>10, <1>11, <1>12,
     <1>13, <1>14, <1>15, <1>16, <1>17, <1>18, <1>19, <1>20, <1>21 DEF Next, Getter, Pipe, Link, Main

\* The first url is sent before any other is anywhere.
LEMMA FirstStep ==
  ASSUME TypeOK, OnePlace, ~cmd.stdin, SendFirst
  PROVE  OnePlace' /\ OnTheirWay' = {cmd.first}
<1>1. Together(At) = {} /\ ToSet(asked) = {} /\ \A p \in Place : At[p] = {}
  <2>1. OnTheirWay = {} /\ ToSet(asked) = {}
    BY DEF SendFirst, OnePlace, Placed, Filtered
  <2> QED
    BY <2>1, Places DEF OnTheirWay, Together
<1>2. /\ get0' = Append(get0, cmd.first) /\ mpc = "first" /\ mpc' = "mark"
      /\ UNCHANGED <<get1, get2, link0, link1, link2, in, flist, mlist, asked, cmd, urlfilter>>
  BY DEF SendFirst, getter, source
<1>3. ToSet(get0') = ToSet(get0) \cup {cmd.first} /\ IsInjective(get0')
  <2>1. get0 \in Channel /\ IsInjective(get0) /\ At["get0"] = ToSet(get0)
    BY DEF TypeOK, ChannelsTyped, OnePlace, Single, At
  <2>2. cmd.first \in Url \ ToSet(get0)
    BY <1>1, <2>1, AtTyped DEF Place
  <2> QED
    BY <1>2, <2>1, <2>2, ChanUrls
<1>4. At'["get0"] = At["get0"] \cup {cmd.first}
  BY <1>3 DEF At
<1>5. \A r \in Place \ {"get0"} : At'[r] = At[r]
  <2>1. UNCHANGED <<gpc, gurl, ppc, ppage, lpc, lpage>>
    BY DEF SendFirst, getter, pipe, linker
  <2>2. /\ At'["get1"] = At["get1"] /\ At'["get2"] = At["get2"]
        /\ At'["link0"] = At["link0"] /\ At'["link1"] = At["link1"]
        /\ At'["link2"] = At["link2"] /\ At'["in"] = At["in"]
        /\ At'["flist"] = At["flist"] /\ At'["mlist"] = At["mlist"]
        /\ At'["getter"] = At["getter"] /\ At'["pipe"] = At["pipe"]
        /\ At'["linker"] = At["linker"]
    BY <1>2, <2>1 DEF At
  <2> QED
    BY <2>2 DEF Place
<1>6. Apart(At') /\ Together(At') = {cmd.first}
  <2> DEFINE X == {cmd.first}
  <2>1. At'["get0"] = At["get0"] \cup X /\ X \cap Together(At) = {} /\ Together(At) \cup X = X
    BY <1>1, <1>4
  <2>2. "get0" \in DOMAIN At
    BY Places DEF Place
  <2> HIDE DEF X
  <2>3. Apart(At) /\ DOMAIN At' = DOMAIN At /\ \A r \in DOMAIN At \ {"get0"} : At'[r] = At[r]
    BY <1>5, Places DEF OnePlace, Placed
  <2>4. Apart(At') /\ Together(At') = Together(At) \cup X
    BY <2>1, <2>2, <2>3, Added
  <2> QED
    BY <2>1, <2>4 DEF X
<1>7. Single'
  BY <1>2, <1>3 DEF OnePlace, Single
<1>8. Placed'
  BY <1>1, <1>2, <1>6 DEF Placed, OnTheirWay, Filtered
<1> QED
  BY <1>2, <1>6, <1>7, <1>8 DEF OnePlace, OnTheirWay

\* The getter takes a url that it has not asked for.
LEMMA TakeStep ==
  ASSUME TypeOK, OnePlace, AskedOnce, ~cmd.stdin, GetRecv
  PROVE  OnePlace' /\ AskedOnce' /\ OnTheirWay' = OnTheirWay
<1> DEFINE u == Head(get0)
<1>1. /\ get0 # <<>> /\ get0' = Tail(get0) /\ asked' = Append(asked, u)
      /\ UNCHANGED <<get1, get2, link0, link1, link2, in, flist, mlist, cmd, urlfilter, mpc, ppc, ppage, lpc, lpage>>
  BY DEF GetRecv, pipe, linker, sched, source
<1>2. /\ u \in ToSet(get0) /\ u \in Url /\ ToSet(get0') = ToSet(get0) \ {u} /\ IsInjective(get0')
  <2>1. get0 \in Channel /\ IsInjective(get0)
    BY DEF TypeOK, ChannelsTyped, OnePlace, Single
  <2> QED
    BY <1>1, <2>1, ChanUrls, ChanTail
<1>3. /\ At["get0"] = ToSet(get0) /\ At'["get0"] = ToSet(get0')
      /\ At["getter"] = {} /\ At'["getter"] = {u}
  BY DEF GetRecv, At
<1>4. /\ At'["get1"] = At["get1"] /\ At'["get2"] = At["get2"]
      /\ At'["link0"] = At["link0"] /\ At'["link1"] = At["link1"]
      /\ At'["link2"] = At["link2"] /\ At'["in"] = At["in"]
      /\ At'["flist"] = At["flist"] /\ At'["mlist"] = At["mlist"]
      /\ At'["pipe"] = At["pipe"] /\ At'["linker"] = At["linker"]
  BY <1>1 DEF At
<1>5. \A r \in Place \ {"get0", "getter"} : At'[r] = At[r]
  BY <1>4 DEF Place
<1>6. Apart(At') /\ Together(At') = Together(At)
  <2> DEFINE X == {u}
  <2>1. X \subseteq At["get0"] /\ At'["get0"] = At["get0"] \ X /\ At'["getter"] = At["getter"] \cup X
    BY <1>2, <1>3
  <2>2. "get0" \in DOMAIN At /\ "getter" \in DOMAIN At /\ "get0" # "getter"
    BY Places DEF Place
  <2> HIDE DEF X
  <2> QED
    BY <1>5, <2>1, <2>2, Moved, Places DEF OnePlace, Placed
<1>7. u \notin ToSet(asked)
  BY <1>2, <1>3 DEF OnePlace, Placed, Waiting
<1>8. ToSet(asked') = ToSet(asked) \cup {u} /\ IsInjective(asked')
  BY <1>1, <1>2, <1>7, AtTyped, SeqAppend DEF AskedOnce
<1>9. \A p \in Waiting : ToSet(asked') \cap At'[p] = {}
  <2>1. \A p \in Waiting : p \in Place /\ p # "getter" /\ u \notin At'[p]
    <3>1. \A p \in Place : p # "getter" => u \notin At'[p]
      BY <1>3, <1>6, Places DEF Apart, Place
    <3> QED
      BY <3>1 DEF Waiting, Place
  <2>2. \A p \in Waiting : At'[p] \subseteq At[p]
    BY <1>2, <1>3, <1>5, <2>1
  <2> QED
    BY <1>8, <2>1, <2>2 DEF OnePlace, Placed
<1>10. OnTheirWay' \cup ToSet(asked') \subseteq Filtered'
  <2>1. u \in OnTheirWay
    BY <1>2, <1>3, Places DEF OnTheirWay, Together, Place
  <2>2. Filtered' = Filtered
    BY <1>1 DEF Filtered
  <2> QED
    BY <1>6, <1>8, <2>1, <2>2 DEF OnePlace, Placed, OnTheirWay
<1>11. Single'
  BY <1>1, <1>2 DEF OnePlace, Single
<1> QED
  BY <1>1, <1>6, <1>8, <1>9, <1>10, <1>11 DEF OnePlace, Placed, AskedOnce, OnTheirWay

\* main receives an error.
LEMMA ErrStep ==
  ASSUME TypeOK, OnePlace, ~cmd.stdin, RecvErr
  PROVE  /\ OnePlace'
         /\ \E x \in OnTheirWay : OnTheirWay' = OnTheirWay \ {x}
<1>1. UNCHANGED <<get0, get1, link0, link1, in, flist, mlist, cmd, urlfilter, mpc, asked, gpc, gurl, ppc, ppage, lpc, lpage>>
  BY DEF RecvErr, getter, pipe, linker, source
<1>2. get2 \in Channel /\ link2 \in Channel /\ IsInjective(get2) /\ IsInjective(link2)
  BY DEF TypeOK, ChannelsTyped, OnePlace, Single
<1>3. ASSUME link2 # <<>>, link2' = Tail(link2), get2' = get2
      PROVE  /\ Single' /\ Apart(At')
             /\ \A p \in Waiting : At'[p] = At[p]
             /\ \E x \in OnTheirWay : OnTheirWay' = OnTheirWay \ {x}
  <2> DEFINE x == Head(link2)
  <2>1. x \in ToSet(link2) /\ ToSet(link2') = ToSet(link2) \ {x} /\ IsInjective(link2')
    BY <1>2, <1>3, ChanUrls
  <2>2. At["link2"] = ToSet(link2) /\ At'["link2"] = ToSet(link2')
    BY DEF At
  <2>3. /\ At'["get0"] = At["get0"] /\ At'["get1"] = At["get1"]
        /\ At'["get2"] = At["get2"] /\ At'["link0"] = At["link0"]
        /\ At'["link1"] = At["link1"] /\ At'["in"] = At["in"]
        /\ At'["flist"] = At["flist"] /\ At'["mlist"] = At["mlist"]
        /\ At'["getter"] = At["getter"] /\ At'["pipe"] = At["pipe"]
        /\ At'["linker"] = At["linker"]
    BY <1>1, <1>3 DEF At
  <2>4. \A r \in Place \ {"link2"} : At'[r] = At[r]
    BY <2>3 DEF Place
  <2> HIDE DEF x
  <2>5. "link2" \in DOMAIN At /\ x \in At["link2"] /\ At'["link2"] = At["link2"] \ {x}
    BY <2>1, <2>2, Places DEF Place
  <2>6. Apart(At') /\ Together(At') = Together(At) \ {x}
    BY <2>4, <2>5, Removed, Places DEF OnePlace, Placed
  <2>7. x \in OnTheirWay
    BY <2>5 DEF OnTheirWay, Together
  <2>8. Single'
    BY <1>1, <1>3, <2>1 DEF OnePlace, Single
  <2>9. \A p \in Waiting : At'[p] = At[p]
    BY <2>3 DEF Waiting
  <2> QED
    BY <2>6, <2>7, <2>8, <2>9 DEF OnTheirWay
<1>4. ASSUME get2 # <<>>, get2' = Tail(get2), link2' = link2
      PROVE  /\ Single' /\ Apart(At')
             /\ \A p \in Waiting : At'[p] = At[p]
             /\ \E x \in OnTheirWay : OnTheirWay' = OnTheirWay \ {x}
  <2> DEFINE x == Head(get2)
  <2>1. x \in ToSet(get2) /\ ToSet(get2') = ToSet(get2) \ {x} /\ IsInjective(get2')
    BY <1>2, <1>4, ChanUrls
  <2>2. At["get2"] = ToSet(get2) /\ At'["get2"] = ToSet(get2')
    BY DEF At
  <2>3. /\ At'["get0"] = At["get0"] /\ At'["get1"] = At["get1"]
        /\ At'["link0"] = At["link0"] /\ At'["link1"] = At["link1"]
        /\ At'["link2"] = At["link2"] /\ At'["in"] = At["in"]
        /\ At'["flist"] = At["flist"] /\ At'["mlist"] = At["mlist"]
        /\ At'["getter"] = At["getter"] /\ At'["pipe"] = At["pipe"]
        /\ At'["linker"] = At["linker"]
    BY <1>1, <1>4 DEF At
  <2>4. \A r \in Place \ {"get2"} : At'[r] = At[r]
    BY <2>3 DEF Place
  <2> HIDE DEF x
  <2>5. "get2" \in DOMAIN At /\ x \in At["get2"] /\ At'["get2"] = At["get2"] \ {x}
    BY <2>1, <2>2, Places DEF Place
  <2>6. Apart(At') /\ Together(At') = Together(At) \ {x}
    BY <2>4, <2>5, Removed, Places DEF OnePlace, Placed
  <2>7. x \in OnTheirWay
    BY <2>5 DEF OnTheirWay, Together
  <2>8. Single'
    BY <1>1, <1>4, <2>1 DEF OnePlace, Single
  <2>9. \A p \in Waiting : At'[p] = At[p]
    BY <2>3 DEF Waiting
  <2> QED
    BY <2>6, <2>7, <2>8, <2>9 DEF OnTheirWay
<1>5. /\ Single' /\ Apart(At')
      /\ \A p \in Waiting : At'[p] = At[p]
      /\ \E x \in OnTheirWay : OnTheirWay' = OnTheirWay \ {x}
  BY <1>3, <1>4 DEF RecvErr, LinkErrs
<1>6. Filtered' = Filtered /\ asked' = asked
  BY <1>1 DEF Filtered
<1>7. Placed'
  BY <1>5, <1>6 DEF OnePlace, Placed
<1> QED
  BY <1>1, <1>5, <1>7 DEF OnePlace

\* main receives a list of links: what is new of it is on its way.
LEMMA LinksStep ==
  ASSUME TypeOK, OnePlace, ~cmd.stdin, mpc = "loop" => mlist = <<>>, RecvLinks
  PROVE  /\ OnePlace'
         /\ \E x \in OnTheirWay :
              OnTheirWay' = (OnTheirWay \ {x}) \cup ((urlfilter' \cap Matching) \ urlfilter)
<1> DEFINE x == Head(link1)
           list == Links[x]
           N == (ToSet(list) \cap Matching) \ urlfilter
<1>1. /\ link1 # <<>> /\ link1' = Tail(link1) /\ mlist = <<>> /\ mlist' = Fresh(list)
      /\ mpc = "loop" /\ mpc' \in {"close0", "hand"} /\ urlfilter' = urlfilter \cup ToSet(list)
      /\ UNCHANGED <<get0, get1, get2, link0, link2, in, flist, cmd, asked, gpc, gurl, ppc, ppage, lpc, lpage>>
  BY DEF RecvLinks, getter, pipe, linker, source
<1>2. /\ x \in ToSet(link1) /\ ToSet(link1') = ToSet(link1) \ {x} /\ IsInjective(link1')
      /\ list \in Seq(Url)
  <2>1. link1 \in Channel /\ IsInjective(link1)
    BY DEF TypeOK, ChannelsTyped, OnePlace, Single
  <2> QED
    BY <1>1, <2>1, ChanUrls, RecvLinksTyped
<1>3. ToSet(mlist') = N /\ IsInjective(mlist') /\ ToSet(mlist) = {}
  <2>1. IsInjective(Fresh(list)) /\ ToSet(Fresh(list)) = N
    BY <1>2, FreshFacts
  <2>2. ToSet(mlist) = {}
    BY <1>1 DEF ToSet
  <2> HIDE DEF N
  <2> QED
    BY <1>1, <2>1, <2>2
<1> HIDE DEF x, list
<1>4. /\ At["link1"] = ToSet(link1) /\ At'["link1"] = ToSet(link1')
      /\ At["mlist"] = ToSet(mlist) /\ At'["mlist"] = ToSet(mlist')
  BY DEF At
<1>5. /\ At'["get0"] = At["get0"] /\ At'["get1"] = At["get1"]
      /\ At'["get2"] = At["get2"] /\ At'["link0"] = At["link0"]
      /\ At'["link2"] = At["link2"] /\ At'["in"] = At["in"]
      /\ At'["flist"] = At["flist"] /\ At'["getter"] = At["getter"]
      /\ At'["pipe"] = At["pipe"] /\ At'["linker"] = At["linker"]
  BY <1>1 DEF At
<1>6. \A r \in Place \ {"link1", "mlist"} : At'[r] = At[r]
  BY <1>5 DEF Place
<1>7. OnTheirWay \cup ToSet(asked) \subseteq urlfilter
  BY <1>1 DEF OnePlace, Placed, Filtered
<1> DEFINE V == [At EXCEPT !["link1"] = At["link1"] \ {x}]
<1>8. /\ DOMAIN V = Place /\ V["link1"] = At["link1"] \ {x} /\ V["mlist"] = At["mlist"]
      /\ \A r \in Place \ {"link1"} : V[r] = At[r]
  BY Places DEF Place
<1>9. "link1" \in Place /\ "mlist" \in Place /\ "link1" # "mlist" /\ x \in At["link1"] /\ x \in OnTheirWay
  BY <1>2, <1>4, Places DEF Place, OnTheirWay, Together
<1> HIDE DEF V
<1>10. Apart(V) /\ Together(V) = Together(At) \ {x}
  BY <1>8, <1>9, Removed, Places DEF OnePlace, Placed
<1>11. Apart(At') /\ Together(At') = Together(V) \cup N
  <2>1. N \cap Together(V) = {}
    BY <1>7, <1>10 DEF OnTheirWay
  <2> HIDE DEF N
  <2>2. At'["mlist"] = V["mlist"] \cup N /\ \A r \in Place \ {"mlist"} : At'[r] = V[r]
    BY <1>2, <1>3, <1>4, <1>6, <1>8, ZenonT(60)
  <2> QED
    BY <1>8, <1>9, <1>10, <2>1, <2>2, Added, Places
<1>12. OnTheirWay' = (OnTheirWay \ {x}) \cup N
  BY <1>10, <1>11 DEF OnTheirWay
<1>13. N = (urlfilter' \cap Matching) \ urlfilter
  BY <1>1
<1>14. \A p \in Waiting : ToSet(asked') \cap At'[p] = {}
  <2>1. \A p \in {"get0", "in", "flist"} : At'[p] = At[p]
    BY <1>5
  <2>2. ToSet(asked') \cap At'["mlist"] = {}
    BY <1>1, <1>3, <1>4, <1>7
  <2>3. asked' = asked
    BY <1>1
  <2> QED
    BY <2>1, <2>2, <2>3 DEF OnePlace, Placed, Waiting
<1>15. OnTheirWay' \cup ToSet(asked') \subseteq Filtered'
  <2>1. Filtered' = urlfilter' /\ asked' = asked
    BY <1>1 DEF Filtered
  <2> QED
    BY <1>1, <1>7, <1>12, <2>1
<1>16. Single'
  BY <1>1, <1>2, <1>3 DEF OnePlace, Single
<1>17. OnePlace'
  BY <1>1, <1>11, <1>14, <1>15, <1>16 DEF OnePlace, Placed
<1> QED
  BY <1>9, <1>12, <1>13, <1>17

\* What only one or two actions change.
LEMMA Frame ==
  ASSUME [Next]_vars
  PROVE  /\ cmd' = cmd
         /\ ~GetRecv => asked' = asked
         /\ ~SendFirst /\ ~MarkFirst /\ ~RecvLinks => urlfilter' = urlfilter
         /\ ~SendFirst /\ ~MarkFirst => (mpc' \in {"first", "mark"} <=> mpc \in {"first", "mark"})
         /\ ~SendFirst => (mpc' = "first" <=> mpc = "first")
         /\ ~Leave /\ ~RecvLinks => (Crawling' <=> Crawling)
<1> USE DEF Crawling, channels, closed, getter, pipe, linker, source, sched
<1>1. CASE GetRecv
  BY <1>1 DEF GetRecv
<1>2. CASE Fetch
  BY <1>2 DEF Fetch
<1>3. CASE GetErr
  BY <1>3 DEF GetErr
<1>4. CASE GetSend
  BY <1>4 DEF GetSend
<1>5. CASE GetStop
  BY <1>5 DEF GetStop
<1>6. CASE PipeRecv
  BY <1>6 DEF PipeRecv
<1>7. CASE PipeSend
  BY <1>7 DEF PipeSend
<1>8. CASE PipeStop
  BY <1>8 DEF PipeStop
<1>9. CASE LinkRecv
  BY <1>9 DEF LinkRecv
<1>10. CASE LinkErr
  BY <1>10 DEF LinkErr
<1>11. CASE LinkSend
  BY <1>11 DEF LinkSend
<1>12. CASE LinkStop
  BY <1>12 DEF LinkStop
<1>13. CASE LinkStopTwice
  BY <1>13 DEF LinkStopTwice
<1>14. CASE FeedRecv
  BY <1>14 DEF FeedRecv
<1>15. CASE FeedSend
  BY <1>15 DEF FeedSend
<1>16. CASE SeedSend
  BY <1>16 DEF SeedSend
<1>17. CASE SendFirst
  BY <1>17 DEF SendFirst
<1>18. CASE MarkFirst
  BY <1>18 DEF MarkFirst
<1>19. CASE Leave
  BY <1>19 DEF Leave
<1>20. CASE RecvErr
  BY <1>20 DEF RecvErr
<1>21. CASE RecvLinks
  BY <1>21 DEF RecvLinks, AtLimit
<1>22. CASE Hand
  BY <1>22 DEF Hand
<1>23. CASE CloseGet0
  BY <1>23 DEF CloseGet0
<1>24. CASE CloseDone
  BY <1>24 DEF CloseDone
<1>25. CASE Return
  BY <1>25 DEF Return
<1>26. CASE UNCHANGED vars
  BY <1>26 DEF vars
<1> QED
  BY <1>1, <1>2, <1>3, <1>4, <1>5, <1>6, <1>7, <1>8, <1>9, <1>10, <1>11, <1>12,
     <1>13, <1>14, <1>15, <1>16, <1>17, <1>18, <1>19, <1>20, <1>21, <1>22, <1>23,
     <1>24, <1>25, <1>26 DEF Next, Getter, Pipe, Link, Main

\* Every step keeps each url in one place and asked for once.
LEMMA OnePlaceStep ==
  ASSUME TypeOK, SeedsLeft, OnePlace, AskedOnce,
         mpc \in {"first", "mark", "loop"} => mlist = <<>>, [Next]_vars
  PROVE  OnePlace' /\ AskedOnce'
<1>1. CASE cmd.stdin
  <2>1. cmd'.stdin
    BY <1>1, Frame
  <2> QED
    BY <2>1 DEF OnePlace, AskedOnce
<1>2. CASE ~cmd.stdin /\ GetRecv
  BY <1>2, TakeStep
<1>3. CASE ~cmd.stdin /\ SendFirst
  <2>1. asked' = asked /\ OnePlace'
    BY <1>3, FirstStep DEF SendFirst, getter
  <2> QED
    BY <2>1, Frame DEF AskedOnce
<1>4. CASE ~cmd.stdin /\ RecvErr
  <2>1. asked' = asked /\ OnePlace'
    BY <1>4, ErrStep DEF RecvErr, getter
  <2> QED
    BY <2>1, Frame DEF AskedOnce
<1>5. CASE ~cmd.stdin /\ RecvLinks
  <2>1. asked' = asked /\ OnePlace'
    BY <1>5, LinksStep DEF RecvLinks, getter
  <2> QED
    BY <2>1, Frame DEF AskedOnce
<1>6. CASE ~cmd.stdin /\ MarkFirst
  <2>1. /\ mpc = "mark" /\ mpc' = "loop" /\ urlfilter' = urlfilter \cup {cmd.first}
        /\ asked' = asked /\ cmd' = cmd /\ At' = At
    BY <1>6 DEF MarkFirst, At, channels, getter, pipe, linker, source
  <2>2. Single'
    BY <1>6 DEF MarkFirst, channels, OnePlace, Single
  <2>3. Placed'
    BY <1>6, <2>1 DEF OnePlace, Placed, OnTheirWay, Filtered
  <2> QED
    BY <2>1, <2>2, <2>3 DEF OnePlace, AskedOnce
<1>7. CASE ~cmd.stdin /\ ~GetRecv /\ ~SendFirst /\ ~RecvErr /\ ~RecvLinks /\ ~MarkFirst
  <2>1. Single' /\ Placed'
    BY <1>7, PlacesStep DEF OnePlace
  <2> QED
    BY <1>7, <2>1, Frame DEF OnePlace, AskedOnce
<1> QED
  BY <1>1, <1>2, <1>3, <1>4, <1>5, <1>6, <1>7

----------------------------------------------------------------------------
(* The invariant. *)

LEMMA InitInv == Init => CrawlInv
<1> SUFFICES ASSUME Init PROVE CrawlInv
  OBVIOUS
<1>1. TypeOK
  BY InitTyped
<1>2. Len(<<>>) = 0 /\ ToSet(<<>>) = {} /\ IsInjective(<<>>) /\ Members(<<>>) = {} /\ Unlike(<<>>)
  BY EmptySeq DEF ToSet, IsInjective, Members, Unlike
<1>3. Cardinality(Entries(<<>>)) = 0
  <2>1. Entries(<<>>) = {}
    BY EmptySeq DEF Entries
  <2> QED
    BY <2>1, FS_EmptySet
<1>4. cmd.stdin => SeedsRead = 0 /\ SeedsSent = 0
  <2> SUFFICES ASSUME cmd.stdin PROVE SeedsRead = 0 /\ SeedsSent = 0
    OBVIOUS
  <2>1. SeedsRead = 0
    BY LenProperties, CrawlAssumption DEF Init, SeedsRead
  <2>2. {k \in 1..SeedsRead : Seeds[k] \notin Malformed} = {}
    BY <2>1
  <2> QED
    BY <2>1, <2>2, FS_EmptySet DEF SeedsSent
<1>5. Outstanding
  <2>1. InChannels = 0
    BY <1>2 DEF Init, InChannels
  <2>2. InLists = 0
    BY <1>2, <1>3 DEF Init, InLists
  <2>3. InHands = 0
    BY DEF Init, InHands, One
  <2>4. Beyond = 1 /\ n = 1
    BY <1>4 DEF Init, Beyond, One
  <2> QED
    BY <2>1, <2>2, <2>3, <2>4 DEF Outstanding, InFlight
<1>6. OpenWhileCrawling
  BY DEF Init, OpenWhileCrawling
<1>7. LimitKept
  BY <1>1, FirstTyped DEF Init, LimitKept
<1>8. SeedsLeft
  BY <1>4, LenProperties, CrawlAssumption DEF Init, SeedsLeft
<1>9. OnePlace /\ AskedOnce
  <2>1. Single
    BY <1>2 DEF Init, Single
  <2>2. \A p \in Place : At[p] = {}
    BY <1>2 DEF Init, At, Place
  <2>3. Apart(At) /\ OnTheirWay = {}
    BY <2>2, Places DEF Apart, OnTheirWay, Together
  <2>4. ToSet(asked) = {} /\ IsInjective(asked)
    BY <1>2 DEF Init
  <2>5. Placed
    BY <2>3, <2>4 DEF Placed
  <2>6. ~cmd.stdin => mpc = "first" /\ urlfilter = {}
    BY DEF Init
  <2> QED
    BY <2>1, <2>4, <2>5, <2>6 DEF OnePlace, AskedOnce
<1>10. mlist = <<>>
  BY DEF Init
<1> QED
  BY <1>1, <1>5, <1>6, <1>7, <1>8, <1>9, <1>10 DEF CrawlInv

LEMMA StepInv == CrawlInv /\ [Next]_vars => CrawlInv'
<1> SUFFICES ASSUME CrawlInv, [Next]_vars PROVE CrawlInv'
  OBVIOUS
<1>1. /\ TypeOK /\ Outstanding /\ OpenWhileCrawling /\ LimitKept /\ SeedsLeft /\ OnePlace /\ AskedOnce
      /\ mpc \in {"first", "mark", "loop"} => mlist = <<>>
  BY DEF CrawlInv
<1>2. TypeOK'
  BY <1>1, TypeStep
<1>3. Outstanding'
  BY <1>1, CountStep
<1>4. OpenWhileCrawling'
  BY <1>1, OpenStep
<1>5. LimitKept'
  BY <1>1, LimitStep
<1>6. SeedsLeft'
  BY <1>1, SeedsStep
<1>7. OnePlace' /\ AskedOnce'
  BY <1>1, OnePlaceStep
<1>8. mpc' \in {"first", "mark", "loop"} => mlist' = <<>>
  BY <1>1, HeldStep
<1> QED
  BY <1>2, <1>3, <1>4, <1>5, <1>6, <1>7, <1>8 DEF CrawlInv

\* In every state of a crawl n is the number of urls on their way (with "-"
\* less the lines sent but one), no channel is closed while main is in its
\* loop, at most -l link lists are taken, and from a url on the command line
\* each url is in one place and was requested once: lines 353-409 with the goroutines they feed.
THEOREM Invariance == Spec => []CrawlInv
  BY InitInv, StepInv, PTL DEF Spec

----------------------------------------------------------------------------
(* A crawl works through a Worklist. *)

\* The mapped state.
Todo == IF cmd.stdin \/ mpc = "first" THEN {cmd.first} ELSE OnTheirWay
Known == {cmd.first} \cup (IF cmd.stdin THEN {} ELSE urlfilter \cap Matching)
Over == ~cmd.stdin /\ ~Crawling
MayStop == cmd.limit > 0

\* When main counts nothing, nothing is anywhere.
LEMMA AllSettled ==
  ASSUME CrawlInv, ~cmd.stdin, Leave
  PROVE  OnTheirWay = {}
<1>1. mpc = "loop" /\ n = 0 /\ panic = "none" /\ TypeOK
  BY DEF Leave, NoneLeft, Running, CrawlInv
<1>2. InChannels + InLists + InHands = 0
  <2>1. Beyond = 0
    BY <1>1 DEF Beyond, One
  <2>2. n = InFlight + Beyond /\ InChannels \in Nat /\ InLists \in Nat /\ InHands \in Nat
    BY <1>1, Counts DEF CrawlInv, Outstanding
  <2> QED
    BY <1>1, <2>1, <2>2 DEF InFlight
<1>3. InChannels = 0 /\ InLists = 0 /\ InHands = 0
  BY <1>1, <1>2, Counts
<1>4. /\ Len(get0) = 0 /\ Len(get1) = 0 /\ Len(get2) = 0
      /\ Len(link0) = 0 /\ Len(link1) = 0 /\ Len(link2) = 0
  <2>1. /\ Len(get0) \in Nat /\ Len(get1) \in Nat /\ Len(get2) \in Nat
        /\ Len(link0) \in Nat /\ Len(link1) \in Nat /\ Len(link2) \in Nat
    BY <1>1, ChanLen DEF TypeOK, ChannelsTyped
  <2> QED
    BY <1>3, <2>1 DEF InChannels
<1>5. /\ Cardinality(Entries(in)) = 0 /\ IsFiniteSet(Entries(in))
      /\ Len(flist) = 0 /\ Len(mlist) = 0
  <2>1. /\ Cardinality(Entries(in)) \in Nat /\ IsFiniteSet(Entries(in))
        /\ Len(flist) \in Nat /\ Len(mlist) \in Nat
    BY <1>1, AtTyped, EntriesFinite, LenProperties
  <2> QED
    BY <1>3, <2>1 DEF InLists
<1>6. Members(in) = {}
  <2> SUFFICES ASSUME NEW x \in Members(in) PROVE FALSE
    OBVIOUS
  <2>1. PICK i \in 1..Len(in) : x \in ToSet(in[i])
    BY MemberOf
  <2>2. in \in Seq(Seq(Url))
    BY <1>1, AtTyped
  <2>3. in[i] \in Seq(Url)
    BY <2>2, ElementOfSeq
  <2>4. \E j \in 1..Len(in[i]) : x = in[i][j]
    BY <2>1, <2>3, LenProperties DEF ToSet
  <2>5. Entries(in) # {}
    BY <2>2, <2>4, EntriesFinite
  <2> QED
    BY <1>5, <2>5, FS_EmptySet
<1>7. \A c : c \in Seq(Url) /\ Len(c) = 0 => ToSet(c) = {}
  BY LenProperties DEF ToSet
<1>8. \A p \in Place : At[p] = {}
  <2>1. /\ ToSet(get0) = {} /\ ToSet(get1) = {} /\ ToSet(get2) = {}
        /\ ToSet(link0) = {} /\ ToSet(link1) = {} /\ ToSet(link2) = {}
    BY <1>1, <1>4, <1>7 DEF TypeOK, ChannelsTyped, Channel
  <2>2. ToSet(flist) = {} /\ ToSet(mlist) = {}
    BY <1>1, <1>5, <1>7, AtTyped
  <2>3. /\ ~(gpc \in {"fetch", "err", "send"}) /\ ppc # "send" /\ ~(lpc \in {"err", "send"})
    BY <1>3 DEF InHands, One
  <2> QED
    BY <1>6, <2>1, <2>2, <2>3 DEF At, Place
<1> QED
  BY <1>8, Places DEF OnTheirWay, Together

\* Each step settles a url, ends the crawl or leaves the worklist as it is.
LEMMA WorkStep ==
  ASSUME CrawlInv, CrawlInv', [Next]_vars
  PROVE  [Work!Next]_(Work!vars)
<1>0. /\ TypeOK /\ LimitKept /\ SeedsLeft /\ OnePlace /\ AskedOnce
      /\ mpc \in {"first", "mark", "loop"} => mlist = <<>>
      /\ cmd' = cmd /\ cmd.limit \in Int
  BY Frame, FirstTyped DEF CrawlInv
<1> USE DEF Work!Next, Work!vars, Work!Settle, Work!End
<1>1. ASSUME Todo' = Todo, Known' = Known, Over' = Over
      PROVE  [Work!Next]_(Work!vars)
  BY <1>0, <1>1 DEF Todo, Known, Over
<1>2. CASE cmd.stdin
  BY <1>0, <1>1, <1>2 DEF Todo, Known, Over
<1>3. CASE ~cmd.stdin /\ SendFirst
  <2>1. OnTheirWay' = {cmd.first} /\ mpc = "first" /\ mpc' = "mark" /\ urlfilter' = urlfilter
    BY <1>0, <1>3, FirstStep DEF SendFirst
  <2> QED
    BY <1>0, <1>1, <1>3, <2>1 DEF Todo, Known, Over, Crawling
<1>4. CASE ~cmd.stdin /\ MarkFirst
  <2>1. /\ mpc = "mark" /\ mpc' = "loop" /\ urlfilter' = urlfilter \cup {cmd.first} /\ At' = At
        /\ urlfilter = {}
    BY <1>0, <1>4 DEF MarkFirst, At, channels, getter, pipe, linker, source, OnePlace
  <2> QED
    BY <1>0, <1>1, <1>4, <2>1 DEF Todo, Known, Over, Crawling, OnTheirWay
<1>5. CASE ~cmd.stdin /\ Leave
  <2>1. OnTheirWay = {} /\ mpc = "loop" /\ mpc' = "close0" /\ UNCHANGED <<urlfilter, At>>
    BY <1>5, AllSettled DEF Leave, At, channels, getter, pipe, linker
  <2>2. Todo = {} /\ Todo' = {} /\ Known' = Known /\ ~Over /\ Over'
    BY <1>0, <1>5, <2>1 DEF Todo, Known, Over, Crawling, OnTheirWay
  <2> QED
    BY <1>0, <2>2 DEF Todo, Known, Over
<1>6. CASE ~cmd.stdin /\ RecvErr
  <2>1. PICK x \in OnTheirWay : OnTheirWay' = OnTheirWay \ {x}
    BY <1>0, <1>6, ErrStep
  <2>2. mpc = "loop" /\ mpc' = "loop" /\ urlfilter' = urlfilter
    BY <1>6 DEF RecvErr
  <2>3. /\ x \in Todo /\ Todo' = Todo \ {x} /\ Known' = Known /\ Known \subseteq Url
        /\ ~Over /\ Over' = FALSE
    BY <1>0, <1>6, <2>1, <2>2, FirstTyped DEF Todo, Known, Over, Crawling, TypeOK, MainTyped
  <2> QED
    BY <1>0, <2>3 DEF Todo, Known, Over
<1>7. CASE ~cmd.stdin /\ RecvLinks
  <2>1. PICK x \in OnTheirWay :
          OnTheirWay' = (OnTheirWay \ {x}) \cup ((urlfilter' \cap Matching) \ urlfilter)
    BY <1>0, <1>7, LinksStep
  <2>2. /\ mpc = "loop" /\ mpc' = (IF limit' = 0 THEN "close0" ELSE "hand")
        /\ urlfilter \subseteq urlfilter' /\ limit' = limit - 1
    BY <1>7 DEF RecvLinks, AtLimit
  <2>3. cmd.first \in urlfilter /\ urlfilter' \subseteq Url
    BY <1>7, <2>2 DEF CrawlInv, OnePlace, TypeOK, MainTyped
  <2>4. x \in Todo /\ Known \subseteq Known' /\ Known' \subseteq Url /\ Todo' = (Todo \ {x}) \cup (Known' \ Known)
    BY <1>0, <1>7, <2>1, <2>2, <2>3 DEF Todo, Known
  <2>5. limit' = 0 => cmd.limit > 0
    <3>1. limit \in Int
      BY <1>0 DEF TypeOK, MainTyped
    <3> QED
      BY <1>0, <2>2, <3>1 DEF LimitKept
  <2>6. ~Over /\ (Over' => cmd.limit > 0)
    BY <1>0, <1>7, <2>2, <2>5 DEF Over, Crawling
  <2> QED
    BY <1>0, <2>4, <2>6 DEF Todo, Known, Over
<1>8. CASE ~cmd.stdin /\ GetRecv
  <2>1. OnTheirWay' = OnTheirWay
    BY <1>0, <1>8, TakeStep
  <2>2. UNCHANGED <<mpc, urlfilter>>
    BY <1>8 DEF GetRecv, sched
  <2> QED
    BY <1>0, <1>1, <2>1, <2>2 DEF Todo, Known, Over, Crawling
<1>9. CASE /\ ~cmd.stdin /\ ~GetRecv /\ ~SendFirst /\ ~RecvErr /\ ~RecvLinks /\ ~MarkFirst /\ ~Leave
  <2>1. OnTheirWay' = OnTheirWay
    BY <1>0, <1>9, PlacesStep DEF OnePlace
  <2>2. urlfilter' = urlfilter /\ (mpc' = "first" <=> mpc = "first") /\ (Crawling' <=> Crawling)
    BY <1>9, Frame
  <2> QED
    BY <1>0, <1>1, <2>1, <2>2 DEF Todo, Known, Over
<1> QED
  BY <1>2, <1>3, <1>4, <1>5, <1>6, <1>7, <1>8, <1>9

\* A crawl from a url works through a Worklist: each matching url is settled
\* once, new ones come only with a settled page, and main leaves its loop only
\* when none is left or -l is reached (lines 368-409).
THEOREM WorksThrough == Spec => WorksThroughList
<1>1. Init => Work!Init
  <2> SUFFICES ASSUME Init PROVE Work!Init
    OBVIOUS
  <2>1. cmd.first \in Url /\ ~(~cmd.stdin /\ ~Crawling) /\ urlfilter = {} /\ (cmd.stdin \/ mpc = "first")
    BY InitTyped, FirstTyped DEF Init, Crawling
  <2> QED
    BY <2>1 DEF Work!Init
<1>2. CrawlInv /\ CrawlInv' /\ [Next]_vars => [Work!Next]_(Work!vars)
  BY WorkStep
<1> QED
  BY <1>1, <1>2, Invariance, PTL DEF Spec, WorksThroughList, Work!Spec

=============================================================================
