----------------------------- MODULE ToolsProofs -----------------------------
(* What is proved about seq, sort, cp, dd, rec, gif, page, pv, comm and uniq,   *)
(* each about its own specification and for every value of its constants.       *)
EXTENDS Seq, Sort, Copy, Dd, Rec, Gif, Page, Pv, Comm, Uniq,
        SequenceTheorems, FiniteSetTheorems, WellFoundedInduction, TLAPS

\* A set of numbers that is not empty has a least one.
LEMMA LeastNumber ==
  ASSUME NEW T \in SUBSET Nat, T # {}
  PROVE  \E m \in T : \A y \in T : m <= y
<1>1. \E m \in T : \A y \in T : ~ (<<y, m>> \in OpToRel(<, Nat))
  BY NatLessThanWellFounded, WFMin
<1>2. PICK m \in T : \A y \in T : ~ (<<y, m>> \in OpToRel(<, Nat))
  BY <1>1
<1>3. ASSUME NEW y \in T PROVE m <= y
  <2>1. <<y, m>> \in OpToRel(<, Nat) <=> y < m
    <3>1. <<y, m>> \in Nat \X Nat
      OBVIOUS
    <3> QED
      BY <3>1 DEF OpToRel
  <2>2. ~(y < m)
    BY <1>2, <2>1
  <2>3. y \in Nat /\ m \in Nat
    OBVIOUS
  <2> QED
    BY <2>2, <2>3
<1> QED
  BY <1>3

\* Induction, over a set of numbers.
LEMMA AllNat ==
  ASSUME NEW T \in SUBSET Nat, 0 \in T, \A i \in T : i + 1 \in T
  PROVE  T = Nat
<1> SUFFICES ASSUME T # Nat PROVE FALSE
  OBVIOUS
<1>1. Nat \ T \in SUBSET Nat /\ Nat \ T # {}
  OBVIOUS
<1>2. PICK m \in Nat \ T : \A y \in Nat \ T : m <= y
  BY <1>1, LeastNumber
<1>3. m # 0 /\ m \in Nat /\ m - 1 \in Nat
  BY <1>2
<1>4. m - 1 \in T
  BY <1>2, <1>3
<1>5. (m - 1) + 1 \in T
  BY <1>4
<1> QED
  BY <1>2, <1>3, <1>5

-----------------------------------------------------------------------------
(* seq *)

\* The n-th number of the list.
Nth(n) == Begin + (n - 1) * by
SeqTyped ==
    /\ args \in SeqArgs /\ here \in SeqInt /\ last \in SeqInt /\ by \in SeqInt
    /\ printed \in Seq(SeqInt) /\ Len(printed) <= MaxOut
    /\ seqphase \in {"args", "loop", "exit", "usage", "fatal"}
Unparsed == seqphase = "args" => printed = <<>>
Begun == seqphase \in {"loop", "exit"} =>
    /\ Begin \in SeqInt
    /\ seqphase = "exit" => here > last
    /\ by = 0 => here = Begin
\* While nothing overflows the numbers are those of the sequence.
Regular == seqphase \in {"loop", "exit"} /\ by > 0 /\ last + by <= MaxInt =>
    /\ \A n \in 1..Len(printed) : printed[n] = Nth(n) /\ Nth(n) <= last
    /\ here = Nth(Len(printed) + 1)
\* Every number follows from the one before.
Follows == seqphase \in {"loop", "exit"} =>
    /\ \A n \in 1..Len(printed) : n > 1 => printed[n] = Wrap(printed[n - 1] + by)
    /\ Len(printed) > 0 /\ Len(printed) < MaxOut => here = Wrap(printed[Len(printed)] + by)

SeqKept == SeqTyped /\ Unparsed /\ Begun /\ Regular /\ Follows

\* Numbers that wrap stay in range, and those in range do not change.
LEMMA WrapIs ==
  ASSUME NEW a \in SeqInt, NEW b \in SeqInt
  PROVE  Wrap(a + b) \in SeqInt /\ (a + b \in SeqInt => Wrap(a + b) = a + b)
BY SeqAssumption DEF SeqInt, Wrap

\* Multiples.
LEMMA Multiples ==
  \A a, b \in Int : a * b \in Int /\ (a + 1) * b = a * b + b /\ 0 * b = 0
                    /\ (b > 0 /\ a >= 0 => a * b >= a)
<1>1. \A a, b \in Int : a * b \in Int /\ (a + 1) * b = a * b + b /\ 0 * b = 0
  OBVIOUS
<1>2. ASSUME NEW a \in Int, NEW b \in Int, b > 0, a >= 0 PROVE a * b >= a
  <2>1. a * b = a * (b - 1) + a
    BY <1>2
  <2>2. a * (b - 1) >= 0
    BY <1>2
  <2> QED
    BY <2>1, <2>2
<1> QED
  BY <1>1, <1>2

\* The quotient is the number whose multiple is the last below.
LEMMA QuotientIs ==
  ASSUME NEW a \in Int, NEW q \in Int, NEW b \in Int, b > 0, q * b <= a, a < (q + 1) * b
  PROVE  a \div b = q
<1>1. a \div b \in Int /\ (a \div b) * b <= a /\ a < ((a \div b) + 1) * b
  OBVIOUS
<1> DEFINE d == a \div b
<1> HIDE DEF d
<1>2. d \in Int /\ d * b <= a /\ a < (d + 1) * b
  BY <1>1 DEF d
<1>3. ~(d < q)
  <2> SUFFICES ASSUME d < q PROVE FALSE
    OBVIOUS
  <2>1. q - (d + 1) >= 0 /\ q * b = (d + 1) * b + (q - (d + 1)) * b
    BY <1>2
  <2>2. (q - (d + 1)) * b >= 0
    BY <1>2, <2>1
  <2> QED
    BY <1>2, <2>1, <2>2
<1>4. ~(q < d)
  <2> SUFFICES ASSUME q < d PROVE FALSE
    OBVIOUS
  <2>1. d - (q + 1) >= 0 /\ d * b = (q + 1) * b + (d - (q + 1)) * b
    BY <1>2
  <2>2. (d - (q + 1)) * b >= 0
    BY <1>2, <2>1
  <2> QED
    BY <1>2, <2>1, <2>2
<1>5. d = q
  BY <1>2, <1>3, <1>4
<1> QED
  BY <1>5 DEF d

\* The list of arguments before the loop.
LEMMA SeqInitKept == ASSUME SeqInit PROVE SeqKept
<1> USE DEF SeqInit
<1>1. MaxInt \in Nat /\ 0 \in SeqInt /\ 1 \in SeqInt /\ MaxOut \in Nat
  BY SeqAssumption DEF SeqInt, MaxOut
<1>2. <<>> \in Seq(SeqInt) /\ Len(<<>>) = 0
  OBVIOUS
<1> QED
  BY <1>1, <1>2 DEF SeqKept, SeqTyped, Unparsed, Begun, Regular, Follows

\* The arguments are numbers when they are parsed, and the loop begins with the first.
LEMMA SeqParseKept == ASSUME SeqKept, SeqParse PROVE SeqKept'
<1> USE DEF SeqParse
<1>1. args \in Seq(SeqInt \cup {NoNumber}) /\ Len(args) \in Nat /\ 0 \in SeqInt /\ 1 \in SeqInt /\ MaxOut \in Nat
  BY SeqAssumption DEF SeqKept, SeqTyped, SeqInt, MaxOut
<1>2. \A n \in 1..Len(args) : n < 4 => args[n] \in SeqInt
  BY <1>1
<1>3. Begin \in SeqInt /\ last' \in SeqInt /\ by' \in SeqInt
  BY <1>1, <1>2 DEF Begin
<1>4. args' = args /\ printed' = <<>> /\ printed = <<>> /\ seqphase' = "loop" /\ here' = Begin /\ Begin' = Begin
  BY DEF SeqKept, Unparsed, Begin
<1>5. <<>> \in Seq(SeqInt) /\ Len(<<>>) = 0
  OBVIOUS
<1>6. SeqTyped' /\ Unparsed'
  BY <1>1, <1>3, <1>4, <1>5 DEF SeqKept, SeqTyped, Unparsed
<1>7. Begun' /\ Follows'
  BY <1>3, <1>4, <1>5 DEF Begun, Follows
<1>8. Nth(1)' = here'
  <2>1. by' \in Int /\ Begin \in Int
    BY <1>3, SeqAssumption DEF SeqInt
  <2>2. Begin + (1 - 1) * by' = Begin
    BY <2>1
  <2> QED
    BY <1>4, <2>2 DEF Nth
<1>9. Regular'
  <2>1. Len(printed') = 0 /\ Len(printed') + 1 = 1
    BY <1>4, <1>5
  <2> QED
    BY <1>8, <2>1 DEF Regular, Nth
<1> QED
  BY <1>6, <1>7, <1>9 DEF SeqKept

\* Another number is printed.
LEMMA PrintNumberKept == ASSUME SeqKept, PrintNumber PROVE SeqKept'
<1>1. /\ seqphase = "loop" /\ here <= last /\ here' = Wrap(here + by) /\ UNCHANGED <<args, last, by, seqphase>>
      /\ printed' = IF Len(printed) < MaxOut THEN Append(printed, here) ELSE printed
  BY DEF PrintNumber
<1>2. /\ here \in SeqInt /\ last \in SeqInt /\ by \in SeqInt /\ Begin \in SeqInt /\ SeqInt \subseteq Int
      /\ printed \in Seq(SeqInt) /\ Len(printed) \in Nat /\ Len(printed) <= MaxOut /\ MaxOut \in Nat
  BY <1>1, SeqAssumption DEF SeqKept, SeqTyped, Begun, SeqInt, MaxOut
<1>3. Wrap(here + by) \in SeqInt /\ (here + by \in SeqInt => Wrap(here + by) = here + by)
  BY <1>2, WrapIs
<1>4. Begin' = Begin
  BY <1>1 DEF Begin
<1>5. CASE Len(printed) < MaxOut
  <2>1. /\ printed' \in Seq(SeqInt) /\ Len(printed') = Len(printed) + 1
        /\ printed'[Len(printed) + 1] = here /\ \A n \in 1..Len(printed) : printed'[n] = printed[n]
    BY <1>1, <1>2, <1>5
  <2>2. SeqTyped' /\ Unparsed'
    BY <1>1, <1>2, <1>3, <1>5, <2>1 DEF SeqKept, SeqTyped, Unparsed, MaxOut
  <2>3. Begun'
    <3>1. by = 0 => here' = Begin
      <4> SUFFICES ASSUME by = 0 PROVE here' = Begin
        OBVIOUS
      <4>1. here = Begin
        BY <1>1 DEF SeqKept, Begun
      <4>2. here + by = Begin
        BY <1>2, <4>1
      <4> QED
        BY <1>1, <1>2, <1>3, <4>2
    <3> QED
      BY <1>1, <1>2, <1>4, <3>1 DEF Begun
  <2>4. Regular'
    <3> SUFFICES ASSUME by > 0, last + by <= MaxInt
                 PROVE  /\ \A n \in 1..(Len(printed) + 1) : printed'[n] = Nth(n) /\ Nth(n) <= last
                        /\ here' = Nth((Len(printed) + 1) + 1)
      BY <1>1, <1>4, <2>1 DEF Regular, Nth
    <3>1. /\ \A n \in 1..Len(printed) : printed[n] = Nth(n) /\ Nth(n) <= last
          /\ here = Nth(Len(printed) + 1)
      BY <1>1 DEF SeqKept, Regular
    <3>2. here + by \in SeqInt
      BY <1>1, <1>2, SeqAssumption DEF SeqInt
    <3>3. here' = here + by
      BY <1>1, <1>3, <3>2
    <3>4. Nth((Len(printed) + 1) + 1) = Nth(Len(printed) + 1) + by
      <4> DEFINE m == Len(printed)
      <4>1. m \in Nat /\ by \in Int /\ Begin \in Int
        BY <1>2
      <4> HIDE DEF m
      <4>2. ((m + 1) + 1) - 1 = m + 1 /\ (m + 1) - 1 = m /\ (m + 1) * by = m * by + by /\ m * by \in Int
        BY <4>1, Multiples
      <4>3. Nth((m + 1) + 1) = Begin + (m + 1) * by /\ Nth(m + 1) = Begin + m * by
        BY <4>2 DEF Nth
      <4> QED
        BY <4>1, <4>2, <4>3 DEF m
    <3>5. \A n \in 1..(Len(printed) + 1) : n \in 1..Len(printed) \/ n = Len(printed) + 1
      BY <1>2
    <3> QED
      BY <1>1, <2>1, <3>1, <3>3, <3>4, <3>5
  <2>5. Follows'
    <3> DEFINE m == Len(printed)
    <3>1. \A n \in 1..m : n > 1 => printed[n] = Wrap(printed[n - 1] + by)
      BY <1>1 DEF SeqKept, Follows
    <3>2. m > 0 => here = Wrap(printed[m] + by)
      BY <1>1, <1>5 DEF SeqKept, Follows
    <3>3. m \in Nat /\ \A n \in 1..m : n > 1 => n - 1 \in 1..m
      BY <1>2
    <3> HIDE DEF m
    <3>4. ASSUME NEW n \in 1..(m + 1), n > 1 PROVE printed'[n] = Wrap(printed'[n - 1] + by)
      <4>1. CASE n \in 1..m
        <5>1. printed'[n] = printed[n] /\ printed'[n - 1] = printed[n - 1]
          BY <2>1, <3>3, <3>4, <4>1 DEF m
        <5> QED
          BY <3>1, <3>4, <4>1, <5>1
      <4>2. CASE n = m + 1
        <5>1. m > 0 /\ n - 1 = m /\ m \in 1..m
          BY <3>3, <3>4, <4>2
        <5> QED
          BY <2>1, <3>2, <4>2, <5>1 DEF m
      <4> QED
        BY <3>3, <4>1, <4>2
    <3>5. Len(printed') = m + 1 /\ printed'[m + 1] = here
      BY <2>1 DEF m
    <3> QED
      BY <1>1, <3>4, <3>5 DEF Follows, Wrap
  <2> QED
    BY <2>2, <2>3, <2>4, <2>5 DEF SeqKept
<1>6. CASE Len(printed) = MaxOut
  <2>1. printed' = printed
    BY <1>1, <1>2, <1>6
  <2>2. SeqTyped' /\ Unparsed'
    BY <1>1, <1>2, <1>3, <2>1 DEF SeqKept, SeqTyped, Unparsed, MaxOut
  <2>3. Begun'
    <3>1. by = 0 => here' = Begin
      <4> SUFFICES ASSUME by = 0 PROVE here' = Begin
        OBVIOUS
      <4>1. here = Begin
        BY <1>1 DEF SeqKept, Begun
      <4>2. here + by = Begin
        BY <1>2, <4>1
      <4> QED
        BY <1>1, <1>2, <1>3, <4>2
    <3> QED
      BY <1>1, <1>2, <1>4, <3>1 DEF Begun
  <2>4. Regular'
    \* So many numbers do not fit.
    <3> SUFFICES ASSUME by > 0, last + by <= MaxInt PROVE FALSE
      BY <1>1 DEF Regular
    <3>1. Nth(MaxOut) <= last
      <4>1. MaxOut \in 1..Len(printed)
        BY <1>6, SeqAssumption DEF MaxOut
      <4> QED
        BY <1>1, <4>1 DEF SeqKept, Regular
    <3>2. (MaxOut - 1) * by >= MaxOut - 1 /\ (MaxOut - 1) * by \in Int
      <4>1. MaxOut - 1 \in Int /\ MaxOut - 1 >= 0 /\ by \in Int
        BY <1>2, SeqAssumption DEF MaxOut
      <4> QED
        BY <4>1, Multiples
    <3>3. Nth(MaxOut) >= Begin + (MaxOut - 1)
      BY <1>2, <3>2 DEF Nth
    <3>4. Begin >= -MaxInt - 1 /\ last <= MaxInt /\ MaxOut = 2 * MaxInt + 3 /\ MaxInt \in Nat
      BY <1>2, SeqAssumption DEF SeqInt, MaxOut
    <3> QED
      <4>1. Begin + (MaxOut - 1) <= last
        <5>1. Nth(MaxOut) \in Int
          BY <1>2, <3>2 DEF Nth
        <5> QED
          BY <1>2, <3>1, <3>3, <5>1
      <4> QED
        BY <1>2, <3>4, <4>1
  <2>5. Follows'
    BY <1>1, <1>2, <1>6, <2>1 DEF SeqKept, Follows, Wrap, MaxOut
  <2> QED
    BY <2>2, <2>3, <2>4, <2>5 DEF SeqKept
<1> QED
  BY <1>2, <1>5, <1>6

\* The loop is over, or never begins.
LEMMA SeqStopKept == ASSUME SeqKept, Refuse \/ SeqExit PROVE SeqKept'
<1>1. UNCHANGED <<args, here, last, by, printed>> /\ Begin' = Begin
  BY DEF Refuse, SeqExit, Begin
<1>2. CASE Refuse
  <2>1. seqphase' \in {"usage", "fatal"}
    BY <1>2 DEF Refuse
  <2> QED
    BY <1>1, <2>1 DEF SeqKept, SeqTyped, Unparsed, Begun, Regular, Follows, MaxOut
<1>3. CASE SeqExit
  <2>1. seqphase = "loop" /\ seqphase' = "exit" /\ here > last
    BY <1>3 DEF SeqExit
  <2> QED
    BY <1>1, <2>1 DEF SeqKept, SeqTyped, Unparsed, Begun, Regular, Follows, Nth, Wrap, MaxOut
<1> QED
  BY <1>2, <1>3

\* The types of seq, and the number it is at.
THEOREM SeqInvariance == SeqSpec => []SeqKept
<1>1. ASSUME SeqKept, SeqNext PROVE SeqKept'
  BY <1>1, SeqParseKept, PrintNumberKept, SeqStopKept DEF SeqNext
<1>2. ASSUME SeqKept, UNCHANGED seqVars PROVE SeqKept'
  <2>1. Begin' = Begin
    BY <1>2 DEF seqVars, Begin
  <2> QED
    BY <1>2, <2>1 DEF seqVars, SeqKept, SeqTyped, Unparsed, Begun, Regular, Follows, Nth, Wrap, MaxOut
<1> QED
  BY <1>1, <1>2, SeqInitKept, PTL DEF SeqSpec

\* What seq has printed when it ends, with an int of any width that wraps round (seq.go:53-57).
THEOREM NumbersRight == SeqSpec => []SeqRight
<1>1. ASSUME SeqKept, seqphase = "exit" PROVE SeqRight
  <2> DEFINE m == Len(printed)
  <2>1. /\ here \in SeqInt /\ last \in SeqInt /\ by \in SeqInt /\ Begin \in SeqInt /\ SeqInt \subseteq Int
        /\ printed \in Seq(SeqInt) /\ m \in Nat /\ here > last
    BY <1>1, SeqAssumption DEF SeqKept, SeqTyped, Begun, SeqInt
  <2>2. by = 0 => Begin > last
    BY <1>1, <2>1 DEF SeqKept, Begun
  <2>3. by > 0 => \A n \in DOMAIN printed : n > 1 => printed[n] = Wrap(printed[n - 1] + by)
    <3>1. DOMAIN printed = 1..Len(printed)
      BY <2>1
    <3> QED
      BY <1>1, <3>1 DEF SeqKept, Follows
  <2>4. ASSUME by > 0, last + by <= MaxInt
        PROVE  printed = [n \in 1..(IF Begin > last THEN 0 ELSE (last - Begin) \div by + 1) |-> Begin + (n - 1) * by]
    <3>1. (\A n \in 1..m : printed[n] = Nth(n) /\ Nth(n) <= last) /\ here = Nth(m + 1)
      BY <1>1, <2>4 DEF SeqKept, Regular
    <3> HIDE DEF m
    <3>2. Nth(m + 1) = Begin + m * by /\ m * by \in Int
      <4>1. (m + 1) - 1 = m /\ m * by \in Int
        BY <2>1, Multiples
      <4> QED
        BY <4>1 DEF Nth
    <3>3. m = IF Begin > last THEN 0 ELSE (last - Begin) \div by + 1
      <4>1. CASE Begin > last
        <5> SUFFICES ASSUME m >= 1 PROVE FALSE
          BY <2>1, <4>1
        <5>1. Nth(1) <= last
          BY <2>1, <3>1
        <5>2. Nth(1) = Begin
          <6>1. Begin + (1 - 1) * by = Begin
            BY <2>1
          <6> QED
            BY <6>1 DEF Nth
        <5> QED
          BY <2>1, <4>1, <5>1, <5>2
      <4>2. CASE ~(Begin > last)
        <5>1. m >= 1
          <6> SUFFICES ASSUME m = 0 PROVE FALSE
            BY <2>1
          <6>1. m * by = 0
            BY <2>1
          <6> QED
            BY <2>1, <3>1, <3>2, <4>2, <6>1
        <5>2. Nth(m) <= last /\ Nth(m) = Begin + (m - 1) * by
          <6>1. m \in 1..m
            BY <2>1, <5>1
          <6> QED
            BY <3>1, <6>1 DEF Nth
        <5>3. m - 1 \in Int /\ (m - 1) * by \in Int /\ (m - 1) + 1 = m /\ last - Begin \in Int
          BY <2>1, Multiples
        <5>4. (m - 1) * by <= last - Begin
          BY <2>1, <5>2, <5>3
        <5>5. last - Begin < ((m - 1) + 1) * by
          BY <2>1, <3>1, <3>2, <5>3
        <5>6. (last - Begin) \div by = m - 1
          BY <2>1, <2>4, <5>3, <5>4, <5>5, QuotientIs
        <5> QED
          BY <2>1, <4>2, <5>6
      <4> QED
        BY <4>1, <4>2
    <3>4. printed = [n \in 1..m |-> Nth(n)]
      BY <2>1, <3>1 DEF m
    <3> QED
      BY <3>3, <3>4 DEF Nth
  <2> QED
    BY <2>2, <2>3, <2>4 DEF SeqRight
<1>2. ASSUME SeqKept PROVE SeqRight
  BY <1>1, <1>2 DEF SeqRight
<1> QED
  BY <1>2, SeqInvariance, PTL

-----------------------------------------------------------------------------
(* sort *)

\* a may come before b.
InPlace(a, b) == ~Less(b, a) /\ (Level(a, b) => a.id < b.id)

\* The types: the selections are those that came in, and from upto on they are untouched.
SortTyped ==
    /\ came \in SortInputs /\ dots \in Seq(Selection) /\ Len(dots) = Len(came)
    /\ upto \in Nat /\ upto >= 2 /\ down \in 1..upto
    /\ upto > Len(dots) => down = upto
SameSet == ToSet(dots) = ToSet(came)
NotYet == \A l \in DOMAIN dots : l > upto => dots[l] = came[l]
\* The one that is being inserted came after those before upto.
Inserting == upto <= Len(dots) =>
    /\ dots[down] = came[upto]
    /\ \A k \in 1..upto : k # down => dots[k].id < came[upto].id
\* All the others up to there are in order.
Ordered == \A k, l \in DOMAIN dots : k < l /\ l <= upto /\ l # down => InPlace(dots[k], dots[l])

SortKept == SortTyped /\ SameSet /\ NotYet /\ Inserting /\ Ordered

\* Neither order of texts contradicts itself, and what is between two texts is told from one of them.
LEMMA BytesOrder ==
  /\ \A a, b \in SortText : ~(BytesCompare(a, b) = -1 /\ BytesCompare(b, a) = -1)
  /\ \A a, b, c \in SortText : BytesCompare(a, c) = -1 => BytesCompare(a, b) = -1 \/ BytesCompare(b, c) = -1
<1>1. \A a, b \in SortText : BytesCompare(a, b) = -1 <=> Rank[a] < Rank[b]
  <2>1. ASSUME NEW a \in SortText, NEW b \in SortText PROVE BytesCompare(a, b) = -1 <=> Rank[a] < Rank[b]
    <3>1. Rank[a] \in Int /\ Rank[b] \in Int
      BY SortAssumption
    <3> QED
      BY <3>1 DEF BytesCompare
  <2> QED
    BY <2>1
<1>2. \A a \in SortText : Rank[a] \in Int
  BY SortAssumption
<1> QED
  BY <1>1, <1>2

\* Numbers come before words and words before blanks.
LEMMA NcmpIs ==
  ASSUME NEW a \in SortText, NEW b \in SortText
  PROVE  Ncmp(a, b) = -1 <=>
           /\ Fields[a] > 0
           /\ \/ Fields[b] = 0
              \/ /\ Number[a] # NaN
                 /\ Number[b] = NaN \/ Number[a] < Number[b]
<1>1. Fields[a] \in Nat /\ Fields[b] \in Nat
  BY SortAssumption
<1>2. CASE Fields[a] = 0
  BY <1>2 DEF Ncmp
<1>3. CASE Fields[a] > 0 /\ Fields[b] = 0
  BY <1>3 DEF Ncmp
<1>4. CASE Fields[a] > 0 /\ Fields[b] > 0 /\ Number[a] = NaN
  BY <1>4 DEF Ncmp
<1>5. CASE Fields[a] > 0 /\ Fields[b] > 0 /\ Number[a] # NaN /\ Number[b] = NaN
  BY <1>5 DEF Ncmp
<1>6. CASE Fields[a] > 0 /\ Fields[b] > 0 /\ Number[a] # NaN /\ Number[b] # NaN
  <2>1. Number[a] \in Int /\ Number[b] \in Int
    BY <1>6, SortAssumption
  <2>2. CASE Number[a] < Number[b]
    BY <1>6, <2>1, <2>2 DEF Ncmp
  <2>3. CASE ~(Number[a] < Number[b])
    <3>1. Ncmp(a, b) # -1
      BY <1>6, <2>1, <2>3 DEF Ncmp
    <3> QED
      BY <1>6, <2>1, <2>3, <3>1
  <2> QED
    BY <2>2, <2>3
<1> QED
  BY <1>1, <1>2, <1>3, <1>4, <1>5, <1>6

\* -n too is an order.
LEMMA NumberOrder ==
  /\ \A a, b \in SortText : ~(Ncmp(a, b) = -1 /\ Ncmp(b, a) = -1)
  /\ \A a, b, c \in SortText : Ncmp(a, c) = -1 => Ncmp(a, b) = -1 \/ Ncmp(b, c) = -1
<1>1. \A a \in SortText : Fields[a] \in Nat /\ (Number[a] # NaN => Number[a] \in Int)
  BY SortAssumption
<1>2. ASSUME NEW a \in SortText, NEW b \in SortText PROVE ~(Ncmp(a, b) = -1 /\ Ncmp(b, a) = -1)
  BY <1>1, NcmpIs
<1>3. ASSUME NEW a \in SortText, NEW b \in SortText, NEW c \in SortText, Ncmp(a, c) = -1
      PROVE  Ncmp(a, b) = -1 \/ Ncmp(b, c) = -1
  BY <1>1, <1>3, NcmpIs
<1> QED
  BY <1>2, <1>3

\* The order the flags ask for, with and without case, keys and numbers, reversed or not.
LEMMA CmpfnOrder ==
  /\ \A a, b \in SortText : ~(Cmpfn(a, b) = -1 /\ Cmpfn(b, a) = -1)
  /\ \A a, b, c \in SortText : Cmpfn(a, c) = -1 => Cmpfn(a, b) = -1 \/ Cmpfn(b, c) = -1
BY BytesOrder, NumberOrder DEF Cmpfn

\* A text stays a text without its case.
LEMMA CasedText == ASSUME NEW a \in SortText PROVE Cased(a) \in SortText
BY SortAssumption DEF Cased

\* A selection comes before another one or after it, never both; and what comes between.
LEMMA LessDefaultOrder ==
  /\ \A a, b \in Selection : ~(LessDefault(a, b) /\ LessDefault(b, a))
  /\ \A a, b, c \in Selection : LessDefault(a, c) => LessDefault(a, b) \/ LessDefault(b, c)
<1>1. \A a \in Selection : Cased(a.text) \in SortText
  BY CasedText DEF Selection
<1> QED
  BY <1>1, CmpfnOrder DEF LessDefault

\* The same with keys, where those that have none are the last.
LEMMA LessOOrder ==
  /\ \A a, b \in Selection : ~(LessO(a, b) /\ LessO(b, a))
  /\ \A a, b, c \in Selection : LessO(a, c) => LessO(a, b) \/ LessO(b, c)
<1>1. \A a \in Selection : a.key # NoMatch => Cased(a.key) \in SortText
  BY CasedText DEF Selection
<1> QED
  BY <1>1, CmpfnOrder DEF LessO

\* What comes before what, also reversed.
LEMMA LessOrder ==
  /\ \A a, b \in Selection : ~(Less(a, b) /\ Less(b, a))
  /\ \A a, b, c \in Selection : Less(a, c) => Less(a, b) \/ Less(b, c)
<1>1. /\ \A a, b \in Selection : ~(KeysLess(a, b) /\ KeysLess(b, a))
      /\ \A a, b, c \in Selection : KeysLess(a, c) => KeysLess(a, b) \/ KeysLess(b, c)
  BY LessDefaultOrder, LessOOrder DEF KeysLess
<1> QED
  BY <1>1 DEF Less

\* The order does not change while the flags do not.
LEMMA LessSame == ASSUME flags' = flags PROVE \A a, b \in Selection : Less(a, b)' <=> Less(a, b)
BY DEF Less, KeysLess, LessO, LessDefault, Cmpfn, Cased

\* Nor does the place of a selection.
LEMMA InPlaceSame == ASSUME flags' = flags PROVE \A a, b \in Selection : InPlace(a, b)' <=> InPlace(a, b)
<1>1. \A a, b \in Selection : Less(a, b)' <=> Less(a, b)
  BY LessSame
<1> QED
  BY <1>1 DEF InPlace, Level

\* What the selections are.
LEMMA CameIs ==
  ASSUME came \in SortInputs
  PROVE  came \in Seq(Selection) /\ \A k, l \in DOMAIN came : k < l => came[k].id < came[l].id
BY SortAssumption

\* The ids are numbers.
LEMMA IdIs == \A a \in Selection : a.id \in Nat
BY DEF Selection

\* The selections as they came.
LEMMA SortInitKept == ASSUME SortInit PROVE SortKept
<1> USE DEF SortInit
<1>1. came \in Seq(Selection) /\ \A k, l \in DOMAIN came : k < l => came[k].id < came[l].id
  BY CameIs
<1>2. SortTyped /\ SameSet /\ NotYet
  BY <1>1 DEF SortTyped, SameSet, NotYet
<1>3. Inserting
  BY <1>1 DEF Inserting
<1>4. Ordered
  BY <1>1 DEF Ordered
<1> QED
  BY <1>2, <1>3, <1>4 DEF SortKept

\* The selection in hand goes one place down: all others are in order.
LEMMA SwapKept == ASSUME SortKept, Swap PROVE SortKept'
<1> USE DEF Swap
<1> DEFINE x == dots[down]
<1> DEFINE y == dots[down - 1]
<1>1. /\ came \in Seq(Selection) /\ dots \in Seq(Selection) /\ Len(dots) = Len(came) /\ upto \in Nat
      /\ down \in 1..upto /\ down - 1 \in DOMAIN dots /\ down \in DOMAIN dots /\ down - 1 \in Nat /\ DOMAIN dots = 1..Len(dots)
  BY CameIs DEF SortKept, SortTyped
<1>2. /\ x \in Selection /\ y \in Selection /\ Less(x, y) /\ dots' = [dots EXCEPT ![down] = y, ![down - 1] = x]
      /\ \A k \in DOMAIN dots : dots[k] \in Selection
  BY <1>1
<1>3. /\ dots'[down] = y /\ dots'[down - 1] = x /\ DOMAIN dots' = DOMAIN dots
      /\ \A k \in DOMAIN dots : k # down /\ k # down - 1 => dots'[k] = dots[k]
  BY <1>1, <1>2
<1>4. dots' \in Seq(Selection) /\ Len(dots') = Len(dots)
  BY <1>1, <1>2
<1> HIDE DEF x, y
<1>5. SortTyped'
  BY <1>1, <1>4 DEF SortKept, SortTyped
<1>6. SameSet'
  <2>1. ToSet(dots') = ToSet(dots)
    <3>1. ASSUME NEW k \in DOMAIN dots PROVE \E l \in DOMAIN dots : dots'[l] = dots[k]
      <4>1. k = down => dots'[down - 1] = dots[k]
        BY <1>3 DEF x
      <4>2. k = down - 1 => dots'[down] = dots[k]
        BY <1>3 DEF y
      <4> QED
        BY <1>1, <1>3, <4>1, <4>2
    <3>2. ASSUME NEW k \in DOMAIN dots PROVE \E l \in DOMAIN dots : dots[l] = dots'[k]
      <4>1. k = down => dots[down - 1] = dots'[k]
        BY <1>3 DEF y
      <4>2. k = down - 1 => dots[down] = dots'[k]
        BY <1>3 DEF x
      <4> QED
        BY <1>1, <1>3, <4>1, <4>2
    <3> QED
      <4>1. ToSet(dots) = {dots[k] : k \in DOMAIN dots}
        BY DEF ToSet
      <4>2. ToSet(dots') = {dots'[k] : k \in DOMAIN dots}
        BY <1>3 DEF ToSet
      <4>3. ASSUME NEW e, e \in ToSet(dots) PROVE e \in ToSet(dots')
        <5>1. PICK k \in DOMAIN dots : e = dots[k]
          BY <4>1, <4>3
        <5>2. PICK l \in DOMAIN dots : dots'[l] = dots[k]
          BY <3>1
        <5> QED
          BY <4>2, <5>1, <5>2
      <4>4. ASSUME NEW e, e \in ToSet(dots') PROVE e \in ToSet(dots)
        <5>1. PICK k \in DOMAIN dots : e = dots'[k]
          BY <4>2, <4>4
        <5>2. PICK l \in DOMAIN dots : dots[l] = dots'[k]
          BY <3>2
        <5> QED
          BY <4>1, <5>1, <5>2
      <4> QED
        BY <4>3, <4>4
  <2> QED
    BY <2>1 DEF SortKept, SameSet
<1>7. NotYet'
  <2>1. \A l \in DOMAIN dots : l > upto => l # down /\ l # down - 1
    BY <1>1
  <2> QED
    BY <1>3, <2>1 DEF SortKept, NotYet
<1>8. Inserting'
  <2>1. x = came[upto] /\ \A k \in 1..upto : k # down => dots[k].id < came[upto].id
    BY DEF SortKept, Inserting, x
  <2>2. ASSUME NEW k \in 1..upto, k # down - 1 PROVE dots'[k].id < came[upto].id
    <3>1. CASE k = down
      BY <3>1, <1>1, <1>3, <2>1 DEF y
    <3>2. CASE k # down
      BY <3>2, <2>2, <1>1, <1>3, <2>1
    <3> QED
      BY <3>1, <3>2
  <2> QED
    BY <1>1, <1>3, <2>1, <2>2 DEF Inserting
<1>9. Ordered'
  <2>1. ASSUME NEW k \in DOMAIN dots, NEW l \in DOMAIN dots, k < l, l <= upto, l # down - 1
        PROVE  InPlace(dots'[k], dots'[l])
    <3>1. \A m, n \in DOMAIN dots : m < n /\ n <= upto /\ n # down => InPlace(dots[m], dots[n])
      BY DEF SortKept, Ordered
    <3>2. down - 1 # down /\ down - 1 <= upto
      BY <1>1
    <3>3. CASE l = down /\ k = down - 1
      BY <3>3, <1>2, <1>3, LessOrder DEF InPlace, Level
    <3>4. CASE l = down /\ k # down - 1
      <4>1. InPlace(dots[k], y)
        BY <1>1, <2>1, <3>1, <3>2, <3>4 DEF y
      <4> QED
        BY <4>1, <1>1, <1>3, <2>1, <3>4
    <3>5. CASE l # down /\ k = down
      <4>1. InPlace(y, dots[l])
        BY <1>1, <2>1, <3>1, <3>2, <3>5 DEF y
      <4> QED
        BY <4>1, <1>1, <1>3, <2>1, <3>5
    <3>6. CASE l # down /\ k = down - 1
      <4>1. down < l
        BY <1>1, <2>1, <3>6
      <4>2. InPlace(x, dots[l])
        BY <4>1, <1>1, <2>1, <3>1, <3>6 DEF x
      <4> QED
        BY <4>2, <1>1, <1>3, <2>1, <3>6
    <3>7. CASE l # down /\ k # down /\ k # down - 1
      BY <3>7, <2>1, <3>1, <1>3
    <3> QED
      BY <3>3, <3>4, <3>5, <3>6, <3>7
  <2>2. \A k \in DOMAIN dots : dots'[k] \in Selection
    BY <1>3, <1>4
  <2>3. \A a, b \in Selection : InPlace(a, b)' <=> InPlace(a, b)
    BY InPlaceSame
  <2>4. ASSUME NEW k \in DOMAIN dots', NEW l \in DOMAIN dots', k < l, l <= upto', l # down'
        PROVE  InPlace(dots[k], dots[l])'
    <3>1. InPlace(dots'[k], dots'[l])
      BY <2>1, <2>4, <1>3
    <3>2. flags' = flags
      OBVIOUS
    <3> QED
      BY <3>1, <3>2 DEF InPlace, Level, Less, KeysLess, LessO, LessDefault, Cmpfn, Cased
  <2> QED
    BY <2>4 DEF Ordered
<1> QED
  BY <1>5, <1>6, <1>7, <1>8, <1>9 DEF SortKept

\* The selection in hand has found its place, and the next one is taken.
LEMMA NextDotKept == ASSUME SortKept, NextDot PROVE SortKept'
<1> USE DEF NextDot
<1>1. /\ came \in Seq(Selection) /\ dots \in Seq(Selection) /\ Len(dots) = Len(came) /\ upto \in Nat /\ upto >= 2
      /\ down \in 1..upto /\ DOMAIN dots = 1..Len(dots) /\ DOMAIN came = 1..Len(dots) /\ Len(dots) \in Nat
      /\ \A k, l \in DOMAIN came : k < l => came[k].id < came[l].id
  BY CameIs DEF SortKept, SortTyped
<1>2. /\ \A k \in DOMAIN dots : dots[k] \in Selection /\ dots[k].id \in Nat
      /\ \A k \in DOMAIN came : came[k].id \in Nat
  BY <1>1, IdIs
<1>3. /\ upto <= Len(dots) /\ upto' = upto + 1 /\ down' = upto + 1
      /\ down > 1 => ~Less(dots[down], dots[down - 1])
  OBVIOUS
<1>4. SortTyped' /\ SameSet' /\ NotYet'
  BY <1>1, <1>3 DEF SortKept, SortTyped, SameSet, NotYet
<1>5. dots[down] = came[upto] /\ \A k \in 1..upto : k # down => dots[k].id < came[upto].id
  BY <1>3 DEF SortKept, Inserting
<1>6. Inserting'
  <2>1. ASSUME upto + 1 <= Len(dots), NEW k \in 1..upto PROVE dots[k].id < came[upto + 1].id
    <3>1. came[upto].id < came[upto + 1].id
      BY <1>1, <1>3, <2>1
    <3>2. dots[k].id <= came[upto].id
      BY <1>1, <1>2, <1>3, <1>5
    <3>3. dots[k].id \in Nat /\ came[upto].id \in Nat /\ came[upto + 1].id \in Nat
      BY <1>1, <1>2, <1>3, <2>1
    <3> QED
      BY <3>1, <3>2, <3>3
  <2>2. ASSUME upto + 1 <= Len(dots) PROVE dots[upto + 1] = came[upto + 1]
    BY <2>2, <1>1 DEF SortKept, NotYet
  <2> QED
    BY <2>1, <2>2, <1>1, <1>3 DEF Inserting
<1>7. Ordered'
  <2>1. \A m, n \in DOMAIN dots : m < n /\ n <= upto /\ n # down => InPlace(dots[m], dots[n])
    BY DEF SortKept, Ordered
  <2>2. ASSUME NEW k \in DOMAIN dots, k < down PROVE InPlace(dots[k], dots[down])
    <3>1. /\ down - 1 \in DOMAIN dots /\ down \in DOMAIN dots /\ down > 1 /\ down - 1 # down /\ down - 1 <= upto
          /\ k <= down - 1 /\ k \in 1..upto /\ k # down
      BY <1>1, <1>3, <2>2
    <3>2. ~Less(dots[down], dots[k])
      <4>1. CASE k = down - 1
        BY <4>1, <3>1, <1>3
      <4>2. CASE k # down - 1
        <5>1. InPlace(dots[k], dots[down - 1])
          BY <3>1, <2>1, <2>2, <4>2, <1>1
        <5> QED
          BY <5>1, <3>1, <1>2, <1>3, <2>2, LessOrder DEF InPlace
      <4> QED
        BY <4>1, <4>2
    <3>3. dots[k].id < dots[down].id
      BY <3>1, <1>5
    <3> QED
      BY <3>2, <3>3 DEF InPlace
  <2>3. ASSUME NEW k \in DOMAIN dots, NEW l \in DOMAIN dots, k < l, l <= upto + 1, l # upto + 1
        PROVE  InPlace(dots[k], dots[l])
    <3>1. l <= upto
      BY <2>3, <1>1
    <3> QED
      BY <3>1, <2>1, <2>2, <2>3
  <2>4. \A a, b \in Selection : InPlace(a, b)' <=> InPlace(a, b)
    BY InPlaceSame
  <2>5. ASSUME NEW k \in DOMAIN dots', NEW l \in DOMAIN dots', k < l, l <= upto', l # down'
        PROVE  InPlace(dots[k], dots[l])'
    <3>1. InPlace(dots[k], dots[l])
      BY <2>3, <2>5, <1>3
    <3>2. Less(dots[l], dots[k])' <=> Less(dots[l], dots[k])
      BY <1>2, LessSame
    <3>3. Less(dots[k], dots[l])' <=> Less(dots[k], dots[l])
      BY <1>2, LessSame
    <3> QED
      BY <3>1, <3>2, <3>3 DEF InPlace, Level
  <2> QED
    BY <2>5 DEF Ordered
<1> QED
  BY <1>4, <1>6, <1>7 DEF SortKept

\* A step that changes nothing.
LEMMA SortStutter == ASSUME SortKept, UNCHANGED sortVars PROVE SortKept'
<1> USE DEF sortVars
<1>1. SortTyped' /\ SameSet' /\ NotYet' /\ Inserting'
  BY DEF SortKept, SortTyped, SameSet, NotYet, Inserting
<1>2. \A k \in DOMAIN dots : dots[k] \in Selection
  BY DEF SortKept, SortTyped
<1>3. Ordered'
  BY <1>2, LessSame DEF SortKept, Ordered, InPlace, Level
<1> QED
  BY <1>1, <1>3 DEF SortKept

\* The selections stay the same, and those before the one in hand are in order.
THEOREM SortInvariance == SortSpec => []SortKept
<1>1. ASSUME SortKept, [SortNext]_sortVars PROVE SortKept'
  BY <1>1, SwapKept, NextDotKept, SortStutter DEF SortNext
<1> QED
  BY <1>1, SortInitKept, PTL DEF SortSpec

\* An insertion sort that keeps SortKept sorts.
LEMMA KeptSorts == ASSUME SortKept PROVE SortRight
<1>1. OrderSound
  <2>1. \A a \in ToSet(came) : a \in Selection
    BY CameIs DEF SortKept, SortTyped, ToSet
  <2>2. ASSUME NEW a \in Selection, NEW b \in Selection PROVE ~(Less(a, b) /\ Less(b, a))
    BY LessOrder
  <2>3. ASSUME NEW a \in Selection, NEW b \in Selection, NEW c \in Selection
        PROVE  (Less(a, b) /\ Less(b, c) => Less(a, c)) /\ (Level(a, b) /\ Level(b, c) => Level(a, c))
    <3>1. /\ Less(a, b) => Less(a, c) \/ Less(c, b)
          /\ Less(a, c) => Less(a, b) \/ Less(b, c)
          /\ Less(c, a) => Less(c, b) \/ Less(b, a)
          /\ ~(Less(b, c) /\ Less(c, b))
      BY LessOrder
    <3> QED
      BY <3>1 DEF Level
  <2> QED
    BY <2>1, <2>2, <2>3 DEF OrderSound
<1>2. Sorted
  <2>1. ASSUME upto > Len(dots), NEW k \in DOMAIN dots, NEW l \in DOMAIN dots, k < l
        PROVE  ~Less(dots[l], dots[k]) /\ (Level(dots[k], dots[l]) => dots[k].id < dots[l].id)
    <3>1. l <= upto /\ l # down
      BY <2>1 DEF SortKept, SortTyped
    <3>2. InPlace(dots[k], dots[l])
      BY <2>1, <3>1 DEF SortKept, Ordered
    <3> QED
      BY <3>2 DEF InPlace
  <2> QED
    BY <2>1 DEF SortKept, SortTyped, SameSet, Sorted
<1> QED
  BY <1>1, <1>2 DEF SortRight

\* sort puts the selections in the order its flags ask for, equals in the order they
\* came in, and that order is one (sort.go:51-104, 224).
THEOREM SortsStably == SortSpec => []SortRight
BY SortInvariance, KeptSorts, PTL

-----------------------------------------------------------------------------
(* cp *)

\* The goroutine has created its file; it has read its source to the end.
Made(i) == docp[i] \in {"copy", "done", "release", "over"}
Whole(i) == docp[i] \in {"done", "release", "over"}
Active == {i \in DOMAIN jobs : docp[i] \notin {"none", "over"}}

\* t is the first n bytes of s; or made of gaps and of what the sources of d have there.
FirstBytes(t, n, s) == n \in 0..Len(s) /\ Len(t) = n /\ \A k \in 1..n : t[k] = s[k]
From(t, d) == \A n \in 1..Len(t) :
    \/ t[n] = Gap
    \/ \E j \in CopyLines : jobs[j].dst = d /\ n <= Len(ContentOf(before, jobs[j].src)) /\ t[n] = before[jobs[j].src][n]

\* The types.
CopyTyped ==
    /\ jobs \in CopyJobs /\ before \in CopyBefore /\ scanned \in 0..Len(jobs) /\ tickets \in Nat
    /\ copymain \in {"scan", "ticket", "wait", "exit"}
    /\ docp \in [DOMAIN jobs -> {"none", "open", "create", "copy", "done", "release", "over"}]
    /\ off \in [DOMAIN jobs -> Nat]
FilesTyped == DOMAIN before \subseteq DOMAIN fs /\ \A p \in DOMAIN fs : fs[p] \in Seq(Byte)
\* A goroutine is started for each line that is read and names a file.
Started ==
    /\ \A i \in DOMAIN jobs : docp[i] # "none" => i <= scanned /\ jobs[i].kind = "file"
    /\ \A i \in CopyLines : i <= scanned /\ docp[i] = "none" => copymain = "ticket" /\ i = scanned
    /\ copymain = "ticket" => scanned \in CopyLines /\ docp[scanned] = "none"
    /\ copymain \in {"wait", "exit"} => scanned = Len(jobs)
    /\ copymain = "exit" => \A i \in DOMAIN jobs : docp[i] \in {"none", "release", "over"}
\* What it has open.
Opened == \A i \in DOMAIN jobs :
    /\ docp[i] \in {"create", "copy"} => jobs[i].src \in DOMAIN fs
    /\ docp[i] = "copy" => jobs[i].dst \in DOMAIN fs /\ jobs[i].dst \notin Uncreatable
    /\ docp[i] \in {"none", "open", "create"} => off[i] = 0
TicketsHeld == tickets = Cardinality(Active) /\ tickets <= Tickets
\* What no line names stays as it was.
OthersKept == \A p : p \notin Targets => (p \in DOMAIN fs <=> p \in DOMAIN before) /\ ContentOf(fs, p) = ContentOf(before, p)
\* A goroutine that writes alone, and reads what nobody writes, has copied its first bytes.
AloneCopies == \A i \in CopyLines : Alone(i) /\ Copied(i) /\ jobs[i].src \notin Targets /\ Made(i) =>
    /\ jobs[i].dst \in DOMAIN fs /\ FirstBytes(fs[jobs[i].dst], off[i], before[jobs[i].src])
    /\ Whole(i) => off[i] = Len(before[jobs[i].src])
OntoItself == \A i \in CopyLines : Alone(i) /\ Copied(i) /\ jobs[i].src = jobs[i].dst /\ Made(i) => fs[jobs[i].dst] = <<>>
\* The others have each left their bytes.
Untouched(d) == fs[d] = ContentOf(before, d) /\ \A j \in CopyLines : jobs[j].dst = d /\ Copied(j) => ~Made(j)
Shared(d) == \A j \in CopyLines : jobs[j].dst = d => jobs[j].src \notin Targets
SharedPlaces == \A d \in Targets : Shared(d) /\ d \in DOMAIN fs => Untouched(d) \/ From(fs[d], d)

Contents == OthersKept /\ AloneCopies /\ OntoItself /\ SharedPlaces
CopyKept == CopyTyped /\ FilesTyped /\ Started /\ Opened /\ TicketsHeld /\ Contents

\* What is known of a line.
LEMMA JobsAre ==
  ASSUME CopyTyped
  PROVE  jobs \in Seq(CopyLine) /\ DOMAIN jobs = 1..Len(jobs) /\ Len(jobs) \in Nat /\ IsFiniteSet(DOMAIN jobs)
<1>1. jobs \in Seq(CopyLine)
  BY CopyAssumption DEF CopyTyped
<1>2. DOMAIN jobs = 1..Len(jobs) /\ Len(jobs) \in Nat
  BY <1>1
<1>3. IsFiniteSet(1..Len(jobs))
  BY <1>2, FS_Interval
<1> QED
  BY <1>1, <1>2, <1>3

\* Neither the lines nor what they mean changes.
LEMMA GivenSame ==
  ASSUME UNCHANGED copyGiven
  PROVE  /\ jobs' = jobs /\ before' = before /\ CopyLines' = CopyLines /\ Targets' = Targets
         /\ \A i \in CopyLines : (Alone(i)' <=> Alone(i)) /\ (Copied(i)' <=> Copied(i))
         /\ \A d : Shared(d)' <=> Shared(d)
         /\ \A t, d : From(t, d)' <=> From(t, d)
<1>1. jobs' = jobs /\ before' = before
  BY DEF copyGiven
<1>2. CopyLines' = CopyLines
  BY <1>1 DEF CopyLines
<1>3. Targets' = Targets
  BY <1>1, <1>2 DEF Targets
<1>4. \A i \in CopyLines : (Alone(i)' <=> Alone(i)) /\ (Copied(i)' <=> Copied(i))
  BY <1>1, <1>2 DEF Alone, Copied
<1>5. \A d : Shared(d)' <=> Shared(d)
  BY <1>1, <1>2, <1>3 DEF Shared
<1>6. \A t, d : From(t, d)' <=> From(t, d)
  BY <1>1, <1>2 DEF From
<1> QED
  BY <1>1, <1>2, <1>3, <1>4, <1>5, <1>6

\* A step that writes nothing, and creates no file that will be a copy.
LEMMA QuietKeeps ==
  ASSUME Contents, UNCHANGED copyGiven, fs' = fs, off' = off,
         \A j \in CopyLines : Copied(j) => (Made(j)' <=> Made(j)) /\ (Whole(j)' <=> Whole(j))
  PROVE  Contents'
<1>1. OthersKept'
  BY GivenSame DEF Contents, OthersKept
<1>2. AloneCopies'
  BY GivenSame DEF Contents, AloneCopies
<1>3. OntoItself'
  BY GivenSame DEF Contents, OntoItself
<1>4. SharedPlaces'
  <2>1. ASSUME NEW d \in Targets, Shared(d), d \in DOMAIN fs PROVE Untouched(d)' \/ From(fs[d], d)'
    <3>1. CASE Untouched(d)
      BY <3>1, GivenSame DEF Untouched
    <3>2. CASE From(fs[d], d)
      BY <3>2, GivenSame DEF From
    <3> QED
      BY <2>1, <3>1, <3>2 DEF Contents, SharedPlaces
  <2> QED
    BY <2>1, GivenSame DEF SharedPlaces
<1> QED
  BY <1>1, <1>2, <1>3, <1>4 DEF Contents

\* The same for the tickets: the goroutines that hold one are the same.
LEMMA TicketsSame == ASSUME TicketsHeld, tickets' = tickets, Active' = Active PROVE TicketsHeld'
BY DEF TicketsHeld

\* The files before.
LEMMA CopyInitKept == ASSUME CopyInit PROVE CopyKept
<1> USE DEF CopyInit
<1>1. jobs \in Seq(CopyLine) /\ Len(jobs) \in Nat
  BY CopyAssumption
<1>2. CopyTyped
  BY <1>1 DEF CopyTyped
<1>3. FilesTyped
  BY CopyAssumption DEF FilesTyped
<1>4. Started /\ Opened
  BY <1>1 DEF Started, Opened, CopyLines
<1>5. TicketsHeld
  <2>1. Active = {}
    BY DEF Active
  <2> QED
    BY <2>1, FS_EmptySet, CopyAssumption DEF TicketsHeld
<1>6. Contents
  <2>1. \A j \in CopyLines : ~Made(j)
    BY DEF CopyLines, Made
  <2>2. \A d \in DOMAIN fs : fs[d] = ContentOf(before, d)
    BY DEF ContentOf
  <2>3. SharedPlaces
    BY <2>1, <2>2 DEF SharedPlaces, Untouched
  <2> QED
    BY <2>1, <2>3 DEF Contents, OthersKept, AloneCopies, OntoItself
<1> QED
  BY <1>2, <1>3, <1>4, <1>5, <1>6 DEF CopyKept

\* Main alone: the goroutines are as they were.
LEMMA MainKept ==
  ASSUME CopyKept, PassOver \/ ScanLine \/ AllRead \/ WaitForAll PROVE CopyKept'
<1>1. UNCHANGED <<copyGiven, fs, tickets, docp, off>>
  BY DEF PassOver, ScanLine, AllRead, WaitForAll
<1>2. jobs' = jobs /\ before' = before /\ CopyLines' = CopyLines
  BY <1>1, GivenSame
<1>3. DOMAIN jobs = 1..Len(jobs) /\ Len(jobs) \in Nat
  BY JobsAre DEF CopyKept
<1>4. CopyTyped'
  <2>1. scanned' \in 0..Len(jobs) /\ copymain' \in {"scan", "ticket", "wait", "exit"}
    <3>1. scanned \in 0..Len(jobs)
      BY DEF CopyKept, CopyTyped
    <3>2. CASE PassOver
      BY <3>1, <3>2, <1>3 DEF PassOver
    <3>3. CASE ScanLine
      BY <3>1, <3>3, <1>3 DEF ScanLine
    <3>4. CASE AllRead \/ WaitForAll
      BY <3>1, <3>4 DEF AllRead, WaitForAll
    <3> QED
      BY <3>2, <3>3, <3>4
  <2> QED
    BY <1>1, <1>2, <2>1 DEF CopyKept, CopyTyped
<1>5. FilesTyped' /\ Opened'
  BY <1>1, <1>2 DEF CopyKept, FilesTyped, Opened
<1>6. Started'
  <2>1. scanned \in 0..Len(jobs) /\ CopyTyped /\ Started
    BY DEF CopyKept, CopyTyped
  <2>2. CASE PassOver
    BY <1>1, <1>2, <1>3, <2>1, <2>2 DEF PassOver, Started, CopyLines
  <2>3. CASE ScanLine
    BY <1>1, <1>2, <1>3, <2>1, <2>3 DEF ScanLine, Started, CopyLines
  <2>4. CASE AllRead
    BY <1>1, <1>2, <1>3, <2>1, <2>4 DEF AllRead, Started
  <2>5. CASE WaitForAll
    BY <1>1, <1>2, <1>3, <2>1, <2>5 DEF WaitForAll, Counted, Started
  <2> QED
    BY <2>2, <2>3, <2>4, <2>5
<1>7. TicketsHeld'
  BY <1>1, <1>2 DEF CopyKept, TicketsHeld, Active
<1>8. Contents'
  <2>1. \A j \in CopyLines : (Made(j)' <=> Made(j)) /\ (Whole(j)' <=> Whole(j))
    BY <1>1 DEF Made, Whole
  <2> QED
    BY <1>1, <2>1, QuietKeeps DEF CopyKept
<1> QED
  BY <1>4, <1>5, <1>6, <1>7, <1>8 DEF CopyKept

\* A goroutine starts with a ticket.
LEMMA StartKept == ASSUME CopyKept, StartCopy PROVE CopyKept'
<1> USE DEF StartCopy, CopyStep
<1>1. UNCHANGED <<copyGiven, fs, off, scanned>> /\ docp' = [docp EXCEPT ![scanned] = "open"]
  OBVIOUS
<1>2. jobs' = jobs /\ before' = before /\ CopyLines' = CopyLines
  BY <1>1, GivenSame
<1>3. DOMAIN jobs = 1..Len(jobs) /\ Len(jobs) \in Nat /\ IsFiniteSet(DOMAIN jobs)
  BY JobsAre DEF CopyKept
<1>4. scanned \in CopyLines /\ scanned \in DOMAIN jobs /\ docp[scanned] = "none" /\ jobs[scanned].kind = "file" /\ scanned \in Nat
  BY <1>3 DEF CopyKept, Started, CopyLines
<1>5. CopyTyped'
  BY <1>1, <1>2, <1>4 DEF CopyKept, CopyTyped
<1>6. docp'[scanned] = "open" /\ \A i \in DOMAIN jobs : i # scanned => docp'[i] = docp[i]
  BY <1>1, <1>4 DEF CopyKept, CopyTyped
<1>7. FilesTyped' /\ Opened'
  BY <1>1, <1>2, <1>4, <1>6 DEF CopyKept, FilesTyped, Opened
<1>8. Started'
  BY <1>1, <1>2, <1>3, <1>4, <1>6 DEF CopyKept, Started, CopyLines
<1>9. TicketsHeld'
  <2>1. Active' = Active \cup {scanned} /\ scanned \notin Active
    BY <1>2, <1>4, <1>6 DEF Active
  <2>2. IsFiniteSet(Active)
    BY <1>3, FS_Subset DEF Active
  <2>3. Cardinality(Active') = Cardinality(Active) + 1
    BY <2>1, <2>2, FS_AddElement
  <2>4. tickets' = tickets + 1 /\ tickets < Tickets /\ tickets \in Nat
    BY DEF CopyKept, CopyTyped
  <2> QED
    BY <2>3, <2>4, CopyAssumption DEF CopyKept, TicketsHeld
<1>10. Contents'
  <2>1. \A j \in CopyLines : (Made(j)' <=> Made(j)) /\ (Whole(j)' <=> Whole(j))
    BY <1>4, <1>6 DEF Made, Whole, CopyLines
  <2> QED
    BY <1>1, <2>1, QuietKeeps DEF CopyKept
<1> QED
  BY <1>5, <1>7, <1>8, <1>9, <1>10 DEF CopyKept

\* A goroutine that goes on to its next step: the tickets stay, and so does main.
LEMMA StepOn ==
  ASSUME CopyKept, NEW i \in DOMAIN jobs, CopyRunning, NEW s, s \in {"create", "copy", "done", "release"},
         docp[i] \notin {"none", "over"}, CopyStep(i, s),
         UNCHANGED <<copyGiven, scanned, tickets, off, copymain>>
  PROVE  /\ i \in CopyLines /\ docp'[i] = s /\ \A j \in DOMAIN jobs : j # i => docp'[j] = docp[j]
         /\ jobs' = jobs /\ before' = before /\ CopyLines' = CopyLines /\ Targets' = Targets
         /\ CopyTyped' /\ Started' /\ TicketsHeld'
<1>1. jobs' = jobs /\ before' = before /\ CopyLines' = CopyLines /\ Targets' = Targets
  BY GivenSame
<1>2. docp'[i] = s /\ \A j \in DOMAIN jobs : j # i => docp'[j] = docp[j]
  BY DEF CopyStep, CopyKept, CopyTyped
<1>3. i \in CopyLines /\ i <= scanned
  BY DEF CopyKept, Started, CopyLines
<1>4. CopyTyped'
  BY <1>1 DEF CopyStep, CopyKept, CopyTyped
<1>5. Started'
  <2>1. copymain # "exit"
    BY DEF CopyRunning
  <2>2. /\ \A j \in DOMAIN jobs : docp'[j] # "none" => docp[j] # "none"
        /\ \A j \in DOMAIN jobs : docp'[j] = "none" => docp[j] = "none"
        /\ scanned \in CopyLines /\ docp[scanned] = "none" => docp'[scanned] = "none"
    BY <1>2 DEF CopyLines
  <2> QED
    BY <1>1, <2>1, <2>2 DEF CopyKept, Started, CopyLines
<1>6. TicketsHeld'
  <2>1. Active' = Active
    BY <1>1, <1>2 DEF Active
  <2> QED
    BY <2>1, TicketsSame DEF CopyKept
<1> QED
  BY <1>1, <1>2, <1>3, <1>4, <1>5, <1>6

\* The source is there or it is not, and nothing else changes.
LEMMA OpenKept == ASSUME CopyKept, NEW i \in DOMAIN jobs, OpenSource(i) PROVE CopyKept'
<1> DEFINE s == IF jobs[i].src \in DOMAIN fs THEN "create" ELSE "done"
<1>1. /\ CopyRunning /\ docp[i] = "open" /\ CopyStep(i, s) /\ fs' = fs /\ off' = off
      /\ UNCHANGED <<copyGiven, scanned, tickets, off, copymain>>
  BY DEF OpenSource
<1>2. s \in {"create", "copy", "done", "release"} /\ (s = "create" => jobs[i].src \in DOMAIN fs) /\ s \in {"create", "done"}
      /\ (s = "done" => jobs[i].src \notin DOMAIN fs)
  OBVIOUS
<1> HIDE DEF s
<1>3. /\ i \in CopyLines /\ docp'[i] = s /\ \A j \in DOMAIN jobs : j # i => docp'[j] = docp[j]
      /\ jobs' = jobs /\ before' = before /\ CopyLines' = CopyLines
      /\ CopyTyped' /\ Started' /\ TicketsHeld'
  BY <1>1, <1>2, StepOn
<1>4. FilesTyped' /\ Opened'
  BY <1>1, <1>2, <1>3 DEF CopyKept, FilesTyped, Opened
<1>5. Contents'
  <2>1. Copied(i) => s = "create"
    BY <1>2 DEF CopyKept, FilesTyped, Copied
  <2>2. \A j \in CopyLines : Copied(j) => (Made(j)' <=> Made(j)) /\ (Whole(j)' <=> Whole(j))
    BY <1>1, <1>3, <2>1 DEF Made, Whole, CopyLines
  <2> QED
    BY <1>1, <2>2, QuietKeeps DEF CopyKept
<1> QED
  BY <1>3, <1>4, <1>5 DEF CopyKept

\* The file cannot be created, or the copy is closed.
LEMMA UncreatableKept ==
  ASSUME CopyKept, NEW i \in DOMAIN jobs, CreateCopy(i), jobs[i].dst \in Uncreatable PROVE CopyKept'
<1>1. /\ CopyRunning /\ docp[i] = "create" /\ CopyStep(i, "done") /\ fs' = fs /\ off' = off
      /\ UNCHANGED <<copyGiven, scanned, tickets, off, copymain>>
  BY DEF CreateCopy
<1>3. /\ i \in CopyLines /\ docp'[i] = "done" /\ \A j \in DOMAIN jobs : j # i => docp'[j] = docp[j]
      /\ jobs' = jobs /\ before' = before /\ CopyLines' = CopyLines
      /\ CopyTyped' /\ Started' /\ TicketsHeld'
  BY <1>1, StepOn
<1>4. FilesTyped' /\ Opened'
  BY <1>1, <1>3 DEF CopyKept, FilesTyped, Opened
<1>5. Contents'
  <2>1. \A j \in CopyLines : Copied(j) => (Made(j)' <=> Made(j)) /\ (Whole(j)' <=> Whole(j))
    BY <1>1, <1>3 DEF Made, Whole, CopyLines, Copied
  <2> QED
    BY <1>1, <2>1, QuietKeeps DEF CopyKept
<1> QED
  BY <1>3, <1>4, <1>5 DEF CopyKept

\* The files are closed.
LEMMA ClosedKept == ASSUME CopyKept, NEW i \in DOMAIN jobs, Closed(i) PROVE CopyKept'
<1>1. /\ CopyRunning /\ docp[i] = "done" /\ CopyStep(i, "release") /\ fs' = fs /\ off' = off
      /\ UNCHANGED <<copyGiven, scanned, tickets, off, copymain>>
  BY DEF Closed
<1>3. /\ i \in CopyLines /\ docp'[i] = "release" /\ \A j \in DOMAIN jobs : j # i => docp'[j] = docp[j]
      /\ jobs' = jobs /\ before' = before /\ CopyLines' = CopyLines
      /\ CopyTyped' /\ Started' /\ TicketsHeld'
  BY <1>1, StepOn
<1>4. FilesTyped' /\ Opened'
  BY <1>1, <1>3 DEF CopyKept, FilesTyped, Opened
<1>5. Contents'
  <2>1. \A j \in CopyLines : (Made(j)' <=> Made(j)) /\ (Whole(j)' <=> Whole(j))
    BY <1>1, <1>3 DEF Made, Whole, CopyLines
  <2> QED
    BY <1>1, <2>1, QuietKeeps DEF CopyKept
<1> QED
  BY <1>3, <1>4, <1>5 DEF CopyKept

\* A ticket comes back, and one goroutine less holds one.
LEMMA ReleaseKept == ASSUME CopyKept, NEW i \in DOMAIN jobs, ReleaseTicket(i) PROVE CopyKept'
<1>1. /\ CopyRunning /\ docp[i] = "release" /\ docp' = [docp EXCEPT ![i] = "over"] /\ tickets > 0 /\ tickets' = tickets - 1
      /\ UNCHANGED <<copyGiven, fs, scanned, off, copymain>>
  BY DEF ReleaseTicket, CopyStep, GivenBack
<1>2. jobs' = jobs /\ before' = before /\ CopyLines' = CopyLines
  BY <1>1, GivenSame
<1>3. docp'[i] = "over" /\ \A j \in DOMAIN jobs : j # i => docp'[j] = docp[j]
  BY <1>1 DEF CopyKept, CopyTyped
<1>4. CopyTyped'
  BY <1>1, <1>2 DEF CopyKept, CopyTyped
<1>5. FilesTyped' /\ Opened'
  BY <1>1, <1>2, <1>3 DEF CopyKept, FilesTyped, Opened
<1>6. Started'
  <2>1. copymain # "exit"
    BY <1>1 DEF CopyRunning
  <2>2. /\ \A j \in DOMAIN jobs : docp'[j] # "none" => docp[j] # "none"
        /\ \A j \in DOMAIN jobs : docp'[j] = "none" => docp[j] = "none"
        /\ scanned \in CopyLines /\ docp[scanned] = "none" => docp'[scanned] = "none"
    BY <1>1, <1>3 DEF CopyLines
  <2> QED
    BY <1>1, <1>2, <2>1, <2>2 DEF CopyKept, Started, CopyLines
<1>7. TicketsHeld'
  <2>1. Active' = Active \ {i} /\ i \in Active
    BY <1>1, <1>2, <1>3 DEF Active
  <2>2. IsFiniteSet(Active)
    BY JobsAre, FS_Subset DEF Active, CopyKept
  <2>3. Cardinality(Active') = Cardinality(Active) - 1
    BY <2>1, <2>2, FS_RemoveElement
  <2>4. tickets \in Nat /\ tickets = Cardinality(Active) /\ tickets <= Tickets /\ Tickets \in Nat
    BY CopyAssumption DEF CopyKept, CopyTyped, TicketsHeld
  <2> QED
    BY <1>1, <2>3, <2>4 DEF TicketsHeld
<1>8. Contents'
  <2>1. \A j \in CopyLines : (Made(j)' <=> Made(j)) /\ (Whole(j)' <=> Whole(j))
    BY <1>1, <1>3 DEF Made, Whole, CopyLines
  <2> QED
    BY <1>1, <2>1, QuietKeeps DEF CopyKept
<1> QED
  BY <1>4, <1>5, <1>6, <1>7, <1>8 DEF CopyKept

\* The source is at its end: what nobody writes has been read whole.
LEMMA SourceEndsKept == ASSUME CopyKept, NEW i \in DOMAIN jobs, SourceEnds(i) PROVE CopyKept'
<1>1. /\ CopyRunning /\ docp[i] = "copy" /\ CopyStep(i, "done") /\ fs' = fs /\ off' = off
      /\ off[i] >= Len(fs[jobs[i].src]) /\ UNCHANGED <<copyGiven, scanned, tickets, off, copymain>>
  BY DEF SourceEnds
<1>3. /\ i \in CopyLines /\ docp'[i] = "done" /\ \A j \in DOMAIN jobs : j # i => docp'[j] = docp[j]
      /\ jobs' = jobs /\ before' = before /\ CopyLines' = CopyLines /\ Targets' = Targets
      /\ CopyTyped' /\ Started' /\ TicketsHeld'
  BY <1>1, StepOn
<1>4. FilesTyped' /\ Opened'
  BY <1>1, <1>3 DEF CopyKept, FilesTyped, Opened
<1>5. Contents'
  <2>1. \A j \in CopyLines : Made(j)' <=> Made(j)
    BY <1>1, <1>3 DEF Made, CopyLines
  <2>2. OthersKept' /\ OntoItself'
    BY <1>1, <2>1, GivenSame DEF CopyKept, Contents, OthersKept, OntoItself
  <2>3. SharedPlaces'
    <3>1. ASSUME NEW d \in Targets, Shared(d), d \in DOMAIN fs PROVE Untouched(d)' \/ From(fs[d], d)'
      <4>1. CASE Untouched(d)
        BY <4>1, <1>1, <2>1, GivenSame DEF Untouched
      <4>2. CASE From(fs[d], d)
        BY <4>2, <1>1, GivenSame DEF From
      <4> QED
        BY <3>1, <4>1, <4>2 DEF CopyKept, Contents, SharedPlaces
    <3> QED
      BY <1>1, <3>1, GivenSame DEF SharedPlaces
  <2>4. AloneCopies'
    <3>1. ASSUME NEW j \in CopyLines, Alone(j), Copied(j), jobs[j].src \notin Targets, Made(j)
          PROVE  /\ jobs[j].dst \in DOMAIN fs /\ FirstBytes(fs[jobs[j].dst], off[j], before[jobs[j].src])
                 /\ Whole(j)' => off[j] = Len(before[jobs[j].src])
      <4>1. /\ jobs[j].dst \in DOMAIN fs /\ FirstBytes(fs[jobs[j].dst], off[j], before[jobs[j].src])
            /\ Whole(j) => off[j] = Len(before[jobs[j].src])
        BY <3>1 DEF CopyKept, Contents, AloneCopies
      <4>2. CASE j = i
        <5>1. fs[jobs[i].src] = before[jobs[i].src]
          <6>1. jobs[i].src \in DOMAIN before /\ jobs[i].src \in DOMAIN fs /\ ContentOf(fs, jobs[i].src) = ContentOf(before, jobs[i].src)
            BY <3>1, <4>2, <1>1 DEF CopyKept, Contents, OthersKept, Copied, FilesTyped
          <6> QED
            BY <6>1 DEF ContentOf
        <5>2. off[i] <= Len(before[jobs[i].src]) /\ off[i] >= Len(before[jobs[i].src])
          BY <4>1, <4>2, <5>1, <1>1 DEF FirstBytes
        <5>3. before[jobs[i].src] \in Seq(Byte) /\ off[i] \in Nat
          BY <3>1, <4>2, CopyAssumption DEF Copied, CopyKept, CopyTyped
        <5>4. Len(before[jobs[i].src]) \in Nat
          BY <5>3
        <5> QED
          BY <4>1, <4>2, <5>2, <5>3, <5>4
      <4>3. CASE j # i
        BY <4>1, <4>3, <1>3 DEF Whole, CopyLines
      <4> QED
        BY <4>2, <4>3
    <3> QED
      BY <1>1, <2>1, <3>1, GivenSame DEF AloneCopies
  <2> QED
    BY <2>2, <2>3, <2>4 DEF Contents
<1> QED
  BY <1>3, <1>4, <1>5 DEF CopyKept

\* Creating a file empties it and touches no other.
LEMMA CreateKept ==
  ASSUME CopyKept, NEW i \in DOMAIN jobs, CreateCopy(i), jobs[i].dst \notin Uncreatable PROVE CopyKept'
<1> DEFINE d == jobs[i].dst
<1>1. /\ CopyRunning /\ docp[i] = "create" /\ CopyStep(i, "copy") /\ off' = off
      /\ fs' = [p \in DOMAIN fs \cup {d} |-> IF p = d THEN <<>> ELSE fs[p]]
      /\ UNCHANGED <<copyGiven, scanned, tickets, off, copymain>>
  BY DEF CreateCopy
<1>2. DOMAIN fs' = DOMAIN fs \cup {d} /\ fs'[d] = <<>> /\ \A p \in DOMAIN fs : p # d => fs'[p] = fs[p]
  BY <1>1
<1>3. /\ i \in CopyLines /\ docp'[i] = "copy" /\ \A j \in DOMAIN jobs : j # i => docp'[j] = docp[j]
      /\ jobs' = jobs /\ before' = before /\ CopyLines' = CopyLines /\ Targets' = Targets
      /\ CopyTyped' /\ Started' /\ TicketsHeld'
  BY <1>1, StepOn
<1>4. d \in Targets /\ jobs[i].src \in DOMAIN fs /\ off[i] = 0
  BY <1>1, <1>3 DEF Targets, CopyKept, Opened
<1>5. \A j \in CopyLines : j # i => (Made(j)' <=> Made(j)) /\ (Whole(j)' <=> Whole(j))
  BY <1>3 DEF Made, Whole, CopyLines
<1> HIDE DEF d
<1>6. FilesTyped'
  <2>1. <<>> \in Seq(Byte)
    OBVIOUS
  <2>2. \A p \in DOMAIN fs : fs[p] \in Seq(Byte)
    BY DEF CopyKept, FilesTyped
  <2>3. \A p \in DOMAIN fs' : fs'[p] \in Seq(Byte)
    BY <2>1, <2>2, <1>2
  <2> QED
    BY <1>2, <1>3, <2>3 DEF CopyKept, FilesTyped
<1>7. Opened'
  BY <1>1, <1>2, <1>3, <1>4 DEF CopyKept, Opened, d
<1>8. OthersKept'
  <2>1. \A p : p # d => (p \in DOMAIN fs' <=> p \in DOMAIN fs) /\ ContentOf(fs', p) = ContentOf(fs, p)
    BY <1>2 DEF ContentOf
  <2> QED
    BY <1>3, <1>4, <2>1 DEF CopyKept, Contents, OthersKept
<1>9. AloneCopies'
  <2>1. ASSUME NEW j \in CopyLines, Alone(j), Copied(j), jobs[j].src \notin Targets, Made(j)'
        PROVE  /\ jobs[j].dst \in DOMAIN fs' /\ FirstBytes(fs'[jobs[j].dst], off[j], before[jobs[j].src])
               /\ Whole(j)' => off[j] = Len(before[jobs[j].src])
    <3>1. CASE j = i
      <4>1. before[jobs[i].src] \in Seq(Byte)
        BY <2>1, <3>1, CopyAssumption DEF Copied, CopyKept, CopyTyped
      <4>2. Len(before[jobs[i].src]) \in Nat
        BY <4>1
      <4>3. FirstBytes(<<>>, 0, before[jobs[i].src])
        BY <4>2 DEF FirstBytes
      <4>4. ~Whole(i)'
        BY <1>3 DEF Whole
      <4> QED
        BY <3>1, <4>3, <4>4, <1>2, <1>4 DEF d
    <3>2. CASE j # i
      <4>1. jobs[j].dst # d
        BY <2>1, <3>2, <1>3 DEF Alone, d
      <4>2. /\ jobs[j].dst \in DOMAIN fs /\ FirstBytes(fs[jobs[j].dst], off[j], before[jobs[j].src])
            /\ Whole(j) => off[j] = Len(before[jobs[j].src])
        BY <2>1, <3>2, <1>5 DEF CopyKept, Contents, AloneCopies
      <4> QED
        BY <3>2, <4>1, <4>2, <1>2, <1>5
    <3> QED
      BY <3>1, <3>2
  <2> QED
    BY <1>1, <2>1, GivenSame DEF AloneCopies
<1>10. OntoItself'
  <2>1. ASSUME NEW j \in CopyLines, Alone(j), Copied(j), jobs[j].src = jobs[j].dst, Made(j)'
        PROVE  fs'[jobs[j].dst] = <<>>
    <3>1. CASE j = i
      BY <3>1, <1>2 DEF d
    <3>2. CASE j # i
      <4>1. jobs[j].dst # d
        BY <2>1, <3>2, <1>3 DEF Alone, d
      <4>2. jobs[j].dst \in DOMAIN fs /\ fs[jobs[j].dst] = <<>>
        BY <2>1, <3>2, <1>5 DEF CopyKept, Contents, OntoItself, Copied, FilesTyped
      <4> QED
        BY <4>1, <4>2, <1>2
    <3> QED
      BY <3>1, <3>2
  <2> QED
    BY <1>1, <2>1, GivenSame DEF OntoItself
<1>11. SharedPlaces'
  <2>1. ASSUME NEW e \in Targets, Shared(e), e \in DOMAIN fs' PROVE Untouched(e)' \/ From(fs'[e], e)
    <3>1. CASE e = d
      <4>1. From(<<>>, e)
        BY DEF From
      <4> QED
        BY <3>1, <4>1, <1>2
    <3>2. CASE e # d
      <4>1. e \in DOMAIN fs /\ fs'[e] = fs[e]
        BY <3>2, <2>1, <1>2
      <4>2. CASE Untouched(e)
        <5>1. \A j \in CopyLines : jobs[j].dst = e => j # i
          BY <3>2 DEF d
        <5> QED
          BY <4>1, <4>2, <5>1, <1>1, <1>5, GivenSame DEF Untouched
      <4> QED
        BY <2>1, <4>1, <4>2 DEF CopyKept, Contents, SharedPlaces
    <3> QED
      BY <3>1, <3>2
  <2>2. ASSUME NEW e \in Targets, Shared(e), e \in DOMAIN fs' PROVE Untouched(e)' \/ From(fs[e], e)'
    <3>1. CASE From(fs'[e], e)
      BY <3>1, <1>3 DEF From
    <3> QED
      BY <2>1, <2>2, <3>1
  <2> QED
    BY <1>1, <2>2, GivenSame DEF SharedPlaces
<1> QED
  BY <1>3, <1>6, <1>7, <1>8, <1>9, <1>10, <1>11 DEF CopyKept, Contents

\* What is where after a byte is written.
LEMMA PlacedIs ==
  ASSUME NEW t \in Seq(Byte), NEW at \in Nat, NEW b \in Byte
  PROVE  /\ Placed(t, at, b) \in Seq(Byte)
         /\ Len(Placed(t, at, b)) = IF at < Len(t) THEN Len(t) ELSE at + 1
         /\ \A n \in 1..Len(Placed(t, at, b)) :
              Placed(t, at, b)[n] = IF n = at + 1 THEN b ELSE IF n <= Len(t) THEN t[n] ELSE Gap
<1> DEFINE m == IF at < Len(t) THEN Len(t) ELSE at + 1
<1> DEFINE at1(n) == IF n = at + 1 THEN b ELSE IF n <= Len(t) THEN t[n] ELSE Gap
<1>1. Placed(t, at, b) = [n \in 1..m |-> at1(n)]
  BY DEF Placed
<1>2. m \in Nat
  OBVIOUS
<1>3. \A n \in 1..m : at1(n) \in Byte
  BY CopyAssumption
<1> HIDE DEF at1, m
<1>4. Placed(t, at, b) \in Seq(Byte) /\ Len(Placed(t, at, b)) = m /\ \A n \in 1..m : Placed(t, at, b)[n] = at1(n)
  BY <1>1, <1>2, <1>3
<1> QED
  BY <1>4 DEF at1, m

\* A byte of the source comes to its place in the copy.
LEMMA CopySomeKept == ASSUME CopyKept, NEW i \in DOMAIN jobs, CopySome(i) PROVE CopyKept'
<1> DEFINE d == jobs[i].dst
<1> DEFINE s == jobs[i].src
<1> DEFINE n == off[i]
<1> DEFINE b == fs[s][n + 1]
<1>1. /\ CopyRunning /\ docp[i] = "copy" /\ n < Len(fs[s]) /\ fs' = [fs EXCEPT ![d] = Placed(fs[d], n, b)]
      /\ off' = [off EXCEPT ![i] = n + 1] /\ UNCHANGED <<copyGiven, scanned, tickets, docp, copymain>>
  BY DEF CopySome
<1>2. jobs' = jobs /\ before' = before /\ CopyLines' = CopyLines /\ Targets' = Targets
  BY <1>1, GivenSame
<1>3. i \in CopyLines /\ d \in Targets /\ d \in DOMAIN fs /\ d \notin Uncreatable /\ s \in DOMAIN fs /\ n \in Nat
  BY <1>1 DEF CopyKept, CopyTyped, Started, Opened, CopyLines, Targets
<1>4. fs[d] \in Seq(Byte) /\ fs[s] \in Seq(Byte)
  BY <1>3 DEF CopyKept, FilesTyped
<1>5. b \in Byte
  BY <1>1, <1>3, <1>4
<1> HIDE DEF d, s, n, b
<1> DEFINE t == Placed(fs[d], n, b)
<1>6. /\ t \in Seq(Byte) /\ Len(t) = IF n < Len(fs[d]) THEN Len(fs[d]) ELSE n + 1
      /\ \A k \in 1..Len(t) : t[k] = IF k = n + 1 THEN b ELSE IF k <= Len(fs[d]) THEN fs[d][k] ELSE Gap
  BY <1>3, <1>4, <1>5, PlacedIs, ZenonT(60)
<1>7. DOMAIN fs' = DOMAIN fs /\ fs'[d] = t /\ \A p \in DOMAIN fs : p # d => fs'[p] = fs[p]
  BY <1>1, <1>3
<1>8. off'[i] = n + 1 /\ \A j \in DOMAIN jobs : j # i => off'[j] = off[j]
  BY <1>1 DEF CopyKept, CopyTyped
<1> HIDE DEF t
<1>9. CopyTyped' /\ Started' /\ TicketsHeld'
  <2>1. CopyTyped'
    BY <1>1, <1>2, <1>3 DEF CopyKept, CopyTyped
  <2>2. Active' = Active
    BY <1>1, <1>2 DEF Active
  <2> QED
    BY <1>1, <1>2, <2>1, <2>2 DEF CopyKept, Started, TicketsHeld
<1>10. FilesTyped'
  <2>1. \A p \in DOMAIN fs : fs[p] \in Seq(Byte)
    BY DEF CopyKept, FilesTyped
  <2>2. \A p \in DOMAIN fs : fs'[p] \in Seq(Byte)
    BY <2>1, <1>6, <1>7
  <2> QED
    BY <1>2, <1>7, <2>2 DEF CopyKept, FilesTyped
<1>11. Opened'
  BY <1>1, <1>2, <1>7, <1>8 DEF CopyKept, Opened
<1>12. \A j \in CopyLines : (Made(j)' <=> Made(j)) /\ (Whole(j)' <=> Whole(j))
  BY <1>1 DEF Made, Whole
<1>13. s \notin Targets => s \in DOMAIN before /\ fs[s] = before[s] /\ Copied(i)
  BY <1>3 DEF CopyKept, Contents, OthersKept, ContentOf, Copied, s, d
<1>14. Made(i) /\ ~Whole(i)
  BY <1>1 DEF Made, Whole
<1>15. OthersKept'
  <2>1. \A p : p # d => (p \in DOMAIN fs' <=> p \in DOMAIN fs) /\ ContentOf(fs', p) = ContentOf(fs, p)
    BY <1>7 DEF ContentOf
  <2> QED
    BY <1>2, <1>3, <2>1 DEF CopyKept, Contents, OthersKept
<1>16. AloneCopies'
  <2>1. ASSUME NEW j \in CopyLines, Alone(j), Copied(j), jobs[j].src \notin Targets, Made(j)
        PROVE  /\ jobs[j].dst \in DOMAIN fs' /\ FirstBytes(fs'[jobs[j].dst], off'[j], before[jobs[j].src])
               /\ Whole(j) => off'[j] = Len(before[jobs[j].src])
    <3>1. /\ jobs[j].dst \in DOMAIN fs /\ FirstBytes(fs[jobs[j].dst], off[j], before[jobs[j].src])
          /\ Whole(j) => off[j] = Len(before[jobs[j].src])
      BY <2>1 DEF CopyKept, Contents, AloneCopies
    <3>2. CASE j = i
      <4>1. FirstBytes(fs[d], n, before[s]) /\ fs[s] = before[s]
        BY <2>1, <3>1, <3>2, <1>13 DEF d, s, n
      <4>2. /\ Len(fs[d]) = n /\ \A k \in 1..n : fs[d][k] = before[s][k]
            /\ n + 1 \in 0..Len(before[s]) /\ b = before[s][n + 1]
        BY <4>1, <1>1, <1>3, <1>4 DEF FirstBytes, b
      <4>3. FirstBytes(t, n + 1, before[s])
        <5>1. Len(t) = n + 1
          BY <4>2, <1>3, <1>6
        <5>2. ASSUME NEW k \in 1..(n + 1) PROVE t[k] = before[s][k]
          <6>1. CASE k = n + 1
            BY <6>1, <5>1, <4>2, <1>3, <1>6
          <6>2. CASE k # n + 1
            <7>1. k \in 1..n
              BY <6>2, <1>3
            <7> QED
              BY <6>2, <7>1, <5>1, <4>2, <1>3, <1>6
          <6> QED
            BY <6>1, <6>2
        <5> QED
          BY <5>1, <5>2, <4>2 DEF FirstBytes
      <4> QED
        BY <3>2, <4>3, <1>3, <1>7, <1>8, <1>14 DEF d, s
    <3>3. CASE j # i
      <4>1. jobs[j].dst # d
        BY <2>1, <3>3, <1>3 DEF Alone, d
      <4>2. off'[j] = off[j]
        BY <3>3, <1>8 DEF CopyLines
      <4> QED
        BY <3>1, <4>1, <4>2, <1>7
    <3> QED
      BY <3>2, <3>3
  <2> QED
    BY <1>1, <1>12, <2>1, GivenSame DEF AloneCopies
<1>17. OntoItself'
  <2>1. ASSUME NEW j \in CopyLines, Alone(j), Copied(j), jobs[j].src = jobs[j].dst, Made(j)
        PROVE  fs'[jobs[j].dst] = <<>>
    <3>1. fs[jobs[j].dst] = <<>>
      BY <2>1 DEF CopyKept, Contents, OntoItself
    <3>2. CASE j = i
      <4>1. fs[s] = <<>>
        BY <3>1, <3>2, <2>1 DEF s
      <4>2. Len(<<>>) = 0
        OBVIOUS
      <4> QED
        BY <4>1, <4>2, <1>1, <1>3
    <3>3. CASE j # i
      <4>1. jobs[j].dst # d /\ jobs[j].dst \in DOMAIN fs
        BY <2>1, <3>3, <1>3 DEF Alone, d, Copied, CopyKept, FilesTyped
      <4> QED
        BY <3>1, <4>1, <1>7
    <3> QED
      BY <3>2, <3>3
  <2> QED
    BY <1>1, <1>12, <2>1, GivenSame DEF OntoItself
<1>18. SharedPlaces'
  <2>1. ASSUME NEW e \in Targets, Shared(e), e \in DOMAIN fs PROVE Untouched(e)' \/ From(fs'[e], e)
    <3>1. Untouched(e) \/ From(fs[e], e)
      BY <2>1 DEF CopyKept, Contents, SharedPlaces
    <3>2. CASE e = d
      <4>1. s \notin Targets
        BY <2>1, <3>2, <1>3 DEF Shared, d, s
      <4>2. From(fs[d], d)
        BY <3>1, <3>2, <4>1, <1>3, <1>13, <1>14 DEF Untouched, d
      <4>3. n + 1 <= Len(ContentOf(before, s)) /\ b = before[s][n + 1]
        BY <4>1, <1>1, <1>3, <1>4, <1>13 DEF ContentOf, b
      <4>4. From(t, d)
        <5>1. ASSUME NEW k \in 1..Len(t)
              PROVE  \/ t[k] = Gap
                     \/ \E j \in CopyLines : jobs[j].dst = d /\ k <= Len(ContentOf(before, jobs[j].src))
                                             /\ t[k] = before[jobs[j].src][k]
          <6>1. CASE k = n + 1
            <7>1. t[k] = b
              BY <6>1, <1>6
            <7> QED
              BY <6>1, <7>1, <4>3, <1>3 DEF d, s
          <6>2. CASE k # n + 1 /\ k <= Len(fs[d])
            <7>1. t[k] = fs[d][k] /\ k \in 1..Len(fs[d])
              BY <6>2, <1>4, <1>6
            <7> QED
              BY <7>1, <4>2 DEF From
          <6>3. CASE k # n + 1 /\ ~(k <= Len(fs[d]))
            BY <6>3, <1>6
          <6> QED
            BY <6>1, <6>2, <6>3
        <5> QED
          BY <5>1 DEF From
      <4> QED
        BY <3>2, <4>4, <1>7
    <3>3. CASE e # d
      <4>1. fs'[e] = fs[e]
        BY <2>1, <3>3, <1>7
      <4>2. CASE Untouched(e)
        BY <4>1, <4>2, <1>1, <1>12, GivenSame DEF Untouched
      <4> QED
        BY <3>1, <4>1, <4>2
    <3> QED
      BY <3>2, <3>3
  <2>2. ASSUME NEW e \in Targets, Shared(e), e \in DOMAIN fs PROVE Untouched(e)' \/ From(fs[e], e)'
    <3>1. CASE From(fs'[e], e)
      BY <3>1, <1>2 DEF From
    <3> QED
      BY <2>1, <2>2, <3>1
  <2> QED
    BY <1>1, <1>7, <2>2, GivenSame DEF SharedPlaces
<1> QED
  BY <1>9, <1>10, <1>11, <1>15, <1>16, <1>17, <1>18 DEF CopyKept, Contents

\* A step that changes nothing.
LEMMA CopyStutter == ASSUME CopyKept, UNCHANGED copyVars PROVE CopyKept'
<1>1. UNCHANGED copyGiven /\ fs' = fs /\ off' = off /\ docp' = docp /\ UNCHANGED <<scanned, tickets, copymain>>
  BY DEF copyVars, copyGiven
<1>2. CopyTyped' /\ FilesTyped' /\ Started' /\ Opened' /\ TicketsHeld'
  BY <1>1, GivenSame DEF CopyKept, CopyTyped, FilesTyped, Started, Opened, TicketsHeld, Active
<1>3. Contents'
  <2>1. \A j \in CopyLines : (Made(j)' <=> Made(j)) /\ (Whole(j)' <=> Whole(j))
    BY <1>1 DEF Made, Whole
  <2> QED
    BY <1>1, <2>1, QuietKeeps DEF CopyKept
<1> QED
  BY <1>2, <1>3 DEF CopyKept

\* The types of cp, its tickets, and what every file holds at every moment.
THEOREM CopyInvariance == CopySpec => []CopyKept
<1>1. ASSUME CopyKept, CopyNext PROVE CopyKept'
  <2>1. ASSUME NEW i \in DOMAIN jobs, Goroutine(i) PROVE CopyKept'
    <3>1. CASE CreateCopy(i)
      BY <1>1, <3>1, UncreatableKept, CreateKept
    <3>2. CASE OpenSource(i) \/ CopySome(i) \/ SourceEnds(i)
      BY <1>1, <3>2, OpenKept, CopySomeKept, SourceEndsKept
    <3>3. CASE Closed(i) \/ ReleaseTicket(i)
      BY <1>1, <3>3, ClosedKept, ReleaseKept
    <3> QED
      BY <2>1, <3>1, <3>2, <3>3 DEF Goroutine
  <2>2. CASE PassOver \/ ScanLine \/ AllRead \/ WaitForAll
    BY <1>1, <2>2, MainKept
  <2>3. CASE StartCopy
    BY <1>1, <2>3, StartKept
  <2> QED
    BY <1>1, <2>1, <2>2, <2>3 DEF CopyNext
<1> QED
  BY <1>1, CopyInitKept, CopyStutter, PTL DEF CopySpec

\* A file of which all first bytes are those of another is that file.
LEMMA AllBytes ==
  ASSUME NEW t \in Seq(Byte), NEW s \in Seq(Byte), FirstBytes(t, Len(s), s) PROVE t = s
<1>1. Len(t) = Len(s) /\ \A k \in 1..Len(s) : t[k] = s[k]
  BY DEF FirstBytes
<1> QED
  BY <1>1

\* What every file holds when all goroutines are over.
LEMMA KeptCopies == ASSUME CopyKept PROVE CopyRight
<1>1. TicketsHeld => tickets = Cardinality({i \in DOMAIN jobs : docp[i] \notin {"none", "over"}}) /\ tickets <= Tickets
  BY DEF TicketsHeld, Active
<1>2. ASSUME CopyEnded
      PROVE  /\ \A i \in DOMAIN jobs : docp[i] \in {"none", "release", "over"}
             /\ \A i \in CopyLines : Made(i) /\ Whole(i)
  <2>1. \A i \in DOMAIN jobs : docp[i] \in {"none", "release", "over"}
    BY <1>2 DEF CopyKept, Started, CopyEnded
  <2>2. ASSUME NEW i \in CopyLines PROVE docp[i] # "none"
    <3>1. i <= scanned
      BY <1>2, JobsAre DEF CopyKept, Started, CopyEnded, CopyLines
    <3> QED
      BY <1>2, <3>1 DEF CopyKept, Started, CopyEnded
  <2> QED
    BY <2>1, <2>2 DEF Made, Whole, CopyLines
<1>3. ASSUME CopyEnded, NEW i \in CopyLines, Alone(i), Copied(i), jobs[i].src \notin Targets
      PROVE  fs[jobs[i].dst] = before[jobs[i].src]
  <2>1. /\ jobs[i].dst \in DOMAIN fs
        /\ FirstBytes(fs[jobs[i].dst], Len(before[jobs[i].src]), before[jobs[i].src])
    BY <1>2, <1>3 DEF CopyKept, Contents, AloneCopies
  <2>2. fs[jobs[i].dst] \in Seq(Byte) /\ before[jobs[i].src] \in Seq(Byte)
    BY <1>3, <2>1, CopyAssumption DEF CopyKept, CopyTyped, FilesTyped, Copied
  <2> QED
    BY <2>1, <2>2, AllBytes
<1>4. ASSUME CopyEnded, NEW i \in CopyLines, Alone(i), Copied(i), jobs[i].src = jobs[i].dst
      PROVE  fs[jobs[i].dst] = <<>>
  BY <1>2, <1>4 DEF CopyKept, Contents, OntoItself
<1>5. ASSUME CopyEnded, NEW i \in CopyLines, \A j \in CopyLines : jobs[j].dst = jobs[i].dst => jobs[j].src \notin Targets,
             NEW n \in DOMAIN ContentOf(fs, jobs[i].dst)
      PROVE  \/ ~(\E j \in CopyLines : jobs[j].dst = jobs[i].dst /\ Copied(j)) /\ fs[jobs[i].dst] = ContentOf(before, jobs[i].dst)
             \/ fs[jobs[i].dst][n] = Gap
             \/ \E j \in CopyLines : jobs[j].dst = jobs[i].dst /\ n <= Len(ContentOf(before, jobs[j].src))
                                     /\ fs[jobs[i].dst][n] = before[jobs[j].src][n]
  <2> DEFINE d == jobs[i].dst
  <2>1. d \in Targets /\ Shared(d)
    BY <1>5 DEF Targets, Shared
  <2>2. d \in DOMAIN fs /\ n \in DOMAIN fs[d]
    <3>1. DOMAIN <<>> = {}
      OBVIOUS
    <3> QED
      BY <1>5, <3>1 DEF ContentOf
  <2>3. n \in 1..Len(fs[d])
    BY <2>2 DEF CopyKept, FilesTyped
  <2>4. Untouched(d) \/ From(fs[d], d)
    BY <2>1, <2>2 DEF CopyKept, Contents, SharedPlaces
  <2>5. CASE Untouched(d)
    BY <2>5, <1>2, <1>5 DEF Untouched
  <2>6. CASE From(fs[d], d)
    BY <2>6, <2>3 DEF From
  <2> QED
    BY <2>4, <2>5, <2>6
<1>6. \A p \in Paths \ Targets : ContentOf(fs, p) = ContentOf(before, p) /\ (p \in DOMAIN fs <=> p \in DOMAIN before)
  BY DEF CopyKept, Contents, OthersKept
<1> QED
  BY <1>1, <1>2, <1>3, <1>4, <1>5, <1>6 DEF CopyRight, CopyKept

\* When cp is over the copies are whole, what it did not name is as it was, several
\* that write one file each leave their bytes or gaps, and no more than the tickets
\* ran at a time (cp.go:56-112).
THEOREM CopiesWhole == CopySpec => []CopyRight
BY CopyInvariance, KeptCopies, PTL

-----------------------------------------------------------------------------
(* dd *)

\* The bytes written.
Passed == opos - ofrom
\* The types.
DdTyped ==
    /\ opts \in DdFlags /\ in \in DdInputs /\ was \in DdOutputs /\ out \in Seq(Octet)
    /\ ipos \in Nat /\ opos \in Nat /\ nb \in 0..opts.count
    /\ ib \in Seq(Octet) /\ Len(ib) <= ibs
    /\ ddphase \in {"open", "read", "write", "exit"}

Unopened == ddphase = "open" => out = was /\ ib = <<>> /\ nb = 0
\* The block in hand is what was read after the last block written.
InHand == ddphase # "open" =>
    /\ Passed \in Nat /\ ipos = ifrom + Passed + Len(ib) /\ (ipos = ifrom \/ ipos <= Len(in))
    /\ \A k \in 1..Len(ib) : ib[k] = in[ifrom + Passed + k]
\* Every block written before is whole, but for the last one of the input.
WholeBlocks ==
    /\ ddphase \in {"read", "write"} => Passed = nb * ibs
    /\ ddphase = "read" /\ nb = opts.count => ib = <<>>
    /\ ddphase = "write" => nb < opts.count /\ (Len(ib) = ibs \/ ipos >= Len(in))
    /\ ddphase = "exit" => ib = <<>> /\ Passed <= opts.count * ibs
                           /\ (Passed = opts.count * ibs \/ ipos >= Len(in))
\* The output holds what was written, and around it what was there.
OutputIs == ddphase # "open" =>
    /\ Len(out) = IF Passed > 0 /\ opos > Len(was) THEN opos ELSE Len(was)
    /\ \A n \in 1..Passed : out[ofrom + n] = in[ifrom + n]
    /\ \A n \in DOMAIN was : n <= ofrom \/ n > opos => out[n] = was[n]

DdKept == DdTyped /\ Unopened /\ InHand /\ WholeBlocks /\ OutputIs

\* Products of blocks.
LEMMA Products ==
  \A a, b, c \in Nat : /\ a * b \in Nat /\ (a + 1) * b = a * b + b
                       /\ a < c => (a + 1) * b <= c * b
<1>1. \A a, b \in Nat : a * b \in Nat /\ (a + 1) * b = a * b + b
  OBVIOUS
<1>2. ASSUME NEW a \in Nat, NEW b \in Nat, NEW c \in Nat, a < c PROVE (a + 1) * b <= c * b
  <2>1. PICK d \in Nat : c = (a + 1) + d
    <3>1. c - (a + 1) \in Nat /\ c = (a + 1) + (c - (a + 1))
      BY <1>2
    <3> QED
      BY <3>1
  <2>2. c * b = (a + 1) * b + d * b
    BY <2>1
  <2>3. d * b \in Nat /\ (a + 1) * b \in Nat
    BY <1>1
  <2> QED
    BY <2>2, <2>3
<1> QED
  BY <1>1, <1>2

\* What the flags and the files are.
LEMMA FlagsAre ==
  ASSUME opts \in DdFlags, in \in DdInputs, was \in DdOutputs
  PROVE  /\ ibs \in Nat /\ ifrom \in Nat /\ ofrom \in Nat /\ opts.count \in Nat
         /\ in \in Seq(Octet) /\ was \in Seq(Octet) /\ Len(in) \in Nat /\ Len(was) \in Nat
<1>1. opts \in [bs : Nat, ibs : Nat, obs : Nat, seek : Nat, iseek : Nat, oseek : Nat,
                count : Nat, named : SUBSET {"if", "of"}]
  BY DdAssumption
<1>2. ibs \in Nat /\ ifrom \in Nat /\ ofrom \in Nat /\ opts.count \in Nat
  BY <1>1 DEF ibs, ifrom, ofrom, iseek, oseek
<1>3. in \in Seq(Octet) /\ was \in Seq(Octet)
  BY DdAssumption
<1> QED
  BY <1>2, <1>3

\* The flags do not change.
LEMMA DdGivenSame == ASSUME UNCHANGED ddGiven PROVE ibs' = ibs /\ ifrom' = ifrom /\ ofrom' = ofrom
BY DEF ddGiven, ibs, ifrom, ofrom, iseek, oseek

\* The files as they are opened.
LEMMA DdInitKept == ASSUME DdInit PROVE DdKept
<1> USE DEF DdInit
<1>1. /\ ibs \in Nat /\ opts.count \in Nat /\ was \in Seq(Octet)
  BY FlagsAre
<1>2. <<>> \in Seq(Octet) /\ Len(<<>>) = 0
  OBVIOUS
<1>3. DdTyped
  BY <1>1, <1>2 DEF DdTyped
<1>4. Unopened /\ InHand /\ WholeBlocks /\ OutputIs
  BY DEF Unopened, InHand, WholeBlocks, OutputIs
<1> QED
  BY <1>3, <1>4 DEF DdKept

\* The seeks.
LEMMA DdSeekKept == ASSUME DdKept, DdSeek PROVE DdKept'
<1> USE DEF DdKept, DdSeek
<1>1. /\ ibs \in Nat /\ ifrom \in Nat /\ ofrom \in Nat /\ opts.count \in Nat /\ was \in Seq(Octet)
      /\ ibs' = ibs /\ ifrom' = ifrom /\ ofrom' = ofrom
  BY FlagsAre, DdGivenSame DEF DdTyped
<1>2. /\ UNCHANGED ddGiven /\ out' = was /\ ib' = <<>> /\ nb' = 0 /\ ipos' = ifrom /\ opos' = ofrom /\ ddphase' = "read"
      /\ Len(<<>>) = 0
  BY DEF Unopened
<1>3. DdTyped'
  BY <1>1, <1>2 DEF DdTyped, ddGiven
<1>4. Passed' = 0 /\ nb' * ibs' = 0
  BY <1>1, <1>2 DEF Passed
<1>5. Unopened' /\ InHand' /\ WholeBlocks'
  BY <1>1, <1>2, <1>4 DEF Unopened, InHand, WholeBlocks, ddGiven
<1>6. OutputIs'
  BY <1>1, <1>2, <1>4 DEF OutputIs, ddGiven
<1> QED
  BY <1>3, <1>5, <1>6

\* A read goes on where the last one ended.
LEMMA DdReadKept == ASSUME DdKept, DdRead PROVE DdKept'
<1>1. PICK n \in 1..(ibs - Len(ib)) :
        ipos + n <= Len(in) /\ ib' = ib \o SubSeq(in, ipos + 1, ipos + n) /\ ipos' = ipos + n
  BY DEF DdRead
<1>2. /\ ibs \in Nat /\ ifrom \in Nat /\ ofrom \in Nat /\ opts.count \in Nat /\ in \in Seq(Octet) /\ Len(in) \in Nat
      /\ ibs' = ibs /\ ifrom' = ifrom /\ ofrom' = ofrom
  BY FlagsAre, DdGivenSame DEF DdKept, DdTyped, DdRead
<1>3. /\ UNCHANGED <<ddGiven, out, opos, nb, ddphase>> /\ ddphase = "read" /\ nb < opts.count
  BY DEF DdRead
<1>4. /\ ipos \in Nat /\ ib \in Seq(Octet) /\ Len(ib) \in Nat /\ n \in Nat /\ n >= 1 /\ Len(ib) + n <= ibs
  BY <1>1, <1>2 DEF DdKept, DdTyped
<1> DEFINE more == SubSeq(in, ipos + 1, ipos + n)
<1>5. \A i \in (ipos + 1)..(ipos + n) : in[i] \in Octet
  BY <1>1, <1>2, <1>4
<1>6. /\ more \in Seq(Octet) /\ Len(more) = n /\ \A i \in 1..n : more[i] = in[ipos + i]
  <2>1. /\ ipos + 1 \in Int /\ ipos + n \in Int /\ ipos + 1 <= ipos + n
        /\ (ipos + n) - (ipos + 1) + 1 = n /\ \A i \in 1..n : (ipos + 1) + i - 1 = ipos + i
    BY <1>4
  <2>2. /\ more \in Seq(Octet) /\ Len(more) = (ipos + n) - (ipos + 1) + 1
        /\ \A i \in 1..((ipos + n) - (ipos + 1) + 1) : more[i] = in[(ipos + 1) + i - 1]
    BY <1>5, <2>1, SubSeqProperties
  <2> HIDE DEF more
  <2> QED
    BY <2>1, <2>2
<1>7. ib' = ib \o more
  BY <1>1
<1> HIDE DEF more
<1>8. /\ ib' \in Seq(Octet) /\ Len(ib') = Len(ib) + n
      /\ \A k \in 1..Len(ib) : ib'[k] = ib[k]
      /\ \A k \in (Len(ib) + 1)..(Len(ib) + n) : ib'[k] = more[k - Len(ib)]
  <2>1. /\ ib \o more \in Seq(Octet) /\ Len(ib \o more) = Len(ib) + Len(more)
        /\ \A k \in 1..(Len(ib) + Len(more)) : (ib \o more)[k] = IF k <= Len(ib) THEN ib[k] ELSE more[k - Len(ib)]
    BY <1>4, <1>6, ConcatProperties
  <2>2. \A k \in 1..Len(ib) : k \in 1..(Len(ib) + n) /\ k <= Len(ib)
    BY <1>4
  <2>3. \A k \in (Len(ib) + 1)..(Len(ib) + n) : k \in 1..(Len(ib) + n) /\ ~(k <= Len(ib))
    BY <1>4
  <2> QED
    BY <1>6, <1>7, <2>1, <2>2, <2>3
<1>9. Passed' = Passed /\ Passed \in Nat /\ ipos = ifrom + Passed + Len(ib)
  BY <1>2, <1>3 DEF Passed, DdKept, InHand
<1>10. DdTyped'
  BY <1>1, <1>2, <1>3, <1>4, <1>8 DEF DdKept, DdTyped, ddGiven
<1>11. InHand'
  <2>1. \A k \in 1..Len(ib') : ib'[k] = in[ifrom + Passed + k]
    <3> SUFFICES ASSUME NEW k \in 1..Len(ib') PROVE ib'[k] = in[ifrom + Passed + k]
      OBVIOUS
    <3>1. CASE k <= Len(ib)
      <4>1. k \in 1..Len(ib)
        BY <1>4, <1>8, <3>1
      <4> QED
        BY <1>3, <1>8, <4>1 DEF DdKept, InHand
    <3>2. CASE k > Len(ib)
      <4>1. k - Len(ib) \in 1..n /\ k \in (Len(ib) + 1)..(Len(ib) + n) /\ ipos + (k - Len(ib)) = ifrom + Passed + k
        BY <1>2, <1>4, <1>8, <1>9, <3>2
      <4> QED
        BY <1>6, <1>8, <4>1
    <3> QED
      BY <1>4, <3>1, <3>2
  <2>2. ipos' = ifrom + Passed + Len(ib') /\ ipos' <= Len(in)
    BY <1>1, <1>2, <1>4, <1>8, <1>9
  <2> QED
    BY <1>2, <1>3, <1>9, <2>1, <2>2 DEF InHand, ddGiven
<1>12. Unopened' /\ WholeBlocks'
  BY <1>2, <1>3, <1>9 DEF DdKept, DdTyped, Unopened, WholeBlocks, ddGiven
<1>13. OutputIs'
  BY <1>2, <1>3, <1>9 DEF DdKept, OutputIs, ddGiven
<1> QED
  BY <1>10, <1>11, <1>12, <1>13 DEF DdKept

\* Nothing is written: the block is over, or all blocks are.
LEMMA DdPauseKept == ASSUME DdKept, BlockRead \/ CountReached PROVE DdKept'
<1>1. /\ ibs \in Nat /\ ifrom \in Nat /\ ofrom \in Nat /\ opts.count \in Nat
      /\ UNCHANGED <<ddGiven, out, ipos, opos, ib, nb>> /\ ddphase = "read" /\ ddphase' \in {"write", "exit"}
      /\ ibs' = ibs /\ ifrom' = ifrom /\ ofrom' = ofrom
  BY FlagsAre, DdGivenSame DEF DdKept, DdTyped, BlockRead, CountReached
<1>2. Passed' = Passed
  BY <1>1 DEF Passed
<1>3. DdTyped' /\ Unopened'
  BY <1>1 DEF DdKept, DdTyped, Unopened, ddGiven
<1>4. InHand' /\ OutputIs'
  BY <1>1, <1>2 DEF DdKept, InHand, OutputIs, ddGiven
<1>5. CASE BlockRead
  BY <1>1, <1>2, <1>3, <1>4, <1>5 DEF DdKept, WholeBlocks, BlockRead, WholeRead, ddGiven, DdTyped
<1>6. CASE CountReached
  <2>1. Passed = opts.count * ibs
    BY <1>1, <1>6 DEF DdKept, WholeBlocks, CountReached
  <2> QED
    BY <1>1, <1>2, <1>3, <1>4, <1>6, <2>1 DEF DdKept, WholeBlocks, CountReached, ddGiven
<1> QED
  BY <1>5, <1>6

\* A block is written after those before it.
LEMMA DdWriteKept == ASSUME DdKept, DdWrite PROVE DdKept'
<1>1. /\ ibs \in Nat /\ ifrom \in Nat /\ ofrom \in Nat /\ opts.count \in Nat
      /\ in \in Seq(Octet) /\ Len(in) \in Nat /\ was \in Seq(Octet) /\ Len(was) \in Nat
      /\ ibs' = ibs /\ ifrom' = ifrom /\ ofrom' = ofrom
  BY FlagsAre, DdGivenSame DEF DdKept, DdTyped, DdWrite
<1>2. /\ UNCHANGED ddGiven /\ ipos' = ipos /\ opos' = opos + Len(ib) /\ ib' = <<>> /\ nb' = nb + 1
      /\ ddphase = "write" /\ ddphase' = (IF Len(ib) < ibs THEN "exit" ELSE "read")
  BY DEF DdWrite
<1>3. /\ nb \in Nat /\ nb < opts.count /\ opos \in Nat /\ ipos \in Nat /\ Len(ib) \in Nat /\ Len(ib) <= ibs /\ ib \in Seq(Octet)
      /\ out \in Seq(Octet) /\ Len(out) \in Nat
  BY <1>1, <1>2 DEF DdKept, DdTyped, WholeBlocks
<1>4. /\ Passed \in Nat /\ opos = ofrom + Passed /\ ipos = ifrom + Passed + Len(ib)
      /\ Passed' = Passed + Len(ib) /\ Passed = nb * ibs /\ opos' = ofrom + Passed'
  BY <1>1, <1>2, <1>3 DEF DdKept, InHand, WholeBlocks, Passed
<1>5. /\ nb * ibs \in Nat /\ (nb + 1) * ibs = nb * ibs + ibs /\ (nb + 1) * ibs <= opts.count * ibs /\ opts.count * ibs \in Nat
  BY <1>1, <1>3, Products
<1>6. <<>> \in Seq(Octet) /\ Len(<<>>) = 0
  OBVIOUS
<1>7. WholeBlocks'
  <2>1. CASE Len(ib) < ibs
    <3>1. ipos >= Len(in)
      BY <1>2, <1>1, <1>3, <2>1 DEF DdKept, WholeBlocks
    <3>2. Passed' <= opts.count * ibs
      BY <1>1, <1>3, <1>4, <1>5, <2>1, SMTT(60)
    <3> QED
      BY <1>1, <1>2, <2>1, <3>1, <3>2 DEF WholeBlocks, ddGiven
  <2>2. CASE Len(ib) = ibs
    <3>1. Passed' = (nb + 1) * ibs
      BY <1>4, <1>5, <2>2
    <3>2. nb' * ibs' = (nb + 1) * ibs /\ ddphase' = "read"
      BY <1>1, <1>2, <2>2
    <3> QED
      BY <1>2, <3>1, <3>2 DEF WholeBlocks
  <2> QED
    BY <1>1, <1>3, <2>1, <2>2
<1>8. InHand'
  <2>1. ipos' = ifrom + Passed' + 0
    BY <1>1, <1>2, <1>3, <1>4
  <2>2. Passed' \in Nat /\ (ipos = ifrom \/ ipos <= Len(in))
    BY <1>2, <1>3, <1>4, SMTT(60) DEF DdKept, InHand
  <2>3. Len(ib') = 0 /\ \A k \in 1..Len(ib') : ib'[k] = in[ifrom + Passed' + k]
    BY <1>2, <1>6
  <2> QED
    BY <1>1, <1>2, <2>1, <2>2, <2>3 DEF InHand, ddGiven
<1>9. OutputIs /\ ddphase # "open"
  BY <1>2 DEF DdKept
<1>10. out' \in Seq(Octet) /\ OutputIs'
  <2>1. CASE ib = <<>>
    <3>1. out' = out /\ opos' = opos /\ Passed' = Passed
      BY <1>2, <1>3, <1>4, <1>6, <2>1 DEF DdWrite
    <3> QED
      BY <1>1, <1>2, <1>3, <1>9, <3>1 DEF OutputIs, ddGiven
  <2>2. CASE ib # <<>>
    <3> DEFINE m == IF opos + Len(ib) > Len(out) THEN opos + Len(ib) ELSE Len(out)
    <3>1. out' = [n \in 1..m |-> ByteAt(n)] /\ m \in Nat /\ Len(ib) >= 1
      BY <1>3, <2>2 DEF DdWrite
    <3>2. \A n \in 1..m : ByteAt(n) \in Octet
      <4>1. \A n \in 1..m : opos < n /\ n <= opos + Len(ib) => n - opos \in 1..Len(ib)
        BY <1>3, <3>1
      <4>2. \A n \in 1..m : n <= Len(out) => n \in 1..Len(out)
        BY <1>3, <3>1
      <4>3. (\A k \in 1..Len(ib) : ib[k] \in Octet) /\ (\A k \in 1..Len(out) : out[k] \in Octet)
        BY <1>3
      <4> HIDE DEF m
      <4> QED
        BY <4>1, <4>2, <4>3, DdAssumption DEF ByteAt
    <3>3. out' \in Seq(Octet) /\ Len(out') = m /\ \A n \in 1..m : out'[n] = ByteAt(n)
      <4> HIDE DEF m
      <4> QED
        BY <3>1, <3>2
    <3>4. Len(out') = IF Passed' > 0 /\ opos' > Len(was) THEN opos' ELSE Len(was)
      <4>1. Len(out) = IF Passed > 0 /\ opos > Len(was) THEN opos ELSE Len(was)
        BY <1>9 DEF OutputIs
      <4> QED
        BY <1>1, <1>2, <1>3, <1>4, <3>1, <3>3, <4>1
    <3>5. ASSUME NEW n \in 1..Passed' PROVE out'[ofrom + n] = in[ifrom + n]
      <4>1. ofrom + n \in 1..m /\ n \in Nat
        BY <1>1, <1>3, <1>4
      <4>2. CASE n <= Passed
        <5>1. n \in 1..Passed /\ ~(opos < ofrom + n) /\ ofrom + n <= Len(out)
          BY <1>1, <1>3, <1>4, <1>9, <4>1, <4>2, SMTT(60) DEF OutputIs
        <5>2. ByteAt(ofrom + n) = out[ofrom + n]
          BY <5>1 DEF ByteAt
        <5> QED
          BY <1>9, <3>3, <4>1, <5>1, <5>2 DEF OutputIs
      <4>3. CASE n > Passed
        <5>1. /\ opos < ofrom + n /\ ofrom + n <= opos + Len(ib) /\ (ofrom + n) - opos \in 1..Len(ib)
              /\ ifrom + Passed + ((ofrom + n) - opos) = ifrom + n
          BY <1>1, <1>3, <1>4, <4>1, <4>3
        <5>2. ByteAt(ofrom + n) = ib[(ofrom + n) - opos]
          BY <5>1 DEF ByteAt
        <5> QED
          BY <1>2, <3>3, <4>1, <5>1, <5>2 DEF DdKept, InHand
      <4> QED
        BY <1>4, <4>1, <4>2, <4>3
    <3>6. ASSUME NEW n \in DOMAIN was, n <= ofrom \/ n > opos' PROVE out'[n] = was[n]
      <4>1. n \in Nat /\ n >= 1 /\ n <= Len(was)
        BY <1>1
      <4>2. n <= Len(out) /\ n <= m
        BY <1>1, <1>3, <1>4, <1>9, <4>1 DEF OutputIs
      <4>3. ~(opos < n /\ n <= opos + Len(ib)) /\ (n <= ofrom \/ n > opos)
        BY <1>1, <1>2, <1>3, <1>4, <3>6, <4>1
      <4>4. out'[n] = out[n]
        BY <3>1, <3>3, <4>1, <4>2, <4>3 DEF ByteAt
      <4> QED
        BY <1>9, <4>3, <4>4 DEF OutputIs
    <3>7. UNCHANGED <<in, was, ofrom, ifrom>>
      BY <1>1, <1>2 DEF ddGiven
    <3> QED
      BY <3>3, <3>4, <3>5, <3>6, <3>7 DEF OutputIs
  <2> QED
    BY <2>1, <2>2
<1>11. DdTyped' /\ Unopened'
  BY <1>1, <1>2, <1>3, <1>6, <1>10 DEF DdKept, DdTyped, Unopened, ddGiven
<1> QED
  BY <1>7, <1>8, <1>10, <1>11 DEF DdKept

\* The types of dd, where it is in both files and what the output holds.
THEOREM DdInvariance == DdSpec => []DdKept
<1>1. ASSUME DdKept, DdNext PROVE DdKept'
  BY <1>1, DdSeekKept, DdReadKept, DdPauseKept, DdWriteKept DEF DdNext
<1>2. ASSUME DdKept, UNCHANGED ddVars PROVE DdKept'
  BY <1>2 DEF ddVars, DdKept, DdTyped, Unopened, InHand, WholeBlocks, OutputIs, Passed, ibs, ifrom, ofrom, iseek, oseek
<1> QED
  BY <1>1, <1>2, DdInitKept, PTL DEF DdSpec

\* However the reads are cut, whatever the flags and the lengths of the two files: what dd
\* has written when it ends (dd.go:83-125).
THEOREM DdCopies == DdSpec => []DdRight
<1>1. ASSUME DdKept, ddphase = "exit" PROVE DdRight
  <2>1. /\ ibs \in Nat /\ ifrom \in Nat /\ ofrom \in Nat /\ opts.count \in Nat
        /\ in \in Seq(Octet) /\ Len(in) \in Nat /\ was \in Seq(Octet) /\ Len(was) \in Nat
        /\ out \in Seq(Octet) /\ Len(out) \in Nat /\ opos \in Nat
    BY <1>1, FlagsAre DEF DdKept, DdTyped
  <2>2. opts.count * ibs \in Nat
    BY <2>1, Products
  <2>3. /\ Passed \in Nat /\ ipos = ifrom + Passed /\ (ipos = ifrom \/ ipos <= Len(in))
        /\ Passed <= opts.count * ibs /\ (Passed = opts.count * ibs \/ ipos >= Len(in)) /\ opos = ofrom + Passed
    <3>1. Len(ib) = 0 /\ Passed \in Nat
      BY <1>1 DEF DdKept, WholeBlocks, InHand
    <3> QED
      BY <1>1, <2>1, <3>1 DEF DdKept, WholeBlocks, InHand, Passed
  <2>4. DdLength(ifrom) = Passed
    BY <2>1, <2>2, <2>3 DEF DdLength
  <2>5. OutputIs
    BY <1>1 DEF DdKept
  <2>6. SubSeq(out, ofrom + 1, ofrom + Passed) = SubSeq(in, ifrom + 1, ifrom + Passed)
    <3>1. CASE Passed = 0
      <4>1. ofrom + Passed < ofrom + 1 /\ ifrom + Passed < ifrom + 1
        BY <2>1, <3>1
      <4>2. SubSeq(out, ofrom + 1, ofrom + Passed) = <<>>
        BY <2>1, <2>3, <4>1, SubSeqEmpty
      <4>3. SubSeq(in, ifrom + 1, ifrom + Passed) = <<>>
        BY <2>1, <2>3, <4>1, SubSeqEmpty
      <4> QED
        BY <4>2, <4>3
    <3>2. CASE Passed > 0
      <4> DEFINE s == SubSeq(out, ofrom + 1, ofrom + Passed)
                 t == SubSeq(in, ifrom + 1, ifrom + Passed)
      <4>1. /\ \A i \in (ofrom + 1)..(ofrom + Passed) : out[i] \in Octet
            /\ \A i \in (ifrom + 1)..(ifrom + Passed) : in[i] \in Octet
        <5>1. ofrom + Passed <= Len(out) /\ ifrom + Passed <= Len(in)
          BY <2>1, <2>3, <2>5, <1>1, <3>2 DEF OutputIs
        <5> QED
          BY <2>1, <2>3, <5>1
      <4>2. /\ (ofrom + Passed) - (ofrom + 1) + 1 = Passed /\ (ifrom + Passed) - (ifrom + 1) + 1 = Passed
            /\ ofrom + 1 <= ofrom + Passed /\ ifrom + 1 <= ifrom + Passed
            /\ \A i \in 1..Passed : (ofrom + 1) + i - 1 = ofrom + i /\ (ifrom + 1) + i - 1 = ifrom + i
            /\ ofrom + 1 \in Int /\ ofrom + Passed \in Int /\ ifrom + 1 \in Int /\ ifrom + Passed \in Int
        BY <2>1, <2>3, <3>2
      <4>3. /\ s \in Seq(Octet) /\ Len(s) = (ofrom + Passed) - (ofrom + 1) + 1
            /\ \A i \in 1..((ofrom + Passed) - (ofrom + 1) + 1) : s[i] = out[(ofrom + 1) + i - 1]
        BY <4>1, <4>2, SubSeqProperties
      <4>4. /\ t \in Seq(Octet) /\ Len(t) = (ifrom + Passed) - (ifrom + 1) + 1
            /\ \A i \in 1..((ifrom + Passed) - (ifrom + 1) + 1) : t[i] = in[(ifrom + 1) + i - 1]
        BY <4>1, <4>2, SubSeqProperties
      <4>5. \A i \in 1..Passed : out[ofrom + i] = in[ifrom + i]
        BY <1>1, <2>5 DEF OutputIs
      <4> HIDE DEF s, t
      <4>6. Len(s) = Passed /\ Len(t) = Passed /\ \A i \in 1..Passed : s[i] = t[i]
        BY <4>2, <4>3, <4>4, <4>5
      <4>7. s = t
        BY <4>3, <4>4, <4>6
      <4> QED
        BY <4>7 DEF s, t
    <3>3. Passed = 0 \/ Passed > 0
      BY <2>3
    <3> QED
      BY <3>1, <3>2, <3>3, Zenon
  <2>7. \A n \in DOMAIN was : n <= ofrom \/ n > ofrom + Passed => out[n] = was[n]
    BY <1>1, <2>3, <2>5 DEF OutputIs
  <2>8. Len(out) = IF Passed > 0 /\ ofrom + Passed > Len(was) THEN ofrom + Passed ELSE Len(was)
    BY <1>1, <2>3, <2>5 DEF OutputIs
  <2>9. CopiedFrom(ifrom, ofrom)
    BY <2>4, <2>6, <2>7, <2>8 DEF CopiedFrom
  <2> QED
    BY <2>9 DEF DdRight
<1>2. ASSUME DdKept PROVE DdRight
  BY <1>1, <1>2 DEF DdRight
<1> QED
  BY <1>2, DdInvariance, PTL

-----------------------------------------------------------------------------
(* rec *)

\* A queue holds the frames that follow a number.
Numbered(q, from) == Len(q) \in Nat /\ q = [k \in 1..Len(q) |-> from + k]

\* The frames of the encoder, and those that main has handed on.
Held == IF enc = "send" THEN 1 ELSE 0
HandedOn == IF recmain = "send" THEN frame - 1 ELSE frame
\* The frames the writer has taken.
Carried == IF wrt = "write" THEN 1 ELSE 0
TakenOut == Len(written) + Carried

\* The types.
RecTyped ==
    /\ rate \in Rates /\ frame \in 0..MaxFrames
    /\ recmain \in {"tick", "send", "close", "donec", "exit", "fatal"}
    /\ enc \in {"receive", "send", "stop"} /\ wrt \in {"receive", "write", "donec", "stop"}
    /\ imgClosed \in BOOLEAN /\ byteClosed \in BOOLEAN
    /\ recmain = "send" => frame # 0
Room == Len(imgc) <= ChanCap /\ Len(bytec) <= ChanCap

\* The frames are in the order of their capture along the way to standard output.
InOrder ==
    /\ Numbered(written, 0) /\ Numbered(bytec, TakenOut)
    /\ wrt = "write" => wbuf = Len(written) + 1
    /\ enc = "send" => img = TakenOut + Len(bytec) + 1
    /\ Numbered(imgc, TakenOut + Len(bytec) + Held)
    /\ TakenOut + Len(bytec) + Held + Len(imgc) = HandedOn

\* With -f 0 there is one frame, and the goroutines end one after the other.
OneFrame ==
    /\ rate = 0 /\ recmain = "tick" => frame = 0
    /\ rate = 0 /\ recmain = "send" => frame = 1
    /\ recmain \in {"close", "donec", "exit"} => rate = 0 /\ frame = 1
Closing ==
    /\ imgClosed => recmain \in {"donec", "exit"}
    /\ enc = "stop" <=> byteClosed
    /\ byteClosed => imgClosed /\ imgc = <<>>
    /\ wrt \notin {"receive", "write"} => byteClosed /\ bytec = <<>>
    /\ recmain = "exit" => wrt = "stop"

RecKept == RecTyped /\ Room /\ InOrder /\ OneFrame /\ Closing

\* A queue at its ends.
LEMMA NumberedEmpty == ASSUME NEW from \in Nat PROVE Numbered(<<>>, from) /\ Len(<<>>) = 0
BY DEF Numbered

\* A frame more at the end.
LEMMA NumberedAppend ==
  ASSUME NEW q, NEW from \in Nat, Numbered(q, from), NEW x, x = from + Len(q) + 1
  PROVE  Numbered(Append(q, x), from) /\ Len(Append(q, x)) = Len(q) + 1
<1> DEFINE m == Len(q)
<1>1. m \in Nat /\ q = [k \in 1..m |-> from + k]
  BY DEF Numbered
<1> HIDE DEF m
<1>2. Append(q, x) = [k \in 1..(m + 1) |-> from + k]
  <2>1. x = from + (m + 1)
    BY <1>1 DEF m
  <2> QED
    BY <1>1, <2>1
<1>3. Len(Append(q, x)) = m + 1
  BY <1>1, <1>2
<1> QED
  BY <1>1, <1>2, <1>3 DEF Numbered, m

\* A frame less at the front.
LEMMA NumberedTail ==
  ASSUME NEW q, NEW from \in Nat, Numbered(q, from), q # <<>>
  PROVE  /\ Head(q) = from + 1 /\ Numbered(Tail(q), from + 1) /\ Len(Tail(q)) = Len(q) - 1
         /\ Len(q) >= 1
<1> DEFINE m == Len(q)
<1>1. m \in Nat /\ q = [k \in 1..m |-> from + k]
  BY DEF Numbered
<1>2. q \in Seq(Nat)
  BY <1>1
<1>3. m >= 1
  BY <1>1, <1>2
<1>4. Head(q) = from + 1
  BY <1>1, <1>2, <1>3
<1>5. Tail(q) \in Seq(Nat) /\ Len(Tail(q)) = m - 1 /\ \A k \in 1..(m - 1) : Tail(q)[k] = q[k + 1]
  BY <1>2, <1>3
<1> HIDE DEF m
<1>6. \A k \in 1..(m - 1) : Tail(q)[k] = (from + 1) + k
  <2> SUFFICES ASSUME NEW k \in 1..(m - 1) PROVE Tail(q)[k] = (from + 1) + k
    OBVIOUS
  <2>1. k + 1 \in 1..m
    BY <1>1
  <2>2. q[k + 1] = from + (k + 1)
    BY <1>1, <2>1
  <2> QED
    BY <1>5, <2>2
<1>7. Tail(q) = [k \in 1..(m - 1) |-> (from + 1) + k]
  <2>1. DOMAIN Tail(q) = 1..(m - 1) /\ Tail(q) = [k \in 1..(m - 1) |-> Tail(q)[k]]
    <3>1. \A t : t \in Seq(Nat) => t = [k \in 1..Len(t) |-> t[k]] /\ DOMAIN t = 1..Len(t)
      OBVIOUS
    <3>2. Tail(q) = [k \in 1..Len(Tail(q)) |-> Tail(q)[k]] /\ DOMAIN Tail(q) = 1..Len(Tail(q))
      BY <1>5, <3>1
    <3> QED
      BY <1>5, <3>2
  <2>2. [k \in 1..(m - 1) |-> Tail(q)[k]] = [k \in 1..(m - 1) |-> (from + 1) + k]
    BY <1>6
  <2> QED
    BY <2>1, <2>2
<1> QED
  BY <1>1, <1>3, <1>4, <1>5, <1>7 DEF Numbered, m

\* Every step keeps the frames in order.
LEMMA InOrderStep ==
  ASSUME RecKept, RecNext
  PROVE  InOrder' /\ Room'
<1> DEFINE a == TakenOut
<1> DEFINE b == Len(bytec)
<1>1. /\ Numbered(written, 0) /\ Numbered(bytec, a) /\ (wrt = "write" => wbuf = Len(written) + 1)
      /\ enc = "send" => img = a + b + 1
      /\ Numbered(imgc, a + b + Held)
      /\ a + b + Held + Len(imgc) = HandedOn
  BY DEF RecKept, InOrder
<1>2. a \in Nat /\ b \in Nat /\ Len(imgc) \in Nat /\ Held \in 0..1 /\ frame \in Nat /\ Len(written) \in Nat
  BY <1>1 DEF Numbered, Held, RecKept, RecTyped, TakenOut, Carried
<1>3. ChanCap \in Nat /\ Len(imgc) <= ChanCap /\ b <= ChanCap
  BY RecAssumption DEF RecKept, Room
<1> HIDE DEF a, b
<1>4. CASE Capture
  <2>1. UNCHANGED <<wrt, wbuf, written, bytec, enc, img, imgc>> /\ HandedOn' = HandedOn
    BY <1>2, <1>4 DEF Capture, HandedOn
  <2> QED
    BY <1>1, <1>3, <2>1 DEF InOrder, Room, Held, TakenOut, Carried, a, b
<1>5. CASE SendFrame
  <2>1. /\ UNCHANGED <<wrt, wbuf, written, bytec, enc, img, frame>> /\ imgc' = Append(imgc, frame)
        /\ HandedOn = frame - 1 /\ HandedOn' = frame /\ Len(imgc) < ChanCap
    BY <1>5 DEF SendFrame, HandedOn
  <2>2. a + b + Held \in Nat /\ frame = (a + b + Held) + Len(imgc) + 1
    BY <1>1, <1>2, <2>1
  <2>3. Numbered(Append(imgc, frame), a + b + Held) /\ Len(Append(imgc, frame)) = Len(imgc) + 1
    BY <1>1, <2>2, NumberedAppend
  <2>4. Held' = Held
    BY <2>1 DEF Held
  <2>5. a + b + Held + (Len(imgc) + 1) = frame /\ Len(imgc) + 1 <= ChanCap
    BY <1>2, <1>3, <2>1, <2>2
  <2> QED
    BY <1>1, <1>3, <2>1, <2>3, <2>4, <2>5 DEF InOrder, Room, TakenOut, Carried, a, b
<1>6. CASE Encode
  <2>1. /\ UNCHANGED <<wrt, wbuf, written, bytec, frame, recmain>> /\ enc = "receive" /\ enc' = "send"
        /\ imgc # <<>> /\ img' = Head(imgc) /\ imgc' = Tail(imgc)
    BY <1>6 DEF Encode
  <2>2. Held = 0 /\ Held' = 1 /\ HandedOn' = HandedOn
    BY <2>1 DEF Held, HandedOn
  <2>3. Numbered(imgc, a + b) /\ a + b \in Nat
    BY <1>1, <1>2, <2>2
  <2>4. /\ Head(imgc) = a + b + 1 /\ Numbered(Tail(imgc), a + b + 1)
        /\ Len(Tail(imgc)) = Len(imgc) - 1
    BY <2>1, <2>3, NumberedTail
  <2>5. a + b + 1 + (Len(imgc) - 1) = HandedOn /\ Len(imgc) - 1 <= ChanCap
    BY <1>1, <1>2, <1>3, <2>2
  <2> QED
    BY <1>1, <1>3, <2>1, <2>2, <2>4, <2>5 DEF InOrder, Room, TakenOut, Carried, a, b
<1>7. CASE SendBytes
  <2>1. /\ UNCHANGED <<wrt, wbuf, written, imgc, frame, recmain>> /\ enc = "send" /\ enc' = "receive"
        /\ bytec' = Append(bytec, img) /\ b < ChanCap
    BY <1>7 DEF SendBytes, b
  <2>2. Held = 1 /\ Held' = 0 /\ HandedOn' = HandedOn /\ img = a + b + 1
    BY <1>1, <2>1 DEF Held, HandedOn
  <2>3. Numbered(Append(bytec, img), a) /\ Len(Append(bytec, img)) = b + 1
    <3>1. img = a + Len(bytec) + 1
      BY <2>2 DEF b
    <3>2. Len(Append(bytec, img)) = Len(bytec) + 1 /\ Numbered(Append(bytec, img), a)
      BY <1>1, <1>2, <3>1, NumberedAppend
    <3> QED
      BY <3>2 DEF b
  <2>4. a + (b + 1) + 0 = a + b + 1 /\ b + 1 <= ChanCap
    BY <1>2, <1>3, <2>1
  <2>5. enc' # "send"
    BY <2>1
  <2> QED
    BY <1>1, <1>3, <2>1, <2>2, <2>3, <2>4, <2>5 DEF InOrder, Room, TakenOut, Carried, a, b
<1>8. CASE EncodeEnds
  <2>1. UNCHANGED <<wrt, wbuf, written, bytec, imgc, frame, recmain>> /\ enc # "send" /\ enc' # "send"
    BY <1>8 DEF EncodeEnds
  <2>2. Held' = Held /\ HandedOn' = HandedOn
    BY <2>1 DEF Held, HandedOn
  <2> QED
    BY <1>1, <1>3, <2>1, <2>2 DEF InOrder, Room, TakenOut, Carried, a, b
<1>9. CASE TakeFrame
  <2>1. /\ UNCHANGED <<written, imgc, enc, img, frame, recmain>> /\ bytec # <<>>
        /\ wrt = "receive" /\ wrt' = "write" /\ wbuf' = Head(bytec) /\ bytec' = Tail(bytec)
    BY <1>9 DEF TakeFrame
  <2>2. Held' = Held /\ HandedOn' = HandedOn
    BY <2>1 DEF Held, HandedOn
  <2>3. /\ Head(bytec) = a + 1 /\ Numbered(Tail(bytec), a + 1) /\ Len(Tail(bytec)) = b - 1 /\ b >= 1
    BY <1>1, <1>2, <2>1, NumberedTail DEF b
  <2>4. a = Len(written) /\ TakenOut' = a + 1
    BY <1>2, <2>1 DEF TakenOut, Carried, a
  <2>5. (a + 1) + (b - 1) = a + b /\ b - 1 <= ChanCap
    BY <1>2, <1>3, <2>3
  <2>6. wbuf' = Len(written)' + 1 /\ Numbered(bytec', TakenOut') /\ Len(bytec') = b - 1
    BY <2>1, <2>3, <2>4
  <2> QED
    BY <1>1, <1>2, <1>3, <2>1, <2>2, <2>4, <2>5, <2>6 DEF InOrder, Room
<1>11. CASE WriteFrame
  <2>1. /\ UNCHANGED <<bytec, imgc, enc, img, frame, recmain>>
        /\ wrt = "write" /\ wrt' = "receive" /\ written' = Append(written, wbuf)
    BY <1>11 DEF WriteFrame
  <2>2. Held' = Held /\ HandedOn' = HandedOn
    BY <2>1 DEF Held, HandedOn
  <2>3. wbuf = 0 + Len(written) + 1 /\ 0 \in Nat
    BY <1>1, <1>2, <2>1
  <2>4. Numbered(written', 0) /\ Len(written') = Len(written) + 1
    BY <1>1, <2>1, <2>3, NumberedAppend
  <2>5. TakenOut' = a
    BY <1>2, <2>1, <2>4 DEF TakenOut, Carried, a
  <2> QED
    BY <1>1, <1>3, <2>1, <2>2, <2>4, <2>5 DEF InOrder, Room, b
<1>10. CASE CloseImgc \/ WriteEnds \/ RecDonec
  <2>1. /\ UNCHANGED <<written, bytec, imgc, frame, enc, img>>
        /\ wrt # "write" => wrt' # "write"
        /\ wrt = "write" => wrt' = "write" /\ wbuf' = wbuf
        /\ recmain' = recmain \/ (recmain' # "send" /\ recmain # "send")
    BY <1>10 DEF CloseImgc, WriteEnds, RecDonec
  <2>2. Held' = Held /\ HandedOn' = HandedOn /\ TakenOut' = a
    BY <2>1 DEF Held, HandedOn, TakenOut, Carried, a
  <2> QED
    BY <1>1, <1>3, <2>1, <2>2 DEF InOrder, Room, b
<1> QED
  BY <1>4, <1>5, <1>6, <1>7, <1>8, <1>9, <1>10, <1>11 DEF RecNext

\* Every step keeps the types and the order of the ends.
LEMMA EndsInTurn ==
  ASSUME RecKept, RecNext
  PROVE  RecTyped' /\ OneFrame' /\ Closing'
<1> USE DEF RecKept, RecTyped, OneFrame, Closing
<1>0. MaxFrames \in Nat /\ frame \in Nat
  BY RecAssumption
<1>1. CASE Capture
  <2>1. /\ recmain = "tick" /\ frame < MaxFrames
        /\ \/ recmain' = "fatal" /\ frame' = frame
           \/ recmain' = "send" /\ frame' = frame + 1
        /\ UNCHANGED <<rate, imgc, imgClosed, enc, bytec, byteClosed, wrt>>
    BY <1>1 DEF Capture
  <2>2. frame' \in 0..MaxFrames /\ (recmain' = "send" => frame' # 0)
    BY <1>0, <2>1
  <2>3. RecTyped'
    BY <2>1, <2>2
  <2>4. OneFrame'
    BY <1>0, <2>1
  <2> QED
    BY <2>1, <2>3, <2>4
<1>2. CASE SendFrame
  BY <1>2 DEF SendFrame
<1>3. CASE CloseImgc
  BY <1>3 DEF CloseImgc
<1>4. CASE Encode
  BY <1>4 DEF Encode
<1>5. CASE SendBytes
  BY <1>5 DEF SendBytes
<1>6. CASE EncodeEnds
  BY <1>6 DEF EncodeEnds
<1>7. CASE TakeFrame \/ WriteFrame
  BY <1>7 DEF TakeFrame, WriteFrame
<1>8. CASE WriteEnds
  BY <1>8 DEF WriteEnds, WrittenAll
<1>9. CASE RecDonec
  BY <1>9 DEF RecDonec
<1> QED
  BY <1>1, <1>2, <1>3, <1>4, <1>5, <1>6, <1>7, <1>8, <1>9 DEF RecNext

\* Nothing is captured yet.
LEMMA RecInitRight == ASSUME RecInit PROVE RecKept
<1>1. /\ rate \in Rates /\ recmain = "tick" /\ frame = 0 /\ imgc = <<>> /\ imgClosed = FALSE
      /\ enc = "receive" /\ bytec = <<>> /\ byteClosed = FALSE /\ wrt = "receive" /\ written = <<>>
  BY DEF RecInit
<1>2. Numbered(<<>>, 0) /\ Len(<<>>) = 0
  BY NumberedEmpty
<1>3. Held = 0 /\ HandedOn = 0 /\ TakenOut = 0
  BY <1>1, <1>2 DEF Held, HandedOn, TakenOut, Carried
<1>4. InOrder /\ Room
  BY <1>1, <1>2, <1>3, RecAssumption DEF InOrder, Room
<1>5. RecTyped
  <2>1. 0 \in 0..MaxFrames
    BY RecAssumption
  <2> QED
    BY <1>1, <2>1 DEF RecTyped
<1>6. OneFrame /\ Closing
  BY <1>1 DEF OneFrame, Closing
<1> QED
  BY <1>4, <1>5, <1>6 DEF RecKept

\* The inductive invariant holds in every state.
THEOREM RecInvariance == RecSpec => []RecKept
<1>1. RecInit => RecKept
  BY RecInitRight
<1>2. RecKept /\ [RecNext]_recVars => RecKept'
  <2> SUFFICES ASSUME RecKept, [RecNext]_recVars PROVE RecKept'
    OBVIOUS
  <2>1. CASE UNCHANGED recVars
    BY <2>1 DEF recVars, RecKept, RecTyped, Room, InOrder, Held, HandedOn, TakenOut, Carried, OneFrame, Closing
  <2>2. CASE RecNext
    BY <2>2, InOrderStep, EndsInTurn DEF RecKept
  <2> QED
    BY <2>1, <2>2
<1> QED
  BY <1>1, <1>2, PTL DEF RecSpec

\* The frames come out in the order of their capture, whatever the rate, the room in the
\* channels and the order of the goroutines (rec.go).
THEOREM FramesInOrder == RecSpec => []RecRight
<1>1. ASSUME RecKept PROVE RecRight
  <2>1. RecTypeOK
    BY <1>1 DEF RecKept, RecTyped, Room, RecTypeOK
  <2>2. Len(written) \in Nat /\ Len(bytec) \in Nat /\ Len(imgc) \in Nat /\ written = [k \in 1..Len(written) |-> 0 + k]
    BY <1>1 DEF RecKept, InOrder, Numbered
  <2>3. written = [k \in 1..Len(written) |-> k]
    <3>1. \A k \in 1..Len(written) : 0 + k = k
      BY <2>2
    <3> QED
      BY <2>2, <3>1
  <2>4. Held \in 0..1 /\ HandedOn \in {frame, frame - 1} /\ Len(written) + Carried + Len(bytec) + Held + Len(imgc) = HandedOn
        /\ frame \in Nat /\ Carried \in 0..1
    <3>1. TakenOut + Len(bytec) + Held + Len(imgc) = HandedOn /\ TakenOut = Len(written) + Carried
      BY <1>1 DEF RecKept, InOrder, TakenOut
    <3>2. Held \in 0..1 /\ Carried \in 0..1 /\ HandedOn \in {frame, frame - 1} /\ frame \in Nat
      BY <1>1, RecAssumption DEF RecKept, RecTyped, Held, Carried, HandedOn
    <3> QED
      BY <2>2, <3>1, <3>2
  <2>5. recmain = "exit" => rate = 0 /\ written = <<1>>
    <3> SUFFICES ASSUME recmain = "exit" PROVE rate = 0 /\ written = <<1>>
      OBVIOUS
    <3>1. rate = 0 /\ frame = 1 /\ bytec = <<>> /\ imgc = <<>> /\ enc = "stop" /\ HandedOn = 1 /\ Held = 0 /\ Carried = 0
      BY <1>1 DEF RecKept, OneFrame, Closing, HandedOn, Held, Carried
    <3>2. Len(written) = 1
      <4>1. Len(bytec) = 0 /\ Len(imgc) = 0
        BY <3>1
      <4>2. Len(written) + 0 + 0 + 0 + 0 = 1 /\ Len(written) \in Nat
        BY <2>2, <2>4, <3>1, <4>1
      <4> QED
        BY <4>2
    <3> QED
      BY <2>3, <3>1, <3>2
  <2>6. Len(written) >= frame - 2 * ChanCap - 3 /\ (recmain = "fatal" => Len(written) >= frame - 2 * ChanCap - 2)
    <3>1. ChanCap \in Nat /\ Len(bytec) <= ChanCap /\ Len(imgc) <= ChanCap
      BY <1>1, RecAssumption DEF RecKept, Room
    <3>2. recmain = "fatal" => HandedOn = frame
      BY DEF HandedOn
    <3> QED
      BY <2>2, <2>4, <3>1, <3>2
  <2> QED
    BY <2>1, <2>3, <2>5, <2>6 DEF RecRight
<1> QED
  BY <1>1, RecInvariance, PTL

-----------------------------------------------------------------------------
(* gif *)

\* A stream is decoded as long as there are images in it.
Streamed == ~byName => \A l \in 1..(piece - 1) : pictures[l] = "image"
\* The decoder has an image in hand, or has come to the end.
Decoding ==
    /\ decoder = "send" => piece <= Len(pictures) /\ pictures[piece] = "image"
    /\ decoder = "closed" => piece = Len(pictures) + 1 \/ (~byName /\ pictures[piece] # "image")
    /\ gifmain # "range" => decoder = "closed"
\* The images before piece, in their order.
Converted ==
    /\ frames \in Seq(Nat)
    /\ {frames[k] : k \in DOMAIN frames} = {k \in 1..(piece - 1) : pictures[k] = "image"}
    /\ \A k, l \in DOMAIN frames : k < l => frames[k] < frames[l]
Encoded == GifEnded =>
    /\ DOMAIN anim = DOMAIN frames /\ \A k \in DOMAIN frames : anim[k][1] = frames[k]
    /\ gifmain = "exit" <=> anim # <<>>

GifKept == GifTypeOK /\ Streamed /\ Decoding /\ Converted /\ Encoded

\* What the pictures are.
LEMMA PicturesAre ==
  ASSUME GifTypeOK
  PROVE  /\ pictures \in Seq({"image", "missing", "junk"}) /\ Len(pictures) \in Nat
         /\ DOMAIN pictures = 1..Len(pictures) /\ piece \in 1..(Len(pictures) + 1) /\ piece \in Nat
<1>1. pictures \in Seq({"image", "missing", "junk"}) /\ piece \in 1..(Len(pictures) + 1)
  BY GifAssumption DEF GifTypeOK
<1>2. Len(pictures) \in Nat /\ DOMAIN pictures = 1..Len(pictures)
  BY <1>1
<1> QED
  BY <1>1, <1>2

\* Nothing is decoded yet.
LEMMA GifInitKept == ASSUME GifInit PROVE GifKept
<1> USE DEF GifInit
<1>1. pictures \in Seq({"image", "missing", "junk"})
  BY GifAssumption
<1>2. Len(pictures) \in Nat
  BY <1>1
<1>3. GifTypeOK
  BY <1>2 DEF GifTypeOK
<1>4. Len(<<>>) = 0 /\ DOMAIN <<>> = {}
  OBVIOUS
<1>5. Converted
  BY <1>4 DEF Converted
<1> QED
  BY <1>3, <1>5 DEF GifKept, Streamed, Decoding, Encoded, GifEnded

\* What is passed over is not wanted.
LEMMA GifDecodeKept == ASSUME GifKept, GifDecode PROVE GifKept'
<1> USE DEF GifDecode
<1>1. /\ UNCHANGED <<pictures, byName, delay, frames, anim, gifmain>> /\ decoder = "decode" /\ gifmain = "range"
  BY DEF GifKept, GifTypeOK, Decoding
<1>2. Len(pictures) \in Nat /\ DOMAIN pictures = 1..Len(pictures) /\ piece \in 1..(Len(pictures) + 1) /\ piece \in Nat
  BY PicturesAre DEF GifKept
<1>3. ~GifEnded'
  BY <1>1 DEF GifEnded
<1>4. CASE piece' = piece
  <2>1. GifTypeOK' /\ Streamed' /\ Converted' /\ Encoded'
    BY <1>1, <1>3, <1>4 DEF GifKept, GifTypeOK, Streamed, Converted, Encoded
  <2>2. Decoding'
    <3>1. CASE piece > Len(pictures)
      <4>1. decoder' = "closed" /\ piece = Len(pictures) + 1
        BY <1>2, <3>1
      <4> QED
        BY <4>1, <1>1, <1>4 DEF Decoding
    <3>2. CASE piece <= Len(pictures) /\ pictures[piece] = "image"
      BY <1>1, <1>2, <1>4, <3>2 DEF Decoding
    <3>3. CASE piece <= Len(pictures) /\ pictures[piece] # "image"
      <4>1. ~byName /\ decoder' = "closed"
        BY <1>2, <1>4, <3>3 DEF Skips
      <4> QED
        BY <4>1, <1>1, <1>4, <3>3 DEF Decoding
    <3> QED
      BY <1>2, <3>1, <3>2, <3>3
  <2> QED
    BY <2>1, <2>2 DEF GifKept
<1>5. CASE piece' # piece
  <2>1. piece <= Len(pictures) /\ piece' = piece + 1 /\ decoder' = "decode" /\ byName /\ pictures[piece] # "image"
    BY <1>2, <1>5 DEF Skips
  <2>2. GifTypeOK'
    BY <1>1, <1>2, <2>1 DEF GifKept, GifTypeOK
  <2>3. {k \in 1..(piece' - 1) : pictures[k] = "image"} = {k \in 1..(piece - 1) : pictures[k] = "image"}
    BY <1>2, <2>1
  <2>4. Converted'
    BY <1>1, <2>3 DEF GifKept, Converted
  <2> QED
    BY <1>1, <1>3, <2>1, <2>2, <2>4 DEF GifKept, Streamed, Decoding, Encoded
<1> QED
  BY <1>4, <1>5

\* The next frame is the next one wanted.
LEMMA ConvertKept == ASSUME GifKept, Convert PROVE GifKept'
<1> USE DEF Convert
<1>1. /\ UNCHANGED <<pictures, byName, delay, anim, gifmain>> /\ decoder = "send" /\ gifmain = "range"
      /\ frames' = Append(frames, piece) /\ piece' = piece + 1 /\ decoder' = "decode"
  OBVIOUS
<1>2. /\ Len(pictures) \in Nat /\ piece \in 1..Len(pictures) /\ piece \in Nat /\ pictures[piece] = "image"
  BY <1>1, PicturesAre DEF GifKept, Decoding
<1>3. /\ \A k \in DOMAIN frames : frames[k] \in 1..(piece - 1)
      /\ {frames[k] : k \in DOMAIN frames} = {k \in 1..(piece - 1) : pictures[k] = "image"}
      /\ Len(frames) \in Nat /\ DOMAIN frames = 1..Len(frames)
      /\ \A k, l \in DOMAIN frames : k < l => frames[k] < frames[l]
  <2>1. frames \in Seq(Nat) /\ {frames[k] : k \in DOMAIN frames} = {k \in 1..(piece - 1) : pictures[k] = "image"}
    BY DEF GifKept, Converted
  <2>2. Len(frames) \in Nat /\ DOMAIN frames = 1..Len(frames)
    BY <2>1
  <2>3. \A k \in DOMAIN frames : frames[k] \in {l \in 1..(piece - 1) : pictures[l] = "image"}
    BY <2>1
  <2> QED
    BY <2>1, <2>2, <2>3 DEF GifKept, Converted
<1>4. /\ Len(frames') = Len(frames) + 1 /\ DOMAIN frames' = 1..Len(frames')
      /\ frames'[Len(frames) + 1] = piece /\ \A k \in DOMAIN frames : frames'[k] = frames[k]
  <2>1. frames \in Seq(Nat)
    BY DEF GifKept, Converted
  <2> QED
    BY <2>1, <1>1, <1>2
<1>5. GifTypeOK'
  BY <1>1, <1>2 DEF GifKept, GifTypeOK
<1>6. Converted'
  <2>1. {frames'[k] : k \in DOMAIN frames'} = {frames[k] : k \in DOMAIN frames} \cup {piece}
    BY <1>3, <1>4
  <2>2. {k \in 1..(piece' - 1) : pictures[k] = "image"} = {k \in 1..(piece - 1) : pictures[k] = "image"} \cup {piece}
    BY <1>1, <1>2
  <2>3. ASSUME NEW k \in DOMAIN frames', NEW l \in DOMAIN frames', k < l PROVE frames'[k] < frames'[l]
    <3>1. k \in DOMAIN frames
      BY <2>3, <1>3, <1>4
    <3>2. CASE l = Len(frames) + 1
      BY <3>1, <3>2, <1>2, <1>3, <1>4
    <3>3. CASE l # Len(frames) + 1
      BY <3>1, <3>3, <2>3, <1>3, <1>4
    <3> QED
      BY <3>2, <3>3
  <2> QED
    <3>1. frames' \in Seq(Nat)
      BY <1>1, <1>2 DEF GifKept, Converted
    <3> QED
      BY <2>1, <2>2, <2>3, <3>1, <1>1, <1>3, <1>4 DEF Converted
<1>7. Streamed'
  BY <1>1, <1>2 DEF GifKept, Streamed
<1> QED
  BY <1>1, <1>5, <1>6, <1>7 DEF GifKept, Decoding, Encoded, GifEnded

\* The frames at the end, with their delays.
LEMMA EndKept == ASSUME GifKept, RangeEnd \/ EncodeAll PROVE GifKept'
<1>1. UNCHANGED <<pictures, byName, delay, piece, decoder, frames>> /\ decoder = "closed"
  BY DEF GifKept, Decoding, RangeEnd, EncodeAll
<1>2. GifTypeOK' /\ Streamed' /\ Decoding' /\ Converted'
  BY <1>1 DEF GifKept, GifTypeOK, Streamed, Decoding, Converted, RangeEnd, EncodeAll
<1>3. Encoded'
  <2>1. CASE RangeEnd
    BY <2>1 DEF RangeEnd, Encoded, GifEnded
  <2>2. CASE EncodeAll
    <3>1. anim' = [k \in DOMAIN frames |-> <<frames[k], delay \div PerDelay>>] /\ gifmain' = (IF frames = <<>> THEN "fatal" ELSE "exit")
      BY <2>2 DEF EncodeAll
    <3>2. DOMAIN anim' = DOMAIN frames /\ \A k \in DOMAIN frames : anim'[k][1] = frames[k]
      BY <3>1
    <3>3. Len(frames) \in Nat /\ DOMAIN frames = 1..Len(frames) /\ frames = [k \in 1..Len(frames) |-> frames[k]]
      <4>1. frames \in Seq(Nat)
        BY DEF GifKept, Converted
      <4> QED
        BY <4>1
    <3>4. frames = <<>> <=> anim' = <<>>
      <4>1. DOMAIN <<>> = {}
        OBVIOUS
      <4>2. CASE Len(frames) = 0
        <5>1. DOMAIN frames = {} /\ \A k \in {} : FALSE
          BY <3>3, <4>2
        <5>2. frames = <<>>
          BY <3>3, <4>2
        <5>3. anim' = <<>>
          BY <3>1, <3>3, <4>2
        <5> QED
          BY <5>2, <5>3
      <4>3. CASE Len(frames) # 0
        <5>1. 1 \in DOMAIN frames
          BY <3>3, <4>3
        <5> QED
          BY <5>1, <4>1, <3>2
      <4> QED
        BY <4>2, <4>3
    <3> QED
      BY <1>1, <3>1, <3>2, <3>4 DEF Encoded
  <2> QED
    BY <2>1, <2>2
<1> QED
  BY <1>2, <1>3 DEF GifKept

\* The types of gif, and what has become of the images so far.
THEOREM GifInvariance == GifSpec => []GifKept
<1>1. ASSUME GifKept, GifNext PROVE GifKept'
  BY <1>1, GifDecodeKept, ConvertKept, EndKept DEF GifNext
<1>2. ASSUME GifKept, UNCHANGED gifVars PROVE GifKept'
  BY <1>2 DEF gifVars, GifKept, GifTypeOK, Streamed, Decoding, Converted, Encoded, GifEnded
<1> QED
  BY <1>1, <1>2, GifInitKept, PTL DEF GifSpec

\* The animation at the end has the images wanted.
LEMMA KeptAnimates == ASSUME GifKept PROVE GifRight
<1>1. ASSUME GifEnded
      PROVE  /\ \A k, l \in DOMAIN anim : k < l => anim[k][1] < anim[l][1]
             /\ {anim[k][1] : k \in DOMAIN anim} = Wanted
             /\ gifmain = "exit" <=> anim # <<>>
  <2>1. DOMAIN anim = DOMAIN frames /\ \A k \in DOMAIN frames : anim[k][1] = frames[k]
    BY <1>1 DEF GifKept, Encoded
  <2>2. decoder = "closed"
    BY <1>1 DEF GifKept, Decoding, GifEnded
  <2>3. Len(pictures) \in Nat /\ DOMAIN pictures = 1..Len(pictures) /\ piece \in 1..(Len(pictures) + 1) /\ piece \in Nat
    BY PicturesAre DEF GifKept
  <2>4. {k \in 1..(piece - 1) : pictures[k] = "image"} = Wanted
    <3>1. CASE piece = Len(pictures) + 1
      BY <3>1, <2>3 DEF GifKept, Streamed, Wanted
    <3>2. CASE piece # Len(pictures) + 1
      <4>1. ~byName /\ pictures[piece] # "image" /\ \A l \in 1..(piece - 1) : pictures[l] = "image"
        BY <3>2, <2>2 DEF GifKept, Streamed, Decoding
      <4>2. \A k \in DOMAIN pictures : (\A l \in 1..k : pictures[l] = "image") <=> k < piece
        BY <4>1, <2>3
      <4> QED
        BY <4>1, <4>2, <2>3 DEF Wanted
    <3> QED
      BY <3>1, <3>2
  <2>5. {frames[k] : k \in DOMAIN frames} = Wanted
    BY <2>4 DEF GifKept, Converted
  <2>6. {anim[k][1] : k \in DOMAIN anim} = {frames[k] : k \in DOMAIN frames}
    BY <2>1
  <2>7. \A k, l \in DOMAIN frames : k < l => frames[k] < frames[l]
    BY DEF GifKept, Converted
  <2>8. gifmain = "exit" <=> anim # <<>>
    BY <1>1 DEF GifKept, Encoded
  <2> QED
    BY <2>1, <2>5, <2>6, <2>7, <2>8
<1> QED
  BY <1>1 DEF GifRight, GifKept

\* gif animates every image of a list, or of a stream up to the first that is none, once
\* and in their order (gif.go:67-122).
THEOREM ImagesInOrder == GifSpec => []GifRight
BY GifInvariance, KeptAnimates, PTL

-----------------------------------------------------------------------------
(* page *)

\* The names still to be read are the end of the input; the reader has counted the one
\* it is about to store.
Reading ==
    /\ names \in Seq(STRING) /\ todo \in Seq(STRING) /\ Len(todo) <= Len(names)
    /\ \A k \in 1..Len(todo) : todo[k] = names[Taken + k]
    /\ listing => reader \in {"count", "store", "stop"} /\ hi = Taken + (IF reader = "store" THEN 1 ELSE 0)
    /\ ~listing => reader \in {"decode", "send", "spin"}
    /\ reader \in {"store", "send"} => todo # <<>>
\* The last names are each in the slot of its number, and nothing else is in the ring.
Stored ==
    /\ ring \in [0..(RingSize - 1) -> STRING]
    /\ listing => \A k \in 1..Taken : k > Taken - RingSize => ring[k % RingSize] = names[k]
    /\ \A i \in 0..(RingSize - 1) : ring[i] = NoName \/ ring[i] \in NamesRead
\* The loop of the window's events.
Looking == di \in Int /\ (shown # "black" => shown \in Pictures /\ shown \in NamesRead)

PageKept == PageTypeOK /\ Reading /\ Stored /\ Looking

\* Two names less than a round apart are in different slots.
LEMMA SlotsApart ==
  ASSUME NEW a \in Nat, NEW b \in Nat, a < b, b < a + RingSize
  PROVE  a % RingSize # b % RingSize
<1>1. RingSize \in Nat /\ RingSize > 0
  BY PageAssumption
<1> DEFINE p == a \div RingSize  q == b \div RingSize  m == a % RingSize
<1>2. /\ p \in Int /\ q \in Int /\ m \in Int
      /\ a = RingSize * p + m /\ b = RingSize * q + (b % RingSize)
  BY <1>1
<1> SUFFICES ASSUME m = b % RingSize PROVE FALSE
  OBVIOUS
<1> HIDE DEF p, q, m
<1>3. b - a = RingSize * q - RingSize * p
  BY <1>1, <1>2
<1> DEFINE d == q - p
<1>4. d \in Int /\ b - a = d * RingSize
  BY <1>1, <1>2, <1>3
<1> HIDE DEF d
<1>5. d >= 1
  <2> SUFFICES ASSUME d <= 0 PROVE FALSE
    BY <1>4
  <2>1. (0 - d) * RingSize >= 0
    BY <1>1, <1>4, Multiples
  <2> QED
    BY <1>1, <1>4, <2>1
<1>6. d - 1 >= 0 /\ (d - 1) * RingSize >= 0 /\ d * RingSize = (d - 1) * RingSize + RingSize
  BY <1>1, <1>4, <1>5, Multiples
<1> QED
  BY <1>1, <1>4, <1>6

\* The slot of a name.
LEMMA SlotIs == \A a \in Nat : a % RingSize \in 0..(RingSize - 1)
BY PageAssumption

\* The ring is empty.
LEMMA PageInitKept == ASSUME PageInit PROVE PageKept
<1> USE DEF PageInit
<1>1. RingSize \in Nat /\ RingSize > 0 /\ names \in Seq(STRING) /\ todo = names /\ NoName \in STRING
  BY PageAssumption
<1>2. Taken = 0
  BY <1>1 DEF Taken
<1>3. PageTypeOK
  BY <1>1, PageAssumption DEF PageTypeOK
<1>4. Reading
  BY <1>1, <1>2 DEF Reading
<1>5. Stored
  BY <1>1, <1>2 DEF Stored
<1>6. Looking
  BY <1>1 DEF Looking
<1> QED
  BY <1>3, <1>4, <1>5, <1>6 DEF PageKept

\* What the steps have in common of the names that were read.
LEMMA TakenSame ==
  ASSUME UNCHANGED <<names, todo>> PROVE Taken' = Taken /\ NamesRead' = NamesRead
BY DEF Taken, NamesRead

\* One more name is read.
LEMMA OneTaken ==
  ASSUME Reading, todo # <<>>, names' = names, todo' = Tail(todo)
  PROVE  /\ todo' \in Seq(STRING) /\ Len(todo') = Len(todo) - 1
         /\ Taken \in Nat /\ Taken' = Taken + 1 /\ Taken' <= Len(names)
         /\ Head(todo) = names[Taken + 1] /\ Head(todo) \in STRING
         /\ \A k \in 1..Len(todo') : todo'[k] = names'[Taken' + k]
         /\ NamesRead \subseteq NamesRead' /\ names[Taken + 1] \in NamesRead'
<1>1. /\ todo \in Seq(STRING) /\ names \in Seq(STRING) /\ Len(todo) \in Nat /\ Len(names) \in Nat
      /\ Len(todo) <= Len(names) /\ Len(todo) > 0
  BY EmptySeq DEF Reading
<1>2. /\ todo' \in Seq(STRING) /\ Len(todo') = Len(todo) - 1 /\ Head(todo) = todo[1] /\ Head(todo) \in STRING
      /\ \A k \in 1..Len(todo') : todo'[k] = todo[k + 1]
  BY <1>1, HeadTailProperties
<1>3. Taken \in Nat /\ Taken' = Taken + 1 /\ Taken' <= Len(names)
  BY <1>1, <1>2 DEF Taken
<1>4. Head(todo) = names[Taken + 1]
  BY <1>1, <1>2 DEF Reading
<1>5. \A k \in 1..Len(todo') : todo'[k] = names'[Taken' + k]
  <2> SUFFICES ASSUME NEW k \in 1..Len(todo') PROVE todo'[k] = names[Taken' + k]
    OBVIOUS
  <2>1. k + 1 \in 1..Len(todo) /\ Taken' + k = Taken + (k + 1)
    BY <1>1, <1>2, <1>3
  <2> QED
    BY <1>2, <2>1 DEF Reading
<1>6. NamesRead \subseteq NamesRead' /\ names[Taken + 1] \in NamesRead'
  BY <1>3 DEF NamesRead
<1> QED
  BY <1>2, <1>3, <1>4, <1>5, <1>6

\* A name is stored.
LEMMA StoreNameKept == ASSUME PageKept, StoreName PROVE PageKept'
<1> USE DEF PageKept, StoreName
<1>1. /\ UNCHANGED <<listing, names, hi, doit, wpc, di, tries, cur, shown, pressed>> /\ reader' = "count"
      /\ todo' = Tail(todo) /\ todo # <<>> /\ listing
  BY DEF Reading
<1>2. /\ todo' \in Seq(STRING) /\ Len(todo') = Len(todo) - 1
      /\ Taken \in Nat /\ Taken' = Taken + 1 /\ Taken' <= Len(names)
      /\ Head(todo) = names[Taken + 1] /\ Head(todo) \in STRING
      /\ \A k \in 1..Len(todo') : todo'[k] = names'[Taken' + k]
      /\ NamesRead \subseteq NamesRead' /\ names[Taken + 1] \in NamesRead'
  BY <1>1, OneTaken
<1>3. RingSize \in Nat /\ RingSize > 0 /\ hi = Taken + 1
  BY <1>1, PageAssumption DEF Reading
<1> DEFINE n == Taken + 1
<1>4. n \in Nat /\ n % RingSize \in 0..(RingSize - 1) /\ ring' = [ring EXCEPT ![n % RingSize] = names[n]]
  <2>1. n \in Nat /\ n % RingSize \in 0..(RingSize - 1)
    BY <1>2, SlotIs
  <2>2. ring' = [ring EXCEPT ![hi % RingSize] = Head(todo)]
    BY DEF Turned
  <2> QED
    BY <1>2, <1>3, <2>1, <2>2
<1>5. Reading'
  BY <1>1, <1>2, <1>3 DEF Reading
<1>6. PageTypeOK'
  BY <1>1, <1>4 DEF PageTypeOK
<1> HIDE DEF n
<1>7. n = Taken + 1 /\ n = Taken' /\ names[n] \in STRING /\ names[n] \in NamesRead'
  BY <1>2 DEF n
<1>8. Stored'
  <2>1. ring \in [0..(RingSize - 1) -> STRING]
    BY DEF Stored
  <2>2. ring' \in [0..(RingSize - 1) -> STRING]
    BY <1>4, <1>7, <2>1
  <2>3. ASSUME NEW k \in 1..Taken', k > Taken' - RingSize PROVE ring'[k % RingSize] = names'[k]
    <3>1. CASE k = n
      BY <1>1, <1>4, <2>1, <3>1
    <3>2. CASE k # n
      <4>1. k \in 1..Taken /\ k > Taken - RingSize /\ k \in Nat /\ k < n /\ n < k + RingSize
        BY <1>2, <1>3, <1>7, <2>3, <3>2
      <4>2. k % RingSize # n % RingSize /\ k % RingSize \in 0..(RingSize - 1)
        BY <1>4, <4>1, SlotsApart, SlotIs
      <4>3. ring[k % RingSize] = names[k]
        BY <1>1, <4>1 DEF Stored
      <4> QED
        BY <1>1, <1>4, <2>1, <4>2, <4>3
    <3> QED
      BY <3>1, <3>2
  <2>4. ASSUME NEW i \in 0..(RingSize - 1) PROVE ring'[i] = NoName \/ ring'[i] \in NamesRead'
    <3>1. ring'[i] = ring[i] \/ ring'[i] = names[n]
      BY <1>4, <2>1
    <3> QED
      BY <1>2, <1>7, <3>1 DEF Stored
  <2> QED
    BY <1>1, <2>2, <2>3, <2>4 DEF Stored
<1>9. Looking'
  BY <1>1, <1>2 DEF Looking
<1> QED
  BY <1>5, <1>6, <1>8, <1>9

\* The other steps of the reader.
LEMMA ReaderKept == ASSUME PageKept, CountName \/ PageDecode \/ SendDoit PROVE PageKept'
<1> USE DEF PageKept
<1>1. UNCHANGED <<listing, names, ring, wpc, di, tries, cur, shown, pressed>>
  BY DEF CountName, PageDecode, SendDoit
<1>2. hi \in Nat /\ doit \in 0..DoitCap /\ DoitCap \in Nat /\ todo \in Seq(STRING) /\ Taken \in Int
  BY PageAssumption, LenProperties DEF PageTypeOK, Reading, Taken
<1>3. CASE CountName \/ PageDecode
  <2>1. UNCHANGED <<names, todo>> /\ Taken' = Taken /\ NamesRead' = NamesRead
    BY <1>3, TakenSame DEF CountName, PageDecode
  <2>2. PageTypeOK'
    BY <1>1, <1>2, <1>3 DEF PageTypeOK, CountName, PageDecode
  <2>3. Stored' /\ Looking'
    BY <1>1, <2>1 DEF Stored, Looking
  <2>4. Reading'
    BY <1>1, <1>2, <1>3, <2>1 DEF Reading, CountName, PageDecode
  <2> QED
    BY <2>2, <2>3, <2>4
<1>4. CASE SendDoit
  <2>1. todo # <<>> /\ ~listing /\ todo' = Tail(todo) /\ names' = names /\ reader' = "decode"
    BY <1>4 DEF SendDoit, Reading
  <2>2. /\ todo' \in Seq(STRING) /\ Len(todo') <= Len(names') /\ NamesRead \subseteq NamesRead'
        /\ \A k \in 1..Len(todo') : todo'[k] = names'[Taken' + k]
    <3>1. Len(todo') = Len(todo) - 1 /\ Len(todo) \in Nat /\ Len(names) \in Nat /\ Len(todo) <= Len(names)
      BY <1>2, <2>1, OneTaken, LenProperties DEF Reading
    <3> QED
      BY <2>1, <3>1, OneTaken
  <2>3. PageTypeOK'
    BY <1>1, <1>2, <1>4 DEF PageTypeOK, SendDoit
  <2>4. Reading'
    BY <1>1, <2>1, <2>2 DEF Reading
  <2>5. Stored' /\ Looking'
    BY <1>1, <2>1, <2>2 DEF Stored, Looking
  <2> QED
    BY <2>3, <2>4, <2>5
<1> QED
  BY <1>3, <1>4

\* The events.
LEMMA EventsKept == ASSUME PageKept, Press \/ Space \/ Again \/ Dead PROVE PageKept'
<1> USE DEF PageKept
<1>1. UNCHANGED <<listing, names, todo, ring, hi, reader, doit>> /\ Taken' = Taken /\ NamesRead' = NamesRead
  BY TakenSame DEF Press, Space, Again, Dead
<1>2. Reading' /\ Stored'
  BY <1>1 DEF Reading, Stored
<1>3. tries \in 0..Tries /\ pressed \in 0..MaxKeys /\ MaxKeys \in Nat /\ Tries \in Nat /\ cur \in Int /\ di \in Int
  BY PageAssumption DEF PageTypeOK, Looking
<1>4. CASE Press
  <2>1. UNCHANGED <<cur, shown>> /\ pressed' \in 0..MaxKeys
    BY <1>3, <1>4 DEF Press
  <2>2. di' \in Int /\ tries' \in 0..Tries /\ wpc' \in {"event", "again", "dead"}
    BY <1>3, <1>4, PageAssumption DEF Press
  <2> QED
    BY <1>1, <1>2, <2>1, <2>2 DEF PageTypeOK, Looking
<1>5. CASE Space
  <2>1. pressed' \in 0..MaxKeys
    BY <1>3, <1>5 DEF Space
  <2> QED
    BY <1>1, <1>2, <1>5, <2>1 DEF Space, PageTypeOK, Looking
<1>6. CASE Again
  <2>1. cur' \in Int /\ di' = di /\ pressed' = pressed
    BY <1>3, <1>6 DEF Again
  <2>2. 0 \in 0..(RingSize - 1) /\ (ring[0] \in Pictures => ring[0] # NoName)
    BY PageAssumption
  <2>3. shown' = shown \/ (shown' = ring[0] /\ ring[0] \in Pictures)
    BY <1>6 DEF Again, Slot
  <2>4. tries' \in 0..Tries /\ wpc' \in {"event", "again", "dead"}
    BY <1>3, <1>6 DEF Again
  <2>5. Looking'
    BY <1>1, <2>1, <2>2, <2>3 DEF Looking, Stored
  <2>6. PageTypeOK'
    BY <1>1, <2>1, <2>4 DEF PageTypeOK
  <2> QED
    BY <1>2, <2>5, <2>6
<1>7. CASE Dead
  BY <1>1, <1>2, <1>7 DEF Dead, PageTypeOK, Looking
<1> QED
  BY <1>4, <1>5, <1>6, <1>7

\* The ring of page and what is in the window: each of the last names is in the slot of
\* its number, and no slot has anything else than a name that was read.
THEOREM PageInvariance == PageSpec => []PageKept
<1>1. ASSUME PageKept, PageNext PROVE PageKept'
  BY <1>1, StoreNameKept, ReaderKept, EventsKept DEF PageNext
<1>2. ASSUME PageKept, UNCHANGED pageVars PROVE PageKept'
  <2>1. Taken' = Taken /\ NamesRead' = NamesRead
    BY <1>2, TakenSame DEF pageVars
  <2> QED
    BY <1>2, <2>1 DEF pageVars, PageKept, PageTypeOK, Reading, Stored, Looking
<1> QED
  BY <1>1, <1>2, PageInitKept, PTL DEF PageSpec

\* However names and keys come, and however often the names go round the ring, the last
\* of them are all in it, and only a picture of the input that can be read, and that has
\* come by then, is in the window (page.go:103-184).
THEOREM PicturesShown == PageSpec => []PageRight
<1>1. ASSUME PageKept PROVE PageRight
  <2>1. listing => \A k \in 1..Taken : k > Taken - RingSize => \E i \in DOMAIN ring : ring[i] = names[k]
    <3> SUFFICES ASSUME listing, NEW k \in 1..Taken, k > Taken - RingSize
                 PROVE  \E i \in DOMAIN ring : ring[i] = names[k]
      OBVIOUS
    <3>1. k \in Nat /\ k % RingSize \in 0..(RingSize - 1)
      BY SlotIs
    <3>2. DOMAIN ring = 0..(RingSize - 1) /\ ring[k % RingSize] = names[k]
      BY <1>1 DEF PageKept, Stored
    <3> QED
      BY <3>1, <3>2
  <2>2. \A i \in DOMAIN ring : ring[i] = NoName \/ ring[i] \in NamesRead
    BY <1>1 DEF PageKept, Stored
  <2> QED
    BY <1>1, <2>1, <2>2 DEF PageKept, PageRight, Looking
<1> QED
  BY <1>1, PageInvariance, PTL

-----------------------------------------------------------------------------
(* pv *)

\* One number of the recursion that adds up the reads.
SumRow(list, f, k) == IF k = 0 THEN 0 ELSE f[k - 1] + list[k]
SumIs(list, f) == f = [k \in 0..Len(list) |-> SumRow(list, f, k)]
SumOf(list) == CHOOSE f : SumIs(list, f)

\* The sum of the first reads, and of all of them with the end.
Sum(list, m) == IF m <= Len(list) THEN SumOf(list)[m] ELSE SumOf(list)[Len(list)]
BytesAt(list, m) == IF m \in DOMAIN list THEN list[m] ELSE 0

\* The function that adds up the reads exists.
LEMMA SumsExist ==
  ASSUME NEW list, NEW m \in Nat
  PROVE  \E f : f = [k \in 0..m |-> SumRow(list, f, k)]
<1> DEFINE T == {i \in Nat : \E f : f = [k \in 0..i |-> SumRow(list, f, k)]}
<1>1. 0 \in T
  <2> DEFINE f == [k \in 0..0 |-> 0]
  <2>1. f = [k \in 0..0 |-> SumRow(list, f, k)]
    BY DEF SumRow
  <2> QED
    BY <2>1
<1>2. ASSUME NEW i \in T PROVE i + 1 \in T
  <2>1. PICK f : f = [k \in 0..i |-> SumRow(list, f, k)]
    OBVIOUS
  <2> DEFINE g == [k \in 0..(i + 1) |-> SumRow(list, f, k)]
  <2>2. \A k \in 0..i : g[k] = f[k]
    BY <2>1
  <2>3. ASSUME NEW k \in 0..(i + 1) PROVE SumRow(list, f, k) = SumRow(list, g, k)
    <3>1. CASE k = 0
      BY <3>1 DEF SumRow
    <3>2. CASE k # 0
      <4>1. k - 1 \in 0..i
        BY <3>2
      <4>2. g[k - 1] = f[k - 1]
        BY <4>1, <2>2
      <4> HIDE DEF g
      <4> QED
        BY <3>2, <4>2 DEF SumRow
    <3> QED
      BY <3>1, <3>2
  <2>4. g = [k \in 0..(i + 1) |-> SumRow(list, g, k)]
    BY <2>3
  <2>5. \E h : h = [k \in 0..(i + 1) |-> SumRow(list, h, k)]
    <3> HIDE DEF g
    <3> QED
      BY <2>4
  <2> QED
    BY <2>5
<1>3. T = Nat
  <2>1. T \in SUBSET Nat
    OBVIOUS
  <2> HIDE DEF T
  <2> QED
    BY <1>1, <1>2, <2>1, AllNat
<1> QED
  BY <1>3

\* How the sum grows by a read.
LEMMA SumGrows ==
  ASSUME NEW list \in Seq(Nat)
  PROVE  /\ Sum(list, 0) = 0
         /\ \A m \in Nat : Sum(list, m + 1) = Sum(list, m) + BytesAt(list, m + 1)
         /\ \A m \in Nat : Sum(list, m) \in Nat /\ BytesAt(list, m) \in Nat
<1> DEFINE L == Len(list)
<1> DEFINE F == SumOf(list)
<1>0. L \in Nat
  OBVIOUS
<1>1. \E f : SumIs(list, f)
  BY <1>0, SumsExist DEF SumIs
<1>2. F = [k \in 0..L |-> SumRow(list, F, k)]
  <2>1. SumIs(list, SumOf(list))
    BY <1>1 DEF SumOf
  <2> QED
    BY <2>1 DEF SumIs
<1> HIDE DEF F
<1>3. F[0] = 0
  BY <1>0, <1>2 DEF SumRow
<1>4. ASSUME NEW m \in Nat, m + 1 <= L PROVE F[m + 1] = F[m] + list[m + 1]
  <2>1. m + 1 \in 0..L /\ m + 1 # 0 /\ (m + 1) - 1 = m
    BY <1>0, <1>4
  <2>2. F[m + 1] = SumRow(list, F, m + 1)
    BY <1>2, <2>1
  <2> QED
    BY <2>1, <2>2 DEF SumRow
<1> DEFINE T == {m \in Nat : m <= L => F[m] \in Nat}
<1>5. T = Nat
  <2>1. 0 \in T
    BY <1>3
  <2>2. ASSUME NEW m \in T PROVE m + 1 \in T
    <3> SUFFICES ASSUME m + 1 <= L PROVE F[m + 1] \in Nat
      OBVIOUS
    <3>1. m \in Nat /\ m + 1 \in 1..L /\ F[m] \in Nat
      BY <1>0
    <3>2. list[m + 1] \in Nat
      BY <3>1
    <3> QED
      BY <1>4, <3>1, <3>2
  <2>3. T \in SUBSET Nat
    OBVIOUS
  <2> HIDE DEF T
  <2> QED
    BY <2>1, <2>2, <2>3, AllNat
<1>6. \A m \in Nat : m <= L => F[m] \in Nat
  BY <1>5
<1>7. \A m \in Nat : BytesAt(list, m) \in Nat
  BY DEF BytesAt
<1>8. ASSUME NEW m \in Nat PROVE Sum(list, m) = IF m <= L THEN F[m] ELSE F[L]
  BY DEF Sum, F
<1>9. Sum(list, 0) = 0
  BY <1>0, <1>3, <1>8
<1>10. ASSUME NEW m \in Nat PROVE Sum(list, m) \in Nat
  BY <1>0, <1>6, <1>8
<1>11. ASSUME NEW m \in Nat PROVE Sum(list, m + 1) = Sum(list, m) + BytesAt(list, m + 1)
  <2>1. CASE m + 1 <= L
    <3>1. Sum(list, m + 1) = F[m + 1] /\ Sum(list, m) = F[m]
      BY <1>0, <1>8, <2>1
    <3>2. BytesAt(list, m + 1) = list[m + 1]
      BY <2>1 DEF BytesAt
    <3> QED
      BY <1>4, <2>1, <3>1, <3>2
  <2>2. CASE ~(m + 1 <= L)
    <3>1. Sum(list, m + 1) = F[L] /\ Sum(list, m) = F[L]
      <4>1. m <= L => m = L
        BY <1>0, <2>2
      <4> QED
        BY <1>8, <2>2, <4>1
    <3>2. BytesAt(list, m + 1) = 0
      BY <1>0, <2>2 DEF BytesAt
    <3>3. F[L] \in Nat
      BY <1>0, <1>6
    <3> QED
      BY <3>1, <3>2, <3>3
  <2> QED
    BY <2>1, <2>2
<1> QED
  BY <1>7, <1>9, <1>10, <1>11

\* The types.
PvTyped ==
    /\ input \in PvInputs /\ rpc \in {"read", "send", "done", "stop"} /\ made \in 0..(Len(input.reads) + 1)
    /\ total \in Nat /\ sec \in Nat /\ reported \in Nat /\ pvmain \in {"loop", "exit"}

\* The reads whose sizes were sent, and those that were added.
SentReads == IF rpc = "send" THEN made - 1 ELSE made
AddedReads == SentReads - Len(nchan)

\* nchan holds the sizes that come next, and main has added the ones before.
Sizes ==
    /\ Len(nchan) \in Nat /\ Len(nchan) <= NChanCap /\ Len(nchan) <= SentReads
    /\ nchan = [x \in 1..Len(nchan) |-> BytesAt(input.reads, AddedReads + x)]
    /\ total = Sum(input.reads, AddedReads)

\* What the goroutine has read when it goes on, and when it is done.
ReadSoFar ==
    /\ rpc = "read" => made <= Len(input.reads)
    /\ rpc = "send" => made # 0
    /\ rpc \in {"done", "stop"} => made = Len(input.reads) + 1 \/ (input.full /\ made = Len(input.reads))
    /\ rpc = "stop" <=> pvmain = "exit"

Reports == reported + (IF pvmain = "loop" THEN sec ELSE 0) = total

PvKept == PvTyped /\ Sizes /\ ReadSoFar /\ Reports

\* What the reads are.
LEMMA InputTyped ==
  ASSUME input \in PvInputs
  PROVE  input.reads \in Seq(Nat) /\ Len(input.reads) \in Nat /\ input.full \in BOOLEAN
<1>1. input \in [reads : Seq(Nat), full : BOOLEAN]
  BY PvAssumption
<1> QED
  BY <1>1

\* Every step keeps the sizes in order.
LEMMA SizesStep ==
  ASSUME PvKept, PvNext
  PROVE  Sizes'
<1> DEFINE list == input.reads
<1> DEFINE c == Len(nchan)
<1>0. list \in Seq(Nat) /\ Len(list) \in Nat
  BY InputTyped DEF PvKept, PvTyped
<1>1. /\ c \in Nat /\ c <= NChanCap /\ c <= SentReads /\ SentReads \in Nat /\ made \in Nat
      /\ nchan = [x \in 1..c |-> BytesAt(list, AddedReads + x)]
      /\ total = Sum(list, AddedReads) /\ AddedReads = SentReads - c /\ AddedReads \in Nat
  <2>1. made \in Nat /\ (rpc = "send" => made # 0)
    BY <1>0 DEF PvKept, PvTyped, ReadSoFar
  <2>2. SentReads \in Nat
    BY <2>1 DEF SentReads
  <2>3. c \in Nat /\ c <= SentReads
    BY DEF PvKept, Sizes
  <2>4. AddedReads \in Nat
    BY <2>2, <2>3 DEF AddedReads
  <2> QED
    BY <2>1, <2>2, <2>4 DEF PvKept, Sizes, AddedReads
<1> HIDE DEF c
<1>2. CASE PvRead
  <2>1. UNCHANGED <<input, nchan, total>> /\ rpc = "read" /\ rpc' = "send" /\ made' = made + 1
    BY <1>2 DEF PvRead, pvReports
  <2>2. SentReads' = SentReads
    BY <1>1, <2>1 DEF SentReads
  <2> QED
    BY <1>1, <2>1, <2>2 DEF Sizes, AddedReads, c
<1>3. CASE SendSize
  <2>1. /\ UNCHANGED <<input, made, total>> /\ rpc = "send" /\ rpc' \in {"done", "read"}
        /\ c < NChanCap /\ nchan' = Append(nchan, Bytes)
    BY <1>3 DEF SendSize, pvReports, c
  <2>2. SentReads' = made /\ SentReads = made - 1
    BY <2>1 DEF SentReads
  <2>3. Bytes = BytesAt(list, made)
    BY DEF Bytes, BytesAt
  <2>4. made = AddedReads + (c + 1)
    BY <1>1, <2>2
  <2>5. nchan' = [x \in 1..(c + 1) |-> BytesAt(list, AddedReads + x)] /\ Len(nchan') = c + 1
    <3>1. nchan' = Append([x \in 1..c |-> BytesAt(list, AddedReads + x)], BytesAt(list, AddedReads + (c + 1)))
      BY <1>1, <2>1, <2>3, <2>4
    <3> QED
      BY <1>1, <3>1
  <2>6. AddedReads' = AddedReads
    BY <1>1, <2>2, <2>5 DEF AddedReads
  <2>7. c + 1 \in Nat /\ c + 1 <= NChanCap /\ c + 1 <= made
    BY <1>1, <2>1, <2>2, PvAssumption
  <2> QED
    BY <1>1, <2>1, <2>2, <2>5, <2>6, <2>7 DEF Sizes
<1>4. CASE Add
  <2>1. UNCHANGED <<input, rpc, made>> /\ nchan # <<>> /\ total' = total + Head(nchan) /\ nchan' = Tail(nchan)
    BY <1>4 DEF Add
  <2>2. nchan \in Seq(Nat)
    <3>1. \A m : BytesAt(list, m) \in Nat
      BY <1>0 DEF BytesAt
    <3> HIDE DEF list
    <3> QED
      BY <1>1, <3>1
  <2>3. c >= 1
    BY <1>1, <2>1, <2>2 DEF c
  <2>4. Head(nchan) = BytesAt(list, AddedReads + 1)
    BY <1>1, <2>1, <2>2, <2>3
  <2>5. Len(nchan') = c - 1 /\ \A x \in 1..(c - 1) : nchan'[x] = nchan[x + 1]
    BY <2>1, <2>2, <2>3 DEF c
  <2>6. SentReads' = SentReads
    BY <2>1 DEF SentReads
  <2>7. AddedReads' = AddedReads + 1
    BY <1>1, <2>5, <2>6 DEF AddedReads
  <2>8. nchan' = [x \in 1..(c - 1) |-> BytesAt(list, (AddedReads + 1) + x)]
    <3>1. nchan' \in Seq(Nat)
      BY <2>1, <2>2
    <3>2. nchan' = [x \in 1..(c - 1) |-> nchan'[x]]
      <4>1. \A t : t \in Seq(Nat) => t = [x \in 1..Len(t) |-> t[x]]
        OBVIOUS
      <4>2. nchan' = [x \in 1..Len(nchan') |-> nchan'[x]]
        BY <3>1, <4>1
      <4> QED
        BY <2>5, <4>2
    <3>3. ASSUME NEW x \in 1..(c - 1) PROVE nchan'[x] = BytesAt(list, (AddedReads + 1) + x)
      <4>1. x + 1 \in 1..c /\ AddedReads + (x + 1) = (AddedReads + 1) + x
        BY <1>1
      <4>2. nchan[x + 1] = BytesAt(list, AddedReads + (x + 1))
        BY <1>1, <4>1
      <4> QED
        BY <2>5, <4>1, <4>2
    <3>4. [x \in 1..(c - 1) |-> nchan'[x]] = [x \in 1..(c - 1) |-> BytesAt(list, (AddedReads + 1) + x)]
      BY <3>3
    <3> QED
      BY <3>2, <3>4
  <2>9. total' = Sum(list, AddedReads + 1)
    <3>1. Sum(list, AddedReads + 1) = Sum(list, AddedReads) + BytesAt(list, AddedReads + 1)
      BY <1>0, <1>1, SumGrows
    <3> QED
      BY <1>1, <2>1, <2>4, <3>1
  <2>10. c - 1 \in Nat /\ c - 1 <= NChanCap /\ c - 1 <= SentReads
    BY <1>1, <2>3, PvAssumption
  <2> QED
    BY <2>1, <2>5, <2>6, <2>7, <2>8, <2>9, <2>10 DEF Sizes
<1>5. CASE PvTick \/ PvDone
  <2>1. UNCHANGED <<input, nchan, total, made>> /\ (rpc' = rpc \/ (rpc = "done" /\ rpc' = "stop"))
    BY <1>5 DEF PvTick, PvDone
  <2>2. SentReads' = SentReads
    BY <2>1 DEF SentReads
  <2> QED
    BY <1>1, <2>1, <2>2 DEF Sizes, AddedReads, c
<1> QED
  BY <1>2, <1>3, <1>4, <1>5 DEF PvNext

\* Every step keeps the types, and what main reports.
LEMMA ReportsStep ==
  ASSUME PvKept, PvNext
  PROVE  PvTyped' /\ ReadSoFar' /\ Reports'
<1>0. input.reads \in Seq(Nat) /\ Len(input.reads) \in Nat
  BY InputTyped DEF PvKept, PvTyped
<1>1. /\ input \in PvInputs /\ rpc \in {"read", "send", "done", "stop"} /\ made \in 0..(Len(input.reads) + 1)
      /\ total \in Nat /\ sec \in Nat /\ reported \in Nat /\ pvmain \in {"loop", "exit"}
  BY DEF PvKept, PvTyped
<1>2. Reports /\ ReadSoFar
  BY DEF PvKept
<1>3. pvmain = "loop" /\ rpc # "stop" /\ reported + sec = total
  <2>1. pvmain = "loop"
    BY DEF PvNext, PvRead, SendSize, PvTick, Add, PvDone, PvRunning
  <2> QED
    BY <1>2, <2>1 DEF Reports, ReadSoFar
<1>4. CASE PvRead
  BY <1>0, <1>1, <1>2, <1>3, <1>4 DEF PvRead, pvReports, PvTyped, ReadSoFar, Reports
<1>5. CASE SendSize
  <2>1. UNCHANGED <<input, made, total, sec, reported, pvmain>> /\ rpc' = (IF Failed THEN "done" ELSE "read")
    BY <1>5 DEF SendSize, pvReports
  <2>2. PvTyped' /\ Reports'
    BY <1>1, <1>3, <2>1 DEF PvTyped, Reports
  <2>3. CASE Failed
    <3>1. rpc' = "done" /\ (made > Len(input.reads) \/ (input.full /\ made = Len(input.reads)))
      BY <2>1, <2>3 DEF Failed
    <3>2. made = Len(input.reads) + 1 \/ (input.full /\ made = Len(input.reads))
      BY <1>0, <1>1, <3>1
    <3> QED
      BY <1>3, <2>1, <2>2, <3>1, <3>2 DEF ReadSoFar
  <2>4. CASE ~Failed
    <3>1. rpc' = "read" /\ made <= Len(input.reads)
      BY <1>0, <1>1, <2>1, <2>4 DEF Failed
    <3> QED
      BY <1>3, <2>1, <2>2, <3>1 DEF ReadSoFar
  <2> QED
    BY <2>3, <2>4
<1>6. CASE PvTick
  BY <1>1, <1>2, <1>3, <1>6 DEF PvTick, PvTyped, ReadSoFar, Reports
<1>7. CASE Add
  <2>1. Head(nchan) \in Nat
    <3>1. Len(nchan) \in Nat /\ nchan = [x \in 1..Len(nchan) |-> BytesAt(input.reads, AddedReads + x)]
      BY DEF PvKept, Sizes
    <3>2. \A x \in 1..Len(nchan) : nchan[x] \in Nat
      <4>1. ASSUME NEW x \in 1..Len(nchan) PROVE nchan[x] \in Nat
        <5>1. nchan[x] = BytesAt(input.reads, AddedReads + x)
          BY <3>1
        <5>2. \A m : BytesAt(input.reads, m) \in Nat
          BY <1>0 DEF BytesAt
        <5> QED
          BY <5>1, <5>2
      <4> QED
        BY <4>1
    <3>3. nchan \in Seq(Nat) /\ nchan # <<>>
      BY <3>1, <3>2, <1>7 DEF Add
    <3> QED
      BY <3>3
  <2>2. /\ UNCHANGED <<input, rpc, made, reported, pvmain>>
        /\ total' = total + Head(nchan) /\ sec' = sec + Head(nchan)
    BY <1>7 DEF Add
  <2> DEFINE h == Head(nchan)
  <2>3. h \in Nat /\ total' = total + h /\ sec' = sec + h
    BY <2>1, <2>2
  <2> HIDE DEF h
  <2>4. reported + (sec + h) = total + h
    BY <1>1, <1>3, <2>3
  <2> QED
    BY <1>1, <1>2, <1>3, <2>2, <2>3, <2>4 DEF PvTyped, ReadSoFar, Reports
<1>8. CASE PvDone
  BY <1>1, <1>2, <1>3, <1>8 DEF PvDone, LastReport, PvTyped, ReadSoFar, Reports
<1> QED
  BY <1>4, <1>5, <1>6, <1>7, <1>8 DEF PvNext

\* Nothing is read yet.
LEMMA PvInitRight == ASSUME PvInit PROVE PvKept
<1>1. /\ input \in PvInputs /\ rpc = "read" /\ made = 0 /\ nchan = <<>>
      /\ total = 0 /\ sec = 0 /\ reported = 0 /\ pvmain = "loop"
  BY DEF PvInit
<1>2. input.reads \in Seq(Nat) /\ Len(input.reads) \in Nat
  BY <1>1, InputTyped
<1>3. Len(nchan) = 0 /\ SentReads = 0 /\ AddedReads = 0 /\ 0 <= NChanCap
  <2>1. Len(<<>>) = 0 /\ NChanCap \in Nat
    BY PvAssumption
  <2>2. Len(nchan) = 0 /\ SentReads = 0
    BY <1>1, <2>1 DEF SentReads
  <2>3. AddedReads = 0
    BY <2>2 DEF AddedReads
  <2> QED
    BY <2>1, <2>2, <2>3
<1>4. Sum(input.reads, 0) = 0
  BY <1>2, SumGrows
<1>5. nchan = [x \in 1..0 |-> BytesAt(input.reads, 0 + x)]
  BY <1>1
<1>6. Sizes
  BY <1>1, <1>3, <1>4, <1>5 DEF Sizes
<1> QED
  BY <1>1, <1>2, <1>6 DEF PvKept, PvTyped, ReadSoFar, Reports

\* The inductive invariant holds in every state.
THEOREM PvInvariance == PvSpec => []PvKept
<1>1. PvInit => PvKept
  BY PvInitRight
<1>2. PvKept /\ [PvNext]_pvVars => PvKept'
  <2> SUFFICES ASSUME PvKept, [PvNext]_pvVars PROVE PvKept'
    OBVIOUS
  <2>1. CASE UNCHANGED pvVars
    BY <2>1 DEF pvVars, PvKept, PvTyped, Sizes, SentReads, AddedReads, ReadSoFar, Reports
  <2>2. CASE PvNext
    BY <2>2, SizesStep, ReportsStep DEF PvKept
  <2> QED
    BY <2>1, <2>2
<1> QED
  BY <1>1, <1>2, PTL DEF PvSpec

\* pv reports every byte that went through once, whatever the sizes of the reads and the
\* order of ticks and receives, but for the last read of an output that failed (pv.go:43-84).
THEOREM EveryByteReported == PvSpec => []PvRight
<1>1. ASSUME PvKept PROVE PvRight
  <2> DEFINE list == input.reads
  <2> DEFINE L == Len(list)
  <2> DEFINE c == Len(nchan)
  <2>1. list \in Seq(Nat) /\ L \in Nat /\ input.full \in BOOLEAN
    BY <1>1, InputTyped DEF PvKept, PvTyped
  <2>2. c \in Nat /\ c <= NChanCap /\ nchan = [x \in 1..c |-> BytesAt(list, AddedReads + x)]
    BY <1>1 DEF PvKept, Sizes
  <2>3. nchan \in Seq(Nat)
    <3>1. \A m : BytesAt(list, m) \in Nat
      BY <2>1 DEF BytesAt
    <3> HIDE DEF c, list
    <3> QED
      BY <2>2, <3>1
  <2>4. PvTypeOK
    BY <1>1, <2>2, <2>3 DEF PvKept, PvTyped, PvTypeOK
  <2>5. Through = Sum(list, L)
    <3>1. Through = SumOf(list)[L]
      BY DEF Through, SumOf, SumIs, SumRow
    <3> QED
      BY <2>1, <3>1 DEF Sum
  <2>6. /\ Sum(list, L) \in Nat /\ Sum(list, L + 1) = Sum(list, L) + BytesAt(list, L + 1)
        /\ L # 0 => Sum(list, L) = Sum(list, L - 1) + BytesAt(list, L)
        /\ \A m \in Nat : Sum(list, m) \in Nat /\ BytesAt(list, m) \in Nat
    <3>1. L # 0 => L - 1 \in Nat /\ (L - 1) + 1 = L
      BY <2>1
    <3> HIDE DEF L, list
    <3> QED
      BY <2>1, <3>1, SumGrows
  <2>7. BytesAt(list, L + 1) = 0
    BY <2>1 DEF BytesAt
  <2>8. Bytes = BytesAt(list, made)
    BY DEF Bytes, BytesAt
  <2> SUFFICES ASSUME pvmain = "exit"
               PROVE  reported = total /\ total \in {Through} \cup (IF input.full THEN {Through - Bytes} ELSE {})
    BY <2>4 DEF PvRight
  <2>9. reported = total
    BY <1>1 DEF PvKept, Reports, PvTyped
  <2>10. rpc = "stop" /\ (made = L + 1 \/ (input.full /\ made = L))
    BY <1>1 DEF PvKept, ReadSoFar
  <2>11. SentReads = made /\ AddedReads = made - c /\ c <= made /\ total = Sum(list, AddedReads)
    BY <1>1, <2>10 DEF PvKept, SentReads, AddedReads, Sizes
  <2>12. c = 0 \/ c = 1
    BY <2>2, PvAssumption
  <2> HIDE DEF L, list, c
  <2>13. CASE made = L + 1
    <3>1. AddedReads = L + 1 \/ AddedReads = L
      BY <2>1, <2>11, <2>12, <2>13
    <3>2. total = Sum(list, L)
      BY <2>6, <2>7, <2>11, <3>1
    <3> QED
      BY <2>5, <2>9, <3>2
  <2>14. CASE input.full /\ made = L
    <3>1. CASE c = 0
      <4>1. AddedReads = L
        BY <2>1, <2>11, <2>14, <3>1
      <4> QED
        BY <2>5, <2>9, <2>11, <4>1
    <3>2. CASE c = 1
      <4>1. AddedReads = L - 1 /\ L # 0
        BY <2>1, <2>11, <2>14, <3>2
      <4>2. Sum(list, L - 1) \in Nat /\ BytesAt(list, L) \in Nat /\ Bytes = BytesAt(list, L)
        BY <2>1, <2>6, <2>8, <2>14, <4>1
      <4>3. total = Through - Bytes
        BY <2>5, <2>6, <2>11, <4>1, <4>2
      <4> QED
        BY <2>9, <2>14, <4>3
    <3> QED
      BY <2>12, <3>1, <3>2
  <2> QED
    BY <2>10, <2>13, <2>14
<1> QED
  BY <1>1, PvInvariance, PTL

-----------------------------------------------------------------------------
(* comm *)

\* The places taken of a file, those left, and how often a line is among the former.
PlacesOf(q, s, m) == {k \in 1..m : q[k] = s}
TakenOf(f, s) == Cardinality(PlacesOf(sorted[f], s, next[f] - 1))
LeftOf(f) == {sorted[f][k] : k \in next[f]..Len(sorted[f])}

\* What of a line that is a times in one file and b times in the other is in a column.
Share(a, b, n) ==
    CASE n = 3 -> IF a < b THEN a ELSE b
      [] n = 1 -> IF a > b THEN a - b ELSE 0
      [] n = 2 -> IF b > a THEN b - a ELSE 0
\* The line that is printed where a file is over.
LastLine(s, n) == IF commphase = "exit" /\ n = (IF ok[1] THEN 1 ELSE 2) /\ s = ln[n] THEN 1 ELSE 0

Printout == [line : Nat, col : 1..3, tabs : Nat]

\* The types, and the line in hand.
CommTyped ==
    /\ sorted \in CommPairs /\ hide \in CommFlags /\ maxtabs \in Int
    /\ merged \in Seq(Printout)
    /\ commphase \in {"args", "merge", "exit", "usage"}
InHandOf ==
    /\ next \in [1..2 -> Nat \ {0}] /\ \A f \in 1..2 : next[f] <= Len(sorted[f]) + 1
    /\ ok \in [1..2 -> BOOLEAN] /\ \A f \in 1..2 : ok[f] <=> next[f] <= Len(sorted[f])
    /\ ln = [f \in 1..2 |-> IF next[f] <= Len(sorted[f]) THEN sorted[f][next[f]] ELSE 0]
    /\ commphase \in {"args", "usage"} => merged = <<>> /\ next = [f \in 1..2 |-> 1]
    /\ commphase = "exit" => ~ok[1] \/ ~ok[2]
\* A line taken more often from one file is no more in what is left of the other.
Uneven == \A s \in Nat :
    /\ TakenOf(1, s) > TakenOf(2, s) => s \notin LeftOf(2)
    /\ TakenOf(2, s) > TakenOf(1, s) => s \notin LeftOf(1)
\* What was taken is in its columns.
Shared3 == hide = <<>> => \A s \in Nat, n \in 1..3 :
    InColumn(s, n) = Share(TakenOf(1, s), TakenOf(2, s), n) + LastLine(s, n)
\* What was printed is sorted, and comes before what is left.
Ascending ==
    /\ \A k, l \in DOMAIN merged : k < l => merged[k].line <= merged[l].line \/ Extra(merged[l].line, merged[l].col) = 1
    /\ commphase # "exit" => \A k \in DOMAIN merged, f \in 1..2 : ok[f] => merged[k].line <= ln[f]
    /\ \A k \in DOMAIN merged : merged[k].col \notin hidden

CommKept == CommTyped /\ InHandOf /\ Uneven /\ Shared3 /\ Ascending

\* A number more in a set of numbers.
LEMMA OneMore ==
  ASSUME NEW m \in Nat, NEW P \in SUBSET (1..m)
  PROVE  IsFiniteSet(P) /\ Cardinality(P) \in Nat /\ Cardinality(P \cup {m + 1}) = Cardinality(P) + 1
<1>1. IsFiniteSet(1..m)
  BY FS_Interval
<1>2. IsFiniteSet(P)
  BY <1>1, FS_Subset
<1>3. m + 1 \notin P
  OBVIOUS
<1> QED
  BY <1>2, <1>3, FS_AddElement, FS_CardinalityType

\* How often a line is among the first, with one more.
LEMMA PlacesGrow ==
  ASSUME NEW q, NEW s, NEW m \in Nat
  PROVE  /\ Cardinality(PlacesOf(q, s, m)) \in Nat
         /\ Cardinality(PlacesOf(q, s, m + 1)) = Cardinality(PlacesOf(q, s, m)) + (IF q[m + 1] = s THEN 1 ELSE 0)
<1>1. PlacesOf(q, s, m) \in SUBSET (1..m)
  BY DEF PlacesOf
<1>2. PlacesOf(q, s, m + 1) = IF q[m + 1] = s THEN PlacesOf(q, s, m) \cup {m + 1} ELSE PlacesOf(q, s, m)
  BY DEF PlacesOf
<1> QED
  BY <1>1, <1>2, OneMore

\* A line more in a column.
LEMMA ColumnGrows ==
  ASSUME merged \in Seq(Printout), NEW x \in Printout, merged' = Append(merged, x), NEW s, NEW n
  PROVE  /\ InColumn(s, n) \in Nat
         /\ InColumn(s, n)' = InColumn(s, n) + (IF x.line = s /\ x.col = n THEN 1 ELSE 0)
<1> DEFINE P == {k \in DOMAIN merged : merged[k].line = s /\ merged[k].col = n}
<1> DEFINE Q == {k \in DOMAIN merged' : merged'[k].line = s /\ merged'[k].col = n}
<1> DEFINE m == Len(merged)
<1>1. m \in Nat /\ DOMAIN merged = 1..m /\ DOMAIN merged' = 1..(m + 1)
  OBVIOUS
<1>2. \A k \in 1..m : merged'[k] = merged[k]
  OBVIOUS
<1>3. merged'[m + 1] = x
  OBVIOUS
<1> HIDE DEF m
<1>4. P \in SUBSET (1..m)
  BY <1>1
<1>5. Q = IF x.line = s /\ x.col = n THEN P \cup {m + 1} ELSE P
  BY <1>1, <1>2, <1>3
<1>6. InColumn(s, n) = Cardinality(P) /\ InColumn(s, n)' = Cardinality(Q)
  BY DEF InColumn
<1> HIDE DEF P, Q
<1>7. Cardinality(P) \in Nat /\ Cardinality(P \cup {m + 1}) = Cardinality(P) + 1
  BY <1>1, <1>4, OneMore
<1>8. CASE x.line = s /\ x.col = n
  BY <1>5, <1>6, <1>7, <1>8
<1>9. CASE ~(x.line = s /\ x.col = n)
  BY <1>5, <1>6, <1>7, <1>9
<1> QED
  BY <1>8, <1>9

\* The files are sorted lists of lines.
LEMMA FilesAre ==
  ASSUME CommTyped, InHandOf
  PROVE  /\ \A f \in 1..2 : sorted[f] \in Seq(Nat) /\ Increasing(sorted[f]) /\ Len(sorted[f]) \in Nat
         /\ \A f \in 1..2 : LeftOf(f) \in SUBSET Nat
         /\ \A f \in 1..2 : ok[f] => ln[f] \in LeftOf(f)
         /\ \A f \in 1..2 : ~ok[f] => LeftOf(f) = {} /\ ln[f] = 0
         /\ \A f \in 1..2 : \A s \in LeftOf(f) : ln[f] <= s
         /\ \A f \in 1..2 : ln[f] \in Nat /\ ok[f] \in BOOLEAN
<1>1. ASSUME NEW f \in 1..2 PROVE sorted[f] \in Seq(Nat) /\ Increasing(sorted[f]) /\ Len(sorted[f]) \in Nat
  BY CommAssumption DEF CommTyped
<1>2. ASSUME NEW f \in 1..2
      PROVE  /\ next[f] \in Nat \ {0} /\ next[f] <= Len(sorted[f]) + 1
             /\ ok[f] \in BOOLEAN /\ (ok[f] <=> next[f] <= Len(sorted[f]))
             /\ ln[f] = IF next[f] <= Len(sorted[f]) THEN sorted[f][next[f]] ELSE 0
  <2>2. ok[f] \in BOOLEAN /\ (ok[f] <=> next[f] <= Len(sorted[f]))
    BY DEF InHandOf
  <2>3. next[f] \in Nat \ {0} /\ next[f] <= Len(sorted[f]) + 1
    BY DEF InHandOf
  <2>4. ln[f] = IF next[f] <= Len(sorted[f]) THEN sorted[f][next[f]] ELSE 0
    BY DEF InHandOf
  <2> QED
    BY <2>2, <2>3, <2>4
<1>3. ASSUME NEW f \in 1..2, NEW k \in next[f]..Len(sorted[f]) PROVE k \in DOMAIN sorted[f] /\ sorted[f][k] \in Nat
  <2>1. k \in 1..Len(sorted[f])
    BY <1>1, <1>2, SMTT(60)
  <2> QED
    BY <1>1, <2>1
<1>4. ASSUME NEW f \in 1..2 PROVE LeftOf(f) \in SUBSET Nat
  BY <1>3 DEF LeftOf
<1>5. ASSUME NEW f \in 1..2, ok[f] PROVE next[f] \in next[f]..Len(sorted[f]) /\ ln[f] = sorted[f][next[f]]
  <2>1. next[f] <= Len(sorted[f])
    BY <1>2, <1>5
  <2> QED
    BY <1>1, <1>2, <2>1, SMTT(60)
<1>6. ASSUME NEW f \in 1..2, ok[f] PROVE ln[f] \in LeftOf(f)
  BY <1>5, <1>6 DEF LeftOf
<1>7. ASSUME NEW f \in 1..2, ~ok[f] PROVE LeftOf(f) = {} /\ ln[f] = 0
  <2>1. next[f] > Len(sorted[f]) /\ ln[f] = 0
    BY <1>1, <1>2, <1>7
  <2>2. next[f]..Len(sorted[f]) = {}
    BY <1>1, <1>2, <2>1, SMTT(60)
  <2> QED
    BY <2>1, <2>2 DEF LeftOf
<1>8. ASSUME NEW f \in 1..2, NEW s \in LeftOf(f) PROVE ln[f] <= s
  <2>1. PICK k \in next[f]..Len(sorted[f]) : s = sorted[f][k]
    BY DEF LeftOf
  <2>2. ok[f]
    BY <1>7
  <2>3. next[f] \in DOMAIN sorted[f] /\ k \in DOMAIN sorted[f] /\ ln[f] = sorted[f][next[f]] /\ s \in Nat
    BY <1>3, <1>5, <2>1, <2>2
  <2>4. next[f] < k \/ next[f] = k
    BY <1>1, <1>2, SMTT(60)
  <2>5. next[f] < k => ln[f] <= s
    BY <1>1, <2>1, <2>3 DEF Increasing
  <2> QED
    BY <2>1, <2>3, <2>4, <2>5
<1>9. ASSUME NEW f \in 1..2 PROVE ln[f] \in Nat /\ ok[f] \in BOOLEAN
  <2>1. ok[f] \in BOOLEAN
    BY <1>2
  <2>2. CASE ok[f]
    BY <1>4, <1>6, <2>1, <2>2
  <2>3. CASE ~ok[f]
    BY <1>7, <2>1, <2>3
  <2> QED
    BY <2>1, <2>2, <2>3
<1> QED
  BY <1>1, <1>4, <1>6, <1>7, <1>8, <1>9

\* Nothing has been read yet.
LEMMA CommInitKept == CommInit => CommKept
<1> SUFFICES ASSUME CommInit PROVE CommKept
  OBVIOUS
<1>1. \A f \in 1..2 : sorted[f] \in Seq(Nat)
  BY CommAssumption DEF CommInit
<1>2. CommTyped
  BY DEF CommInit, CommTyped
<1>3. InHandOf
  <2>1. \A f \in 1..2 : (sorted[f] = <<>>) = (Len(sorted[f]) = 0) /\ Len(sorted[f]) \in Nat
    BY <1>1, EmptySeq
  <2>2. ok \in [1..2 -> BOOLEAN] /\ \A f \in 1..2 : ok[f] <=> next[f] <= Len(sorted[f])
    <3>1. ASSUME NEW f \in 1..2 PROVE ok[f] <=> next[f] <= Len(sorted[f])
      <4>1. ok[f] <=> sorted[f] # <<>>
        BY DEF CommInit
      <4> QED
        BY <2>1, <4>1 DEF CommInit
    <3>2. ok \in [1..2 -> BOOLEAN]
      BY DEF CommInit
    <3> QED
      BY <3>1, <3>2
  <2>3. ln = [f \in 1..2 |-> IF next[f] <= Len(sorted[f]) THEN sorted[f][next[f]] ELSE 0]
    BY <2>1 DEF CommInit
  <2> QED
    BY <2>1, <2>2, <2>3 DEF CommInit, InHandOf
<1>4. ASSUME NEW s, NEW f \in 1..2 PROVE TakenOf(f, s) = 0
  <2>1. PlacesOf(sorted[f], s, next[f] - 1) = {}
    BY DEF CommInit, PlacesOf
  <2> QED
    BY <2>1, FS_EmptySet DEF TakenOf
<1>5. Uneven
  BY <1>4 DEF Uneven
<1>6. Shared3
  <2>1. ASSUME NEW s \in Nat, NEW n \in 1..3 PROVE InColumn(s, n) = 0
    <3>1. {k \in DOMAIN merged : merged[k].line = s /\ merged[k].col = n} = {}
      BY DEF CommInit
    <3> QED
      BY <3>1, FS_EmptySet DEF InColumn
  <2> QED
    BY <1>4, <2>1 DEF Shared3, Share, LastLine, CommInit
<1>7. Ascending
  BY DEF Ascending, CommInit
<1> QED
  BY <1>2, <1>3, <1>5, <1>6, <1>7 DEF CommKept

\* Before the merge nothing moves.
LEMMA CommStillKept ==
  ASSUME CommKept, UNCHANGED <<sorted, hide, next, ln, ok, merged>>, maxtabs' \in Int,
         commphase' \in {"args", "merge", "usage"}, commphase \in {"args", "merge", "usage"},
         commphase' # "merge" => commphase # "merge"
  PROVE  CommKept'
<1>1. CommTyped'
  BY DEF CommKept, CommTyped
<1>2. InHandOf'
  BY DEF CommKept, InHandOf
<1>3. \A s, f : TakenOf(f, s)' = TakenOf(f, s)
  BY DEF TakenOf, PlacesOf
<1>4. Uneven'
  BY <1>3 DEF CommKept, Uneven, LeftOf
<1>5. Shared3'
  BY <1>3 DEF CommKept, Shared3, LastLine, InColumn
<1>6. Ascending'
  BY DEF CommKept, Ascending, Extra, hidden
<1> QED
  BY <1>1, <1>2, <1>4, <1>5, <1>6 DEF CommKept

\* What reading the next line of some files does to what is taken and left.
LEMMA NextLnDoes ==
  ASSUME CommTyped, InHandOf, commphase = "merge", NEW taken \in SUBSET (1..2), NextLn(taken), \A f \in taken : ok[f]
  PROVE  /\ InHandOf'
         /\ \A s : \A f \in 1..2 : TakenOf(f, s) \in Nat /\ TakenOf(f, s)' = TakenOf(f, s) + (IF f \in taken /\ s = ln[f] THEN 1 ELSE 0)
         /\ \A f \in 1..2 : LeftOf(f)' \subseteq LeftOf(f)
         /\ \A f \in 1..2 : ok'[f] => ok[f] /\ ln[f] <= ln'[f] /\ ln'[f] \in Nat
<1>1. \A f \in 1..2 : sorted'[f] = sorted[f] /\ sorted[f] \in Seq(Nat) /\ Len(sorted[f]) \in Nat
  BY FilesAre DEF NextLn
<1>2. ASSUME NEW f \in 1..2
      PROVE  /\ next[f] \in Nat \ {0} /\ next[f] <= Len(sorted[f]) + 1 /\ (ok[f] <=> next[f] <= Len(sorted[f]))
             /\ next'[f] = IF f \in taken THEN next[f] + 1 ELSE next[f]
             /\ f \in taken => next[f] <= Len(sorted[f])
  BY DEF InHandOf, NextLn
<1>3. InHandOf'
  <2>1. next' \in [1..2 -> Nat \ {0}] /\ \A f \in 1..2 : next'[f] <= Len(sorted'[f]) + 1
    BY <1>1, <1>2, SMTT(60) DEF NextLn
  <2>2. ok' \in [1..2 -> BOOLEAN] /\ \A f \in 1..2 : ok'[f] <=> next'[f] <= Len(sorted'[f])
    <3> DEFINE C(f) == next'[f] <= Len(sorted[f])
    <3>1. \A f \in 1..2 : C(f) \in BOOLEAN
      BY <1>1
    <3>2. ok' = [f \in 1..2 |-> C(f)]
      BY DEF NextLn
    <3>3. \A f \in 1..2 : C(f) <=> next'[f] <= Len(sorted'[f])
      BY <1>1
    <3> HIDE DEF C
    <3>4. ok' \in [1..2 -> BOOLEAN] /\ \A f \in 1..2 : ok'[f] <=> C(f)
      BY <3>1, <3>2
    <3> QED
      BY <3>3, <3>4
  <2>3. ln' = [f \in 1..2 |-> IF next'[f] <= Len(sorted'[f]) THEN sorted'[f][next'[f]] ELSE 0]
    <3>1. ASSUME NEW f \in 1..2
          PROVE  (IF f \notin taken THEN ln[f] ELSE IF ok'[f] THEN sorted[f][next'[f]] ELSE 0)
                 = IF next'[f] <= Len(sorted'[f]) THEN sorted'[f][next'[f]] ELSE 0
      <4>1. CASE f \in taken
        BY <1>1, <2>2, <4>1
      <4>2. CASE f \notin taken
        <5>1. ln[f] = IF next[f] <= Len(sorted[f]) THEN sorted[f][next[f]] ELSE 0
          BY DEF InHandOf
        <5> QED
          BY <1>1, <1>2, <4>2, <5>1
      <4> QED
        BY <4>1, <4>2
    <3> QED
      BY <3>1 DEF NextLn
  <2>4. commphase' = "merge"
    BY DEF NextLn
  <2> QED
    BY <2>1, <2>2, <2>3, <2>4 DEF InHandOf
<1>4. ASSUME NEW f \in 1..2, NEW s
      PROVE  TakenOf(f, s) \in Nat /\ TakenOf(f, s)' = TakenOf(f, s) + (IF f \in taken /\ s = ln[f] THEN 1 ELSE 0)
  <2> DEFINE m == next[f] - 1
  <2>1. m \in Nat
    BY <1>2
  <2>2. TakenOf(f, s)' = Cardinality(PlacesOf(sorted[f], s, next'[f] - 1))
    BY <1>1 DEF TakenOf, PlacesOf
  <2>3. TakenOf(f, s) = Cardinality(PlacesOf(sorted[f], s, m))
    BY DEF TakenOf
  <2>4. CASE f \in taken
    <3>1. next'[f] - 1 = m + 1 /\ next[f] = m + 1
      <4>1. next'[f] = next[f] + 1 /\ next[f] \in Nat
        BY <1>2, <2>4
      <4> QED
        BY <4>1
    <3>2. ln[f] = sorted[f][m + 1]
      BY <1>2, <2>4, <3>1 DEF InHandOf
    <3> HIDE DEF m
    <3>3. /\ Cardinality(PlacesOf(sorted[f], s, m)) \in Nat
          /\ Cardinality(PlacesOf(sorted[f], s, m + 1))
             = Cardinality(PlacesOf(sorted[f], s, m)) + (IF sorted[f][m + 1] = s THEN 1 ELSE 0)
      BY <2>1, PlacesGrow
    <3> QED
      BY <2>2, <2>3, <2>4, <3>1, <3>2, <3>3
  <2>5. CASE f \notin taken
    <3>1. next'[f] - 1 = m
      BY <1>2, <2>5
    <3> HIDE DEF m
    <3>2. Cardinality(PlacesOf(sorted[f], s, m)) \in Nat
      BY <2>1, PlacesGrow
    <3> QED
      BY <2>2, <2>3, <2>5, <3>1, <3>2
  <2> QED
    BY <2>4, <2>5
<1>5. ASSUME NEW f \in 1..2 PROVE LeftOf(f)' \subseteq LeftOf(f)
  <2>1. next'[f]..Len(sorted[f]) \subseteq next[f]..Len(sorted[f])
    BY <1>1, <1>2
  <2> QED
    BY <1>1, <2>1 DEF LeftOf
<1>6. ASSUME NEW f \in 1..2, ok'[f] PROVE ok[f] /\ ln[f] <= ln'[f] /\ ln'[f] \in Nat
  <2>1. ok[f]
    BY <1>1, <1>2, <1>3, <1>6 DEF InHandOf
  <2>3. ln'[f] \in LeftOf(f)'
    <3>1. next'[f] \in Nat /\ next'[f] <= Len(sorted'[f])
      BY <1>3, <1>6 DEF InHandOf
    <3>2. ln'[f] = sorted'[f][next'[f]]
      BY <1>3, <3>1 DEF InHandOf
    <3>3. Len(sorted'[f]) \in Nat
      BY <1>1
    <3>4. next'[f] \in next'[f]..Len(sorted'[f])
      BY <3>1, <3>3
    <3> QED
      BY <3>2, <3>4 DEF LeftOf
  <2> QED
    BY <1>5, <2>1, <2>3, FilesAre
<1> QED
  BY <1>3, <1>4, <1>5, <1>6

\* A line of the merge goes to its column.
LEMMA MergeKept ==
  ASSUME CommKept, commphase = "merge", ok[1], ok[2],
         NEW taken \in SUBSET (1..2), NEW n0 \in 1..3, NEW x \in Nat, Show(x, n0), NextLn(taken),
         \/ taken = {1, 2} /\ n0 = 3 /\ x = ln[1] /\ x = ln[2]
         \/ taken = {1} /\ n0 = 1 /\ x = ln[1] /\ x < ln[2]
         \/ taken = {2} /\ n0 = 2 /\ x = ln[2] /\ x < ln[1]
  PROVE  CommKept'
<1>1. CommTyped /\ InHandOf
  BY DEF CommKept
<1>2. /\ InHandOf'
      /\ \A s : \A f \in 1..2 : TakenOf(f, s) \in Nat /\ TakenOf(f, s)' = TakenOf(f, s) + (IF f \in taken /\ s = ln[f] THEN 1 ELSE 0)
      /\ \A f \in 1..2 : LeftOf(f)' \subseteq LeftOf(f)
      /\ \A f \in 1..2 : ok'[f] => ok[f] /\ ln[f] <= ln'[f] /\ ln'[f] \in Nat
  <2>1. \A f \in taken : ok[f]
    OBVIOUS
  <2> QED
    BY <1>1, <2>1, NextLnDoes
<1>3. /\ \A f \in 1..2 : ln[f] \in LeftOf(f) /\ ln[f] \in Nat
      /\ \A f \in 1..2 : \A s \in LeftOf(f) : ln[f] <= s /\ s \in Nat
  BY <1>1, FilesAre
<1>4. /\ commphase' = "merge" /\ hide' = hide /\ hidden' = hidden /\ sorted' = sorted /\ maxtabs' = maxtabs
  BY DEF NextLn, hidden
<1>5. merged' = IF n0 \in hidden THEN merged ELSE Append(merged, [line |-> x, col |-> n0, tabs |-> Tabs(n0)])
  BY DEF Show
<1>6. [line |-> x, col |-> n0, tabs |-> Tabs(n0)] \in Printout
  <2>1. Tabs(n0) \in Nat
    BY <1>1 DEF Tabs, CommTyped
  <2> QED
    BY <2>1 DEF Printout
<1>7. merged \in Seq(Printout) /\ merged' \in Seq(Printout)
  BY <1>1, <1>5, <1>6 DEF CommTyped
<1>8. CommTyped'
  BY <1>1, <1>4, <1>7 DEF CommTyped
\* What was taken of the line before.
<1>9. /\ TakenOf(1, x) \in Nat /\ TakenOf(2, x) \in Nat
      /\ 1 \in taken => TakenOf(2, x) <= TakenOf(1, x)
      /\ 2 \in taken => TakenOf(1, x) <= TakenOf(2, x)
  <2>1. TakenOf(1, x) \in Nat /\ TakenOf(2, x) \in Nat
    BY <1>2
  <2>2. 1 \in taken => x \in LeftOf(1)
    BY <1>3
  <2>3. 2 \in taken => x \in LeftOf(2)
    BY <1>3
  <2> QED
    BY <2>1, <2>2, <2>3 DEF CommKept, Uneven
<1>10. /\ \A s : s # x => TakenOf(1, s)' = TakenOf(1, s) /\ TakenOf(2, s)' = TakenOf(2, s)
       /\ TakenOf(1, x)' = TakenOf(1, x) + (IF 1 \in taken THEN 1 ELSE 0)
       /\ TakenOf(2, x)' = TakenOf(2, x) + (IF 2 \in taken THEN 1 ELSE 0)
  <2>1. \A f \in taken : ln[f] = x
    OBVIOUS
  <2> QED
    BY <1>2, <2>1
<1>11. Uneven'
  <2> SUFFICES ASSUME NEW s \in Nat
               PROVE  /\ TakenOf(1, s)' > TakenOf(2, s)' => s \notin LeftOf(2)'
                      /\ TakenOf(2, s)' > TakenOf(1, s)' => s \notin LeftOf(1)'
    BY DEF Uneven
  <2>1. CASE s # x
    <3>1. /\ TakenOf(1, s) > TakenOf(2, s) => s \notin LeftOf(2)
          /\ TakenOf(2, s) > TakenOf(1, s) => s \notin LeftOf(1)
      BY DEF CommKept, Uneven
    <3> QED
      BY <1>2, <1>10, <2>1, <3>1
  <2>2. CASE s = x /\ taken = {1, 2}
    BY <1>9, <1>10, <2>2
  <2>3. CASE s = x /\ taken = {1}
    <3>1. x \notin LeftOf(2)'
      BY <1>2, <1>3, <2>3
    <3> QED
      BY <1>9, <1>10, <2>3, <3>1
  <2>4. CASE s = x /\ taken = {2}
    <3>1. x \notin LeftOf(1)'
      BY <1>2, <1>3, <2>4
    <3> QED
      BY <1>9, <1>10, <2>4, <3>1
  <2> QED
    BY <2>1, <2>2, <2>3, <2>4
<1>12. Shared3'
  <2> SUFFICES ASSUME hide = <<>>, NEW s \in Nat, NEW n \in 1..3
               PROVE  InColumn(s, n)' = Share(TakenOf(1, s)', TakenOf(2, s)', n) + LastLine(s, n)'
    BY <1>4 DEF Shared3, Share
  <2>1. InColumn(s, n) = Share(TakenOf(1, s), TakenOf(2, s), n) + LastLine(s, n)
    BY DEF CommKept, Shared3
  <2>2. LastLine(s, n) = 0 /\ LastLine(s, n)' = 0
    BY <1>4 DEF LastLine
  <2>3. merged' = Append(merged, [line |-> x, col |-> n0, tabs |-> Tabs(n0)])
    BY <1>5 DEF hidden, ToSet
  <2>4. InColumn(s, n) \in Nat /\ InColumn(s, n)' = InColumn(s, n) + (IF x = s /\ n0 = n THEN 1 ELSE 0)
    BY <1>6, <1>7, <2>3, ColumnGrows
  <2>5. TakenOf(1, s) \in Nat /\ TakenOf(2, s) \in Nat
    BY <1>2
  <2>6. CASE s # x
    BY <1>10, <2>1, <2>2, <2>4, <2>6
  <2>7. CASE s = x
    <3>1. Share(TakenOf(1, x)', TakenOf(2, x)', n) = Share(TakenOf(1, x), TakenOf(2, x), n) + (IF n0 = n THEN 1 ELSE 0)
      BY <1>9, <1>10 DEF Share
    <3>2. Share(TakenOf(1, x), TakenOf(2, x), n) \in Int
      BY <1>9 DEF Share
    <3> HIDE DEF Share
    <3> QED
      BY <2>1, <2>2, <2>4, <2>7, <3>1, <3>2
  <2> QED
    BY <2>6, <2>7
<1>13. Ascending'
  <2>1. \A k \in DOMAIN merged, f \in 1..2 : merged[k].line <= ln[f]
    BY DEF CommKept, Ascending
  <2>2. x <= ln[1] /\ x <= ln[2]
    BY <1>3
  <2>3. DOMAIN merged = 1..Len(merged) /\ Len(merged) \in Nat /\ \A k \in DOMAIN merged : merged[k] \in Printout
    BY <1>7
  <2>4. \A k \in DOMAIN merged' :
          \/ k \in DOMAIN merged /\ merged'[k] = merged[k]
          \/ n0 \notin hidden /\ k = Len(merged) + 1 /\ merged'[k].line = x /\ merged'[k].col = n0
    BY <1>5, <2>3
  <2>5. \A k \in DOMAIN merged' : merged'[k].line \in Nat /\ merged'[k].line <= ln[1] /\ merged'[k].line <= ln[2]
    BY <2>1, <2>2, <2>3, <2>4 DEF Printout
  <2>6. ASSUME NEW k \in DOMAIN merged', NEW l \in DOMAIN merged', k < l PROVE merged'[k].line <= merged'[l].line
    <3>1. k \in DOMAIN merged /\ merged'[k] = merged[k]
      BY <2>3, <2>4, <2>6, <1>7
    <3>2. CASE l \in DOMAIN merged /\ merged'[l] = merged[l]
      <4>1. Extra(merged[l].line, merged[l].col) = 0
        BY DEF Extra
      <4> QED
        BY <2>6, <3>1, <3>2, <4>1 DEF CommKept, Ascending
    <3>3. CASE merged'[l].line = x
      <4>1. merged[k].line <= ln[1] /\ merged[k].line <= ln[2]
        BY <2>1, <3>1
      <4> QED
        BY <3>1, <3>3, <4>1
    <3> QED
      BY <2>4, <3>2, <3>3
  <2>7. ASSUME NEW k \in DOMAIN merged', NEW f \in 1..2, ok'[f] PROVE merged'[k].line <= ln'[f]
    <3>1. ln[f] <= ln'[f] /\ ln[f] \in Nat
      BY <1>2, <1>3, <2>7
    <3>2. ln'[f] \in Nat
      BY <1>2, <2>7
    <3> QED
      BY <2>5, <3>1, <3>2
  <2>8. \A k \in DOMAIN merged' : merged'[k].col \notin hidden'
    BY <1>4, <2>4 DEF CommKept, Ascending
  <2> QED
    BY <1>4, <2>6, <2>7, <2>8 DEF Ascending
<1> QED
  BY <1>2, <1>8, <1>11, <1>12, <1>13 DEF CommKept

\* One file is over: a line of the other one, or an empty one, is printed last.
LEMMA OverKept ==
  ASSUME CommKept, commphase = "merge", commphase' = "exit", UNCHANGED <<sorted, hide, next, ln, ok, maxtabs>>,
         NEW n0 \in 1..2, (~ok[1] /\ n0 = 2) \/ (ok[1] /\ ~ok[2] /\ n0 = 1), Show(ln[n0], n0)
  PROVE  CommKept'
<1>1. CommTyped /\ InHandOf
  BY DEF CommKept
<1>2. InHandOf'
  BY <1>1 DEF InHandOf
<1>3. ln[n0] \in Nat /\ ln[1] \in Nat /\ ln[2] \in Nat /\ (~ok[2] => ln[2] = 0)
  BY <1>1, FilesAre
<1>4. merged' = IF n0 \in hidden THEN merged ELSE Append(merged, [line |-> ln[n0], col |-> n0, tabs |-> Tabs(n0)])
  BY DEF Show
<1>5. [line |-> ln[n0], col |-> n0, tabs |-> Tabs(n0)] \in Printout
  <2>1. Tabs(n0) \in Nat
    BY <1>1 DEF Tabs, CommTyped
  <2> QED
    BY <1>3, <2>1 DEF Printout
<1>6. merged \in Seq(Printout) /\ merged' \in Seq(Printout)
  BY <1>1, <1>4, <1>5 DEF CommTyped
<1>7. CommTyped'
  BY <1>1, <1>6 DEF CommTyped
<1>8. \A f, s : TakenOf(f, s)' = TakenOf(f, s)
  BY DEF TakenOf, PlacesOf
<1>9. Uneven'
  BY <1>8 DEF CommKept, Uneven, LeftOf
<1>10. Shared3'
  <2> SUFFICES ASSUME hide = <<>>, NEW s \in Nat, NEW n \in 1..3
               PROVE  InColumn(s, n)' = Share(TakenOf(1, s)', TakenOf(2, s)', n) + LastLine(s, n)'
    BY DEF Shared3, Share
  <2>1. InColumn(s, n) = Share(TakenOf(1, s), TakenOf(2, s), n) + LastLine(s, n)
    BY DEF CommKept, Shared3
  <2>2. LastLine(s, n) = 0 /\ LastLine(s, n)' = IF n = n0 /\ s = ln[n0] THEN 1 ELSE 0
    BY DEF LastLine
  <2>3. merged' = Append(merged, [line |-> ln[n0], col |-> n0, tabs |-> Tabs(n0)])
    BY <1>4 DEF hidden, ToSet
  <2>4. InColumn(s, n) \in Nat /\ InColumn(s, n)' = InColumn(s, n) + (IF ln[n0] = s /\ n0 = n THEN 1 ELSE 0)
    BY <1>5, <1>6, <2>3, ColumnGrows
  <2>5. Share(TakenOf(1, s)', TakenOf(2, s)', n) = Share(TakenOf(1, s), TakenOf(2, s), n)
    BY <1>8
  <2>6. InColumn(s, n) = Share(TakenOf(1, s), TakenOf(2, s), n)
    <3>1. Share(TakenOf(1, s), TakenOf(2, s), n) \in Int
      <4>1. TakenOf(1, s) \in Nat /\ TakenOf(2, s) \in Nat
        <5>1. \A f \in 1..2 : next[f] - 1 \in Nat
          BY <1>1 DEF InHandOf
        <5> QED
          BY <5>1, PlacesGrow, SMTT(60) DEF TakenOf
      <4> QED
        BY <4>1 DEF Share
    <3> QED
      BY <2>1, <2>2, <3>1
  <2> QED
    BY <2>2, <2>4, <2>5, <2>6
<1>11. Ascending'
  <2>1. \A k \in DOMAIN merged, f \in 1..2 : ok[f] => merged[k].line <= ln[f]
    BY DEF CommKept, Ascending
  <2>2. DOMAIN merged = 1..Len(merged) /\ Len(merged) \in Nat /\ \A k \in DOMAIN merged : merged[k] \in Printout
    BY <1>6
  <2>3. \A k \in DOMAIN merged' :
          \/ k \in DOMAIN merged /\ merged'[k] = merged[k]
          \/ n0 \notin hidden /\ k = Len(merged) + 1 /\ merged'[k].line = ln[n0] /\ merged'[k].col = n0
    BY <1>4, <2>2
  <2>4. ASSUME NEW k \in DOMAIN merged', NEW l \in DOMAIN merged', k < l
        PROVE  merged'[k].line <= merged'[l].line \/ Extra(merged[l].line, merged[l].col)' = 1
    <3>1. k \in DOMAIN merged /\ merged'[k] = merged[k]
      BY <2>2, <2>3, <2>4, <1>6
    <3>2. CASE l \in DOMAIN merged /\ merged'[l] = merged[l]
      <4>1. Extra(merged[l].line, merged[l].col) = 0
        BY DEF Extra
      <4>2. merged[k].line <= merged[l].line
        BY <2>4, <3>1, <3>2, <4>1 DEF CommKept, Ascending
      <4> QED
        BY <3>1, <3>2, <4>2
    <3>3. CASE merged'[l].line = ln[n0] /\ merged'[l].col = n0
      <4>1. CASE ok[n0]
        BY <2>1, <3>1, <3>3, <4>1
      <4>2. CASE ~ok[n0]
        <5>1. n0 = 2 /\ ~ok'[1] /\ ~ok'[2] /\ merged'[l].line = 0 /\ merged'[l].col = 2
          BY <1>3, <3>3, <4>2
        <5> QED
          BY <5>1 DEF Extra
      <4> QED
        BY <4>1, <4>2
    <3> QED
      BY <2>3, <3>2, <3>3
  <2>5. \A k \in DOMAIN merged' : merged'[k].col \notin hidden'
    <3>1. hidden' = hidden
      BY DEF hidden
    <3> QED
      BY <2>3, <3>1 DEF CommKept, Ascending
  <2> QED
    BY <2>4, <2>5 DEF Ascending
<1> QED
  BY <1>2, <1>7, <1>9, <1>10, <1>11 DEF CommKept

\* Every step keeps the invariant.
LEMMA CommStepKept == CommKept /\ [CommNext]_commVars => CommKept'
<1> SUFFICES ASSUME CommKept, [CommNext]_commVars PROVE CommKept'
  OBVIOUS
<1>1. /\ commphase \in {"args", "merge", "exit", "usage"} /\ maxtabs \in Int /\ hide \in Seq(Nat)
      /\ ln[1] \in Nat /\ ln[2] \in Nat
  BY FilesAre, CommAssumption DEF CommKept, CommTyped
<1>2. CASE Columns
  BY <1>1, <1>2, CommStillKept DEF Columns
<1>3. CASE BadColumn
  BY <1>1, <1>3, CommStillKept DEF BadColumn
<1>4. CASE Both
  <2>1. /\ commphase = "merge" /\ ok[1] /\ ok[2] /\ ln[1] = ln[2] /\ Show(ln[1], 3) /\ NextLn({1, 2})
    BY <1>4 DEF Both, BothFiles
  <2>2. {1, 2} \in SUBSET (1..2) /\ 3 \in 1..3
    OBVIOUS
  <2> QED
    BY <1>1, <2>1, <2>2, MergeKept
<1>5. CASE First
  <2>1. commphase = "merge" /\ ok[1] /\ ok[2] /\ ln[1] < ln[2] /\ Show(ln[1], 1) /\ NextLn({1})
    BY <1>5 DEF First
  <2>2. {1} \in SUBSET (1..2) /\ 1 \in 1..3
    OBVIOUS
  <2> QED
    BY <1>1, <2>1, <2>2, MergeKept
<1>6. CASE Second
  <2>1. commphase = "merge" /\ ok[1] /\ ok[2] /\ ln[2] < ln[1] /\ Show(ln[2], 2) /\ NextLn({2})
    BY <1>1, <1>6 DEF Second
  <2>2. {2} \in SUBSET (1..2) /\ 2 \in 1..3
    OBVIOUS
  <2> QED
    BY <1>1, <2>1, <2>2, MergeKept
<1>7. CASE FirstOver
  <2>1. commphase = "merge" /\ ~ok[1] /\ Show(ln[2], 2) /\ commphase' = "exit" /\ UNCHANGED <<sorted, hide, next, ln, ok, maxtabs>>
    BY <1>7 DEF FirstOver
  <2> QED
    BY <2>1, OverKept
<1>8. CASE SecondOver
  <2>1. commphase = "merge" /\ ok[1] /\ ~ok[2] /\ Show(ln[1], 1) /\ commphase' = "exit" /\ UNCHANGED <<sorted, hide, next, ln, ok, maxtabs>>
    BY <1>8 DEF SecondOver
  <2> QED
    BY <2>1, OverKept
<1>9. CASE UNCHANGED commVars
  <2>1. UNCHANGED <<sorted, hide, next, ln, ok, maxtabs, merged, commphase>>
    BY <1>9 DEF commVars
  <2> QED
    <3>1. CommTyped' /\ InHandOf'
      BY <2>1 DEF CommKept, CommTyped, InHandOf
    <3>2. Uneven'
      BY <2>1 DEF CommKept, Uneven, TakenOf, PlacesOf, LeftOf
    <3>3. Shared3'
      <4>1. \A z, n : InColumn(z, n)' = InColumn(z, n) /\ LastLine(z, n)' = LastLine(z, n)
        BY <2>1 DEF InColumn, LastLine
      <4>2. \A f, z : TakenOf(f, z)' = TakenOf(f, z)
        BY <2>1 DEF TakenOf, PlacesOf
      <4> QED
        BY <2>1, <4>1, <4>2 DEF CommKept, Shared3, Share
    <3>4. Ascending'
      BY <2>1 DEF CommKept, Ascending, Extra, hidden
    <3> QED
      BY <3>1, <3>2, <3>3, <3>4 DEF CommKept
<1> QED
  BY <1>2, <1>3, <1>4, <1>5, <1>6, <1>7, <1>8, <1>9 DEF CommNext

\* How often a line is in a file, from how often it was taken and what is left.
LEMMA TimesAre ==
  ASSUME CommTyped, InHandOf, NEW f \in 1..2, NEW s
  PROVE  /\ Times(f, s) \in Nat /\ TakenOf(f, s) \in Nat
         /\ s \notin LeftOf(f) => Times(f, s) = TakenOf(f, s)
         /\ s \in LeftOf(f) => Times(f, s) >= TakenOf(f, s) + 1
         /\ s \in LeftOf(f) /\ s \notin Lost(f) => s = ln[f] /\ Times(f, s) = TakenOf(f, s) + 1
<1> DEFINE q == sorted[f]
<1> DEFINE m == next[f] - 1
<1>1. q \in Seq(Nat) /\ Len(q) \in Nat /\ DOMAIN q = 1..Len(q)
  BY FilesAre
<1>2. m \in Nat /\ m <= Len(q) /\ next[f] = m + 1
  BY <1>1, SMTT(60) DEF InHandOf
<1>3. Times(f, s) = Cardinality(PlacesOf(q, s, Len(q)))
  BY <1>1 DEF Times, PlacesOf
<1>4. TakenOf(f, s) = Cardinality(PlacesOf(q, s, m))
  BY DEF TakenOf
<1>5. LeftOf(f) = {q[k] : k \in (m + 1)..Len(q)}
  BY <1>2 DEF LeftOf
<1>6. ok[f] => ln[f] = q[m + 1]
  BY <1>2 DEF InHandOf
<1>7. ok[f] <=> m + 1 <= Len(q)
  BY <1>2 DEF InHandOf
<1>8. Lost(f) = {q[k] : k \in (m + 2)..Len(q)}
  <2>1. Lost(f) = ToSet(SubSeq(q, m + 2, Len(q)))
    BY <1>2 DEF Lost
  <2> HIDE DEF q, m
  <2> DEFINE r == SubSeq(q, m + 2, Len(q))
  <2> DEFINE d == IF m + 2 <= Len(q) THEN Len(q) - (m + 1) ELSE 0
  <2>2. r \in Seq(Nat) /\ Len(r) = d /\ \A k \in 1..d : r[k] = q[m + 1 + k]
    <3>1. m + 2 \in Int /\ Len(q) \in Int /\ \A i \in (m + 2)..Len(q) : q[i] \in Nat
      BY <1>1, <1>2
    <3>2. /\ SubSeq(q, m + 2, Len(q)) \in Seq(Nat)
          /\ Len(SubSeq(q, m + 2, Len(q))) = IF m + 2 <= Len(q) THEN Len(q) - (m + 2) + 1 ELSE 0
          /\ \A i \in 1..(Len(q) - (m + 2) + 1) : SubSeq(q, m + 2, Len(q))[i] = q[m + 2 + i - 1]
      BY <3>1, SubSeqProperties
    <3>3. Len(q) \in Nat /\ m \in Nat
      BY <1>1, <1>2
    <3>4. r \in Seq(Nat) /\ Len(r) = d
      BY <3>2, <3>3
    <3>5. \A k \in 1..d : k \in 1..(Len(q) - (m + 2) + 1) /\ m + 2 + k - 1 = m + 1 + k
      BY <3>3
    <3>6. \A k \in 1..d : r[k] = q[m + 1 + k]
      <4> TAKE k \in 1..d
      <4>1. r[k] = q[m + 2 + k - 1]
        BY <3>2, <3>5
      <4> HIDE DEF r, d
      <4> QED
        BY <3>5, <4>1
    <3> QED
      BY <3>4, <3>6
  <2> HIDE DEF r
  <2>3. DOMAIN r = 1..d
    BY <2>2
  <2>4. ASSUME NEW k \in (m + 2)..Len(q) PROVE q[k] \in ToSet(r)
    <3>1. k - (m + 1) \in DOMAIN r /\ m + 1 + (k - (m + 1)) = k
      BY <1>1, <1>2, <2>3
    <3>2. r[k - (m + 1)] = q[k]
      BY <2>2, <2>3, <3>1
    <3> QED
      BY <3>1, <3>2 DEF ToSet
  <2>5. ASSUME NEW x \in ToSet(r) PROVE \E k \in (m + 2)..Len(q) : x = q[k]
    <3>1. PICK k \in DOMAIN r : x = r[k]
      BY DEF ToSet
    <3>2. m + 1 + k \in (m + 2)..Len(q)
      BY <1>1, <1>2, <2>3, SMTT(60)
    <3> QED
      BY <2>2, <2>3, <3>1, <3>2
  <2> QED
    BY <2>1, <2>4, <2>5 DEF r
<1> HIDE DEF q, m
<1>9. Times(f, s) \in Nat /\ TakenOf(f, s) \in Nat
  BY <1>1, <1>2, <1>3, <1>4, PlacesGrow
<1>10. ASSUME s \notin LeftOf(f) PROVE Times(f, s) = TakenOf(f, s)
  <2>1. PlacesOf(q, s, Len(q)) = PlacesOf(q, s, m)
    BY <1>1, <1>2, <1>5, <1>10 DEF PlacesOf
  <2> QED
    BY <1>3, <1>4, <2>1
<1>11. ASSUME s \in LeftOf(f) PROVE Times(f, s) >= TakenOf(f, s) + 1
  <2>1. PICK k \in (m + 1)..Len(q) : q[k] = s
    BY <1>5, <1>11
  <2>2. PlacesOf(q, s, m) \cup {k} \subseteq PlacesOf(q, s, Len(q)) /\ k \notin PlacesOf(q, s, m)
    BY <1>1, <1>2, <2>1 DEF PlacesOf
  <2>3. IsFiniteSet(PlacesOf(q, s, m)) /\ IsFiniteSet(PlacesOf(q, s, Len(q)))
    BY <1>1, <1>2, OneMore DEF PlacesOf
  <2>4. Cardinality(PlacesOf(q, s, m) \cup {k}) = Cardinality(PlacesOf(q, s, m)) + 1
    BY <2>2, <2>3, FS_AddElement
  <2>5. Cardinality(PlacesOf(q, s, m) \cup {k}) <= Cardinality(PlacesOf(q, s, Len(q)))
    BY <2>2, <2>3, FS_Subset
  <2> QED
    BY <1>3, <1>4, <1>9, <2>4, <2>5
<1>12. ASSUME s \in LeftOf(f), s \notin Lost(f) PROVE s = ln[f] /\ Times(f, s) = TakenOf(f, s) + 1
  <2>1. PICK k \in (m + 1)..Len(q) : q[k] = s
    BY <1>5, <1>12
  <2>2. k = m + 1 /\ q[m + 1] = s /\ m + 1 <= Len(q)
    BY <1>1, <1>2, <1>8, <1>12, <2>1
  <2>3. PlacesOf(q, s, Len(q)) = PlacesOf(q, s, m + 1)
    BY <1>1, <1>2, <1>8, <1>12, <2>2 DEF PlacesOf
  <2>4. Cardinality(PlacesOf(q, s, m + 1)) = Cardinality(PlacesOf(q, s, m)) + 1
    BY <1>2, <2>2, PlacesGrow
  <2> QED
    BY <1>3, <1>4, <1>6, <1>7, <2>2, <2>3, <2>4
<1> QED
  BY <1>9, <1>10, <1>11, <1>12

\* What the invariant says of the columns at the end.
LEMMA KeptColumns == CommKept => CommPrefix
<1> SUFFICES ASSUME CommKept PROVE CommPrefix
  OBVIOUS
<1>1. CommTyped /\ InHandOf
  BY DEF CommKept
<1>2. ASSUME commphase = "exit", hide = <<>>, NEW s \in Lines, NEW n \in 1..3
      PROVE  \/ InColumn(s, n) = Belongs(s, n) + Extra(s, n)
             \/ InColumn(s, n) < Belongs(s, n) + Extra(s, n) /\ n < 3 /\ s \in Lost(n)
  <2>1. s \in Nat
    <3>1. \A f \in 1..2 : ToSet(sorted[f]) \subseteq Nat
      BY <1>1, FilesAre DEF ToSet
    <3> QED
      BY <3>1 DEF Lines
  <2> DEFINE a == TakenOf(1, s)
  <2> DEFINE b == TakenOf(2, s)
  <2> DEFINE A == Times(1, s)
  <2> DEFINE B == Times(2, s)
  <2>2. a \in Nat /\ b \in Nat /\ A \in Nat /\ B \in Nat
    BY <1>1, TimesAre
  <2>3. InColumn(s, n) = Share(a, b, n) + LastLine(s, n)
    BY <1>2, <2>1 DEF CommKept, Shared3
  <2>4. Belongs(s, n) = Share(A, B, n)
    BY DEF Belongs, Share
  <2>5. (s \in LeftOf(2) => a <= b) /\ (s \in LeftOf(1) => b <= a)
    BY <2>1, <2>2 DEF CommKept, Uneven
  <2>6. (s \notin LeftOf(1) => A = a) /\ (s \in LeftOf(1) => A >= a + 1)
        /\ (s \in LeftOf(1) /\ s \notin Lost(1) => s = ln[1] /\ A = a + 1)
    BY <1>1, TimesAre
  <2>7. (s \notin LeftOf(2) => B = b) /\ (s \in LeftOf(2) => B >= b + 1)
        /\ (s \in LeftOf(2) /\ s \notin Lost(2) => s = ln[2] /\ B = b + 1)
    BY <1>1, TimesAre
  <2>8. /\ \A f \in 1..2 : ~ok[f] => s \notin LeftOf(f) /\ ln[f] = 0
        /\ \A f \in 1..2 : ok[f] => ln[f] \in LeftOf(f)
    BY <1>1, FilesAre
  <2> HIDE DEF a, b, A, B
  <2>9. CASE ~ok[1]
    <3>1. A = a
      BY <2>6, <2>8, <2>9
    <3>2. LastLine(s, n) = IF n = 2 /\ s = ln[2] THEN 1 ELSE 0
      BY <1>2, <2>9 DEF LastLine
    <3>3. CASE ~ok[2]
      <4>1. B = b
        BY <2>7, <2>8, <3>3
      <4>2. LastLine(s, n) = Extra(s, n)
        BY <1>2, <2>8, <2>9, <3>2, <3>3 DEF Extra
      <4> QED
        BY <2>3, <2>4, <3>1, <4>1, <4>2
    <3>4. CASE ok[2]
      <4>1. Extra(s, n) = 0
        BY <3>4 DEF Extra
      <4>2. CASE s \notin LeftOf(2)
        <5>1. B = b /\ s # ln[2]
          BY <2>7, <2>8, <3>4, <4>2
        <5> QED
          BY <2>3, <2>4, <3>1, <3>2, <4>1, <5>1
      <4>3. CASE s \in LeftOf(2) /\ n # 2
        BY <2>2, <2>3, <2>4, <2>5, <2>7, <3>1, <3>2, <4>1, <4>3 DEF Share
      <4>4. CASE s \in LeftOf(2) /\ n = 2
        BY <2>2, <2>3, <2>4, <2>5, <2>7, <3>1, <3>2, <4>1, <4>4 DEF Share
      <4> QED
        BY <4>2, <4>3, <4>4
    <3> QED
      BY <3>3, <3>4
  <2>10. CASE ok[1]
    <3>1. ~ok[2] /\ B = b
      BY <1>1, <1>2, <2>7, <2>8, <2>10 DEF InHandOf
    <3>2. LastLine(s, n) = IF n = 1 /\ s = ln[1] THEN 1 ELSE 0
      BY <1>2, <2>10 DEF LastLine
    <3>3. Extra(s, n) = 0
      BY <2>10 DEF Extra
    <3>4. CASE s \notin LeftOf(1)
      <4>1. A = a /\ s # ln[1]
        BY <2>6, <2>8, <2>10, <3>4
      <4> QED
        BY <2>3, <2>4, <3>1, <3>2, <3>3, <4>1
    <3>5. CASE s \in LeftOf(1) /\ n # 1
      BY <2>2, <2>3, <2>4, <2>5, <2>6, <3>1, <3>2, <3>3, <3>5 DEF Share
    <3>6. CASE s \in LeftOf(1) /\ n = 1
      BY <2>2, <2>3, <2>4, <2>5, <2>6, <3>1, <3>2, <3>3, <3>6 DEF Share
    <3> QED
      BY <3>4, <3>5, <3>6
  <2> QED
    BY <2>9, <2>10
<1>3. ASSUME commphase = "exit", hide = <<>>, NEW s \in Lines, NEW n \in 1..3
      PROVE  \/ Belongs(s, n) <= InColumn(s, n) /\ InColumn(s, n) <= Belongs(s, n) + Extra(s, n)
             \/ InColumn(s, n) < Belongs(s, n) /\ n < 3 /\ s \in Lost(n)
  <2>1. \/ InColumn(s, n) = Belongs(s, n) + Extra(s, n)
        \/ InColumn(s, n) < Belongs(s, n) + Extra(s, n) /\ n < 3 /\ s \in Lost(n)
    BY <1>2, <1>3
  <2>2. Belongs(s, n) \in Nat
    <3>1. Times(1, s) \in Nat /\ Times(2, s) \in Nat
      BY <1>1, TimesAre
    <3> QED
      BY <3>1 DEF Belongs
  <2>3. InColumn(s, n) \in Nat
    <3>1. IsFiniteSet(DOMAIN merged)
      <4>1. DOMAIN merged = 1..Len(merged) /\ Len(merged) \in Nat
        BY <1>1, LenProperties DEF CommTyped
      <4> QED
        BY <4>1, FS_Interval
    <3>2. {k \in DOMAIN merged : merged[k].line = s /\ merged[k].col = n} \subseteq DOMAIN merged
      OBVIOUS
    <3> QED
      BY <3>1, <3>2, FS_Subset, FS_CardinalityType DEF InColumn
  <2>4. Extra(s, n) \in {0, 1}
    BY DEF Extra
  <2> HIDE DEF Lost
  <2> QED
    BY <2>1, <2>2, <2>3, <2>4
<1> QED
  BY <1>3 DEF CommPrefix, CommKept, Ascending

\* Comm's columns hold what was taken of the two files, and a line taken more often from
\* one of them is no more in what is left of the other.
THEOREM CommInvariance == CommSpec => []CommKept
<1> QED
  BY CommInitKept, CommStepKept, PTL DEF CommSpec

\* What comm prints is sorted, in the column it belongs to and not hidden, and complete but
\* for the lines that are left in one file when the other is over (comm.go:58-110).
THEOREM ColumnsRight == CommSpec => []CommPrefix
BY CommInvariance, KeptColumns, PTL

-----------------------------------------------------------------------------
(* uniq *)

Token == UniqText \cup Seq(UniqText)
Output == [line : Nat, ct : Nat]

\* How often a selection is among the first.
OccursIn(m, x) == Cardinality(PlacesOf(sel, x, m))

\* The types; a line is remembered with its selection.
UniqTyped ==
    /\ inputs \in UniqInputs /\ uniqphase \in {"range", "read", "write", "exit", "fatal"}
    /\ fileno \in Nat \ {0} /\ fileno <= Len(inputs) + 1 /\ lineno \in Nat
    /\ fileno <= Len(inputs) => lineno <= Len(LinesOfFile(fileno))
    /\ fileno > Len(inputs) => lineno = 0
    /\ buf \in Seq(Token) /\ emitted \in Seq(Output) /\ (uniqphase = "write" => "R" \notin modes)
    /\ looked \in 0..Len(buf) /\ (uniqphase \in {"range", "read", "fatal"} => looked = 0)
Remembered == "R" \notin modes =>
    /\ Len(sel) = Len(buf) /\ sel = [k \in 1..Len(buf) |-> Extract(Field(range), buf[k])]
    /\ DOMAIN seen = {sel[k] : k \in 1..Len(buf)}
    /\ \A x \in DOMAIN seen : seen[x] = OccursIn(Len(buf), x)
    /\ uniqphase \in {"range", "read", "fatal"} => emitted = <<>> /\ passed = NoCount
    /\ uniqphase = "exit" => looked = Len(buf)
\* What was read are the lines of the files before, and some of the file in hand.
ReadOut == "R" \notin modes =>
    /\ fileno <= Len(inputs) => buf = LinesBefore[fileno - 1] \o SubSeq(LinesOfFile(fileno), 1, lineno)
    /\ fileno > Len(inputs) => buf = AllLines
    /\ uniqphase \in {"write", "exit"} => fileno > Len(inputs)
\* The lines up to the one looked at are written if they are to be shown.
Written == "R" \notin modes =>
    /\ \A k, l \in DOMAIN emitted : k < l => emitted[k].line < emitted[l].line
    /\ {emitted[k].line : k \in DOMAIN emitted} = {k \in 1..looked : ShownAs("code", k)}
    /\ \A k \in DOMAIN emitted : emitted[k].line \in 1..Len(buf) /\ emitted[k].ct = OccursIn(Len(buf), sel[emitted[k].line])
\* How many lines of a selection were passed over, or with neither -d nor -l whether one was written.
PassedOver == "R" \notin modes => \A k \in 1..Len(buf) :
    LET x == sel[k]  all == OccursIn(Len(buf), x)  now == OccursIn(looked, x)
    IN  /\ modes \cap {"d", "l"} = {} => Count(passed, x) = IF all > 1 /\ now > 0 THEN 1 ELSE 0
        /\ "l" \in modes => Count(passed, x) = IF now < all THEN now ELSE all - 1
\* With -R what was read is what is written and remembered.
Tokens == "R" \in modes =>
    /\ DOMAIN seen = ToSet(buf)
    /\ \A k \in DOMAIN emitted : emitted[k].line \in 1..Len(buf)
    /\ \A k, l \in DOMAIN emitted : buf[emitted[k].line] = buf[emitted[l].line] => k = l
    /\ {buf[emitted[k].line] : k \in DOMAIN emitted} = ToSet(buf)

UniqKept == UniqTyped /\ Remembered /\ ReadOut /\ Written /\ PassedOver /\ Tokens

\* The files and their lines.
LEMMA InputsAre ==
  ASSUME inputs \in UniqInputs
  PROVE  /\ Len(inputs) \in Nat
         /\ \A k \in 1..Len(inputs) : LinesOfFile(k) \in Seq(UniqText) /\ Len(LinesOfFile(k)) \in Nat
         /\ \A k \in 1..Len(inputs) : IF inputs[k].readable THEN LinesOfFile(k) = inputs[k].lines ELSE LinesOfFile(k) = <<>>
<1>1. inputs \in Seq([readable : BOOLEAN, lines : Seq(UniqText)])
  BY UniqAssumption
<1>2. Len(inputs) \in Nat /\ \A k \in 1..Len(inputs) : inputs[k] \in [readable : BOOLEAN, lines : Seq(UniqText)]
  <2> DEFINE E == [readable : BOOLEAN, lines : Seq(UniqText)]
  <2>1. inputs \in Seq(E)
    BY <1>1
  <2> HIDE DEF E
  <2>2. Len(inputs) \in Nat /\ \A k \in 1..Len(inputs) : inputs[k] \in E
    BY <2>1
  <2> QED
    BY <2>2 DEF E
<1>3. ASSUME NEW k \in 1..Len(inputs) PROVE LinesOfFile(k) \in Seq(UniqText) /\ Len(LinesOfFile(k)) \in Nat
  <2>1. inputs[k].lines \in Seq(UniqText)
    BY <1>2
  <2>2. LinesOfFile(k) \in Seq(UniqText)
    BY <2>1 DEF LinesOfFile
  <2> QED
    BY <2>2
<1> QED
  BY <1>2, <1>3 DEF LinesOfFile

\* One list of the recursion that puts the lines of the files together.
LinesRow(f, k) == IF k = 0 THEN <<>> ELSE f[k - 1] \o LinesOfFile(k)

\* The function that does it for the first files exists.
LEMMA LinesExist ==
  ASSUME NEW m \in Nat
  PROVE  \E f : f = [k \in 0..m |-> LinesRow(f, k)]
<1> DEFINE T == {i \in Nat : \E f : f = [k \in 0..i |-> LinesRow(f, k)]}
<1>1. 0 \in T
  <2> DEFINE f == [k \in 0..0 |-> <<>>]
  <2>1. f = [k \in 0..0 |-> LinesRow(f, k)]
    BY DEF LinesRow
  <2> QED
    BY <2>1
<1>2. ASSUME NEW i \in T PROVE i + 1 \in T
  <2>1. PICK f : f = [k \in 0..i |-> LinesRow(f, k)]
    OBVIOUS
  <2> DEFINE g == [k \in 0..(i + 1) |-> LinesRow(f, k)]
  <2>2. \A k \in 0..i : g[k] = f[k]
    BY <2>1
  <2>3. ASSUME NEW k \in 0..(i + 1) PROVE LinesRow(f, k) = LinesRow(g, k)
    <3>1. CASE k = 0
      BY <3>1 DEF LinesRow
    <3>2. CASE k # 0
      <4>1. k - 1 \in 0..i
        BY <3>2
      <4>2. g[k - 1] = f[k - 1]
        BY <4>1, <2>2
      <4> HIDE DEF g
      <4> QED
        BY <3>2, <4>2 DEF LinesRow
    <3> QED
      BY <3>1, <3>2
  <2>4. g = [k \in 0..(i + 1) |-> LinesRow(g, k)]
    BY <2>3
  <2>5. \E h : h = [k \in 0..(i + 1) |-> LinesRow(h, k)]
    <3> HIDE DEF g
    <3> QED
      BY <2>4
  <2> QED
    BY <2>5
<1>3. T = Nat
  <2>1. T \in SUBSET Nat
    OBVIOUS
  <2> HIDE DEF T
  <2> QED
    BY <1>1, <1>2, <2>1, AllNat
<1> QED
  BY <1>3

\* The lines of the files before, file by file.
LEMMA LinesAre ==
  ASSUME inputs \in UniqInputs
  PROVE  /\ LinesBefore[0] = <<>>
         /\ \A k \in 1..Len(inputs) : LinesBefore[k] = LinesBefore[k - 1] \o LinesOfFile(k)
         /\ \A k \in 0..Len(inputs) : LinesBefore[k] \in Seq(UniqText)
<1> DEFINE L == Len(inputs)
<1> DEFINE F == LinesBefore
<1>1. L \in Nat /\ \A k \in 1..L : LinesOfFile(k) \in Seq(UniqText)
  BY InputsAre
<1>2. \E f : f = [k \in 0..L |-> LinesRow(f, k)]
  BY <1>1, LinesExist
<1>3. F = CHOOSE f : f = [k \in 0..L |-> LinesRow(f, k)]
  BY DEF LinesBefore, LinesRow
<1> HIDE DEF F
<1>4. F = [k \in 0..L |-> LinesRow(F, k)]
  BY <1>2, <1>3
<1>5. F[0] = <<>>
  BY <1>1, <1>4 DEF LinesRow
<1>6. ASSUME NEW k \in 1..L PROVE F[k] = F[k - 1] \o LinesOfFile(k)
  <2>1. k \in 0..L /\ k # 0
    BY <1>1
  <2>2. F[k] = LinesRow(F, k)
    BY <1>4, <2>1
  <2> QED
    BY <2>1, <2>2 DEF LinesRow
<1> DEFINE T == {i \in Nat : i <= L => F[i] \in Seq(UniqText)}
<1>7. 0 \in T
  <2>1. <<>> \in Seq(UniqText)
    OBVIOUS
  <2> QED
    BY <1>5, <2>1
<1>8. ASSUME NEW i \in T PROVE i + 1 \in T
  <2> SUFFICES ASSUME i + 1 <= L PROVE F[i + 1] \in Seq(UniqText)
    OBVIOUS
  <2>1. F[i] \in Seq(UniqText) /\ i + 1 \in 1..L /\ (i + 1) - 1 = i
    BY <1>1
  <2>2. LinesOfFile(i + 1) \in Seq(UniqText)
    BY <1>1, <2>1
  <2>3. F[i + 1] = F[i] \o LinesOfFile(i + 1)
    BY <1>6, <2>1
  <2> QED
    BY <2>1, <2>2, <2>3, ConcatProperties
<1>9. T = Nat
  <2>1. T \in SUBSET Nat
    OBVIOUS
  <2> HIDE DEF T
  <2> QED
    BY <1>7, <1>8, <2>1, AllNat
<1>10. \A k \in 0..L : F[k] \in Seq(UniqText)
  BY <1>1, <1>9
<1> QED
  BY <1>5, <1>6, <1>10 DEF F

\* What is counted once more.
LEMMA PlusOne ==
  ASSUME NEW f, NEW x
  PROVE  /\ DOMAIN Plus1(f, x) = DOMAIN f \cup {x}
         /\ \A y : Count(Plus1(f, x), y) = IF y = x THEN Count(f, x) + 1 ELSE Count(f, y)
BY DEF Plus1, Count

\* How often a selection is among the first.
LEMMA OccursAre ==
  ASSUME NEW m \in Nat, NEW x
  PROVE  /\ OccursIn(m, x) \in Nat /\ OccursIn(0, x) = 0
         /\ OccursIn(m + 1, x) = OccursIn(m, x) + (IF sel[m + 1] = x THEN 1 ELSE 0)
         /\ (OccursIn(m, x) = 0) <=> \A k \in 1..m : sel[k] # x
<1>1. PlacesOf(sel, x, 0) = {}
  BY DEF PlacesOf
<1>2. PlacesOf(sel, x, m) \in SUBSET (1..m)
  BY DEF PlacesOf
<1>3. (OccursIn(m, x) = 0) <=> (PlacesOf(sel, x, m) = {})
  <2>1. IsFiniteSet(PlacesOf(sel, x, m))
    BY <1>2, OneMore
  <2> QED
    BY <2>1, FS_EmptySet DEF OccursIn
<1>4. (PlacesOf(sel, x, m) = {}) <=> \A k \in 1..m : sel[k] # x
  BY DEF PlacesOf
<1>5. OccursIn(m, x) \in Nat
  BY PlacesGrow DEF OccursIn
<1>6. OccursIn(0, x) = 0
  BY <1>1, FS_EmptySet DEF OccursIn
<1>7. OccursIn(m + 1, x) = OccursIn(m, x) + (IF sel[m + 1] = x THEN 1 ELSE 0)
  BY PlacesGrow DEF OccursIn
<1> QED
  BY <1>3, <1>4, <1>5, <1>6, <1>7

\* A selection is among more lines at least as often, and as often if and only if it is not
\* among those that are added.
LEMMA OccursMore ==
  ASSUME NEW m \in Nat, NEW n \in Nat, m <= n, NEW x
  PROVE  /\ OccursIn(m, x) <= OccursIn(n, x)
         /\ (OccursIn(m, x) = OccursIn(n, x)) <=> \A k \in (m + 1)..n : sel[k] # x
<1> DEFINE P == PlacesOf(sel, x, m)
<1> DEFINE Q == PlacesOf(sel, x, n)
<1>1. P \in SUBSET (1..m) /\ Q \in SUBSET (1..n) /\ P \subseteq Q
  BY DEF PlacesOf
<1>2. OccursIn(m, x) = Cardinality(P) /\ OccursIn(n, x) = Cardinality(Q)
  BY DEF OccursIn
<1>3. (\A k \in (m + 1)..n : sel[k] # x) <=> P = Q
  BY DEF PlacesOf
<1> HIDE DEF P, Q
<1>4. IsFiniteSet(Q) /\ Cardinality(P) \in Nat /\ Cardinality(Q) \in Nat
  BY <1>1, OneMore
<1>5. Cardinality(P) <= Cardinality(Q) /\ (Cardinality(P) = Cardinality(Q) => P = Q)
  BY <1>1, <1>4, FS_Subset
<1> QED
  BY <1>2, <1>3, <1>4, <1>5

\* The selections.
LEMMA SelectionsAre ==
  ASSUME UniqTyped, Remembered, "R" \notin modes
  PROVE  /\ Len(buf) \in Nat /\ Len(sel) = Len(buf) /\ DOMAIN buf = 1..Len(buf) /\ looked \in Nat /\ looked <= Len(buf)
         /\ \A k \in 1..Len(buf) : sel[k] \in DOMAIN seen /\ seen[sel[k]] = OccursIn(Len(buf), sel[k])
         /\ \A k \in 1..Len(buf) : OccursIn(Len(buf), sel[k]) \in Nat \ {0}
         /\ \A k, l \in 1..Len(buf) : Same("code", k, l) <=> sel[k] = sel[l]
<1>1. Len(buf) \in Nat /\ DOMAIN buf = 1..Len(buf)
  <2>1. buf \in Seq(Token)
    BY DEF UniqTyped
  <2> QED
    BY <2>1
<1>5. Len(sel) = Len(buf)
  BY DEF Remembered
<1>6. looked \in Nat /\ looked <= Len(buf)
  BY <1>1 DEF UniqTyped
<1>2. \A k \in 1..Len(buf) : sel[k] \in DOMAIN seen /\ seen[sel[k]] = OccursIn(Len(buf), sel[k])
  BY DEF Remembered
<1>3. ASSUME NEW k \in 1..Len(buf) PROVE OccursIn(Len(buf), sel[k]) \in Nat \ {0}
  <2>1. OccursIn(Len(buf), sel[k]) \in Nat
    BY <1>1, OccursAre
  <2>2. (OccursIn(Len(buf), sel[k]) = 0) <=> \A l \in 1..Len(buf) : sel[l] # sel[k]
    BY <1>1, OccursAre
  <2> QED
    BY <2>1, <2>2
<1>4. \A k, l \in 1..Len(buf) : Same("code", k, l) <=> sel[k] = sel[l]
  BY DEF Remembered, Same, Picked
<1> QED
  BY <1>1, <1>2, <1>3, <1>4, <1>5, <1>6

\* Which lines are to be shown, by how often their selection occurs.
LEMMA ShownIs ==
  ASSUME UniqTyped, Remembered, "R" \notin modes, NEW k \in 1..Len(buf)
  PROVE  LET all == OccursIn(Len(buf), sel[k])
         IN  /\ modes \cap {"d", "l"} = {} => (ShownAs("code", k) <=> OccursIn(k - 1, sel[k]) = 0)
             /\ modes \cap {"d", "l"} # {} /\ "l" \in modes => (ShownAs("code", k) <=> all > 1 /\ OccursIn(k, sel[k]) = all)
             /\ modes \cap {"d", "l"} # {} /\ "l" \notin modes => (ShownAs("code", k) <=> all > 1)
<1> DEFINE n == Len(buf)
<1> DEFINE x == sel[k]
<1>1. n \in Nat /\ DOMAIN buf = 1..n /\ OccursIn(n, x) \in Nat \ {0} /\ \A l \in 1..n : Same("code", k, l) <=> x = sel[l]
  BY SelectionsAre
<1>2. Others("code", k) = {l \in 1..n : sel[l] = x /\ l # k}
  BY <1>1 DEF Others
<1>3. k \in Nat /\ k - 1 \in Nat /\ k <= n /\ (k - 1) + 1 = k
  BY <1>1
<1>4. OccursIn(k - 1, x) = 0 <=> \A l \in 1..(k - 1) : sel[l] # x
  BY <1>3, OccursAre
<1>5. OccursIn(k, x) = OccursIn(k - 1, x) + 1 /\ OccursIn(k - 1, x) \in Nat
  BY <1>3, OccursAre
<1>6. OccursIn(k, x) <= OccursIn(n, x) /\ (OccursIn(k, x) = OccursIn(n, x) <=> \A l \in (k + 1)..n : sel[l] # x)
  BY <1>1, <1>3, OccursMore
<1> HIDE DEF n, x
<1>7. (\A l \in Others("code", k) : k < l) <=> OccursIn(k - 1, x) = 0
  BY <1>1, <1>2, <1>3, <1>4
<1>8. (\A l \in Others("code", k) : l < k) <=> OccursIn(k, x) = OccursIn(n, x)
  BY <1>1, <1>2, <1>3, <1>6
<1>9. Others("code", k) # {} <=> OccursIn(n, x) > 1
  <2>1. Others("code", k) = {} <=> (\A l \in Others("code", k) : k < l) /\ (\A l \in Others("code", k) : l < k)
    BY <1>1, <1>2, <1>3
  <2>2. OccursIn(n, x) > 1 <=> ~(OccursIn(k - 1, x) = 0 /\ OccursIn(k, x) = OccursIn(n, x))
    BY <1>1, <1>5, <1>6
  <2> QED
    BY <1>7, <1>8, <2>1, <2>2
<1>10. modes \cap {"d", "l"} = {} => (ShownAs("code", k) <=> OccursIn(k - 1, x) = 0)
  BY <1>7 DEF ShownAs
<1>11. modes \cap {"d", "l"} # {} /\ "l" \in modes => (ShownAs("code", k) <=> OccursIn(n, x) > 1 /\ OccursIn(k, x) = OccursIn(n, x))
  BY <1>8, <1>9 DEF ShownAs
<1>12. modes \cap {"d", "l"} # {} /\ "l" \notin modes => (ShownAs("code", k) <=> OccursIn(n, x) > 1)
  BY <1>9 DEF ShownAs
<1> QED
  BY <1>10, <1>11, <1>12 DEF n, x

\* What only the files, the range and the modes say stays the same.
LEMMA UniqGivenSame ==
  ASSUME UNCHANGED uniqGiven
  PROVE  /\ LinesBefore' = LinesBefore /\ AllLines' = AllLines /\ Len(inputs)' = Len(inputs)
         /\ \A k : LinesOfFile(k)' = LinesOfFile(k)
<1>1. inputs' = inputs
  BY DEF uniqGiven
<1>2. \A k : LinesOfFile(k)' = LinesOfFile(k)
  BY <1>1 DEF LinesOfFile
<1>3. LinesBefore' = LinesBefore
  BY <1>1 DEF LinesBefore, LinesOfFile
<1> QED
  BY <1>1, <1>2, <1>3 DEF AllLines

\* So does what the lines say while no line is read.
LEMMA LinesSame ==
  ASSUME UNCHANGED uniqGiven, UNCHANGED <<buf, sel, seen>>
  PROVE  /\ \A m, x : OccursIn(m, x)' = OccursIn(m, x)
         /\ \A k : ShownAs("code", k)' <=> ShownAs("code", k)
<1>1. \A m, x : OccursIn(m, x)' = OccursIn(m, x)
  BY DEF OccursIn, PlacesOf
<1>2. \A k, l : Same("code", k, l)' <=> Same("code", k, l)
  BY DEF uniqGiven, Same, Picked
<1>3. \A k : Others("code", k)' = Others("code", k)
  BY <1>2 DEF Others
<1>4. modes' = modes
  BY DEF uniqGiven
<1>5. \A k : ShownAs("code", k)' <=> ShownAs("code", k)
  BY <1>3, <1>4 DEF ShownAs
<1> QED
  BY <1>1, <1>5

\* A step that neither reads nor writes a line changes nothing of what is written.
LEMMA WrittenStill ==
  ASSUME UniqKept, UNCHANGED uniqGiven, UNCHANGED <<buf, sel, seen, looked, passed, emitted>>
  PROVE  Written' /\ PassedOver' /\ Tokens'
<1>1. /\ \A m, x : OccursIn(m, x)' = OccursIn(m, x)
      /\ \A k : ShownAs("code", k)' <=> ShownAs("code", k)
      /\ modes' = modes
  BY LinesSame DEF uniqGiven
<1>2. {k \in 1..looked : ShownAs("code", k)}' = {k \in 1..looked : ShownAs("code", k)}
  BY <1>1
<1>3. Written'
  BY <1>1, <1>2 DEF UniqKept, Written
<1>4. PassedOver'
  BY <1>1 DEF UniqKept, PassedOver, Count
<1>5. Tokens'
  BY <1>1 DEF UniqKept, Tokens
<1> QED
  BY <1>3, <1>4, <1>5

\* Nor of what is remembered, while reading goes on.
LEMMA RememberedStill ==
  ASSUME UniqKept, UNCHANGED uniqGiven, UNCHANGED <<buf, sel, seen, emitted, passed, looked>>,
         uniqphase' \in {"range", "read", "fatal"} => uniqphase \in {"range", "read", "fatal"},
         "R" \notin modes /\ uniqphase' = "exit" => looked = Len(buf)
  PROVE  Remembered'
<1>1. \A m, x : OccursIn(m, x)' = OccursIn(m, x)
  BY LinesSame
<1>2. range' = range /\ modes' = modes
  BY DEF uniqGiven
<1> SUFFICES ASSUME "R" \notin modes PROVE Remembered'
  BY <1>2 DEF Remembered
<1>3. Len(sel) = Len(buf) /\ sel = [k \in 1..Len(buf) |-> Extract(Field(range), buf[k])]
  BY DEF UniqKept, Remembered
<1>4. (Len(sel) = Len(buf) /\ sel = [k \in 1..Len(buf) |-> Extract(Field(range), buf[k])])'
  BY <1>2, <1>3
<1>5. (DOMAIN seen = {sel[k] : k \in 1..Len(buf)} /\ \A x \in DOMAIN seen : seen[x] = OccursIn(Len(buf), x))'
  BY <1>1 DEF UniqKept, Remembered
<1>6. uniqphase' \in {"range", "read", "fatal"} => emitted' = <<>> /\ passed' = NoCount
  BY DEF UniqKept, Remembered
<1> QED
  BY <1>4, <1>5, <1>6 DEF Remembered, NoCount

\* Nothing is read yet.
LEMMA UniqInitKept == UniqInit => UniqKept
<1> SUFFICES ASSUME UniqInit PROVE UniqKept
  OBVIOUS
<1>1. /\ inputs \in UniqInputs /\ fileno = 1 /\ lineno = 0 /\ buf = <<>> /\ sel = <<>> /\ seen = NoCount
      /\ looked = 0 /\ passed = NoCount /\ emitted = <<>> /\ uniqphase = "range"
  BY DEF UniqInit
<1>2. Len(inputs) \in Nat /\ \A k \in 1..Len(inputs) : LinesOfFile(k) \in Seq(UniqText) /\ Len(LinesOfFile(k)) \in Nat
  BY <1>1, InputsAre
<1>3. DOMAIN NoCount = {}
  BY DEF NoCount
<1>4. UniqTyped
  <2>1. fileno <= Len(inputs) => lineno <= Len(LinesOfFile(fileno))
    BY <1>1, <1>2
  <2>2. buf \in Seq(Token) /\ emitted \in Seq(Output) /\ Len(buf) = 0
    BY <1>1
  <2> QED
    BY <1>1, <1>2, <2>1, <2>2 DEF UniqTyped
<1>5. Remembered
  <2>1. sel = [k \in 1..Len(buf) |-> Extract(Field(range), buf[k])]
    BY <1>1
  <2> QED
    BY <1>1, <1>3, <2>1 DEF Remembered
<1>6. ReadOut
  <2>1. LinesBefore[0] = <<>>
    BY <1>1, LinesAre
  <2>2. CASE fileno <= Len(inputs)
    <3>1. SubSeq(LinesOfFile(1), 1, 0) = <<>>
      BY SubSeqEmpty
    <3>2. <<>> \o <<>> = <<>>
      OBVIOUS
    <3> QED
      BY <1>1, <2>1, <2>2, <3>1, <3>2 DEF ReadOut
  <2>3. CASE fileno > Len(inputs)
    BY <1>1, <1>2, <2>1, <2>3 DEF ReadOut, AllLines
  <2> QED
    BY <1>1, <1>2, <2>2, <2>3
<1>7. Written
  BY <1>1 DEF Written
<1>8. PassedOver
  BY <1>1 DEF PassedOver
<1>9. Tokens
  BY <1>1, <1>3 DEF Tokens, ToSet
<1> QED
  BY <1>4, <1>5, <1>6, <1>7, <1>8, <1>9 DEF UniqKept

\* What is read stays as it is while the file in hand does.
LEMMA ReadStill ==
  ASSUME UniqKept, UNCHANGED uniqGiven, UNCHANGED <<fileno, lineno, buf>>,
         uniqphase' \in {"write", "exit"} => fileno > Len(inputs) \/ uniqphase \in {"write", "exit"}
  PROVE  ReadOut'
<1>1. /\ LinesBefore' = LinesBefore /\ AllLines' = AllLines /\ Len(inputs)' = Len(inputs)
      /\ \A k : LinesOfFile(k)' = LinesOfFile(k)
  BY UniqGivenSame
<1>2. modes' = modes
  BY DEF uniqGiven
<1>3. LinesOfFile(fileno)' = LinesOfFile(fileno)
  BY DEF LinesOfFile, uniqGiven
<1> QED
  BY <1>1, <1>2, <1>3 DEF UniqKept, ReadOut

\* The types, too.
LEMMA TypedStill ==
  ASSUME UniqKept, UNCHANGED uniqGiven, UNCHANGED <<fileno, lineno, buf>>,
         emitted' \in Seq(Output), looked' \in 0..Len(buf),
         uniqphase' \in {"range", "read", "write", "exit", "fatal"}, uniqphase' = "write" => "R" \notin modes,
         uniqphase' \in {"range", "read", "fatal"} => looked' = 0
  PROVE  UniqTyped'
<1>1. Len(inputs)' = Len(inputs) /\ LinesOfFile(fileno)' = LinesOfFile(fileno)
  BY DEF LinesOfFile, uniqGiven
<1>2. modes' = modes /\ inputs' = inputs
  BY DEF uniqGiven
<1> QED
  BY <1>1, <1>2 DEF UniqKept, UniqTyped

\* The range is parsed, all is read, all is written: only the phase changes.
LEMMA PhasesKept == UniqKept /\ (ParseRange \/ UniqAllRead \/ UniqExit) => UniqKept'
<1> SUFFICES ASSUME UniqKept, ParseRange \/ UniqAllRead \/ UniqExit PROVE UniqKept'
  OBVIOUS
<1>1. UNCHANGED uniqGiven /\ UNCHANGED <<fileno, lineno, buf, sel, seen, looked, passed, emitted>>
  BY DEF ParseRange, UniqAllRead, UniqExit
<1>2. /\ emitted \in Seq(Output) /\ looked \in 0..Len(buf)
      /\ uniqphase \in {"range", "read", "fatal"} => looked = 0
      /\ uniqphase = "write" => "R" \notin modes
  BY DEF UniqKept, UniqTyped
<1>3. /\ uniqphase' \in {"read", "write", "exit", "fatal"} /\ (uniqphase' = "write" => "R" \notin modes)
      /\ uniqphase' \in {"range", "read", "fatal"} => uniqphase \in {"range", "read", "fatal"}
      /\ "R" \notin modes /\ uniqphase' = "exit" => looked = Len(buf)
      /\ uniqphase' \in {"write", "exit"} => fileno > Len(inputs) \/ uniqphase \in {"write", "exit"}
  BY DEF ParseRange, UniqAllRead, UniqExit
<1>4. UniqTyped'
  BY <1>1, <1>2, <1>3, TypedStill
<1>5. Remembered'
  BY <1>1, <1>3, RememberedStill
<1>6. ReadOut'
  BY <1>1, <1>3, ReadStill
<1>7. Written' /\ PassedOver' /\ Tokens'
  BY <1>1, WrittenStill
<1> QED
  BY <1>4, <1>5, <1>6, <1>7 DEF UniqKept

\* A step that changes nothing.
LEMMA UniqStill == UniqKept /\ UNCHANGED uniqVars => UniqKept'
<1> SUFFICES ASSUME UniqKept, UNCHANGED uniqVars PROVE UniqKept'
  OBVIOUS
<1>1. UNCHANGED uniqGiven /\ UNCHANGED <<fileno, lineno, buf, sel, seen, looked, passed, emitted, uniqphase>>
  BY DEF uniqVars, uniqGiven
<1>2. UniqTyped'
  BY <1>1, TypedStill DEF UniqKept, UniqTyped
<1>3. "R" \notin modes /\ uniqphase' = "exit" => looked = Len(buf)
  BY <1>1 DEF UniqKept, Remembered
<1>4. Remembered'
  BY <1>1, <1>3, RememberedStill
<1>5. ReadOut'
  BY <1>1, ReadStill
<1>6. Written' /\ PassedOver' /\ Tokens'
  BY <1>1, WrittenStill
<1> QED
  BY <1>2, <1>4, <1>5, <1>6 DEF UniqKept

\* The lines of one file more are all read.
LEMMA NextFileKept == UniqKept /\ NextFile => UniqKept'
<1> SUFFICES ASSUME UniqKept, NextFile PROVE UniqKept'
  OBVIOUS
<1>1. UNCHANGED uniqGiven /\ UNCHANGED <<buf, sel, seen, looked, passed, emitted, uniqphase>>
  BY DEF NextFile
<1>2. fileno' = fileno + 1 /\ lineno' = 0 /\ fileno <= Len(inputs) /\ uniqphase = "read"
  BY DEF NextFile
<1>3. inputs \in UniqInputs /\ fileno \in Nat \ {0} /\ lineno \in Nat /\ lineno <= Len(LinesOfFile(fileno)) /\ looked = 0
  BY <1>2 DEF UniqKept, UniqTyped
<1>4. /\ Len(inputs) \in Nat
      /\ \A k \in 1..Len(inputs) : LinesOfFile(k) \in Seq(UniqText) /\ Len(LinesOfFile(k)) \in Nat
      /\ \A k \in 1..Len(inputs) : IF inputs[k].readable THEN LinesOfFile(k) = inputs[k].lines ELSE LinesOfFile(k) = <<>>
  BY <1>3, InputsAre
<1>5. /\ LinesBefore' = LinesBefore /\ AllLines' = AllLines /\ Len(inputs)' = Len(inputs)
      /\ \A k : LinesOfFile(k)' = LinesOfFile(k)
  BY <1>1, UniqGivenSame
<1>6. modes' = modes /\ inputs' = inputs
  BY <1>1 DEF uniqGiven
<1>7. fileno \in 1..Len(inputs) /\ fileno + 1 \in Nat \ {0} /\ fileno + 1 <= Len(inputs) + 1
  BY <1>2, <1>3, <1>4
<1>8. LinesOfFile(fileno)' = LinesOfFile(fileno + 1)
  BY <1>2, <1>6 DEF LinesOfFile
<1>9. UniqTyped'
  <2>1. fileno + 1 <= Len(inputs) => 0 <= Len(LinesOfFile(fileno + 1))
    BY <1>4, <1>7
  <2>2. buf' \in Seq(Token) /\ emitted' \in Seq(Output) /\ looked' \in 0..Len(buf')
    BY <1>1 DEF UniqKept, UniqTyped
  <2> QED
    BY <1>1, <1>2, <1>3, <1>6, <1>7, <1>8, <2>1, <2>2 DEF UniqTyped
<1>10. Remembered'
  BY <1>1, <1>2, RememberedStill
<1>11. ReadOut'
  <2> SUFFICES ASSUME "R" \notin modes PROVE ReadOut'
    BY <1>6 DEF ReadOut
  <2> DEFINE F == LinesOfFile(fileno)
  <2>1. lineno = Len(F)
    <3>1. CASE inputs[fileno].readable
      BY <1>4, <1>7, <3>1 DEF NextFile
    <3>2. CASE ~inputs[fileno].readable
      <4>1. F = <<>>
        BY <1>4, <1>7, <3>2
      <4> QED
        BY <1>3, <4>1
    <3> QED
      BY <3>1, <3>2
  <2>2. F \in Seq(UniqText)
    BY <1>4, <1>7
  <2>3. LinesBefore[fileno] = LinesBefore[fileno - 1] \o F
    BY <1>3, <1>7, LinesAre
  <2>4. LinesBefore[fileno] \in Seq(UniqText)
    <3>1. fileno \in 0..Len(inputs)
      BY <1>7
    <3> QED
      BY <1>3, <3>1, LinesAre
  <2>5. buf = LinesBefore[fileno - 1] \o SubSeq(F, 1, lineno)
    BY <1>2 DEF UniqKept, ReadOut
  <2> HIDE DEF F
  <2>6. SubSeq(F, 1, Len(F)) = F
    BY <2>2
  <2>7. buf = LinesBefore[fileno]
    BY <2>1, <2>3, <2>5, <2>6
  <2>8. CASE fileno + 1 <= Len(inputs)
    <3>1. SubSeq(LinesOfFile(fileno + 1), 1, 0) = <<>>
      BY SubSeqEmpty
    <3>2. LinesBefore[fileno] \o <<>> = LinesBefore[fileno]
      BY <2>4
    <3>3. (fileno + 1) - 1 = fileno
      BY <1>3
    <3>4. buf = LinesBefore[(fileno + 1) - 1] \o SubSeq(LinesOfFile(fileno + 1), 1, 0)
      BY <2>7, <3>1, <3>2, <3>3
    <3>5. ~(fileno + 1 > Len(inputs))
      BY <1>4, <1>7, <2>8
    <3>6. uniqphase' = "read"
      BY <1>1, <1>2
    <3> QED
      BY <1>1, <1>2, <1>5, <1>8, <3>4, <3>5, <3>6 DEF ReadOut
  <2>9. CASE fileno + 1 > Len(inputs)
    <3>1. fileno = Len(inputs) /\ ~(fileno + 1 <= Len(inputs))
      BY <1>4, <1>7, <2>9
    <3>2. buf = AllLines
      BY <2>7, <3>1 DEF AllLines
    <3> QED
      BY <1>1, <1>2, <1>5, <2>9, <3>1, <3>2 DEF ReadOut
  <2> QED
    BY <1>4, <1>7, <2>8, <2>9
<1>12. Written' /\ PassedOver' /\ Tokens'
  BY <1>1, WrittenStill
<1> QED
  BY <1>9, <1>10, <1>11, <1>12 DEF UniqKept

\* A line more at the end, and all before stay.
LEMMA OneLineMore ==
  ASSUME NEW S, NEW q \in Seq(S), NEW s \in S
  PROVE  /\ Append(q, s) \in Seq(S) /\ Len(q) \in Nat /\ Len(Append(q, s)) = Len(q) + 1
         /\ Append(q, s)[Len(q) + 1] = s /\ \A k \in 1..Len(q) : Append(q, s)[k] = q[k]
         /\ Append(q, s) = [k \in 1..(Len(q) + 1) |-> IF k = Len(q) + 1 THEN s ELSE q[k]]
         /\ ToSet(Append(q, s)) = ToSet(q) \cup {s}
<1>1. /\ Append(q, s) \in Seq(S) /\ Len(q) \in Nat /\ Len(Append(q, s)) = Len(q) + 1
      /\ Append(q, s)[Len(q) + 1] = s /\ \A k \in 1..Len(q) : Append(q, s)[k] = q[k]
  OBVIOUS
<1>2. DOMAIN q = 1..Len(q) /\ DOMAIN Append(q, s) = 1..(Len(q) + 1)
  BY <1>1
<1>3. Append(q, s) = [k \in 1..(Len(q) + 1) |-> IF k = Len(q) + 1 THEN s ELSE q[k]]
  <2> DEFINE a == Append(q, s)
  <2>0. a \in Seq(S) /\ Len(a) = Len(q) + 1
    BY <1>1
  <2> HIDE DEF a
  <2>3. a = [k \in 1..(Len(q) + 1) |-> a[k]]
    BY <2>0
  <2>1. Append(q, s) = [k \in 1..(Len(q) + 1) |-> Append(q, s)[k]]
    BY <2>3 DEF a
  <2>2. \A k \in 1..(Len(q) + 1) : Append(q, s)[k] = IF k = Len(q) + 1 THEN s ELSE q[k]
    BY <1>1
  <2> QED
    BY <2>1, <2>2
<1>4. ToSet(Append(q, s)) = ToSet(q) \cup {s}
  BY <1>1, <1>2 DEF ToSet
<1> QED
  BY <1>1, <1>3, <1>4

\* A part of a file and the line after it.
LEMMA PartGrows ==
  ASSUME NEW S, NEW b \in Seq(S), NEW q \in Seq(S), NEW m \in Nat, m < Len(q)
  PROVE  Append(b \o SubSeq(q, 1, m), q[m + 1]) = b \o SubSeq(q, 1, m + 1)
<1>1. SubSeq(q, 1, m) \in Seq(S) /\ Len(SubSeq(q, 1, m)) = m /\ \A k \in 1..m : SubSeq(q, 1, m)[k] = q[k]
  OBVIOUS
<1>2. SubSeq(q, 1, m + 1) \in Seq(S) /\ Len(SubSeq(q, 1, m + 1)) = m + 1 /\ \A k \in 1..(m + 1) : SubSeq(q, 1, m + 1)[k] = q[k]
  OBVIOUS
<1>3. q[m + 1] \in S /\ Len(b) \in Nat
  OBVIOUS
<1> DEFINE u == SubSeq(q, 1, m)
<1> DEFINE v == SubSeq(q, 1, m + 1)
<1> HIDE DEF u, v
<1>4. Append(u, q[m + 1]) = v
  <2>1. u \in Seq(S) /\ v \in Seq(S) /\ Len(u) = m /\ Len(v) = m + 1 /\ (\A k \in 1..m : u[k] = q[k]) /\ \A k \in 1..(m + 1) : v[k] = q[k]
    BY <1>1, <1>2 DEF u, v
  <2>2. Append(u, q[m + 1]) = [k \in 1..(m + 1) |-> IF k = m + 1 THEN q[m + 1] ELSE u[k]]
    BY <1>3, <2>1, OneLineMore
  <2>3. v = [k \in 1..(m + 1) |-> v[k]]
    BY <2>1
  <2> QED
    BY <2>1, <2>2, <2>3
<1>5. u \in Seq(S) /\ v \in Seq(S)
  BY <1>1, <1>2 DEF u, v
<1>6. Append(b \o u, q[m + 1]) = b \o Append(u, q[m + 1])
  <2> DEFINE e == <<q[m + 1]>>
  <2>1. b \o u \in Seq(S) /\ e \in Seq(S)
    BY <1>3, <1>5
  <2>2. Append(b \o u, q[m + 1]) = (b \o u) \o e
    BY <1>3, <2>1, AppendIsConcat
  <2>3. Append(u, q[m + 1]) = u \o e
    BY <1>3, <1>5, AppendIsConcat
  <2> HIDE DEF e
  <2>4. (b \o u) \o e = b \o (u \o e)
    <3>1. b \in Seq(S) /\ u \in Seq(S) /\ e \in Seq(S)
      BY <1>5, <2>1
    <3> QED
      BY <3>1, ConcatAssociative, SMTT(60)
  <2> QED
    BY <2>2, <2>3, <2>4
<1> QED
  BY <1>4, <1>6 DEF u, v

\* A line is read and remembered.
LEMMA IsDupKept == UniqKept /\ IsDup => UniqKept'
<1> SUFFICES ASSUME UniqKept, IsDup PROVE UniqKept'
  OBVIOUS
<1> DEFINE F == LinesOfFile(fileno)
<1> DEFINE s == F[lineno + 1]
<1> DEFINE x == Extract(Field(range), s)
<1> DEFINE n == Len(buf)
<1>1. UNCHANGED uniqGiven /\ UNCHANGED <<fileno, looked, passed, emitted, uniqphase>> /\ lineno' = lineno + 1
  BY DEF IsDup
<1>2. "R" \notin modes /\ uniqphase = "read" /\ fileno <= Len(inputs)
  BY DEF IsDup
<1>3. inputs \in UniqInputs /\ fileno \in Nat \ {0} /\ lineno \in Nat /\ looked = 0 /\ buf \in Seq(Token)
  BY <1>2 DEF UniqKept, UniqTyped
<1>4. fileno \in 1..Len(inputs)
  <2>1. Len(inputs) \in Nat
    BY <1>3, InputsAre
  <2> QED
    BY <1>2, <1>3, <2>1
<1>5. F \in Seq(UniqText) /\ Len(F) \in Nat /\ F = inputs[fileno].lines /\ lineno < Len(F)
  <2>1. F \in Seq(UniqText) /\ Len(F) \in Nat
    BY <1>3, <1>4, InputsAre
  <2>2. F = inputs[fileno].lines /\ lineno < Len(inputs[fileno].lines)
    BY DEF LinesOfFile, IsDup
  <2> QED
    BY <2>1, <2>2
<1>6. buf' = Append(buf, s) /\ sel' = Append(sel, x) /\ seen' = Plus1(seen, x)
  BY <1>5 DEF IsDup
<1>7. s \in UniqText /\ s \in Token
  BY <1>3, <1>5 DEF Token
<1>8. modes' = modes /\ inputs' = inputs /\ range' = range /\ LinesOfFile(fileno)' = F /\ Len(inputs)' = Len(inputs)
  BY <1>1 DEF uniqGiven, LinesOfFile
<1>9. emitted = <<>> /\ passed = NoCount
  BY <1>2 DEF UniqKept, Remembered
<1>10. /\ Len(sel) = n /\ sel = [k \in 1..n |-> Extract(Field(range), buf[k])]
       /\ DOMAIN seen = {sel[k] : k \in 1..n} /\ \A y \in DOMAIN seen : seen[y] = OccursIn(n, y)
  BY <1>2 DEF UniqKept, Remembered
<1>11. n \in Nat
  BY <1>3
<1> HIDE DEF F, s, x, n
<1>12. /\ buf' \in Seq(Token) /\ Len(buf') = n + 1 /\ buf'[n + 1] = s /\ \A k \in 1..n : buf'[k] = buf[k]
  BY <1>3, <1>6, <1>7, OneLineMore DEF n
<1>13. /\ Len(sel') = n + 1 /\ sel' = [k \in 1..(n + 1) |-> IF k = n + 1 THEN x ELSE sel[k]]
  <2> DEFINE S == {Extract(Field(range), buf[k]) : k \in 1..n} \cup {x}
  <2>1. sel \in Seq(S)
    BY <1>10, <1>11
  <2>2. x \in S
    OBVIOUS
  <2> HIDE DEF S
  <2>3. Len(Append(sel, x)) = Len(sel) + 1 /\ Append(sel, x) = [k \in 1..(Len(sel) + 1) |-> IF k = Len(sel) + 1 THEN x ELSE sel[k]]
    BY <2>1, <2>2, OneLineMore
  <2> QED
    BY <1>6, <1>10, <2>3
<1>14. sel' = [k \in 1..(n + 1) |-> Extract(Field(range), buf'[k])]
  BY <1>10, <1>11, <1>12, <1>13 DEF x
<1>15. \A y : Cardinality(PlacesOf(sel', y, n + 1)) = OccursIn(n, y) + (IF x = y THEN 1 ELSE 0)
  <2> TAKE y
  <2>1. PlacesOf(sel', y, n) = PlacesOf(sel, y, n)
    BY <1>11, <1>13 DEF PlacesOf
  <2>2. Cardinality(PlacesOf(sel', y, n + 1)) = Cardinality(PlacesOf(sel', y, n)) + (IF sel'[n + 1] = y THEN 1 ELSE 0)
    BY <1>11, PlacesGrow
  <2>3. sel'[n + 1] = x
    BY <1>11, <1>13
  <2> QED
    BY <2>1, <2>2, <2>3 DEF OccursIn
<1>16. \A y : OccursIn(n, y) \in Nat /\ (y \notin DOMAIN seen => OccursIn(n, y) = 0)
  <2> TAKE y
  <2>1. OccursIn(n, y) \in Nat /\ ((OccursIn(n, y) = 0) <=> \A k \in 1..n : sel[k] # y)
    BY <1>11, OccursAre
  <2> QED
    BY <1>10, <2>1
<1>17. UniqTyped'
  <2>1. emitted' \in Seq(Output) /\ looked' = 0
    BY <1>1, <1>3, <1>9
  <2>2. lineno' \in Nat /\ lineno' <= Len(F) /\ ~(fileno > Len(inputs))
    BY <1>1, <1>3, <1>4, <1>5
  <2>3. fileno <= Len(inputs) + 1
    BY <1>4
  <2>4. 0 \in 0..Len(buf')
    BY <1>11, <1>12
  <2> QED
    BY <1>1, <1>2, <1>3, <1>8, <1>12, <2>1, <2>2, <2>3, <2>4 DEF UniqTyped
<1>18. Remembered'
  <2> DEFINE f == Plus1(seen, x)
  <2>0. seen' = f
    BY <1>6
  <2>9. DOMAIN f = DOMAIN seen \cup {x} /\ \A y : Count(f, y) = IF y = x THEN Count(seen, x) + 1 ELSE Count(seen, y)
    BY PlusOne
  <2> HIDE DEF f
  <2>1. DOMAIN seen' = DOMAIN seen \cup {x} /\ \A y : Count(seen', y) = IF y = x THEN Count(seen, x) + 1 ELSE Count(seen, y)
    BY <2>0, <2>9
  <2>2. DOMAIN seen' = {sel'[k] : k \in 1..(n + 1)}
    <3>1. sel'[n + 1] = x /\ \A k \in 1..n : sel'[k] = sel[k]
      BY <1>11, <1>13
    <3>2. {sel'[k] : k \in 1..(n + 1)} = {sel[k] : k \in 1..n} \cup {x}
      BY <1>11, <3>1
    <3> QED
      BY <1>10, <2>1, <3>2
  <2>3. ASSUME NEW y \in DOMAIN seen' PROVE seen'[y] = Cardinality(PlacesOf(sel', y, n + 1))
    <3>1. Count(seen, y) = OccursIn(n, y)
      BY <1>10, <1>16 DEF Count
    <3>2. seen'[y] = Count(seen', y)
      BY DEF Count
    <3>3. Cardinality(PlacesOf(sel', y, n + 1)) = OccursIn(n, y) + (IF x = y THEN 1 ELSE 0) /\ OccursIn(n, y) \in Nat
      BY <1>15, <1>16
    <3>4. CASE y = x
      BY <2>1, <3>1, <3>2, <3>3, <3>4
    <3>5. CASE y # x
      BY <2>1, <3>1, <3>2, <3>3, <3>5
    <3> QED
      BY <3>4, <3>5
  <2>4. Len(sel') = Len(buf')
    BY <1>12, <1>13
  <2>5. sel' = [k \in 1..Len(buf') |-> Extract(Field(range'), buf'[k])]
    BY <1>8, <1>12, <1>14
  <2>6. (DOMAIN seen = {sel[k] : k \in 1..Len(buf)})'
    BY <1>12, <2>2
  <2>7. \A y \in DOMAIN seen' : seen'[y] = OccursIn(Len(buf), y)'
    <3>1. \A y : OccursIn(Len(buf), y)' = Cardinality(PlacesOf(sel', y, n + 1))
      BY <1>12 DEF OccursIn
    <3> QED
      BY <2>3, <3>1
  <2>8. uniqphase' = "read" /\ emitted' = <<>> /\ passed' = NoCount
    BY <1>1, <1>2, <1>9
  <2> QED
    BY <2>4, <2>5, <2>6, <2>7, <2>8 DEF Remembered, NoCount
<1>19. ReadOut'
  <2>1. buf = LinesBefore[fileno - 1] \o SubSeq(F, 1, lineno)
    BY <1>2 DEF UniqKept, ReadOut, F
  <2>2. LinesBefore[fileno - 1] \in Seq(UniqText)
    <3>1. fileno - 1 \in 0..Len(inputs)
      BY <1>3, <1>4
    <3> QED
      BY <1>3, <3>1, LinesAre
  <2>3. Append(LinesBefore[fileno - 1] \o SubSeq(F, 1, lineno), F[lineno + 1]) = LinesBefore[fileno - 1] \o SubSeq(F, 1, lineno + 1)
    BY <1>3, <1>5, <2>2, PartGrows
  <2>4. buf' = LinesBefore[fileno - 1] \o SubSeq(F, 1, lineno + 1)
    BY <1>6, <2>1, <2>3 DEF s
  <2>5. LinesBefore' = LinesBefore
    BY <1>1, UniqGivenSame
  <2>6. ~(fileno > Len(inputs))
    BY <1>4
  <2> QED
    BY <1>1, <1>2, <1>8, <2>4, <2>5, <2>6 DEF ReadOut
<1>20. Written'
  <2>1. emitted' = <<>> /\ looked' = 0
    BY <1>1, <1>3, <1>9
  <2> QED
    BY <2>1 DEF Written
<1>21. PassedOver'
  <2>1. \A y : Count(passed', y) = 0
    BY <1>1, <1>9 DEF Count, NoCount
  <2>2. \A y : OccursIn(looked, y)' = 0
    <3>1. \A y : PlacesOf(sel, y, looked)' = {}
      BY <1>1, <1>3 DEF PlacesOf
    <3> QED
      BY <3>1, FS_EmptySet DEF OccursIn
  <2>3. \A k \in 1..(n + 1) : Cardinality(PlacesOf(sel', sel'[k], n + 1)) > 0
    <3> TAKE k \in 1..(n + 1)
    <3>1. CASE k = n + 1
      <4>1. sel'[k] = x
        BY <1>11, <1>13, <3>1
      <4>2. Cardinality(PlacesOf(sel', x, n + 1)) = OccursIn(n, x) + 1 /\ OccursIn(n, x) \in Nat
        BY <1>15, <1>16
      <4> QED
        BY <4>1, <4>2
    <3>2. CASE k # n + 1
      <4>1. k \in 1..n /\ sel'[k] = sel[k]
        BY <1>11, <1>13, <3>2
      <4>2. OccursIn(n, sel[k]) \in Nat /\ OccursIn(n, sel[k]) # 0
        BY <1>11, <4>1, OccursAre
      <4>3. Cardinality(PlacesOf(sel', sel[k], n + 1)) = OccursIn(n, sel[k]) + (IF x = sel[k] THEN 1 ELSE 0)
        BY <1>15
      <4> QED
        BY <4>1, <4>2, <4>3
    <3> QED
      BY <3>1, <3>2
  <2>4. \A k \in 1..Len(buf') : OccursIn(Len(buf), sel[k])' > 0
    <3>1. \A k : OccursIn(Len(buf), sel[k])' = Cardinality(PlacesOf(sel', sel'[k], n + 1))
      BY <1>12 DEF OccursIn
    <3> QED
      BY <1>12, <2>3, <3>1
  <2> QED
    BY <2>1, <2>2, <2>4 DEF PassedOver
<1>22. Tokens'
  BY <1>2, <1>8 DEF Tokens
<1> QED
  BY <1>17, <1>18, <1>19, <1>20, <1>21, <1>22 DEF UniqKept

\* A read of any length, written if it is new.
LEMMA ReadTokenKept == UniqKept /\ ReadToken => UniqKept'
<1> SUFFICES ASSUME UniqKept, ReadToken PROVE UniqKept'
  OBVIOUS
<1> DEFINE F == LinesOfFile(fileno)
<1>1. UNCHANGED uniqGiven /\ UNCHANGED <<fileno, sel, looked, passed, uniqphase>>
  BY DEF ReadToken
<1>2. "R" \in modes /\ uniqphase = "read" /\ fileno <= Len(inputs) /\ inputs[fileno].readable
  BY DEF ReadToken
<1>3. inputs \in UniqInputs /\ fileno \in Nat \ {0} /\ lineno \in Nat /\ looked = 0 /\ buf \in Seq(Token) /\ emitted \in Seq(Output)
  BY <1>2 DEF UniqKept, UniqTyped
<1>4. fileno \in 1..Len(inputs)
  <2>1. Len(inputs) \in Nat
    BY <1>3, InputsAre
  <2> QED
    BY <1>2, <1>3, <2>1
<1>5. F \in Seq(UniqText) /\ Len(F) \in Nat /\ F = inputs[fileno].lines
  <2>1. F \in Seq(UniqText) /\ Len(F) \in Nat
    BY <1>3, <1>4, InputsAre
  <2>2. F = inputs[fileno].lines
    BY <1>2 DEF LinesOfFile
  <2> QED
    BY <2>1, <2>2
<1>6. PICK k \in (lineno + 1)..Len(F) :
        LET x == SubSeq(F, lineno + 1, k)
        IN  /\ lineno' = k /\ buf' = Append(buf, x) /\ seen' = Plus1(seen, x)
            /\ emitted' = IF x \in DOMAIN seen THEN emitted ELSE Append(emitted, [line |-> Len(buf'), ct |-> 1])
  BY <1>5 DEF ReadToken
<1> DEFINE x == SubSeq(F, lineno + 1, k)
<1>7. lineno' = k /\ buf' = Append(buf, x) /\ seen' = Plus1(seen, x)
  BY <1>6
<1>8. emitted' = IF x \in DOMAIN seen THEN emitted ELSE Append(emitted, [line |-> Len(buf'), ct |-> 1])
  BY <1>6
<1>9. x \in Token
  <2>1. \A i \in (lineno + 1)..k : F[i] \in UniqText
    BY <1>3, <1>5
  <2>2. lineno + 1 \in Int /\ k \in Int
    BY <1>3, <1>5
  <2>3. x \in Seq(UniqText)
    BY <1>3, <1>5
  <2> QED
    BY <2>3 DEF Token
<1>10. modes' = modes /\ inputs' = inputs /\ LinesOfFile(fileno)' = F /\ Len(inputs)' = Len(inputs)
  BY <1>1 DEF uniqGiven, LinesOfFile
<1>11. k \in Nat /\ k <= Len(F)
  BY <1>3, <1>5
<1> DEFINE n == Len(buf)
<1> HIDE DEF F, x
<1>12. /\ buf' \in Seq(Token) /\ n \in Nat /\ Len(buf') = n + 1 /\ buf'[n + 1] = x
       /\ (\A i \in 1..n : buf'[i] = buf[i]) /\ ToSet(buf') = ToSet(buf) \cup {x}
  BY <1>3, <1>7, <1>9, OneLineMore
<1>13. /\ DOMAIN seen = ToSet(buf)
       /\ \A i \in DOMAIN emitted : emitted[i].line \in 1..n
       /\ \A i, j \in DOMAIN emitted : buf[emitted[i].line] = buf[emitted[j].line] => i = j
       /\ {buf[emitted[i].line] : i \in DOMAIN emitted} = ToSet(buf)
  BY <1>2 DEF UniqKept, Tokens
<1> HIDE DEF n
<1>14. DOMAIN seen' = ToSet(buf')
  <2>1. DOMAIN Plus1(seen, x) = DOMAIN seen \cup {x}
    BY DEF Plus1
  <2> QED
    BY <1>7, <1>12, <1>13, <2>1
<1>15. /\ emitted' \in Seq(Output)
       /\ \A i \in DOMAIN emitted' : emitted'[i].line \in 1..(n + 1)
       /\ \A i, j \in DOMAIN emitted' : buf'[emitted'[i].line] = buf'[emitted'[j].line] => i = j
       /\ {buf'[emitted'[i].line] : i \in DOMAIN emitted'} = ToSet(buf')
  <2>0. \A i \in DOMAIN emitted : buf'[emitted[i].line] = buf[emitted[i].line]
    BY <1>12, <1>13
  <2>1. CASE x \in DOMAIN seen
    <3>1. emitted' = emitted
      BY <1>8, <2>1
    <3>2. ToSet(buf') = ToSet(buf)
      BY <1>12, <1>13, <2>1
    <3>3. {buf'[emitted[i].line] : i \in DOMAIN emitted} = {buf[emitted[i].line] : i \in DOMAIN emitted}
      BY <2>0
    <3>4. \A i \in DOMAIN emitted : emitted[i].line \in 1..(n + 1)
      BY <1>12, <1>13
    <3>5. \A i, j \in DOMAIN emitted : buf'[emitted[i].line] = buf'[emitted[j].line] => i = j
      BY <1>13, <2>0
    <3>6. {buf'[emitted[i].line] : i \in DOMAIN emitted} = ToSet(buf')
      BY <1>13, <3>2, <3>3
    <3>7. {buf'[emitted'[i].line] : i \in DOMAIN emitted'} = ToSet(buf')
      BY <3>1, <3>6
    <3>8. \A i, j \in DOMAIN emitted' : buf'[emitted'[i].line] = buf'[emitted'[j].line] => i = j
      BY <3>1, <3>5
    <3>9. emitted' \in Seq(Output) /\ \A i \in DOMAIN emitted' : emitted'[i].line \in 1..(n + 1)
      BY <1>3, <3>1, <3>4
    <3> QED
      BY <3>7, <3>8, <3>9
  <2>2. CASE x \notin DOMAIN seen
    <3> DEFINE e == [line |-> n + 1, ct |-> 1]
    <3> DEFINE m == Len(emitted)
    <3>1. emitted' = Append(emitted, e)
      BY <1>8, <1>12, <2>2
    <3>2. e \in Output /\ e.line = n + 1
      BY <1>12 DEF Output
    <3> HIDE DEF e
    <3>3. /\ emitted' \in Seq(Output) /\ m \in Nat /\ Len(emitted') = m + 1 /\ emitted'[m + 1] = e
          /\ \A i \in 1..m : emitted'[i] = emitted[i]
      BY <1>3, <3>1, <3>2, OneLineMore
    <3>4. DOMAIN emitted = 1..m /\ DOMAIN emitted' = 1..(m + 1)
      BY <1>3, <3>3
    <3> HIDE DEF m
    <3> DEFINE G(i) == buf'[emitted'[i].line]
    <3>5. G(m + 1) = x /\ \A i \in 1..m : G(i) = buf[emitted[i].line]
      BY <1>12, <2>0, <3>2, <3>3, <3>4
    <3>6. \A i \in 1..m : G(i) \in ToSet(buf) /\ G(i) # x
      BY <1>13, <2>2, <3>4, <3>5
    <3>7. \A i \in 1..(m + 1) : i \in 1..m \/ i = m + 1
      BY <3>3
    <3>8. \A i, j \in 1..(m + 1) : G(i) = G(j) => i = j
      <4>1. \A i, j \in 1..m : G(i) = G(j) => i = j
        BY <1>13, <3>4, <3>5
      <4> HIDE DEF G
      <4> QED
        BY <4>1, <3>5, <3>6, <3>7
    <3>9. {G(i) : i \in 1..(m + 1)} = ToSet(buf')
      <4>1. {G(i) : i \in 1..m} = ToSet(buf)
        <5>1. {buf[emitted[i].line] : i \in 1..m} = ToSet(buf)
          BY <1>13, <3>4
        <5>2. {G(i) : i \in 1..m} = {buf[emitted[i].line] : i \in 1..m}
          BY <3>5
        <5> QED
          BY <5>1, <5>2
      <4> HIDE DEF G
      <4>2. m + 1 \in 1..(m + 1) /\ \A i \in 1..m : i \in 1..(m + 1)
        BY <3>3
      <4> QED
        BY <1>12, <3>5, <3>7, <4>1, <4>2
    <3>10. \A i \in 1..(m + 1) : emitted'[i].line \in 1..(n + 1)
      BY <1>12, <1>13, <3>2, <3>3, <3>4, SMTT(60)
    <3>11. \A i \in DOMAIN emitted' : emitted'[i].line \in 1..(n + 1)
      BY <3>4, <3>10
    <3>12. \A i, j \in DOMAIN emitted' : buf'[emitted'[i].line] = buf'[emitted'[j].line] => i = j
      BY <3>4, <3>8
    <3>13. {buf'[emitted'[i].line] : i \in DOMAIN emitted'} = ToSet(buf')
      BY <3>4, <3>9
    <3>14. emitted' \in Seq(Output)
      BY <3>3
    <3> HIDE DEF G
    <3> QED
      BY <3>11, <3>12, <3>13, <3>14
  <2> QED
    BY <2>1, <2>2
<1>16. UniqTyped'
  <2>1. ~(fileno > Len(inputs)) /\ fileno <= Len(inputs) + 1 /\ 0 \in 0..Len(buf')
    BY <1>4, <1>12
  <2> QED
    BY <1>1, <1>2, <1>3, <1>7, <1>10, <1>11, <1>12, <1>15, <2>1 DEF UniqTyped
<1>17. Tokens'
  BY <1>12, <1>14, <1>15 DEF Tokens
<1>18. Remembered' /\ ReadOut' /\ Written' /\ PassedOver'
  BY <1>2, <1>10 DEF Remembered, ReadOut, Written, PassedOver
<1> QED
  BY <1>16, <1>17, <1>18 DEF UniqKept

\* The next line is looked at: it is written if and only if it is to be shown, and what is
\* passed over is counted.
LEMMA LookedKept ==
  ASSUME UniqKept, UNCHANGED uniqGiven, UNCHANGED <<fileno, lineno, buf, sel, seen, uniqphase>>,
         uniqphase = "write", looked < Len(buf), looked' = looked + 1,
         NEW show \in BOOLEAN, show <=> ShownAs("code", looked + 1),
         emitted' = IF show THEN Append(emitted, [line |-> looked + 1, ct |-> seen[sel[looked + 1]]]) ELSE emitted,
         PassedOver'
  PROVE  UniqKept'
<1> DEFINE n == Len(buf)
<1> DEFINE t == looked + 1
<1>0. "R" \notin modes /\ UniqTyped /\ Remembered /\ modes' = modes
  BY DEF UniqKept, UniqTyped, uniqGiven
<1>1. /\ n \in Nat /\ looked \in Nat /\ t \in 1..n /\ seen[sel[t]] = OccursIn(n, sel[t]) /\ OccursIn(n, sel[t]) \in Nat
      /\ emitted \in Seq(Output)
  <2>1. /\ n \in Nat /\ looked \in Nat
        /\ \A k \in 1..n : seen[sel[k]] = OccursIn(n, sel[k]) /\ OccursIn(n, sel[k]) \in Nat \ {0}
    BY <1>0, SelectionsAre
  <2>2. t \in 1..n
    BY <2>1
  <2>3. emitted \in Seq(Output)
    BY <1>0 DEF UniqTyped
  <2> QED
    BY <2>1, <2>2, <2>3
<1>2. /\ \A m, x : OccursIn(m, x)' = OccursIn(m, x)
      /\ \A k : ShownAs("code", k)' <=> ShownAs("code", k)
  BY LinesSame
<1>3. /\ \A k, l \in DOMAIN emitted : k < l => emitted[k].line < emitted[l].line
      /\ {emitted[k].line : k \in DOMAIN emitted} = {k \in 1..looked : ShownAs("code", k)}
      /\ \A k \in DOMAIN emitted : emitted[k].line \in 1..n /\ emitted[k].ct = OccursIn(n, sel[emitted[k].line])
  BY <1>0 DEF UniqKept, Written
<1> DEFINE Q(k) == ShownAs("code", k)
<1> DEFINE O(k) == OccursIn(n, sel[k])
<1> HIDE DEF n
<1>4. /\ emitted' \in Seq(Output)
      /\ \A k, l \in DOMAIN emitted' : k < l => emitted'[k].line < emitted'[l].line
      /\ {emitted'[k].line : k \in DOMAIN emitted'} = {k \in 1..t : Q(k)}
      /\ \A k \in DOMAIN emitted' : emitted'[k].line \in 1..n /\ emitted'[k].ct = O(emitted'[k].line)
  <2>1. show <=> Q(t)
    OBVIOUS
  <2>2. \A k \in 1..t : k \in 1..looked \/ k = t
    BY <1>1
  <2>3. t \in 1..t /\ (\A k \in 1..looked : k \in 1..t /\ k < t)
    BY <1>1
  <2>4. {emitted[k].line : k \in DOMAIN emitted} = {k \in 1..looked : Q(k)}
    BY <1>3
  <2>5. \A k \in DOMAIN emitted : emitted[k].line \in 1..n /\ emitted[k].ct = O(emitted[k].line)
    BY <1>3
  <2>6. CASE ~show
    <3>1. emitted' = emitted
      BY <2>6
    <3>2. {k \in 1..looked : Q(k)} = {k \in 1..t : Q(k)}
      <4> HIDE DEF Q, t
      <4> QED
        BY <2>1, <2>2, <2>3, <2>6
    <3> HIDE DEF Q, O
    <3> QED
      BY <1>1, <1>3, <2>4, <2>5, <3>1, <3>2
  <2>7. CASE show
    <3> DEFINE e == [line |-> t, ct |-> seen[sel[t]]]
    <3> DEFINE m == Len(emitted)
    <3>1. emitted' = Append(emitted, e)
      BY <2>7
    <3>2. e \in Output /\ e.line = t /\ e.ct = O(t)
      BY <1>1 DEF Output
    <3> HIDE DEF e
    <3>3. /\ emitted' \in Seq(Output) /\ m \in Nat /\ Len(emitted') = m + 1 /\ emitted'[m + 1] = e
          /\ \A i \in 1..m : emitted'[i] = emitted[i]
      BY <1>1, <3>1, <3>2, OneLineMore
    <3>4. DOMAIN emitted = 1..m /\ DOMAIN emitted' = 1..(m + 1)
      BY <1>1, <3>3
    <3> HIDE DEF m, Q, O, t
    <3>5. \A i \in 1..(m + 1) : i \in 1..m \/ i = m + 1
      BY <3>3
    <3>6. \A i \in 1..m : emitted[i].line \in 1..looked
      BY <2>4, <3>4
    <3>7. \A k, l \in 1..(m + 1) : k < l => emitted'[k].line < emitted'[l].line
      <4> TAKE k, l \in 1..(m + 1)
      <4> HAVE k < l
      <4>1. k \in 1..m
        BY <3>3
      <4>2. CASE l \in 1..m
        BY <1>3, <3>3, <3>4, <4>1, <4>2
      <4>3. CASE l = m + 1
        <5>1. emitted'[l].line = t
          BY <3>2, <3>3, <4>3
        <5>2. emitted'[k].line \in 1..looked
          BY <3>3, <3>6, <4>1
        <5> QED
          BY <2>3, <5>1, <5>2
      <4> QED
        BY <3>5, <4>2, <4>3
    <3>8. {emitted'[k].line : k \in 1..(m + 1)} = {k \in 1..t : Q(k)}
      <4>1. {emitted[k].line : k \in 1..m} = {k \in 1..looked : Q(k)}
        BY <2>4, <3>4
      <4>2. {emitted'[k].line : k \in 1..(m + 1)} = {emitted[k].line : k \in 1..m} \cup {t}
        <5>1. m + 1 \in 1..(m + 1) /\ \A i \in 1..m : i \in 1..(m + 1)
          BY <3>3
        <5>2. emitted'[m + 1].line = t /\ \A i \in 1..m : emitted'[i].line = emitted[i].line
          BY <3>2, <3>3
        <5> QED
          BY <3>5, <5>1, <5>2
      <4>3. {k \in 1..t : Q(k)} = {k \in 1..looked : Q(k)} \cup {t}
        BY <2>1, <2>2, <2>3, <2>7
      <4> QED
        BY <4>1, <4>2, <4>3
    <3>9. \A k \in 1..(m + 1) : emitted'[k].line \in 1..n /\ emitted'[k].ct = O(emitted'[k].line)
      BY <1>1, <2>5, <3>2, <3>3, <3>4, <3>5
    <3> QED
      BY <3>3, <3>4, <3>7, <3>8, <3>9
  <2> QED
    BY <2>6, <2>7
<1>5. Written'
  <2>1. {k \in 1..looked : ShownAs("code", k)}' = {k \in 1..t : Q(k)}
    BY <1>2
  <2>2. \A k : OccursIn(Len(buf), sel[k])' = O(k)
    BY <1>2 DEF n
  <2>3. (\A k \in DOMAIN emitted : emitted[k].line \in 1..Len(buf) /\ emitted[k].ct = OccursIn(Len(buf), sel[emitted[k].line]))'
    BY <1>2, <1>4 DEF n
  <2> QED
    BY <1>4, <2>1, <2>3 DEF Written
<1>6. UniqTyped'
  <2>1. t \in 0..Len(buf)
    BY <1>1 DEF n
  <2>2. uniqphase' = "write"
    OBVIOUS
  <2> QED
    BY <1>0, <1>4, <2>1, <2>2, TypedStill
<1>7. Remembered'
  <2>1. range' = range
    BY DEF uniqGiven
  <2>2. Len(sel) = Len(buf) /\ sel = [k \in 1..Len(buf) |-> Extract(Field(range), buf[k])]
    BY <1>0 DEF Remembered
  <2>3. (Len(sel) = Len(buf) /\ sel = [k \in 1..Len(buf) |-> Extract(Field(range), buf[k])])'
    BY <2>1, <2>2
  <2>4. (DOMAIN seen = {sel[k] : k \in 1..Len(buf)} /\ \A x \in DOMAIN seen : seen[x] = OccursIn(Len(buf), x))'
    BY <1>0, <1>2 DEF Remembered
  <2> QED
    BY <2>3, <2>4 DEF Remembered
<1>8. ReadOut'
  BY ReadStill
<1>9. Tokens'
  BY <1>0 DEF Tokens
<1> QED
  BY <1>5, <1>6, <1>7, <1>8, <1>9 DEF UniqKept

\* What is passed over once more.
LEMMA PassedOne ==
  ASSUME NEW over \in BOOLEAN, NEW x, passed' = IF over THEN Plus1(passed, x) ELSE passed
  PROVE  \A y : Count(passed', y) = IF y = x /\ over THEN Count(passed, x) + 1 ELSE Count(passed, y)
<1> DEFINE f == Plus1(passed, x)
<1>1. \A y : Count(f, y) = IF y = x THEN Count(passed, x) + 1 ELSE Count(passed, y)
  BY PlusOne
<1>2. passed' = IF over THEN f ELSE passed
  OBVIOUS
<1> HIDE DEF f
<1>3. CASE over
  BY <1>1, <1>2, <1>3
<1>4. CASE ~over
  BY <1>2, <1>4
<1> QED
  BY <1>3, <1>4

\* How often the selection of the line in hand occurs, in all and before.
LEMMA LookedAt ==
  ASSUME UniqKept, "R" \notin modes, looked < Len(buf)
  PROVE  LET x == sel[looked + 1]
         IN  /\ looked \in Nat /\ looked + 1 \in 1..Len(buf) /\ seen[x] = OccursIn(Len(buf), x)
             /\ OccursIn(Len(buf), x) \in Nat \ {0} /\ OccursIn(looked, x) \in Nat
             /\ OccursIn(looked, x) + 1 <= OccursIn(Len(buf), x)
             /\ \A y : OccursIn(looked + 1, y) = OccursIn(looked, y) + (IF y = x THEN 1 ELSE 0)
<1> DEFINE x == sel[looked + 1]
<1> DEFINE n == Len(buf)
<1>1. /\ n \in Nat /\ looked \in Nat
      /\ \A k \in 1..n : seen[sel[k]] = OccursIn(n, sel[k]) /\ OccursIn(n, sel[k]) \in Nat \ {0}
  BY SelectionsAre DEF UniqKept
<1>2. looked + 1 \in 1..n /\ looked + 1 \in Nat /\ looked + 1 <= n
  BY <1>1
<1>3. \A y : OccursIn(looked + 1, y) = OccursIn(looked, y) + (IF x = y THEN 1 ELSE 0) /\ OccursIn(looked, y) \in Nat
  BY <1>1, OccursAre
<1>4. OccursIn(looked + 1, x) <= OccursIn(n, x)
  BY <1>1, <1>2, OccursMore
<1> HIDE DEF n
<1>5. seen[x] = OccursIn(n, x) /\ OccursIn(n, x) \in Nat \ {0}
  BY <1>1, <1>2
<1> HIDE DEF x
<1>6. \A y : OccursIn(looked + 1, y) = OccursIn(looked, y) + (IF y = x THEN 1 ELSE 0)
  BY <1>3
<1>7. OccursIn(looked, x) + 1 <= OccursIn(n, x) /\ OccursIn(looked, x) \in Nat
  BY <1>3, <1>4
<1> QED
  BY <1>1, <1>2, <1>5, <1>6, <1>7 DEF n, x

\* Neither -d nor -l.
LEMMA PrintFirstKept == UniqKept /\ PrintFirst => UniqKept'
<1> SUFFICES ASSUME UniqKept, PrintFirst PROVE UniqKept'
  OBVIOUS
<1> DEFINE n == Len(buf)
<1> DEFINE x == sel[looked + 1]
<1> DEFINE all == OccursIn(n, x)
<1> DEFINE now == OccursIn(looked, x)
<1> DEFINE new == seen[x] = 1 \/ Count(passed, x) = 0
<1>1. UNCHANGED uniqGiven /\ UNCHANGED <<fileno, lineno, buf, sel, seen, uniqphase>>
  BY DEF PrintFirst
<1>2. uniqphase = "write" /\ modes \cap {"d", "l"} = {} /\ looked < n /\ looked' = looked + 1
  BY DEF PrintFirst
<1>3. /\ emitted' = IF new THEN Append(emitted, [line |-> looked + 1, ct |-> seen[x]]) ELSE emitted
      /\ passed' = IF seen[x] > 1 /\ new THEN Plus1(passed, x) ELSE passed
  BY <1>2 DEF PrintFirst
<1>4. "R" \notin modes /\ UniqTyped /\ Remembered
  BY <1>2 DEF UniqKept, UniqTyped
<1>5. /\ looked \in Nat /\ looked + 1 \in 1..n /\ seen[x] = all
      /\ all \in Nat \ {0} /\ now \in Nat /\ now + 1 <= all
      /\ \A y : OccursIn(looked + 1, y) = OccursIn(looked, y) + (IF y = x THEN 1 ELSE 0)
  BY <1>2, <1>4, LookedAt
<1>6. \A k \in 1..n : Count(passed, sel[k]) = IF OccursIn(n, sel[k]) > 1 /\ OccursIn(looked, sel[k]) > 0 THEN 1 ELSE 0
  BY <1>2, <1>4 DEF UniqKept, PassedOver
<1>7. Count(passed, x) = IF all > 1 /\ now > 0 THEN 1 ELSE 0
  BY <1>5, <1>6
<1>8. ShownAs("code", looked + 1) <=> now = 0
  <2>1. (looked + 1) - 1 = looked
    BY <1>5
  <2>2. ShownAs("code", looked + 1) <=> OccursIn((looked + 1) - 1, x) = 0
    BY <1>2, <1>4, <1>5, ShownIs
  <2> QED
    BY <2>1, <2>2
<1>9. \A m, y : OccursIn(m, y)' = OccursIn(m, y)
  BY <1>1, LinesSame
<1>10. modes' = modes
  BY <1>1 DEF uniqGiven
<1>14. "l" \notin modes
  BY <1>2
<1> HIDE DEF x, all, now, n
<1>11. new <=> now = 0
  BY <1>5, <1>7
<1> DEFINE over == seen[x] > 1 /\ new
<1>12. \A y : Count(passed', y) = IF y = x /\ over THEN Count(passed, x) + 1 ELSE Count(passed, y)
  <2> DEFINE b == over
  <2>1. b \in BOOLEAN
    OBVIOUS
  <2>2. passed' = IF b THEN Plus1(passed, x) ELSE passed
    BY <1>3
  <2> HIDE DEF b
  <2>3. \A y : Count(passed', y) = IF y = x /\ b THEN Count(passed, x) + 1 ELSE Count(passed, y)
    BY <2>1, <2>2, PassedOne
  <2> QED
    BY <2>3 DEF b
<1>13. \A k \in 1..n : Count(passed', sel[k]) = IF OccursIn(n, sel[k]) > 1 /\ OccursIn(looked + 1, sel[k]) > 0 THEN 1 ELSE 0
  <2> TAKE k \in 1..n
  <2>1. CASE sel[k] = x
    <3>1. OccursIn(looked + 1, x) = now + 1 /\ OccursIn(n, x) = all
      BY <1>5 DEF now, all
    <3>2. Count(passed', x) = IF over THEN Count(passed, x) + 1 ELSE Count(passed, x)
      BY <1>12
    <3>3. over <=> all > 1 /\ now = 0
      BY <1>5, <1>11
    <3> HIDE DEF over, new
    <3>4. Count(passed', x) = IF all > 1 /\ now + 1 > 0 THEN 1 ELSE 0
      BY <1>5, <1>7, <3>2, <3>3
    <3> QED
      BY <2>1, <3>1, <3>4
  <2>2. CASE sel[k] # x
    <3> HIDE DEF over, new
    <3>1. Count(passed', sel[k]) = Count(passed, sel[k])
      BY <1>12, <2>2
    <3>2. OccursIn(looked + 1, sel[k]) = OccursIn(looked, sel[k]) + 0
      BY <1>5, <2>2
    <3>3. OccursIn(looked, sel[k]) \in Nat
      BY <1>5, OccursAre
    <3> QED
      BY <1>6, <3>1, <3>2, <3>3
  <2> QED
    BY <2>1, <2>2
<1>15. PassedOver'
  <2>1. \A k \in 1..Len(buf') : (Count(passed, sel[k]) = IF OccursIn(Len(buf), sel[k]) > 1 /\ OccursIn(looked, sel[k]) > 0 THEN 1 ELSE 0)'
    BY <1>1, <1>2, <1>9, <1>13 DEF n
  <2> QED
    BY <1>10, <1>14, <2>1 DEF PassedOver
<1>16. new \in BOOLEAN /\ (new <=> ShownAs("code", looked + 1))
  BY <1>8, <1>11
<1> HIDE DEF new
<1> QED
  BY <1>1, <1>2, <1>3, <1>15, <1>16, LookedKept DEF n, x

\* -d and -l.
LEMMA PrintDuplicateKept == UniqKept /\ PrintDuplicate => UniqKept'
<1> SUFFICES ASSUME UniqKept, PrintDuplicate PROVE UniqKept'
  OBVIOUS
<1> DEFINE n == Len(buf)
<1> DEFINE x == sel[looked + 1]
<1> DEFINE all == OccursIn(n, x)
<1> DEFINE now == OccursIn(looked, x)
<1> DEFINE over == "l" \in modes /\ Count(passed, x) < seen[x] - 1
<1>1. UNCHANGED uniqGiven /\ UNCHANGED <<fileno, lineno, buf, sel, seen, uniqphase>>
  BY DEF PrintDuplicate
<1>2. uniqphase = "write" /\ modes \cap {"d", "l"} # {} /\ looked < n /\ looked' = looked + 1
  BY DEF PrintDuplicate
<1>3. /\ emitted' = IF seen[x] = 1 \/ over THEN emitted ELSE Append(emitted, [line |-> looked + 1, ct |-> seen[x]])
      /\ passed' = IF seen[x] > 1 /\ over THEN Plus1(passed, x) ELSE passed
  BY <1>2 DEF PrintDuplicate
<1>4. "R" \notin modes /\ UniqTyped /\ Remembered
  BY <1>2 DEF UniqKept, UniqTyped
<1>5. /\ looked \in Nat /\ looked + 1 \in 1..n /\ seen[x] = all
      /\ all \in Nat \ {0} /\ now \in Nat /\ now + 1 <= all
      /\ \A y : OccursIn(looked + 1, y) = OccursIn(looked, y) + (IF y = x THEN 1 ELSE 0)
  BY <1>2, <1>4, LookedAt
<1>6. "l" \in modes => \A k \in 1..n :
        Count(passed, sel[k]) = IF OccursIn(looked, sel[k]) < OccursIn(n, sel[k]) THEN OccursIn(looked, sel[k]) ELSE OccursIn(n, sel[k]) - 1
  BY <1>4 DEF UniqKept, PassedOver
<1>7. "l" \in modes => Count(passed, x) = now
  BY <1>5, <1>6
<1>8. /\ "l" \in modes => (ShownAs("code", looked + 1) <=> all > 1 /\ now + 1 = all)
      /\ "l" \notin modes => (ShownAs("code", looked + 1) <=> all > 1)
  <2>1. OccursIn(looked + 1, x) = now + 1
    BY <1>5
  <2>2. /\ "l" \in modes => (ShownAs("code", looked + 1) <=> all > 1 /\ OccursIn(looked + 1, x) = all)
        /\ "l" \notin modes => (ShownAs("code", looked + 1) <=> all > 1)
    BY <1>2, <1>4, <1>5, ShownIs
  <2> QED
    BY <2>1, <2>2
<1>9. \A m, y : OccursIn(m, y)' = OccursIn(m, y)
  BY <1>1, LinesSame
<1>10. modes' = modes
  BY <1>1 DEF uniqGiven
<1> HIDE DEF x, all, now, n
<1> DEFINE show == ~(seen[x] = 1 \/ over)
<1>11. show \in BOOLEAN /\ (show <=> ShownAs("code", looked + 1))
  BY <1>5, <1>7, <1>8
<1> DEFINE b == seen[x] > 1 /\ over
<1>12. \A y : Count(passed', y) = IF y = x /\ b THEN Count(passed, x) + 1 ELSE Count(passed, y)
  <2>1. b \in BOOLEAN
    OBVIOUS
  <2>2. passed' = IF b THEN Plus1(passed, x) ELSE passed
    BY <1>3
  <2> HIDE DEF b
  <2> QED
    BY <2>1, <2>2, PassedOne
<1>13. "l" \in modes => \A k \in 1..n :
         Count(passed', sel[k]) = IF OccursIn(looked + 1, sel[k]) < OccursIn(n, sel[k]) THEN OccursIn(looked + 1, sel[k]) ELSE OccursIn(n, sel[k]) - 1
  <2> HAVE "l" \in modes
  <2> TAKE k \in 1..n
  <2>1. CASE sel[k] = x
    <3>1. OccursIn(looked + 1, x) = now + 1 /\ OccursIn(n, x) = all
      BY <1>5 DEF now, all
    <3>2. Count(passed', x) = IF b THEN Count(passed, x) + 1 ELSE Count(passed, x)
      BY <1>12
    <3>3. b <=> now + 1 < all
      BY <1>5, <1>7
    <3> HIDE DEF b, over, show
    <3>4. Count(passed', x) = IF now + 1 < all THEN now + 1 ELSE all - 1
      BY <1>5, <1>7, <3>2, <3>3
    <3> QED
      BY <2>1, <3>1, <3>4
  <2>2. CASE sel[k] # x
    <3> HIDE DEF b, over, show
    <3>1. Count(passed', sel[k]) = Count(passed, sel[k])
      BY <1>12, <2>2
    <3>2. OccursIn(looked + 1, sel[k]) = OccursIn(looked, sel[k]) + 0
      BY <1>5, <2>2
    <3>3. OccursIn(looked, sel[k]) \in Nat
      BY <1>5, OccursAre
    <3> QED
      BY <1>6, <3>1, <3>2, <3>3
  <2> QED
    BY <2>1, <2>2
<1>14. PassedOver'
  <2>1. "l" \in modes => \A k \in 1..Len(buf') :
          (Count(passed, sel[k]) = IF OccursIn(looked, sel[k]) < OccursIn(Len(buf), sel[k]) THEN OccursIn(looked, sel[k]) ELSE OccursIn(Len(buf), sel[k]) - 1)'
    BY <1>1, <1>2, <1>9, <1>13 DEF n
  <2> QED
    BY <1>2, <1>10, <2>1 DEF PassedOver
<1>15. emitted' = IF show THEN Append(emitted, [line |-> looked + 1, ct |-> seen[x]]) ELSE emitted
  BY <1>3
<1> HIDE DEF show
<1> QED
  BY <1>1, <1>2, <1>11, <1>14, <1>15, LookedKept DEF n, x

\* When uniq is over, what is written is what has to be.
LEMMA KeptUniq == UniqKept => UniqRight
<1> SUFFICES ASSUME UniqKept PROVE UniqRight
  OBVIOUS
<1>1. ASSUME uniqphase = "exit", "R" \notin modes
      PROVE  /\ buf = AllLines
             /\ \A k, l \in DOMAIN emitted : k < l => emitted[k].line < emitted[l].line
             /\ {emitted[k].line : k \in DOMAIN emitted} = {k \in DOMAIN buf : ShownAs("code", k)}
             /\ \A k \in DOMAIN emitted : emitted[k].ct = Cardinality({l \in DOMAIN buf : Same("code", emitted[k].line, l)})
  <2>1. /\ Len(buf) \in Nat /\ Len(sel) = Len(buf) /\ DOMAIN buf = 1..Len(buf)
        /\ \A k, l \in 1..Len(buf) : Same("code", k, l) <=> sel[k] = sel[l]
    BY <1>1, SelectionsAre DEF UniqKept
  <2>2. looked = Len(buf)
    BY <1>1 DEF UniqKept, Remembered
  <2>3. buf = AllLines
    BY <1>1 DEF UniqKept, ReadOut
  <2>4. /\ \A k, l \in DOMAIN emitted : k < l => emitted[k].line < emitted[l].line
        /\ {emitted[k].line : k \in DOMAIN emitted} = {k \in 1..looked : ShownAs("code", k)}
        /\ \A k \in DOMAIN emitted : emitted[k].line \in 1..Len(buf) /\ emitted[k].ct = OccursIn(Len(buf), sel[emitted[k].line])
    BY <1>1 DEF UniqKept, Written
  <2>5. ASSUME NEW k \in DOMAIN emitted
        PROVE  emitted[k].ct = Cardinality({l \in DOMAIN buf : Same("code", emitted[k].line, l)})
    <3> DEFINE i == emitted[k].line
    <3>1. i \in 1..Len(buf)
      BY <2>4
    <3> HIDE DEF i
    <3>2. {l \in DOMAIN buf : Same("code", i, l)} = PlacesOf(sel, sel[i], Len(buf))
      BY <2>1, <3>1 DEF PlacesOf
    <3> QED
      BY <2>4, <3>2 DEF i, OccursIn
  <2> QED
    BY <2>1, <2>2, <2>3, <2>4, <2>5
<1>2. ASSUME "R" \in modes
      PROVE  /\ \A k, l \in DOMAIN emitted : buf[emitted[k].line] = buf[emitted[l].line] => k = l
             /\ {buf[emitted[k].line] : k \in DOMAIN emitted} = ToSet(buf)
  BY <1>2 DEF UniqKept, Tokens
<1>3. ASSUME uniqphase = "exit", "R" \notin modes PROVE \E rule \in {"code", "manual"} : ShownBy(rule)
  <2>1. ShownBy("code")
    BY <1>1, <1>3 DEF ShownBy
  <2> QED
    BY <2>1
<1> QED
  BY <1>1, <1>2, <1>3 DEF UniqRight

\* What uniq has read, how often each selection of it occurs, what it has passed over and
\* what it has written always agree.
THEOREM UniqInvariance == UniqSpec => []UniqKept
<1>1. UniqKept /\ [UniqNext]_uniqVars => UniqKept'
  BY PhasesKept, UniqStill, NextFileKept, IsDupKept, ReadTokenKept, PrintFirstKept, PrintDuplicateKept DEF UniqNext
<1> QED
  BY <1>1, UniqInitKept, PTL DEF UniqSpec

\* uniq writes, of the lines of all files that can be read, the first of each selection, with
\* -d all that have another of theirs, with -l the last of those; -R writes no read twice.
THEOREM LinesShown == UniqSpec => []UniqRight
BY UniqInvariance, KeptUniq, PTL
=============================================================================
