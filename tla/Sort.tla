-------------------------------- MODULE Sort ---------------------------------
(* sort: the order on selections its flags make, and the insertion sort that   *)
(* sort.Stable is on up to twenty selections (external).                       *)
EXTENDS Integers, SequencesExt

CONSTANTS SortInputs,  \* sequences of selections [id, text, key]: what -k matches is NoMatch or a text
          SortFlags,   \* subsets of {"n", "k", "i", "r"}
          NoMatch,
          Lower,   \* bytes.ToLower of a text
          Rank,    \* of a text among all, as bytes.Compare orders them
          Fields,  \* the number of words of a text
          Number,  \* what Atoi makes of its first word, or NaN
          NaN

\* The texts, and the selections of them, each with its place as id.
SortText == DOMAIN Rank
Selection == [id : Nat, text : SortText, key : SortText \cup {NoMatch}]
ASSUME SortAssumption ==
    /\ Rank \in [SortText -> Int] /\ Lower \in [SortText -> SortText]
    /\ Fields \in [SortText -> Nat] /\ Number \in [SortText -> Int \cup {NaN}]
    /\ \A q \in SortInputs : q \in Seq(Selection) /\ \A k, l \in DOMAIN q : k < l => q[k].id < q[l].id

VARIABLES came,   \* the selections as they came
          flags,
          dots,   \* K.Dots
          upto, down    \* i and j of the insertion sort; upto is past the end when it is over
sortVars == <<came, flags, dots, upto, down>>

BytesCompare(a, b) == CASE Rank[a] < Rank[b] -> -1 [] Rank[a] = Rank[b] -> 0 [] OTHER -> 1

\* ncmp: numbers come first, then words, then what is blank.
Ncmp(a, b) ==
    CASE Fields[a] = 0 -> 1
      [] Fields[a] > 0 /\ Fields[b] = 0 -> -1
      [] Fields[a] > 0 /\ Fields[b] > 0 /\ Number[a] = NaN -> 1
      [] Fields[a] > 0 /\ Fields[b] > 0 /\ Number[a] # NaN /\ Number[b] = NaN -> -1
      [] OTHER -> CASE Number[a] < Number[b] -> -1 [] Number[a] = Number[b] -> 0 [] OTHER -> 1

Cmpfn(a, b) == IF "n" \in flags THEN Ncmp(a, b) ELSE BytesCompare(a, b)
Cased(a) == IF "i" \in flags THEN Lower[a] ELSE a

LessDefault(a, b) == Cmpfn(Cased(a.text), Cased(b.text)) = -1
LessO(a, b) == a.key # NoMatch /\ (IF b.key = NoMatch THEN TRUE ELSE Cmpfn(Cased(a.key), Cased(b.key)) = -1)
KeysLess(a, b) == IF "k" \in flags THEN LessO(a, b) ELSE LessDefault(a, b)
LessNegated(a, b) == ("r" \in flags) # KeysLess(a, b)     \* mutant: equals are before each other
Less(a, b) == IF "r" \in flags THEN KeysLess(b, a) ELSE KeysLess(a, b)

SortInit == came \in SortInputs /\ flags \in SortFlags /\ dots = came /\ upto = 2 /\ down = 2

\* insertionSort of package sort.
Swap ==
    /\ upto <= Len(dots) /\ down > 1 /\ Less(dots[down], dots[down - 1])
    /\ dots' = [dots EXCEPT ![down] = dots[down - 1], ![down - 1] = dots[down]] /\ down' = down - 1
    /\ UNCHANGED <<came, flags, upto>>
NextDot ==
    /\ upto <= Len(dots)
    /\ down > 1 => ~Less(dots[down], dots[down - 1])
    /\ upto' = upto + 1 /\ down' = upto + 1
    /\ UNCHANGED <<came, flags, dots>>

SortNext == Swap \/ NextDot
SortSpec == SortInit /\ [][SortNext]_sortVars
-----------------------------------------------------------------------------
\* Neither is before the other.
Level(a, b) == ~Less(a, b) /\ ~Less(b, a)

\* The order is one that sorting can rely on, also between numbers, words and blanks,
\* selections with a key and without: a strict order of classes of equals
\* (sort.go:51-104).
OrderSound ==
    upto = 2 /\ down = 2 => \A a, b \in ToSet(came) :
        /\ ~(Less(a, b) /\ Less(b, a))
        /\ \A c \in ToSet(came) : (Less(a, b) /\ Less(b, c) => Less(a, c)) /\ (Level(a, b) /\ Level(b, c) => Level(a, c))

\* The selections that come out are those that came in, none before a lesser one, and
\* equal ones came the order they came in: "a stable sorting algorithm" (sort.go:224).
Sorted ==
    /\ ToSet(dots) = ToSet(came) /\ Len(dots) = Len(came)
    /\ upto > Len(dots) => \A k, l \in DOMAIN dots : k < l =>
         ~Less(dots[l], dots[k]) /\ (Level(dots[k], dots[l]) => dots[k].id < dots[l].id)
SortRight == OrderSound /\ Sorted
=============================================================================
