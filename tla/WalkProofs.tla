----------------------------- MODULE WalkProofs -----------------------------
(***************************************************************************)
(* Proofs about Walk for any tree, any roots and any interleaving, with and*)
(* without -m and -t: each WaitGroup counts the goroutines of its walk, so *)
(* that listch is closed after the last send, and no walk prints a name    *)
(* twice.  The argument: a directory is entered from its parent only,      *)
(* which goes past each name once.                                         *)
(*   A walk that has returned has printed all it should, on its own without*)
(* -m and together with the others with it: no goroutine ends before its   *)
(* listing does, and what it goes past is passed on or was marked by a walk*)
(* that passes it on.  The levels of the tree are a recursive function, so *)
(* the argument is by induction: a set of numbers with 0 and successors.   *)
(*   And about WalkBft for any tree, any limit and any room in the         *)
(* channels: the names come level by level, none twice, and no directory   *)
(* within the limit is left behind.  The argument: the directories on their*)
(* way are in the order of their levels, which differ by one at most.      *)
(***************************************************************************)
EXTENDS Walk, WalkBft, FiniteSetTheorems, SequenceTheorems, WellFoundedInduction, TLAPS

\* The states in which a goroutine holds the name at its index.
Handling == {"lock", "write", "go", "send"}
\* The states of a goroutine that has not finished.
Alive == Control \ {"unborn", "dead"}

\* What each walk has.
WalksTyped ==
    /\ pc \in [Path -> [Dir -> Control]]
    /\ pos \in [Path -> [Dir -> Nat]] /\ deep \in [Path -> [Dir -> Nat]]
    /\ wg \in [Path -> Nat]
    /\ listch \in [Path -> Seq(File)] /\ (\A p \in Path : Len(listch[p]) <= NGo)
    /\ printed \in [Path -> Seq(File)]

\* What all of them share.
RestTyped ==
    /\ args \in Options
    /\ closed \in [Path -> BOOLEAN] /\ over \in [Path -> BOOLEAN]
    /\ visit \in SUBSET File /\ fatal \in BOOLEAN

\* A goroutine is at a name of its directory, and was started for the root or by
\* the goroutine of the directory that lists its own, which has that name behind it.
Passed(p, d, i) == i < pos[p][d] \/ (i = pos[p][d] /\ pc[p][d] = "send")
Begun(p, e) ==
    \/ e = Root[p]
    \/ /\ Depth[Root[p]] < Depth[e]
       /\ \E d \in Dir : \E i \in DOMAIN Listing[d] : Listing[d][i] = e /\ pc[p][d] # "unborn" /\ Passed(p, d, i)
Grown(p) ==
    \A d \in Dir : /\ pos[p][d] >= 1
                   /\ pc[p][d] \in Handling => pos[p][d] \in DOMAIN Listing[d]
                   /\ pc[p][d] # "unborn" => Begun(p, d)

Counts(p) == wg[p] = Cardinality(Members(p)) /\ (closed[p] => Members(p) = {})

\* The names on the way and printed are names that some goroutine has behind it, and
\* none of them is there twice.
Behind(row, f) == \E d \in Dir : \E i \in DOMAIN Listing[d] : Listing[d][i] = f /\ i < row[d]
Distinct(s) == \A j, k \in 1..Len(s) : s[j] = s[k] => j = k
NoneTwice(row, coming, shown) ==
    /\ Distinct(shown) /\ Distinct(coming)
    /\ \A j \in 1..Len(shown), k \in 1..Len(coming) : shown[j] # coming[k]
    /\ \A j \in 1..Len(shown) : Behind(row, shown[j])
    /\ \A k \in 1..Len(coming) : Behind(row, coming[k])
Once(p) ==
    /\ NoneTwice(pos[p], listch[p], printed[p])
    /\ IsFiniteSet(Printed(p)) /\ PrintedOnce(p)

\* The inductive invariant of one walk.
WInv(p) == Grown(p) /\ Counts(p) /\ Once(p)

----------------------------------------------------------------------------
\* The goroutines of a walk can be counted.
LEMMA MembersFinite ==
  ASSUME NEW p \in Path
  PROVE  IsFiniteSet(Members(p)) /\ Cardinality(Members(p)) \in Nat
<1>1. Members(p) \subseteq Dir
  BY DEF Members
<1> QED
  BY <1>1, WalkAssumption, FS_Subset, FS_CardinalityType DEF WalkAssumption

\* A listing has a length, and files in it.
LEMMA ListingTyped ==
  ASSUME NEW d \in Dir
  PROVE  /\ DOMAIN Listing[d] = 1..Len(Listing[d]) /\ Len(Listing[d]) \in Nat
         /\ \A i \in DOMAIN Listing[d] : Listing[d][i] \in File
<1>1. Listing[d] \in Seq(File)
  BY WalkAssumption DEF WalkAssumption
<1> QED
  BY <1>1, LenProperties, ElementOfSeq

\* A walk that a step does not touch keeps what it has.
LEMMA Untouched ==
  ASSUME NEW p \in Path, WInv(p), pc'[p] = pc[p], pos'[p] = pos[p], wg'[p] = wg[p],
         listch'[p] = listch[p], printed'[p] = printed[p], closed'[p] = closed[p]
  PROVE  WInv(p)'
<1>1. Grown(p)'
  BY DEF WInv, Grown, Begun, Passed
<1>2. Members(p)' = Members(p)
  BY DEF Members
<1>3. Counts(p)'
  BY <1>2 DEF WInv, Counts
<1>4. Once(p)'
  BY DEF WInv, Once, PrintedOnce, Printed
<1> QED
  BY <1>1, <1>3, <1>4 DEF WInv

\* What a step of a goroutine does to its walk.
Dies(p, d) ==
    /\ pc[p][d] \in Alive \ {"send"} /\ pc'[p] = [pc[p] EXCEPT ![d] = "dead"] /\ wg'[p] = wg[p] - 1
    /\ pos'[p] = pos[p] /\ listch'[p] = listch[p]
Moves(p, d) ==
    /\ pc[p][d] \in Alive \ {"send"}
    /\ \E s \in Alive : /\ pc'[p] = [pc[p] EXCEPT ![d] = s]
                        /\ s \in Handling => pos[p][d] \in DOMAIN Listing[d]
    /\ wg'[p] = wg[p] /\ pos'[p] = pos[p] /\ listch'[p] = listch[p]
Skips(p, d) ==
    /\ pc[p][d] = "next" /\ pos'[p] = [pos[p] EXCEPT ![d] = pos[p][d] + 1]
    /\ pc'[p] = pc[p] /\ wg'[p] = wg[p] /\ listch'[p] = listch[p]
Starts(p, d) ==
    /\ pc[p][d] = "go" /\ Kid(p, d) \in Dir
    /\ pc'[p] = [pc[p] EXCEPT ![d] = "send", ![Kid(p, d)] = "read"]
    /\ wg'[p] = wg[p] + 1 /\ pos'[p] = pos[p] /\ listch'[p] = listch[p]
Sends(p, d) ==
    /\ pc[p][d] = "send" /\ pc'[p] = [pc[p] EXCEPT ![d] = "next"]
    /\ pos'[p] = [pos[p] EXCEPT ![d] = pos[p][d] + 1] /\ wg'[p] = wg[p]
    /\ listch'[p] = Append(listch[p], Kid(p, d)) /\ Len(listch[p]) < NGo

\* A step of a goroutine leaves the other walks alone and is one of the five to its own.
LEMMA Effects ==
  ASSUME WalksTyped, NEW p \in Path, NEW d \in Dir, Grown(p), Dft1(p, d)
  PROVE  /\ closed' = closed /\ printed' = printed /\ over' = over /\ args' = args
         /\ \A q \in Path : q # p => /\ pc'[q] = pc[q] /\ pos'[q] = pos[q] /\ wg'[q] = wg[q]
                                     /\ listch'[q] = listch[q]
         /\ \/ Dies(p, d) \/ Moves(p, d) \/ Skips(p, d) \/ Starts(p, d) \/ Sends(p, d)
            \/ pc'[p] = pc[p] /\ pos'[p] = pos[p] /\ wg'[p] = wg[p] /\ listch'[p] = listch[p]
<1>0. /\ pc[p] \in [Dir -> Control] /\ pos[p] \in [Dir -> Nat]
      /\ DOMAIN Listing[d] = 1..Len(Listing[d]) /\ Len(Listing[d]) \in Nat /\ pos[p][d] >= 1 /\ pos[p][d] \in Nat
  BY ListingTyped DEF WalksTyped, Grown
<1>1. closed' = closed /\ printed' = printed /\ over' = over /\ args' = args
  BY DEF Dft1, ReadDir, Ask, AskDuringWrite, Lock, Write, Go, Send, Leave
<1>2. ASSUME NEW c, To(p, d, c)
      PROVE  pc'[p] = [pc[p] EXCEPT ![d] = c] /\ \A q \in Path : q # p => pc'[q] = pc[q]
  BY <1>2 DEF To, WalksTyped
<1>3. ASSUME Advance(p, d)
      PROVE  pos'[p] = [pos[p] EXCEPT ![d] = pos[p][d] + 1] /\ \A q \in Path : q # p => pos'[q] = pos[q]
  BY <1>3 DEF Advance, WalksTyped
<1>4. ASSUME Finish(p, d)
      PROVE  /\ pc'[p] = [pc[p] EXCEPT ![d] = "dead"] /\ wg'[p] = wg[p] - 1
             /\ \A q \in Path : q # p => pc'[q] = pc[q] /\ wg'[q] = wg[q]
  BY <1>2, <1>4 DEF Finish, WalksTyped
<1>5. CASE ReadDir(p, d)
  <2>1. CASE d \in Unreadable
    BY <1>1, <1>4, <1>5, <2>1 DEF ReadDir, Dies, Alive, Control
  <2>2. CASE d \notin Unreadable
    <3>1. pc[p][d] = "read" /\ To(p, d, "next") /\ UNCHANGED <<wg, pos, listch>>
      BY <1>5, <2>2 DEF ReadDir
    <3>2. Moves(p, d)
      BY <1>2, <3>1 DEF Moves, Alive, Control, Handling
    <3> QED
      BY <1>1, <1>2, <3>1, <3>2
  <2> QED
    BY <2>1, <2>2
<1>6. CASE Ask(p, d)
  <2>1. pc[p][d] = "next" /\ pos[p][d] \in DOMAIN Listing[d] /\ UNCHANGED <<wg, listch>>
    BY <1>0, <1>6 DEF Ask
  <2>2. CASE Advance(p, d) /\ UNCHANGED pc
    BY <1>1, <1>3, <2>1, <2>2 DEF Skips
  <2>3. CASE (To(p, d, "go") \/ To(p, d, "lock")) /\ UNCHANGED pos
    BY <1>1, <1>2, <2>1, <2>3 DEF Moves, Alive, Control
  <2> QED
    BY <1>6, <2>2, <2>3 DEF Ask
<1>7. CASE AskDuringWrite(p, d)
  BY <1>1, <1>7 DEF AskDuringWrite, goroutines
<1>8. CASE Lock(p, d)
  <2>1. pos[p][d] \in DOMAIN Listing[d] /\ pc[p][d] = "lock"
    BY <1>8 DEF Lock, Grown, Handling
  <2> QED
    BY <1>1, <1>2, <1>8, <2>1 DEF Lock, Moves, Alive, Control
<1>9. CASE Write(p, d)
  <2>1. pos[p][d] \in DOMAIN Listing[d] /\ pc[p][d] = "write"
    BY <1>9 DEF Write, Grown, Handling
  <2> QED
    BY <1>1, <1>2, <1>9, <2>1 DEF Write, Moves, Alive, Control
<1>10. CASE Go(p, d)
  <2>1. pos[p][d] \in DOMAIN Listing[d] /\ pc[p][d] = "go" /\ pos' = pos /\ listch' = listch
    BY <1>10 DEF Go, Grown, Handling
  <2>2. CASE Descends(p, d)
    <3>1. Kid(p, d) \in Dir /\ Kid(p, d) \in DOMAIN pc[p]
      BY <1>0, <2>2 DEF Descends
    <3>2. pc' = [pc EXCEPT ![p][d] = "send", ![p][Kid(p, d)] = "read"] /\ wg' = [wg EXCEPT ![p] = wg[p] + 1]
      BY <1>10, <2>2 DEF Go, Joined
    <3>3. pc'[p] = [pc[p] EXCEPT ![d] = "send", ![Kid(p, d)] = "read"] /\ \A q \in Path : q # p => pc'[q] = pc[q]
      BY <3>2 DEF WalksTyped
    <3>4. wg'[p] = wg[p] + 1 /\ \A q \in Path : q # p => wg'[q] = wg[q]
      BY <3>2 DEF WalksTyped
    <3> QED
      BY <1>1, <2>1, <3>1, <3>3, <3>4 DEF Starts
  <2>3. CASE ~Descends(p, d)
    BY <1>1, <1>2, <1>10, <2>1, <2>3 DEF Go, Moves, Alive, Control
  <2> QED
    BY <2>2, <2>3
<1>11. CASE Send(p, d)
  <2>1. listch'[p] = Append(listch[p], Kid(p, d)) /\ \A q \in Path : q # p => listch'[q] = listch[q]
    BY <1>11 DEF Send, WalksTyped
  <2>2. pc[p][d] = "send" /\ wg' = wg /\ Len(listch[p]) < NGo
    BY <1>11 DEF Send, Room
  <2> QED
    BY <1>1, <1>2, <1>3, <1>11, <2>1, <2>2 DEF Send, Sends
<1>12. CASE Leave(p, d)
  BY <1>1, <1>4, <1>12 DEF Leave, Dies, Alive, Control
<1> QED
  BY <1>5, <1>6, <1>7, <1>8, <1>9, <1>10, <1>11, <1>12 DEF Dft1

----------------------------------------------------------------------------
\* A directory whose goroutine is about to be started has none yet.
LEMMA KidUnborn ==
  ASSUME WalksTyped, NEW p \in Path, NEW d \in Dir, Grown(p), pc[p][d] = "go", Kid(p, d) \in Dir
  PROVE  /\ pc[p][Kid(p, d)] = "unborn" /\ Kid(p, d) # d
         /\ Depth[Root[p]] < Depth[Kid(p, d)]
<1> DEFINE i == pos[p][d]
           k == Listing[d][i]
<1>0. i \in DOMAIN Listing[d] /\ k = Kid(p, d) /\ i \in Nat
  BY DEF Grown, Handling, Kid, WalksTyped
<1>1. Begun(p, d)
  BY DEF Grown
<1>2. Root[p] \in Dir /\ Root[p] \in File /\ d \in File /\ k \in File
  BY <1>0, WalkAssumption DEF WalkAssumption
<1>3. Depth[Root[p]] \in Nat /\ Depth[d] \in Nat /\ Depth[k] \in Nat /\ Depth[d] < Depth[k]
  BY <1>0, <1>2, WalkAssumption DEF WalkAssumption
<1>4. Depth[Root[p]] < Depth[k]
  BY <1>1, <1>3 DEF Begun
<1>5. k # d /\ k # Root[p]
  BY <1>3, <1>4
<1>6. ASSUME pc[p][k] # "unborn" PROVE FALSE
  <2>1. Begun(p, k)
    BY <1>0, <1>6 DEF Grown
  <2>e. PICK e \in Dir : \E j \in DOMAIN Listing[e] : Listing[e][j] = k /\ Passed(p, e, j)
    BY <1>5, <2>1 DEF Begun
  <2>2. PICK j \in DOMAIN Listing[e] : Listing[e][j] = k /\ Passed(p, e, j)
    BY <2>e
  <2>3. e = d /\ j = i
    BY <1>0, <2>2, WalkAssumption DEF WalkAssumption
  <2> QED
    BY <1>0, <2>2, <2>3 DEF Passed
<1> QED
  BY <1>0, <1>4, <1>5, <1>6

\* A goroutine is started for a directory with none, by the parent that goes past it.
LEMMA GrownStep ==
  ASSUME WalksTyped, NEW p \in Path, NEW d \in Dir, Grown(p),
         Dies(p, d) \/ Moves(p, d) \/ Skips(p, d) \/ Starts(p, d) \/ Sends(p, d)
  PROVE  Grown(p)'
<1>0. /\ pc[p] \in [Dir -> Control] /\ pos[p] \in [Dir -> Nat]
  BY DEF WalksTyped
<1>a. /\ \A e \in Dir : pos'[p][e] \in Nat /\ pos[p][e] \in Nat /\ pos[p][e] <= pos'[p][e]
      /\ \A e \in Dir : e # d => pos'[p][e] = pos[p][e]
  BY <1>0 DEF Dies, Moves, Skips, Starts, Sends
<1>b. \A e \in Dir : pc[p][e] # "unborn" => pc'[p][e] # "unborn"
  BY <1>0 DEF Dies, Moves, Skips, Starts, Sends, Alive
\* What has been passed stays passed.
<1>c. \A e \in Dir : \A i \in DOMAIN Listing[e] : Passed(p, e, i) => Passed(p, e, i)'
  <2> SUFFICES ASSUME NEW e \in Dir, NEW i \in DOMAIN Listing[e], Passed(p, e, i) PROVE Passed(p, e, i)'
    OBVIOUS
  <2>0. i \in Nat
    BY ListingTyped
  <2>1. CASE i < pos[p][e]
    BY <1>a, <2>0, <2>1 DEF Passed
  <2>2. CASE i = pos[p][e] /\ pc[p][e] = "send"
    <3>1. CASE e = d
      BY <1>0, <2>0, <2>2, <3>1 DEF Passed, Dies, Moves, Skips, Starts, Sends, Alive
    <3>2. CASE e # d
      <4>1. pc'[p][e] = pc[p][e]
        BY <1>0, <2>2, <3>2, KidUnborn DEF Dies, Moves, Skips, Starts, Sends
      <4> QED
        BY <1>a, <2>2, <3>2, <4>1 DEF Passed
    <3> QED
      BY <3>1, <3>2
  <2> QED
    BY <2>1, <2>2 DEF Passed
<1>d. \A e \in Dir : Begun(p, e) => Begun(p, e)'
  BY <1>b, <1>c DEF Begun
<1>1. \A e \in Dir : pos'[p][e] >= 1
  BY <1>a DEF Grown
<1>2. ASSUME NEW e \in Dir, pc'[p][e] \in Handling PROVE pos'[p][e] \in DOMAIN Listing[e]
  <2>1. CASE Dies(p, d)
    BY <1>0, <1>2, <2>1 DEF Dies, Grown, Handling
  <2>2. CASE Moves(p, d)
    BY <1>0, <1>2, <2>2 DEF Moves, Grown, Handling
  <2>3. CASE Skips(p, d)
    BY <1>0, <1>2, <2>3 DEF Skips, Grown, Handling
  <2>4. CASE Starts(p, d)
    BY <1>0, <1>2, <2>4 DEF Starts, Grown, Handling
  <2>5. CASE Sends(p, d)
    BY <1>0, <1>2, <2>5 DEF Sends, Grown, Handling
  <2> QED
    BY <2>1, <2>2, <2>3, <2>4, <2>5
<1>3. ASSUME NEW e \in Dir, pc'[p][e] # "unborn" PROVE Begun(p, e)'
  <2>1. CASE pc[p][e] # "unborn"
    BY <1>d, <2>1 DEF Grown
  <2>2. CASE pc[p][e] = "unborn"
    <3>1. Starts(p, d) /\ e = Kid(p, d)
      BY <1>0, <1>3, <2>2 DEF Dies, Moves, Skips, Starts, Sends, Alive
    <3>2. pos[p][d] \in DOMAIN Listing[d] /\ Listing[d][pos[p][d]] = e /\ Depth[Root[p]] < Depth[e] /\ e # d
      BY <3>1, KidUnborn DEF Starts, Grown, Handling, Kid
    <3>3. pc'[p][d] = "send" /\ pos'[p][d] = pos[p][d]
      BY <1>0, <3>1, <3>2 DEF Starts
    <3> QED
      BY <3>2, <3>3 DEF Begun, Passed
  <2> QED
    BY <2>1, <2>2
<1> QED
  BY <1>1, <1>2, <1>3 DEF Grown

\* wg changes as the goroutines do.
LEMMA CountsStep ==
  ASSUME WalksTyped, NEW p \in Path, NEW d \in Dir, Grown(p), Counts(p), closed' = closed,
         Dies(p, d) \/ Moves(p, d) \/ Skips(p, d) \/ Starts(p, d) \/ Sends(p, d)
  PROVE  Counts(p)' /\ wg'[p] \in Nat
<1>0. /\ pc[p] \in [Dir -> Control] /\ wg[p] = Cardinality(Members(p))
      /\ IsFiniteSet(Members(p)) /\ Cardinality(Members(p)) \in Nat
  BY MembersFinite DEF WalksTyped, Counts
<1>1. d \in Members(p)
  BY DEF Members, Dies, Moves, Skips, Starts, Sends, Alive
<1>2. ~closed[p]
  BY <1>1 DEF Counts
<1>3. Counts(p)' <=> wg'[p] = Cardinality(Members(p)')
  BY <1>2 DEF Counts
<1>4. CASE Dies(p, d)
  <2>1. Members(p)' = Members(p) \ {d}
    BY <1>0, <1>4 DEF Members, Dies
  <2>2. Cardinality(Members(p) \ {d}) = Cardinality(Members(p)) - 1 /\ Cardinality(Members(p) \ {d}) \in Nat
    BY <1>0, <1>1, FS_RemoveElement, FS_CardinalityType
  <2>3. Cardinality(Members(p)') = Cardinality(Members(p)) - 1 /\ Cardinality(Members(p)') \in Nat
    BY <2>1, <2>2, Zenon
  <2> QED
    BY <1>0, <1>3, <1>4, <2>3 DEF Dies
<1>5. CASE Starts(p, d)
  <2>1. pc[p][Kid(p, d)] = "unborn" /\ Kid(p, d) # d /\ Kid(p, d) \in Dir
    BY <1>5, KidUnborn DEF Starts
  <2>2. Members(p)' = Members(p) \cup {Kid(p, d)} /\ Kid(p, d) \notin Members(p)
    BY <1>0, <1>1, <1>5, <2>1 DEF Members, Starts
  <2>3. Cardinality(Members(p) \cup {Kid(p, d)}) = Cardinality(Members(p)) + 1
    BY <1>0, <2>2, FS_AddElement
  <2>4. Cardinality(Members(p)') = Cardinality(Members(p)) + 1
    BY <2>2, <2>3, Zenon
  <2> QED
    BY <1>0, <1>3, <1>5, <2>4 DEF Starts
<1>6. CASE Moves(p, d) \/ Skips(p, d) \/ Sends(p, d)
  <2>1. Members(p)' = Members(p) /\ wg'[p] = wg[p]
    BY <1>0, <1>1, <1>6 DEF Members, Moves, Skips, Sends, Alive
  <2>2. Cardinality(Members(p)') = Cardinality(Members(p))
    BY <2>1, Zenon
  <2> QED
    BY <1>0, <1>3, <2>1, <2>2
<1> QED
  BY <1>4, <1>5, <1>6

\* What is behind the goroutines stays behind them.
LEMMA StaysBehind ==
  ASSUME NEW row \in [Dir -> Nat], NEW after \in [Dir -> Nat], \A e \in Dir : row[e] <= after[e],
         NEW coming \in Seq(File), NEW shown \in Seq(File), NoneTwice(row, coming, shown)
  PROVE  NoneTwice(after, coming, shown)
<1>1. ASSUME NEW f, Behind(row, f) PROVE Behind(after, f)
  <2>e. PICK e \in Dir : \E i \in DOMAIN Listing[e] : Listing[e][i] = f /\ i < row[e]
    BY <1>1 DEF Behind
  <2>1. PICK i \in DOMAIN Listing[e] : Listing[e][i] = f /\ i < row[e]
    BY <2>e
  <2>2. i \in Nat
    BY ListingTyped
  <2>3. i < after[e]
    BY <2>1, <2>2
  <2> QED
    BY <2>1, <2>3 DEF Behind
<1> QED
  BY <1>1 DEF NoneTwice

\* A goroutine sends the name at its index and goes past it.
LEMMA OneSent ==
  ASSUME NEW row \in [Dir -> Nat], NEW coming \in Seq(File), NEW shown \in Seq(File), NoneTwice(row, coming, shown),
         NEW d \in Dir, row[d] \in DOMAIN Listing[d]
  PROVE  NoneTwice([row EXCEPT ![d] = row[d] + 1], Append(coming, Listing[d][row[d]]), shown)
<1> DEFINE k == Listing[d][row[d]]
           after == [row EXCEPT ![d] = row[d] + 1]
           more == Append(coming, k)
<1>1. after \in [Dir -> Nat] /\ (\A e \in Dir : row[e] <= after[e]) /\ row[d] < after[d] /\ k \in File
  BY ListingTyped
<1>2. ~Behind(row, k)
  <2> SUFFICES ASSUME NEW e \in Dir, NEW i \in DOMAIN Listing[e], Listing[e][i] = k, i < row[e] PROVE FALSE
    BY DEF Behind
  <2>1. e = d /\ i = row[d]
    BY WalkAssumption DEF WalkAssumption
  <2> QED
    BY <2>1
<1>3. Behind(after, k)
  <2> HIDE DEF after
  <2> QED
    BY <1>1 DEF Behind
<1>4. NoneTwice(after, coming, shown)
  <2> HIDE DEF after
  <2> QED
    BY <1>1, StaysBehind
<1>5. /\ more \in Seq(File) /\ Len(more) = Len(coming) + 1 /\ Len(coming) \in Nat /\ more[Len(coming) + 1] = k
      /\ \A j \in 1..Len(coming) : more[j] = coming[j]
  BY <1>1, AppendProperties, LenProperties
<1> HIDE DEF more, after, k
<1>6. 1..Len(more) = 1..Len(coming) \cup {Len(coming) + 1}
  BY <1>5
<1>7. /\ \A j \in 1..Len(coming) : coming[j] # k
      /\ \A j \in 1..Len(shown) : shown[j] # k
  BY <1>2 DEF NoneTwice
<1>8. Distinct(more)
  BY <1>5, <1>6, <1>7 DEF NoneTwice, Distinct
<1>9. \A j \in 1..Len(shown), m \in 1..Len(more) : shown[j] # more[m]
  BY <1>5, <1>6, <1>7 DEF NoneTwice
<1>10. \A m \in 1..Len(more) : Behind(after, more[m])
  <2> SUFFICES ASSUME NEW m \in 1..Len(more) PROVE Behind(after, more[m])
    OBVIOUS
  <2>1. CASE m = Len(coming) + 1
    BY <1>3, <1>5, <2>1
  <2>2. CASE m \in 1..Len(coming)
    BY <1>4, <1>5, <2>2 DEF NoneTwice
  <2> QED
    BY <1>6, <2>1, <2>2
<1>11. NoneTwice(after, more, shown)
  BY <1>4, <1>8, <1>9, <1>10 DEF NoneTwice
<1> QED
  BY <1>11 DEF after, more, k

\* The first name on the way is printed.
LEMMA OneShown ==
  ASSUME NEW row \in [Dir -> Nat], NEW coming \in Seq(File), NEW shown \in Seq(File), NoneTwice(row, coming, shown),
         coming # <<>>
  PROVE  /\ NoneTwice(row, Tail(coming), Append(shown, Head(coming)))
         /\ \A j \in 1..Len(shown) : shown[j] # Head(coming)
         /\ Head(coming) \in File /\ Tail(coming) \in Seq(File) /\ Len(coming) \in Nat /\ Len(Tail(coming)) = Len(coming) - 1
<1> DEFINE h == Head(coming)
           left == Tail(coming)
           more == Append(shown, h)
<1>2. /\ h \in File /\ h = coming[1] /\ left \in Seq(File)
      /\ Len(coming) \in Nat /\ Len(coming) >= 1 /\ Len(left) = Len(coming) - 1
      /\ \A m \in 1..Len(left) : left[m] = coming[m + 1]
  BY HeadTailProperties, LenProperties, EmptySeq
<1>3. /\ more \in Seq(File) /\ Len(shown) \in Nat /\ Len(more) = Len(shown) + 1
      /\ more[Len(shown) + 1] = h /\ \A j \in 1..Len(shown) : more[j] = shown[j]
  BY <1>2, AppendProperties, LenProperties
<1> HIDE DEF h, left, more
<1>4. 1..Len(more) = 1..Len(shown) \cup {Len(shown) + 1} /\ 1 \in 1..Len(coming)
  BY <1>2, <1>3
<1>5. \A m \in 1..Len(left) : m \in Nat /\ m + 1 \in 1..Len(coming) /\ m + 1 # 1
  BY <1>2
<1>6. \A j \in 1..Len(shown) : shown[j] # h
  BY <1>2, <1>4 DEF NoneTwice
<1>7. \A m \in 1..Len(left) : left[m] # h
  BY <1>2, <1>4, <1>5 DEF NoneTwice, Distinct
<1>8. Distinct(more)
  BY <1>3, <1>4, <1>6 DEF NoneTwice, Distinct
<1>9. Distinct(left)
  <2> SUFFICES ASSUME NEW m \in 1..Len(left), NEW n \in 1..Len(left), left[m] = left[n] PROVE m = n
    BY DEF Distinct
  <2>1. m + 1 = n + 1
    BY <1>2, <1>5 DEF NoneTwice, Distinct
  <2> QED
    BY <1>5, <2>1
<1>10. \A j \in 1..Len(more), m \in 1..Len(left) : more[j] # left[m]
  <2> SUFFICES ASSUME NEW j \in 1..Len(more), NEW m \in 1..Len(left) PROVE more[j] # left[m]
    OBVIOUS
  <2>1. CASE j = Len(shown) + 1
    BY <1>3, <1>7, <2>1
  <2>2. CASE j \in 1..Len(shown)
    BY <1>2, <1>3, <1>5, <2>2 DEF NoneTwice
  <2> QED
    BY <1>4, <2>1, <2>2
<1>11. \A m \in 1..Len(left) : Behind(row, left[m])
  BY <1>2, <1>5 DEF NoneTwice
<1>12. \A j \in 1..Len(more) : Behind(row, more[j])
  <2> SUFFICES ASSUME NEW j \in 1..Len(more) PROVE Behind(row, more[j])
    OBVIOUS
  <2>1. CASE j = Len(shown) + 1
    BY <1>2, <1>3, <1>4, <2>1 DEF NoneTwice
  <2>2. CASE j \in 1..Len(shown)
    BY <1>3, <2>2 DEF NoneTwice
  <2> QED
    BY <1>4, <2>1, <2>2
<1>13. NoneTwice(row, left, more)
  BY <1>8, <1>9, <1>10, <1>11, <1>12 DEF NoneTwice
<1> QED
  BY <1>2, <1>6, <1>13 DEF left, more, h

\* A step of a goroutine sends at most the name it goes past, which nobody has sent.
LEMMA OnceStep ==
  ASSUME WalksTyped, NEW p \in Path, NEW d \in Dir, Grown(p), Once(p), printed' = printed,
         Dies(p, d) \/ Moves(p, d) \/ Skips(p, d) \/ Starts(p, d) \/ Sends(p, d)
  PROVE  Once(p)' /\ listch'[p] \in Seq(File) /\ (Len(listch[p]) <= NGo => Len(listch'[p]) <= NGo)
<1>0. /\ pc[p] \in [Dir -> Control] /\ pos[p] \in [Dir -> Nat] /\ listch[p] \in Seq(File) /\ printed[p] \in Seq(File)
      /\ NGo \in Nat /\ NoneTwice(pos[p], listch[p], printed[p])
  BY WalkAssumption DEF WalksTyped, WalkAssumption, Once
<1>1. pos'[p] \in [Dir -> Nat] /\ \A e \in Dir : pos[p][e] <= pos'[p][e]
  <2>1. pos'[p] = pos[p] \/ pos'[p] = [pos[p] EXCEPT ![d] = pos[p][d] + 1]
    BY DEF Dies, Moves, Skips, Starts, Sends
  <2>2. /\ [pos[p] EXCEPT ![d] = pos[p][d] + 1] \in [Dir -> Nat]
        /\ \A e \in Dir : pos[p][e] <= [pos[p] EXCEPT ![d] = pos[p][d] + 1][e] /\ pos[p][e] <= pos[p][e]
    BY <1>0
  <2>3. CASE pos'[p] = pos[p]
    BY <1>0, <2>2, <2>3
  <2>4. CASE pos'[p] = [pos[p] EXCEPT ![d] = pos[p][d] + 1]
    BY <2>2, <2>4
  <2> QED
    BY <2>1, <2>3, <2>4
<1>2. IsFiniteSet(Printed(p)') /\ PrintedOnce(p)'
  BY DEF Once, PrintedOnce, Printed
<1>3. CASE listch'[p] = listch[p]
  <2>1. NoneTwice(pos'[p], listch'[p], printed'[p])
    BY <1>0, <1>1, <1>3, StaysBehind
  <2> QED
    BY <1>0, <1>2, <1>3, <2>1 DEF Once
<1>4. CASE Sends(p, d)
  <2>1. /\ pos[p][d] \in DOMAIN Listing[d] /\ pos'[p] = [pos[p] EXCEPT ![d] = pos[p][d] + 1]
        /\ listch'[p] = Append(listch[p], Listing[d][pos[p][d]]) /\ Len(listch[p]) < NGo
        /\ Listing[d][pos[p][d]] \in File
    BY <1>4, ListingTyped DEF Sends, Grown, Handling, Kid
  <2>2. NoneTwice([pos[p] EXCEPT ![d] = pos[p][d] + 1], Append(listch[p], Listing[d][pos[p][d]]), printed[p])
    BY <1>0, <2>1, OneSent
  <2>4. NoneTwice(pos'[p], listch'[p], printed'[p])
    BY <2>1, <2>2
  <2>3. listch'[p] \in Seq(File) /\ Len(listch'[p]) = Len(listch[p]) + 1 /\ Len(listch[p]) \in Nat
    BY <1>0, <2>1, AppendProperties, LenProperties
  <2> QED
    BY <1>0, <1>2, <2>1, <2>3, <2>4 DEF Once
<1> QED
  BY <1>3, <1>4 DEF Dies, Moves, Skips, Starts, Sends

\* The main loop of the walk prints the first name that is on the way.
LEMMA ShowStep ==
  ASSUME WalksTyped, NEW p \in Path, Once(p), Show(p)
  PROVE  /\ Once(p)' /\ listch'[p] \in Seq(File) /\ printed'[p] \in Seq(File)
         /\ Len(listch[p]) <= NGo => Len(listch'[p]) <= NGo
         /\ \A q \in Path : q # p => listch'[q] = listch[q] /\ printed'[q] = printed[q]
<1> DEFINE h == Head(listch[p])
<1>0. /\ listch[p] \in Seq(File) /\ printed[p] \in Seq(File) /\ listch[p] # <<>> /\ NGo \in Nat
      /\ pos[p] \in [Dir -> Nat] /\ NoneTwice(pos[p], listch[p], printed[p])
  BY WalkAssumption DEF WalksTyped, WalkAssumption, Show, Once
<1>1. /\ printed'[p] = Append(printed[p], h) /\ listch'[p] = Tail(listch[p])
      /\ \A q \in Path : q # p => listch'[q] = listch[q] /\ printed'[q] = printed[q]
      /\ pos' = pos
  BY DEF Show, WalksTyped, goroutines
<1>2. /\ NoneTwice(pos[p], Tail(listch[p]), Append(printed[p], h))
      /\ \A j \in 1..Len(printed[p]) : printed[p][j] # h
      /\ h \in File /\ Tail(listch[p]) \in Seq(File) /\ Len(listch[p]) \in Nat /\ Len(Tail(listch[p])) = Len(listch[p]) - 1
  BY <1>0, OneShown
<1>3. /\ printed'[p] \in Seq(File) /\ Len(printed[p]) \in Nat /\ Len(printed'[p]) = Len(printed[p]) + 1
      /\ printed'[p][Len(printed[p]) + 1] = h
      /\ \A j \in 1..Len(printed[p]) : printed'[p][j] = printed[p][j]
  BY <1>0, <1>1, <1>2, AppendProperties, LenProperties
<1>4. 1..Len(printed'[p]) = 1..Len(printed[p]) \cup {Len(printed[p]) + 1}
  BY <1>3
<1>5. NoneTwice(pos'[p], listch'[p], printed'[p])
  BY <1>1, <1>2
<1>6. IsFiniteSet(Printed(p)') /\ PrintedOnce(p)'
  <2>1. Printed(p)' = Printed(p) \cup {h} /\ h \notin Printed(p)
    BY <1>2, <1>3, <1>4, ZenonT(60) DEF Printed
  <2>2. IsFiniteSet(Printed(p)) /\ Cardinality(Printed(p)) = Len(printed[p])
    BY DEF Once, PrintedOnce
  <2>3. IsFiniteSet(Printed(p) \cup {h}) /\ Cardinality(Printed(p) \cup {h}) = Cardinality(Printed(p)) + 1
    BY <2>1, <2>2, FS_AddElement
  <2>4. IsFiniteSet(Printed(p)') /\ Cardinality(Printed(p)') = Cardinality(Printed(p)) + 1
    BY <2>1, <2>3, Zenon
  <2>5. Cardinality(Printed(p)') = Len(printed'[p])
    BY <1>3, <2>2, <2>4
  <2> QED
    BY <2>4, <2>5 DEF PrintedOnce
<1>7. Once(p)'
  BY <1>5, <1>6 DEF Once
<1>8. Len(listch[p]) <= NGo => Len(listch'[p]) <= NGo
  BY <1>0, <1>1, <1>2
<1> QED
  BY <1>1, <1>2, <1>3, <1>7, <1>8

----------------------------------------------------------------------------
\* What is stored keeps its form.
FormKept ==  /\ pc' \in [Path -> [Dir -> Control]] /\ pos' \in [Path -> [Dir -> Nat]]
             /\ deep' \in [Path -> [Dir -> Nat]]
             /\ wg' = [q \in Path |-> wg'[q]] /\ listch' = [q \in Path |-> listch'[q]]

\* A step changes what one walk has.
LEMMA RowsKept ==
  ASSUME WalksTyped, NEW p \in Path, NEW d \in Dir, Dft1(p, d)
  PROVE  wg' = [q \in Path |-> wg'[q]] /\ listch' = [q \in Path |-> listch'[q]]
<1>1. wg' = wg \/ \E x : wg' = [wg EXCEPT ![p] = x]
  BY DEF Dft1, ReadDir, Ask, AskDuringWrite, Lock, Write, Go, Send, Leave, Finish, goroutines
<1>2. listch' = listch \/ \E x : listch' = [listch EXCEPT ![p] = x]
  BY DEF Dft1, ReadDir, Ask, AskDuringWrite, Lock, Write, Go, Send, Leave
<1> QED
  BY <1>1, <1>2 DEF WalksTyped

\* The control states keep their type.
LEMMA ToTyped ==
  ASSUME WalksTyped, NEW p \in Path, NEW d \in Dir, NEW c \in Control, To(p, d, c)
  PROVE  pc' \in [Path -> [Dir -> Control]]
<1>1. [pc[p] EXCEPT ![d] = c] \in [Dir -> Control]
  BY DEF WalksTyped
<1>2. pc' = [pc EXCEPT ![p] = [pc[p] EXCEPT ![d] = c]]
  BY DEF To
<1> QED
  BY <1>1, <1>2 DEF WalksTyped

\* The indices keep theirs.
LEMMA AdvanceTyped ==
  ASSUME WalksTyped, NEW p \in Path, NEW d \in Dir, Advance(p, d)
  PROVE  pos' \in [Path -> [Dir -> Nat]]
<1>1. [pos[p] EXCEPT ![d] = pos[p][d] + 1] \in [Dir -> Nat]
  BY DEF WalksTyped
<1>2. pos' = [pos EXCEPT ![p] = [pos[p] EXCEPT ![d] = pos[p][d] + 1]]
  BY DEF Advance
<1> QED
  BY <1>1, <1>2 DEF WalksTyped

\* Every step of a goroutine keeps the form of what is stored.
LEMMA TypedStep ==
  ASSUME WalksTyped, RestTyped, \A q \in Path : Grown(q), NEW p \in Path, NEW d \in Dir, Dft1(p, d)
  PROVE  RestTyped' /\ FormKept
<1>0. pc \in [Path -> [Dir -> Control]] /\ pos \in [Path -> [Dir -> Nat]] /\ deep \in [Path -> [Dir -> Nat]]
  BY DEF WalksTyped
<1>r. wg' = [q \in Path |-> wg'[q]] /\ listch' = [q \in Path |-> listch'[q]]
  BY RowsKept
<1>1. CASE ReadDir(p, d)
  <2>1. To(p, d, "dead") \/ To(p, d, "next")
    BY <1>1 DEF ReadDir, Finish
  <2>2. pc' \in [Path -> [Dir -> Control]]
    BY <2>1, ToTyped DEF Control
  <2> QED
    BY <1>0, <1>r, <1>1, <2>2 DEF ReadDir, RestTyped, FormKept
<1>2. CASE Ask(p, d)
  <2>1. UNCHANGED pc \/ To(p, d, "go") \/ To(p, d, "lock")
    BY <1>2 DEF Ask
  <2>2. UNCHANGED pos \/ Advance(p, d)
    BY <1>2 DEF Ask
  <2>3. pc' \in [Path -> [Dir -> Control]]
    BY <1>0, <2>1, ToTyped DEF Control
  <2>4. pos' \in [Path -> [Dir -> Nat]]
    BY <1>0, <2>2, AdvanceTyped
  <2> QED
    BY <1>0, <1>r, <1>2, <2>3, <2>4 DEF Ask, RestTyped, FormKept
<1>3. CASE AskDuringWrite(p, d)
  BY <1>0, <1>r, <1>3 DEF AskDuringWrite, goroutines, RestTyped, FormKept
<1>4. CASE Lock(p, d)
  <2>1. pc' \in [Path -> [Dir -> Control]]
    BY <1>4, ToTyped DEF Lock, Control
  <2> QED
    BY <1>0, <1>r, <1>4, <2>1 DEF Lock, RestTyped, FormKept
<1>5. CASE Write(p, d)
  <2>1. pc' \in [Path -> [Dir -> Control]]
    BY <1>5, ToTyped DEF Write, Control
  <2>2. pos[p][d] \in DOMAIN Listing[d]
    BY <1>5 DEF Write, Grown, Handling
  <2>3. visit' \in SUBSET File
    BY <1>5, <2>2, ListingTyped DEF Write, Skipped, Kid, RestTyped
  <2> QED
    BY <1>0, <1>r, <1>5, <2>1, <2>3 DEF Write, RestTyped, FormKept
<1>6. CASE Go(p, d)
  <2>1. pc' \in [Path -> [Dir -> Control]] /\ deep' \in [Path -> [Dir -> Nat]]
    <3>1. CASE Descends(p, d)
      <4> DEFINE k == Kid(p, d)
                 row == [[pc[p] EXCEPT ![d] = "send"] EXCEPT ![k] = "read"]
                 levels == [deep[p] EXCEPT ![k] = deep[p][d] + 1]
      <4>1. k \in Dir
        BY <3>1 DEF Descends
      <4>2. row \in [Dir -> Control] /\ levels \in [Dir -> Nat]
        BY <1>0, <4>1 DEF Control
      <4>3. pc' = [pc EXCEPT ![p] = row] /\ deep' = [deep EXCEPT ![p] = levels]
        BY <1>0, <1>6, <3>1 DEF Go
      <4> HIDE DEF row, levels
      <4> QED
        BY <1>0, <4>2, <4>3
    <3>2. CASE ~Descends(p, d)
      BY <1>0, <1>6, <3>2, ToTyped DEF Go, Control
    <3> QED
      BY <3>1, <3>2
  <2> QED
    BY <1>0, <1>r, <1>6, <2>1 DEF Go, RestTyped, FormKept
<1>7. CASE Send(p, d)
  <2>1. pc' \in [Path -> [Dir -> Control]]
    BY <1>7, ToTyped DEF Send, Control
  <2>2. pos' \in [Path -> [Dir -> Nat]]
    BY <1>7, AdvanceTyped DEF Send
  <2> QED
    BY <1>0, <1>r, <1>7, <2>1, <2>2 DEF Send, RestTyped, FormKept
<1>8. CASE Leave(p, d)
  <2>1. pc' \in [Path -> [Dir -> Control]]
    BY <1>8, ToTyped DEF Leave, Finish, Control
  <2> QED
    BY <1>0, <1>r, <1>8, <2>1 DEF Leave, RestTyped, FormKept
<1> QED
  BY <1>1, <1>2, <1>3, <1>4, <1>5, <1>6, <1>7, <1>8 DEF Dft1

----------------------------------------------------------------------------
\* The inductive invariant.
IInv == WalksTyped /\ RestTyped /\ \A p \in Path : WInv(p)

\* It holds at the start.
LEMMA InitIInv == Init => IInv
<1> SUFFICES ASSUME Init PROVE IInv
  OBVIOUS
<1>0. Root \in [Path -> Dir] /\ 1 \in Nat /\ 0 \in Nat /\ NGo \in Nat /\ 0 <= NGo
  BY WalkAssumption DEF WalkAssumption
<1>1. pc \in [Path -> [Dir -> Control]]
  BY <1>0 DEF Init, Control
<1>2. <<>> \in Seq(File) /\ Len(<<>>) = 0
  BY EmptySeq
<1>3. WalksTyped
  BY <1>0, <1>1, <1>2 DEF Init, WalksTyped
<1>4. RestTyped
  BY DEF Init, RestTyped
<1>5. ASSUME NEW p \in Path PROVE WInv(p)
  <2>1. \A d \in Dir : pc[p][d] = (IF d = Root[p] THEN "read" ELSE "unborn") /\ pos[p][d] = 1
    BY <1>5 DEF Init
  <2>2. listch[p] = <<>> /\ printed[p] = <<>> /\ wg[p] = 1 /\ ~closed[p]
    BY <1>5 DEF Init
  <2>3. Grown(p)
    BY <2>1 DEF Grown, Begun, Handling
  <2>4. Members(p) = {Root[p]}
    BY <1>0, <1>5, <2>1 DEF Members
  <2>5. Cardinality({Root[p]}) = 1
    BY FS_Singleton
  <2>6. Counts(p)
    BY <2>2, <2>4, <2>5, Zenon DEF Counts
  <2>7. NoneTwice(pos[p], listch[p], printed[p])
    BY <1>2, <2>2 DEF NoneTwice, Distinct
  <2>8. Printed(p) = {}
    BY <1>2, <2>2 DEF Printed
  <2>9. IsFiniteSet(Printed(p)) /\ Cardinality(Printed(p)) = 0
    BY <2>8, FS_EmptySet, Zenon
  <2>10. Once(p)
    BY <1>2, <2>2, <2>7, <2>9 DEF Once, PrintedOnce
  <2> QED
    BY <2>3, <2>6, <2>10 DEF WInv
<1> QED
  BY <1>3, <1>4, <1>5 DEF IInv

\* Every step keeps it.
LEMMA NextIInv == IInv /\ [Next]_vars => IInv'
<1> SUFFICES ASSUME IInv, [Next]_vars PROVE IInv'
  OBVIOUS
<1>0. WalksTyped /\ RestTyped /\ \A p \in Path : WInv(p) /\ Grown(p) /\ Counts(p) /\ Once(p)
  BY DEF IInv, WInv
<1>1. ASSUME NEW p \in Path, NEW d \in Dir, Dft1(p, d) PROVE IInv'
  <2>0. RestTyped' /\ FormKept
    BY <1>0, <1>1, TypedStep
  <2>1. /\ closed' = closed /\ printed' = printed /\ over' = over
        /\ \A q \in Path : q # p => /\ pc'[q] = pc[q] /\ pos'[q] = pos[q] /\ wg'[q] = wg[q]
                                    /\ listch'[q] = listch[q]
        /\ \/ Dies(p, d) \/ Moves(p, d) \/ Skips(p, d) \/ Starts(p, d) \/ Sends(p, d)
           \/ pc'[p] = pc[p] /\ pos'[p] = pos[p] /\ wg'[p] = wg[p] /\ listch'[p] = listch[p]
    BY <1>0, <1>1, Effects
  <2>2. ASSUME NEW q \in Path, q # p PROVE WInv(q)'
    BY <1>0, <2>1, <2>2, Untouched
  <2>3. ASSUME Dies(p, d) \/ Moves(p, d) \/ Skips(p, d) \/ Starts(p, d) \/ Sends(p, d)
        PROVE  WInv(p)' /\ wg'[p] \in Nat /\ listch'[p] \in Seq(File) /\ Len(listch'[p]) <= NGo
    <3>1. Grown(p)'
      BY <1>0, <2>3, GrownStep
    <3>2. Counts(p)' /\ wg'[p] \in Nat
      BY <1>0, <2>1, <2>3, CountsStep
    <3>3. Once(p)' /\ listch'[p] \in Seq(File) /\ (Len(listch[p]) <= NGo => Len(listch'[p]) <= NGo)
      BY <1>0, <2>1, <2>3, OnceStep
    <3> QED
      BY <1>0, <3>1, <3>2, <3>3 DEF WInv, WalksTyped
  <2>4. ASSUME pc'[p] = pc[p], pos'[p] = pos[p], wg'[p] = wg[p], listch'[p] = listch[p]
        PROVE  WInv(p)' /\ wg'[p] \in Nat /\ listch'[p] \in Seq(File) /\ Len(listch'[p]) <= NGo
    <3>1. WInv(p)'
      BY <1>0, <2>1, <2>4, Untouched
    <3> QED
      BY <1>0, <2>4, <3>1 DEF WalksTyped
  <2>5. WInv(p)' /\ wg'[p] \in Nat /\ listch'[p] \in Seq(File) /\ Len(listch'[p]) <= NGo
    BY <2>1, <2>3, <2>4
  <2>6. \A q \in Path : wg'[q] \in Nat /\ listch'[q] \in Seq(File) /\ Len(listch'[q]) <= NGo
    BY <1>0, <2>1, <2>5 DEF WalksTyped
  <2>7. wg' \in [Path -> Nat] /\ listch' \in [Path -> Seq(File)] /\ \A q \in Path : Len(listch'[q]) <= NGo
    BY <2>0, <2>6 DEF FormKept
  <2>8. WalksTyped'
    BY <1>0, <2>0, <2>1, <2>7 DEF WalksTyped, FormKept
  <2> QED
    BY <2>0, <2>2, <2>5, <2>8 DEF IInv
<1>2. ASSUME NEW p \in Path, Close(p) PROVE IInv'
  <2>1. UNCHANGED <<pc, pos, deep, wg, listch, printed, over, visit, fatal, args>> /\ closed' = [closed EXCEPT ![p] = TRUE]
    BY <1>2 DEF Close, goroutines
  <2>2. WalksTyped' /\ RestTyped'
    BY <1>0, <2>1 DEF WalksTyped, RestTyped
  <2>3. ASSUME NEW q \in Path, q # p PROVE WInv(q)'
    BY <1>0, <2>1, <2>3, Untouched DEF RestTyped
  <2>4. WInv(p)'
    <3>1. Grown(p)'
      BY <1>0, <2>1 DEF Grown, Begun, Passed
    <3>5. Once(p)'
      BY <1>0, <2>1 DEF Once, Printed, PrintedOnce
    <3>2. Members(p) = {}
      <4>1. IsFiniteSet(Members(p)) /\ wg[p] = Cardinality(Members(p)) /\ wg[p] = 0
        BY <1>0, <1>2, MembersFinite DEF Counts, Close
      <4> QED
        BY <4>1, FS_EmptySet
    <3>3. Members(p)' = Members(p)
      BY <2>1 DEF Members
    <3>4. Counts(p)'
      BY <1>0, <2>1, <3>2, <3>3 DEF Counts
    <3> QED
      BY <3>1, <3>4, <3>5 DEF WInv
  <2> QED
    BY <2>2, <2>3, <2>4 DEF IInv
<1>3. ASSUME NEW p \in Path, Show(p) PROVE IInv'
  <2>1. UNCHANGED <<pc, pos, deep, wg, closed, over, visit, fatal, args>>
        /\ listch' = [q \in Path |-> listch'[q]] /\ printed' = [q \in Path |-> printed'[q]]
    BY <1>0, <1>3 DEF Show, goroutines, WalksTyped
  <2>2. /\ Once(p)' /\ listch'[p] \in Seq(File) /\ printed'[p] \in Seq(File)
        /\ Len(listch[p]) <= NGo => Len(listch'[p]) <= NGo
        /\ \A q \in Path : q # p => listch'[q] = listch[q] /\ printed'[q] = printed[q]
    BY <1>0, <1>3, ShowStep
  <2>3. \A q \in Path : listch'[q] \in Seq(File) /\ printed'[q] \in Seq(File) /\ Len(listch'[q]) <= NGo
    BY <1>0, <2>2 DEF WalksTyped
  <2>4. listch' \in [Path -> Seq(File)] /\ printed' \in [Path -> Seq(File)] /\ \A q \in Path : Len(listch'[q]) <= NGo
    BY <2>1, <2>3
  <2>5. WalksTyped' /\ RestTyped'
    BY <1>0, <2>1, <2>4 DEF WalksTyped, RestTyped
  <2>6. ASSUME NEW q \in Path, q # p PROVE WInv(q)'
    BY <1>0, <2>1, <2>2, <2>6, Untouched
  <2>7. Grown(p)'
    BY <1>0, <2>1 DEF Grown, Begun, Passed
  <2>8. Members(p)' = Members(p)
    BY <2>1 DEF Members
  <2>9. Counts(p)'
    BY <1>0, <2>1, <2>8 DEF Counts
  <2> QED
    BY <2>2, <2>5, <2>6, <2>7, <2>9 DEF IInv, WInv
<1>4. ASSUME NEW p \in Path, Return(p) PROVE IInv'
  <2>1. UNCHANGED <<pc, pos, deep, wg, listch, closed, printed, visit, fatal, args>> /\ over' = [over EXCEPT ![p] = TRUE]
    BY <1>4 DEF Return, goroutines
  <2>2. WalksTyped' /\ RestTyped'
    BY <1>0, <2>1 DEF WalksTyped, RestTyped
  <2>3. ASSUME NEW q \in Path PROVE WInv(q)'
    BY <1>0, <2>1, Untouched
  <2> QED
    BY <2>2, <2>3 DEF IInv
<1>5. CASE UNCHANGED vars
  <2>1. UNCHANGED <<pc, pos, deep, wg, listch, closed, printed, over, visit, fatal, args>>
    BY <1>5 DEF vars, goroutines
  <2>2. WalksTyped' /\ RestTyped'
    BY <1>0, <2>1 DEF WalksTyped, RestTyped
  <2>3. ASSUME NEW q \in Path PROVE WInv(q)'
    BY <1>0, <2>1, Untouched
  <2> QED
    BY <2>2, <2>3 DEF IInv
<1> QED
  BY <1>1, <1>2, <1>3, <1>4, <1>5 DEF Next

\* The inductive invariant holds in every state.
THEOREM Invariance == Spec => []IInv
<1> QED
  BY InitIInv, NextIInv, PTL DEF Spec

\* The variables keep their types, each wg counts the goroutines of its walk, listch is
\* closed when they have all finished, and no walk prints a name twice, with and without
\* -m (walk.go:196-228).
THEOREM WalkSound == Spec => []WalkInv
<1>1. IInv => WalkInv
  <2> SUFFICES ASSUME IInv PROVE WalkInv
    OBVIOUS
  <2>1. TypeOK
    BY DEF IInv, WalksTyped, RestTyped, TypeOK
  <2>2. ClosedAfterLastSend /\ \A p \in Path : PrintedOnce(p)
    BY DEF IInv, WInv, Counts, Once, ClosedAfterLastSend
  <2> QED
    BY <2>1, <2>2 DEF WalkInv
<1> QED
  BY <1>1, Invariance, PTL

----------------------------------------------------------------------------
\* A set of numbers that has 0 and every successor has them all.
LEMMA AllNat ==
  ASSUME NEW T \in SUBSET Nat, 0 \in T, \A n \in T : n + 1 \in T
  PROVE  T = Nat
<1> SUFFICES ASSUME T # Nat PROVE FALSE
  OBVIOUS
<1> DEFINE U == Nat \ T
<1>1. U # {} /\ U \subseteq Nat
  OBVIOUS
<1>2. \E x \in U : \A y \in U : ~ (<<y, x>> \in OpToRel(<, Nat))
  <2> HIDE DEF U
  <2> QED
    BY <1>1, NatLessThanWellFounded, WFMin
<1>3. PICK x \in U : \A y \in U : ~ (<<y, x>> \in OpToRel(<, Nat))
  BY <1>2
<1>4. \A y \in U : ~ (y < x)
  <2> SUFFICES ASSUME NEW y \in U, y < x PROVE FALSE
    OBVIOUS
  <2>1. <<y, x>> \in Nat \X Nat
    OBVIOUS
  <2>2. <<y, x>> \in OpToRel(<, Nat)
    BY <2>1 DEF OpToRel
  <2> QED
    BY <1>3, <2>2
<1>5. x # 0 /\ x - 1 \in Nat /\ x - 1 < x /\ x \in Nat
  OBVIOUS
<1>6. x - 1 \in T
  BY <1>4, <1>5
<1>7. (x - 1) + 1 \in T
  BY <1>6
<1> QED
  BY <1>5, <1>7

\* Row k of Below, from the rows f.
BelowRow(f, k) == [p \in Path |-> IF k = 0 THEN {Root[p]} ELSE UNION {Names(d) \cap Dir : d \in f[k - 1][p]}]

\* The recursive definition of Below has a solution, so its rows are what it says.
LEMMA BelowRows ==
  \A k \in 0..Cardinality(Dir) : Below[k] = BelowRow(Below, k)
<1> DEFINE N == Cardinality(Dir)
           T == {n \in Nat : \E f : f = [k \in 0..n |-> BelowRow(f, k)]}
<1>0. N \in Nat
  BY WalkAssumption, FS_CardinalityType DEF WalkAssumption
<1>1. 0 \in T
  <2> DEFINE f == [k \in 0..0 |-> [p \in Path |-> {Root[p]}]]
  <2>1. f = [k \in 0..0 |-> BelowRow(f, k)]
    BY DEF BelowRow
  <2> QED
    BY <2>1
<1>2. ASSUME NEW n \in T PROVE n + 1 \in T
  <2>1. PICK f : f = [k \in 0..n |-> BelowRow(f, k)]
    OBVIOUS
  <2> DEFINE g == [k \in 0..(n + 1) |-> BelowRow(f, k)]
  <2>2. \A k \in 0..n : g[k] = f[k]
    BY <2>1
  <2>3. ASSUME NEW k \in 0..(n + 1) PROVE BelowRow(f, k) = BelowRow(g, k)
    <3>1. CASE k = 0
      BY <3>1 DEF BelowRow
    <3>2. CASE k # 0
      <4>1. k - 1 \in 0..n
        BY <3>2
      <4>2. g[k - 1] = f[k - 1]
        BY <4>1, <2>2
      <4> HIDE DEF g
      <4> QED
        BY <3>2, <4>2 DEF BelowRow
    <3> QED
      BY <3>1, <3>2
  <2>4. g = [k \in 0..(n + 1) |-> BelowRow(g, k)]
    BY <2>3
  <2>5. \E h : h = [k \in 0..(n + 1) |-> BelowRow(h, k)]
    <3> HIDE DEF g
    <3> QED
      BY <2>4
  <2> QED
    BY <2>5
<1>3. T = Nat
  <2>1. T \in SUBSET Nat
    OBVIOUS
  <2> HIDE DEF T
  <2> QED
    BY <1>1, <1>2, <2>1, AllNat
<1>4. \E f : f = [k \in 0..N |-> BelowRow(f, k)]
  BY <1>0, <1>3
<1>5. Below = [k \in 0..N |-> BelowRow(Below, k)]
  BY <1>4 DEF Below, BelowRow
<1> QED
  BY <1>5

----------------------------------------------------------------------------
\* What it takes for a walk to be complete: nothing that a goroutine goes past is lost.
Born(p, d) == pc[p][d] # "unborn"
\* The name is printed or on its way.
Given(p, f) == f \in Printed(p) \cup {listch[p][k] : k \in 1..Len(listch[p])}
\* A directory f in d has its goroutine, if the limit allows one.
Reached(p, d, f) ==
    f \in Dir /\ deep[p][d] < args.t => Born(p, f) /\ deep[p][f] = deep[p][d] + 1
\* A goroutine does not end before it has gone past its whole listing.
ReadOut(p) ==
    \A d \in Dir : /\ pc[p][d] \in {"unborn", "read"} => pos[p][d] = 1
                   /\ d \in Unreadable => pc[p][d] \in {"unborn", "read", "dead"} /\ pos[p][d] = 1
                   /\ pc[p][d] = "dead" /\ d \notin Unreadable => pos[p][d] > Len(Listing[d])
                   /\ pc[p][d] \in {"lock", "write"} => args.m
\* A goroutine works one level below the one that started it, so not deeper than the
\* directories with shorter paths are many.
Shallower(e) == {c \in Dir : Depth[c] < Depth[e]}
Parent(p, d, e) ==
    Born(p, d) /\ e \in Names(d) /\ deep[p][d] < args.t /\ deep[p][e] = deep[p][d] + 1
Levels(p) ==
    /\ Born(p, Root[p]) /\ deep[p][Root[p]] = 0
    /\ \A e \in Dir : Born(p, e) => /\ deep[p][e] <= Cardinality(Shallower(e))
                                    /\ e # Root[p] => \E d \in Dir : Parent(p, d, e)
\* What is behind an index was passed on, or left out as visited.
PassedOn(p) ==
    \A d \in Dir : \A i \in DOMAIN Listing[d] :
        /\ i < pos[p][d] => \/ Given(p, Listing[d][i]) /\ Reached(p, d, Listing[d][i])
                            \/ args.m /\ Listing[d][i] \in visit
        /\ i = pos[p][d] /\ pc[p][d] = "send" => Reached(p, d, Listing[d][i])
OverRight(p) == over[p] => closed[p] /\ listch[p] = <<>>
\* Every name in visit was marked by a walk that passes it on.
Takes(q, f) ==
    \E d \in Dir : \E i \in DOMAIN Listing[d] :
        /\ Listing[d][i] = f
        /\ \/ i < pos[q][d] /\ Given(q, f) /\ Reached(q, d, f)
           \/ i = pos[q][d] /\ pc[q][d] \in {"go", "send"}
Marked == \A f \in visit : args.m /\ \E q \in Path : Takes(q, f)

\* The invariant, inductive with IInv.
CInv == Marked /\ \A p \in Path : ReadOut(p) /\ Levels(p) /\ PassedOn(p) /\ OverRight(p)

\* The steps of a goroutine in detail.
Enters(p, d) ==
    /\ pc[p][d] = "read" /\ d \notin Unreadable /\ pc'[p] = [pc[p] EXCEPT ![d] = "next"]
    /\ pos'[p] = pos[p] /\ listch'[p] = listch[p] /\ deep'[p] = deep[p]
Ends(p, d) ==
    /\ \/ pc[p][d] = "read" /\ d \in Unreadable
       \/ pc[p][d] = "next" /\ pos[p][d] > Len(Listing[d])
    /\ pc'[p] = [pc[p] EXCEPT ![d] = "dead"]
    /\ pos'[p] = pos[p] /\ listch'[p] = listch[p] /\ deep'[p] = deep[p]
Forgoes(p, d) ==
    /\ args.m /\ pc[p][d] = "next" /\ Kid(p, d) \in visit /\ pos[p][d] \in DOMAIN Listing[d]
    /\ pos'[p] = [pos[p] EXCEPT ![d] = pos[p][d] + 1]
    /\ pc'[p] = pc[p] /\ listch'[p] = listch[p] /\ deep'[p] = deep[p]
Works(p, d) ==
    /\ pc[p][d] \in {"next", "lock", "write"}
    /\ \E s \in {"lock", "write", "go"} : pc'[p] = [pc[p] EXCEPT ![d] = s] /\ (s # "go" => args.m)
    /\ pos'[p] = pos[p] /\ listch'[p] = listch[p] /\ deep'[p] = deep[p]
Declines(p, d) ==
    /\ pc[p][d] = "go" /\ ~Descends(p, d) /\ pc'[p] = [pc[p] EXCEPT ![d] = "send"]
    /\ pos'[p] = pos[p] /\ listch'[p] = listch[p] /\ deep'[p] = deep[p]
Descents(p, d) ==
    /\ pc[p][d] = "go" /\ Descends(p, d)
    /\ pc'[p] = [pc[p] EXCEPT ![d] = "send", ![Kid(p, d)] = "read"]
    /\ deep'[p] = [deep[p] EXCEPT ![Kid(p, d)] = deep[p][d] + 1]
    /\ pos'[p] = pos[p] /\ listch'[p] = listch[p]
Hands(p, d) ==
    /\ pc[p][d] = "send" /\ pc'[p] = [pc[p] EXCEPT ![d] = "next"]
    /\ pos'[p] = [pos[p] EXCEPT ![d] = pos[p][d] + 1]
    /\ listch'[p] = Append(listch[p], Kid(p, d)) /\ deep'[p] = deep[p]
Same(p) == pc'[p] = pc[p] /\ pos'[p] = pos[p] /\ deep'[p] = deep[p] /\ listch'[p] = listch[p]
Acts(p, d) ==
    \/ Enters(p, d) \/ Ends(p, d) \/ Forgoes(p, d) \/ Works(p, d)
    \/ Declines(p, d) \/ Descents(p, d) \/ Hands(p, d)

\* What a goroutine that marks a name does.
Marks(p, d) ==
    /\ args.m /\ visit' = visit \cup {Kid(p, d)} /\ pos[p][d] \in DOMAIN Listing[d]
    /\ pos'[p] = pos[p] /\ pc'[p] = [pc[p] EXCEPT ![d] = "go"]

\* A step of a goroutine is one of these to its own walk and nothing to the others.
LEMMA Details ==
  ASSUME WalksTyped, NEW p \in Path, NEW d \in Dir, Grown(p), ReadOut(p), Dft1(p, d)
  PROVE  /\ Acts(p, d) \/ Same(p)
         /\ \A q \in Path : q # p => Same(q)
         /\ visit' = visit \/ Marks(p, d)
<1>0. /\ pc[p] \in [Dir -> Control] /\ pos[p] \in [Dir -> Nat] /\ deep[p] \in [Dir -> Nat]
      /\ DOMAIN Listing[d] = 1..Len(Listing[d]) /\ Len(Listing[d]) \in Nat /\ pos[p][d] >= 1 /\ pos[p][d] \in Nat
  BY ListingTyped DEF WalksTyped, Grown
<1>2. ASSUME NEW c, To(p, d, c)
      PROVE  pc'[p] = [pc[p] EXCEPT ![d] = c] /\ \A q \in Path : q # p => pc'[q] = pc[q]
  BY <1>2 DEF To, WalksTyped
<1>3. ASSUME Advance(p, d)
      PROVE  pos'[p] = [pos[p] EXCEPT ![d] = pos[p][d] + 1] /\ \A q \in Path : q # p => pos'[q] = pos[q]
  BY <1>3 DEF Advance, WalksTyped
<1>4. pc[p][d] \in {"lock", "write"} => args.m
  BY DEF ReadOut
<1>5. CASE ReadDir(p, d)
  <2>1. UNCHANGED <<pos, deep, listch, visit>> /\ pc[p][d] = "read"
    BY <1>5 DEF ReadDir
  <2>2. CASE d \in Unreadable
    <3>1. To(p, d, "dead")
      BY <1>5, <2>2 DEF ReadDir, Finish
    <3> QED
      BY <1>2, <2>1, <2>2, <3>1 DEF Acts, Ends, Same
  <2>3. CASE d \notin Unreadable
    <3>1. To(p, d, "next")
      BY <1>5, <2>3 DEF ReadDir
    <3> QED
      BY <1>2, <2>1, <2>3, <3>1 DEF Acts, Enters, Same
  <2> QED
    BY <2>2, <2>3
<1>6. CASE Ask(p, d)
  <2>1. pc[p][d] = "next" /\ pos[p][d] \in DOMAIN Listing[d] /\ UNCHANGED <<deep, listch, visit>>
    BY <1>0, <1>6 DEF Ask
  <2>2. CASE args.m /\ Kid(p, d) \in visit /\ Advance(p, d) /\ UNCHANGED pc
    BY <1>3, <2>1, <2>2 DEF Acts, Forgoes, Same
  <2>3. CASE (To(p, d, "go") \/ (To(p, d, "lock") /\ args.m)) /\ UNCHANGED pos
    <3>1. Works(p, d)
      BY <1>2, <1>6, <2>1, <2>3 DEF Works, Ask
    <3> QED
      BY <1>2, <2>1, <2>3, <3>1 DEF Acts, Same
  <2>4. CASE args.m
    <3>1. (Advance(p, d) /\ UNCHANGED pc /\ Kid(p, d) \in visit) \/ (To(p, d, "lock") /\ UNCHANGED pos)
      BY <1>6, <2>4, Zenon DEF Ask
    <3> QED
      BY <2>2, <2>3, <2>4, <3>1, Zenon
  <2>5. CASE ~args.m
    <3>1. To(p, d, "go") /\ UNCHANGED pos
      BY <1>6, <2>5, Zenon DEF Ask
    <3> QED
      BY <2>3, <3>1, Zenon
  <2> QED
    BY <2>4, <2>5, Zenon
<1>7. CASE AskDuringWrite(p, d)
  BY <1>7 DEF AskDuringWrite, goroutines, Same
<1>8. CASE Lock(p, d)
  <2>1. pc[p][d] = "lock" /\ To(p, d, "write") /\ UNCHANGED <<pos, deep, listch, visit>>
    BY <1>8 DEF Lock
  <2>2. Works(p, d)
    BY <1>2, <1>4, <2>1 DEF Works
  <2> QED
    BY <1>2, <2>1, <2>2 DEF Acts, Same
<1>9. CASE Write(p, d)
  <2>1. /\ pc[p][d] = "write" /\ To(p, d, "go") /\ UNCHANGED <<pos, deep, listch>>
        /\ visit' = visit \cup {Kid(p, d)}
    BY <1>9 DEF Write, Skipped
  <2>2. Works(p, d)
    BY <1>2, <2>1 DEF Works
  <2>3. pos[p][d] \in DOMAIN Listing[d]
    BY <2>1 DEF Grown, Handling
  <2>4. Marks(p, d)
    BY <1>2, <1>4, <2>1, <2>3 DEF Marks
  <2> QED
    BY <1>2, <2>1, <2>2, <2>4 DEF Acts, Same
<1>10. CASE Go(p, d)
  <2>1. pos[p][d] \in DOMAIN Listing[d] /\ pc[p][d] = "go" /\ pos' = pos /\ listch' = listch /\ visit' = visit
    BY <1>10 DEF Go, Grown, Handling
  <2>2. CASE Descends(p, d)
    <3>1. Kid(p, d) \in Dir
      BY <2>2 DEF Descends
    <3>2. /\ pc' = [pc EXCEPT ![p][d] = "send", ![p][Kid(p, d)] = "read"]
          /\ deep' = [deep EXCEPT ![p][Kid(p, d)] = deep[p][d] + 1]
      BY <1>10, <2>2 DEF Go
    <3>3. pc'[p] = [pc[p] EXCEPT ![d] = "send", ![Kid(p, d)] = "read"] /\ \A q \in Path : q # p => pc'[q] = pc[q]
      BY <3>2 DEF WalksTyped
    <3>4. deep'[p] = [deep[p] EXCEPT ![Kid(p, d)] = deep[p][d] + 1] /\ \A q \in Path : q # p => deep'[q] = deep[q]
      BY <3>2 DEF WalksTyped
    <3> QED
      BY <2>1, <2>2, <3>3, <3>4 DEF Acts, Descents, Same
  <2>3. CASE ~Descends(p, d)
    <3>1. To(p, d, "send") /\ UNCHANGED deep
      BY <1>10, <2>3 DEF Go
    <3> QED
      BY <1>2, <2>1, <2>3, <3>1 DEF Acts, Declines, Same
  <2> QED
    BY <2>2, <2>3
<1>11. CASE Send(p, d)
  <2>1. listch'[p] = Append(listch[p], Kid(p, d)) /\ \A q \in Path : q # p => listch'[q] = listch[q]
    BY <1>11 DEF Send, WalksTyped
  <2>2. pc[p][d] = "send" /\ To(p, d, "next") /\ Advance(p, d) /\ UNCHANGED <<deep, visit>>
    BY <1>11 DEF Send
  <2> QED
    BY <1>2, <1>3, <2>1, <2>2 DEF Acts, Hands, Same
<1>12. CASE Leave(p, d)
  <2>1. UNCHANGED <<pos, deep, listch, visit>> /\ pc[p][d] = "next" /\ pos[p][d] > Len(Listing[d]) /\ To(p, d, "dead")
    BY <1>12 DEF Leave, Finish
  <2> QED
    BY <1>2, <2>1 DEF Acts, Ends, Same
<1> QED
  BY <1>5, <1>6, <1>7, <1>8, <1>9, <1>10, <1>11, <1>12 DEF Dft1

----------------------------------------------------------------------------
\* What a goroutine's step leaves in its walk.
Keeps(p, d) ==
    /\ \A e \in Dir : Born(p, e) => Born(p, e)' /\ deep'[p][e] = deep[p][e]
    /\ \A f : Given(p, f) => Given(p, f)'
    /\ \A e \in Dir : pos[p][e] <= pos'[p][e] /\ (e # d => pos'[p][e] = pos[p][e])

\* It takes nothing back.
LEMMA KeepsAll ==
  ASSUME WalksTyped, NEW p \in Path, NEW d \in Dir, Grown(p), Acts(p, d), printed' = printed
  PROVE  Keeps(p, d)
<1>0. /\ pc[p] \in [Dir -> Control] /\ pos[p] \in [Dir -> Nat] /\ deep[p] \in [Dir -> Nat]
      /\ listch[p] \in Seq(File)
  BY DEF WalksTyped
<1>1. \A e \in Dir : Born(p, e) => Born(p, e)' /\ deep'[p][e] = deep[p][e]
  <2>1. CASE Descents(p, d)
    <3>1. Kid(p, d) \in Dir /\ pc[p][d] = "go"
      BY <2>1 DEF Descents, Descends
    <3>2. pc[p][Kid(p, d)] = "unborn"
      BY <3>1, KidUnborn
    <3> QED
      BY <1>0, <2>1, <3>2 DEF Descents, Born
  <2>2. CASE ~Descents(p, d)
    BY <1>0, <2>2 DEF Acts, Enters, Ends, Forgoes, Works, Declines, Hands, Born
  <2> QED
    BY <2>1, <2>2
<1>2. \A f : Given(p, f) => Given(p, f)'
  <2>1. Printed(p)' = Printed(p)
    BY DEF Printed
  <2>2. CASE listch'[p] = listch[p]
    BY <2>1, <2>2 DEF Given
  <2>3. CASE listch'[p] = Append(listch[p], Kid(p, d)) /\ Hands(p, d)
    <3>1. pos[p][d] \in DOMAIN Listing[d]
      BY <2>3 DEF Hands, Grown, Handling
    <3>2. Kid(p, d) \in File
      BY <3>1, ListingTyped DEF Kid
    <3>3. /\ Len(listch[p]) \in Nat /\ Len(listch'[p]) = Len(listch[p]) + 1
          /\ \A k \in 1..Len(listch[p]) : listch'[p][k] = listch[p][k]
      BY <1>0, <2>3, <3>2, LenProperties, AppendProperties
    <3> QED
      BY <2>1, <3>3 DEF Given
  <2> QED
    BY <2>2, <2>3 DEF Acts, Enters, Ends, Forgoes, Works, Declines, Descents, Hands
<1>3. \A e \in Dir : pos[p][e] <= pos'[p][e] /\ (e # d => pos'[p][e] = pos[p][e])
  BY <1>0, SMTT(60) DEF Acts, Enters, Ends, Forgoes, Works, Declines, Descents, Hands
<1> QED
  BY <1>1, <1>2, <1>3 DEF Keeps

\* What has been reached stays reached.
LEMMA StaysReached ==
  ASSUME NEW p \in Path, NEW d \in Dir, NEW f, Reached(p, d, f), Born(p, d), args' = args,
         \A e \in Dir : Born(p, e) => Born(p, e)' /\ deep'[p][e] = deep[p][e]
  PROVE  Reached(p, d, f)'
BY DEF Reached

\* Listings are read to their ends.
LEMMA ReadOutStep ==
  ASSUME WalksTyped, NEW p \in Path, NEW d \in Dir, Grown(p), ReadOut(p), Acts(p, d), args' = args
  PROVE  ReadOut(p)'
<1>0. /\ pc[p] \in [Dir -> Control] /\ pos[p] \in [Dir -> Nat]
  BY DEF WalksTyped
<1> DEFINE Fits(row, at, e) ==
       /\ row \in {"unborn", "read"} => at = 1
       /\ e \in Unreadable => row \in {"unborn", "read", "dead"} /\ at = 1
       /\ row = "dead" /\ e \notin Unreadable => at > Len(Listing[e])
       /\ row \in {"lock", "write"} => args.m
<1>1. \A e \in Dir : Fits(pc[p][e], pos[p][e], e)
  BY DEF ReadOut
<1>2. ASSUME NEW e \in Dir PROVE Fits(pc'[p][e], pos'[p][e], e)
  <2>1. CASE pc'[p][e] = pc[p][e] /\ pos'[p][e] = pos[p][e]
    BY <1>1, <2>1
  <2>2. CASE e = d
    <3>1. CASE Descents(p, d)
      <4>1. Kid(p, d) \in Dir /\ pc[p][d] = "go"
        BY <3>1 DEF Descents, Descends
      <4>2. Kid(p, d) # d
        BY <4>1, KidUnborn
      <4>3. pc'[p][d] = "send" /\ pos'[p][d] = pos[p][d]
        BY <1>0, <3>1, <4>2 DEF Descents
      <4> QED
        BY <1>1, <2>2, <4>1, <4>3
    <3>2. CASE Enters(p, d)
      BY <1>0, <1>1, <2>2, <3>2 DEF Enters
    <3>3. CASE Ends(p, d)
      BY <1>0, <1>1, <2>2, <3>3 DEF Ends
    <3>4. CASE Forgoes(p, d)
      BY <1>0, <1>1, <2>2, <3>4 DEF Forgoes
    <3>5. CASE Works(p, d)
      BY <1>0, <1>1, <2>2, <3>5 DEF Works
    <3>6. CASE Declines(p, d)
      BY <1>0, <1>1, <2>2, <3>6 DEF Declines
    <3>7. CASE Hands(p, d)
      BY <1>0, <1>1, <2>2, <3>7 DEF Hands
    <3> QED
      BY <3>1, <3>2, <3>3, <3>4, <3>5, <3>6, <3>7 DEF Acts
  <2>3. CASE Descents(p, d) /\ e = Kid(p, d)
    <3>1. pc[p][d] = "go"
      BY <2>3 DEF Descents
    <3>2. pc[p][e] = "unborn" /\ e # d
      BY <2>3, <3>1, KidUnborn
    <3>3. pc'[p][e] = "read" /\ pos'[p][e] = pos[p][e]
      BY <1>0, <2>3 DEF Descents
    <3> QED
      BY <1>1, <3>2, <3>3
  <2>4. CASE e # d /\ ~(Descents(p, d) /\ e = Kid(p, d))
    <3>1. pc'[p][e] = pc[p][e] /\ pos'[p][e] = pos[p][e]
      BY <1>0, <2>4 DEF Acts, Enters, Ends, Forgoes, Works, Declines, Descents, Hands
    <3> QED
      BY <2>1, <3>1
  <2> QED
    BY <2>2, <2>3, <2>4
<1> QED
  BY <1>2 DEF ReadOut

\* A kid has one directory more above it.
LEMMA OneMoreAbove ==
  ASSUME NEW d \in Dir, NEW e \in Dir, Depth[d] < Depth[e]
  PROVE  /\ Cardinality(Shallower(d)) \in Nat /\ Cardinality(Shallower(e)) \in Nat
         /\ Cardinality(Shallower(d)) + 1 <= Cardinality(Shallower(e))
         /\ Cardinality(Shallower(e)) < Cardinality(Dir) /\ Cardinality(Dir) \in Nat
<1>0. IsFiniteSet(Dir) /\ \A c \in Dir : Depth[c] \in Nat
  BY WalkAssumption DEF WalkAssumption
<1>1. /\ Shallower(d) \subseteq Dir /\ Shallower(e) \subseteq Dir
      /\ Shallower(d) \cup {d} \subseteq Shallower(e) /\ d \notin Shallower(d)
      /\ Shallower(e) \cup {e} \subseteq Dir /\ e \notin Shallower(e)
  BY <1>0 DEF Shallower
<1>2. IsFiniteSet(Shallower(d)) /\ IsFiniteSet(Shallower(e))
  BY <1>0, <1>1, FS_Subset
<1>3. /\ Cardinality(Shallower(d) \cup {d}) = Cardinality(Shallower(d)) + 1
      /\ Cardinality(Shallower(e) \cup {e}) = Cardinality(Shallower(e)) + 1
  BY <1>1, <1>2, FS_AddElement
<1>4. /\ Cardinality(Shallower(d) \cup {d}) <= Cardinality(Shallower(e))
      /\ Cardinality(Shallower(e) \cup {e}) <= Cardinality(Dir)
  BY <1>0, <1>1, <1>2, FS_Subset
<1>5. Cardinality(Shallower(d)) \in Nat /\ Cardinality(Shallower(e)) \in Nat /\ Cardinality(Dir) \in Nat
  BY <1>0, <1>2, FS_CardinalityType
<1> QED
  BY <1>3, <1>4, <1>5

\* A directory is entered one level below its parent.
LEMMA LevelsStep ==
  ASSUME WalksTyped, NEW p \in Path, NEW d \in Dir, Grown(p), ReadOut(p), Levels(p), Acts(p, d),
         args' = args, Keeps(p, d)
  PROVE  Levels(p)'
<1>0. /\ pc[p] \in [Dir -> Control] /\ pos[p] \in [Dir -> Nat] /\ deep[p] \in [Dir -> Nat]
      /\ Root[p] \in Dir
  BY WalkAssumption DEF WalksTyped, WalkAssumption
<1>1. Born(p, Root[p])' /\ deep'[p][Root[p]] = 0
  BY <1>0 DEF Levels, Keeps
<1>2. ASSUME NEW c \in Dir, NEW e \in Dir, Born(p, e), Parent(p, c, e) PROVE Parent(p, c, e)'
  BY <1>2 DEF Parent, Keeps
<1>3. ASSUME NEW e \in Dir, Born(p, e)
      PROVE  deep'[p][e] <= Cardinality(Shallower(e)) /\ (e # Root[p] => \E c \in Dir : Parent(p, c, e)')
  BY <1>2, <1>3 DEF Levels, Keeps
<1>4. ASSUME NEW e \in Dir, ~Born(p, e), Born(p, e)'
      PROVE  deep'[p][e] <= Cardinality(Shallower(e)) /\ \E c \in Dir : Parent(p, c, e)'
  <2>1. Descents(p, d) /\ e = Kid(p, d)
    BY <1>0, <1>4 DEF Acts, Enters, Ends, Forgoes, Works, Declines, Descents, Hands, Born
  <2>2. /\ pc[p][d] = "go" /\ deep[p][d] < args.t /\ deep'[p][e] = deep[p][d] + 1
        /\ pos[p][d] \in DOMAIN Listing[d]
    BY <1>0, <2>1 DEF Descents, Descends, Grown, Handling
  <2>3. d \notin Unreadable
    BY <2>2 DEF ReadOut
  <2>4. e \in Names(d)
    BY <2>1, <2>2, <2>3, ListingTyped DEF Names, Kid
  <2>5. Born(p, d)
    BY <2>2 DEF Born
  <2>6. Parent(p, d, e)'
    BY <2>2, <2>4, <2>5 DEF Parent, Keeps
  <2>7. Depth[d] < Depth[e]
    BY <2>1, <2>2, WalkAssumption DEF WalkAssumption, Kid
  <2>8. deep[p][d] <= Cardinality(Shallower(d)) /\ deep[p][d] \in Nat
    BY <1>0, <2>5 DEF Levels
  <2> QED
    BY <2>2, <2>6, <2>7, <2>8, OneMoreAbove
<1> QED
  BY <1>1, <1>3, <1>4 DEF Levels, Shallower

\* A goroutine goes past a name when it has passed it on.
LEMMA PassedOnStep ==
  ASSUME WalksTyped, NEW p \in Path, NEW d \in Dir, Grown(p), ReadOut(p), PassedOn(p), Acts(p, d),
         Keeps(p, d), args' = args, visit \subseteq visit'
  PROVE  PassedOn(p)'
<1>0. /\ pc[p] \in [Dir -> Control] /\ pos[p] \in [Dir -> Nat] /\ deep[p] \in [Dir -> Nat]
      /\ listch[p] \in Seq(File)
  BY DEF WalksTyped
<1> SUFFICES ASSUME NEW c \in Dir, NEW i \in DOMAIN Listing[c]
             PROVE  /\ i < pos'[p][c] => \/ Given(p, Listing[c][i])' /\ Reached(p, c, Listing[c][i])'
                                         \/ args.m /\ Listing[c][i] \in visit'
                    /\ i = pos'[p][c] /\ pc'[p][c] = "send" => Reached(p, c, Listing[c][i])'
  BY DEF PassedOn
<1> DEFINE f == Listing[c][i]
<1>i. i \in Nat /\ i >= 1
  BY ListingTyped
<1>k. ASSUME Born(p, c), Reached(p, c, f) PROVE Reached(p, c, f)'
  BY <1>k, StaysReached DEF Keeps
<1>1. ASSUME i < pos[p][c] PROVE (Given(p, f)' /\ Reached(p, c, f)') \/ (args.m /\ f \in visit')
  <2>1. Born(p, c)
    BY <1>0, <1>i, <1>1 DEF ReadOut, Born
  <2>2. (Given(p, f) /\ Reached(p, c, f)) \/ (args.m /\ f \in visit)
    BY <1>1 DEF PassedOn
  <2>3. Given(p, f) => Given(p, f)'
    BY DEF Keeps
  <2> HIDE DEF f
  <2> QED
    BY <1>k, <2>1, <2>2, <2>3
<1>2. ASSUME i < pos'[p][c], ~(i < pos[p][c]) PROVE (Given(p, f)' /\ Reached(p, c, f)') \/ (args.m /\ f \in visit')
  <2>1. (Forgoes(p, d) \/ Hands(p, d)) /\ c = d /\ i = pos[p][d]
    BY <1>0, <1>i, <1>2 DEF Acts, Enters, Ends, Forgoes, Works, Declines, Descents, Hands
  <2>2. f = Kid(p, d)
    BY <2>1 DEF Kid
  <2>3. CASE Forgoes(p, d)
    BY <2>2, <2>3 DEF Forgoes
  <2>4. CASE Hands(p, d)
    <3>1. pc[p][c] = "send" /\ Born(p, c)
      BY <2>1, <2>4 DEF Hands, Born
    <3>2. Reached(p, c, f)
      BY <2>1, <3>1 DEF PassedOn
    <3>3. f \in File
      BY ListingTyped
    <3>4. /\ listch'[p] = Append(listch[p], f)
      BY <2>2, <2>4 DEF Hands
    <3>5. Len(listch[p]) \in Nat /\ Len(listch'[p]) = Len(listch[p]) + 1 /\ listch'[p][Len(listch[p]) + 1] = f
      BY <1>0, <3>3, <3>4, LenProperties, AppendProperties
    <3>6. Given(p, f)'
      BY <3>5 DEF Given
    <3> QED
      BY <1>k, <3>1, <3>2, <3>6
  <2> QED
    BY <2>1, <2>3, <2>4
<1>3. ASSUME i = pos'[p][c], pc'[p][c] = "send", pc[p][c] = "send" PROVE Reached(p, c, f)'
  <2>1. pos'[p][c] = pos[p][c]
    <3>1. CASE c = d
      BY <1>0, <1>3, <3>1 DEF Acts, Enters, Ends, Forgoes, Works, Declines, Descents, Hands
    <3>2. CASE c # d
      BY <3>2 DEF Keeps
    <3> QED
      BY <3>1, <3>2
  <2>2. Reached(p, c, f) /\ Born(p, c)
    BY <1>3, <2>1 DEF PassedOn, Born
  <2> QED
    BY <1>k, <2>2
<1>4. ASSUME i = pos'[p][c], pc'[p][c] = "send", pc[p][c] # "send" PROVE Reached(p, c, f)'
  <2>1. (Declines(p, d) \/ Descents(p, d)) /\ c = d
    BY <1>0, <1>4 DEF Acts, Enters, Ends, Forgoes, Works, Declines, Descents, Hands
  <2>2. f = Kid(p, d) /\ Born(p, d) /\ deep'[p][d] = deep[p][d] /\ pc[p][d] = "go"
    BY <1>4, <2>1 DEF Kid, Declines, Descents, Born, Keeps
  <2>3. CASE Declines(p, d)
    BY <2>1, <2>2, <2>3 DEF Declines, Descends, Reached
  <2>4. CASE Descents(p, d)
    <3>1. f \in Dir /\ f # d
      BY <2>2, <2>4, KidUnborn DEF Descents, Descends
    <3>2. pc'[p][f] = "read" /\ deep'[p][f] = deep[p][d] + 1
      BY <1>0, <2>2, <2>4, <3>1 DEF Descents
    <3> QED
      BY <2>1, <2>2, <3>2 DEF Reached, Born
  <2> QED
    BY <2>1, <2>3, <2>4
<1> QED
  BY <1>1, <1>2, <1>3, <1>4

\* A walk whose goroutines a step does not move.
LEMMA StandsStill ==
  ASSUME NEW p \in Path, ReadOut(p), Levels(p), PassedOn(p), args' = args, visit \subseteq visit',
         pc'[p] = pc[p], pos'[p] = pos[p], deep'[p] = deep[p], \A f : Given(p, f) => Given(p, f)'
  PROVE  ReadOut(p)' /\ Levels(p)' /\ PassedOn(p)'
<1>1. ReadOut(p)'
  BY DEF ReadOut
<1>2. Levels(p)'
  BY DEF Levels, Parent, Born, Shallower
<1>3. \A d \in Dir : \A f : Reached(p, d, f) => Reached(p, d, f)'
  BY DEF Reached, Born
<1>4. PassedOn(p)'
  BY <1>3 DEF PassedOn
<1> QED
  BY <1>1, <1>2, <1>4

\* The walk that has taken a name to itself does not lose it.
LEMMA StaysTaken ==
  ASSUME WalksTyped, NEW p \in Path, NEW d \in Dir, Grown(p), ReadOut(p), PassedOn(p), Acts(p, d),
         Keeps(p, d), args' = args, NEW f, Takes(p, f)
  PROVE  Takes(p, f)'
<1>0. /\ pc[p] \in [Dir -> Control] /\ pos[p] \in [Dir -> Nat] /\ deep[p] \in [Dir -> Nat]
      /\ listch[p] \in Seq(File)
  BY DEF WalksTyped
<1>1. PICK c \in Dir : \E i \in DOMAIN Listing[c] :
        /\ Listing[c][i] = f
        /\ \/ i < pos[p][c] /\ Given(p, f) /\ Reached(p, c, f)
           \/ i = pos[p][c] /\ pc[p][c] \in {"go", "send"}
  BY DEF Takes
<1>2. PICK i \in DOMAIN Listing[c] :
        /\ Listing[c][i] = f
        /\ \/ i < pos[p][c] /\ Given(p, f) /\ Reached(p, c, f)
           \/ i = pos[p][c] /\ pc[p][c] \in {"go", "send"}
  BY <1>1
<1>i. i \in Nat /\ i >= 1
  BY ListingTyped
<1> SUFFICES \/ i < pos'[p][c] /\ Given(p, f)' /\ Reached(p, c, f)'
             \/ i = pos'[p][c] /\ pc'[p][c] \in {"go", "send"}
  BY <1>2 DEF Takes
<1>3. ASSUME i < pos[p][c], Given(p, f), Reached(p, c, f)
      PROVE  i < pos'[p][c] /\ Given(p, f)' /\ Reached(p, c, f)'
  <2>1. Born(p, c)
    BY <1>0, <1>i, <1>3 DEF ReadOut, Born
  <2>2. Reached(p, c, f)'
    BY <1>3, <2>1, StaysReached DEF Keeps
  <2>3. pos'[p][c] \in {pos[p][c], pos[p][c] + 1} /\ pos[p][c] \in Nat
    BY <1>0 DEF Acts, Enters, Ends, Forgoes, Works, Declines, Descents, Hands
  <2>4. i < pos'[p][c]
    BY <1>i, <1>3, <2>3
  <2> QED
    BY <1>3, <2>2, <2>4 DEF Keeps
<1>4. ASSUME i = pos[p][c], pc[p][c] \in {"go", "send"}, ~(Hands(p, d) /\ c = d)
      PROVE  i = pos'[p][c] /\ pc'[p][c] \in {"go", "send"}
  <2>1. CASE Descents(p, d)
    <3>1. pc[p][Kid(p, d)] = "unborn" /\ Kid(p, d) # d
      BY <2>1, KidUnborn DEF Descents, Descends
    <3> QED
      BY <1>0, <1>4, <2>1, <3>1 DEF Descents, Descends
  <2>2. CASE ~Descents(p, d)
    BY <1>0, <1>4, <2>2 DEF Acts, Enters, Ends, Forgoes, Works, Declines, Hands
  <2> QED
    BY <2>1, <2>2
<1>5. ASSUME i = pos[p][c], pc[p][c] \in {"go", "send"}, Hands(p, d), c = d
      PROVE  i < pos'[p][c] /\ Given(p, f)' /\ Reached(p, c, f)'
  <2>1. pc[p][c] = "send" /\ f = Kid(p, d) /\ Born(p, c)
    BY <1>2, <1>5 DEF Hands, Kid, Born
  <2>2. Reached(p, c, f)
    BY <1>2, <1>5, <2>1 DEF PassedOn
  <2>3. Reached(p, c, f)'
    BY <2>1, <2>2, StaysReached DEF Keeps
  <2>4. f \in File
    BY <1>2, ListingTyped
  <2>5. listch'[p] = Append(listch[p], f)
    BY <1>5, <2>1 DEF Hands
  <2>6. Len(listch[p]) \in Nat /\ Len(listch'[p]) = Len(listch[p]) + 1 /\ listch'[p][Len(listch[p]) + 1] = f
    BY <1>0, <2>4, <2>5, LenProperties, AppendProperties
  <2>7. Given(p, f)'
    BY <2>6 DEF Given
  <2>8. i < pos'[p][c]
    BY <1>0, <1>i, <1>5 DEF Hands
  <2> QED
    BY <2>3, <2>7, <2>8
<1> QED
  BY <1>2, <1>3, <1>4, <1>5

\* And in a walk that stands still.
LEMMA TakenStill ==
  ASSUME NEW p \in Path, NEW f, Takes(p, f), args' = args, pc'[p] = pc[p], pos'[p] = pos[p],
         deep'[p] = deep[p], Given(p, f) => Given(p, f)'
  PROVE  Takes(p, f)'
<1>1. \A d \in Dir : Reached(p, d, f) => Reached(p, d, f)'
  BY DEF Reached, Born
<1> QED
  BY <1>1 DEF Takes

\* A name that is printed was on its way.
LEMMA ShowGives ==
  ASSUME WalksTyped, NEW p \in Path, Show(p), NEW q \in Path, NEW f, Given(q, f)
  PROVE  Given(q, f)'
<1>0. listch[q] \in Seq(File) /\ printed[q] \in Seq(File)
  BY DEF WalksTyped
<1>1. CASE q # p
  <2>1. listch'[q] = listch[q] /\ printed'[q] = printed[q]
    BY <1>1 DEF Show, WalksTyped
  <2> QED
    BY <2>1 DEF Given, Printed
<1>2. CASE q = p
  <2>1. /\ listch[q] # <<>> /\ printed'[q] = Append(printed[q], Head(listch[q]))
        /\ listch'[q] = Tail(listch[q])
    BY <1>2 DEF Show, WalksTyped
  <2>2. /\ Head(listch[q]) = listch[q][1] /\ Head(listch[q]) \in File
        /\ Len(listch[q]) \in Nat /\ Len(Tail(listch[q])) = Len(listch[q]) - 1
        /\ \A k \in 1..Len(Tail(listch[q])) : Tail(listch[q])[k] = listch[q][k + 1]
    BY <1>0, <2>1, HeadTailProperties, LenProperties
  <2>3. /\ Len(printed[q]) \in Nat /\ Len(printed'[q]) = Len(printed[q]) + 1
        /\ printed'[q][Len(printed[q]) + 1] = listch[q][1]
        /\ \A k \in 1..Len(printed[q]) : printed'[q][k] = printed[q][k]
    BY <1>0, <2>1, <2>2, AppendProperties, LenProperties
  <2>4. CASE f \in Printed(q)
    BY <2>3, <2>4 DEF Given, Printed
  <2>5. ASSUME NEW k \in 1..Len(listch[q]), f = listch[q][k] PROVE Given(q, f)'
    <3>1. CASE k = 1
      BY <2>3, <2>5, <3>1 DEF Given, Printed
    <3>2. CASE k # 1
      <4>1. k - 1 \in 1..Len(Tail(listch[q])) /\ Tail(listch[q])[k - 1] = f
        <5>1. k - 1 \in 1..Len(Tail(listch[q])) /\ (k - 1) + 1 = k
          BY <2>2, <3>2
        <5> QED
          BY <2>2, <2>5, <5>1
      <4> QED
        BY <2>1, <4>1 DEF Given
    <3> QED
      BY <3>1, <3>2
  <2> QED
    BY <2>4, <2>5 DEF Given
<1> QED
  BY <1>1, <1>2

----------------------------------------------------------------------------
\* The invariant holds at the start.
LEMMA InitCInv == Init => CInv
<1> SUFFICES ASSUME Init PROVE CInv
  OBVIOUS
<1>1. Marked
  BY DEF Init, Marked
<1>2. ASSUME NEW p \in Path PROVE ReadOut(p) /\ Levels(p) /\ PassedOn(p) /\ OverRight(p)
  <2>1. \A d \in Dir : pc[p][d] = (IF d = Root[p] THEN "read" ELSE "unborn") /\ pos[p][d] = 1 /\ deep[p][d] = 0
    BY DEF Init
  <2>2. Root[p] \in Dir /\ IsFiniteSet(Dir)
    BY WalkAssumption DEF WalkAssumption
  <2>3. ReadOut(p)
    BY <2>1 DEF ReadOut
  <2>4. Levels(p)
    <3>1. ASSUME NEW e \in Dir PROVE Cardinality(Shallower(e)) \in Nat
      <4>1. Shallower(e) \subseteq Dir
        BY DEF Shallower
      <4> QED
        BY <2>2, <4>1, FS_Subset, FS_CardinalityType
    <3>2. \A e \in Dir : Born(p, e) => e = Root[p]
      BY <2>1 DEF Born
    <3> QED
      BY <2>1, <2>2, <3>1, <3>2 DEF Levels, Born
  <2>5. PassedOn(p)
    <3>1. \A d \in Dir : \A i \in DOMAIN Listing[d] : i \in Nat /\ i >= 1
      BY ListingTyped
    <3> QED
      BY <2>1, <3>1 DEF PassedOn
  <2>6. OverRight(p)
    BY DEF Init, OverRight
  <2> QED
    BY <2>3, <2>4, <2>5, <2>6
<1> QED
  BY <1>1, <1>2 DEF CInv

\* Every step keeps it.
LEMMA NextCInv == IInv /\ CInv /\ [Next]_vars => CInv'
<1> SUFFICES ASSUME IInv, CInv, [Next]_vars PROVE CInv'
  OBVIOUS
<1>0. /\ WalksTyped /\ RestTyped
      /\ \A p \in Path : Grown(p) /\ Counts(p) /\ ReadOut(p) /\ Levels(p) /\ PassedOn(p) /\ OverRight(p)
      /\ Marked
  BY DEF IInv, WInv, CInv
\* A step that moves no goroutine.
<1>s. ASSUME UNCHANGED <<pc, pos, deep, args, visit>>, \A q \in Path : \A f : Given(q, f) => Given(q, f)'
      PROVE  Marked' /\ \A q \in Path : ReadOut(q)' /\ Levels(q)' /\ PassedOn(q)'
  <2>1. ASSUME NEW q \in Path PROVE ReadOut(q)' /\ Levels(q)' /\ PassedOn(q)'
    BY <1>0, <1>s, StandsStill
  <2>2. \A q \in Path : \A f : Takes(q, f) => Takes(q, f)'
    BY <1>s, TakenStill
  <2>3. Marked'
    BY <1>0, <1>s, <2>2 DEF Marked
  <2> QED
    BY <2>1, <2>3
<1>1. ASSUME NEW p \in Path, NEW d \in Dir, Dft1(p, d) PROVE CInv'
  <2>1. /\ closed' = closed /\ printed' = printed /\ over' = over /\ args' = args
        /\ \A q \in Path : q # p => listch'[q] = listch[q]
    BY <1>0, <1>1, Effects
  <2>2. /\ Acts(p, d) \/ Same(p)
        /\ \A q \in Path : q # p => Same(q)
        /\ visit' = visit \/ Marks(p, d)
    BY <1>0, <1>1, Details
  <2>3. visit \subseteq visit'
    BY <2>2 DEF Marks
  <2>4. ASSUME NEW q \in Path, Same(q)
        PROVE  /\ ReadOut(q)' /\ Levels(q)' /\ PassedOn(q)' /\ OverRight(q)'
               /\ \A f : Takes(q, f) => Takes(q, f)'
    <3>1. \A f : Given(q, f) => Given(q, f)'
      BY <2>1, <2>4 DEF Given, Printed, Same
    <3>2. ReadOut(q)' /\ Levels(q)' /\ PassedOn(q)'
      BY <1>0, <2>1, <2>3, <2>4, <3>1, StandsStill DEF Same
    <3>3. \A f : Takes(q, f) => Takes(q, f)'
      BY <2>1, <2>4, <3>1, TakenStill DEF Same
    <3>4. OverRight(q)'
      BY <1>0, <2>1, <2>4 DEF OverRight, Same
    <3> QED
      BY <3>2, <3>3, <3>4
  <2>5. ASSUME Acts(p, d)
        PROVE  /\ ReadOut(p)' /\ Levels(p)' /\ PassedOn(p)' /\ OverRight(p)'
               /\ \A f : Takes(p, f) => Takes(p, f)'
    <3>1. Keeps(p, d)
      BY <1>0, <2>1, <2>5, KeepsAll
    <3>2. ReadOut(p)'
      BY <1>0, <2>1, <2>5, ReadOutStep
    <3>3. Levels(p)'
      BY <1>0, <2>1, <2>5, <3>1, LevelsStep
    <3>4. PassedOn(p)'
      BY <1>0, <2>1, <2>3, <2>5, <3>1, PassedOnStep
    <3>5. \A f : Takes(p, f) => Takes(p, f)'
      BY <1>0, <2>1, <2>5, <3>1, StaysTaken
    <3>6. pc[p][d] \notin {"unborn", "dead"}
      BY <2>5 DEF Acts, Enters, Ends, Forgoes, Works, Declines, Descents, Hands
    <3>7. Members(p) # {}
      BY <3>6 DEF Members
    <3>8. OverRight(p)'
      BY <1>0, <2>1, <3>7 DEF OverRight, Counts
    <3> QED
      BY <3>2, <3>3, <3>4, <3>5, <3>8
  <2>6. ASSUME NEW q \in Path
        PROVE  /\ ReadOut(q)' /\ Levels(q)' /\ PassedOn(q)' /\ OverRight(q)'
               /\ \A f : Takes(q, f) => Takes(q, f)'
    BY <2>2, <2>4, <2>5
  <2>7. ASSUME NEW f \in visit', f \notin visit PROVE args.m /\ Takes(p, f)'
    <3>1. Marks(p, d) /\ f = Kid(p, d)
      BY <2>2, <2>7 DEF Marks
    <3>2. pc'[p][d] = "go"
      BY <1>0, <3>1 DEF Marks, WalksTyped
    <3> QED
      BY <3>1, <3>2 DEF Marks, Takes, Kid
  <2>8. Marked'
    BY <1>0, <2>1, <2>6, <2>7 DEF Marked
  <2> QED
    BY <2>6, <2>8 DEF CInv
<1>2. ASSUME NEW p \in Path, Close(p) PROVE CInv'
  <2>1. UNCHANGED <<pc, pos, deep, listch, printed, over, visit, args>> /\ closed' = [closed EXCEPT ![p] = TRUE]
    BY <1>2 DEF Close, goroutines
  <2>2. \A q \in Path : \A f : Given(q, f) => Given(q, f)'
    BY <2>1 DEF Given, Printed
  <2>3. \A q \in Path : OverRight(q)'
    BY <1>0, <2>1 DEF OverRight, RestTyped
  <2> QED
    BY <1>s, <2>1, <2>2, <2>3 DEF CInv
<1>3. ASSUME NEW p \in Path, Show(p) PROVE CInv'
  <2>1. UNCHANGED <<pc, pos, deep, closed, over, visit, args>> /\ listch[p] # <<>>
        /\ \A q \in Path : q # p => listch'[q] = listch[q]
    BY <1>0, <1>3 DEF Show, goroutines, WalksTyped
  <2>2. \A q \in Path : \A f : Given(q, f) => Given(q, f)'
    BY <1>0, <1>3, ShowGives
  <2>3. \A q \in Path : OverRight(q)'
    BY <1>0, <2>1 DEF OverRight
  <2> QED
    BY <1>s, <2>1, <2>2, <2>3 DEF CInv
<1>4. ASSUME NEW p \in Path, Return(p) PROVE CInv'
  <2>1. UNCHANGED <<pc, pos, deep, listch, closed, printed, visit, args>> /\ over' = [over EXCEPT ![p] = TRUE]
        /\ closed[p] /\ listch[p] = <<>>
    BY <1>4 DEF Return, goroutines
  <2>2. \A q \in Path : \A f : Given(q, f) => Given(q, f)'
    BY <2>1 DEF Given, Printed
  <2>3. \A q \in Path : OverRight(q)'
    BY <1>0, <2>1 DEF OverRight, RestTyped
  <2> QED
    BY <1>s, <2>1, <2>2, <2>3 DEF CInv
<1>5. CASE UNCHANGED vars
  <2>1. UNCHANGED <<pc, pos, deep, listch, closed, printed, over, visit, args>>
    BY <1>5 DEF vars, goroutines
  <2>2. \A q \in Path : \A f : Given(q, f) => Given(q, f)'
    BY <2>1 DEF Given, Printed
  <2>3. \A q \in Path : OverRight(q)'
    BY <1>0, <2>1 DEF OverRight
  <2> QED
    BY <1>s, <2>1, <2>2, <2>3 DEF CInv
<1> QED
  BY <1>1, <1>2, <1>3, <1>4, <1>5 DEF Next

\* It holds in every state.
THEOREM CInvariance == Spec => []CInv
<1> QED
  BY InitCInv, NextCInv, Invariance, PTL DEF Spec

----------------------------------------------------------------------------
\* What the rows of Below are.
LEMMA BelowTyped ==
  ASSUME NEW p \in Path
  PROVE  /\ Cardinality(Dir) \in Nat /\ Below[0][p] = {Root[p]}
         /\ \A k \in 0..Cardinality(Dir) : k # 0 =>
               Below[k][p] = UNION {Names(d) \cap Dir : d \in Below[k - 1][p]}
<1>1. Cardinality(Dir) \in Nat
  BY WalkAssumption, FS_CardinalityType DEF WalkAssumption
<1>2. 0 \in 0..Cardinality(Dir)
  BY <1>1
<1>3. \A k \in 0..Cardinality(Dir) : Below[k][p] = BelowRow(Below, k)[p]
  BY BelowRows
<1>4. \A k : BelowRow(Below, k)[p] = IF k = 0 THEN {Root[p]} ELSE UNION {Names(d) \cap Dir : d \in Below[k - 1][p]}
  BY DEF BelowRow
<1> QED
  BY <1>1, <1>2, <1>3, <1>4

\* How deep a directory can be.
LEMMA HowDeep ==
  ASSUME IInv, CInv, NEW p \in Path, NEW d \in Dir, Born(p, d)
  PROVE  deep[p][d] \in 0..Cardinality(Dir) /\ deep[p][d] < Cardinality(Dir) /\ deep[p][d] <= args.t
         /\ args.t \in Nat
<1>0. /\ deep[p] \in [Dir -> Nat] /\ Levels(p) /\ args.t \in Nat
  BY WalkAssumption DEF IInv, WalksTyped, CInv, RestTyped, WalkAssumption
<1>1. deep[p][d] <= Cardinality(Shallower(d)) /\ deep[p][d] \in Nat
  BY <1>0 DEF Levels
<1>2. /\ IsFiniteSet(Dir) /\ Shallower(d) \cup {d} \subseteq Dir /\ d \notin Shallower(d)
      /\ Shallower(d) \subseteq Dir
  BY WalkAssumption DEF WalkAssumption, Shallower
<1>3. /\ IsFiniteSet(Shallower(d)) /\ Cardinality(Shallower(d) \cup {d}) = Cardinality(Shallower(d)) + 1
      /\ Cardinality(Shallower(d) \cup {d}) <= Cardinality(Dir)
  BY <1>2, FS_Subset, FS_AddElement
<1>4. Cardinality(Shallower(d)) \in Nat /\ Cardinality(Dir) \in Nat
  BY <1>2, <1>3, FS_CardinalityType
<1>5. deep[p][d] <= args.t
  <2>1. CASE d = Root[p]
    BY <1>0, <2>1 DEF Levels
  <2>2. CASE d # Root[p]
    <3>1. PICK c \in Dir : Parent(p, c, d)
      BY <1>0, <2>2 DEF Levels
    <3>2. deep[p][c] \in Nat /\ deep[p][c] < args.t /\ deep[p][d] = deep[p][c] + 1
      BY <1>0, <3>1 DEF Parent
    <3> QED
      BY <1>0, <3>2
  <2> QED
    BY <2>1, <2>2
<1> QED
  BY <1>0, <1>1, <1>3, <1>4, <1>5

\* A goroutine works at the level that its directory has in the tree.
LEMMA BornBelow ==
  ASSUME IInv, CInv, NEW p \in Path, NEW d \in Dir, Born(p, d)
  PROVE  d \in Below[deep[p][d]][p]
<1> DEFINE N == Cardinality(Dir)
           T == {k \in Nat : k \in 0..N => \A e \in Dir : Born(p, e) /\ deep[p][e] = k => e \in Below[k][p]}
<1>0. deep[p] \in [Dir -> Nat] /\ Levels(p)
  BY DEF IInv, WalksTyped, CInv
<1>1. 0 \in T
  <2>1. ASSUME NEW e \in Dir, Born(p, e), deep[p][e] = 0 PROVE e = Root[p]
    <3> SUFFICES ASSUME e # Root[p] PROVE FALSE
      OBVIOUS
    <3>1. PICK c \in Dir : Parent(p, c, e)
      BY <1>0, <2>1 DEF Levels
    <3> QED
      BY <1>0, <2>1, <3>1 DEF Parent
  <2> QED
    BY <2>1, BelowTyped
<1>2. ASSUME NEW k \in T PROVE k + 1 \in T
  <2>1. SUFFICES ASSUME k + 1 \in 0..N, NEW e \in Dir, Born(p, e), deep[p][e] = k + 1
                 PROVE  e \in Below[k + 1][p]
    OBVIOUS
  <2>2. k \in 0..N /\ k \in Nat /\ N \in Nat
    BY <2>1, BelowTyped
  <2>3. e # Root[p]
    BY <1>0, <2>1, <2>2 DEF Levels
  <2>4. PICK c \in Dir : Parent(p, c, e)
    BY <1>0, <2>1, <2>3 DEF Levels
  <2>5. deep[p][c] = k /\ Born(p, c) /\ e \in Names(c)
    BY <1>0, <2>1, <2>2, <2>4 DEF Parent
  <2>6. c \in Below[k][p]
    BY <2>2, <2>5
  <2>7. Below[k + 1][p] = UNION {Names(x) \cap Dir : x \in Below[k][p]}
    <3>1. k + 1 # 0 /\ (k + 1) - 1 = k
      BY <2>2
    <3> QED
      BY <2>1, <3>1, BelowTyped
  <2> QED
    BY <2>5, <2>6, <2>7
<1>3. T = Nat
  <2>1. T \in SUBSET Nat
    OBVIOUS
  <2> HIDE DEF T
  <2> QED
    BY <1>1, <1>2, <2>1, AllNat
<1>4. deep[p][d] \in T /\ deep[p][d] \in 0..N
  BY <1>0, <1>3, HowDeep
<1> QED
  BY <1>4

\* A walk that has returned has read every directory it entered to its end.
LEMMA ReadToTheEnd ==
  ASSUME IInv, CInv, NEW p \in Path, over[p]
  PROVE  /\ \A d \in Dir : pc[p][d] \in {"unborn", "dead"}
         /\ \A d \in Dir \ Unreadable : Born(p, d) => \A i \in DOMAIN Listing[d] : i < pos[p][d]
         /\ \A f : Given(p, f) => f \in Printed(p)
<1>0. OverRight(p) /\ Counts(p) /\ ReadOut(p) /\ pos[p] \in [Dir -> Nat]
  BY DEF CInv, IInv, WInv, WalksTyped
<1>1. closed[p] /\ listch[p] = <<>> /\ Members(p) = {}
  BY <1>0 DEF OverRight, Counts
<1>2. \A d \in Dir : pc[p][d] \in {"unborn", "dead"}
  BY <1>1 DEF Members
<1>3. ASSUME NEW d \in Dir, d \notin Unreadable, Born(p, d), NEW i \in DOMAIN Listing[d] PROVE i < pos[p][d]
  <2>1. pc[p][d] = "dead"
    BY <1>2, <1>3 DEF Born
  <2>2. pos[p][d] > Len(Listing[d])
    BY <1>0, <1>3, <2>1 DEF ReadOut
  <2> QED
    BY <1>0, <2>2, ListingTyped
<1>4. \A f : Given(p, f) => f \in Printed(p)
  BY <1>1, EmptySeq DEF Given
<1> QED
  BY <1>2, <1>3, <1>4

\* The directories that have names.
LEMMA NamesListed ==
  ASSUME NEW d, NEW f \in Names(d)
  PROVE  d \in Dir /\ d \notin Unreadable /\ \E i \in DOMAIN Listing[d] : Listing[d][i] = f
<1>1. d \in Dir /\ d \notin Unreadable
  BY DEF Names
<1> QED
  BY <1>1, ListingTyped DEF Names

\* A walk prints no name that is not below its root and within the limit.
LEMMA NoneTooMany ==
  ASSUME IInv, CInv, NEW p \in Path
  PROVE  Printed(p) \subseteq Expected(p)
<1> SUFFICES ASSUME NEW f \in Printed(p) PROVE f \in Expected(p)
  OBVIOUS
<1>0. Once(p) /\ ReadOut(p) /\ pos[p] \in [Dir -> Nat]
  BY DEF IInv, WInv, CInv, WalksTyped
<1>1. Behind(pos[p], f)
  BY <1>0 DEF Once, NoneTwice, Printed
<1>2. PICK d \in Dir : \E i \in DOMAIN Listing[d] : Listing[d][i] = f /\ i < pos[p][d]
  BY <1>1 DEF Behind
<1>3. pos[p][d] # 1 /\ f \in {Listing[d][i] : i \in 1..Len(Listing[d])}
  BY <1>0, <1>2, ListingTyped
<1>4. Born(p, d) /\ d \notin Unreadable
  BY <1>0, <1>3 DEF ReadOut, Born
<1>5. f \in Names(d)
  BY <1>3, <1>4 DEF Names
<1>6. d \in Below[deep[p][d]][p] /\ deep[p][d] \in 0..Cardinality(Dir) /\ deep[p][d] <= args.t
  BY <1>4, BornBelow, HowDeep
<1> QED
  BY <1>5, <1>6 DEF Expected

\* Without -m the walk enters every directory within the limit itself.
LEMMA AllEntered ==
  ASSUME IInv, CInv, NEW p \in Path, over[p], ~args.m,
         NEW k \in 0..Cardinality(Dir), k <= args.t, NEW d \in Below[k][p]
  PROVE  d \in Dir /\ Born(p, d) /\ deep[p][d] = k
<1> DEFINE N == Cardinality(Dir)
           T == {n \in Nat : n \in 0..N /\ n <= args.t =>
                    \A e \in Below[n][p] : e \in Dir /\ Born(p, e) /\ deep[p][e] = n}
<1>0. /\ deep[p] \in [Dir -> Nat] /\ Levels(p) /\ PassedOn(p) /\ args.t \in Nat /\ Root[p] \in Dir
  BY WalkAssumption DEF IInv, WalksTyped, RestTyped, CInv, WalkAssumption
<1>1. 0 \in T
  BY <1>0, BelowTyped DEF Levels
<1>2. ASSUME NEW n \in T PROVE n + 1 \in T
  <2>1. SUFFICES ASSUME n + 1 \in 0..N, n + 1 <= args.t, NEW e \in Below[n + 1][p]
                 PROVE  e \in Dir /\ Born(p, e) /\ deep[p][e] = n + 1
    OBVIOUS
  <2>2. n \in 0..N /\ n \in Nat /\ N \in Nat /\ n < args.t /\ n <= args.t
    BY <1>0, <2>1, BelowTyped
  <2>3. Below[n + 1][p] = UNION {Names(x) \cap Dir : x \in Below[n][p]}
    <3>1. n + 1 # 0 /\ (n + 1) - 1 = n
      BY <2>2
    <3> QED
      BY <2>1, <3>1, BelowTyped
  <2>4. PICK c \in Below[n][p] : e \in Names(c) /\ e \in Dir
    BY <2>1, <2>3
  <2>5. c \in Dir /\ Born(p, c) /\ deep[p][c] = n
    BY <2>2
  <2>6. PICK i \in DOMAIN Listing[c] : Listing[c][i] = e
    BY <2>4, NamesListed
  <2>7. i < pos[p][c]
    BY <2>4, <2>5, NamesListed, ReadToTheEnd
  <2>8. Reached(p, c, e)
    BY <1>0, <2>5, <2>6, <2>7 DEF PassedOn
  <2> QED
    BY <2>2, <2>4, <2>5, <2>8 DEF Reached
<1>3. T = Nat
  <2>1. T \in SUBSET Nat
    OBVIOUS
  <2> HIDE DEF T
  <2> QED
    BY <1>1, <1>2, <2>1, AllNat
<1>4. k \in T
  BY <1>3
<1> QED
  BY <1>4

\* Without -m a walk that has returned has printed every name of the first -t levels under
\* its root and none below the next level, whatever the tree and the order of its
\* goroutines (walk.go:196-227).
THEOREM CompleteWalk == Spec => []WalkComplete
<1>1. IInv /\ CInv => WalkComplete
  <2> SUFFICES ASSUME IInv, CInv, NEW p \in Path, over[p], ~args.m
               PROVE  FirstLevels(p, args.t) \subseteq Printed(p) /\ Printed(p) \subseteq Expected(p)
    BY DEF WalkComplete
  <2>1. ASSUME NEW f \in Expected(p) PROVE f \in Printed(p)
    <3>1. PICK k \in 0..Cardinality(Dir) : k <= args.t /\ \E d \in Below[k][p] : f \in Names(d)
      BY <2>1 DEF Expected
    <3>2. PICK d \in Below[k][p] : f \in Names(d)
      BY <3>1
    <3>3. d \in Dir /\ Born(p, d)
      BY <3>1, <3>2, AllEntered
    <3>4. d \notin Unreadable /\ \E i \in DOMAIN Listing[d] : Listing[d][i] = f
      BY <3>2, NamesListed
    <3>5. PICK i \in DOMAIN Listing[d] : Listing[d][i] = f
      BY <3>4
    <3>6. i < pos[p][d]
      BY <3>3, <3>4, ReadToTheEnd
    <3>7. Given(p, f)
      BY <3>3, <3>5, <3>6 DEF CInv, PassedOn
    <3> QED
      BY <3>7, ReadToTheEnd
  <2>2. FirstLevels(p, args.t) \subseteq Expected(p)
    <3>1. \A k \in 0..Cardinality(Dir) : k < args.t => k <= args.t
      <4>1. args.t \in Nat /\ Cardinality(Dir) \in Nat
        BY BelowTyped, WalkAssumption DEF IInv, RestTyped, WalkAssumption
      <4> QED
        BY <4>1
    <3> QED
      BY <3>1 DEF FirstLevels, Expected
  <2> QED
    BY <2>1, <2>2, NoneTooMany
<1> QED
  BY <1>1, Invariance, CInvariance, PTL

\* With -m what one walk leaves out another one prints.
LEMMA OneTakesIt ==
  ASSUME IInv, CInv, \A p \in Path : over[p], NEW f \in visit
  PROVE  \E q \in Path, d \in Dir : Born(q, d) /\ f \in Printed(q) /\ Reached(q, d, f)
<1>1. PICK q \in Path : Takes(q, f)
  BY DEF CInv, Marked
<1>2. PICK d \in Dir : \E i \in DOMAIN Listing[d] :
        \/ i < pos[q][d] /\ Given(q, f) /\ Reached(q, d, f)
        \/ i = pos[q][d] /\ pc[q][d] \in {"go", "send"}
  BY <1>1 DEF Takes
<1>3. pc[q][d] \in {"unborn", "dead"}
  BY ReadToTheEnd
<1>4. PICK i \in DOMAIN Listing[d] : i < pos[q][d] /\ Given(q, f) /\ Reached(q, d, f)
  BY <1>2, <1>3
<1>5. Born(q, d)
  <2>1. i \in Nat /\ i >= 1 /\ pos[q][d] \in Nat /\ ReadOut(q)
    BY ListingTyped DEF IInv, WalksTyped, CInv
  <2> QED
    BY <1>4, <2>1 DEF ReadOut, Born
<1>6. f \in Printed(q)
  BY <1>4, ReadToTheEnd
<1> QED
  BY <1>4, <1>5, <1>6

\* With -m and no limit each directory below a root is entered by some walk.
LEMMA SomeoneEnters ==
  ASSUME IInv, CInv, \A p \in Path : over[p], Cardinality(Dir) <= args.t,
         NEW p \in Path, NEW k \in 0..Cardinality(Dir), NEW d \in Below[k][p]
  PROVE  d \in Dir /\ \E q \in Path : Born(q, d)
<1> DEFINE N == Cardinality(Dir)
           T == {n \in Nat : n \in 0..N => \A e \in Below[n][p] : e \in Dir /\ \E q \in Path : Born(q, e)}
<1>0. /\ \A q \in Path : deep[q] \in [Dir -> Nat] /\ Levels(q) /\ PassedOn(q) /\ Root[q] \in Dir
      /\ args.t \in Nat
  BY WalkAssumption DEF IInv, WalksTyped, RestTyped, CInv, WalkAssumption
<1>r. ASSUME NEW q \in Path, NEW c \in Dir, NEW e \in Dir, Born(q, c), Reached(q, c, e) PROVE Born(q, e)
  <2>1. deep[q][c] < N /\ deep[q][c] \in Nat /\ N \in Nat
    BY <1>0, <1>r, HowDeep, BelowTyped
  <2>2. deep[q][c] < args.t
    BY <1>0, <2>1
  <2> QED
    BY <1>r, <2>2 DEF Reached
<1>1. 0 \in T
  BY <1>0, BelowTyped DEF Levels
<1>2. ASSUME NEW n \in T PROVE n + 1 \in T
  <2>1. SUFFICES ASSUME n + 1 \in 0..N, NEW e \in Below[n + 1][p]
                 PROVE  e \in Dir /\ \E q \in Path : Born(q, e)
    OBVIOUS
  <2>2. n \in 0..N /\ n \in Nat /\ N \in Nat
    BY <2>1, BelowTyped
  <2>3. Below[n + 1][p] = UNION {Names(x) \cap Dir : x \in Below[n][p]}
    <3>1. n + 1 # 0 /\ (n + 1) - 1 = n
      BY <2>2
    <3> QED
      BY <2>1, <3>1, BelowTyped
  <2>4. PICK c \in Below[n][p] : e \in Names(c) /\ e \in Dir
    BY <2>1, <2>3
  <2>5. c \in Dir /\ \E q \in Path : Born(q, c)
    BY <2>2
  <2>6. PICK q \in Path : Born(q, c)
    BY <2>5
  <2>7. PICK i \in DOMAIN Listing[c] : Listing[c][i] = e
    BY <2>4, NamesListed
  <2>8. i < pos[q][c]
    BY <2>4, <2>5, <2>6, NamesListed, ReadToTheEnd
  <2>9. Reached(q, c, e) \/ e \in visit
    BY <1>0, <2>5, <2>7, <2>8 DEF PassedOn
  <2>10. CASE Reached(q, c, e)
    BY <1>r, <2>4, <2>5, <2>6, <2>10
  <2>11. CASE e \in visit
    BY <1>r, <2>4, <2>11, OneTakesIt
  <2> QED
    BY <2>4, <2>9, <2>10, <2>11
<1>3. T = Nat
  <2>1. T \in SUBSET Nat
    OBVIOUS
  <2> HIDE DEF T
  <2> QED
    BY <1>1, <1>2, <2>1, AllNat
<1>4. k \in T
  BY <1>3
<1> QED
  BY <1>4

\* With -m and no limit the walks together print every name below their roots, whichever of
\* them marks it first (walk.go:88-102, 210-227), in a tree with at most 1<<30 directories.
THEOREM NothingLost == ASSUME Cardinality(Dir) <= NoLimit PROVE Spec => []MemoryLosesNothing
<1>1. IInv /\ CInv => MemoryLosesNothing
  <2> SUFFICES ASSUME IInv, CInv, args.t = NoLimit, \A p \in Path : over[p]
               PROVE  UNION {Printed(p) : p \in Path} = UNION {Expected(p) : p \in Path}
    BY DEF MemoryLosesNothing
  <2>1. ASSUME NEW p \in Path, NEW f \in Expected(p) PROVE \E q \in Path : f \in Printed(q)
    <3>1. PICK k \in 0..Cardinality(Dir) : \E d \in Below[k][p] : f \in Names(d)
      BY <2>1 DEF Expected
    <3>2. PICK d \in Below[k][p] : f \in Names(d)
      BY <3>1
    <3>3. d \in Dir /\ \E q \in Path : Born(q, d)
      BY <3>2, SomeoneEnters
    <3>4. PICK q \in Path : Born(q, d)
      BY <3>3
    <3>5. d \notin Unreadable /\ \E i \in DOMAIN Listing[d] : Listing[d][i] = f
      BY <3>2, NamesListed
    <3>6. PICK i \in DOMAIN Listing[d] : Listing[d][i] = f
      BY <3>5
    <3>7. i < pos[q][d]
      BY <3>3, <3>4, <3>5, ReadToTheEnd
    <3>8. Given(q, f) \/ f \in visit
      BY <3>3, <3>6, <3>7 DEF CInv, PassedOn
    <3>9. CASE Given(q, f)
      BY <3>9, ReadToTheEnd
    <3>10. CASE f \in visit
      BY <3>10, OneTakesIt
    <3> QED
      BY <3>8, <3>9, <3>10
  <2>2. \A p \in Path : Printed(p) \subseteq Expected(p)
    BY NoneTooMany
  <2> QED
    BY <2>1, <2>2
<1> QED
  BY <1>1, Invariance, CInvariance, PTL

----------------------------------------------------------------------------
(* Breadth first: how the directories are on their way. *)

\* The directories in a sequence, in the printer's, in the dispatcher's hands.
Elems(s) == {s[i] : i \in 1..Len(s)} \ {NoDir}
InFnx == Elems(fnx)
InList == Elems(list)
InHand == {dir} \ {NoDir}
AtPrinter == {batch} \ {NoDir}
Waiting == InFnx \cup InHand \cup InList

\* The types.
QueuesTyped ==
    /\ list \in Seq(TreeDir \cup {NoDir}) /\ Len(list) <= ListCap
    /\ fnx \in Seq(TreeDir \cup {NoDir}) /\ Len(fnx) <= ListCap + 1
HandsTyped ==
    /\ limit \in BftLimits /\ unreadable \in Failures /\ listClosed \in BOOLEAN
    /\ batch \in TreeDir \cup {NoDir}
    /\ kid \in [TreeFile -> {"none", "print", "list", "done"}]
    /\ \A f \in TreeFile : kid[f] = "list" => f \in TreeDir
    /\ dpc \in {"recv", "add", "send", "stop"} /\ dir \in TreeDir \cup {NoDir}
    /\ (dpc \in {"add", "send"}) <=> dir # NoDir
    /\ mpc \in {"call", "wait", "woken", "close", "over", "exit"}
    /\ panic \in {"none", "nil directory", "send on closed list", "WaitGroup reused"}
    /\ bftPrinted \in Seq(TreeFile)
BftTyped == QueuesTyped /\ HandsTyped

\* The WaitGroup.
WgCounts == bftWg \in Nat /\ CountsDispatched

\* A queue, and two sets, in order.
Ordered(s) ==
    \A i, j \in 1..Len(s) :
        i < j /\ s[i] # NoDir /\ s[j] # NoDir => s[i] # s[j] /\ Level[s[i]] <= Level[s[j]]
Before(X, Y) == \A x \in X, y \in Y : x # y /\ Level[x] <= Level[y]

\* Directories are on their way in the order of their levels, and these differ by one at
\* most.
SeqOrder == Ordered(fnx) /\ Ordered(list)
SetOrder ==
    /\ Before(AtPrinter, Waiting) /\ Before(InFnx, InHand \cup InList) /\ Before(InHand, InList)
    /\ \A q, r \in AtPrinter \cup Waiting : Level[q] <= Level[r] + 1

\* The files of the batch, and what each of them has done.
Kids ==
    /\ \A f \in TreeFile : kid[f] # "none" <=> batch # NoDir /\ f \in TreeListing[batch]
    /\ \A f \in TreeFile :
        /\ kid[f] = "print" => f \notin PrintedNames
        /\ kid[f] \in {"list", "done"} => f \in PrintedNames
        /\ kid[f] = "list" => f \notin AtPrinter \cup Waiting

\* What is on its way was printed, what is printed was listed by a directory that is no longer
\* on its way and not on a lower level than those.
Parents ==
    /\ InHand \cup InList \subseteq PrintedNames
    /\ AtPrinter \cup InFnx \subseteq PrintedNames \cup {TreeRoot}
    /\ \A g \in PrintedNames : \E d \in TreeDir :
        /\ g \in TreeListing[d] /\ Known(d)
        /\ d \notin Waiting /\ kid[d] \notin {"print", "list"}
        /\ \A q \in AtPrinter \cup Waiting : Level[d] <= Level[q]
        /\ Level[d] <= limit \/ d = TreeRoot

\* The dispatcher passes on what is within the limit and stops at the first that is not,
\* when nothing else within it can come.
Limited ==
    /\ \A q \in AtPrinter \cup InFnx \cup InHand : Level[q] <= limit \/ q = TreeRoot
    /\ dpc = "stop" /\ ~listClosed =>
        /\ \A q \in AtPrinter \cup InFnx : Level[q] >= limit
        /\ \A q \in InList : Level[q] > limit

\* No name twice, and the levels of the parents in order.
PrintedInOrder ==
    \A i, j \in 1..Len(bftPrinted) :
        i < j => /\ bftPrinted[i] # bftPrinted[j]
                 /\ \A d, e \in TreeDir :
                       bftPrinted[i] \in TreeListing[d] /\ bftPrinted[j] \in TreeListing[e] => Level[d] <= Level[e]

\* A directory within the limit whose name is printed is read out or on its way.
Left ==
    panic = "none" => \A d \in TreeDir \ unreadable :
        Known(d) /\ (Level[d] <= limit \/ d = TreeRoot) =>
            \/ TreeListing[d] \subseteq PrintedNames
            \/ d \in AtPrinter \cup Waiting
            \/ kid[d] = "list"

\* The inductive invariant.
BftIInv == BftTyped /\ WgCounts /\ SeqOrder /\ SetOrder /\ Kids /\ Parents /\ Limited /\ PrintedInOrder /\ Left

\* What the assumption says.
LEMMA TreeTyped ==
  ASSUME BftAssumption
  PROVE  /\ TreeDir \subseteq TreeFile /\ NoDir \notin TreeFile /\ NoDir \notin TreeDir
         /\ TreeRoot \in TreeDir
         /\ TreeListing \in [TreeDir -> SUBSET TreeFile] /\ Level \in [TreeDir -> Nat]
         /\ ListCap \in Nat /\ ListCap >= 1 /\ BftLimits \subseteq Nat
         /\ \A d, e \in TreeDir : TreeListing[d] \cap TreeListing[e] # {} => d = e
         /\ \A d \in TreeDir : \A f \in TreeListing[d] : f # TreeRoot /\ (f \in TreeDir => Level[f] = Level[d] + 1)
  BY DEF BftAssumption

\* The elements of a sequence when one is added, and when the first is taken.
LEMMA AppendElems ==
  ASSUME NEW S, NEW s \in Seq(S), NEW x \in S
  PROVE  Elems(Append(s, x)) = Elems(s) \cup ({x} \ {NoDir})
<1>1. /\ Len(Append(s, x)) = Len(s) + 1 /\ Len(s) \in Nat
      /\ \A i \in 1..Len(s) : Append(s, x)[i] = s[i]
      /\ Append(s, x)[Len(s) + 1] = x
  OBVIOUS
<1> QED
  BY <1>1 DEF Elems

\* The first of a queue and the rest make up the queue.
LEMMA TailElems ==
  ASSUME NEW S, NEW s \in Seq(S), s # <<>>
  PROVE  /\ Head(s) \in S /\ Tail(s) \in Seq(S)
         /\ Elems(s) = Elems(Tail(s)) \cup ({Head(s)} \ {NoDir})
<1>1. /\ Len(s) \in Nat /\ Len(s) > 0 /\ Len(Tail(s)) = Len(s) - 1
      /\ \A i \in 1..(Len(s) - 1) : Tail(s)[i] = s[i + 1]
      /\ Head(s) = s[1] /\ Head(s) \in S /\ Tail(s) \in Seq(S)
  OBVIOUS
<1>2. \A i \in 1..Len(s) : i = 1 \/ (i - 1 \in 1..(Len(s) - 1) /\ s[i] = Tail(s)[i - 1])
  BY <1>1
<1>3. \A i \in 1..(Len(s) - 1) : i + 1 \in 1..Len(s) /\ 1 \in 1..Len(s)
  BY <1>1
<1>4. 1 \in 1..Len(s)
  BY <1>1
<1> QED
  BY <1>1, <1>2, <1>3, <1>4 DEF Elems

\* A queue in order stays so when its first is taken, which comes before the rest.
LEMMA OrderedTail ==
  ASSUME NEW S, NEW s \in Seq(S), s # <<>>, Ordered(s)
  PROVE  /\ Ordered(Tail(s))
         /\ Before({Head(s)} \ {NoDir}, Elems(Tail(s)))
<1>1. /\ Len(s) \in Nat /\ Len(s) > 0 /\ Len(Tail(s)) = Len(s) - 1
      /\ \A i \in 1..(Len(s) - 1) : Tail(s)[i] = s[i + 1] /\ i + 1 \in 1..Len(s) /\ 1 < i + 1
      /\ \A i, j \in 1..(Len(s) - 1) : i < j => i + 1 < j + 1
      /\ Head(s) = s[1] /\ 1 \in 1..Len(s)
  OBVIOUS
<1>2. Ordered(Tail(s))
  BY <1>1 DEF Ordered
<1>3. Before({Head(s)} \ {NoDir}, Elems(Tail(s)))
  BY <1>1 DEF Ordered, Before, Elems
<1> QED
  BY <1>2, <1>3

\* A queue in order stays so when one is added that comes after all of them.
LEMMA OrderedAppend ==
  ASSUME NEW S, NEW s \in Seq(S), NEW x \in S, Ordered(s),
         Before(Elems(s), {x} \ {NoDir})
  PROVE  Ordered(Append(s, x))
<1>1. /\ Len(Append(s, x)) = Len(s) + 1 /\ Len(s) \in Nat
      /\ \A i \in 1..Len(s) : Append(s, x)[i] = s[i]
      /\ Append(s, x)[Len(s) + 1] = x
  OBVIOUS
<1>2. SUFFICES ASSUME NEW i \in 1..(Len(s) + 1), NEW j \in 1..(Len(s) + 1), i < j,
                      Append(s, x)[i] # NoDir, Append(s, x)[j] # NoDir
               PROVE  /\ Append(s, x)[i] # Append(s, x)[j]
                      /\ Level[Append(s, x)[i]] <= Level[Append(s, x)[j]]
  BY <1>1 DEF Ordered
<1>3. i \in 1..Len(s)
  BY <1>1, <1>2
<1>4. CASE j \in 1..Len(s)
  BY <1>1, <1>2, <1>3, <1>4 DEF Ordered
<1>5. CASE j = Len(s) + 1
  BY <1>1, <1>2, <1>3, <1>5 DEF Before, Elems
<1> QED
  BY <1>1, <1>4, <1>5

\* What a queue holds are directories.
LEMMA ElemsIn ==
  ASSUME NEW S, NEW s \in Seq(S)
  PROVE  Elems(s) \subseteq S \ {NoDir}
  BY DEF Elems

\* The type and the length of a queue to which one is added ...
LEMMA AppendTyped ==
  ASSUME NEW S, NEW s \in Seq(S), NEW x \in S
  PROVE  Append(s, x) \in Seq(S) /\ Len(Append(s, x)) = Len(s) + 1 /\ Len(s) \in Nat
  OBVIOUS

\* ... and of one from which the first is taken.
LEMMA TailTyped ==
  ASSUME NEW S, NEW s \in Seq(S), s # <<>>
  PROVE  Head(s) \in S /\ Tail(s) \in Seq(S) /\ Len(Tail(s)) = Len(s) - 1 /\ Len(s) \in Nat
  OBVIOUS

\* Where the directories on their way are.
LEMMA SetsTyped ==
  ASSUME BftAssumption, BftTyped
  PROVE  /\ InFnx \subseteq TreeDir /\ InList \subseteq TreeDir /\ InHand \subseteq TreeDir
         /\ AtPrinter \subseteq TreeDir
<1>1. fnx \in Seq(TreeDir \cup {NoDir}) /\ list \in Seq(TreeDir \cup {NoDir})
  BY DEF BftTyped, QueuesTyped
<1>2. /\ Elems(fnx) \subseteq (TreeDir \cup {NoDir}) \ {NoDir}
      /\ Elems(list) \subseteq (TreeDir \cup {NoDir}) \ {NoDir}
  BY <1>1, ElemsIn
<1> QED
  BY <1>2 DEF BftTyped, HandsTyped, InFnx, InList, InHand, AtPrinter

\* main starts with the root on its way and nothing else.
LEMMA BftInitRight ==
  ASSUME BftAssumption, BftInit
  PROVE  BftIInv
<1> USE DEF BftInit
<1>0. /\ Read(TreeRoot) \in TreeDir \cup {NoDir} /\ Read(TreeRoot) \in {TreeRoot, NoDir}
      /\ (TreeRoot \notin unreadable => Read(TreeRoot) = TreeRoot)
  BY TreeTyped DEF Read
<1>1. BftTyped
  <2>1. /\ fnx \in Seq(TreeDir \cup {NoDir}) /\ Len(fnx) = 1
        /\ list \in Seq(TreeDir \cup {NoDir}) /\ Len(list) = 0 /\ bftPrinted \in Seq(TreeFile)
    BY <1>0
  <2>2. Len(fnx) <= ListCap + 1 /\ Len(list) <= ListCap
    BY <2>1, TreeTyped
  <2> QED
    BY <2>1, <2>2 DEF BftTyped, QueuesTyped, HandsTyped
<1>2. WgCounts
  <2>1. {batch} \cap TreeDir = {} /\ Len(fnx) = 1
    BY TreeTyped
  <2>2. Cardinality({batch} \cap TreeDir) = 0
    BY <2>1, FS_EmptySet
  <2> QED
    BY <2>1, <2>2 DEF WgCounts, CountsDispatched
<1>3. /\ InFnx \subseteq {TreeRoot} /\ InList = {} /\ InHand = {} /\ AtPrinter = {}
      /\ (TreeRoot \notin unreadable => InFnx = {TreeRoot})
  <2>1. Len(fnx) = 1 /\ fnx[1] = Read(TreeRoot) /\ Len(list) = 0
    BY <1>0
  <2>2. TreeRoot # NoDir
    BY TreeTyped
  <2> QED
    BY <1>0, <2>1, <2>2 DEF InFnx, InList, InHand, AtPrinter, Elems
<1>4. SeqOrder /\ SetOrder
  <2>1. Len(fnx) = 1 /\ Len(list) = 0
    BY <1>0
  <2>2. Ordered(fnx) /\ Ordered(list)
    BY <2>1 DEF Ordered
  <2>3. Level[TreeRoot] \in Nat
    BY TreeTyped
  <2>4. \A q, r \in AtPrinter \cup Waiting : Level[q] <= Level[r] + 1
    BY <1>3, <2>3 DEF Waiting
  <2> QED
    BY <1>3, <2>2, <2>4 DEF SeqOrder, SetOrder, Before, Waiting
<1>5. PrintedNames = {}
  BY DEF PrintedNames
<1>6. Kids /\ Parents /\ Limited /\ PrintedInOrder
  BY <1>3, <1>5 DEF Kids, Parents, Limited, PrintedInOrder
<1>7. Left
  BY <1>3, <1>5 DEF Left, Known, Waiting
<1> QED
  BY <1>1, <1>2, <1>4, <1>6, <1>7 DEF BftIInv

\* Every step keeps the types and the capacities of the queues ...
LEMMA QueuesStep ==
  ASSUME BftAssumption, BftTyped, [BftNext]_bftVars
  PROVE  QueuesTyped'
<1>0. /\ list \in Seq(TreeDir \cup {NoDir}) /\ fnx \in Seq(TreeDir \cup {NoDir})
      /\ Len(list) <= ListCap /\ Len(fnx) <= ListCap + 1
  BY DEF BftTyped, QueuesTyped
<1>a. ListCap \in Nat
  BY TreeTyped
<1>1. CASE Begin
  <2>1. fnx # <<>> /\ fnx' = Tail(fnx) /\ list' = list
    BY <1>1 DEF Begin
  <2>2. /\ Tail(fnx) \in Seq(TreeDir \cup {NoDir}) /\ Len(Tail(fnx)) = Len(fnx) - 1
        /\ Len(fnx) \in Nat
    BY <1>0, <2>1, TailTyped
  <2> QED
    BY <1>0, <1>a, <2>1, <2>2 DEF QueuesTyped
<1>2. CASE Dispatch
  <2>1. list # <<>> /\ list' = Tail(list) /\ fnx' = fnx
    BY <1>2 DEF Dispatch
  <2>2. /\ Tail(list) \in Seq(TreeDir \cup {NoDir}) /\ Len(Tail(list)) = Len(list) - 1
        /\ Len(list) \in Nat
    BY <1>0, <2>1, TailTyped
  <2> QED
    BY <1>0, <1>a, <2>1, <2>2 DEF QueuesTyped
<1>3. CASE PassOn
  <2>1. /\ fnx' = Append(fnx, dir) /\ list' = list /\ Len(fnx) < ListCap + 1
        /\ dir \in TreeDir \cup {NoDir}
    BY <1>3 DEF PassOn, Queued, BftTyped, HandsTyped
  <2>2. /\ Append(fnx, dir) \in Seq(TreeDir \cup {NoDir})
        /\ Len(Append(fnx, dir)) = Len(fnx) + 1 /\ Len(fnx) \in Nat
    BY <1>0, <2>1, AppendTyped
  <2> QED
    BY <1>0, <1>a, <2>1, <2>2 DEF QueuesTyped
<1>4. ASSUME NEW f \in TreeFile, KidSend(f), ~listClosed PROVE QueuesTyped'
  <2>1. /\ fnx' = fnx /\ list' = Append(list, Read(f)) /\ Len(list) < ListCap
        /\ Read(f) \in TreeDir \cup {NoDir}
    BY <1>4 DEF KidSend, Queued, ListRoom, Read, BftTyped, HandsTyped
  <2>2. /\ Append(list, Read(f)) \in Seq(TreeDir \cup {NoDir})
        /\ Len(Append(list, Read(f))) = Len(list) + 1 /\ Len(list) \in Nat
    BY <1>0, <2>1, AppendTyped
  <2> QED
    BY <1>0, <1>a, <2>1, <2>2 DEF QueuesTyped
<1>5. ASSUME UNCHANGED <<list, fnx>> PROVE QueuesTyped'
  BY <1>5, <1>0 DEF QueuesTyped
<1> QED
  BY <1>1, <1>2, <1>3, <1>4, <1>5
     DEF BftNext, FinishBatch, DispatchEnd, Add, Wait, Woken, CloseList, Exit, KidPrint, KidSend, bftVars

\* ... the types of everything else ...
LEMMA HandsStep ==
  ASSUME BftAssumption, BftTyped, [BftNext]_bftVars
  PROVE  HandsTyped'
<1>0. /\ NoDir \notin TreeDir /\ TreeDir \subseteq TreeFile
      /\ list \in Seq(TreeDir \cup {NoDir}) /\ fnx \in Seq(TreeDir \cup {NoDir})
  BY TreeTyped DEF BftTyped, QueuesTyped
<1> USE DEF BftTyped, HandsTyped
<1>1. CASE Begin
  <2>1. Head(fnx) \in TreeDir \cup {NoDir}
    BY <1>0, <1>1, TailTyped DEF Begin
  <2> QED
    BY <1>1, <2>1 DEF Begin
<1>2. CASE FinishBatch
  BY <1>2 DEF FinishBatch
<1>3. CASE Dispatch
  <2>1. Head(list) \in TreeDir \cup {NoDir}
    BY <1>0, <1>3, TailTyped DEF Dispatch
  <2> QED
    BY <1>3, <2>1 DEF Dispatch
<1>4. CASE DispatchEnd
  BY <1>4 DEF DispatchEnd
<1>5. CASE Add
  BY <1>5 DEF Add
<1>6. CASE PassOn
  BY <1>6 DEF PassOn
<1>7. CASE Wait \/ Woken \/ CloseList \/ Exit
  BY <1>7 DEF Wait, Woken, CloseList, Exit
<1>8. ASSUME NEW f \in TreeFile, KidPrint(f) PROVE HandsTyped'
  <2>1. bftPrinted' = Append(bftPrinted, f) /\ bftPrinted' \in Seq(TreeFile)
    BY <1>8, AppendTyped DEF KidPrint
  <2> QED
    BY <1>8, <2>1 DEF KidPrint
<1>9. ASSUME NEW f \in TreeFile, KidSend(f) PROVE HandsTyped'
  BY <1>9 DEF KidSend
<1>10. CASE UNCHANGED bftVars
  BY <1>10 DEF bftVars
<1> QED
  BY <1>1, <1>2, <1>3, <1>4, <1>5, <1>6, <1>7, <1>8, <1>9, <1>10 DEF BftNext

\* ... and so all of them.
LEMMA BftTypedStep ==
  ASSUME BftAssumption, BftTyped, [BftNext]_bftVars
  PROVE  BftTyped'
  BY QueuesStep, HandsStep DEF BftTyped

\* The printer is at one directory or at none.
LEMMA AtOne ==
  ASSUME BftAssumption, NEW d \in TreeDir \cup {NoDir}
  PROVE  Cardinality({d} \cap TreeDir) = IF d = NoDir THEN 0 ELSE 1
<1>1. CASE d = NoDir
  <2>1. {d} \cap TreeDir = {}
    BY <1>1, TreeTyped
  <2> QED
    BY <1>1, <2>1, FS_EmptySet
<1>2. CASE d # NoDir
  <2>1. {d} \cap TreeDir = {d}
    BY <1>2
  <2> QED
    BY <1>2, <2>1, FS_Singleton
<1> QED
  BY <1>1, <1>2

\* Every step keeps the count: one is added before a directory is passed on, one taken
\* when its batch is finished.
LEMMA WgCountsStep ==
  ASSUME BftAssumption, BftTyped, WgCounts, [BftNext]_bftVars
  PROVE  WgCounts'
<1> DEFINE At(d) == IF d = NoDir THEN 0 ELSE 1
           Hold(s) == IF s = "send" THEN 1 ELSE 0
<1>0. /\ list \in Seq(TreeDir \cup {NoDir}) /\ fnx \in Seq(TreeDir \cup {NoDir})
      /\ Len(fnx) \in Nat
      /\ batch \in TreeDir \cup {NoDir} /\ batch' \in TreeDir \cup {NoDir} /\ bftWg \in Nat
  <2>1. BftTyped'
    BY BftTypedStep
  <2>2. /\ list \in Seq(TreeDir \cup {NoDir}) /\ fnx \in Seq(TreeDir \cup {NoDir})
        /\ batch \in TreeDir \cup {NoDir} /\ batch' \in TreeDir \cup {NoDir} /\ bftWg \in Nat
    BY <2>1 DEF BftTyped, QueuesTyped, HandsTyped, WgCounts
  <2> QED
    BY <2>2, LenProperties
<1>1. /\ Cardinality({batch} \cap TreeDir) = At(batch)
      /\ Cardinality({batch'} \cap TreeDir) = At(batch')
  BY <1>0, AtOne
<1>2. panic = "none" => bftWg = Len(fnx) + At(batch) + Hold(dpc)
  BY <1>1 DEF WgCounts, CountsDispatched
<1>3. SUFFICES bftWg' \in Nat /\ (panic' = "none" => bftWg' = Len(fnx') + At(batch') + Hold(dpc'))
  BY <1>1 DEF WgCounts, CountsDispatched
<1>4. CASE Begin
  <2>1. /\ fnx # <<>> /\ fnx' = Tail(fnx) /\ batch = NoDir /\ bftWg' = bftWg /\ dpc' = dpc
        /\ panic = "none"
    BY <1>4 DEF Begin, BftRunning
  <2>2. Len(Tail(fnx)) = Len(fnx) - 1
    BY <1>0, <2>1, TailTyped
  <2>3. panic' = "none" => At(batch') = 1
    BY <1>4 DEF Begin
  <2>4. At(batch) = 0 /\ Hold(dpc) \in Nat
    BY <2>1
  <2> QED
    <3>0. bftWg = Len(fnx) + Hold(dpc)
      <4>1. bftWg = Len(fnx) + At(batch) + Hold(dpc)
        BY <1>2, <2>1
      <4> HIDE DEF At, Hold
      <4> QED
        BY <1>0, <2>4, <4>1
    <3>1. Len(fnx') = Len(fnx) - 1 /\ Hold(dpc') = Hold(dpc)
      BY <2>1, <2>2
    <3>2. bftWg' \in Nat
      BY <1>0, <2>1
    <3> HIDE DEF At, Hold
    <3>3. panic' = "none" => bftWg' = Len(fnx') + At(batch') + Hold(dpc')
      BY <1>0, <2>1, <2>3, <2>4, <3>0, <3>1
    <3> QED
      BY <3>2, <3>3
<1>5. CASE FinishBatch
  <2>1. /\ fnx' = fnx /\ batch # NoDir /\ batch' = NoDir /\ bftWg' = bftWg - 1 /\ dpc' = dpc
        /\ panic = "none"
    BY <1>5 DEF FinishBatch, BftRunning, Done
  <2>2. Hold(dpc) \in Nat
    OBVIOUS
  <2> QED
    BY <1>0, <1>2, <2>1, <2>2
<1>6. CASE Dispatch
  <2>1. /\ fnx' = fnx /\ batch' = batch /\ bftWg' = bftWg /\ dpc # "send" /\ dpc' # "send"
        /\ panic' = panic
    BY <1>6 DEF Dispatch
  <2> QED
    BY <1>0, <1>2, <2>1
<1>7. CASE Add
  <2>1. /\ fnx' = fnx /\ batch' = batch /\ bftWg' = bftWg + 1 /\ dpc = "add" /\ dpc' = "send"
        /\ panic' = panic
    BY <1>7 DEF Add, Counted
  <2> QED
    BY <1>0, <1>2, <2>1
<1>8. CASE PassOn
  <2>1. /\ fnx' = Append(fnx, dir) /\ dir \in TreeDir \cup {NoDir} /\ batch' = batch
        /\ bftWg' = bftWg
        /\ dpc = "send" /\ dpc' = "recv" /\ panic' = panic
    BY <1>8 DEF PassOn, Queued, BftTyped, HandsTyped
  <2>2. Len(Append(fnx, dir)) = Len(fnx) + 1
    BY <1>0, <2>1, AppendTyped
  <2> QED
    BY <1>0, <1>2, <2>1, <2>2
<1>10. ASSUME UNCHANGED <<fnx, batch, bftWg, dpc>>, panic' = "none" => panic = "none"
       PROVE  bftWg' \in Nat /\ (panic' = "none" => bftWg' = Len(fnx') + At(batch') + Hold(dpc'))
  BY <1>0, <1>2, <1>10
<1>11. CASE DispatchEnd
  <2>1. /\ fnx' = fnx /\ batch' = batch /\ bftWg' = bftWg /\ dpc # "send" /\ dpc' # "send"
        /\ panic' = panic
    BY <1>11 DEF DispatchEnd
  <2> QED
    BY <1>0, <1>2, <2>1
<1>12. CASE Wait \/ Woken \/ CloseList \/ Exit \/ UNCHANGED bftVars
  BY <1>10, <1>12 DEF Wait, Woken, CloseList, Exit, BftRunning, bftVars
<1>13. ASSUME NEW f \in TreeFile, KidPrint(f) \/ KidSend(f)
       PROVE  bftWg' \in Nat /\ (panic' = "none" => bftWg' = Len(fnx') + At(batch') + Hold(dpc'))
  BY <1>10, <1>13 DEF KidPrint, KidSend, BftRunning
<1> QED
  BY <1>4, <1>5, <1>6, <1>7, <1>8, <1>11, <1>12, <1>13 DEF BftNext

\* What each step does to the sets.
LEMMA BeginSets ==
  ASSUME BftTyped, Begin
  PROVE  /\ InFnx = InFnx' \cup AtPrinter' /\ AtPrinter = {} /\ InHand' = InHand
         /\ InList' = InList
         /\ SeqOrder => Ordered(fnx') /\ Ordered(list') /\ Before(AtPrinter', InFnx')
<1>1. /\ fnx # <<>> /\ fnx' = Tail(fnx) /\ batch = NoDir /\ dir' = dir /\ list' = list
      /\ batch' = Head(fnx) \/ (Head(fnx) = NoDir /\ batch' = NoDir)
      /\ fnx \in Seq(TreeDir \cup {NoDir})
  BY DEF Begin, BftTyped, QueuesTyped
<1>2. Elems(fnx) = Elems(Tail(fnx)) \cup ({Head(fnx)} \ {NoDir})
  BY <1>1, TailElems
<1>3. ASSUME SeqOrder PROVE Ordered(fnx') /\ Ordered(list') /\ Before({Head(fnx)} \ {NoDir}, Elems(Tail(fnx)))
  BY <1>1, <1>3, OrderedTail DEF SeqOrder
<1> QED
  BY <1>1, <1>2, <1>3 DEF InFnx, InList, InHand, AtPrinter

\* The dispatcher takes the first of list: into its hands, or to stop for good.
LEMMA DispatchSets ==
  ASSUME BftAssumption, BftTyped, Dispatch
  PROVE  \E h \in TreeDir \cup {NoDir} :
            /\ InList = InList' \cup ({h} \ {NoDir}) /\ InHand = {}
            /\ InHand' \subseteq {h} \ {NoDir} /\ InFnx' = InFnx /\ AtPrinter' = AtPrinter
            /\ h # NoDir => \/ Level[h] <= limit /\ dpc' = "add" /\ InHand' = {h}
                            \/ Level[h] > limit /\ dpc' = "stop" /\ InHand' = {}
            /\ h = NoDir => dpc' = "recv" /\ InHand' = {}
            /\ SeqOrder => Ordered(fnx') /\ Ordered(list') /\ Before({h} \ {NoDir}, InList')
<1>1. /\ list # <<>> /\ list' = Tail(list) /\ fnx' = fnx /\ batch' = batch
      /\ dir = NoDir /\ dpc = "recv"
      /\ list \in Seq(TreeDir \cup {NoDir})
  BY DEF Dispatch, BftTyped, HandsTyped, QueuesTyped
<1>2. /\ Elems(list) = Elems(Tail(list)) \cup ({Head(list)} \ {NoDir})
      /\ Head(list) \in TreeDir \cup {NoDir}
  BY <1>1, TailElems
<1>3. ASSUME SeqOrder PROVE Ordered(fnx') /\ Ordered(list') /\ Before({Head(list)} \ {NoDir}, Elems(Tail(list)))
  BY <1>1, <1>3, OrderedTail DEF SeqOrder
<1>4. /\ Head(list) = NoDir => dpc' = "recv" /\ dir' = NoDir
      /\ Head(list) # NoDir => \/ Beyond(Head(list)) /\ dpc' = "stop" /\ dir' = NoDir
                               \/ ~Beyond(Head(list)) /\ dpc' = "add" /\ dir' = Head(list)
  BY DEF Dispatch
<1>a. limit \in Nat /\ \A q \in TreeDir : Level[q] \in Nat
  BY TreeTyped DEF BftTyped, HandsTyped
<1>5. Head(list) # NoDir => \/ Level[Head(list)] <= limit /\ dpc' = "add" /\ InHand' = {Head(list)}
                            \/ Level[Head(list)] > limit /\ dpc' = "stop" /\ InHand' = {}
  BY <1>2, <1>4, <1>a DEF InHand, Beyond
<1>6. SeqOrder => Ordered(fnx') /\ Ordered(list') /\ Before({Head(list)} \ {NoDir}, InList')
  BY <1>1, <1>3 DEF InList
<1>7. /\ InList = InList' \cup ({Head(list)} \ {NoDir}) /\ InHand = {} /\ InFnx' = InFnx
      /\ AtPrinter' = AtPrinter
      /\ Head(list) = NoDir => dpc' = "recv" /\ InHand' = {}
  BY <1>1, <1>2, <1>4 DEF InFnx, InList, InHand, AtPrinter
<1> QED
  BY <1>2, <1>5, <1>6, <1>7

\* The dispatcher adds what it holds to fnx.
LEMMA PassOnSets ==
  ASSUME BftAssumption, BftTyped, PassOn
  PROVE  /\ InFnx' = InFnx \cup InHand /\ InHand' = {} /\ InList' = InList
         /\ AtPrinter' = AtPrinter
         /\ SeqOrder /\ SetOrder => Ordered(fnx') /\ Ordered(list')
<1>1. /\ fnx' = Append(fnx, dir) /\ dir' = NoDir /\ list' = list /\ batch' = batch
      /\ dir \in TreeDir \cup {NoDir}
      /\ fnx \in Seq(TreeDir \cup {NoDir})
  BY DEF PassOn, Queued, BftTyped, HandsTyped, QueuesTyped
<1>2. Elems(Append(fnx, dir)) = Elems(fnx) \cup ({dir} \ {NoDir})
  BY <1>1, AppendElems
<1>3. ASSUME SeqOrder, SetOrder PROVE Ordered(fnx') /\ Ordered(list')
  <2>1. Before(Elems(fnx), {dir} \ {NoDir})
    BY <1>3 DEF SetOrder, Before, InFnx, InHand
  <2> QED
    BY <1>1, <1>3, <2>1, OrderedAppend DEF SeqOrder
<1> QED
  BY <1>1, <1>2, <1>3 DEF InFnx, InList, InHand, AtPrinter

\* A file of the batch that is a directory joins list, on the level below the batch.
LEMMA KidSendSets ==
  ASSUME BftAssumption, BftTyped, NEW f \in TreeFile, KidSend(f), ~listClosed, Kids, SetOrder
  PROVE  /\ InFnx' = InFnx /\ InHand' = InHand /\ AtPrinter' = AtPrinter
         /\ InList' = InList \cup ({Read(f)} \ {NoDir}) /\ Read(f) \in {f, NoDir}
         /\ f \in TreeDir /\ batch \in TreeDir /\ f \in TreeListing[batch]
         /\ Level[f] = Level[batch] + 1 /\ f \notin AtPrinter \cup Waiting
         /\ \A q \in AtPrinter \cup Waiting : Level[q] <= Level[f] /\ Level[f] <= Level[q] + 1
         /\ SeqOrder => Ordered(fnx') /\ Ordered(list')
<1>1. /\ list' = Append(list, Read(f)) /\ fnx' = fnx /\ dir' = dir /\ batch' = batch
      /\ kid[f] = "list"
      /\ list \in Seq(TreeDir \cup {NoDir})
  BY DEF KidSend, Queued, BftTyped, HandsTyped, QueuesTyped
<1>2. /\ f \in TreeDir /\ batch # NoDir /\ f \in TreeListing[batch] /\ batch \in TreeDir
      /\ f \notin AtPrinter \cup Waiting
  BY <1>1 DEF Kids, BftTyped, HandsTyped
<1>3. Level[f] = Level[batch] + 1 /\ Level[batch] \in Nat /\ \A q \in TreeDir : Level[q] \in Nat
  BY <1>2, TreeTyped
<1>4. /\ InFnx \subseteq TreeDir /\ InList \subseteq TreeDir /\ InHand \subseteq TreeDir
      /\ AtPrinter = {batch}
  BY <1>2, SetsTyped DEF AtPrinter
<1>5. \A q \in AtPrinter \cup Waiting : Level[batch] <= Level[q] /\ Level[q] <= Level[batch] + 1
  BY <1>3, <1>4 DEF SetOrder, Before, Waiting
<1>6. \A q \in AtPrinter \cup Waiting : Level[q] <= Level[f] /\ Level[f] <= Level[q] + 1
  BY <1>3, <1>4, <1>5 DEF Waiting
<1>7. Read(f) \in {f, NoDir}
  BY DEF Read
<1>8. Elems(Append(list, Read(f))) = Elems(list) \cup ({Read(f)} \ {NoDir})
  BY <1>1, <1>2, <1>7, AppendElems
<1>9. ASSUME SeqOrder PROVE Ordered(fnx') /\ Ordered(list')
  <2>1. Before(Elems(list), {Read(f)} \ {NoDir})
    BY <1>2, <1>6, <1>7 DEF Before, InList, Waiting
  <2> QED
    BY <1>1, <1>2, <1>7, <1>9, <2>1, OrderedAppend DEF SeqOrder
<1> QED
  BY <1>1, <1>2, <1>3, <1>6, <1>7, <1>8, <1>9 DEF InFnx, InList, InHand, AtPrinter

\* The batch is no longer on its way.
LEMMA FinishSets ==
  ASSUME FinishBatch
  PROVE  InFnx' = InFnx /\ InList' = InList /\ InHand' = InHand /\ AtPrinter' = {}
  BY DEF FinishBatch, InFnx, InList, InHand, AtPrinter

\* The other steps leave them alone.
Others == DispatchEnd \/ Add \/ Wait \/ Woken \/ CloseList \/ Exit \/ UNCHANGED bftVars
Panics(f) == KidSend(f) /\ listClosed
\* Such a step leaves the sets and the queues alone.
LEMMA OtherSets ==
  ASSUME Others \/ \E f \in TreeFile : KidPrint(f) \/ Panics(f)
  PROVE  /\ InFnx' = InFnx /\ InList' = InList /\ InHand' = InHand /\ AtPrinter' = AtPrinter
         /\ (SeqOrder => SeqOrder')
<1>1. UNCHANGED <<fnx, list, dir, batch>>
  BY DEF Others, Panics, DispatchEnd, Add, Wait, Woken, CloseList, Exit, bftVars, KidPrint,
     KidSend
<1> QED
  BY <1>1 DEF InFnx, InList, InHand, AtPrinter, SeqOrder

\* All steps there are.
LEMMA BftSteps ==
  ASSUME [BftNext]_bftVars
  PROVE  \/ Begin \/ FinishBatch \/ Dispatch \/ PassOn \/ Others
         \/ \E f \in TreeFile : KidPrint(f) \/ Panics(f) \/ (KidSend(f) /\ ~listClosed)
  BY DEF BftNext, Others, Panics

\* Every step keeps the order: files of the batch are one level below it, and nothing else
\* on its way is deeper than that.
LEMMA OrderStep ==
  ASSUME BftAssumption, BftTyped, SeqOrder, SetOrder, Kids, [BftNext]_bftVars
  PROVE  SeqOrder' /\ SetOrder'
<1>0. /\ InFnx \subseteq TreeDir /\ InList \subseteq TreeDir
      /\ InHand \subseteq TreeDir /\ AtPrinter \subseteq TreeDir
      /\ \A q \in TreeDir : Level[q] \in Nat
  BY SetsTyped, TreeTyped
<1>1. CASE Begin
  <2>1. /\ InFnx = InFnx' \cup AtPrinter' /\ AtPrinter = {} /\ InHand' = InHand
        /\ InList' = InList /\ Before(AtPrinter', InFnx')
        /\ Ordered(fnx') /\ Ordered(list')
    BY <1>1, BeginSets
  <2> QED
    BY <2>1 DEF SeqOrder, SetOrder, Before, Waiting
<1>2. CASE FinishBatch
  <2>1. SeqOrder'
    BY <1>2 DEF FinishBatch, SeqOrder
  <2> QED
    BY <1>2, <2>1, FinishSets DEF SetOrder, Before, Waiting
<1>3. CASE Dispatch
  <2>1. PICK h \in TreeDir \cup {NoDir} :
            /\ InList = InList' \cup ({h} \ {NoDir}) /\ InHand = {}
            /\ InHand' \subseteq {h} \ {NoDir} /\ InFnx' = InFnx /\ AtPrinter' = AtPrinter
            /\ Ordered(fnx') /\ Ordered(list') /\ Before({h} \ {NoDir}, InList')
    BY <1>3, DispatchSets
  <2>2. Waiting' \subseteq Waiting /\ InHand' \cup InList' \subseteq InHand \cup InList
    BY <2>1 DEF Waiting
  <2> QED
    BY <2>1, <2>2 DEF SeqOrder, SetOrder, Before
<1>4. CASE PassOn
  <2>1. /\ InFnx' = InFnx \cup InHand /\ InHand' = {} /\ InList' = InList
        /\ AtPrinter' = AtPrinter
        /\ Ordered(fnx') /\ Ordered(list')
    BY <1>4, PassOnSets
  <2>2. Waiting' = Waiting
    BY <2>1 DEF Waiting
  <2> QED
    BY <2>1, <2>2 DEF SeqOrder, SetOrder, Before
<1>5. ASSUME NEW f \in TreeFile, KidSend(f), ~listClosed PROVE SeqOrder' /\ SetOrder'
  <2>1. /\ InFnx' = InFnx /\ InHand' = InHand /\ AtPrinter' = AtPrinter
        /\ InList' = InList \cup ({Read(f)} \ {NoDir}) /\ Read(f) \in {f, NoDir}
        /\ f \in TreeDir /\ f \notin AtPrinter \cup Waiting
        /\ \A q \in AtPrinter \cup Waiting : Level[q] <= Level[f] /\ Level[f] <= Level[q] + 1
        /\ Ordered(fnx') /\ Ordered(list')
    BY <1>5, KidSendSets
  <2>2. /\ Waiting \subseteq Waiting' /\ Waiting' \subseteq Waiting \cup {f}
        /\ InList' \subseteq InList \cup {f} /\ InList \subseteq InList'
    BY <2>1 DEF Waiting
  <2>3. Level[f] \in Nat /\ \A q \in AtPrinter \cup Waiting : Level[q] \in Nat
    BY <1>0, <2>1 DEF Waiting
  <2>4. \A q, r \in AtPrinter' \cup Waiting' : Level[q] <= Level[r] + 1
    BY <2>1, <2>2, <2>3 DEF SetOrder
  <2>5. Before(AtPrinter', Waiting')
    BY <2>1, <2>2 DEF SetOrder, Before
  <2>6. Before(InFnx', InHand' \cup InList')
    BY <2>1, <2>2 DEF SetOrder, Before, Waiting
  <2>7. Before(InHand', InList')
    BY <2>1, <2>2 DEF SetOrder, Before, Waiting
  <2> QED
    BY <2>1, <2>4, <2>5, <2>6, <2>7 DEF SeqOrder, SetOrder
<1>6. ASSUME Others \/ \E f \in TreeFile : KidPrint(f) \/ Panics(f) PROVE SeqOrder' /\ SetOrder'
  BY <1>6, OtherSets DEF SetOrder, Waiting
<1> QED
  BY <1>1, <1>2, <1>3, <1>4, <1>5, <1>6, BftSteps

\* Files of a directory on its way to the printer are not printed yet, and neither
\* is the root.
LEMMA Fresh ==
  ASSUME BftAssumption, BftTyped, Parents
  PROVE  /\ TreeRoot \notin PrintedNames
         /\ \A q \in Waiting : TreeListing[q] \cap PrintedNames = {}
         /\ AtPrinter \cup Waiting \subseteq TreeDir
         /\ \A d \in TreeDir : TreeListing[d] \subseteq TreeFile /\ d \notin TreeListing[d] /\ TreeRoot \notin TreeListing[d]
<1>1. AtPrinter \cup Waiting \subseteq TreeDir
  BY SetsTyped DEF Waiting
<1>2. \A d \in TreeDir : TreeListing[d] \subseteq TreeFile /\ d \notin TreeListing[d] /\ TreeRoot \notin TreeListing[d]
  BY TreeTyped
<1>3. \A q \in Waiting : TreeListing[q] \cap PrintedNames = {}
  BY <1>1, TreeTyped DEF Parents
<1>4. TreeRoot \notin PrintedNames
  BY <1>2 DEF Parents
<1> QED
  BY <1>1, <1>2, <1>3, <1>4

\* A name printed joins those printed before.
LEMMA PrintSets ==
  ASSUME BftAssumption, BftTyped, Kids, NEW f \in TreeFile, KidPrint(f)
  PROVE  /\ PrintedNames' = PrintedNames \cup {f} /\ f \notin PrintedNames
         /\ batch \in TreeDir /\ AtPrinter = {batch} /\ f \in TreeListing[batch]
         /\ kid[f] = "print"
         /\ kid' = [kid EXCEPT ![f] = IF f \in TreeDir THEN "list" ELSE "done"]
         /\ InFnx' = InFnx /\ InHand' = InHand /\ InList' = InList /\ AtPrinter' = AtPrinter
<1>1. /\ bftPrinted' = Append(bftPrinted, f) /\ bftPrinted \in Seq(TreeFile) /\ kid[f] = "print"
      /\ kid' = [kid EXCEPT ![f] = IF f \in TreeDir THEN "list" ELSE "done"]
  BY DEF KidPrint, BftTyped, HandsTyped
<1>2. /\ Len(Append(bftPrinted, f)) = Len(bftPrinted) + 1 /\ Len(bftPrinted) \in Nat
      /\ \A i \in 1..Len(bftPrinted) : Append(bftPrinted, f)[i] = bftPrinted[i]
      /\ Append(bftPrinted, f)[Len(bftPrinted) + 1] = f
  BY <1>1
<1>3. PrintedNames' = PrintedNames \cup {f}
  BY <1>1, <1>2 DEF PrintedNames
<1>4. f \notin PrintedNames /\ batch # NoDir /\ f \in TreeListing[batch] /\ batch \in TreeDir
  BY <1>1 DEF Kids, BftTyped, HandsTyped
<1> QED
  BY <1>1, <1>3, <1>4, OtherSets DEF AtPrinter

\* The printer takes a directory of which nothing is printed yet, or dereferences nil.
LEMMA BeginKids ==
  ASSUME BftAssumption, BftTyped, Kids, Parents, Begin
  PROVE  /\ PrintedNames' = PrintedNames /\ batch = NoDir /\ \A f \in TreeFile : kid[f] = "none"
         /\ \/ batch' \in InFnx /\ kid' = [f \in TreeFile |-> IF f \in TreeListing[batch'] THEN "print" ELSE "none"]
               /\ TreeListing[batch'] \cap PrintedNames = {} /\ AtPrinter' = {batch'}
               /\ batch' # NoDir /\ panic' = "none"
            \/ batch' = NoDir /\ kid' = kid /\ panic' # "none"
<1>1. /\ PrintedNames' = PrintedNames /\ batch = NoDir /\ \A f \in TreeFile : kid[f] = "none"
  BY DEF Begin, PrintedNames, Kids
<1>2. CASE Head(fnx) = NoDir
  BY <1>1, <1>2 DEF Begin
<1>3. CASE Head(fnx) # NoDir
  <2>1. /\ batch' = Head(fnx) /\ batch' # NoDir /\ panic' = "none"
        /\ kid' = [f \in TreeFile |-> IF f \in TreeListing[batch'] THEN "print" ELSE "none"]
    BY <1>3 DEF Begin, BftRunning
  <2>2. AtPrinter' = {batch'} /\ AtPrinter' \subseteq InFnx
    BY <2>1, BeginSets DEF AtPrinter
  <2>3. batch' \in InFnx /\ batch' \in Waiting
    BY <2>2 DEF Waiting
  <2> QED
    BY <1>1, <2>1, <2>2, <2>3, Fresh
<1> QED
  BY <1>2, <1>3

\* The dispatcher and main leave the batch and what is printed alone.
LEMMA OtherKids ==
  ASSUME Others \/ (\E f \in TreeFile : Panics(f)) \/ Dispatch \/ PassOn
  PROVE  kid' = kid /\ PrintedNames' = PrintedNames /\ batch' = batch /\ AtPrinter' = AtPrinter
  BY DEF Others, Panics, DispatchEnd, Add, Wait, Woken, CloseList, Exit, bftVars, KidSend,
     Dispatch, PassOn, PrintedNames, AtPrinter

\* Every step keeps Kids: a directory is read once, so its files are new.
LEMMA KidsStep ==
  ASSUME BftAssumption, BftTyped, SetOrder, Kids, Parents, [BftNext]_bftVars
  PROVE  Kids'
<1>0. /\ kid \in [TreeFile -> {"none", "print", "list", "done"}]
      /\ \A d \in TreeDir : TreeListing[d] \subseteq TreeFile /\ d \notin TreeListing[d] /\ TreeRoot \notin TreeListing[d]
  BY Fresh DEF BftTyped, HandsTyped
<1>1. CASE Begin
  <2>1. /\ InFnx = InFnx' \cup AtPrinter' /\ AtPrinter = {} /\ InHand' = InHand
        /\ InList' = InList
    BY <1>1, BeginSets
  <2> QED
    BY <1>0, <1>1, <2>1, BeginKids DEF Kids, Waiting
<1>2. CASE FinishBatch
  BY <1>2 DEF FinishBatch, Kids, PrintedNames
<1>3. CASE Dispatch
  <2>1. Waiting' \subseteq Waiting
    BY <1>3, DispatchSets DEF Waiting
  <2> QED
    BY <1>3, <2>1, OtherKids DEF Kids
<1>4. CASE PassOn
  <2>1. Waiting' \subseteq Waiting
    BY <1>4, PassOnSets DEF Waiting
  <2> QED
    BY <1>4, <2>1, OtherKids DEF Kids
<1>5. ASSUME NEW f \in TreeFile, KidSend(f), ~listClosed PROVE Kids'
  <2>1. /\ Waiting' \subseteq Waiting \cup {f} /\ AtPrinter' = AtPrinter
    BY <1>5, KidSendSets DEF Waiting
  <2>2. /\ kid' = [kid EXCEPT ![f] = "done"] /\ kid[f] = "list"
        /\ PrintedNames' = PrintedNames /\ batch' = batch
    BY <1>5 DEF KidSend, PrintedNames
  <2> QED
    BY <1>0, <2>1, <2>2 DEF Kids
<1>6. ASSUME NEW f \in TreeFile, KidPrint(f) PROVE Kids'
  <2>1. f \notin AtPrinter \cup Waiting
    BY <1>6, <1>0, PrintSets DEF Parents, Waiting
  <2>2. Waiting' = Waiting /\ batch' = batch
    BY <1>6, PrintSets DEF Waiting, KidPrint
  <2> QED
    BY <1>0, <1>6, <2>1, <2>2, PrintSets DEF Kids
<1>7. ASSUME Others \/ \E f \in TreeFile : Panics(f) PROVE Kids'
  BY <1>7, OtherSets, OtherKids DEF Kids, Waiting
<1> QED
  BY <1>1, <1>2, <1>3, <1>4, <1>5, <1>6, <1>7, BftSteps

\* Every step keeps Parents: the parent of a name printed now is the batch.
LEMMA ParentsStep ==
  ASSUME BftAssumption, BftTyped, SetOrder, Kids, Parents, Limited, [BftNext]_bftVars
  PROVE  Parents'
<1>0. /\ kid \in [TreeFile -> {"none", "print", "list", "done"}]
      /\ \A d \in TreeDir : TreeListing[d] \subseteq TreeFile /\ d \notin TreeListing[d]
                          /\ TreeRoot \notin TreeListing[d] /\ d \in TreeFile
      /\ \A d \in TreeDir : Level[d] \in Nat
      /\ AtPrinter \cup Waiting \subseteq TreeDir
  BY Fresh, TreeTyped DEF BftTyped, HandsTyped
<1>9. ASSUME PrintedNames' = PrintedNames, kid' = kid,
             AtPrinter' \cup Waiting' \subseteq AtPrinter \cup Waiting,
             Waiting' \subseteq Waiting,
             limit' = limit, InHand' \cup InList' \subseteq InHand \cup InList,
             AtPrinter' \cup InFnx' \subseteq AtPrinter \cup InFnx \cup InHand
      PROVE  Parents'
  BY <1>9 DEF Parents, Known
<1>1. CASE Begin
  <2>1. /\ InFnx = InFnx' \cup AtPrinter' /\ AtPrinter = {} /\ InHand' = InHand
        /\ InList' = InList /\ limit' = limit
    BY <1>1, BeginSets DEF Begin
  <2>2. AtPrinter' \cup Waiting' = AtPrinter \cup Waiting /\ Waiting' \subseteq Waiting
    BY <2>1 DEF Waiting
  <2>3. \A d \in TreeDir : Known(d) => kid'[d] \notin {"print", "list"}
    <3>1. CASE kid' = kid
      BY <1>0, <1>1, <3>1, BeginKids
    <3>2. ASSUME batch' \in InFnx,
                 kid' = [f \in TreeFile |-> IF f \in TreeListing[batch'] THEN "print" ELSE "none"],
                 TreeListing[batch'] \cap PrintedNames = {}
          PROVE  \A d \in TreeDir : Known(d) => kid'[d] \notin {"print", "list"}
      <4>1. batch' \in TreeDir
        BY <1>0, <3>2 DEF Waiting
      <4>2. \A d \in TreeDir : Known(d) => d \notin TreeListing[batch']
        BY <1>0, <3>2, <4>1 DEF Known
      <4> QED
        BY <1>0, <3>2, <4>2
    <3> QED
      BY <1>1, <3>1, <3>2, BeginKids
  <2>4. PrintedNames' = PrintedNames
    BY <1>1, BeginKids
  <2> QED
    BY <2>1, <2>2, <2>3, <2>4 DEF Parents, Known
<1>2. CASE FinishBatch
  <2>1. /\ kid' = [g \in TreeFile |-> "none"] /\ PrintedNames' = PrintedNames /\ limit' = limit
    BY <1>2 DEF FinishBatch, PrintedNames
  <2>2. InFnx' = InFnx /\ InList' = InList /\ InHand' = InHand /\ AtPrinter' = {}
    BY <1>2, FinishSets
  <2> QED
    BY <1>0, <2>1, <2>2 DEF Parents, Known, Waiting
<1>3. CASE Dispatch
  <2>1. /\ Waiting' \subseteq Waiting /\ InHand' \cup InList' \subseteq InHand \cup InList
        /\ InFnx' = InFnx
    BY <1>3, DispatchSets DEF Waiting
  <2>2. limit' = limit
    BY <1>3 DEF Dispatch
  <2> QED
    BY <1>3, <1>9, <2>1, <2>2, OtherKids
<1>4. CASE PassOn
  <2>1. /\ InFnx' = InFnx \cup InHand /\ InHand' = {} /\ InList' = InList
        /\ Waiting' \subseteq Waiting
    BY <1>4, PassOnSets DEF Waiting
  <2>2. limit' = limit
    BY <1>4 DEF PassOn
  <2> QED
    BY <1>4, <1>9, <2>1, <2>2, OtherKids
<1>5. ASSUME NEW f \in TreeFile, KidSend(f), ~listClosed PROVE Parents'
  <2>1. /\ Waiting' \subseteq Waiting \cup {f} /\ AtPrinter' = AtPrinter /\ InFnx' = InFnx
        /\ InHand' = InHand /\ InList' \subseteq InList \cup {f} /\ f \in TreeDir
        /\ batch \in AtPrinter /\ Level[f] = Level[batch] + 1
    BY <1>5, KidSendSets, TreeTyped DEF Waiting, AtPrinter
  <2>2. /\ kid' = [kid EXCEPT ![f] = "done"] /\ kid[f] = "list"
        /\ PrintedNames' = PrintedNames /\ limit' = limit
    BY <1>5 DEF KidSend, PrintedNames
  <2>3. f \in PrintedNames
    BY <2>2 DEF Kids
  <2>4. \A d \in TreeDir : (\A q \in AtPrinter \cup Waiting : Level[d] <= Level[q]) =>
                       (\A q \in AtPrinter' \cup Waiting' : Level[d] <= Level[q])
    BY <1>0, <2>1
  <2>5. \A d \in TreeDir : kid[d] \notin {"print", "list"} => kid'[d] \notin {"print", "list"} /\ d # f
    BY <1>0, <2>2
  <2>6. \A d \in TreeDir : d # f /\ d \notin Waiting => d \notin Waiting'
    BY <2>1
  <2>7. /\ InHand' \cup InList' \subseteq PrintedNames'
        /\ AtPrinter' \cup InFnx' \subseteq PrintedNames' \cup {TreeRoot}
    BY <2>1, <2>2, <2>3 DEF Parents
  <2> QED
    BY <2>2, <2>4, <2>5, <2>6, <2>7 DEF Parents, Known
<1>6. ASSUME NEW f \in TreeFile, KidPrint(f) PROVE Parents'
  <2>1. /\ PrintedNames' = PrintedNames \cup {f} /\ batch \in TreeDir /\ AtPrinter = {batch}
        /\ f \in TreeListing[batch] /\ kid[f] = "print"
        /\ kid' = [kid EXCEPT ![f] = IF f \in TreeDir THEN "list" ELSE "done"]
        /\ InFnx' = InFnx /\ InHand' = InHand /\ InList' = InList /\ AtPrinter' = AtPrinter
        /\ Waiting' = Waiting
    BY <1>6, PrintSets DEF Waiting
  <2>2. limit' = limit
    BY <1>6 DEF KidPrint
  <2>3. /\ InHand' \cup InList' \subseteq PrintedNames'
        /\ AtPrinter' \cup InFnx' \subseteq PrintedNames' \cup {TreeRoot}
    BY <2>1 DEF Parents
  <2>4. \A d \in TreeDir : d # f => kid'[d] = kid[d]
    BY <1>0, <2>1
  <2>5. kid[batch] = "none" /\ batch # f
    BY <1>0, <2>1 DEF Kids
  <2>6. \A q \in AtPrinter \cup Waiting : Level[batch] <= Level[q]
    BY <1>0, <2>1 DEF SetOrder, Before
  <2>7. batch \notin Waiting /\ Known(batch) /\ (Level[batch] <= limit \/ batch = TreeRoot)
    BY <2>1 DEF SetOrder, Before, Parents, Known, Limited
  <2>8. ASSUME NEW g \in PrintedNames
        PROVE  \E d \in TreeDir :
                  /\ g \in TreeListing[d] /\ Known(d)'
                  /\ d \notin Waiting' /\ kid'[d] \notin {"print", "list"}
                  /\ \A q \in AtPrinter' \cup Waiting' : Level[d] <= Level[q]
                  /\ Level[d] <= limit' \/ d = TreeRoot
    BY <2>1, <2>2, <2>4 DEF Parents, Known
  <2>9. /\ f \in TreeListing[batch] /\ (batch = TreeRoot \/ batch \in PrintedNames')
        /\ batch \notin Waiting' /\ kid'[batch] \notin {"print", "list"}
        /\ \A q \in AtPrinter' \cup Waiting' : Level[batch] <= Level[q]
        /\ Level[batch] <= limit' \/ batch = TreeRoot
    <3>1. kid'[batch] = "none"
      BY <2>1, <2>4, <2>5
    <3>2. batch = TreeRoot \/ batch \in PrintedNames'
      BY <2>1, <2>7 DEF Known
    <3> QED
      BY <2>1, <2>2, <2>6, <2>7, <3>1, <3>2
  <2>10. ASSUME NEW g \in PrintedNames'
         PROVE  \E d \in TreeDir :
                   /\ g \in TreeListing[d] /\ Known(d)'
                   /\ d \notin Waiting' /\ kid'[d] \notin {"print", "list"}
                   /\ \A q \in AtPrinter' \cup Waiting' : Level[d] <= Level[q]
                   /\ Level[d] <= limit' \/ d = TreeRoot
    <3>1. CASE g \in PrintedNames
      BY <2>8, <3>1
    <3>2. CASE g = f
      BY <2>1, <2>9, <3>2 DEF Known
    <3> QED
      BY <2>1, <3>1, <3>2
  <2> QED
    BY <2>3, <2>10 DEF Parents
<1>7. ASSUME Others \/ \E f \in TreeFile : Panics(f) PROVE Parents'
  <2>1. limit' = limit
    BY <1>7 DEF Others, Panics, DispatchEnd, Add, Wait, Woken, CloseList, Exit, bftVars, KidSend
  <2>2. InFnx' = InFnx /\ InList' = InList /\ InHand' = InHand /\ AtPrinter' = AtPrinter
    BY <1>7, OtherSets
  <2> QED
    BY <1>7, <1>9, <2>1, <2>2, OtherKids DEF Waiting
<1> QED
  BY <1>1, <1>2, <1>3, <1>4, <1>5, <1>6, <1>7, BftSteps

\* Every step keeps Limited: when the dispatcher stops at a directory, no directory on its
\* way is more than one level above that.
LEMMA LimitedStep ==
  ASSUME BftAssumption, BftTyped, SeqOrder, SetOrder, Kids, Parents, Limited, [BftNext]_bftVars
  PROVE  Limited'
<1>0. /\ \A d \in TreeDir : Level[d] \in Nat
      /\ limit \in Nat /\ limit' = limit
      /\ AtPrinter \cup Waiting \subseteq TreeDir
  <2>1. limit' = limit
    BY DEF BftNext, Begin, FinishBatch, Dispatch, DispatchEnd, Add, PassOn, Wait, Woken,
       CloseList, Exit, KidPrint, KidSend, bftVars
  <2> QED
    BY <2>1, Fresh, TreeTyped DEF BftTyped, HandsTyped
<1>9. ASSUME AtPrinter' \cup InFnx' \subseteq AtPrinter \cup InFnx, InHand' \subseteq InHand,
             InList' \subseteq InList,
             dpc' = "stop" /\ ~listClosed' => dpc = "stop" /\ ~listClosed
      PROVE  Limited'
  BY <1>0, <1>9 DEF Limited
<1>1. CASE Begin
  <2>1. /\ InFnx = InFnx' \cup AtPrinter' /\ AtPrinter = {} /\ InHand' = InHand
        /\ InList' = InList
    BY <1>1, BeginSets
  <2> QED
    BY <1>1, <1>9, <2>1 DEF Begin
<1>2. CASE FinishBatch
  BY <1>2, <1>9, FinishSets DEF FinishBatch
<1>3. CASE Dispatch
  <2>0. listClosed' = listClosed /\ dpc = "recv"
    BY <1>3 DEF Dispatch
  <2>1. PICK h \in TreeDir \cup {NoDir} :
            /\ InList = InList' \cup ({h} \ {NoDir}) /\ InHand = {}
            /\ InHand' \subseteq {h} \ {NoDir} /\ InFnx' = InFnx /\ AtPrinter' = AtPrinter
            /\ h # NoDir => \/ Level[h] <= limit /\ dpc' = "add" /\ InHand' = {h}
                            \/ Level[h] > limit /\ dpc' = "stop" /\ InHand' = {}
            /\ h = NoDir => dpc' = "recv" /\ InHand' = {}
            /\ Before({h} \ {NoDir}, InList')
    BY <1>3, DispatchSets
  <2>2. \A q \in AtPrinter' \cup InFnx' \cup InHand' : Level[q] <= limit' \/ q = TreeRoot
    BY <1>0, <2>1 DEF Limited
  <2>3. ASSUME dpc' = "stop"
        PROVE  (\A q \in AtPrinter' \cup InFnx' : Level[q] >= limit') /\ \A q \in InList' : Level[q] > limit'
    <3>1. h # NoDir /\ Level[h] > limit /\ h \in InList /\ h \in TreeDir /\ h \in Waiting
      BY <2>1, <2>3 DEF Waiting
    <3>2. \A q \in AtPrinter \cup Waiting : Level[h] <= Level[q] + 1
      BY <3>1 DEF SetOrder
    <3>3. \A q \in AtPrinter' \cup InFnx' : Level[q] >= limit'
      BY <1>0, <2>1, <3>1, <3>2 DEF Waiting
    <3>4. \A q \in InList' : Level[h] <= Level[q]
      BY <2>1, <3>1 DEF Before
    <3>5. \A q \in InList' : Level[q] > limit'
      BY <1>0, <2>1, <3>1, <3>4 DEF Waiting
    <3> QED
      BY <3>3, <3>5
  <2> QED
    BY <2>2, <2>3 DEF Limited
<1>4. CASE PassOn
  <2>1. /\ InFnx' = InFnx \cup InHand /\ InHand' = {} /\ InList' = InList
        /\ AtPrinter' = AtPrinter /\ dpc' = "recv"
    BY <1>4, PassOnSets DEF PassOn
  <2> QED
    BY <1>0, <2>1 DEF Limited
<1>5. ASSUME NEW f \in TreeFile, KidSend(f), ~listClosed PROVE Limited'
  <2>1. /\ AtPrinter' = AtPrinter /\ InFnx' = InFnx /\ InHand' = InHand
        /\ InList' \subseteq InList \cup {f} /\ f \in TreeDir
        /\ batch \in AtPrinter /\ Level[f] = Level[batch] + 1 /\ batch \in TreeDir
    BY <1>5, KidSendSets, TreeTyped DEF AtPrinter
  <2>2. dpc' = dpc /\ listClosed' = listClosed
    BY <1>5 DEF KidSend
  <2> QED
    BY <1>0, <2>1, <2>2 DEF Limited
<1>6. ASSUME Others \/ \E f \in TreeFile : KidPrint(f) \/ Panics(f) PROVE Limited'
  <2>1. InFnx' = InFnx /\ InList' = InList /\ InHand' = InHand /\ AtPrinter' = AtPrinter
    BY <1>6, OtherSets
  <2>2. dpc' = "stop" /\ ~listClosed' => dpc = "stop" /\ ~listClosed
    BY <1>6 DEF Others, Panics, DispatchEnd, Add, Wait, Woken, CloseList, Exit, bftVars,
       KidSend, KidPrint
  <2> QED
    BY <1>9, <2>1, <2>2
<1> QED
  BY <1>1, <1>2, <1>3, <1>4, <1>5, <1>6, BftSteps

\* Every step keeps the order of the names: the batch is on no higher level than any parent
\* of a name printed before.
LEMMA PrintedInOrderStep ==
  ASSUME BftAssumption, BftTyped, SetOrder, Kids, Parents, PrintedInOrder, [BftNext]_bftVars
  PROVE  PrintedInOrder'
<1>1. CASE bftPrinted' = bftPrinted
  BY <1>1 DEF PrintedInOrder
<1>2. ASSUME NEW f \in TreeFile, KidPrint(f) PROVE PrintedInOrder'
  <2>1. bftPrinted' = Append(bftPrinted, f) /\ bftPrinted \in Seq(TreeFile)
    BY <1>2 DEF KidPrint, BftTyped, HandsTyped
  <2>2. /\ Len(bftPrinted') = Len(bftPrinted) + 1 /\ Len(bftPrinted) \in Nat
        /\ \A i \in 1..Len(bftPrinted) : bftPrinted'[i] = bftPrinted[i] /\ bftPrinted[i] \in PrintedNames
        /\ bftPrinted'[Len(bftPrinted) + 1] = f
    BY <2>1 DEF PrintedNames
  <2>3. /\ f \notin PrintedNames /\ batch \in TreeDir /\ f \in TreeListing[batch]
        /\ batch \in AtPrinter
    BY <1>2, PrintSets
  <2>4. \A g \in PrintedNames : \A d, e \in TreeDir : g \in TreeListing[d] /\ f \in TreeListing[e] => Level[d] <= Level[e]
    <3>1. SUFFICES ASSUME NEW g \in PrintedNames, NEW d \in TreeDir, NEW e \in TreeDir,
                          g \in TreeListing[d], f \in TreeListing[e]
                   PROVE  Level[d] <= Level[e]
      OBVIOUS
    <3>2. e = batch
      BY <2>3, <3>1, TreeTyped
    <3>3. PICK c \in TreeDir : g \in TreeListing[c] /\ \A q \in AtPrinter \cup Waiting : Level[c] <= Level[q]
      BY DEF Parents
    <3>4. c = d
      BY <3>1, <3>3, TreeTyped
    <3> QED
      BY <2>3, <3>2, <3>3, <3>4
  <2>5. SUFFICES ASSUME NEW i \in 1..Len(bftPrinted'), NEW j \in 1..Len(bftPrinted'), i < j
                 PROVE  /\ bftPrinted'[i] # bftPrinted'[j]
                        /\ \A d, e \in TreeDir : bftPrinted'[i] \in TreeListing[d] /\ bftPrinted'[j] \in TreeListing[e] =>
                                                Level[d] <= Level[e]
    BY DEF PrintedInOrder
  <2>6. i \in 1..Len(bftPrinted)
    BY <2>2, <2>5
  <2>7. CASE j \in 1..Len(bftPrinted)
    BY <2>2, <2>5, <2>6, <2>7 DEF PrintedInOrder
  <2>8. CASE j = Len(bftPrinted) + 1
    BY <2>2, <2>3, <2>4, <2>6, <2>8
  <2> QED
    BY <2>2, <2>5, <2>7, <2>8
<1> QED
  BY <1>1, <1>2 DEF BftNext, Begin, FinishBatch, Dispatch, DispatchEnd, Add, PassOn, Wait,
     Woken, CloseList, Exit, KidSend, bftVars

\* Every step keeps Left: only what is beyond the limit is dropped.
LEMMA LeftStep ==
  ASSUME BftAssumption, BftTyped, SetOrder, Kids, Parents, Limited, Left, [BftNext]_bftVars
  PROVE  Left'
<1>0. /\ kid \in [TreeFile -> {"none", "print", "list", "done"}]
      /\ \A d \in TreeDir : TreeListing[d] \subseteq TreeFile /\ d \in TreeFile /\ Level[d] \in Nat
      /\ limit \in Nat /\ limit' = limit /\ unreadable' = unreadable
      /\ AtPrinter \cup Waiting \subseteq TreeDir /\ TreeRoot \notin PrintedNames
      /\ panic' = "none" => panic = "none"
  <2>1. limit' = limit /\ unreadable' = unreadable /\ (panic' = "none" => panic = "none")
    BY DEF BftNext, Begin, FinishBatch, Dispatch, DispatchEnd, Add, PassOn, Wait, Woken,
       CloseList, Exit, KidPrint, KidSend, bftVars,
           BftRunning
  <2> QED
    BY <2>1, Fresh, TreeTyped DEF BftTyped, HandsTyped
<1> SUFFICES ASSUME panic' = "none", NEW d \in TreeDir \ unreadable', Known(d)', Level[d] <= limit' \/ d = TreeRoot
             PROVE  TreeListing[d] \subseteq PrintedNames' \/ d \in AtPrinter' \cup Waiting' \/ kid'[d] = "list"
  BY DEF Left
<1>9. ASSUME PrintedNames' = PrintedNames
      PROVE  TreeListing[d] \subseteq PrintedNames \/ d \in AtPrinter \cup Waiting \/ kid[d] = "list"
  BY <1>0, <1>9 DEF Left, Known
<1>1. CASE Begin
  <2>1. /\ InFnx = InFnx' \cup AtPrinter' /\ AtPrinter = {} /\ InHand' = InHand
        /\ InList' = InList
    BY <1>1, BeginSets
  <2>2. PrintedNames' = PrintedNames /\ kid[d] = "none"
    BY <1>0, <1>1, BeginKids
  <2> QED
    BY <1>9, <2>1, <2>2 DEF Waiting
<1>2. CASE FinishBatch
  <2>1. PrintedNames' = PrintedNames /\ \A f \in TreeFile : kid[f] \in {"none", "done"}
    BY <1>2 DEF FinishBatch, PrintedNames
  <2>2. InFnx' = InFnx /\ InList' = InList /\ InHand' = InHand
    BY <1>2, FinishSets
  <2>3. d \in AtPrinter => TreeListing[d] \subseteq PrintedNames
    <3>1. SUFFICES ASSUME d = batch, batch # NoDir,
                          NEW f \in TreeListing[d] PROVE f \in PrintedNames
      BY DEF AtPrinter
    <3>2. f \in TreeFile /\ kid[f] # "none"
      BY <1>0, <3>1 DEF Kids
    <3> QED
      BY <2>1, <3>2 DEF Kids
  <2> QED
    BY <1>0, <1>9, <2>1, <2>2, <2>3 DEF Waiting
<1>3. CASE Dispatch
  <2>1. PICK h \in TreeDir \cup {NoDir} :
            /\ InList = InList' \cup ({h} \ {NoDir}) /\ InHand = {} /\ InFnx' = InFnx
            /\ AtPrinter' = AtPrinter
            /\ h # NoDir => InHand' = {h} \/ Level[h] > limit
    BY <1>3, DispatchSets
  <2>2. PrintedNames' = PrintedNames /\ kid' = kid
    BY <1>3, OtherKids
  <2>3. d \in InList => d # TreeRoot
    BY <1>0 DEF Parents
  <2>4. d \in InList => d \in InList' \cup InHand'
    BY <1>0, <2>1, <2>3
  <2> QED
    BY <1>9, <2>1, <2>2, <2>4 DEF Waiting
<1>4. CASE PassOn
  <2>1. InFnx' = InFnx \cup InHand /\ InList' = InList /\ AtPrinter' = AtPrinter
    BY <1>4, PassOnSets
  <2> QED
    BY <1>4, <1>9, <2>1, OtherKids DEF Waiting
<1>5. ASSUME NEW f \in TreeFile, KidSend(f), ~listClosed
      PROVE  TreeListing[d] \subseteq PrintedNames' \/ d \in AtPrinter' \cup Waiting' \/ kid'[d] = "list"
  <2>1. /\ InFnx' = InFnx /\ InHand' = InHand /\ AtPrinter' = AtPrinter
        /\ InList' = InList \cup ({Read(f)} \ {NoDir})
    BY <1>5, KidSendSets
  <2>2. kid' = [kid EXCEPT ![f] = "done"] /\ PrintedNames' = PrintedNames
    BY <1>5 DEF KidSend, PrintedNames
  <2>3. d = f => d \in InList'
    BY <1>0, <2>1, TreeTyped DEF Read
  <2>4. d # f => kid'[d] = kid[d]
    BY <1>0, <2>2
  <2> QED
    BY <1>9, <2>1, <2>2, <2>3, <2>4 DEF Waiting
<1>6. ASSUME NEW f \in TreeFile, KidPrint(f)
      PROVE  TreeListing[d] \subseteq PrintedNames' \/ d \in AtPrinter' \cup Waiting' \/ kid'[d] = "list"
  <2>1. /\ PrintedNames' = PrintedNames \cup {f} /\ kid[f] = "print"
        /\ kid' = [kid EXCEPT ![f] = IF f \in TreeDir THEN "list" ELSE "done"]
        /\ AtPrinter' = AtPrinter /\ Waiting' = Waiting
    BY <1>6, PrintSets DEF Waiting
  <2>2. CASE d = f
    BY <1>0, <2>1, <2>2
  <2>3. CASE d # f
    <3>1. Known(d) /\ kid'[d] = kid[d]
      BY <1>0, <2>1, <2>3 DEF Known
    <3>2. TreeListing[d] \subseteq PrintedNames \/ d \in AtPrinter \cup Waiting \/ kid[d] = "list"
      BY <1>0, <3>1 DEF Left
    <3> QED
      BY <2>1, <3>1, <3>2
  <2> QED
    BY <2>2, <2>3
<1>7. ASSUME NEW f \in TreeFile, Panics(f) PROVE FALSE
  BY <1>7 DEF Panics, KidSend
<1>8. ASSUME Others PROVE TreeListing[d] \subseteq PrintedNames' \/ d \in AtPrinter' \cup Waiting' \/ kid'[d] = "list"
  BY <1>8, <1>9, OtherSets, OtherKids DEF Waiting
<1> QED
  BY <1>1, <1>2, <1>3, <1>4, <1>5, <1>6, <1>7, <1>8, BftSteps

----------------------------------------------------------------------------
(* The theorems. *)

\* Every step keeps the invariant.
LEMMA BftStep ==
  ASSUME BftAssumption, BftIInv, [BftNext]_bftVars
  PROVE  BftIInv'
BY BftTypedStep, WgCountsStep, OrderStep, KidsStep, ParentsStep, LimitedStep,
   PrintedInOrderStep, LeftStep DEF BftIInv

\* What the invariant says of the names.
LEMMA BftMeaning ==
  ASSUME BftAssumption, BftIInv
  PROVE  BftInv /\ LevelOrder /\ NoneLeftBehind
<1>1. BftInv
  BY DEF BftIInv, BftTyped, QueuesTyped, HandsTyped, WgCounts, BftInv, BftTypeOK
<1>2. \A f \in PrintedNames : DirOf(f) \in TreeDir /\ f \in TreeListing[DirOf(f)]
  BY DEF BftIInv, Parents, DirOf
<1>3. \A f \in PrintedNames : Level[DirOf(f)] <= limit \/ DirOf(f) = TreeRoot
  BY <1>2, TreeTyped DEF BftIInv, Parents
<1>4. \A i \in 1..Len(bftPrinted) : bftPrinted[i] \in PrintedNames
  BY DEF PrintedNames
<1>5. LevelOrder
  BY <1>2, <1>3, <1>4 DEF LevelOrder, BftIInv, PrintedInOrder
<1>6. ASSUME panic = "none", NEW d \in TreeDir \ unreadable, Known(d),
             Level[d] <= limit \/ d = TreeRoot
      PROVE  \/ TreeListing[d] \subseteq PrintedNames
             \/ d \in Held /\ (dpc = "stop" /\ ~listClosed => d \in {fnx[i] : i \in 1..Len(fnx)} \cup {batch})
  <2>1. \/ TreeListing[d] \subseteq PrintedNames
        \/ d \in AtPrinter \cup Waiting
        \/ kid[d] = "list"
    BY <1>6 DEF BftIInv, Left
  <2>2. d # NoDir /\ Level[d] \in Nat /\ limit \in Nat /\ TreeRoot \notin PrintedNames
    BY TreeTyped, Fresh DEF BftIInv, BftTyped, HandsTyped
  <2>3. /\ d \in AtPrinter => d = batch
        /\ d \in InFnx => d \in {fnx[i] : i \in 1..Len(fnx)}
        /\ d \in InList => d \in {list[i] : i \in 1..Len(list)}
        /\ d \in InHand => d = dir /\ dpc # "stop"
    BY DEF AtPrinter, InFnx, InList, InHand, Elems, BftIInv, BftTyped, HandsTyped
  <2>4. kid[d] = "list" => d \in Held
    BY DEF Held
  <2>5. d \in AtPrinter \cup Waiting => d \in Held
    BY <2>3 DEF Held, Waiting
  <2>6. ASSUME dpc = "stop", ~listClosed, kid[d] = "list"
        PROVE  FALSE
    <3>1. batch \in TreeDir /\ d \in TreeListing[batch] /\ batch \in AtPrinter
      BY <2>6, TreeTyped DEF BftIInv, Kids, BftTyped, HandsTyped, AtPrinter
    <3>2. Level[d] = Level[batch] + 1 /\ d # TreeRoot /\ Level[batch] \in Nat
      BY <3>1, TreeTyped
    <3>3. Level[batch] >= limit
      BY <2>6, <3>1 DEF BftIInv, Limited
    <3> QED
      BY <1>6, <2>2, <3>2, <3>3
  <2>7. ASSUME dpc = "stop", ~listClosed, d \in InList
        PROVE  FALSE
    <3>1. Level[d] > limit /\ d # TreeRoot
      BY <2>2, <2>7 DEF BftIInv, Limited, Parents
    <3> QED
      BY <1>6, <2>2, <3>1
  <2> QED
    BY <2>1, <2>3, <2>4, <2>5, <2>6, <2>7 DEF Waiting
<1> QED
  BY <1>1, <1>5, <1>6 DEF NoneLeftBehind

\* The invariant of bft.
THEOREM BftInvariance ==
  ASSUME BftAssumption
  PROVE  BftSpec => []BftIInv
<1>1. BftInit => BftIInv
  BY BftInitRight
<1>2. BftIInv /\ [BftNext]_bftVars => BftIInv'
  BY BftStep
<1> QED
  BY <1>1, <1>2, PTL DEF BftSpec

\* For any tree, any limit and any room in the channels: the names come level by level and
\* none twice, and no directory within the limit is left behind, although the files of a
\* directory are printed by concurrent goroutines and the dispatcher stops at the first
\* directory beyond the limit (walk.go:231-269).
THEOREM LevelByLevel ==
  ASSUME BftAssumption
  PROVE  BftSpec => []BreadthFirst
<1>1. BftIInv => BreadthFirst
  BY BftMeaning DEF BreadthFirst
<1> QED
  BY <1>1, BftInvariance, PTL
=============================================================================
