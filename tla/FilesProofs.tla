---------------------------- MODULE FilesProofs ----------------------------
(***************************************************************************)
(* Proofs about argfile, for any argument lists, any number of tickets and *)
(* of callers of Close and whichever names can be opened (tickets and the  *)
(* WaitGroup count the files in use, and at most MaxFD are open), and that *)
(* wc and edit, over the files of argfile, are right for every list, every *)
(* number of tickets and every text.                                       *)
(*                                                                         *)
(* Both use argfile's inductive invariant: a step of the tool is a step of *)
(* argfile, or leaves argfile alone (WcArgStep, EditArgStep).  For wc the  *)
(* files handed over are the goroutines started, what the goroutines that  *)
(* are done reported is what was shown or is in the channel, and the total *)
(* is at any time the sum of the counts of some files that were added; a   *)
(* goroutine writes back a sum without its own file, whatever was written  *)
(* meanwhile.  For edit the file main is at is the last one handed over,   *)
(* and the disk is what the command has made of it up to there.            *)
(***************************************************************************)
EXTENDS Wc, Edit, FiniteSetTheorems, SequenceTheorems, WellFoundedInduction, TLAPS

----------------------------------------------------------------------------
(* argfile. *)

\* A step of the goroutines of argfile, whichever names can be opened at the moment.
AnyStep(there) == EmitWith(there) \/ \E i \in Index : Hand(i) \/ \E c \in Caller : Close(i, c)

\* emit and its channels.
EmitTyped ==
    /\ names \in Lists
    /\ epc \in {"ticket", "open", "send", "close", "closeTo", "stop"} /\ epos \in Nat \ {0}
    /\ ticketClosed \in BOOLEAN /\ toClosed \in BOOLEAN

\* The files.
FilesTyped ==
    /\ cap \in [Index -> BOOLEAN]
    /\ fd \in [Index -> {"none", "open", "closed"}]
    /\ closing \in [Index -> [Caller -> {"none", "call", "closefn", "done", "release", "over"}]]

\* Both counts stay within bounds.
CountsTyped == tickets \in 0..MaxFD /\ wg \in Nat

\* The stages of a call of Close that has taken the capability.
Closer == {"closefn", "done", "release"}

\* The life of a file: until it is handed over nobody closes it; from then on either the
\* capability is in its channel or one caller has taken it, who closes the descriptor.
OneCloser ==
    \A i \in Index :
        /\ fd[i] = "none" => ~cap[i]
        /\ cap[i] => fd[i] = "open" /\ \A c \in Caller : closing[i][c] \in {"none", "call"}
        /\ \A c \in Caller : closing[i][c] = "closefn" => fd[i] = "open"
        /\ \A c \in Caller : closing[i][c] \in {"done", "release"} => fd[i] = "closed"
        /\ \A c, d \in Caller : closing[i][c] \in Closer /\ closing[i][d] \in Closer => c = d
        /\ i >= epos => \A c \in Caller : closing[i][c] = "none"
        /\ i > epos \/ (i = epos /\ epc # "send") => fd[i] = "none"

\* Where emit is.
Stages ==
    /\ epc \in {"open", "send"} => epos \in Index
    /\ epc = "send" => fd[epos] = "open"
    /\ ticketClosed => epc \in {"closeTo", "stop"}
    /\ toClosed => epc = "stop"
    /\ (epc = "close" \/ ticketClosed \/ (names # <<>> /\ epc \in {"closeTo", "stop"})) =>
           \A i \in Index : fd[i] = "closed"

\* The files that hold a ticket or a count: those emit has begun with whose Close has not
\* passed the stages.
Held(stages) == {i \in Acquired : ~Past(i, stages)}

\* The list has a length, and emit is at one of its indices or behind it.
LEMMA ListTyped ==
  ASSUME ArgFileAssumption, EmitTyped
  PROVE  /\ Given \in Seq(Name) /\ Len(Given) \in Nat /\ epos \in Nat /\ epos >= 1 /\ Index = 1..Len(Given)
         /\ IsFiniteSet(Index)
<1>1. names \in Seq(Name) /\ Stdin \in Name
  BY DEF ArgFileAssumption, EmitTyped
<1>2. Given \in Seq(Name)
  BY <1>1 DEF Given
<1>3. Len(Given) \in Nat
  BY <1>2, LenProperties
<1>4. 1 \in Int /\ Len(Given) \in Int
  BY <1>3
<1>5. IsFiniteSet(Index)
  BY <1>4, FS_Interval, Zenon DEF Index
<1> QED
  BY <1>2, <1>3, <1>5 DEF EmitTyped, Index

\* The list never changes.
LEMMA SameList ==
  ASSUME NEW there, [AnyStep(there)]_vars
  PROVE  names' = names /\ Given' = Given /\ Index' = Index
<1>1. names' = names
  BY DEF AnyStep, EmitWith, Ticket, Open, OpenWorks, OpenFails, Wait, CloseTicket, CloseTo,
     Hand,
         Close, CloseTake, CloseFn, CloseDone, CloseRelease, vars
<1> QED
  BY <1>1 DEF Given, Index

\* The files that hold something can be counted.
LEMMA HeldFinite ==
  ASSUME ArgFileAssumption, EmitTyped, NEW stages
  PROVE  IsFiniteSet(Held(stages)) /\ Cardinality(Held(stages)) \in Nat
<1>1. Held(stages) \subseteq Index
  BY DEF Held, Acquired
<1> QED
  BY <1>1, ListTyped, FS_Subset, FS_CardinalityType

----------------------------------------------------------------------------
\* Every step keeps the types of emit and of the files.
LEMMA TypedStep ==
  ASSUME ArgFileAssumption, EmitTyped, FilesTyped, Stages, NEW there, [AnyStep(there)]_vars
  PROVE  EmitTyped' /\ FilesTyped'
<1>0. names' = names /\ Index' = Index /\ epos \in Nat
  BY SameList, ListTyped
<1>1. CASE Ticket
  BY <1>0, <1>1 DEF Ticket, EmitTyped, FilesTyped
<1>2. CASE Open(there)
  <2>1. CASE OpenWorks
    BY <1>0, <1>2, <2>1 DEF Open, OpenWorks, EmitTyped, FilesTyped
  <2>2. CASE OpenFails
    <3>1. epos' = epos + 1 /\ epos' \in Nat \ {0}
      BY <1>0, <2>2 DEF OpenFails, EmitTyped
    <3> QED
      BY <1>0, <2>2, <3>1 DEF OpenFails, EmitTyped, FilesTyped
  <2> QED
    BY <1>2, <2>1, <2>2 DEF Open
<1>3. CASE Wait
  BY <1>0, <1>3 DEF Wait, EmitTyped, FilesTyped
<1>4. CASE CloseTicket
  BY <1>0, <1>4 DEF CloseTicket, EmitTyped, FilesTyped
<1>5. CASE CloseTo
  BY <1>0, <1>5 DEF CloseTo, EmitTyped, FilesTyped
<1>6. ASSUME NEW i \in Index, Hand(i) PROVE EmitTyped' /\ FilesTyped'
  <2>1. epos' = epos + 1 /\ epos' \in Nat \ {0}
    BY <1>0, <1>6 DEF Hand, EmitTyped
  <2>2. EmitTyped'
    BY <1>0, <1>6, <2>1 DEF Hand, EmitTyped
  <2>3. FilesTyped'
    BY <1>0, <1>6 DEF Hand, FilesTyped
  <2> QED
    BY <2>2, <2>3
<1>a. ASSUME NEW i \in Index, NEW c \in Caller,
             NEW s \in {"none", "call", "closefn", "done", "release", "over"}, Step(i, c, s)
      PROVE  closing' \in [Index -> [Caller -> {"none", "call", "closefn", "done", "release", "over"}]]
  BY <1>a DEF FilesTyped, Step
<1>7. ASSUME NEW i \in Index, NEW c \in Caller, Close(i, c) PROVE EmitTyped' /\ FilesTyped'
  <2>1. EmitTyped'
    BY <1>0, <1>7 DEF Close, CloseTake, CloseFn, CloseDone, CloseRelease, EmitTyped
  <2>2. CASE CloseTake(i, c)
    <3>1. cap' \in [Index -> BOOLEAN]
      BY <2>2 DEF CloseTake, CapTaken, FilesTyped
    <3>2. Step(i, c, "closefn") \/ Step(i, c, "over")
      BY <2>2 DEF CloseTake
    <3>3. closing' \in [Index -> [Caller -> {"none", "call", "closefn", "done", "release", "over"}]]
      BY <3>2, <1>a
    <3> QED
      BY <1>0, <2>1, <2>2, <3>1, <3>3 DEF FilesTyped, CloseTake
  <2>3. CASE CloseFn(i, c)
    BY <1>0, <2>1, <2>3 DEF FilesTyped, CloseFn, Shut, Step
  <2>4. CASE CloseDone(i, c) \/ CloseRelease(i, c)
    <3>1. Step(i, c, "release") \/ Step(i, c, "over")
      BY <2>4 DEF CloseDone, CloseRelease
    <3>2. closing' \in [Index -> [Caller -> {"none", "call", "closefn", "done", "release", "over"}]]
      BY <3>1, <1>a
    <3>3. cap' = cap /\ fd' = fd
      BY <2>4 DEF CloseDone, CloseRelease
    <3> QED
      BY <1>0, <2>1, <3>2, <3>3 DEF FilesTyped
  <2> QED
    BY <1>7, <2>2, <2>3, <2>4 DEF Close
<1>8. CASE UNCHANGED vars
  <2>1. EmitTyped'
    BY <1>0, <1>8 DEF EmitTyped, vars
  <2>2. FilesTyped'
    BY <1>0, <1>8 DEF FilesTyped, vars
  <2> QED
    BY <2>1, <2>2
<1> QED
  BY <1>1, <1>2, <1>3, <1>4, <1>5, <1>6, <1>7, <1>8 DEF AnyStep, EmitWith

\* The capability is taken by one caller, who shuts the file first and then gives back.
LEMMA OneCloserStep ==
  ASSUME ArgFileAssumption, EmitTyped, FilesTyped, OneCloser, Stages, NEW there, [AnyStep(there)]_vars
  PROVE  OneCloser'
<1>0. Index' = Index /\ names' = names /\ Index \subseteq Nat /\ epos \in Nat
  BY SameList, ListTyped
<1>1. CASE Ticket
  BY <1>0, <1>1 DEF Ticket, OneCloser
<1>2. CASE Open(there)
  <2>1. CASE OpenWorks
    BY <1>0, <1>2, <2>1 DEF Open, OpenWorks, OneCloser, FilesTyped, Stages
  <2>2. CASE OpenFails
    BY <1>0, <1>2, <2>2 DEF Open, OpenFails, OneCloser
  <2> QED
    BY <1>2, <2>1, <2>2 DEF Open
<1>3. CASE Wait
  BY <1>0, <1>3 DEF Wait, OneCloser
<1>4. CASE CloseTicket
  BY <1>0, <1>4 DEF CloseTicket, OneCloser
<1>5. CASE CloseTo
  BY <1>0, <1>5 DEF CloseTo, OneCloser
<1>6. ASSUME NEW i \in Index, Hand(i) PROVE OneCloser'
  BY <1>0, <1>6 DEF Hand, OneCloser, FilesTyped, Closer, Stages
<1>7. ASSUME NEW i \in Index, NEW c \in Caller, CloseTake(i, c) PROVE OneCloser'
  <2>1. CASE cap[i]
    BY <1>0, <1>7, <2>1 DEF CloseTake, CapTaken, Step, OneCloser, FilesTyped, Closer
  <2>2. CASE ~cap[i]
    BY <1>0, <1>7, <2>2 DEF CloseTake, Step, OneCloser, FilesTyped, Closer
  <2> QED
    BY <2>1, <2>2
<1>8. ASSUME NEW i \in Index, NEW c \in Caller, CloseFn(i, c) PROVE OneCloser'
  BY <1>0, <1>8 DEF CloseFn, Shut, Step, OneCloser, FilesTyped, Closer
<1>9. ASSUME NEW i \in Index, NEW c \in Caller, CloseDone(i, c) PROVE OneCloser'
  BY <1>0, <1>9 DEF CloseDone, Step, OneCloser, FilesTyped, Closer
<1>10. ASSUME NEW i \in Index, NEW c \in Caller, CloseRelease(i, c) PROVE OneCloser'
  BY <1>0, <1>10 DEF CloseRelease, Step, OneCloser, FilesTyped, Closer
<1>11. CASE UNCHANGED vars
  BY <1>0, <1>11 DEF vars, OneCloser
<1> QED
  BY <1>1, <1>2, <1>3, <1>4, <1>5, <1>6, <1>7, <1>8, <1>9, <1>10, <1>11 DEF AnyStep,
     EmitWith, Close

\* What a step does to the files that hold a count or a ticket.
LEMMA HeldStep ==
  ASSUME ArgFileAssumption, EmitTyped, FilesTyped, OneCloser, Stages, NEW there, NEW stages,
         stages \subseteq {"done", "release"}, "done" \in stages
  PROVE  /\ Ticket => Held(stages)' = Held(stages) \cup {epos} /\ epos \notin Held(stages)
         /\ Open(there) \/ Wait \/ CloseTicket \/ CloseTo \/ UNCHANGED vars => Held(stages)' = Held(stages)
         /\ \A i \in Index : Hand(i) => Held(stages)' = Held(stages)
         /\ \A i \in Index, c \in Caller :
               /\ CloseTake(i, c) \/ CloseFn(i, c) => Held(stages)' = Held(stages)
               /\ CloseDone(i, c) => IF "release" \in stages THEN Held(stages)' = Held(stages)
                                     ELSE Held(stages)' = Held(stages) \ {i} /\ i \in Held(stages)
               /\ CloseRelease(i, c) => IF "release" \in stages
                                        THEN Held(stages)' = Held(stages) \ {i} /\ i \in Held(stages)
                                        ELSE Held(stages)' = Held(stages)
<1>0. Index \subseteq Nat /\ epos \in Nat /\ epos >= 1 /\ Index = 1..Len(Given) /\ Len(Given) \in Nat
  BY ListTyped
<1>s. ASSUME names' = names PROVE Given' = Given /\ Index' = Index
  BY <1>s DEF Given, Index
<1>1. ASSUME Ticket PROVE Held(stages)' = Held(stages) \cup {epos} /\ epos \notin Held(stages)
  <2>1. /\ Index' = Index /\ epos \in Index /\ epc = "ticket" /\ epc' = "open"
        /\ fd' = fd /\ closing' = closing /\ epos' = epos
    BY <1>0, <1>1, <1>s DEF Ticket
  <2>2. Acquired' = Acquired \cup {epos} /\ epos \notin Acquired
    BY <1>0, <2>1 DEF Acquired
  <2>3. \A i \in Index : Past(i, stages)' = Past(i, stages)
    BY <2>1 DEF Past
  <2>4. ~Past(epos, stages)
    BY <2>1 DEF Past, OneCloser
  <2> QED
    BY <2>1, <2>2, <2>3, <2>4 DEF Held, Acquired
<1>2. ASSUME Open(there) \/ Wait \/ CloseTicket \/ CloseTo \/ UNCHANGED vars PROVE Held(stages)' = Held(stages)
  <2>1. Index' = Index /\ closing' = closing /\ Acquired' = Acquired
    BY <1>0, <1>2, <1>s DEF Open, OpenWorks, OpenFails, Wait, CloseTicket, CloseTo, vars,
       Acquired, Stages
  <2>2. \A i \in Index : fd'[i] = "closed" <=> fd[i] = "closed"
    BY <1>0, <1>2 DEF Open, OpenWorks, OpenFails, Wait, CloseTicket, CloseTo, vars,
       FilesTyped, OneCloser
  <2> QED
    BY <2>1, <2>2 DEF Held, Acquired, Past
<1>3. ASSUME NEW i \in Index, Hand(i) PROVE Held(stages)' = Held(stages)
  <2>1. Index' = Index /\ fd' = fd /\ fd[i] = "open" /\ Acquired' = Acquired
    BY <1>0, <1>3, <1>s DEF Hand, Acquired, Stages
  <2>2. \A j \in Index : j # i => closing'[j] = closing[j]
    BY <1>3 DEF Hand, FilesTyped
  <2> QED
    BY <2>1, <2>2 DEF Held, Acquired, Past
<1>4. ASSUME NEW i \in Index, NEW c \in Caller, NEW s, Step(i, c, s), names' = names, epos' = epos, epc' = epc
      PROVE  /\ Index' = Index /\ Acquired' = Acquired
             /\ \A j \in Index : j # i => closing'[j] = closing[j]
             /\ closing'[i][c] = s /\ \A d \in Caller : d # c => closing'[i][d] = closing[i][d]
  BY <1>4, <1>s DEF Step, Acquired, FilesTyped
<1>5. ASSUME NEW i \in Index, NEW c \in Caller, CloseTake(i, c) PROVE Held(stages)' = Held(stages)
  <2>1. fd' = fd /\ names' = names /\ epos' = epos /\ epc' = epc /\ closing[i][c] = "call"
    BY <1>5 DEF CloseTake
  <2>2. Step(i, c, "closefn") \/ Step(i, c, "over")
    BY <1>5 DEF CloseTake
  <2>3. /\ Index' = Index /\ Acquired' = Acquired
        /\ \A j \in Index : j # i => closing'[j] = closing[j]
        /\ closing'[i][c] \notin stages /\ \A d \in Caller : d # c => closing'[i][d] = closing[i][d]
    BY <1>4, <2>1, <2>2
  <2> QED
    BY <2>1, <2>3 DEF Held, Acquired, Past
<1>6. ASSUME NEW i \in Index, NEW c \in Caller, CloseFn(i, c) PROVE Held(stages)' = Held(stages)
  <2>1. names' = names /\ epos' = epos /\ epc' = epc /\ closing[i][c] = "closefn" /\ Step(i, c, "done")
    BY <1>6 DEF CloseFn
  <2>2. fd[i] = "open" /\ \A j \in Index : j # i => fd'[j] = fd[j]
    BY <1>6, <2>1 DEF CloseFn, Shut, OneCloser, FilesTyped
  <2>3. /\ Index' = Index /\ Acquired' = Acquired
        /\ \A j \in Index : j # i => closing'[j] = closing[j]
        /\ closing'[i][c] = "done"
    BY <1>4, <2>1
  <2> QED
    BY <2>2, <2>3 DEF Held, Acquired, Past
<1>7. ASSUME NEW i \in Index, NEW c \in Caller, CloseDone(i, c)
      PROVE  IF "release" \in stages THEN Held(stages)' = Held(stages)
             ELSE Held(stages)' = Held(stages) \ {i} /\ i \in Held(stages)
  <2>1. fd' = fd /\ names' = names /\ epos' = epos /\ epc' = epc /\ closing[i][c] = "done" /\ Step(i, c, "release")
    BY <1>7 DEF CloseDone
  <2>2. /\ Index' = Index /\ Acquired' = Acquired
        /\ \A j \in Index : j # i => closing'[j] = closing[j]
        /\ closing'[i][c] = "release" /\ \A d \in Caller : d # c => closing'[i][d] = closing[i][d]
    BY <1>4, <2>1
  <2>a. closing[i][c] \in Closer /\ stages \subseteq Closer /\ closing[i][c] # "none"
    BY <2>1 DEF Closer
  <2>b. i < epos
    BY <1>0, <2>a DEF OneCloser
  <2>c. \A d \in Caller : d # c => closing[i][d] \notin Closer
    BY <2>a DEF OneCloser
  <2>3. fd[i] = "closed" /\ i < epos /\ \A d \in Caller : d # c => closing[i][d] \notin stages
    BY <2>1, <2>a, <2>b, <2>c DEF OneCloser
  <2>4. \A j \in Index : j # i => Past(j, stages)' = Past(j, stages)
    BY <2>1, <2>2 DEF Past
  <2>5. ~Past(i, stages) /\ i \in Acquired
    BY <2>1, <2>3 DEF Past, Acquired
  <2>6. Past(i, stages)' <=> "release" \notin stages
    BY <2>1, <2>2, <2>3 DEF Past
  <2> QED
    BY <2>2, <2>4, <2>5, <2>6 DEF Held, Acquired
<1>8. ASSUME NEW i \in Index, NEW c \in Caller, CloseRelease(i, c)
      PROVE  IF "release" \in stages THEN Held(stages)' = Held(stages) \ {i} /\ i \in Held(stages)
             ELSE Held(stages)' = Held(stages)
  <2>1. fd' = fd /\ names' = names /\ epos' = epos /\ epc' = epc /\ closing[i][c] = "release" /\ Step(i, c, "over")
    BY <1>8 DEF CloseRelease
  <2>2. /\ Index' = Index /\ Acquired' = Acquired
        /\ \A j \in Index : j # i => closing'[j] = closing[j]
        /\ closing'[i][c] = "over" /\ \A d \in Caller : d # c => closing'[i][d] = closing[i][d]
    BY <1>4, <2>1
  <2>a. closing[i][c] \in Closer /\ stages \subseteq Closer /\ closing[i][c] # "none"
    BY <2>1 DEF Closer
  <2>b. i < epos
    BY <1>0, <2>a DEF OneCloser
  <2>c. \A d \in Caller : d # c => closing[i][d] \notin Closer
    BY <2>a DEF OneCloser
  <2>3. fd[i] = "closed" /\ i < epos /\ \A d \in Caller : d # c => closing[i][d] \notin stages
    BY <2>1, <2>a, <2>b, <2>c DEF OneCloser
  <2>4. \A j \in Index : j # i => Past(j, stages)' = Past(j, stages)
    BY <2>1, <2>2 DEF Past
  <2>5. (~Past(i, stages) <=> "release" \in stages) /\ i \in Acquired
    BY <2>1, <2>3 DEF Past, Acquired
  <2>6. Past(i, stages)'
    BY <2>1, <2>2, <2>3 DEF Past
  <2> QED
    BY <2>2, <2>4, <2>5, <2>6 DEF Held, Acquired
<1> QED
  BY <1>1, <1>2, <1>3, <1>5, <1>6, <1>7, <1>8

\* Every step changes a count as it changes the files that hold one; neither goes out of
\* bounds.
LEMMA AccountedStep ==
  ASSUME ArgFileAssumption, EmitTyped, FilesTyped, CountsTyped, OneCloser, Stages, Accounted,
         NEW there, [AnyStep(there)]_vars
  PROVE  CountsTyped' /\ Accounted'
<1> DEFINE G == Held({"done"})
           T == Held({"done", "release"})
<1>0. /\ IsFiniteSet(G) /\ IsFiniteSet(T) /\ Cardinality(G) \in Nat /\ Cardinality(T) \in Nat
      /\ MaxFD \in Nat /\ tickets \in Nat /\ tickets <= MaxFD /\ wg \in Nat
  BY HeldFinite DEF CountsTyped, ArgFileAssumption
<1>a. wg = Cardinality(G) /\ (~ticketClosed => tickets = Cardinality(T))
  BY DEF Accounted, Held
<1>b. wg' = Cardinality(G') /\ (~ticketClosed' => tickets' = Cardinality(T')) => Accounted'
  BY DEF Accounted, Held
<1>c. {"done"} \subseteq {"done", "release"} /\ "done" \in {"done"} /\ "release" \notin {"done"}
      /\ {"done", "release"} \subseteq {"done", "release"} /\ "done" \in {"done", "release"} /\ "release" \in {"done", "release"}
  OBVIOUS
<1>1. CASE Ticket
  <2>1. /\ G' = G \cup {epos} /\ epos \notin G
        /\ T' = T \cup {epos} /\ epos \notin T
    BY <1>1, <1>c, HeldStep
  <2>2. Cardinality(G \cup {epos}) = Cardinality(G) + 1 /\ Cardinality(T \cup {epos}) = Cardinality(T) + 1
    BY <1>0, <2>1, FS_AddElement
  <2>3. Cardinality(G') = Cardinality(G) + 1 /\ Cardinality(T') = Cardinality(T) + 1
    BY <2>1, <2>2, Zenon
  <2>4. wg' = wg + 1 /\ tickets' = tickets + 1 /\ tickets < MaxFD /\ ticketClosed' = ticketClosed
    BY <1>1 DEF Ticket
  <2> QED
    BY <1>0, <1>a, <1>b, <2>3, <2>4 DEF CountsTyped
<1>2. CASE Open(there) \/ Wait \/ CloseTicket \/ CloseTo \/ (\E i \in Index : Hand(i)) \/ UNCHANGED vars
  <2>1. G' = G /\ T' = T
    BY <1>2, <1>c, HeldStep
  <2>2. Cardinality(G') = Cardinality(G) /\ Cardinality(T') = Cardinality(T)
    BY <2>1, Zenon
  <2>3. wg' = wg /\ tickets' = tickets /\ (ticketClosed => ticketClosed')
    BY <1>2 DEF Open, OpenWorks, OpenFails, Wait, CloseTicket, CloseTo, Hand, vars
  <2> QED
    BY <1>0, <1>a, <1>b, <2>2, <2>3 DEF CountsTyped
<1>3. ASSUME NEW i \in Index, NEW c \in Caller, CloseTake(i, c) \/ CloseFn(i, c) PROVE CountsTyped' /\ Accounted'
  <2>1. G' = G /\ T' = T
    BY <1>3, <1>c, HeldStep
  <2>2. Cardinality(G') = Cardinality(G) /\ Cardinality(T') = Cardinality(T)
    BY <2>1, Zenon
  <2>3. wg' = wg /\ tickets' = tickets /\ (ticketClosed => ticketClosed')
    BY <1>3 DEF CloseTake, CloseFn
  <2> QED
    BY <1>0, <1>a, <1>b, <2>2, <2>3 DEF CountsTyped
<1>4. ASSUME NEW i \in Index, NEW c \in Caller, CloseDone(i, c) PROVE CountsTyped' /\ Accounted'
  <2>1. G' = G \ {i} /\ i \in G /\ T' = T
    BY <1>4, <1>c, HeldStep
  <2>2. Cardinality(G \ {i}) = Cardinality(G) - 1 /\ Cardinality(G \ {i}) \in Nat
    BY <1>0, <2>1, FS_RemoveElement, FS_CardinalityType
  <2>3. Cardinality(G') = Cardinality(G) - 1 /\ Cardinality(G') \in Nat /\ Cardinality(T') = Cardinality(T)
    BY <2>1, <2>2, Zenon
  <2>4. wg' = wg - 1 /\ tickets' = tickets /\ ticketClosed' = ticketClosed
    BY <1>4 DEF CloseDone
  <2> QED
    BY <1>0, <1>a, <1>b, <2>3, <2>4 DEF CountsTyped
<1>5. ASSUME NEW i \in Index, NEW c \in Caller, CloseRelease(i, c) PROVE CountsTyped' /\ Accounted'
  <2>1. G' = G /\ T' = T \ {i} /\ i \in T
    BY <1>5, <1>c, HeldStep
  <2>2. Cardinality(T \ {i}) = Cardinality(T) - 1 /\ Cardinality(T \ {i}) \in Nat
    BY <1>0, <2>1, FS_RemoveElement, FS_CardinalityType
  <2>3. Cardinality(T') = Cardinality(T) - 1 /\ Cardinality(T') \in Nat /\ Cardinality(G') = Cardinality(G)
    BY <2>1, <2>2, Zenon
  <2>4. wg' = wg /\ ticketClosed' = ticketClosed /\ tickets' = IF tickets > 0 THEN tickets - 1 ELSE 0
    BY <1>5 DEF CloseRelease, Back
  <2>5. tickets' \in 0..MaxFD
    BY <1>0, <2>4
  <2>6. ~ticketClosed => tickets' = Cardinality(T')
    BY <1>0, <1>a, <2>3, <2>4
  <2> QED
    BY <1>0, <1>a, <1>b, <2>3, <2>4, <2>5, <2>6 DEF CountsTyped
<1> QED
  BY <1>1, <1>2, <1>3, <1>4, <1>5 DEF AnyStep, EmitWith, Close

\* emit moves on when a file is handed over, and stops waiting when all are closed.
LEMMA StagesStep ==
  ASSUME ArgFileAssumption, EmitTyped, FilesTyped, OneCloser, Stages, Accounted, NEW there, [AnyStep(there)]_vars
  PROVE  Stages'
<1>0. /\ Index' = Index /\ names' = names /\ Index = 1..Len(Given) /\ Given' = Given
      /\ Len(Given) \in Nat /\ epos \in Nat /\ epos >= 1
  BY SameList, ListTyped
<1>1. CASE Ticket
  BY <1>0, <1>1 DEF Ticket, Stages
<1>2. CASE Open(there)
  <2>1. epc = "open" /\ epos \in Index /\ ~ticketClosed /\ ~toClosed
    BY <1>2 DEF Open, Stages
  <2>2. /\ ticketClosed' = ticketClosed /\ toClosed' = toClosed
        /\ epc' \in {"ticket", "send"} /\ (epc' = "send" => epos' = epos /\ fd' = [fd EXCEPT ![epos] = "open"])
    BY <1>2 DEF Open, OpenWorks, OpenFails
  <2> QED
    BY <1>0, <2>1, <2>2 DEF Stages, FilesTyped
<1>3. CASE Wait
  <2>1. wg = 0 /\ epos > Len(Given) /\ epc' = "close" /\ epc = "ticket" /\ UNCHANGED <<ticketClosed, toClosed, fd>>
    BY <1>3 DEF Wait, AllClosed, Emitted
  <2>2. Cardinality(Held({"done"})) = 0 /\ IsFiniteSet(Held({"done"}))
    BY <2>1, HeldFinite DEF Accounted, Held
  <2>3. Held({"done"}) = {}
    BY <2>2, FS_EmptySet
  <2>4. \A i \in Index : fd[i] = "closed"
    BY <1>0, <2>1, <2>3 DEF Held, Acquired, Past
  <2> QED
    BY <1>0, <2>1, <2>4 DEF Stages
<1>4. CASE CloseTicket
  BY <1>0, <1>4 DEF CloseTicket, Stages
<1>5. CASE CloseTo
  BY <1>0, <1>5 DEF CloseTo, Stages
<1>6. ASSUME NEW i \in Index, Hand(i) PROVE Stages'
  BY <1>0, <1>6 DEF Hand, Stages
<1>7. ASSUME NEW i \in Index, NEW c \in Caller, CloseFn(i, c) PROVE Stages'
  <2>1. fd' = [fd EXCEPT ![i] = "closed"] /\ UNCHANGED <<epc, epos, ticketClosed, toClosed>>
    BY <1>7 DEF CloseFn, Shut
  <2>2. i < epos
    BY <1>0, <1>7 DEF CloseFn, OneCloser
  <2>3. \A j \in Index : fd[j] = "closed" => fd'[j] = "closed"
    BY <2>1 DEF FilesTyped
  <2>4. epc = "send" => fd'[epos] = fd[epos]
    BY <1>0, <2>1, <2>2 DEF FilesTyped, Stages
  <2> QED
    BY <1>0, <2>1, <2>3, <2>4 DEF Stages
<1>8. CASE UNCHANGED vars \/ \E i \in Index, c \in Caller : CloseTake(i, c) \/ CloseDone(i, c) \/ CloseRelease(i, c)
  <2>1. UNCHANGED <<epc, epos, ticketClosed, toClosed, fd>>
    BY <1>8 DEF vars, CloseTake, CloseDone, CloseRelease
  <2> QED
    BY <1>0, <2>1 DEF Stages
<1> QED
  BY <1>1, <1>2, <1>3, <1>4, <1>5, <1>6, <1>7, <1>8 DEF AnyStep, EmitWith, Close

----------------------------------------------------------------------------
\* The inductive invariant.
Kept == EmitTyped /\ FilesTyped /\ CountsTyped /\ OneCloser /\ Stages /\ Accounted

\* The invariant holds at the start.
LEMMA InitRight ==
  ASSUME ArgFileAssumption, Init
  PROVE  Kept
<1>1. EmitTyped /\ FilesTyped
  <2>1. EmitTyped
    <3>1. 1 \in Nat \ {0}
      OBVIOUS
    <3> QED
      BY <3>1 DEF Init, EmitTyped
  <2>2. FilesTyped
    BY DEF Init, FilesTyped
  <2> QED
    BY <2>1, <2>2
<1>2. CountsTyped
  BY DEF Init, CountsTyped, ArgFileAssumption
<1>3. Acquired = {}
  BY <1>1, ListTyped DEF Init, Acquired
<1>4. {i \in Acquired : ~Past(i, {"done"})} = {} /\ {i \in Acquired : ~Past(i, {"done", "release"})} = {}
  BY <1>3
<1>5. Accounted
  BY <1>4, FS_EmptySet DEF Init, Accounted
<1>6. OneCloser /\ Stages
  BY <1>1, ListTyped DEF Init, OneCloser, Stages, Closer
<1> QED
  BY <1>1, <1>2, <1>5, <1>6 DEF Kept

\* Every step keeps it, whichever names can be opened at the moment.
LEMMA KeptStep ==
  ASSUME ArgFileAssumption, Kept, NEW there, [AnyStep(there)]_vars
  PROVE  Kept'
<1> USE DEF Kept
<1>1. EmitTyped' /\ FilesTyped'
  BY TypedStep
<1>2. CountsTyped' /\ Accounted'
  BY AccountedStep
<1>3. OneCloser' /\ Stages'
  BY OneCloserStep, StagesStep
<1> QED
  BY <1>1, <1>2, <1>3

\* An open file holds a ticket until the list is over; then none is open.
LEMMA KeptRight ==
  ASSUME ArgFileAssumption, Kept
  PROVE  ArgInv
<1>1. TypeOK /\ EndsWhenClosed
  BY DEF Kept, EmitTyped, FilesTyped, CountsTyped, TypeOK, Stages, EndsWhenClosed
<1> DEFINE T == Held({"done", "release"})
           O == {i \in Index : fd[i] = "open"}
<1>2. CASE ticketClosed
  <2>1. O = {}
    BY <1>2 DEF Kept, Stages
  <2>2. Cardinality(O) = 0
    BY <2>1, FS_EmptySet
  <2> QED
    BY <1>1, <2>2 DEF Kept, ArgInv, OpenBounded, ArgFileAssumption
<1>3. CASE ~ticketClosed
  <2>1. tickets = Cardinality(T) /\ IsFiniteSet(T) /\ tickets <= MaxFD /\ MaxFD \in Nat
    <3>1. tickets = Cardinality(T)
      BY <1>3 DEF Kept, Accounted, Held
    <3>2. IsFiniteSet(T)
      BY HeldFinite DEF Kept
    <3>3. tickets <= MaxFD /\ MaxFD \in Nat
      BY DEF Kept, CountsTyped, ArgFileAssumption
    <3> QED
      BY <3>1, <3>2, <3>3
  <2>2. O \subseteq T
    BY ListTyped DEF Kept, Held, Acquired, Past, OneCloser
  <2>3. Cardinality(O) <= Cardinality(T) /\ Cardinality(O) \in Nat
    BY <2>1, <2>2, FS_Subset, FS_CardinalityType
  <2>4. Cardinality(O) <= MaxFD
    <3>1. Cardinality(T) \in Nat
      BY <2>1, FS_CardinalityType
    <3> QED
      BY <2>1, <2>3, <3>1
  <2> QED
    BY <1>1, <2>4 DEF Kept, ArgInv, OpenBounded
<1> QED
  BY <1>2, <1>3

\* The inductive invariant holds in every state.
THEOREM Invariance == ASSUME ArgFileAssumption PROVE Spec => []Kept
<1>1. Init => Kept
  BY InitRight
<1>2. Kept /\ [Next]_vars => Kept'
  <2>1. [Next]_vars => [AnyStep(Readable)]_vars
    BY DEF Next, Emit, AnyStep
  <2> QED
    BY <2>1, KeptStep
<1> QED
  BY <1>1, <1>2, PTL DEF Spec

\* Tickets and counts belong to one file each, a list ends when all of its files are
\* closed, and at most MaxFD files are open (argfile.go:24-75).
THEOREM TicketsRight == ASSUME ArgFileAssumption PROVE Spec => []ArgInv
<1>1. Kept => ArgInv
  BY KeptRight
<1> QED
  BY <1>1, Invariance, PTL

----------------------------------------------------------------------------
(* Sums and texts: the recursive functions of Wc and Edit. *)

\* A set of numbers with 0 and the next of each is all of them.
LEMMA AllNat ==
  ASSUME NEW T \in SUBSET Nat, 0 \in T, \A n \in T : n + 1 \in T
  PROVE  T = Nat
<1> SUFFICES ASSUME T # Nat PROVE FALSE
  OBVIOUS
<1> DEFINE U == Nat \ T
<1>1. U # {} /\ U \subseteq Nat
  OBVIOUS
<1>2. \E x0 \in U : \A y \in U : ~ (<<y, x0>> \in OpToRel(<, Nat))
  <2> HIDE DEF U
  <2> QED
    BY <1>1, NatLessThanWellFounded, WFMin
<1>3. PICK x0 \in U : \A y \in U : ~ (<<y, x0>> \in OpToRel(<, Nat))
  BY <1>2
<1>4. \A y \in U : ~ (y < x0)
  <2> SUFFICES ASSUME NEW y \in U, y < x0 PROVE FALSE
    OBVIOUS
  <2>1. <<y, x0>> \in Nat \X Nat
    OBVIOUS
  <2>2. <<y, x0>> \in OpToRel(<, Nat)
    BY <2>1 DEF OpToRel
  <2> QED
    BY <1>3, <2>2
<1>5. x0 # 0 /\ x0 - 1 \in Nat /\ x0 - 1 < x0 /\ x0 \in Nat
  OBVIOUS
<1>6. x0 - 1 \in T
  BY <1>4, <1>5
<1>7. (x0 - 1) + 1 \in T
  BY <1>6
<1> QED
  BY <1>5, <1>7

\* One number of the recursion that adds up the counts.
SumRow(list, S, f, k) == IF k = 0 THEN 0 ELSE f[k - 1] + (IF k \in S THEN Size[list[k]] ELSE 0)

\* The function that adds up the counts exists.
LEMMA SumsExist ==
  ASSUME NEW list, NEW S, NEW m \in Nat
  PROVE  \E f : f = [k \in 0..m |-> SumRow(list, S, f, k)]
<1> DEFINE T == {n \in Nat : \E f : f = [k \in 0..n |-> SumRow(list, S, f, k)]}
<1>1. 0 \in T
  <2> DEFINE f == [k \in 0..0 |-> 0]
  <2>1. f = [k \in 0..0 |-> SumRow(list, S, f, k)]
    BY DEF SumRow
  <2> QED
    BY <2>1
<1>2. ASSUME NEW n \in T PROVE n + 1 \in T
  <2>1. PICK f : f = [k \in 0..n |-> SumRow(list, S, f, k)]
    OBVIOUS
  <2> DEFINE g == [k \in 0..(n + 1) |-> SumRow(list, S, f, k)]
  <2>2. \A k \in 0..n : g[k] = f[k]
    BY <2>1
  <2>3. ASSUME NEW k \in 0..(n + 1) PROVE SumRow(list, S, f, k) = SumRow(list, S, g, k)
    <3>1. CASE k = 0
      BY <3>1 DEF SumRow
    <3>2. CASE k # 0
      <4>1. k - 1 \in 0..n
        BY <3>2
      <4>2. g[k - 1] = f[k - 1]
        BY <4>1, <2>2
      <4> HIDE DEF g
      <4> QED
        BY <3>2, <4>2 DEF SumRow
    <3> QED
      BY <3>1, <3>2
  <2>4. g = [k \in 0..(n + 1) |-> SumRow(list, S, g, k)]
    BY <2>3
  <2>5. \E h : h = [k \in 0..(n + 1) |-> SumRow(list, S, h, k)]
    <3> HIDE DEF g
    <3> QED
      BY <2>4
  <2> QED
    BY <2>5
<1>3. T = Nat
  <2>1. T \in SUBSET Nat
    OBVIOUS
  <2> HIDE DEF T
  <2> QED
    BY <1>1, <1>2, <2>1, AllNat
<1> QED
  BY <1>3

\* What SumOf is, by the function that exists.
LEMMA SumIs ==
  ASSUME NEW list \in Seq(Name), NEW S
  PROVE  \E f : /\ f = [k \in 0..Len(list) |-> SumRow(list, S, f, k)]
                /\ SumOf(list, S) = f[Len(list)]
<1> DEFINE f0 == CHOOSE f : f = [k \in 0..Len(list) |-> SumRow(list, S, f, k)]
<1>0. Len(list) \in Nat
  BY LenProperties
<1>1. \E f : f = [k \in 0..Len(list) |-> SumRow(list, S, f, k)]
  BY <1>0, SumsExist
<1>2. f0 = [k \in 0..Len(list) |-> SumRow(list, S, f0, k)]
  BY <1>1
<1>4. SumOf(list, S) = f0[Len(list)]
  BY DEF SumOf, SumRow
<1> HIDE DEF f0
<1> QED
  BY <1>2, <1>4

\* The sum is a number; one more file adds its count, and no file counts nothing.
LEMMA SumStep ==
  ASSUME NEW list \in Seq(Name), NEW S, NEW i \in 1..Len(list), i \notin S, Size \in [Name -> Nat]
  PROVE  /\ SumOf(list, S) \in Nat
         /\ SumOf(list, S \cup {i}) = SumOf(list, S) + Size[list[i]]
<1>0. Len(list) \in Nat /\ Size[list[i]] \in Nat
  <2>1. Len(list) \in Nat
    BY LenProperties
  <2>2. list[i] \in Name
    BY ElementOfSeq
  <2> QED
    BY <2>1, <2>2
<1>1. PICK f : f = [k \in 0..Len(list) |-> SumRow(list, S, f, k)] /\ SumOf(list, S) = f[Len(list)]
  BY SumIs
<1>2. PICK g : g = [k \in 0..Len(list) |-> SumRow(list, S \cup {i}, g, k)] /\ SumOf(list, S \cup {i}) = g[Len(list)]
  BY SumIs
<1> DEFINE Ahead(k) == IF i <= k THEN Size[list[i]] ELSE 0
           T == {n \in Nat : n <= Len(list) => f[n] \in Nat /\ g[n] = f[n] + Ahead(n)}
<1>3. 0 \in T
  <2>1. 0 \in 0..Len(list)
    BY <1>0
  <2>2. f[0] = 0 /\ g[0] = 0
    <3>1. f[0] = SumRow(list, S, f, 0)
      BY <1>1, <2>1
    <3>2. g[0] = SumRow(list, S \cup {i}, g, 0)
      BY <1>2, <2>1
    <3> QED
      BY <3>1, <3>2 DEF SumRow
  <2> QED
    BY <2>2
<1>4. ASSUME NEW n \in T PROVE n + 1 \in T
  <2> SUFFICES ASSUME n + 1 <= Len(list) PROVE f[n + 1] \in Nat /\ g[n + 1] = f[n + 1] + Ahead(n + 1)
    OBVIOUS
  <2>1. f[n] \in Nat /\ g[n] = f[n] + Ahead(n)
    BY <1>0
  <2>2. n + 1 \in 0..Len(list) /\ n + 1 # 0 /\ (n + 1) - 1 = n /\ n + 1 \in 1..Len(list)
    BY <1>0
  <2>3. f[n + 1] = SumRow(list, S, f, n + 1) /\ g[n + 1] = SumRow(list, S \cup {i}, g, n + 1)
    BY <1>1, <1>2, <2>2
  <2>4. /\ f[n + 1] = f[n] + (IF n + 1 \in S THEN Size[list[n + 1]] ELSE 0)
        /\ g[n + 1] = g[n] + (IF n + 1 \in S \cup {i} THEN Size[list[n + 1]] ELSE 0)
    BY <2>2, <2>3 DEF SumRow
  <2>5. Size[list[n + 1]] \in Nat
    <3>1. list[n + 1] \in Name
      BY <2>2, ElementOfSeq
    <3> QED
      BY <3>1
  <2>6. CASE n + 1 = i
    <3>1. Ahead(n) = 0 /\ Ahead(n + 1) = Size[list[n + 1]] /\ n + 1 \notin S
      BY <2>6
    <3>2. f[n + 1] = f[n] /\ g[n + 1] = g[n] + Size[list[n + 1]] /\ g[n] = f[n]
      BY <2>1, <2>4, <2>6, <3>1
    <3> HIDE DEF Ahead
    <3> QED
      BY <2>1, <2>5, <3>1, <3>2
  <2>7. CASE n + 1 # i
    <3>1. Ahead(n + 1) = Ahead(n) /\ Ahead(n) \in Nat
      BY <1>0, <2>7
    <3>2. n + 1 \in S \cup {i} <=> n + 1 \in S
      BY <2>7
    <3> HIDE DEF Ahead
    <3> QED
      BY <2>1, <2>4, <2>5, <3>1, <3>2, SMTT(60)
  <2> QED
    BY <2>6, <2>7
<1>5. T = Nat
  <2>1. T \in SUBSET Nat
    OBVIOUS
  <2> HIDE DEF T
  <2> QED
    BY <1>3, <1>4, <2>1, AllNat
<1>6. f[Len(list)] \in Nat /\ g[Len(list)] = f[Len(list)] + Ahead(Len(list))
  BY <1>0, <1>5
<1>7. Ahead(Len(list)) = Size[list[i]]
  BY <1>0
<1> QED
  BY <1>1, <1>2, <1>6, <1>7

\* The sum of no counts.
LEMMA SumNone ==
  ASSUME NEW list \in Seq(Name)
  PROVE  SumOf(list, {}) = 0
<1>0. Len(list) \in Nat
  BY LenProperties
<1>1. PICK f : f = [k \in 0..Len(list) |-> SumRow(list, {}, f, k)] /\ SumOf(list, {}) = f[Len(list)]
  BY SumIs
<1> DEFINE T == {n \in Nat : n <= Len(list) => f[n] = 0}
<1>2. 0 \in T
  <2>1. 0 \in 0..Len(list)
    BY <1>0
  <2>2. f[0] = SumRow(list, {}, f, 0)
    BY <1>1, <2>1
  <2> QED
    BY <2>2 DEF SumRow
<1>3. ASSUME NEW n \in T PROVE n + 1 \in T
  <2> SUFFICES ASSUME n + 1 <= Len(list) PROVE f[n + 1] = 0
    OBVIOUS
  <2>1. n + 1 \in 0..Len(list) /\ n + 1 # 0 /\ (n + 1) - 1 = n /\ f[n] = 0
    BY <1>0
  <2>2. f[n + 1] = SumRow(list, {}, f, n + 1)
    BY <1>1, <2>1
  <2> QED
    BY <2>1, <2>2 DEF SumRow
<1>4. T = Nat
  <2>1. T \in SUBSET Nat
    OBVIOUS
  <2> HIDE DEF T
  <2> QED
    BY <1>2, <1>3, <2>1, AllNat
<1>5. f[Len(list)] = 0
  BY <1>0, <1>4
<1> QED
  BY <1>1, <1>5

----------------------------------------------------------------------------
(* wc *)

\* The files handed to the tool.
Handed == {i \in Index : i < epos /\ fd[i] # "none"}

\* The files of which the goroutine is in one of the stages.
In(stages) == {i \in Index : gpc[i] \in stages}
Started == In({"count", "close", "store", "report", "done"})
Added == In({"report", "done"})

\* The types of wc's variables.
GoesTyped ==
    /\ x \in X
    /\ gpc \in [Index -> {"none", "count", "close", "store", "report", "done"}]
    /\ read \in [Index -> Nat] /\ totals \in Nat
ReportTyped ==
    /\ report \in Seq(Index \cup {0}) /\ Len(report) <= 1 /\ reportClosed \in BOOLEAN
    /\ wpc \in {"range", "wait", "totals", "close", "donec", "exit"}
    /\ rpc \in {"recv", "donec", "stop"}
    /\ shown \in Seq((Index \cup {0}) \X Nat)

\* A goroutine runs for each file handed over, and nfiles counts them.
EachStarted == Started = Handed /\ nfiles = Cardinality(Started)

\* Where main is, and what has ended by then.
MainAt ==
    /\ wpc # "range" => toClosed
    /\ wpc \in {"totals", "close", "donec", "exit"} => Counted
    /\ wpc = "totals" => nfiles > 1
    /\ reportClosed <=> wpc \in {"donec", "exit"}
    /\ rpc = "donec" \/ wpc = "exit" => report = <<>> /\ reportClosed

\* What was given to the printer, shown or not; and whether the totals were.
AllSaid(s, r) == [k \in 1..Len(s) |-> s[k][1]] \o r
Said == AllSaid(shown, report)
TotalsSaid == wpc \in {"close", "donec", "exit"} /\ nfiles > 1

\* The elements of a sequence.
Elements(s) == {s[k] : k \in 1..Len(s)}

\* It is each file whose goroutine is done, once, and then the totals.
SaidOnce ==
    /\ Elements(Said) \ {0} = In({"done"})
    /\ Len(Said) = Cardinality(In({"done"})) + (IF TotalsSaid THEN 1 ELSE 0)
    /\ \A k \in 1..Len(Said) : Said[k] = 0 => k = Len(Said) /\ TotalsSaid
    /\ TotalsSaid => Said[Len(Said)] = 0

\* The totals, and what a goroutine has read of them, are sums of counts of some
\* files; a goroutine has not read its own.
SomeSums ==
    /\ \E S \in SUBSET Added : totals = SumOf(Given, S) /\ (Added # {} => S # {})
    /\ \A i \in Index : gpc[i] = "store" => \E S \in SUBSET Added : read[i] = SumOf(Given, S)

\* The inductive invariant, with argfile's.
WcKept ==
    /\ Kept /\ GoesTyped /\ ReportTyped
    /\ EachStarted /\ MainAt /\ SaidOnce /\ SomeSums /\ TotalsOfSome

----------------------------------------------------------------------------
\* Every step of wc is one of argfile's or leaves argfile alone.
LEMMA WcArgStep ==
  ASSUME WcAssumption, [WcNext]_wcVars
  PROVE  [AnyStep(Readable)]_vars
<1>1. CASE WcEmit
  BY <1>1 DEF WcEmit, Emit, AnyStep
<1>2. ASSUME NEW i \in Index, WcReceive(i) PROVE [AnyStep(Readable)]_vars
  BY <1>2 DEF WcReceive, AnyStep
<1>3. ASSUME NEW i \in Index, CloseFile(i) PROVE [AnyStep(Readable)]_vars
  BY <1>3 DEF CloseFile, AnyStep, WcAssumption
<1>4. CASE \/ WcRangeEnd \/ WcWait \/ ReportTotals \/ CloseReport \/ Donec \/ Printer \/ UNCHANGED wcVars
           \/ \E i \in Index : Count(i) \/ AddRead(i) \/ AddWrite(i) \/ Report(i)
  <2>1. UNCHANGED vars
    BY <1>4 DEF WcRangeEnd, WcWait, ReportTotals, CloseReport, Donec, Printer, Show, ShowEnd, wcVars,
       Count, AddRead, AddWrite, Report
  <2> QED
    BY <2>1
<1> QED
  BY <1>1, <1>2, <1>3, <1>4 DEF WcNext, WcMain, File

\* What argfile's own steps leave as it is: the files handed over, and what was opened.
LEMMA HandedSame ==
  ASSUME ArgFileAssumption, Kept, NEW there,
         EmitWith(there) \/ (\E i \in Index, c \in Caller : Close(i, c)) \/ UNCHANGED vars
  PROVE  Handed' = Handed
<1>0. /\ Index' = Index /\ Index = 1..Len(Given) /\ Len(Given) \in Nat /\ epos \in Nat
      /\ fd \in [Index -> {"none", "open", "closed"}]
  <2>1. [AnyStep(there)]_vars
    BY DEF AnyStep
  <2> QED
    BY <2>1, SameList, ListTyped DEF Kept, FilesTyped
<1>1. CASE Ticket \/ Wait \/ CloseTicket \/ CloseTo \/ UNCHANGED vars
  <2>1. UNCHANGED <<epos, fd>>
    BY <1>1 DEF Ticket, Wait, CloseTicket, CloseTo, vars
  <2> QED
    BY <1>0, <2>1 DEF Handed
<1>2. CASE Open(there)
  <2>1. epos \in Index /\ fd[epos] = "none"
    BY <1>0, <1>2 DEF Open, Kept, Stages, OneCloser
  <2>2. CASE OpenWorks
    <3>1. epos' = epos /\ \A i \in Index : i < epos => fd'[i] = fd[i]
      BY <1>0, <2>2 DEF OpenWorks
    <3> QED
      BY <1>0, <3>1 DEF Handed
  <2>3. CASE OpenFails
    <3>1. epos' = epos + 1 /\ fd' = fd
      BY <2>3 DEF OpenFails
    <3>2. \A i \in Index : i < epos + 1 <=> i < epos \/ i = epos
      BY <1>0
    <3> QED
      BY <1>0, <2>1, <3>1, <3>2 DEF Handed
  <2> QED
    BY <1>2, <2>2, <2>3 DEF Open
<1>3. ASSUME NEW i \in Index, NEW c \in Caller, CloseFn(i, c) PROVE Handed' = Handed
  <2>1. epos' = epos /\ fd' = [fd EXCEPT ![i] = "closed"] /\ fd[i] = "open"
    BY <1>3 DEF CloseFn, Shut, Kept, OneCloser
  <2>2. \A j \in Index : fd'[j] # "none" <=> fd[j] # "none"
    BY <1>0, <2>1
  <2> QED
    BY <1>0, <2>1, <2>2 DEF Handed
<1>4. ASSUME NEW i \in Index, NEW c \in Caller, CloseTake(i, c) \/ CloseDone(i, c) \/ CloseRelease(i, c)
      PROVE  Handed' = Handed
  <2>1. UNCHANGED <<epos, fd>>
    BY <1>4 DEF CloseTake, CloseDone, CloseRelease
  <2> QED
    BY <1>0, <2>1 DEF Handed
<1> QED
  BY <1>1, <1>2, <1>3, <1>4 DEF EmitWith, Close

\* A file that is handed over was not handed over before, and is open.
LEMMA HandedMore ==
  ASSUME ArgFileAssumption, Kept, NEW i \in Index, Hand(i)
  PROVE  Handed' = Handed \cup {i} /\ i \notin Handed /\ fd[i] = "open" /\ fd' = fd /\ i = epos
<1>0. Index' = Index /\ Index = 1..Len(Given) /\ Len(Given) \in Nat /\ epos \in Nat
  <2>1. [AnyStep({})]_vars
    BY DEF AnyStep
  <2> QED
    BY <2>1, SameList, ListTyped DEF Kept
<1>1. i = epos /\ epos' = epos + 1 /\ fd' = fd /\ fd[i] = "open"
  BY DEF Hand, Kept, Stages
<1>2. \A j \in Index : j < epos + 1 <=> j < epos \/ j = epos
  BY <1>0
<1> QED
  BY <1>0, <1>1, <1>2 DEF Handed

\* When the channel to the tool is closed, every file that was opened has been handed over.
LEMMA AllHanded ==
  ASSUME ArgFileAssumption, Kept, toClosed
  PROVE  Handed = {i \in Index : fd[i] # "none"} /\ \A i \in Index : ~Hand(i)
<1>1. epc = "stop" /\ epos \in Nat /\ Index = 1..Len(Given) /\ Len(Given) \in Nat
  BY ListTyped DEF Kept, Stages
<1>2. \A i \in Index : i < epos \/ i > epos \/ i = epos
  BY <1>1
<1>3. \A i \in Index : fd[i] # "none" => i < epos
  BY <1>1, <1>2 DEF Kept, OneCloser
<1>4. \A i \in Index : ~Hand(i)
  BY <1>1 DEF Hand
<1> QED
  BY <1>3, <1>4 DEF Handed

----------------------------------------------------------------------------
\* The stages of the goroutines.
LEMMA GoesStep ==
  ASSUME WcAssumption, WcKept, [WcNext]_wcVars
  PROVE  GoesTyped'
<1>0. Index' = Index /\ Given' = Given
  BY WcArgStep, SameList
<1> USE DEF WcKept
<1>1. CASE WcEmit \/ Printer \/ WcRangeEnd \/ WcWait \/ ReportTotals \/ CloseReport \/ Donec \/ UNCHANGED wcVars
  <2>1. UNCHANGED <<x, gpc, read, totals>>
    BY <1>1 DEF WcEmit, Printer, Show, ShowEnd, WcRangeEnd, WcWait, ReportTotals, CloseReport, Donec,
       wcVars, wcOwn
  <2> QED
    BY <1>0, <2>1 DEF GoesTyped
<1>2. ASSUME NEW i \in Index, WcReceive(i) PROVE GoesTyped'
  BY <1>0, <1>2 DEF WcReceive, GoesTyped
<1>3. ASSUME NEW i \in Index, Count(i) \/ CloseFile(i) \/ AddRead(i) \/ Report(i) PROVE GoesTyped'
  BY <1>0, <1>3 DEF Count, CloseFile, AddRead, Report, GoesTyped, wcOwn
<1>4. ASSUME NEW i \in Index, AddWrite(i) PROVE GoesTyped'
  <2>1. Stored(i) \in Nat
    <3>1. Given \in Seq(Name) /\ Index = 1..Len(Given)
      BY ListTyped DEF Kept, WcAssumption
    <3>2. Size[Given[i]] \in Nat
      <4>1. Given[i] \in Name
        BY <3>1, ElementOfSeq
      <4> QED
        BY <4>1 DEF WcAssumption
    <3> QED
      BY <3>2 DEF Stored, GoesTyped
  <2> QED
    BY <1>0, <1>4, <2>1 DEF AddWrite, GoesTyped
<1> QED
  BY <1>1, <1>2, <1>3, <1>4 DEF WcNext, WcMain, File

\* The tally shown is an index, or 0, with a number.
LEMMA ShownTyped ==
  ASSUME WcAssumption, WcKept, NEW i \in Index \cup {0}
  PROVE  Shown(i) \in (Index \cup {0}) \X Nat
<1>1. Given \in Seq(Name) /\ Index = 1..Len(Given) /\ Len(Given) \in Nat
  BY ListTyped DEF Kept, WcAssumption, WcKept
<1>2. CASE i = 0
  BY <1>2 DEF Shown, WcKept, GoesTyped
<1>3. CASE i # 0
  <2>1. i \in 1..Len(Given)
    BY <1>1, <1>3
  <2>2. Given[i] \in Name
    BY <1>1, <2>1, ElementOfSeq
  <2> QED
    BY <1>3, <2>2 DEF Shown, WcAssumption
<1> QED
  BY <1>2, <1>3

\* The channel to the printer, main and the printer.
LEMMA ReportStep ==
  ASSUME WcAssumption, WcKept, [WcNext]_wcVars
  PROVE  ReportTyped'
<1>0. Index' = Index /\ Given' = Given
  BY WcArgStep, SameList
<1> USE DEF WcKept
<1> DEFINE I0 == Index \cup {0}
<1>1. CASE \/ WcEmit \/ UNCHANGED wcVars
           \/ \E i \in Index : WcReceive(i) \/ Count(i) \/ CloseFile(i) \/ AddRead(i) \/ AddWrite(i)
  <2>1. UNCHANGED <<report, reportClosed, wpc, rpc, shown>>
    BY <1>1 DEF WcEmit, WcReceive, Count, CloseFile, AddRead, AddWrite, wcVars, wcOwn
  <2> QED
    BY <1>0, <2>1 DEF ReportTyped
<1>2. CASE WcRangeEnd \/ WcWait \/ CloseReport \/ Donec \/ ShowEnd
  <2>1. UNCHANGED <<report, shown>>
    BY <1>2 DEF WcRangeEnd, WcWait, CloseReport, Donec, ShowEnd
  <2>2. /\ reportClosed' \in BOOLEAN
        /\ wpc' \in {"range", "wait", "totals", "close", "donec", "exit"}
        /\ rpc' \in {"recv", "donec", "stop"}
    BY <1>2 DEF WcRangeEnd, WcWait, CloseReport, Donec, ShowEnd, ReportTyped
  <2> QED
    BY <1>0, <2>1, <2>2 DEF ReportTyped
<1>3. ASSUME NEW i \in I0, report = <<>>, report' = Append(report, i), shown' = shown, reportClosed' = reportClosed,
             rpc' = rpc, wpc' \in {"range", "wait", "totals", "close", "donec", "exit"}
      PROVE  ReportTyped'
  <2>1. report' \in Seq(I0) /\ Len(report') = 1
    <3>1. report \in Seq(I0) /\ Len(report) = 0
      BY <1>3 DEF ReportTyped
    <3> QED
      BY <1>3, <3>1, AppendProperties
  <2> QED
    BY <1>0, <1>3, <2>1 DEF ReportTyped
<1>4. ASSUME NEW i \in Index, Report(i) PROVE ReportTyped'
  BY <1>3, <1>4 DEF Report, Room, ReportTyped
<1>5. CASE ReportTotals
  BY <1>3, <1>5 DEF ReportTotals, Room, ReportTyped
<1>6. CASE Show
  <2>1. report \in Seq(I0) /\ report # <<>> /\ shown \in Seq(I0 \X Nat) /\ Len(report) <= 1
    BY <1>6 DEF Show, ReportTyped
  <2>2. Head(report) \in I0 /\ Tail(report) \in Seq(I0) /\ Len(Tail(report)) <= 1
    <3>1. Len(report) \in Nat
      BY <2>1, LenProperties
    <3> QED
      BY <2>1, <3>1, HeadTailProperties
  <2>3. Shown(Head(report)) \in I0 \X Nat
    BY <2>2, ShownTyped
  <2>4. shown' \in Seq(I0 \X Nat)
    BY <1>6, <2>1, <2>3, AppendProperties DEF Show
  <2>5. rpc' \in {"recv", "stop"}
    BY <1>6 DEF Show
  <2> QED
    BY <1>0, <1>6, <2>2, <2>4, <2>5 DEF Show, ReportTyped
<1> QED
  BY <1>1, <1>2, <1>4, <1>5, <1>6 DEF WcNext, WcMain, Printer, File

\* A step that changes no goroutine's stage, or of one goroutine only.
LEMMA InSame ==
  ASSUME Index' = Index, gpc' = gpc, NEW stages
  PROVE  In(stages)' = In(stages)
BY DEF In

\* A goroutine moves from a stage to the next.
LEMMA InMoves ==
  ASSUME Index' = Index, GoesTyped, NEW i \in Index, NEW s, gpc' = [gpc EXCEPT ![i] = s], NEW stages
  PROVE  /\ s \in stages => In(stages)' = In(stages) \cup {i}
         /\ s \notin stages => In(stages)' = In(stages) \ {i}
         /\ i \in In(stages) <=> gpc[i] \in stages
<1>1. gpc'[i] = s /\ \A j \in Index : j # i => gpc'[j] = gpc[j]
  BY DEF GoesTyped
<1> QED
  BY <1>1 DEF In

\* The sets of goroutines are finite.
LEMMA InFinite ==
  ASSUME ArgFileAssumption, Kept, NEW stages
  PROVE  IsFiniteSet(In(stages)) /\ Cardinality(In(stages)) \in Nat
<1>1. In(stages) \subseteq Index
  BY DEF In
<1> QED
  BY <1>1, ListTyped, FS_Subset, FS_CardinalityType DEF Kept

\* A goroutine is started for each file handed over.
LEMMA EachStartedStep ==
  ASSUME WcAssumption, WcKept, [WcNext]_wcVars
  PROVE  EachStarted'
<1>0. Index' = Index /\ Given' = Given
  BY WcArgStep, SameList
<1>a. ArgFileAssumption /\ "now" \in Caller
  BY DEF WcAssumption
<1> USE DEF WcKept
<1> DEFINE Stages0 == {"count", "close", "store", "report", "done"}
<1>b. Started = In(Stages0) /\ Started' = In(Stages0)'
  BY DEF Started
<1>1. CASE WcEmit
  <2>1. Handed' = Handed
    BY <1>a, <1>1, HandedSame DEF WcEmit, Emit
  <2>2. gpc' = gpc /\ nfiles' = nfiles
    BY <1>1 DEF WcEmit, wcOwn
  <2>3. Started' = Started
    BY <1>0, <1>b, <2>2, InSame
  <2> QED
    BY <2>1, <2>2, <2>3 DEF EachStarted
<1>2. ASSUME NEW i \in Index, WcReceive(i) PROVE EachStarted'
  <2>1. Handed' = Handed \cup {i} /\ i \notin Handed
    BY <1>a, <1>2, HandedMore DEF WcReceive
  <2>2. gpc' = [gpc EXCEPT ![i] = "count"] /\ nfiles' = nfiles + 1
    BY <1>2 DEF WcReceive
  <2>3. Started' = Started \cup {i}
    <3>1. "count" \in Stages0
      OBVIOUS
    <3> HIDE DEF Stages0
    <3> QED
      BY <1>0, <1>b, <2>2, <3>1, InMoves
  <2>4. i \notin Started /\ IsFiniteSet(Started) /\ Cardinality(Started) \in Nat
    BY <1>a, <1>b, <2>1, InFinite DEF EachStarted
  <2>5. Cardinality(Started \cup {i}) = Cardinality(Started) + 1
    BY <2>4, FS_AddElement
  <2> QED
    BY <2>1, <2>2, <2>3, <2>5 DEF EachStarted
<1>3. ASSUME NEW i \in Index, File(i) PROVE EachStarted'
  <2>1. Handed' = Handed
    <3>1. (\E j \in Index, c \in Caller : Close(j, c)) \/ UNCHANGED vars
      BY <1>a, <1>3 DEF File, Count, CloseFile, AddRead, AddWrite, Report
    <3> QED
      BY <1>a, <3>1, HandedSame
  <2>2. gpc' = gpc \/ (gpc[i] \in Stages0 /\ \E s \in Stages0 : gpc' = [gpc EXCEPT ![i] = s])
    BY <1>3 DEF File, Count, CloseFile, AddRead, AddWrite, Report, wcOwn
  <2>3. Started' = Started
    <3>1. CASE gpc' = gpc
      BY <1>0, <1>b, <3>1, InSame
    <3>2. CASE gpc[i] \in Stages0 /\ \E s \in Stages0 : gpc' = [gpc EXCEPT ![i] = s]
      <4>1. PICK s \in Stages0 : gpc' = [gpc EXCEPT ![i] = s]
        BY <3>2
      <4> HIDE DEF Stages0
      <4>2. In(Stages0)' = In(Stages0) \cup {i} /\ i \in In(Stages0)
        BY <1>0, <3>2, <4>1, InMoves
      <4> QED
        BY <1>b, <4>2
    <3> QED
      BY <2>2, <3>1, <3>2
  <2>4. nfiles' = nfiles
    BY <1>3 DEF File, Count, CloseFile, AddRead, AddWrite, Report, wcOwn
  <2> QED
    BY <2>1, <2>3, <2>4 DEF EachStarted
<1>4. CASE Printer \/ WcRangeEnd \/ WcWait \/ ReportTotals \/ CloseReport \/ Donec \/ UNCHANGED wcVars
  <2>1. UNCHANGED vars /\ gpc' = gpc /\ nfiles' = nfiles
    BY <1>4 DEF Printer, Show, ShowEnd, WcRangeEnd, WcWait, ReportTotals, CloseReport, Donec, wcVars, wcOwn
  <2>2. Handed' = Handed
    BY <1>a, <2>1, HandedSame
  <2>3. Started' = Started
    BY <1>0, <1>b, <2>1, InSame
  <2> QED
    BY <2>1, <2>2, <2>3 DEF EachStarted
<1> QED
  BY <1>1, <1>2, <1>3, <1>4 DEF WcNext, WcMain

\* After the loop no file is handed over, and after the wait no goroutine goes on.
LEMMA MainAtStep ==
  ASSUME WcAssumption, WcKept, [WcNext]_wcVars
  PROVE  MainAt'
<1>0. Index' = Index /\ Given' = Given
  BY WcArgStep, SameList
<1>a. ArgFileAssumption
  BY DEF WcAssumption
<1> USE DEF WcKept
<1>b. nfiles \in Nat
  <2>1. Cardinality(Started) \in Nat
    BY <1>a, InFinite DEF Started
  <2> QED
    BY <2>1 DEF EachStarted
<1>1. toClosed => toClosed'
  <2>1. \A i \in Index, c \in Caller : Close(i, c) => toClosed' = toClosed
    BY DEF Close, CloseTake, CloseFn, CloseDone, CloseRelease
  <2>2. \A there : EmitWith(there) => (toClosed => toClosed')
    BY DEF EmitWith, Ticket, Open, OpenWorks, OpenFails, Wait, CloseTicket, CloseTo
  <2>3. \A i \in Index : Hand(i) => toClosed' = toClosed
    BY DEF Hand
  <2>4. UNCHANGED vars => toClosed' = toClosed
    BY DEF vars
  <2> QED
    BY <2>1, <2>2, <2>3, <2>4, WcArgStep DEF AnyStep
<1>2. CASE WcEmit \/ UNCHANGED wcVars
  <2>1. UNCHANGED <<gpc, report, reportClosed, wpc, rpc, nfiles>>
    BY <1>2 DEF WcEmit, wcOwn, wcVars
  <2> QED
    BY <1>0, <1>1, <2>1 DEF MainAt, Counted
<1>3. ASSUME NEW i \in Index, WcReceive(i) PROVE MainAt'
  <2>1. /\ wpc = "range" /\ wpc' = "range" /\ UNCHANGED <<report, reportClosed, rpc>>
    BY <1>3 DEF WcReceive
  <2> QED
    BY <2>1 DEF MainAt
<1>4. ASSUME NEW i \in Index, File(i) PROVE MainAt'
  <2>1. UNCHANGED <<reportClosed, wpc, rpc, nfiles>> /\ ~Counted
    BY <1>4 DEF File, Count, CloseFile, AddRead, AddWrite, Report, wcOwn, Counted
  <2>2. wpc \in {"range", "wait"} /\ ~reportClosed /\ rpc # "donec"
    BY <2>1 DEF MainAt, ReportTyped
  <2> QED
    BY <1>1, <2>1, <2>2 DEF MainAt
<1>5. CASE Show
  <2>1. UNCHANGED <<gpc, reportClosed, wpc, nfiles, toClosed>> /\ rpc' # "donec" /\ wpc # "exit"
    BY <1>5 DEF Show, vars, WcRunning
  <2> QED
    BY <1>0, <2>1 DEF MainAt, Counted
<1>6. CASE ShowEnd
  <2>1. UNCHANGED <<gpc, report, reportClosed, wpc, nfiles, toClosed>> /\ report = <<>> /\ reportClosed
    BY <1>6 DEF ShowEnd, vars, ReportOver
  <2> QED
    BY <1>0, <2>1 DEF MainAt, Counted
<1>7. CASE WcRangeEnd
  <2>1. UNCHANGED <<report, reportClosed, rpc>> /\ wpc = "range" /\ wpc' = "wait" /\ toClosed
    BY <1>7 DEF WcRangeEnd
  <2> QED
    BY <1>1, <2>1 DEF MainAt
<1>8. CASE WcWait
  <2>1. UNCHANGED <<gpc, nfiles, report, reportClosed, rpc, toClosed>> /\ wpc = "wait" /\ Counted
    BY <1>8 DEF WcWait, vars
  <2>2. (wpc' = "totals" /\ nfiles > 1) \/ wpc' = "close"
    BY <1>8 DEF WcWait
  <2>3. Counted'
    BY <1>0, <2>1 DEF Counted
  <2> QED
    BY <2>1, <2>2, <2>3 DEF MainAt
<1>9. CASE ReportTotals
  <2>1. UNCHANGED <<gpc, reportClosed, rpc, toClosed>> /\ wpc = "totals" /\ wpc' = "close"
    BY <1>9 DEF ReportTotals, vars
  <2> QED
    BY <1>0, <2>1 DEF MainAt, Counted
<1>10. CASE CloseReport
  <2>1. UNCHANGED <<gpc, report, rpc, toClosed>> /\ wpc = "close" /\ wpc' = "donec" /\ reportClosed' = TRUE
    BY <1>10 DEF CloseReport, vars
  <2> QED
    BY <1>0, <2>1 DEF MainAt, Counted
<1>11. CASE Donec
  <2>1. /\ UNCHANGED <<gpc, report, reportClosed, toClosed>>
        /\ wpc = "donec" /\ wpc' = "exit" /\ rpc = "donec" /\ rpc' = "stop"
    BY <1>11 DEF Donec, vars
  <2> QED
    BY <1>0, <2>1 DEF MainAt, Counted
<1> QED
  BY <1>2, <1>3, <1>4, <1>5, <1>6, <1>7, <1>8, <1>9, <1>10, <1>11 DEF WcNext, WcMain, Printer

----------------------------------------------------------------------------
\* One more element.
LEMMA OneMore ==
  ASSUME NEW S, NEW s \in Seq(S), NEW e \in S, NEW t, t = Append(s, e)
  PROVE  /\ t \in Seq(S) /\ Len(t) = Len(s) + 1 /\ Len(s) \in Nat
         /\ \A k \in 1..Len(s) : t[k] = s[k]
         /\ t[Len(t)] = e
         /\ Elements(t) = Elements(s) \cup {e}
<1>1. Len(s) \in Nat
  BY LenProperties
<1>2. t \in Seq(S) /\ Len(t) = Len(s) + 1 /\ (\A k \in 1..Len(s) : t[k] = s[k]) /\ t[Len(s) + 1] = e
  BY AppendProperties
<1>3. 1..Len(t) = (1..Len(s)) \cup {Len(s) + 1}
  BY <1>1, <1>2
<1>4. {t[k] : k \in 1..Len(t)} = {s[k] : k \in 1..Len(s)} \cup {e}
  BY <1>2, <1>3
<1> QED
  BY <1>1, <1>2, <1>4 DEF Elements

\* The elements of what was said.
LEMMA SaidTyped ==
  ASSUME NEW I0, NEW s \in Seq(I0 \X Nat), NEW r \in Seq(I0), Len(r) <= 1
  PROVE  /\ AllSaid(s, r) \in Seq(I0) /\ Len(AllSaid(s, r)) = Len(s) + Len(r)
         /\ Len(s) \in Nat /\ Len(r) \in {0, 1} /\ Len(AllSaid(s, r)) \in Nat
         /\ \A k \in 1..Len(s) : AllSaid(s, r)[k] = s[k][1]
         /\ Len(r) = 1 => AllSaid(s, r)[Len(s) + 1] = Head(r)
<1> DEFINE A == [k \in 1..Len(s) |-> s[k][1]]
           B == AllSaid(s, r)
<1>1. Len(s) \in Nat /\ Len(r) \in {0, 1}
  <2>1. Len(s) \in Nat /\ Len(r) \in Nat
    BY LenProperties
  <2>2. \A n \in Nat : n <= 1 => n \in {0, 1}
    OBVIOUS
  <2> QED
    BY <2>1, <2>2, Zenon
<1>2. \A k \in 1..Len(s) : s[k][1] \in I0
  <2> TAKE k \in 1..Len(s)
  <2>1. s[k] \in I0 \X Nat
    BY <1>1, ElementOfSeq
  <2> QED
    BY <2>1
<1>3. A \in Seq(I0) /\ Len(A) = Len(s)
  BY <1>1, <1>2
<1>4. B = A \o r
  BY DEF AllSaid
<1>5. /\ B \in Seq(I0) /\ Len(B) = Len(s) + Len(r)
      /\ \A k \in 1..Len(B) : B[k] = IF k <= Len(A) THEN A[k] ELSE r[k - Len(A)]
  <2>1. \A C \in Seq(I0) : /\ C \o r \in Seq(I0) /\ Len(C \o r) = Len(C) + Len(r)
                           /\ \A k \in 1..(Len(C) + Len(r)) :
                                  (C \o r)[k] = IF k <= Len(C) THEN C[k] ELSE r[k - Len(C)]
    BY ConcatProperties
  <2> HIDE DEF A, B
  <2> QED
    BY <1>3, <1>4, <2>1
<1>6. ASSUME NEW k \in 1..Len(s) PROVE B[k] = s[k][1]
  <2>1. k \in 1..Len(B) /\ k <= Len(A)
    BY <1>1, <1>3, <1>5
  <2>2. B[k] = A[k]
    <3> HIDE DEF A, B
    <3> QED
      BY <1>5, <2>1
  <2> HIDE DEF B
  <2> QED
    BY <2>2
<1>7. ASSUME Len(r) = 1 PROVE B[Len(s) + 1] = Head(r)
  <2>1. Len(s) + 1 \in 1..Len(B) /\ ~(Len(s) + 1 <= Len(A)) /\ (Len(s) + 1) - Len(A) = 1
    BY <1>1, <1>3, <1>5, <1>7
  <2>2. B[Len(s) + 1] = r[1]
    <3> HIDE DEF A, B
    <3> QED
      BY <1>5, <2>1
  <2> HIDE DEF A, B
  <2> QED
    BY <1>1, <1>7, <2>2
<1> HIDE DEF A
<1> QED
  BY <1>1, <1>5, <1>6, <1>7

\* What the printer shows was said before.
LEMMA SaidShow ==
  ASSUME NEW I0, NEW s \in Seq(I0 \X Nat), NEW r \in Seq(I0), Len(r) <= 1, r # <<>>,
         NEW line \in I0 \X Nat, line[1] = Head(r)
  PROVE  AllSaid(Append(s, line), Tail(r)) = AllSaid(s, r)
<1> DEFINE t == Append(s, line)
           u == Tail(r)
<1>1. Len(r) = 1 /\ Len(s) \in Nat
  <2>1. Len(s) \in Nat /\ Len(r) \in Nat
    BY LenProperties
  <2>2. Len(r) # 0
    BY EmptySeq
  <2>3. \A n \in Nat : n <= 1 /\ n # 0 => n = 1
    OBVIOUS
  <2> QED
    BY <2>1, <2>2, <2>3, Zenon
<1>2. t \in Seq(I0 \X Nat) /\ Len(t) = Len(s) + 1 /\ (\A k \in 1..Len(s) : t[k] = s[k]) /\ t[Len(t)] = line
  BY OneMore
<1>3. u \in Seq(I0) /\ Len(u) = 0
  BY <1>1, HeadTailProperties
<1> HIDE DEF t, u
<1>4. /\ AllSaid(s, r) \in Seq(I0) /\ Len(AllSaid(s, r)) = Len(s) + 1
      /\ \A k \in 1..Len(s) : AllSaid(s, r)[k] = s[k][1]
      /\ AllSaid(s, r)[Len(s) + 1] = Head(r)
  BY <1>1, SaidTyped, ZenonT(60)
<1>5. /\ AllSaid(t, u) \in Seq(I0) /\ Len(AllSaid(t, u)) = Len(s) + 1
      /\ \A k \in 1..(Len(s) + 1) : AllSaid(t, u)[k] = t[k][1]
  <2>1. t \in Seq(I0 \X Nat) /\ u \in Seq(I0) /\ Len(u) <= 1
    BY <1>2, <1>3
  <2>2. /\ AllSaid(t, u) \in Seq(I0) /\ Len(AllSaid(t, u)) = Len(t) + Len(u)
        /\ Len(t) \in Nat /\ Len(u) \in {0, 1} /\ Len(AllSaid(t, u)) \in Nat
        /\ \A k \in 1..Len(t) : AllSaid(t, u)[k] = t[k][1]
        /\ Len(u) = 1 => AllSaid(t, u)[Len(t) + 1] = Head(u)
    BY <2>1, SaidTyped, Zenon
  <2> QED
    BY <1>1, <1>2, <1>3, <2>2
<1>6. \A k \in 1..(Len(s) + 1) : AllSaid(t, u)[k] = AllSaid(s, r)[k]
  <2> TAKE k \in 1..(Len(s) + 1)
  <2>1. CASE k \in 1..Len(s)
    BY <1>2, <1>4, <1>5, <2>1
  <2>2. CASE k = Len(s) + 1
    BY <1>1, <1>2, <1>4, <1>5, <2>2
  <2> QED
    BY <1>1, <2>1, <2>2
<1>7. AllSaid(t, u) = AllSaid(s, r)
  BY <1>4, <1>5, <1>6, SeqEqual
<1> QED
  BY <1>7 DEF t, u

\* One element more at the end.
Longer(v, t, e) ==
    /\ Len(v) \in Nat /\ Len(t) = Len(v) + 1
    /\ \A k \in 1..Len(v) : t[k] = v[k]
    /\ t[Len(t)] = e
    /\ Elements(t) = Elements(v) \cup {e}

\* A sequence that has one element more.
LEMMA LongerIs ==
  ASSUME NEW v, NEW t, NEW e, NEW m \in Nat, Len(v) = m, Len(t) = m + 1,
         \A k \in 1..m : t[k] = v[k], t[m + 1] = e
  PROVE  Longer(v, t, e)
<1>1. 1..(m + 1) = (1..m) \cup {m + 1}
  OBVIOUS
<1>2. {t[k] : k \in 1..(m + 1)} = {v[k] : k \in 1..m} \cup {e}
  BY <1>1
<1> QED
  BY <1>2 DEF Longer, Elements

\* What is sent to the printer is said.
LEMMA SaidMore ==
  ASSUME NEW I0, NEW s, NEW p, NEW q,
         s \in Seq(I0 \X Nat), p \in Seq(I0), q \in Seq(I0), Len(p) = 0, Len(q) = 1
  PROVE  Longer(AllSaid(s, p), AllSaid(s, q), Head(q))
<1> DEFINE v == AllSaid(s, p)
           t == AllSaid(s, q)
           i == Head(q)
<1>1. Len(v) = Len(s) /\ Len(s) \in Nat /\ \A k \in 1..Len(s) : v[k] = s[k][1]
  <2>1. Len(p) <= 1
    OBVIOUS
  <2>2. /\ AllSaid(s, p) \in Seq(I0) /\ Len(AllSaid(s, p)) = Len(s) + Len(p)
        /\ Len(s) \in Nat /\ Len(p) \in {0, 1} /\ Len(AllSaid(s, p)) \in Nat
        /\ \A k \in 1..Len(s) : AllSaid(s, p)[k] = s[k][1]
        /\ Len(p) = 1 => AllSaid(s, p)[Len(s) + 1] = Head(p)
    BY <2>1, SaidTyped
  <2> QED
    BY <2>2
<1>2. Len(t) = Len(s) + 1 /\ (\A k \in 1..Len(s) : t[k] = s[k][1]) /\ t[Len(s) + 1] = i
  <2>1. Len(q) <= 1
    OBVIOUS
  <2>2. /\ AllSaid(s, q) \in Seq(I0) /\ Len(AllSaid(s, q)) = Len(s) + Len(q)
        /\ Len(s) \in Nat /\ Len(q) \in {0, 1} /\ Len(AllSaid(s, q)) \in Nat
        /\ \A k \in 1..Len(s) : AllSaid(s, q)[k] = s[k][1]
        /\ Len(q) = 1 => AllSaid(s, q)[Len(s) + 1] = Head(q)
    BY <2>1, SaidTyped, ZenonT(60)
  <2> QED
    BY <2>2
<1> HIDE DEF v, t, i
<1>3. \A k \in 1..Len(s) : t[k] = v[k]
  BY <1>1, <1>2
<1>4. Longer(v, t, i)
  BY <1>1, <1>2, <1>3, LongerIs
<1> QED
  BY <1>4 DEF v, t, i


\* A tally is said once its goroutine is done, and the totals after all of them.
LEMMA SaidOnceStep ==
  ASSUME WcAssumption, WcKept, [WcNext]_wcVars
  PROVE  SaidOnce'
<1>0. Index' = Index /\ Given' = Given /\ Index \subseteq Nat \ {0}
  BY WcArgStep, SameList, ListTyped DEF WcKept, Kept, WcAssumption
<1>a. ArgFileAssumption
  BY DEF WcAssumption
<1> USE DEF WcKept
<1> DEFINE I0 == Index \cup {0}
           Over == In({"done"})
<1>b. shown \in Seq(I0 \X Nat) /\ report \in Seq(I0) /\ Len(report) <= 1
  BY DEF ReportTyped
<1>c. IsFiniteSet(Over) /\ Cardinality(Over) \in Nat
  BY <1>a, InFinite
<1>1. ASSUME Said' = Said, Over' = Over, TotalsSaid' = TotalsSaid PROVE SaidOnce'
  BY <1>1 DEF SaidOnce
<1>2. ASSUME UNCHANGED <<shown, report>> PROVE Said' = Said
  BY <1>2 DEF Said
<1>3. CASE WcEmit \/ UNCHANGED wcVars
  <2>1. UNCHANGED <<shown, report, gpc, wpc, nfiles>>
    BY <1>3 DEF WcEmit, wcOwn, wcVars
  <2>2. Over' = Over
    BY <1>0, <2>1, InSame
  <2>3. TotalsSaid' = TotalsSaid
    BY <2>1 DEF TotalsSaid
  <2> QED
    BY <1>1, <1>2, <2>1, <2>2, <2>3
<1>4. ASSUME NEW i \in Index, WcReceive(i) PROVE SaidOnce'
  <2>1. UNCHANGED <<shown, report>> /\ wpc = "range" /\ wpc' = "range" /\ gpc' = [gpc EXCEPT ![i] = "count"]
    BY <1>4 DEF WcReceive
  <2>2. Over' = Over
    <3>1. i \notin Started
      BY <1>a, <1>4, HandedMore DEF WcReceive, EachStarted
    <3>2. i \notin Over
      BY <3>1 DEF Started, In
    <3>3. "count" \notin {"done"}
      OBVIOUS
    <3>4. Over' = Over \ {i}
      BY <1>0, <2>1, <3>3, InMoves
    <3> QED
      BY <3>2, <3>4
  <2>3. TotalsSaid' = TotalsSaid
    BY <2>1 DEF TotalsSaid
  <2> QED
    BY <1>1, <1>2, <2>1, <2>2, <2>3
<1>5. ASSUME NEW i \in Index, Count(i) \/ CloseFile(i) \/ AddRead(i) \/ AddWrite(i) PROVE SaidOnce'
  <2>1. UNCHANGED <<shown, report, wpc, nfiles>>
    BY <1>5 DEF Count, CloseFile, AddRead, AddWrite, wcOwn
  <2>2. gpc' = gpc \/ (gpc[i] # "done" /\ \E s \in {"close", "store", "report"} : gpc' = [gpc EXCEPT ![i] = s])
    BY <1>5 DEF Count, CloseFile, AddRead, AddWrite, wcOwn
  <2>3. Over' = Over
    <3>1. CASE gpc' = gpc
      BY <1>0, <3>1, InSame
    <3>2. CASE gpc[i] # "done" /\ \E s \in {"close", "store", "report"} : gpc' = [gpc EXCEPT ![i] = s]
      <4>1. PICK s \in {"close", "store", "report"} : gpc' = [gpc EXCEPT ![i] = s]
        BY <3>2
      <4>2. s \notin {"done"} /\ gpc[i] \notin {"done"}
        BY <3>2
      <4>3. Over' = Over \ {i} /\ i \notin Over
        BY <1>0, <4>1, <4>2, InMoves
      <4> QED
        BY <4>3
    <3> QED
      BY <2>2, <3>1, <3>2
  <2>4. TotalsSaid' = TotalsSaid
    BY <2>1 DEF TotalsSaid
  <2> QED
    BY <1>1, <1>2, <2>1, <2>3, <2>4
<1>6. ASSUME NEW i \in Index, Report(i) PROVE SaidOnce'
  <2>1. /\ report = <<>> /\ report' = Append(report, i) /\ shown' = shown /\ gpc[i] = "report"
        /\ gpc' = [gpc EXCEPT ![i] = "done"] /\ UNCHANGED <<wpc, nfiles>>
    BY <1>6 DEF Report, Room
  <2>2. ~TotalsSaid /\ ~TotalsSaid'
    BY <2>1 DEF TotalsSaid, MainAt, Counted
  <2>3. Over' = Over \cup {i} /\ i \notin Over
    <3>1. "done" \in {"done"} /\ gpc[i] \notin {"done"}
      BY <2>1
    <3> QED
      BY <1>0, <2>1, <3>1, InMoves
  <2>4. Cardinality(Over \cup {i}) = Cardinality(Over) + 1
    BY <1>c, <2>3, FS_AddElement
  <2>5. Cardinality(Over') = Cardinality(Over) + 1
    BY <2>3, <2>4, Zenon
  <2>6. /\ Len(Said') = Len(Said) + 1 /\ Len(Said) \in Nat
        /\ \A k \in 1..Len(Said) : Said'[k] = Said[k]
        /\ Said'[Len(Said')] = i
        /\ Elements(Said') = Elements(Said) \cup {i}
    <3>1. Said' = AllSaid(shown, report') /\ Said = AllSaid(shown, report)
      BY <2>1 DEF Said
    <3>2. report' = <<i>> /\ i \in I0
      BY <2>1
    <3>3. /\ shown \in Seq(I0 \X Nat) /\ report \in Seq(I0) /\ Len(report) = 0
          /\ report' \in Seq(I0) /\ Len(report') = 1 /\ Head(report') = i
      BY <1>b, <2>1, <3>2
    <3>4. Longer(AllSaid(shown, report), AllSaid(shown, report'), Head(report'))
      <4> HIDE DEF I0
      <4> QED
        BY <3>3, SaidMore
    <3> QED
      BY <3>1, <3>3, <3>4 DEF Longer
  <2>7. i # 0
    BY <1>0
  <2>8. Elements(Said') \ {0} = Over'
    BY <2>3, <2>6, <2>7 DEF SaidOnce
  <2>9. Len(Said') = Cardinality(Over')
    BY <1>c, <2>2, <2>5, <2>6 DEF SaidOnce
  <2>10. \A k \in 1..Len(Said') : Said'[k] # 0
    <3> TAKE k \in 1..Len(Said')
    <3>1. CASE k \in 1..Len(Said)
      BY <2>2, <2>6, <3>1 DEF SaidOnce
    <3>2. CASE k = Len(Said')
      BY <2>6, <2>7, <3>2
    <3> QED
      BY <2>6, <3>1, <3>2
  <2> QED
    BY <1>c, <2>2, <2>5, <2>8, <2>9, <2>10 DEF SaidOnce
<1>7. CASE Show
  <2>1. /\ UNCHANGED <<wpc, nfiles, gpc>> /\ shown' = Append(shown, Shown(Head(report)))
        /\ report' = Tail(report) /\ report # <<>>
    BY <1>7 DEF Show
  <2>2. Said' = Said
    <3>1. Head(report) \in I0
      BY <1>b, <2>1, HeadTailProperties
    <3>2. Shown(Head(report)) \in I0 \X Nat
      BY <3>1, ShownTyped
    <3> DEFINE line == Shown(Head(report))
    <3>3. line \in I0 \X Nat /\ line[1] = Head(report)
      BY <3>2 DEF Shown
    <3>4. Said' = AllSaid(Append(shown, line), Tail(report)) /\ Said = AllSaid(shown, report)
      BY <2>1 DEF Said
    <3> HIDE DEF line
    <3> QED
      BY <1>b, <2>1, <3>3, <3>4, SaidShow
  <2>3. Over' = Over
    BY <1>0, <2>1, InSame
  <2>4. TotalsSaid' = TotalsSaid
    BY <2>1 DEF TotalsSaid
  <2> QED
    BY <1>1, <2>2, <2>3, <2>4
<1>8. CASE ShowEnd \/ WcRangeEnd \/ CloseReport \/ Donec
  <2>1. UNCHANGED <<shown, report, gpc, nfiles>>
    BY <1>8 DEF ShowEnd, WcRangeEnd, CloseReport, Donec
  <2>2. Over' = Over
    BY <1>0, <2>1, InSame
  <2>3. TotalsSaid' = TotalsSaid
    BY <1>8 DEF ShowEnd, WcRangeEnd, CloseReport, Donec, TotalsSaid
  <2> QED
    BY <1>1, <1>2, <2>1, <2>2, <2>3
<1>9. CASE WcWait
  <2>1. UNCHANGED <<shown, report, gpc, nfiles>>
    BY <1>9 DEF WcWait
  <2>2. Over' = Over
    BY <1>0, <2>1, InSame
  <2>3. TotalsSaid' = TotalsSaid
    BY <1>9 DEF WcWait, TotalsSaid
  <2> QED
    BY <1>1, <1>2, <2>1, <2>2, <2>3
<1>10. CASE ReportTotals
  <2>1. /\ report = <<>> /\ report' = Append(report, 0) /\ shown' = shown /\ UNCHANGED <<gpc, nfiles>>
        /\ wpc = "totals" /\ wpc' = "close"
    BY <1>10 DEF ReportTotals, Room
  <2>2. ~TotalsSaid /\ TotalsSaid'
    BY <2>1 DEF TotalsSaid, MainAt
  <2>3. Over' = Over
    BY <1>0, <2>1, InSame
  <2>4. /\ Len(Said') = Len(Said) + 1 /\ Len(Said) \in Nat
        /\ \A k \in 1..Len(Said) : Said'[k] = Said[k]
        /\ Said'[Len(Said')] = 0
        /\ Elements(Said') = Elements(Said) \cup {0}
    <3>1. Said' = AllSaid(shown, report') /\ Said = AllSaid(shown, report)
      BY <2>1 DEF Said
    <3>2. report' = <<0>> /\ 0 \in I0
      BY <2>1
    <3>3. /\ shown \in Seq(I0 \X Nat) /\ report \in Seq(I0) /\ Len(report) = 0
          /\ report' \in Seq(I0) /\ Len(report') = 1 /\ Head(report') = 0
      BY <1>b, <2>1, <3>2
    <3>4. Longer(AllSaid(shown, report), AllSaid(shown, report'), Head(report'))
      <4> HIDE DEF I0
      <4> QED
        BY <3>3, SaidMore
    <3> QED
      BY <3>1, <3>3, <3>4 DEF Longer
  <2>5. Elements(Said') \ {0} = Over'
    BY <2>3, <2>4 DEF SaidOnce
  <2>6. Len(Said') = Cardinality(Over') + 1
    <3>1. Cardinality(Over') = Cardinality(Over)
      BY <2>3, Zenon
    <3>2. Len(Said) = Cardinality(Over)
      BY <1>c, <2>2 DEF SaidOnce
    <3> QED
      BY <2>4, <3>1, <3>2
  <2>7. \A k \in 1..Len(Said') : Said'[k] = 0 => k = Len(Said')
    <3> TAKE k \in 1..Len(Said')
    <3>1. CASE k \in 1..Len(Said)
      BY <2>2, <2>4, <3>1 DEF SaidOnce
    <3> QED
      BY <2>4, <3>1
  <2> QED
    BY <1>c, <2>2, <2>3, <2>4, <2>5, <2>6, <2>7 DEF SaidOnce
<1> QED
  BY <1>3, <1>4, <1>5, <1>6, <1>7, <1>8, <1>9, <1>10 DEF WcNext, WcMain, Printer, File

----------------------------------------------------------------------------
\* A sum of some files is read and written back with one file more, which it did not have.
LEMMA SomeSumsStep ==
  ASSUME WcAssumption, WcKept, [WcNext]_wcVars
  PROVE  SomeSums'
<1>0. Index' = Index /\ Given' = Given /\ Given \in Seq(Name) /\ Index = 1..Len(Given)
  BY WcArgStep, SameList, ListTyped DEF WcKept, Kept, WcAssumption
<1> USE DEF WcKept
<1>1. ASSUME Added' = Added, totals' = totals,
             \A i \in Index : gpc'[i] = "store" => gpc[i] = "store" /\ read'[i] = read[i]
      PROVE  SomeSums'
  BY <1>0, <1>1 DEF SomeSums
<1>2. CASE WcEmit \/ Printer \/ WcRangeEnd \/ WcWait \/ ReportTotals \/ CloseReport \/ Donec \/ UNCHANGED wcVars
  <2>1. UNCHANGED <<gpc, read, totals>>
    BY <1>2 DEF WcEmit, Printer, Show, ShowEnd, WcRangeEnd, WcWait, ReportTotals, CloseReport, Donec,
       wcVars, wcOwn
  <2>2. Added' = Added
    BY <1>0, <2>1, InSame DEF Added
  <2> QED
    BY <1>1, <2>1, <2>2
<1>3. ASSUME NEW i \in Index, WcReceive(i) \/ Count(i) \/ CloseFile(i) \/ Report(i) PROVE SomeSums'
  <2>1. UNCHANGED <<read, totals>>
    BY <1>3 DEF WcReceive, Count, CloseFile, Report, wcOwn
  <2>2. \/ gpc' = gpc
        \/ gpc[i] = "report" /\ gpc' = [gpc EXCEPT ![i] = "done"]
        \/ gpc[i] \in {"none", "count"} /\ \E s \in {"count", "close"} : gpc' = [gpc EXCEPT ![i] = s]
    <3>1. ASSUME WcReceive(i) PROVE gpc[i] = "none" /\ gpc' = [gpc EXCEPT ![i] = "count"]
      <4>1. i \notin Started
        BY <3>1, HandedMore DEF WcReceive, EachStarted, WcAssumption
      <4> QED
        BY <3>1, <4>1 DEF WcReceive, Started, In, GoesTyped
    <3> QED
      BY <1>3, <3>1 DEF Count, CloseFile, Report, wcOwn
  <2> DEFINE S0 == {"report", "done"}
  <2>3. Added' = Added /\ \A j \in Index : gpc'[j] = "store" => gpc[j] = "store"
    <3>1. CASE gpc' = gpc
      BY <1>0, <3>1, InSame DEF Added
    <3>2. ASSUME gpc[i] = "report", gpc' = [gpc EXCEPT ![i] = "done"]
          PROVE  Added' = Added /\ \A j \in Index : gpc'[j] = "store" => gpc[j] = "store"
      <4>1. "done" \in S0 /\ gpc[i] \in S0
        BY <3>2
      <4>2. In(S0)' = In(S0) \cup {i} /\ i \in In(S0)
        BY <1>0, <3>2, <4>1, InMoves
      <4> QED
        BY <3>2, <4>2 DEF Added, GoesTyped
    <3>3. ASSUME gpc[i] \in {"none", "count"}, NEW s \in {"count", "close"}, gpc' = [gpc EXCEPT ![i] = s]
          PROVE  Added' = Added /\ \A j \in Index : gpc'[j] = "store" => gpc[j] = "store"
      <4>1. s \notin S0 /\ gpc[i] \notin S0
        BY <3>3
      <4>2. In(S0)' = In(S0) \ {i} /\ i \notin In(S0)
        BY <1>0, <3>3, <4>1, InMoves
      <4> QED
        BY <3>3, <4>2 DEF Added, GoesTyped
    <3> QED
      BY <2>2, <3>1, <3>2, <3>3
  <2> QED
    BY <1>1, <2>1, <2>3
<1>4. ASSUME NEW i \in Index, AddRead(i) PROVE SomeSums'
  <2>1. /\ gpc[i] = "close" /\ gpc' = [gpc EXCEPT ![i] = "store"] /\ totals' = totals
        /\ read' = [read EXCEPT ![i] = totals]
    BY <1>4 DEF AddRead
  <2>2. Added' = Added
    <3>1. "store" \notin {"report", "done"} /\ gpc[i] \notin {"report", "done"}
      BY <2>1
    <3>2. In({"report", "done"})' = In({"report", "done"}) \ {i} /\ i \notin In({"report", "done"})
      BY <1>0, <2>1, <3>1, InMoves
    <3> QED
      BY <3>2 DEF Added
  <2>3. PICK S \in SUBSET Added : totals = SumOf(Given, S) /\ (Added # {} => S # {})
    BY DEF SomeSums
  <2>4. ASSUME NEW j \in Index, gpc'[j] = "store" PROVE \E T \in SUBSET Added : read'[j] = SumOf(Given, T)
    <3>1. CASE j = i
      BY <2>1, <2>3, <3>1 DEF GoesTyped
    <3>2. CASE j # i
      <4>1. gpc[j] = "store" /\ read'[j] = read[j]
        BY <2>1, <2>4, <3>2 DEF GoesTyped
      <4> QED
        BY <4>1 DEF SomeSums
    <3> QED
      BY <3>1, <3>2
  <2> QED
    BY <1>0, <2>1, <2>2, <2>3, <2>4 DEF SomeSums
<1>5. ASSUME NEW i \in Index, AddWrite(i) PROVE SomeSums'
  <2>1. /\ gpc[i] = "store" /\ gpc' = [gpc EXCEPT ![i] = "report"] /\ read' = read
        /\ totals' = read[i] + Size[Given[i]]
    BY <1>5 DEF AddWrite, Stored
  <2>2. Added' = Added \cup {i} /\ i \notin Added
    <3>1. "report" \in {"report", "done"} /\ gpc[i] \notin {"report", "done"}
      BY <2>1
    <3> QED
      BY <1>0, <2>1, <3>1, InMoves DEF Added
  <2>3. PICK S \in SUBSET Added : read[i] = SumOf(Given, S)
    BY <2>1 DEF SomeSums
  <2>4. SumOf(Given, S \cup {i}) = SumOf(Given, S) + Size[Given[i]]
    <3>1. i \in 1..Len(Given) /\ i \notin S /\ Size \in [Name -> Nat]
      BY <1>0, <2>2 DEF WcAssumption
    <3> QED
      BY <1>0, <3>1, SumStep
  <2>5. /\ S \cup {i} \in SUBSET Added' /\ S \cup {i} # {}
        /\ totals' = SumOf(Given, S \cup {i})
    BY <2>1, <2>2, <2>3, <2>4
  <2>6. ASSUME NEW j \in Index, gpc'[j] = "store" PROVE \E T \in SUBSET Added' : read'[j] = SumOf(Given, T)
    <3>1. j # i /\ gpc[j] = "store"
      BY <2>1, <2>6 DEF GoesTyped
    <3>2. PICK T \in SUBSET Added : read[j] = SumOf(Given, T)
      BY <3>1 DEF SomeSums
    <3> QED
      BY <2>1, <2>2, <3>2
  <2> QED
    BY <1>0, <2>5, <2>6 DEF SomeSums
<1> QED
  BY <1>2, <1>3, <1>4, <1>5 DEF WcNext, WcMain, File

\* The totals are shown when all goroutines are done, one of them at least.
LEMMA TotalsStep ==
  ASSUME WcAssumption, WcKept, [WcNext]_wcVars
  PROVE  TotalsOfSome'
<1>0. Index' = Index /\ Given' = Given /\ Index \subseteq Nat \ {0}
  BY WcArgStep, SameList, ListTyped DEF WcKept, Kept, WcAssumption
<1>a. ArgFileAssumption
  BY DEF WcAssumption
<1> USE DEF WcKept
<1> DEFINE I0 == Index \cup {0}
<1>1. Opened \subseteq Opened'
  <2>1. \A i \in Index : fd[i] # "none" => fd'[i] # "none"
    <3>1. ASSUME NEW i \in Index, NEW c \in Caller, CloseFn(i, c)
          PROVE  \A j \in Index : fd[j] # "none" => fd'[j] # "none"
      <4>1. fd' = [fd EXCEPT ![i] = "closed"] /\ fd \in [Index -> {"none", "open", "closed"}]
        BY <3>1 DEF CloseFn, Shut, Kept, FilesTyped
      <4> QED
        BY <4>1
    <3>2. CASE OpenWorks
      <4>1. fd' = [fd EXCEPT ![epos] = "open"] /\ fd \in [Index -> {"none", "open", "closed"}]
        BY <3>2 DEF OpenWorks, Kept, FilesTyped
      <4> QED
        BY <4>1
    <3>3. CASE \/ Ticket \/ OpenFails \/ Wait \/ CloseTicket \/ CloseTo \/ (\E i \in Index : Hand(i)) \/ UNCHANGED vars
               \/ \E i \in Index, c \in Caller : CloseTake(i, c) \/ CloseDone(i, c) \/ CloseRelease(i, c)
      <4>1. fd' = fd
        BY <3>3 DEF Ticket, OpenFails, Wait, CloseTicket, CloseTo, Hand, vars, CloseTake, CloseDone, CloseRelease
      <4> QED
        BY <4>1
    <3> QED
      BY <3>1, <3>2, <3>3, WcArgStep DEF AnyStep, EmitWith, Open, Close
  <2> QED
    BY <1>0, <2>1 DEF Opened
<1>2. ASSUME shown' = shown PROVE TotalsOfSome'
  <2> SUFFICES ASSUME NEW k \in 1..Len(shown), shown[k][1] = 0
               PROVE  \E S \in (SUBSET Opened') \ {{}} : shown[k][2] = SumOf(Given, S)
    BY <1>0, <1>2 DEF TotalsOfSome
  <2>1. PICK S \in (SUBSET Opened) \ {{}} : shown[k][2] = SumOf(Given, S)
    BY DEF TotalsOfSome
  <2> QED
    BY <1>1, <2>1
<1>3. CASE Show
  <2>1. /\ shown \in Seq(I0 \X Nat) /\ report \in Seq(I0) /\ Len(report) <= 1 /\ report # <<>>
        /\ shown' = Append(shown, Shown(Head(report)))
    BY <1>3 DEF Show, ReportTyped
  <2>2. Head(report) \in I0 /\ Len(report) = 1
    <3>1. Len(report) \in Nat /\ Len(report) # 0 /\ Len(report) <= 1
      BY <2>1, LenProperties, EmptySeq
    <3>2. \A n \in Nat : n # 0 /\ n <= 1 => n = 1
      OBVIOUS
    <3>3. Len(report) = 1
      BY <3>1, <3>2, Zenon
    <3> QED
      BY <2>1, <3>3, HeadTailProperties
  <2>3. Shown(Head(report)) \in I0 \X Nat
    BY <2>2, ShownTyped
  <2> DEFINE line == Shown(Head(report))
  <2>4. line[1] = Head(report) /\ (Head(report) = 0 => line[2] = totals)
    BY DEF Shown
  <2>5. /\ Len(shown') = Len(shown) + 1 /\ Len(shown) \in Nat
        /\ \A k \in 1..Len(shown) : shown'[k] = shown[k]
        /\ shown'[Len(shown')] = line
    <3> HIDE DEF line
    <3>1. line \in I0 \X Nat /\ shown' = Append(shown, line)
      BY <2>1, <2>3 DEF line
    <3> QED
      BY <2>1, <3>1, OneMore
  <2> HIDE DEF line
  <2>6. ASSUME Head(report) = 0 PROVE \E S \in (SUBSET Opened) \ {{}} : totals = SumOf(Given, S)
    <3>1. TotalsSaid
      <4>1. Said[Len(shown) + 1] = 0 /\ Len(Said) = Len(shown) + 1
        <5> DEFINE B == AllSaid(shown, report)
        <5>1. /\ B \in Seq(I0) /\ Len(B) = Len(shown) + Len(report)
              /\ Len(shown) \in Nat /\ Len(report) \in {0, 1} /\ Len(B) \in Nat
              /\ \A k \in 1..Len(shown) : B[k] = shown[k][1]
              /\ Len(report) = 1 => B[Len(shown) + 1] = Head(report)
          BY <2>1, SaidTyped
        <5> QED
          BY <2>2, <2>6, <5>1 DEF Said
      <4>2. Len(shown) + 1 \in 1..Len(Said)
        BY <2>5, <4>1
      <4> QED
        BY <4>1, <4>2 DEF SaidOnce
    <3>2. Counted /\ nfiles > 1
      BY <3>1 DEF TotalsSaid, MainAt
    <3>3. Added = Started
      BY <3>2 DEF Added, Started, In, Counted
    <3>4. Started # {}
      <4>1. Cardinality(Started) > 1
        BY <3>2 DEF EachStarted
      <4>2. Cardinality({}) = 0
        BY FS_EmptySet
      <4> QED
        BY <4>1, <4>2
    <3>5. Started \subseteq Opened
      BY DEF EachStarted, Handed, Opened
    <3>6. PICK S \in SUBSET Added : totals = SumOf(Given, S) /\ (Added # {} => S # {})
      BY DEF SomeSums
    <3>7. S \in (SUBSET Opened) \ {{}}
      <4>1. S # {}
        BY <3>3, <3>4, <3>6
      <4>2. S \subseteq Opened
        BY <3>3, <3>5
      <4>3. S \notin {{}} /\ S \in SUBSET Opened
        BY <4>1, <4>2
      <4> QED
        BY <4>3, Zenon
    <3> QED
      BY <3>6, <3>7
  <2>7. ASSUME NEW k \in 1..Len(shown'), shown'[k][1] = 0
        PROVE  \E S \in (SUBSET Opened') \ {{}} : shown'[k][2] = SumOf(Given, S)
    <3>1. CASE k \in 1..Len(shown)
      <4>1. shown'[k] = shown[k]
        BY <2>5, <3>1
      <4>2. PICK S \in (SUBSET Opened) \ {{}} : shown[k][2] = SumOf(Given, S)
        BY <2>7, <3>1, <4>1 DEF TotalsOfSome
      <4>3. S \in (SUBSET Opened') \ {{}}
        BY <1>1
      <4> QED
        BY <4>1, <4>2, <4>3
    <3>2. CASE k = Len(shown')
      <4>1. shown'[k] = line /\ Head(report) = 0 /\ shown'[k][2] = totals
        BY <2>4, <2>5, <2>7, <3>2
      <4>2. PICK S \in (SUBSET Opened) \ {{}} : totals = SumOf(Given, S)
        BY <2>6, <4>1
      <4>3. S \in (SUBSET Opened') \ {{}}
        BY <1>1
      <4> QED
        BY <4>1, <4>2, <4>3
    <3>3. k \in 1..Len(shown) \/ k = Len(shown')
      BY <2>5
    <3> QED
      BY <3>1, <3>2, <3>3
  <2> QED
    BY <1>0, <2>7 DEF TotalsOfSome
<1>4. CASE ~Show
  <2>1. shown' = shown
    BY <1>4 DEF WcNext, WcMain, Printer, File, WcEmit, WcReceive, Count, CloseFile, AddRead, AddWrite, Report,
       ShowEnd, WcRangeEnd, WcWait, ReportTotals, CloseReport, Donec, wcVars, wcOwn
  <2> QED
    BY <1>2, <2>1
<1> QED
  BY <1>3, <1>4

----------------------------------------------------------------------------
\* At the start nothing has been handed over, counted or said.
LEMMA WcInitRight ==
  ASSUME WcAssumption, WcInit
  PROVE  WcKept
<1>a. ArgFileAssumption
  BY DEF WcAssumption
<1>1. Kept
  BY <1>a, InitRight DEF WcInit
<1>2. GoesTyped
  BY DEF WcInit, WcOwnInit, GoesTyped
<1>3. /\ report = <<>> /\ shown = <<>> /\ wpc = "range" /\ rpc = "recv"
      /\ reportClosed = FALSE /\ totals = 0 /\ nfiles = 0
  BY DEF WcInit, WcOwnInit
<1>4. ReportTyped
  <2>1. \A S : <<>> \in Seq(S) /\ Len(<<>>) = 0
    BY EmptySeq
  <2>2. report \in Seq(Index \cup {0}) /\ Len(report) <= 1 /\ shown \in Seq((Index \cup {0}) \X Nat)
    BY <1>3, <2>1
  <2> QED
    BY <1>3, <2>2 DEF ReportTyped
<1>5. \A i \in Index : gpc[i] = "none"
  BY DEF WcInit, WcOwnInit
<1>6. \A stages : "none" \notin stages => In(stages) = {}
  BY <1>5 DEF In
<1>7. In({"done"}) = {} /\ Started = {} /\ Added = {}
  <2>1. /\ "none" \notin {"done"} /\ "none" \notin {"report", "done"}
        /\ "none" \notin {"count", "close", "store", "report", "done"}
    OBVIOUS
  <2> QED
    BY <1>6, <2>1, Zenon DEF Started, Added
<1>8. Cardinality({}) = 0
  BY FS_EmptySet
<1>9. EachStarted
  <2>1. Handed = {}
    BY DEF WcInit, Init, Handed
  <2> QED
    BY <1>3, <1>7, <1>8, <2>1 DEF EachStarted
<1>10. MainAt
  BY <1>3 DEF MainAt
<1>11. SaidOnce
  <2>1. Len(Said) = 0
    <3> DEFINE I0 == Index \cup {0}
               B == AllSaid(shown, report)
    <3>1. /\ shown \in Seq(I0 \X Nat) /\ report \in Seq(I0) /\ Len(report) <= 1
      BY <1>4 DEF ReportTyped
    <3>2. /\ B \in Seq(I0) /\ Len(B) = Len(shown) + Len(report)
          /\ Len(shown) \in Nat /\ Len(report) \in {0, 1} /\ Len(B) \in Nat
          /\ \A k \in 1..Len(shown) : B[k] = shown[k][1]
          /\ Len(report) = 1 => B[Len(shown) + 1] = Head(report)
      BY <3>1, SaidTyped
    <3> QED
      BY <1>3, <3>2 DEF Said
  <2>2. Elements(Said) = {}
    BY <2>1 DEF Elements
  <2>3. ~TotalsSaid
    BY <1>3 DEF TotalsSaid
  <2>4. Elements(Said) \ {0} = In({"done"})
    BY <1>7, <2>2
  <2>5. Len(Said) = Cardinality(In({"done"}))
    BY <1>7, <1>8, <2>1
  <2>6. \A k \in 1..Len(Said) : FALSE
    BY <2>1
  <2> QED
    BY <2>1, <2>3, <2>4, <2>5, <2>6 DEF SaidOnce
<1>12. SomeSums
  <2>1. Given \in Seq(Name)
    BY <1>a, <1>1, ListTyped DEF Kept
  <2>2. SumOf(Given, {}) = 0
    BY <2>1, SumNone
  <2>3. \A i \in Index : gpc[i] # "store"
    BY <1>5
  <2> QED
    BY <1>3, <1>7, <2>2, <2>3 DEF SomeSums
<1>13. TotalsOfSome
  <2>1. Len(shown) = 0
    BY <1>3
  <2> QED
    BY <2>1 DEF TotalsOfSome
<1> QED
  BY <1>1, <1>2, <1>4, <1>9, <1>10, <1>11, <1>12, <1>13 DEF WcKept

\* Every step keeps it.
LEMMA WcKeptStep ==
  ASSUME WcAssumption, WcKept, [WcNext]_wcVars
  PROVE  WcKept'
<1>1. Kept'
  <2>1. ArgFileAssumption /\ Kept
    BY DEF WcAssumption, WcKept
  <2> QED
    BY <2>1, WcArgStep, KeptStep
<1> QED
  BY <1>1, GoesStep, ReportStep, EachStartedStep, MainAtStep, SaidOnceStep, SomeSumsStep, TotalsStep DEF WcKept

\* When main returns every file handed over has been shown.
LEMMA ShownAll ==
  ASSUME WcAssumption, WcKept, wpc = "exit"
  PROVE  EachShown
<1> USE DEF WcKept
<1>a. ArgFileAssumption
  BY DEF WcAssumption
<1>1. toClosed /\ Counted /\ report = <<>>
  BY DEF MainAt
<1>2. In({"done"}) = Started
  BY <1>1 DEF Started, In, Counted
<1>3. Started = Opened /\ nfiles = Cardinality(Started) /\ nfiles \in Nat
  <2>1. Handed = Opened
    BY <1>a, <1>1, AllHanded DEF Opened
  <2>2. Cardinality(Started) \in Nat
    BY <1>a, InFinite DEF Started
  <2> QED
    BY <2>1, <2>2 DEF EachStarted
<1>4. TotalsSaid <=> nfiles > 1
  BY DEF TotalsSaid
<1> DEFINE I0 == Index \cup {0}
           B == AllSaid(shown, report)
           n == Len(shown)
<1>5. Said = B /\ Len(B) = n /\ n \in Nat /\ \A k \in 1..n : B[k] = shown[k][1]
  <2>1. shown \in Seq(I0 \X Nat) /\ report \in Seq(I0) /\ Len(report) <= 1
    BY DEF ReportTyped
  <2>3. Len(report) = 0
    BY <1>1
  <2>2. /\ B \in Seq(I0) /\ Len(B) = Len(shown) + Len(report)
        /\ Len(shown) \in Nat /\ Len(report) \in {0, 1} /\ Len(B) \in Nat
        /\ \A k \in 1..Len(shown) : B[k] = shown[k][1]
        /\ Len(report) = 1 => B[Len(shown) + 1] = Head(report)
    BY <2>1, SaidTyped
  <2> QED
    BY <2>2, <2>3 DEF Said
<1> HIDE DEF B
<1>6. /\ Elements(B) \ {0} = Opened
      /\ n = nfiles + (IF nfiles > 1 THEN 1 ELSE 0)
      /\ \A k \in 1..n : shown[k][1] = 0 => k = n /\ nfiles > 1
      /\ nfiles > 1 => B[n] = 0
  <2>1. Elements(B) \ {0} = Opened
    BY <1>2, <1>3, <1>5 DEF SaidOnce
  <2>2. n = nfiles + (IF nfiles > 1 THEN 1 ELSE 0)
    <3>1. Cardinality(In({"done"})) = nfiles
      BY <1>2, <1>3, Zenon
    <3>2. Len(Said) = Cardinality(In({"done"})) + (IF TotalsSaid THEN 1 ELSE 0)
      BY DEF SaidOnce
    <3> QED
      BY <1>4, <1>5, <3>1, <3>2
  <2>3. \A k \in 1..n : shown[k][1] = 0 => k = n /\ nfiles > 1
    BY <1>4, <1>5 DEF SaidOnce
  <2>4. nfiles > 1 => B[n] = 0
    BY <1>4, <1>5 DEF SaidOnce
  <2> QED
    BY <2>1, <2>2, <2>3, <2>4
<1>7. nfiles > 1 => shown[n][1] = 0
  BY <1>3, <1>5, <1>6
<1>8. {shown[k][1] : k \in Lines} = Elements(B) \ {0}
  BY <1>5 DEF Lines, Elements
<1>9. Lines = 1..nfiles
  <2>1. ASSUME NEW k PROVE k \in Lines <=> k \in 1..nfiles
    <3>1. k \in Lines <=> k \in 1..n /\ shown[k][1] # 0
      BY DEF Lines
    <3>2. CASE nfiles > 1
      <4>1. n = nfiles + 1
        BY <1>6, <3>2
      <4>2. k \in 1..n /\ shown[k][1] # 0 <=> k \in 1..n /\ k # n
        BY <1>6, <1>7, <3>2
      <4> QED
        BY <1>3, <3>1, <4>1, <4>2
    <3>3. CASE ~(nfiles > 1)
      <4>1. n = nfiles
        BY <1>3, <1>6, <3>3
      <4>2. \A j \in 1..n : shown[j][1] # 0
        BY <1>6, <3>3
      <4> QED
        BY <3>1, <4>1, <4>2
    <3> QED
      BY <3>2, <3>3
  <2> QED
    BY <2>1
<1>10. Cardinality(Lines) = nfiles
  <2>1. Cardinality(1..nfiles) = nfiles
    BY <1>3, FS_Interval
  <2> QED
    BY <1>9, <2>1
<1> QED
  BY <1>6, <1>7, <1>8, <1>10 DEF EachShown

\* The invariant says more than the property.
LEMMA WcKeptRight ==
  ASSUME WcAssumption, WcKept
  PROVE  ShownOnce
<1> USE DEF WcKept
<1>a. ArgFileAssumption
  BY DEF WcAssumption
<1>1. TypeOK
  BY <1>a, KeptRight DEF ArgInv
<1>2. nfiles \in 0..Len(Given)
  <2>1. Started \subseteq Index /\ Index = 1..Len(Given) /\ Len(Given) \in Nat /\ IsFiniteSet(Index)
    <3>1. Started \subseteq Index
      BY DEF Started, In
    <3> QED
      BY <1>a, <3>1, ListTyped DEF Kept
  <2>2. Cardinality(Index) = Len(Given)
    <3>1. \A n \in Nat : Cardinality(1..n) = n
      BY FS_Interval
    <3> QED
      BY <2>1, <3>1
  <2>3. Cardinality(Started) <= Cardinality(Index) /\ Cardinality(Started) \in Nat
    BY <2>1, FS_Subset, FS_CardinalityType
  <2>4. nfiles \in Nat /\ nfiles <= Len(Given)
    BY <2>2, <2>3 DEF EachStarted
  <2> QED
    BY <2>1, <2>4
<1>3. \A k \in 1..Len(shown) : shown[k] \in (Index \cup {0}) \X Nat
  <2> DEFINE P == (Index \cup {0}) \X Nat
  <2>1. shown \in Seq(P)
    BY DEF ReportTyped
  <2> HIDE DEF P
  <2>2. \A k \in 1..Len(shown) : shown[k] \in P
    BY <2>1, ElementOfSeq
  <2> QED
    BY <2>2 DEF P
<1>4. WcTypeOK
  BY <1>1, <1>2, <1>3 DEF WcTypeOK, GoesTyped, ReportTyped
<1>5. ReportOpen
  BY DEF ReportOpen, MainAt, Counted
<1>6. EachShown
  BY ShownAll DEF EachShown
<1> QED
  BY <1>4, <1>5, <1>6 DEF ShownOnce

\* The inductive invariant of wc: a goroutine for each file handed over, each file said
\* to the printer once and the totals after all of them, and the totals always a sum of
\* counts of some files, read by a goroutine before it adds its own (wc.go:101-147).
THEOREM WcInvariance == ASSUME WcAssumption PROVE WcSpec => []WcKept
<1>1. WcInit => WcKept
  BY WcInitRight
<1>2. WcKept /\ [WcNext]_wcVars => WcKept'
  BY WcKeptStep
<1> QED
  BY <1>1, <1>2, PTL DEF WcSpec

\* Whatever the order of the goroutines, wc shows every file that could be opened once,
\* then the totals, which are the sum of some of the counts; and nobody reports on the
\* closed channel (wc.go:101-147).
THEOREM WcShowsOnce == ASSUME WcAssumption PROVE WcSpec => []ShownOnce
<1>1. WcKept => ShownOnce
  BY WcKeptRight
<1> QED
  BY <1>1, WcInvariance, PTL

----------------------------------------------------------------------------
(* edit *)

\* A file that is open still has its capability, or the caller that took it.
CapOrCloser ==
    \A i \in Index : fd[i] = "open" => cap[i] \/ \E k \in Caller : closing[i][k] = "closefn"

\* Only what can be opened is.
OpenedReadable == \A i \in Index : fd[i] # "none" => Given[i] \in Readable

\* The types of edit's variables.
DiskTyped ==
    /\ command \in Commands /\ flags \in Flags /\ names # <<>>
    /\ disk \in [Readable -> Text \cup {Directory}] /\ disk0 \in [Readable -> Text \cup {Directory}]
    /\ removed \subseteq once /\ once \subseteq Readable
    /\ orphans \in [Index -> SUBSET (Text \cup {Directory})]
    /\ once = {} => \A i \in Index : orphans[i] = {}
MainTyped ==
    /\ dpc \in {"range", "read", "run", "close", "stat", "write", "print", "defer", "exit 0", "exit 1", "fatal"}
    /\ buf \in Text /\ ran.modified \in BOOLEAN
    /\ logged \subseteq Index /\ written \in Seq(Name \X BOOLEAN)

\* Main is at the last file that was handed over.
AtLast ==
    /\ at \in Handed \/ (at = 0 /\ dpc \in {"range", "exit 0", "exit 1"})
    /\ \A i \in Handed : i <= at
    /\ dpc \in {"exit 0", "exit 1"} => toClosed

\* Nobody but main's first Close closes the file before it is written, so that it is
\* closed then.
ClosedFirst ==
    /\ dpc \in {"read", "run", "close"} => \A k \in Caller \ {"now"} : closing[at][k] = "call"
    /\ dpc \in {"stat", "write"} => fd[at] = "closed"

\* The file main is at has been edited, or is still to be.
Pending == dpc \in {"read", "run", "close", "stat", "write", "fatal"}
Before == IF Pending THEN at - 1 ELSE at

\* What Run returned; as long as nothing was removed, for what the file still holds.
RunKnown ==
    /\ dpc \in {"close", "stat", "write"} => ran.modified
    /\ once = {} /\ dpc = "run" => buf = disk[Named]
    /\ once = {} /\ dpc \in {"close", "stat", "write"} =>
           LET r == command[disk[Named]] IN
           /\ disk[Named] \in Text
           /\ ~r.err /\ r.modified /\ buf = r.text

\* Each file is counted at most once, and with -m one name is printed for each.
Marked(s) == {k \in 1..Len(s) : s[k][2]}
Printed == Marked(written)
CountsKept ==
    /\ nmodified \in Nat /\ nmodified <= Before
    /\ dpc = "print" /\ ran.modified => nmodified > 0
    /\ "m" \in flags =>
           Cardinality(Printed) = nmodified - (IF dpc = "print" /\ ran.modified THEN 1 ELSE 0)

\* As long as nothing was removed, and nothing was missing, the files are as far as
\* main has come.
Clean == once = {} /\ \A i \in Index : i < epos => i \in Handed
Edits(k) == Edited(k) /\ names[k] \notin ReadOnly
Fails(k) ==
    \/ command[After(names[k])[k - 1]].err
    \/ Edited(k) /\ names[k] \in ReadOnly
EditsTo(l) == {k \in 1..l : Edits(k)}
FailsTo(l) == {k \in 1..l : Fails(k)}
Progress ==
    Clean =>
        /\ \A n \in Readable : disk[n] = After(n)[Before]
        /\ nmodified = Cardinality(EditsTo(Before))
        /\ logged = FailsTo(Before)

\* The inductive invariant, with argfile's.
EditKept ==
    /\ Kept /\ CapOrCloser /\ OpenedReadable
    /\ DiskTyped /\ MainTyped /\ AtLast /\ ClosedFirst /\ RunKnown /\ CountsKept /\ Progress

----------------------------------------------------------------------------
\* One text of the recursion that edits a file for each time it is named.
TextRow(list, cmd, first, n, f, k) ==
    IF k = 0 THEN first
    ELSE IF list[k] # n \/ cmd[f[k - 1]].err \/ ~cmd[f[k - 1]].modified \/ n \in ReadOnly
    THEN f[k - 1]
    ELSE cmd[f[k - 1]].text

AreTexts(list, cmd, first, n, m, f) == f = [k \in 0..m |-> TextRow(list, cmd, first, n, f, k)]

\* The function of these texts exists.
LEMMA TextsExist ==
  ASSUME NEW list, NEW cmd, NEW first, NEW n, NEW m \in Nat
  PROVE  \E f : AreTexts(list, cmd, first, n, m, f)
<1> DEFINE T == {l \in Nat : \E f : f = [k \in 0..l |-> TextRow(list, cmd, first, n, f, k)]}
<1>1. 0 \in T
  <2> DEFINE f == [k \in 0..0 |-> first]
  <2>1. f = [k \in 0..0 |-> TextRow(list, cmd, first, n, f, k)]
    BY DEF TextRow
  <2> QED
    BY <2>1
<1>2. ASSUME NEW l \in T PROVE l + 1 \in T
  <2>1. PICK f : f = [k \in 0..l |-> TextRow(list, cmd, first, n, f, k)]
    OBVIOUS
  <2> DEFINE g == [k \in 0..(l + 1) |-> TextRow(list, cmd, first, n, f, k)]
  <2>2. \A k \in 0..l : g[k] = f[k]
    BY <2>1
  <2>3. ASSUME NEW k \in 0..(l + 1) PROVE TextRow(list, cmd, first, n, f, k) = TextRow(list, cmd, first, n, g, k)
    <3>1. CASE k = 0
      BY <3>1 DEF TextRow
    <3>2. CASE k # 0
      <4>1. k - 1 \in 0..l
        BY <3>2
      <4>2. g[k - 1] = f[k - 1]
        BY <4>1, <2>2
      <4> HIDE DEF g
      <4> QED
        BY <3>2, <4>2 DEF TextRow
    <3> QED
      BY <3>1, <3>2
  <2>4. g = [k \in 0..(l + 1) |-> TextRow(list, cmd, first, n, g, k)]
    BY <2>3
  <2>5. \E h : h = [k \in 0..(l + 1) |-> TextRow(list, cmd, first, n, h, k)]
    <3> HIDE DEF g
    <3> QED
      BY <2>4
  <2> QED
    BY <2>5
<1>3. T = Nat
  <2>1. T \in SUBSET Nat
    OBVIOUS
  <2> HIDE DEF T
  <2> QED
    BY <1>1, <1>2, <2>1, AllNat
<1>4. m \in T
  BY <1>3
<1> QED
  BY <1>4 DEF AreTexts

\* What TextsOf is, one file after the other.
LEMMA TextsAre ==
  ASSUME NEW list \in Seq(Name), NEW cmd, NEW first, NEW n, NEW g, g = TextsOf(list, cmd, first, n)
  PROVE  /\ g[0] = first
         /\ \A k \in 1..Len(list) :
               g[k] = IF list[k] # n \/ cmd[g[k - 1]].err \/ ~cmd[g[k - 1]].modified \/ n \in ReadOnly
                      THEN g[k - 1] ELSE cmd[g[k - 1]].text
<1>0. Len(list) \in Nat
  BY LenProperties
<1>1. \E f : AreTexts(list, cmd, first, n, Len(list), f)
  BY <1>0, TextsExist
<1> DEFINE f0 == CHOOSE f : AreTexts(list, cmd, first, n, Len(list), f)
<1>2. AreTexts(list, cmd, first, n, Len(list), f0)
  BY <1>1
<1>3. g = f0
  BY DEF TextsOf, AreTexts, TextRow
<1> HIDE DEF f0
<1>4. \A k \in 0..Len(list) : g[k] = TextRow(list, cmd, first, n, g, k)
  BY <1>2, <1>3 DEF AreTexts
<1>5. g[0] = first
  <2>1. 0 \in 0..Len(list)
    BY <1>0
  <2> QED
    BY <1>4, <2>1 DEF TextRow
<1>6. ASSUME NEW k \in 1..Len(list)
      PROVE  g[k] = IF list[k] # n \/ cmd[g[k - 1]].err \/ ~cmd[g[k - 1]].modified \/ n \in ReadOnly
                    THEN g[k - 1] ELSE cmd[g[k - 1]].text
  <2>1. k \in 0..Len(list) /\ k # 0
    BY <1>0
  <2>2. g[k] = TextRow(list, cmd, first, n, g, k)
    BY <1>4, <2>1
  <2> QED
    BY <2>1, <2>2 DEF TextRow
<1> QED
  BY <1>5, <1>6

\* Every step of edit is one of argfile's or leaves argfile alone.
LEMMA EditArgStep ==
  ASSUME EditAssumption, AtLast, [EditNext]_editVars
  PROVE  [AnyStep(Readable \ removed)]_vars
<1>1. CASE EditEmit
  BY <1>1 DEF EditEmit, AnyStep
<1>2. ASSUME NEW i \in Index, EditReceive(i) PROVE [AnyStep(Readable \ removed)]_vars
  BY <1>2 DEF EditReceive, AnyStep
<1>3. ASSUME NEW k \in {"now", "deferred"}, at \in Index, Close(at, k) PROVE [AnyStep(Readable \ removed)]_vars
  BY <1>3 DEF AnyStep, EditAssumption
<1>4. CASE CloseNow \/ Deferred
  <2>1. at \in Index
    BY <1>4 DEF CloseNow, Deferred, AtLast, Handed
  <2>2. UNCHANGED vars \/ \E k \in {"now", "deferred"} : Close(at, k)
    BY <1>4 DEF CloseNow, Deferred
  <2> QED
    BY <1>3, <2>1, <2>2
<1>5. CASE Read \/ Run \/ Stat \/ WriteFile \/ PrintName \/ EditRangeEnd \/ Remove \/ UNCHANGED editVars
  <2>1. UNCHANGED vars
    BY <1>5 DEF Read, Run, Stat, WriteFile, PrintName, EditRangeEnd, Remove, editVars
  <2> QED
    BY <2>1
<1> QED
  BY <1>1, <1>2, <1>4, <1>5 DEF EditNext, EditMain

\* An open file keeps its capability until a caller takes it, and that caller closes it.
LEMMA CapOrCloserStep ==
  ASSUME ArgFileAssumption, Kept, CapOrCloser, NEW there, [AnyStep(there)]_vars
  PROVE  CapOrCloser'
<1>0. /\ Index' = Index /\ Index = 1..Len(Given) /\ Len(Given) \in Nat /\ epos \in Nat
      /\ fd \in [Index -> {"none", "open", "closed"}] /\ cap \in [Index -> BOOLEAN]
      /\ closing \in [Index -> [Caller -> {"none", "call", "closefn", "done", "release", "over"}]]
  BY SameList, ListTyped DEF Kept, FilesTyped
<1>1. CASE Ticket \/ Wait \/ CloseTicket \/ CloseTo \/ UNCHANGED vars
  <2>1. UNCHANGED <<fd, cap, closing>>
    BY <1>1 DEF Ticket, Wait, CloseTicket, CloseTo, vars
  <2> QED
    BY <1>0, <2>1 DEF CapOrCloser
<1>2. CASE Open(there)
  <2>1. CASE OpenWorks
    <3>1. fd' = [fd EXCEPT ![epos] = "open"] /\ cap' = [cap EXCEPT ![epos] = TRUE] /\ closing' = closing
      BY <2>1 DEF OpenWorks
    <3> SUFFICES ASSUME NEW i \in Index, fd'[i] = "open"
                 PROVE  cap'[i] \/ \E k \in Caller : closing'[i][k] = "closefn"
      BY <1>0 DEF CapOrCloser
    <3>2. CASE i = epos
      BY <1>0, <3>1, <3>2
    <3>3. CASE i # epos
      <4>1. fd[i] = "open" /\ cap'[i] = cap[i]
        BY <1>0, <3>1, <3>3
      <4> QED
        BY <3>1, <4>1 DEF CapOrCloser
    <3> QED
      BY <3>2, <3>3
  <2>2. CASE OpenFails
    <3>1. UNCHANGED <<fd, cap, closing>>
      BY <2>2 DEF OpenFails
    <3> QED
      BY <1>0, <3>1 DEF CapOrCloser
  <2> QED
    BY <1>2, <2>1, <2>2 DEF Open
<1>3. ASSUME NEW i \in Index, Hand(i) PROVE CapOrCloser'
  <2>1. UNCHANGED <<fd, cap>> /\ closing' = [closing EXCEPT ![i] = [k \in Caller |-> "call"]]
    BY <1>3 DEF Hand
  <2>2. \A k \in Caller : closing[i][k] = "none"
    <3>1. i >= epos
      BY <1>0, <1>3 DEF Hand
    <3> QED
      BY <3>1 DEF Kept, OneCloser
  <2>3. \A j \in Index, k \in Caller : closing[j][k] = "closefn" => closing'[j][k] = "closefn"
    BY <1>0, <2>1, <2>2
  <2> QED
    BY <1>0, <2>1, <2>3 DEF CapOrCloser
<1>4. ASSUME NEW i \in Index, NEW k \in Caller, Close(i, k) PROVE CapOrCloser'
  <2> SUFFICES ASSUME NEW j \in Index, fd'[j] = "open"
               PROVE  cap'[j] \/ \E l \in Caller : closing'[j][l] = "closefn"
    BY <1>0 DEF CapOrCloser
  <2>1. \A j2 \in Index, l \in Caller : j2 # i \/ l # k => closing'[j2][l] = closing[j2][l]
    BY <1>0, <1>4 DEF Close, CloseTake, CloseFn, CloseDone, CloseRelease, Step
  <2>2. CASE CloseTake(i, k)
    <3>1. fd' = fd /\ closing[i][k] = "call"
      BY <2>2 DEF CloseTake
    <3>2. CASE cap[i]
      <4>1. cap' = [cap EXCEPT ![i] = FALSE] /\ closing'[i][k] = "closefn"
        BY <1>0, <2>2, <3>2 DEF CloseTake, CapTaken, Step
      <4>2. CASE j = i
        BY <4>1, <4>2
      <4>3. CASE j # i
        BY <1>0, <2>1, <3>1, <4>1, <4>3 DEF CapOrCloser
      <4> QED
        BY <4>2, <4>3
    <3>3. CASE ~cap[i]
      <4>1. cap' = cap
        BY <2>2, <3>3 DEF CloseTake
      <4>2. cap[j] \/ \E l \in Caller : closing[j][l] = "closefn"
        BY <3>1 DEF CapOrCloser
      <4>3. \A l \in Caller : closing[j][l] = "closefn" => closing'[j][l] = "closefn"
        BY <2>1, <3>1
      <4> QED
        BY <4>1, <4>2, <4>3
    <3> QED
      BY <3>2, <3>3
  <2>3. CASE CloseFn(i, k)
    <3>1. fd' = [fd EXCEPT ![i] = "closed"] /\ cap' = cap
      BY <2>3 DEF CloseFn, Shut
    <3>2. j # i /\ fd[j] = "open"
      BY <1>0, <3>1
    <3> QED
      BY <2>1, <3>1, <3>2 DEF CapOrCloser
  <2>4. CASE CloseDone(i, k) \/ CloseRelease(i, k)
    <3>1. UNCHANGED <<fd, cap>> /\ closing[i][k] \in {"done", "release"}
      BY <2>4 DEF CloseDone, CloseRelease
    <3>2. \A l \in Caller : closing[j][l] = "closefn" => closing'[j][l] = "closefn"
      BY <2>1, <3>1
    <3> QED
      BY <3>1, <3>2 DEF CapOrCloser
  <2> QED
    BY <1>4, <2>2, <2>3, <2>4 DEF Close
<1> QED
  BY <1>1, <1>2, <1>3, <1>4 DEF AnyStep, EmitWith

\* Only what can be opened is.
LEMMA OpenedStep ==
  ASSUME ArgFileAssumption, Kept, OpenedReadable, NEW there, there \subseteq Readable, [AnyStep(there)]_vars
  PROVE  OpenedReadable'
<1>0. Index' = Index /\ Given' = Given /\ fd \in [Index -> {"none", "open", "closed"}]
  BY SameList DEF Kept, FilesTyped
<1>1. CASE Open(there)
  <2>1. CASE OpenWorks
    <3>1. fd' = [fd EXCEPT ![epos] = "open"] /\ Given[epos] \in there
      BY <1>1, <2>1 DEF OpenWorks, OpenFails, Open
    <3> QED
      BY <1>0, <3>1 DEF OpenedReadable
  <2>2. CASE OpenFails
    <3>1. fd' = fd
      BY <2>2 DEF OpenFails
    <3> QED
      BY <1>0, <3>1 DEF OpenedReadable
  <2> QED
    BY <1>1, <2>1, <2>2 DEF Open
<1>2. ASSUME NEW i \in Index, NEW k \in Caller, CloseFn(i, k) PROVE OpenedReadable'
  <2>1. fd' = [fd EXCEPT ![i] = "closed"] /\ fd[i] = "open"
    BY <1>2 DEF CloseFn, Shut, Kept, OneCloser
  <2> QED
    BY <1>0, <2>1 DEF OpenedReadable
<1>3. CASE \/ Ticket \/ Wait \/ CloseTicket \/ CloseTo \/ (\E i \in Index : Hand(i)) \/ UNCHANGED vars
           \/ \E i \in Index, k \in Caller : CloseTake(i, k) \/ CloseDone(i, k) \/ CloseRelease(i, k)
  <2>1. fd' = fd
    BY <1>3 DEF Ticket, Wait, CloseTicket, CloseTo, Hand, vars, CloseTake, CloseDone, CloseRelease
  <2> QED
    BY <1>0, <2>1 DEF OpenedReadable
<1> QED
  BY <1>1, <1>2, <1>3 DEF AnyStep, EmitWith, Close

\* What all the steps of edit need.
LEMMA EditFacts ==
  ASSUME EditAssumption, EditKept
  PROVE  /\ ArgFileAssumption /\ "now" \in Caller
         /\ Given = names /\ names \in Seq(Name) /\ Len(names) \in Nat /\ Index = 1..Len(names)
         /\ at \in Nat /\ epos \in Nat
         /\ dpc \notin {"range", "exit 0", "exit 1"} => at \in Index /\ at \in Handed /\ Named \in Readable
<1>1. ArgFileAssumption /\ "now" \in Caller
  BY DEF EditAssumption
<1>2. Given = names /\ names \in Lists
  BY DEF EditKept, Kept, EmitTyped, DiskTyped, Given
<1>3. Given \in Seq(Name) /\ Len(Given) \in Nat /\ Index = 1..Len(Given) /\ epos \in Nat
  BY <1>1, ListTyped DEF EditKept, Kept
<1>4. at = 0 \/ at \in Index
  BY DEF EditKept, AtLast, Handed
<1>5. ASSUME dpc \notin {"range", "exit 0", "exit 1"} PROVE at \in Index /\ at \in Handed /\ Named \in Readable
  <2>1. at \in Handed
    BY <1>5 DEF EditKept, AtLast
  <2> QED
    BY <2>1 DEF Handed, EditKept, OpenedReadable, Named
<1>6. at \in Nat
  BY <1>3, <1>4
<1> QED
  BY <1>1, <1>2, <1>3, <1>5, <1>6

\* The list, the command, the flags and the files at first never change.
LEMMA EditSame ==
  ASSUME EditAssumption, EditKept, [EditNext]_editVars
  PROVE  /\ names' = names /\ Given' = Given /\ Index' = Index
         /\ UNCHANGED <<command, flags, disk0>> /\ once \subseteq once'
<1>1. names' = names /\ Given' = Given /\ Index' = Index
  BY EditArgStep, SameList DEF EditKept
<1>2. UNCHANGED <<command, flags, disk0>> /\ once \subseteq once'
  BY DEF EditNext, EditMain, EditEmit, EditReceive, Read, Run, CloseNow, Stat, WriteFile, PrintName, Deferred,
     EditRangeEnd, Remove, editVars, editOwn
<1> QED
  BY <1>1, <1>2

\* The files' contents.
LEMMA DiskTypedStep ==
  ASSUME EditAssumption, EditKept, [EditNext]_editVars
  PROVE  DiskTyped'
<1>0. names' = names /\ Index' = Index /\ UNCHANGED <<command, flags, disk0>>
  BY EditSame
<1> USE DEF EditKept
<1>1. CASE WriteFile
  <2>1. Named \in Readable
    BY <1>1, EditFacts DEF WriteFile
  <2>2. disk' \in [Readable -> Text \cup {Directory}]
    BY <1>1, <2>1 DEF WriteFile, DiskTyped, MainTyped
  <2>3. removed' \subseteq once' /\ once' = once /\ orphans' = orphans
    BY <1>1 DEF WriteFile, DiskTyped
  <2> QED
    BY <1>0, <2>2, <2>3 DEF DiskTyped
<1>2. CASE Remove
  <2>1. PICK n \in Readable \ {Stdin} :
          /\ removed' = {n} /\ once' = once \cup {n}
          /\ orphans' = [i \in Index |-> IF fd[i] = "open" /\ Given[i] = n /\ orphans[i] = {}
                                         THEN {disk[n]} ELSE orphans[i]]
    BY <1>2 DEF Remove
  <2>2. disk[n] \in Text \cup {Directory}
    BY DEF DiskTyped
  <2>3. \A i \in Index : orphans'[i] \in SUBSET (Text \cup {Directory})
    BY <2>1, <2>2 DEF DiskTyped
  <2>4. orphans' \in [Index -> SUBSET (Text \cup {Directory})]
    BY <2>1, <2>3
  <2> QED
    BY <1>0, <1>2, <2>1, <2>4 DEF Remove, DiskTyped
<1>3. CASE ~WriteFile /\ ~Remove
  <2>1. UNCHANGED <<disk, removed, orphans, once>>
    BY <1>3 DEF EditNext, EditMain, EditEmit, EditReceive, Read, Run, CloseNow, Stat, PrintName, Deferred,
       EditRangeEnd, editVars, editOwn
  <2> QED
    BY <1>0, <2>1 DEF DiskTyped
<1> QED
  BY <1>1, <1>2, <1>3

\* What Run makes of a text.
LEMMA RunTyped ==
  ASSUME EditAssumption, EditKept, NEW t \in Text
  PROVE  command[t].err \in BOOLEAN /\ command[t].modified \in BOOLEAN /\ command[t].text \in Text
<1>1. command \in [Text -> Outcome]
  BY DEF EditAssumption, EditKept, DiskTyped
<1>2. command[t] \in Outcome
  BY <1>1
<1> QED
  BY <1>2 DEF Outcome

\* Main's own variables.
LEMMA MainTypedStep ==
  ASSUME EditAssumption, EditKept, [EditNext]_editVars
  PROVE  MainTyped'
<1>0. Index' = Index
  BY EditSame
<1> USE DEF EditKept
<1>1. CASE Read
  <2>1. Named \in Readable /\ at \in Index
    BY <1>1, EditFacts DEF Read
  <2>4. InOpenFile \subseteq Text \cup {Directory}
    BY <2>1 DEF InOpenFile, DiskTyped
  <2>2. buf' \in Text
    BY <1>1, <2>4 DEF Read, MainTyped
  <2>3. dpc' \in {"run", "fatal"} /\ UNCHANGED <<ran, logged, written>>
    BY <1>1 DEF Read
  <2> QED
    BY <1>0, <2>2, <2>3 DEF MainTyped
<1>2. CASE Run
  <2>1. buf \in Text
    BY DEF MainTyped
  <2>2. at \in Index
    BY <1>2, EditFacts DEF Run
  <2>3. buf' \in Text /\ ran'.modified \in BOOLEAN
    BY <1>2, <2>1, RunTyped DEF Run
  <2>4. logged' \subseteq Index /\ dpc' \in {"defer", "close", "print"} /\ written' = written
    BY <1>2, <2>2 DEF Run, MainTyped
  <2> QED
    BY <1>0, <2>3, <2>4 DEF MainTyped
<1>3. CASE PrintName
  <2>1. names[at] \in Name
    <3>1. names \in Seq(Name) /\ at \in 1..Len(names)
      BY <1>3, EditFacts DEF PrintName
    <3> QED
      BY <3>1, ElementOfSeq
  <2>2. <<Named, ran.modified>> \in Name \X BOOLEAN
    BY <2>1, EditFacts DEF Named, MainTyped
  <2>3. written' \in Seq(Name \X BOOLEAN)
    BY <1>3, <2>2, AppendProperties DEF PrintName, MainTyped
  <2>4. dpc' = "defer" /\ UNCHANGED <<buf, ran, logged>>
    BY <1>3 DEF PrintName
  <2> QED
    BY <1>0, <2>3, <2>4 DEF MainTyped
<1>4. CASE Stat \/ WriteFile
  <2>1. at \in Index
    BY <1>4, EditFacts DEF Stat, WriteFile
  <2>2. logged' \subseteq Index /\ dpc' \in {"defer", "write", "print"} /\ UNCHANGED <<buf, ran, written>>
    BY <1>4, <2>1 DEF Stat, WriteFile, Fail, MainTyped
  <2> QED
    BY <1>0, <2>2 DEF MainTyped
<1>5. CASE \/ EditEmit \/ CloseNow \/ Deferred \/ EditRangeEnd \/ Remove \/ UNCHANGED editVars
           \/ \E i \in Index : EditReceive(i)
  <2>1. UNCHANGED <<buf, ran, logged, written>>
    BY <1>5 DEF EditEmit, EditReceive, CloseNow, Deferred, EditRangeEnd, Remove, editVars, editOwn
  <2>2. dpc' = dpc \/ dpc' \in {"stat", "range", "exit 0", "exit 1", "read"}
    BY <1>5 DEF EditEmit, EditReceive, CloseNow, Deferred, EditRangeEnd, Remove, editVars, editOwn, Status
  <2> QED
    BY <1>0, <2>1, <2>2 DEF MainTyped
<1> QED
  BY <1>1, <1>2, <1>3, <1>4, <1>5 DEF EditNext, EditMain

\* The files handed over.
LEMMA EditHanded ==
  ASSUME EditAssumption, EditKept, [EditNext]_editVars
  PROVE  \/ Handed' = Handed /\ epos' \in {epos, epos + 1} /\ \A i \in Index : ~EditReceive(i)
         \/ \E i \in Index : /\ EditReceive(i) /\ i = epos /\ epos' = epos + 1 /\ at' = i
                             /\ Handed' = Handed \cup {i} /\ i \notin Handed /\ fd' = fd /\ fd[i] = "open"
<1>0. ArgFileAssumption /\ epos \in Nat
  BY EditFacts
<1> USE DEF EditKept
<1>1. ASSUME NEW i \in Index, EditReceive(i)
      PROVE  /\ EditReceive(i) /\ i = epos /\ epos' = epos + 1 /\ at' = i
             /\ Handed' = Handed \cup {i} /\ i \notin Handed /\ fd' = fd /\ fd[i] = "open"
  <2>1. Hand(i) /\ at' = i
    BY <1>1 DEF EditReceive
  <2>2. Handed' = Handed \cup {i} /\ i \notin Handed /\ fd[i] = "open" /\ fd' = fd /\ i = epos
    BY <1>0, <2>1, HandedMore
  <2>3. epos' = epos + 1
    BY <2>1 DEF Hand
  <2> QED
    BY <1>1, <2>1, <2>2, <2>3
<1>2. ASSUME \A i \in Index : ~EditReceive(i) PROVE Handed' = Handed /\ epos' \in {epos, epos + 1}
  <2>1. \/ EmitWith(Readable \ removed) \/ UNCHANGED vars
        \/ \E i \in Index, k \in Caller : Close(i, k)
    <3>1. CASE EditEmit
      BY <3>1 DEF EditEmit
    <3>2. CASE CloseNow \/ Deferred
      <4>1. at \in Index
        BY <3>2, EditFacts DEF CloseNow, Deferred
      <4>2. UNCHANGED vars \/ \E k \in {"now", "deferred"} : Close(at, k)
        BY <3>2 DEF CloseNow, Deferred
      <4>3. {"now", "deferred"} \subseteq Caller
        BY DEF EditAssumption
      <4> QED
        BY <4>1, <4>2, <4>3
    <3>3. CASE Read \/ Run \/ Stat \/ WriteFile \/ PrintName \/ EditRangeEnd \/ Remove \/ UNCHANGED editVars
      BY <3>3 DEF Read, Run, Stat, WriteFile, PrintName, EditRangeEnd, Remove, editVars
    <3> QED
      BY <1>2, <3>1, <3>2, <3>3 DEF EditNext, EditMain
  <2>2. epos' = epos \/ epos' = epos + 1
    BY <2>1 DEF EmitWith, Ticket, Open, OpenWorks, OpenFails, Wait, CloseTicket, CloseTo, vars,
       Close, CloseTake, CloseFn, CloseDone, CloseRelease
  <2>3. Handed' = Handed
    BY <1>0, <2>1, HandedSame
  <2> QED
    BY <1>0, <2>2, <2>3
<1> QED
  BY <1>1, <1>2

\* Main is at the last file handed over.
LEMMA AtLastStep ==
  ASSUME EditAssumption, EditKept, [EditNext]_editVars
  PROVE  AtLast'
<1>0. at \in Nat /\ epos \in Nat /\ Index = 1..Len(names) /\ Len(names) \in Nat
  BY EditFacts
<1> USE DEF EditKept
<1>1. ASSUME NEW i \in Index, EditReceive(i), i = epos, at' = i, Handed' = Handed \cup {i} PROVE AtLast'
  <2>1. dpc' = "read"
    BY <1>1 DEF EditReceive
  <2>2. \A j \in Handed : j <= i
    BY <1>0, <1>1 DEF Handed
  <2>3. at' \in Handed'
    BY <1>1
  <2>4. \A j \in Handed' : j <= at'
    BY <1>0, <1>1, <2>2
  <2> QED
    BY <2>1, <2>3, <2>4 DEF AtLast
<1>2. ASSUME \A i \in Index : ~EditReceive(i), Handed' = Handed PROVE AtLast'
  <2>1. at' = at
    BY <1>2 DEF EditNext, EditMain, EditEmit, Read, Run, CloseNow, Stat, WriteFile, PrintName, Deferred,
       EditRangeEnd, Remove, editVars, editOwn
  <2>2. toClosed => toClosed'
    <3>1. \A i \in Index, k \in Caller : Close(i, k) => toClosed' = toClosed
      BY DEF Close, CloseTake, CloseFn, CloseDone, CloseRelease
    <3>2. \A there : EmitWith(there) => (toClosed => toClosed')
      BY DEF EmitWith, Ticket, Open, OpenWorks, OpenFails, Wait, CloseTicket, CloseTo
    <3>3. \A i \in Index : Hand(i) => toClosed' = toClosed
      BY DEF Hand
    <3>4. UNCHANGED vars => toClosed' = toClosed
      BY DEF vars
    <3> QED
      BY <3>1, <3>2, <3>3, <3>4, EditArgStep DEF AnyStep
  <2>3. \/ dpc' = dpc
        \/ dpc \in {"range"} /\ dpc' \in {"exit 0", "exit 1"} /\ toClosed
        \/ dpc \notin {"range", "exit 0", "exit 1"} /\ dpc' \notin {"exit 0", "exit 1"}
    BY <1>2 DEF EditNext, EditMain, EditEmit, Read, Run, CloseNow, Stat, WriteFile, PrintName, Deferred,
       EditRangeEnd, Remove, editVars, editOwn, Fail, Status
  <2>4. CASE dpc' = dpc
    BY <1>2, <2>1, <2>2, <2>4 DEF AtLast
  <2>5. CASE dpc \in {"range"} /\ dpc' \in {"exit 0", "exit 1"} /\ toClosed
    BY <1>2, <2>1, <2>2, <2>5 DEF AtLast
  <2>6. CASE dpc \notin {"range", "exit 0", "exit 1"} /\ dpc' \notin {"exit 0", "exit 1"}
    BY <1>2, <2>1, <2>6 DEF AtLast
  <2> QED
    BY <2>3, <2>4, <2>5, <2>6
<1> QED
  BY <1>1, <1>2, EditHanded

\* Nobody but main's first Close closes the file before it is written.
LEMMA ClosedFirstStep ==
  ASSUME EditAssumption, EditKept, [EditNext]_editVars
  PROVE  ClosedFirst'
<1>0. ArgFileAssumption /\ Index' = Index /\ at \in Nat /\ epos \in Nat
  BY EditFacts, EditSame
<1> USE DEF EditKept
<1>a. /\ fd \in [Index -> {"none", "open", "closed"}]
      /\ closing \in [Index -> [Caller -> {"none", "call", "closefn", "done", "release", "over"}]]
  BY DEF Kept, FilesTyped
<1>1. CASE \E i \in Index : EditReceive(i)
  <2>1. PICK i \in Index : EditReceive(i)
    BY <1>1
  <2>2. dpc' = "read" /\ at' = i /\ closing' = [closing EXCEPT ![i] = [k \in Caller |-> "call"]]
    BY <2>1 DEF EditReceive, Hand
  <2> QED
    BY <1>a, <2>2 DEF ClosedFirst
<1>2. CASE EditEmit
  <2>1. UNCHANGED <<dpc, at>>
    BY <1>2 DEF EditEmit, editOwn
  <2>2. closing' = closing
    BY <1>2 DEF EditEmit, EmitWith, Ticket, Open, OpenWorks, OpenFails, Wait, CloseTicket, CloseTo
  <2>3. \A i \in Index : fd[i] = "closed" => fd'[i] = "closed"
    <3>1. CASE epc = "open" /\ OpenWorks
      <4>1. fd' = [fd EXCEPT ![epos] = "open"] /\ fd[epos] = "none"
        BY <3>1 DEF OpenWorks, Kept, OneCloser, Stages
      <4> QED
        BY <1>a, <4>1
    <3>2. CASE fd' = fd
      BY <3>2
    <3> QED
      BY <1>2, <3>1, <3>2 DEF EditEmit, EmitWith, Ticket, Open, OpenFails, Wait, CloseTicket, CloseTo
  <2>4. dpc \in {"stat", "write"} => at \in Index
    BY EditFacts
  <2> QED
    BY <2>1, <2>2, <2>3, <2>4 DEF ClosedFirst
<1>3. CASE CloseNow
  <2>1. dpc = "close" /\ at' = at /\ at \in Index /\ at \in Handed
    BY <1>3, EditFacts DEF CloseNow
  <2>2. CASE closing[at]["now"] = "over"
    <3>1. dpc' = "stat" /\ fd' = fd
      BY <1>3, <2>2 DEF CloseNow, vars
    <3>2. fd[at] \in {"open", "closed"}
      BY <1>a, <2>1 DEF Handed
    <3>3. \A k \in Caller \ {"now"} : closing[at][k] = "call"
      BY <2>1 DEF ClosedFirst
    <3>4. ASSUME fd[at] = "open" PROVE FALSE
      <4>1. "now" \in Caller
        BY EditFacts
      <4>2. cap[at]
        BY <2>1, <2>2, <3>3, <3>4 DEF CapOrCloser
      <4>3. closing[at]["now"] \in {"none", "call"}
        BY <2>1, <4>1, <4>2 DEF Kept, OneCloser
      <4> QED
        BY <2>2, <4>3
    <3> QED
      BY <2>1, <3>1, <3>2, <3>4 DEF ClosedFirst
  <2>3. CASE closing[at]["now"] # "over"
    <3>1. Close(at, "now") /\ dpc' = dpc
      BY <1>3, <2>3 DEF CloseNow
    <3>2. \A k \in Caller \ {"now"} : closing'[at][k] = closing[at][k]
      BY <1>a, <2>1, <3>1 DEF Close, CloseTake, CloseFn, CloseDone, CloseRelease, Step
    <3> QED
      BY <2>1, <3>1, <3>2 DEF ClosedFirst
  <2> QED
    BY <2>2, <2>3
<1>4. CASE Deferred
  <2>1. dpc = "defer" /\ dpc' \in {"defer", "range"}
    BY <1>4 DEF Deferred
  <2> QED
    BY <2>1 DEF ClosedFirst
<1>5. CASE Read \/ Run \/ Stat \/ WriteFile \/ PrintName \/ EditRangeEnd \/ Remove \/ UNCHANGED editVars
  <2>1. UNCHANGED <<fd, closing>> /\ at' = at
    BY <1>5 DEF Read, Run, Stat, WriteFile, PrintName, EditRangeEnd, Remove, editVars, editOwn, vars
  <2>2. /\ dpc' \in {"read", "run", "close"} => dpc \in {"read", "run", "close"}
        /\ dpc' \in {"stat", "write"} => dpc \in {"stat", "write"}
    BY <1>5 DEF Read, Run, Stat, WriteFile, PrintName, EditRangeEnd, Remove, editVars, editOwn, Fail, Status
  <2> QED
    BY <2>1, <2>2 DEF ClosedFirst
<1> QED
  BY <1>1, <1>2, <1>3, <1>4, <1>5 DEF EditNext, EditMain

\* What Run returned is not forgotten before the file is written.
LEMMA RunKnownStep ==
  ASSUME EditAssumption, EditKept, [EditNext]_editVars
  PROVE  RunKnown'
<1>0. Given' = Given /\ command' = command /\ (once' = {} => once = {})
  BY EditSame
<1> USE DEF EditKept
<1>1. CASE Read
  <2>1. UNCHANGED <<disk, at, once>> /\ at \in Index
    BY <1>1, EditFacts DEF Read
  <2>2. Named' = Named
    BY <1>0, <2>1 DEF Named
  <2>3. PICK t \in InOpenFile : IF t = Directory THEN dpc' = "fatal" ELSE dpc' = "run" /\ buf' = t
    BY <1>1 DEF Read
  <2>4. once = {} => t = disk[Named]
    BY <2>1, <2>3 DEF InOpenFile, DiskTyped
  <2>5. CASE t = Directory
    <3>1. dpc' = "fatal"
      BY <2>3, <2>5
    <3> QED
      BY <3>1 DEF RunKnown
  <2>6. CASE t # Directory
    <3>1. dpc' = "run" /\ buf' = t
      BY <2>3, <2>6
    <3> QED
      BY <2>1, <2>2, <2>4, <3>1 DEF RunKnown
  <2> QED
    BY <2>5, <2>6
<1>2. CASE Run
  <2>1. /\ UNCHANGED <<disk, at, once>> /\ buf' = command[buf].text /\ ran' = command[buf]
        /\ once = {} => buf = disk[Named]
        /\ buf \in Text
    BY <1>2 DEF Run, RunKnown, MainTyped
  <2>2. Named' = Named
    BY <1>0, <2>1 DEF Named
  <2>3. \/ dpc' \in {"defer", "print"}
        \/ dpc' = "close" /\ ~command[buf].err /\ command[buf].modified
    BY <1>2 DEF Run
  <2>4. CASE dpc' \in {"defer", "print"}
    BY <2>4 DEF RunKnown
  <2>5. CASE dpc' = "close" /\ ~command[buf].err /\ command[buf].modified
    BY <1>0, <2>1, <2>2, <2>5 DEF RunKnown
  <2> QED
    BY <2>3, <2>4, <2>5
<1>3. CASE WriteFile \/ PrintName \/ EditRangeEnd \/ (\E i \in Index : EditReceive(i)) \/ Deferred
  <2>1. dpc' \notin {"run", "close", "stat", "write"}
    BY <1>3 DEF WriteFile, PrintName, EditRangeEnd, EditReceive, Fail, Status, Deferred
  <2> QED
    BY <2>1 DEF RunKnown
<1>4. CASE EditEmit \/ CloseNow \/ Stat \/ Remove \/ UNCHANGED editVars
  <2>1. UNCHANGED <<disk, at, buf, ran>>
    BY <1>4 DEF EditEmit, CloseNow, Stat, Remove, editVars, editOwn
  <2>2. Named' = Named
    BY <1>0, <2>1 DEF Named
  <2>3. /\ dpc' = "run" => dpc = "run"
        /\ dpc' \in {"close", "stat", "write"} => dpc \in {"close", "stat", "write"}
    BY <1>4 DEF EditEmit, CloseNow, Stat, Remove, editVars, editOwn, Fail
  <2> QED
    BY <1>0, <2>1, <2>2, <2>3 DEF RunKnown
<1> QED
  BY <1>1, <1>2, <1>3, <1>4 DEF EditNext, EditMain

\* One line more is printed.
LEMMA PrintedMore ==
  ASSUME NEW s \in Seq(Name \X BOOLEAN), NEW line \in Name \X BOOLEAN, NEW t, t = Append(s, line)
  PROVE  /\ line[2] => Cardinality(Marked(t)) = Cardinality(Marked(s)) + 1
         /\ ~line[2] => Marked(t) = Marked(s)
<1> DEFINE P == {k \in 1..Len(s) : s[k][2]}
           Q == {k \in 1..Len(t) : t[k][2]}
<1>1. Len(s) \in Nat /\ Len(t) = Len(s) + 1 /\ (\A k \in 1..Len(s) : t[k] = s[k]) /\ t[Len(t)] = line
  BY OneMore
<1>2. IsFiniteSet(P) /\ Cardinality(P) \in Nat
  <2>1. IsFiniteSet(1..Len(s))
    BY <1>1, FS_Interval
  <2>2. P \subseteq 1..Len(s)
    OBVIOUS
  <2> HIDE DEF P
  <2> QED
    BY <2>1, <2>2, FS_Subset, FS_CardinalityType
<1>3. \A k : k \in 1..Len(t) <=> k \in 1..Len(s) \/ k = Len(t)
  BY <1>1
<1>4. Len(t) \notin P
  BY <1>1
<1>5. ASSUME line[2] PROVE Cardinality(Q) = Cardinality(P) + 1
  <2>1. Q = P \cup {Len(t)}
    BY <1>1, <1>3, <1>5
  <2>2. Cardinality(P \cup {Len(t)}) = Cardinality(P) + 1
    <3> HIDE DEF P
    <3> QED
      BY <1>2, <1>4, FS_AddElement
  <2> HIDE DEF P, Q
  <2> QED
    BY <2>1, <2>2
<1>6. ASSUME ~line[2] PROVE Q = P
  BY <1>1, <1>3, <1>6
<1> HIDE DEF P, Q
<1> QED
  BY <1>5, <1>6 DEF P, Q, Marked

\* A file is counted when it is written, and then printed.
LEMMA CountsStep ==
  ASSUME EditAssumption, EditKept, [EditNext]_editVars
  PROVE  CountsKept'
<1>0. Given' = Given /\ flags' = flags /\ at \in Nat /\ epos \in Nat
  BY EditSame, EditFacts
<1> USE DEF EditKept
<1> DEFINE Owed == IF dpc = "print" /\ ran.modified THEN 1 ELSE 0
<1>a. nmodified \in Nat /\ nmodified <= Before /\ (dpc = "print" /\ ran.modified => nmodified > 0)
  BY DEF CountsKept
<1>1. ASSUME UNCHANGED <<written, nmodified>>, Owed' = Owed, Before <= Before', Before \in Int, Before' \in Int,
             dpc' = "print" /\ ran'.modified => dpc = "print" /\ ran.modified
      PROVE  CountsKept'
  <2>1. Printed' = Printed
    BY <1>1 DEF Printed
  <2>2. nmodified' \in Nat /\ nmodified' <= Before' /\ (dpc' = "print" /\ ran'.modified => nmodified' > 0)
    BY <1>a, <1>1
  <2>3. "m" \in flags => Cardinality(Printed) = nmodified - Owed
    BY DEF CountsKept
  <2>4. "m" \in flags' => Cardinality(Printed') = nmodified' - Owed'
    BY <1>0, <1>1, <2>1, <2>3
  <2> QED
    BY <2>2, <2>4 DEF CountsKept
<1>b. Before \in Int
  BY <1>0 DEF Before
<1>2. CASE \E i \in Index : EditReceive(i)
  <2>1. PICK i \in Index : EditReceive(i)
    BY <1>2
  <2>2. i = epos /\ at' = i /\ dpc = "range" /\ dpc' = "read" /\ UNCHANGED <<written, nmodified>>
    BY <2>1 DEF EditReceive, Hand
  <2>3. at < epos
    <3>1. Index = 1..Len(names) /\ Len(names) \in Nat
      BY EditFacts
    <3> QED
      BY <1>0, <2>2, <3>1 DEF AtLast, Handed
  <2>4. Before = at /\ Before' = i - 1 /\ i \in Nat
    BY <1>0, <2>2 DEF Before, Pending
  <2>5. Owed' = 0 /\ Owed = 0
    BY <2>2
  <2> QED
    BY <1>0, <1>1, <2>2, <2>3, <2>4, <2>5
<1>3. CASE PrintName
  <2>1. dpc = "print" /\ dpc' = "defer" /\ UNCHANGED <<nmodified, at, ran>> /\ ran.modified \in BOOLEAN
    BY <1>3 DEF PrintName, MainTyped
  <2>2. Before' = Before
    BY <2>1 DEF Before, Pending
  <2>3. ASSUME "m" \in flags PROVE Cardinality(Printed') = nmodified'
    <3> DEFINE line == <<Named, ran.modified>>
    <3>0. Cardinality(Printed) = nmodified - Owed
      BY <2>3 DEF CountsKept
    <3>1. line \in Name \X BOOLEAN /\ written \in Seq(Name \X BOOLEAN)
      <4>1. names \in Seq(Name) /\ at \in 1..Len(names) /\ Named = names[at]
        BY <2>1, EditFacts DEF Named
      <4>2. Named \in Name
        BY <4>1, ElementOfSeq
      <4> QED
        BY <2>1, <4>2 DEF MainTyped
    <3>2. CASE ran.modified
      <4>1. written' = Append(written, line)
        BY <1>3, <2>3, <3>2 DEF PrintName, Listed
      <4>2. line[2]
        BY <3>2
      <4>3. Cardinality(Printed') = Cardinality(Printed) + 1
        <5> HIDE DEF line
        <5> QED
          BY <3>1, <4>1, <4>2, PrintedMore DEF Printed
      <4>4. Owed = 1
        BY <2>1, <3>2
      <4> QED
        BY <1>a, <2>1, <3>0, <4>3, <4>4
    <3>3. CASE ~ran.modified
      <4>1. written' = Append(written, line) \/ written' = written
        BY <1>3 DEF PrintName
      <4>2. ~line[2]
        BY <3>3
      <4>3. Printed' = Printed
        <5>1. CASE written' = written
          BY <5>1 DEF Printed
        <5>2. CASE written' = Append(written, line)
          <6> HIDE DEF line
          <6> QED
            BY <3>1, <4>2, <5>2, PrintedMore DEF Printed
        <5> QED
          BY <4>1, <5>1, <5>2
      <4>4. Owed = 0
        BY <3>3
      <4> QED
        BY <1>a, <2>1, <3>0, <4>3, <4>4
    <3> QED
      BY <3>2, <3>3
  <2>4. "m" \in flags' => Cardinality(Printed') = nmodified' - (IF dpc' = "print" /\ ran'.modified THEN 1 ELSE 0)
    <3>1. nmodified' \in Nat
      BY <1>a, <2>1
    <3> QED
      BY <1>0, <2>1, <2>3, <3>1
  <2>5. nmodified' \in Nat /\ nmodified' <= Before'
    BY <1>a, <2>1, <2>2
  <2> QED
    BY <2>1, <2>4, <2>5 DEF CountsKept
<1>4. CASE WriteFile
  <2>1. dpc = "write" /\ UNCHANGED <<at, ran, written>> /\ ran.modified /\ at \in Index /\ at \in Nat
    BY <1>4, EditFacts DEF WriteFile, RunKnown
  <2>2. Before = at - 1
    BY <2>1 DEF Before, Pending
  <2>3. Printed' = Printed /\ ("m" \in flags => Cardinality(Printed) = nmodified)
    <3>1. Printed' = Printed
      BY <2>1 DEF Printed
    <3>2. "m" \in flags => Cardinality(Printed) = nmodified - 0
      BY <2>1 DEF CountsKept
    <3> QED
      BY <1>a, <3>1, <3>2
  <2>4. CASE dpc' = "defer" /\ nmodified' = nmodified
    <3>1. Before' = at
      BY <2>1, <2>4 DEF Before, Pending
    <3>2. nmodified' \in Nat /\ nmodified' <= Before'
      BY <1>0, <1>a, <2>2, <2>4, <3>1
    <3>3. "m" \in flags' => Cardinality(Printed') = nmodified' - 0
      BY <1>0, <1>a, <2>3, <2>4
    <3> QED
      BY <2>4, <3>2, <3>3 DEF CountsKept
  <2>5. CASE dpc' = "print" /\ nmodified' = nmodified + 1
    <3>1. Before' = at
      BY <2>1, <2>5 DEF Before, Pending
    <3>2. nmodified' \in Nat /\ nmodified' <= Before' /\ nmodified' > 0
      BY <1>0, <1>a, <2>2, <2>5, <3>1
    <3>3. "m" \in flags' => Cardinality(Printed') = nmodified' - 1
      BY <1>0, <1>a, <2>3, <2>5
    <3> QED
      BY <2>1, <2>5, <3>2, <3>3 DEF CountsKept
  <2> QED
    BY <1>4, <2>4, <2>5 DEF WriteFile, Fail
<1>5. CASE Run
  <2>1. UNCHANGED <<written, nmodified, at>> /\ dpc = "run" /\ ran' = command[buf] /\ buf \in Text
    BY <1>5 DEF Run, MainTyped
  <2>2. dpc' \in {"defer", "close"} \/ (dpc' = "print" /\ ~command[buf].modified)
    <3>1. dpc' = IF command[buf].err THEN "defer" ELSE IF command[buf].modified THEN "close" ELSE "print"
      BY <1>5 DEF Run
    <3>2. CASE command[buf].err \/ command[buf].modified
      BY <3>1, <3>2
    <3>3. CASE ~command[buf].err /\ ~command[buf].modified
      BY <3>1, <3>3
    <3> QED
      BY <3>2, <3>3
  <2>3. Before = at - 1 /\ Before' \in {at - 1, at}
    BY <2>1 DEF Before, Pending
  <2>4. ~(dpc' = "print" /\ ran'.modified)
    BY <2>1, <2>2
  <2>5. Owed = 0 /\ Owed' = 0
    BY <2>1, <2>4
  <2>6. Before <= Before' /\ Before' \in Int
    BY <1>0, <2>3
  <2> HIDE DEF Owed
  <2> QED
    BY <1>1, <1>b, <2>1, <2>4, <2>5, <2>6
<1>6. CASE EditEmit \/ Read \/ CloseNow \/ Stat \/ Deferred \/ EditRangeEnd \/ Remove \/ UNCHANGED editVars
  <2>1. UNCHANGED <<written, nmodified, at, ran>>
    BY <1>6 DEF EditEmit, Read, CloseNow, Stat, Deferred, EditRangeEnd, Remove, editVars, editOwn
  <2>2. \/ dpc' = dpc
        \/ dpc \in {"read", "run", "close", "stat", "write"} /\ dpc' \in {"run", "stat", "write", "fatal", "defer"}
        \/ dpc \in {"defer", "range"} /\ dpc' \in {"range", "exit 0", "exit 1"}
    BY <1>6 DEF EditEmit, Read, CloseNow, Stat, Deferred, EditRangeEnd, Remove, editVars, editOwn, Fail, Status
  <2>3. dpc' = "print" <=> dpc = "print"
    BY <2>2
  <2>4. Owed' = Owed
    BY <2>1, <2>3
  <2>5. Before <= Before' /\ Before' \in Int
    <3>1. CASE dpc' = dpc
      <4>1. Before' = Before
        BY <2>1, <3>1 DEF Before, Pending
      <4> QED
        BY <1>b, <4>1
    <3>2. CASE dpc \in {"read", "run", "close", "stat", "write"}
      <4>1. Before = at - 1 /\ Before' \in {at - 1, at}
        BY <2>1, <3>2 DEF Before, Pending
      <4> QED
        BY <1>0, <4>1
    <3>3. CASE dpc \in {"defer", "range"} /\ dpc' \in {"range", "exit 0", "exit 1"}
      <4>1. Before = at /\ Before' = at
        BY <2>1, <3>3 DEF Before, Pending
      <4> QED
        BY <1>0, <4>1
    <3> QED
      BY <2>2, <3>1, <3>2, <3>3
  <2> HIDE DEF Owed
  <2> QED
    BY <1>1, <1>b, <2>1, <2>3, <2>4, <2>5
<1> QED
  BY <1>2, <1>3, <1>4, <1>5, <1>6 DEF EditNext, EditMain

\* What After is, one file of the list after the other.
LEMMA AfterIs ==
  ASSUME EditAssumption, EditKept, NEW n
  PROVE  /\ After(n)[0] = disk0[n]
         /\ \A k \in Index :
               After(n)[k] = IF \/ names[k] # n \/ command[After(n)[k - 1]].err
                                \/ ~command[After(n)[k - 1]].modified \/ n \in ReadOnly
                             THEN After(n)[k - 1] ELSE command[After(n)[k - 1]].text
<1>1. names \in Seq(Name) /\ Index = 1..Len(names)
  BY EditFacts
<1>2. After(n) = TextsOf(names, command, disk0[n], n)
  BY DEF After
<1> QED
  BY <1>1, <1>2, TextsAre

\* What was edited up to a place of the list does not change.
LEMMA TextsSame ==
  ASSUME UNCHANGED <<names, command, disk0>>
  PROVE  /\ \A n : After(n)' = After(n)
         /\ EditsTo(Before)' = EditsTo(Before') /\ FailsTo(Before)' = FailsTo(Before')
<1>1. \A n : After(n)' = After(n)
  BY DEF After
<1>2. \A k : (Edits(k)' <=> Edits(k)) /\ (Fails(k)' <=> Fails(k))
  BY <1>1 DEF Edits, Fails, Edited
<1>3. EditsTo(Before)' = EditsTo(Before') /\ FailsTo(Before)' = FailsTo(Before')
  BY <1>2 DEF EditsTo, FailsTo
<1> QED
  BY <1>1, <1>3

\* One file more.
LEMMA OneFileMore ==
  ASSUME NEW l \in Nat \ {0}
  PROVE  /\ IsFiniteSet(EditsTo(l - 1)) /\ Cardinality(EditsTo(l - 1)) \in Nat
         /\ Edits(l) => Cardinality(EditsTo(l)) = Cardinality(EditsTo(l - 1)) + 1
         /\ ~Edits(l) => EditsTo(l) = EditsTo(l - 1)
         /\ Fails(l) => FailsTo(l) = FailsTo(l - 1) \cup {l}
         /\ ~Fails(l) => FailsTo(l) = FailsTo(l - 1)
<1>1. \A k : k \in 1..l <=> k \in 1..(l - 1) \/ k = l
  OBVIOUS
<1>2. l \notin 1..(l - 1)
  OBVIOUS
<1>3. IsFiniteSet(EditsTo(l - 1)) /\ Cardinality(EditsTo(l - 1)) \in Nat
  <2>1. IsFiniteSet(1..(l - 1))
    BY FS_Interval
  <2>2. EditsTo(l - 1) \subseteq 1..(l - 1)
    BY DEF EditsTo
  <2> QED
    BY <2>1, <2>2, FS_Subset, FS_CardinalityType
<1>4. ASSUME Edits(l) PROVE Cardinality(EditsTo(l)) = Cardinality(EditsTo(l - 1)) + 1
  <2>1. EditsTo(l) = EditsTo(l - 1) \cup {l} /\ l \notin EditsTo(l - 1)
    BY <1>1, <1>2, <1>4 DEF EditsTo
  <2> QED
    BY <1>3, <2>1, FS_AddElement
<1>5. ~Edits(l) => EditsTo(l) = EditsTo(l - 1)
  BY <1>1 DEF EditsTo
<1>6. Fails(l) => FailsTo(l) = FailsTo(l - 1) \cup {l}
  BY <1>1 DEF FailsTo
<1>7. ~Fails(l) => FailsTo(l) = FailsTo(l - 1)
  BY <1>1 DEF FailsTo
<1> QED
  BY <1>3, <1>4, <1>5, <1>6, <1>7

\* As long as nothing is missing the list is taken in order.
LEMMA CleanBefore ==
  ASSUME EditAssumption, EditKept, [EditNext]_editVars, Clean'
  PROVE  Clean /\ removed = {} /\ ~Remove /\ \A i \in Index : EditReceive(i) => i = at + 1
<1>0. at \in Nat /\ epos \in Nat /\ Index = 1..Len(names) /\ Len(names) \in Nat /\ Index' = Index
  BY EditFacts, EditSame
<1> USE DEF EditKept
<1>1. once = {} /\ once' = {} /\ removed = {}
  BY EditSame DEF Clean, DiskTyped
<1>2. ~Remove
  BY <1>1 DEF Remove
<1>3. Clean
  <2>1. ASSUME NEW i \in Index, i < epos PROVE i \in Handed
    <3>1. CASE Handed' = Handed /\ epos' \in {epos, epos + 1}
      BY <1>0, <2>1, <3>1 DEF Clean
    <3>2. CASE \E j \in Index : j = epos /\ epos' = epos + 1 /\ Handed' = Handed \cup {j}
      <4>1. PICK j \in Index : j = epos /\ epos' = epos + 1 /\ Handed' = Handed \cup {j}
        BY <3>2
      <4>2. i < epos' /\ i # j
        BY <1>0, <2>1, <4>1
      <4>3. i \in Handed'
        BY <1>0, <4>2 DEF Clean
      <4> QED
        BY <4>1, <4>2, <4>3
    <3> QED
      BY <3>1, <3>2, EditHanded
  <2> QED
    BY <1>1, <2>1 DEF Clean
<1>4. ASSUME NEW i \in Index, EditReceive(i) PROVE i = at + 1
  <2>1. i = epos
    BY <1>4 DEF EditReceive, Hand
  <2>2. at < epos
    <3>1. at \in Handed \/ at = 0
      BY DEF AtLast
    <3> QED
      BY <1>0, <2>1, <3>1 DEF Handed
  <2>3. CASE epos = 1
    BY <1>0, <2>1, <2>2, <2>3
  <2>4. CASE epos # 1
    <3>1. epos - 1 \in Index /\ epos - 1 < epos
      BY <1>0, <2>1, <2>4
    <3>2. epos - 1 <= at
      BY <1>3, <3>1 DEF Clean, AtLast
    <3> QED
      BY <1>0, <2>1, <2>2, <3>2
  <2> QED
    BY <2>3, <2>4
<1> QED
  BY <1>1, <1>2, <1>3, <1>4

\* A file is edited, and counted or its error logged, once it has been dealt with.
LEMMA ProgressStep ==
  ASSUME EditAssumption, EditKept, [EditNext]_editVars
  PROVE  Progress'
<1> DEFINE Goal == /\ \A n \in Readable : disk'[n] = After(n)[Before']
                   /\ nmodified' = Cardinality(EditsTo(Before'))
                   /\ logged' = FailsTo(Before')
<1>0. /\ \A n : After(n)' = After(n)
      /\ EditsTo(Before)' = EditsTo(Before') /\ FailsTo(Before)' = FailsTo(Before')
  BY EditSame, TextsSame
<1> SUFFICES ASSUME Clean' PROVE Goal
  BY <1>0 DEF Progress
<1> USE DEF EditKept
<1>1. /\ removed = {} /\ ~Remove /\ once = {}
      /\ \A n \in Readable : disk[n] = After(n)[Before]
      /\ nmodified = Cardinality(EditsTo(Before))
      /\ logged = FailsTo(Before)
  BY CleanBefore DEF Progress, Clean
<1>3. ASSUME UNCHANGED <<disk, nmodified, logged>>, Before' = Before PROVE Goal
  BY <1>1, <1>3
<1>4. ASSUME at \in Index, dpc \in {"read", "run", "close", "stat", "write"},
             at' = at, dpc' \in {"print", "defer"},
             \A n \in Readable : disk'[n] = After(n)[at],
             nmodified' = nmodified + (IF Edits(at) THEN 1 ELSE 0),
             logged' = IF Fails(at) THEN logged \cup {at} ELSE logged
      PROVE  Goal
  <2>1. Before = at - 1 /\ Before' = at
    BY <1>4 DEF Before, Pending
  <2>2. at \in Nat \ {0}
    <3>1. Index = 1..Len(names) /\ Len(names) \in Nat
      BY EditFacts
    <3> QED
      BY <1>4, <3>1
  <2>3. nmodified' = Cardinality(EditsTo(at))
    <3>1. CASE Edits(at)
      BY <1>1, <1>4, <2>1, <2>2, <3>1, OneFileMore
    <3>2. CASE ~Edits(at)
      <4>1. Cardinality(EditsTo(at)) = nmodified /\ nmodified \in Nat
        BY <1>1, <2>1, <2>2, <3>2, OneFileMore
      <4> QED
        BY <1>4, <3>2, <4>1
    <3> QED
      BY <3>1, <3>2
  <2>4. logged' = FailsTo(at)
    <3>1. CASE Fails(at)
      BY <1>1, <1>4, <2>1, <2>2, <3>1, OneFileMore
    <3>2. CASE ~Fails(at)
      BY <1>1, <1>4, <2>1, <2>2, <3>2, OneFileMore
    <3> QED
      BY <3>1, <3>2
  <2> QED
    BY <1>4, <2>1, <2>3, <2>4
<1> DEFINE t == disk[Named]
<1>5. ASSUME at \in Index, Named \in Readable, dpc \in {"run", "close", "stat", "write"}
      PROVE  /\ names[at] = Named /\ After(Named)[at - 1] = t
             /\ \A n \in Readable : n # Named => After(n)[at] = disk[n]
             /\ After(Named)[at] = IF command[t].err \/ ~command[t].modified \/ Named \in ReadOnly
                                   THEN t ELSE command[t].text
             /\ Edits(at) <=> ~command[t].err /\ command[t].modified /\ Named \notin ReadOnly
             /\ Fails(at) <=> command[t].err \/ (command[t].modified /\ Named \in ReadOnly)
  <2>1. Before = at - 1 /\ names[at] = Named
    BY <1>5, EditFacts DEF Before, Pending, Named
  <2>2. \A n \in Readable : After(n)[at - 1] = disk[n]
    BY <1>1, <2>1
  <2>3. \A n \in Readable : n # Named => After(n)[at] = disk[n]
    <3> TAKE n \in Readable
    <3> HAVE n # Named
    <3>1. After(n)[at] = After(n)[at - 1]
      BY <1>5, <2>1, AfterIs
    <3> QED
      BY <2>2, <3>1
  <2>4. After(Named)[at - 1] = t
    BY <1>5, <2>2
  <2>5. After(Named)[at] = IF command[t].err \/ ~command[t].modified \/ Named \in ReadOnly
                           THEN t ELSE command[t].text
    <3> HIDE DEF t
    <3> QED
      BY <1>5, <2>1, <2>4, AfterIs
  <2>6. Edits(at) <=> ~command[t].err /\ command[t].modified /\ Named \notin ReadOnly
    BY <2>1, <2>4 DEF Edits, Edited
  <2>7. Fails(at) <=> command[t].err \/ (command[t].modified /\ Named \in ReadOnly)
    BY <2>1, <2>4 DEF Fails, Edited
  <2> QED
    BY <2>1, <2>3, <2>4, <2>5, <2>6, <2>7
<1>6. CASE \E i \in Index : EditReceive(i)
  <2>1. PICK i \in Index : EditReceive(i)
    BY <1>6
  <2>2. i = at + 1 /\ at \in Nat
    BY <2>1, CleanBefore, EditFacts
  <2>3. at' = i /\ dpc = "range" /\ dpc' = "read" /\ UNCHANGED <<disk, nmodified, logged>>
    BY <2>1 DEF EditReceive
  <2>4. Before' = Before
    BY <2>2, <2>3 DEF Before, Pending
  <2> HIDE DEF Goal
  <2> QED
    BY <1>3, <2>3, <2>4
<1>7. CASE Run
  <2>1. /\ dpc = "run" /\ at' = at /\ UNCHANGED <<disk, nmodified>> /\ buf = t /\ buf \in Text
        /\ at \in Index /\ Named \in Readable
    BY <1>1, <1>7, EditFacts DEF Run, RunKnown, MainTyped
  <2>2. command[t].err \in BOOLEAN /\ command[t].modified \in BOOLEAN
    BY <2>1, RunTyped
  <2>3. CASE command[t].err
    <3>1. dpc' = "defer" /\ logged' = logged \cup {at}
      BY <1>7, <2>1, <2>3 DEF Run
    <3>2. ~Edits(at) /\ Fails(at) /\ \A n \in Readable : disk'[n] = After(n)[at]
      BY <1>5, <2>1, <2>3
    <3>3. nmodified' = nmodified + (IF Edits(at) THEN 1 ELSE 0)
      BY <2>1, <3>2 DEF CountsKept
    <3> HIDE DEF Goal
    <3> QED
      BY <1>4, <2>1, <3>1, <3>2, <3>3
  <2>4. CASE ~command[t].err /\ command[t].modified
    <3>1. dpc' = "close" /\ logged' = logged
      BY <1>7, <2>1, <2>4 DEF Run
    <3>2. Before' = Before
      BY <2>1, <3>1 DEF Before, Pending
    <3> HIDE DEF Goal
    <3> QED
      BY <1>3, <2>1, <3>1, <3>2
  <2>5. CASE ~command[t].err /\ ~command[t].modified
    <3>1. dpc' = "print" /\ logged' = logged
      BY <1>7, <2>1, <2>5 DEF Run
    <3>2. ~Edits(at) /\ ~Fails(at) /\ \A n \in Readable : disk'[n] = After(n)[at]
      BY <1>5, <2>1, <2>5
    <3>3. nmodified' = nmodified + (IF Edits(at) THEN 1 ELSE 0)
      BY <2>1, <3>2 DEF CountsKept
    <3> HIDE DEF Goal
    <3> QED
      BY <1>4, <2>1, <3>1, <3>2, <3>3
  <2> QED
    BY <2>3, <2>4, <2>5
<1>8. CASE Stat
  <2>1. dpc = "stat" /\ dpc' = "write" /\ UNCHANGED <<at, disk, nmodified, logged>>
    BY <1>1, <1>8 DEF Stat
  <2>2. Before' = Before
    BY <2>1 DEF Before, Pending
  <2> HIDE DEF Goal
  <2> QED
    BY <1>3, <2>1, <2>2
<1>9. CASE WriteFile
  <2>1. /\ dpc = "write" /\ at' = at /\ at \in Index /\ Named \in Readable
        /\ ~command[t].err /\ command[t].modified /\ buf = command[t].text
    BY <1>1, <1>9, EditFacts DEF WriteFile, RunKnown
  <2>2. CASE Named \in ReadOnly
    <3>1. dpc' = "defer" /\ logged' = logged \cup {at} /\ UNCHANGED <<disk, nmodified>>
      BY <1>1, <1>9, <2>2 DEF WriteFile, Fail
    <3>2. ~Edits(at) /\ Fails(at) /\ \A n \in Readable : disk'[n] = After(n)[at]
      BY <1>5, <2>1, <2>2, <3>1
    <3>3. nmodified' = nmodified + (IF Edits(at) THEN 1 ELSE 0)
      BY <3>1, <3>2 DEF CountsKept
    <3> HIDE DEF Goal
    <3> QED
      BY <1>4, <2>1, <3>1, <3>2, <3>3
  <2>3. CASE Named \notin ReadOnly
    <3>1. dpc' = "print" /\ logged' = logged /\ nmodified' = nmodified + 1 /\ disk' = [disk EXCEPT ![Named] = buf]
      BY <1>9, <2>3 DEF WriteFile
    <3>2. Edits(at) /\ ~Fails(at) /\ After(Named)[at] = buf /\ \A n \in Readable : n # Named => After(n)[at] = disk[n]
      BY <1>5, <2>1, <2>3
    <3>3. \A n \in Readable : disk'[n] = After(n)[at]
      BY <2>1, <3>1, <3>2 DEF DiskTyped
    <3> HIDE DEF Goal
    <3> QED
      BY <1>4, <2>1, <3>1, <3>2, <3>3
  <2> QED
    BY <2>2, <2>3
<1>10. CASE EditEmit \/ Read \/ CloseNow \/ PrintName \/ Deferred \/ EditRangeEnd \/ UNCHANGED editVars
  <2>1. UNCHANGED <<disk, nmodified, logged, at>>
    BY <1>10 DEF EditEmit, Read, CloseNow, PrintName, Deferred, EditRangeEnd, editVars, editOwn
  <2>2. \/ dpc' = dpc
        \/ dpc \in {"read", "close"} /\ dpc' \in {"run", "fatal", "stat"}
        \/ dpc \in {"print", "defer", "range"} /\ dpc' \in {"defer", "range", "exit 0", "exit 1"}
    BY <1>10 DEF EditEmit, Read, CloseNow, PrintName, Deferred, EditRangeEnd, editVars, editOwn, Status
  <2>3. Before' = Before
    BY <2>1, <2>2 DEF Before, Pending
  <2> HIDE DEF Goal
  <2> QED
    BY <1>3, <2>1, <2>3
<1> HIDE DEF Goal
<1> QED
  BY <1>1, <1>6, <1>7, <1>8, <1>9, <1>10 DEF EditNext, EditMain

----------------------------------------------------------------------------
\* At the start nothing has been edited.
LEMMA EditInitRight ==
  ASSUME EditAssumption, EditInit
  PROVE  EditKept
<1>1. ArgFileAssumption /\ Kept
  BY InitRight DEF EditAssumption, EditInit
<1>2. /\ names # <<>> /\ dpc = "range" /\ at = 0 /\ nmodified = 0 /\ written = <<>> /\ logged = {} /\ removed = {}
      /\ orphans = [i \in Index |-> {}] /\ disk0 = disk /\ once = {} /\ disk \in Disks /\ command \in Commands /\ flags \in Flags
      /\ buf \in {CHOOSE t \in Text : TRUE} /\ ran = [err |-> FALSE, modified |-> FALSE, text |-> buf]
  BY DEF EditInit, EditOwnInit
<1>3. /\ epos = 1 /\ \A i \in Index : fd[i] = "none"
  BY DEF EditInit, Init
<1>4. CapOrCloser /\ OpenedReadable
  BY <1>3 DEF CapOrCloser, OpenedReadable
<1>5. DiskTyped
  BY <1>2 DEF DiskTyped, EditAssumption
<1>6. MainTyped
  <2>1. buf \in Text /\ ran.modified \in BOOLEAN
    BY <1>2 DEF EditAssumption
  <2>2. written \in Seq(Name \X BOOLEAN)
    <3>1. \A S : <<>> \in Seq(S)
      BY EmptySeq
    <3> QED
      BY <1>2, <3>1
  <2> QED
    BY <1>2, <2>1, <2>2 DEF MainTyped
<1>7. Handed = {}
  BY <1>3 DEF Handed
<1>8. AtLast
  BY <1>2, <1>7 DEF AtLast
<1>9. ClosedFirst /\ RunKnown
  BY <1>2 DEF ClosedFirst, RunKnown
<1>10. Before = 0 /\ Cardinality({}) = 0
  BY <1>2, FS_EmptySet DEF Before, Pending
<1>11. CountsKept
  <2>1. Printed = {}
    BY <1>2 DEF Printed, Marked
  <2> QED
    BY <1>2, <1>10, <2>1 DEF CountsKept
<1>12. Progress
  <2>1. EditsTo(0) = {} /\ FailsTo(0) = {}
    BY DEF EditsTo, FailsTo
  <2>2. ASSUME NEW n PROVE After(n)[0] = disk0[n]
    <3>1. names \in Seq(Name)
      BY <1>1 DEF ArgFileAssumption, Kept, EmitTyped
    <3>2. After(n) = TextsOf(names, command, disk0[n], n)
      BY DEF After
    <3> QED
      BY <3>1, <3>2, TextsAre
  <2> QED
    BY <1>2, <1>10, <2>1, <2>2 DEF Progress
<1> QED
  BY <1>1, <1>4, <1>5, <1>6, <1>8, <1>9, <1>11, <1>12 DEF EditKept

\* Every step keeps it.
LEMMA EditKeptStep ==
  ASSUME EditAssumption, EditKept, [EditNext]_editVars
  PROVE  EditKept'
<1>1. ArgFileAssumption /\ Kept /\ CapOrCloser /\ OpenedReadable /\ AtLast
  BY DEF EditAssumption, EditKept
<1>2. Kept'
  BY <1>1, EditArgStep, KeptStep
<1>3. CapOrCloser' /\ OpenedReadable'
  BY <1>1, EditArgStep, CapOrCloserStep, OpenedStep
<1> QED
  BY <1>2, <1>3, DiskTypedStep, MainTypedStep, AtLastStep, ClosedFirstStep, RunKnownStep, CountsStep, ProgressStep
  DEF EditKept

\* When main returns the whole list has been edited.
LEMMA EditEnd ==
  ASSUME EditAssumption, EditKept
  PROVE  AsEdited
<1> USE DEF EditKept
<1>0. SUFFICES ASSUME dpc \in {"exit 0", "exit 1"}, once = {}
             PROVE  /\ \A n \in Readable \ {Stdin} : disk[n] = After(n)[Len(names)]
                    /\ nmodified = Cardinality({k \in Index : Edited(k) /\ names[k] \notin ReadOnly})
                    /\ logged = {k \in Index : \/ command[After(names[k])[k - 1]].err
                                               \/ Edited(k) /\ names[k] \in ReadOnly}
  BY DEF AsEdited, EditRunning, MainTyped
<1>1. Index = 1..Len(names) /\ Len(names) \in Nat /\ Len(names) # 0 /\ at \in Nat /\ epos \in Nat
  <2>1. names \in Seq(Name) /\ names # <<>>
    BY EditFacts DEF DiskTyped
  <2>2. Len(names) # 0
    BY <2>1, EmptySeq
  <2> QED
    BY <2>2, EditFacts
<1>2. \A i \in Index : fd[i] # "none"
  <2>1. toClosed
    BY <1>0 DEF AtLast
  <2>2. \A i \in Index : fd[i] = "closed"
    BY <2>1 DEF DiskTyped, Kept, Stages
  <2> QED
    BY <2>2
<1>3. \A i \in Index : i < epos
  <2>1. epc = "stop"
    BY <1>0 DEF AtLast, Kept, Stages
  <2>2. \A i \in Index : ~(i > epos) /\ i # epos
    BY <1>2, <2>1 DEF Kept, OneCloser
  <2>3. \A i \in Index : i \in Int
    BY <1>1
  <2>4. \A i, j \in Int : i < j \/ i > j \/ i = j
    OBVIOUS
  <2>5. epos \in Int
    BY <1>1
  <2> QED
    BY <2>2, <2>3, <2>4, <2>5, Zenon
<1>4. Handed = Index
  BY <1>2, <1>3 DEF Handed
<1>5. Clean
  BY <1>0, <1>4 DEF Clean
<1>6. at = Len(names)
  <2>1. \A l \in Nat : l # 0 => l \in 1..l
    OBVIOUS
  <2>2. Len(names) \in Index
    BY <1>1, <2>1, Zenon
  <2>3. Len(names) <= at
    BY <1>4, <2>2, Zenon DEF AtLast
  <2>4. \A l \in Nat : \A j \in 1..l : j <= l
    OBVIOUS
  <2>5. at \in Index
    <3>1. at \in Handed \/ at = 0
      BY DEF AtLast
    <3>2. \A l \in Nat : l <= 0 => l = 0
      OBVIOUS
    <3>3. at # 0
      BY <1>1, <2>3, <3>2, Zenon
    <3> QED
      BY <1>4, <3>1, <3>3, Zenon
  <2>6. at <= Len(names)
    BY <1>1, <2>4, <2>5, Zenon
  <2>7. \A j, l \in Nat : j <= l /\ l <= j => j = l
    OBVIOUS
  <2> QED
    BY <1>1, <2>3, <2>6, <2>7, Zenon
<1>7. Before = Len(names)
  BY <1>0, <1>6 DEF Before, Pending
<1>8. /\ \A n \in Readable : disk[n] = After(n)[Len(names)]
      /\ nmodified = Cardinality(EditsTo(Len(names)))
      /\ logged = FailsTo(Len(names))
  BY <1>5, <1>7 DEF Progress
<1>9. /\ EditsTo(Len(names)) = {k \in Index : Edited(k) /\ names[k] \notin ReadOnly}
      /\ FailsTo(Len(names)) = {k \in Index : \/ command[After(names[k])[k - 1]].err
                                              \/ Edited(k) /\ names[k] \in ReadOnly}
  BY <1>1 DEF EditsTo, FailsTo, Edits, Fails
<1> QED
  BY <1>8, <1>9

\* The invariant says more than the property.
LEMMA EditKeptRight ==
  ASSUME EditAssumption, EditKept
  PROVE  EditRight
<1> USE DEF EditKept
<1>1. TypeOK
  BY EditFacts, KeptRight DEF ArgInv
<1>2. at \in Index \cup {0}
  BY DEF AtLast, Handed
<1>3. nmodified \in 0..Len(names)
  <2>1. Index = 1..Len(names) /\ Len(names) \in Nat /\ at \in Nat
    BY EditFacts
  <2>2. at <= Len(names)
    BY <1>2, <2>1
  <2>3. Before = at \/ Before = at - 1
    BY DEF Before
  <2>4. nmodified \in Nat /\ nmodified <= Before
    BY DEF CountsKept
  <2> QED
    BY <2>1, <2>2, <2>3, <2>4
<1>4. EditTypeOK
  BY <1>1, <1>2, <1>3 DEF EditTypeOK, DiskTyped, MainTyped
<1>5. PrintsCounted
  <2>1. ASSUME "m" \in flags, dpc # "print" PROVE Cardinality(Printed) = nmodified
    <3>1. Cardinality(Printed) = nmodified - 0 /\ nmodified \in Nat
      BY <2>1 DEF CountsKept
    <3> QED
      BY <3>1
  <2> QED
    BY <2>1 DEF PrintsCounted, Printed, Marked
<1>6. AsEdited
  BY EditEnd
<1> QED
  BY <1>4, <1>5, <1>6 DEF EditRight, ClosedFirst

\* The inductive invariant of edit: main is at the last file handed over, which only its
\* own first Close closes before it is written; as long as nothing was removed or missing,
\* every file is what the command has made of it so far (edit.go:62-107).
THEOREM EditInvariance == ASSUME EditAssumption PROVE EditSpec => []EditKept
<1>1. EditInit => EditKept
  BY EditInitRight
<1>2. EditKept /\ [EditNext]_editVars => EditKept'
  BY EditKeptStep
<1> QED
  BY <1>1, <1>2, PTL DEF EditSpec

\* However far ahead emit opens the files, and whatever another program removes: a file is
\* written only after it was closed, as many names are printed as files were written, and
\* if nothing was removed every file ends as the command, run in the order of the list,
\* makes of it (edit.go:62-107).
THEOREM EditsRight == ASSUME EditAssumption PROVE EditSpec => []EditRight
<1>1. EditKept => EditRight
  BY EditKeptRight
<1> QED
  BY <1>1, EditInvariance, PTL
=============================================================================
