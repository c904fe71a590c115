----------------------------- MODULE HashProofs -----------------------------
(***************************************************************************)
(* Proofs about Hash for any finite set of workers, any file lists and any *)
(* contents of standard input.                                             *)
(***************************************************************************)
EXTENDS Hash, FiniteSetTheorems, SequenceTheorems, TLAPS

\* A prefix and a suffix of a sequence are sequences of the same elements.
LEMMA CutSeq ==
  ASSUME NEW S, NEW s \in Seq(S), NEW k \in 1..Len(s)
  PROVE  SubSeq(s, 1, k) \in Seq(S) /\ SubSeq(s, k + 1, Len(s)) \in Seq(S)
<1>1. Len(s) \in Nat /\ \A i \in 1..Len(s) : s[i] \in S
  BY LenProperties, ElementOfSeq
<1>2. SubSeq(s, 1, k) \in Seq(S)
  BY <1>1, SubSeqProperties
<1>3. SubSeq(s, k + 1, Len(s)) \in Seq(S)
  BY <1>1, SubSeqProperties
<1> QED
  BY <1>2, <1>3

\* The initial states are typed.
LEMMA InitTyped == Init => TypeOK
<1> USE HashAssumption DEF TypeOK, FileName, feeder, worker
<1> SUFFICES ASSUME Init PROVE TypeOK
  OBVIOUS
<1>1. Cap \in Nat
  BY FS_CardinalityType DEF Cap
<1>2. /\ file \in Seq(Name \cup {Dash, Blank})
      /\ given \in Seq(FileName) /\ stdin \in Seq(FileName)
  BY DEF Init
<1>3. <<>> \in Seq(FileName) /\ <<>> \in Seq(Nat) /\ <<>> \in Seq(Result)
  BY EmptySeq
<1>4. job \in [Worker -> Nat] /\ data \in [Worker -> Seq(FileName)]
  BY DEF Init
<1>5. wpc \in [Worker -> {"recv", "copy", "send", "done", "stop"}]
  BY DEF Init
<1>6. lines \in Seq(FileName) /\ emitted \in Seq(FileName)
  BY <1>3 DEF Init
<1>7. in \in Seq(Nat) /\ out \in Seq(Result) /\ printed \in Seq(Result)
  BY <1>3 DEF Init
<1>8. /\ stdinOpen \in BOOLEAN /\ inClosed \in BOOLEAN
      /\ fpc \in {"default", "next", "scan", "stop"} /\ mpc \in {"select", "exit"}
  BY Zenon DEF Init
<1>9. fpos \in Nat \ {0}
  BY SMT DEF Init
<1>10. n \in Int
  BY <1>1 DEF Init
<1> QED
  BY <1>2, <1>4, <1>5, <1>6, <1>7, <1>8, <1>9, <1>10

\* A send on in keeps the types of what it changes.
LEMMA SendTyped ==
  ASSUME TypeOK, NEW name \in FileName, SendWork(name)
  PROVE  emitted' \in Seq(FileName) /\ in' \in Seq(Nat)
<1>1. emitted \in Seq(FileName) /\ in \in Seq(Nat) /\ Len(emitted) + 1 \in Nat
  <2>1. emitted \in Seq(FileName) /\ in \in Seq(Nat)
    BY DEF TypeOK
  <2> QED
    BY <2>1, LenProperties
<1>2. emitted' = Append(emitted, name) /\ in' = Append(in, Len(emitted) + 1)
  BY DEF SendWork
<1> QED
  BY <1>1, <1>2, AppendProperties

\* Every step keeps the types.
LEMMA TypeStep == TypeOK /\ [Next]_vars => TypeOK'
<1> USE HashAssumption DEF TypeOK, FileName, feeder, worker
<1> SUFFICES ASSUME TypeOK, [Next]_vars PROVE TypeOK'
  OBVIOUS
<1>1. CASE FeedDefault
  <2>1. emitted' \in Seq(FileName) /\ in' \in Seq(Nat)
    <3>1. SendWork(Blank) /\ Blank \in FileName
      BY <1>1 DEF FeedDefault
    <3> QED
      BY <3>1, SendTyped
  <2> QED
    BY <1>1, <2>1 DEF FeedDefault
<1>2. CASE FeedArg
  <2>1. emitted' \in Seq(FileName) /\ in' \in Seq(Nat)
    <3>1. SendWork(file[fpos]) /\ file[fpos] \in FileName
      BY <1>2, ElementOfSeq DEF FeedArg
    <3> QED
      BY <3>1, SendTyped
  <2>2. fpos' \in Nat \ {0}
    BY <1>2 DEF FeedArg
  <2>3. UNCHANGED <<file, given, stdin, stdinOpen, lines, fpc, inClosed, out, worker, n, mpc, printed>>
    BY <1>2 DEF FeedArg
  <2> QED
    BY <2>1, <2>2, <2>3
<1>3. CASE FeedDash
  BY <1>3 DEF FeedDash
<1>4. CASE ScanRead
  BY <1>4 DEF ScanRead
<1>5. CASE FeedLine
  <2>1. SendWork(Head(lines)) /\ lines # <<>> /\ lines' = Tail(lines)
    BY <1>5 DEF FeedLine
  <2>2. Head(lines) \in FileName /\ lines' \in Seq(FileName)
    BY <2>1, HeadTailProperties
  <2>3. emitted' \in Seq(FileName) /\ in' \in Seq(Nat)
    BY <2>1, <2>2, SendTyped
  <2> QED
    BY <1>5, <2>2, <2>3 DEF FeedLine
<1>6. CASE ScanEnd
  BY <1>6 DEF ScanEnd
<1>7. CASE CloseIn
  BY <1>7 DEF CloseIn
<1>8. ASSUME NEW w \in Worker, Take(w) PROVE TypeOK'
  <2>1. in # <<>> /\ in' = Tail(in)
    BY <1>8 DEF Take, Opened, Unopened
  <2>2. in' \in Seq(Nat) /\ Head(in) \in Nat
    BY <2>1
  <2>3. CASE UNCHANGED worker
    BY <1>8, <2>2, <2>3 DEF Take, Opened, Unopened
  <2>4. CASE /\ emitted[Head(in)] = Blank \/ emitted[Head(in)] \in Readable
             /\ ~UNCHANGED worker
    <3>1. wpc' \in [Worker -> {"recv", "copy", "send", "done", "stop"}]
      BY <1>8, <2>4 DEF Take, Opened, Unopened
    <3>2. job' \in [Worker -> Nat]
      BY <1>8, <2>2, <2>4 DEF Take, Opened, Unopened
    <3>3. data' \in [Worker -> Seq(FileName)]
      <4>1. data' = [data EXCEPT ![w] = IF emitted[Head(in)] = Blank
                                        THEN <<>> ELSE <<emitted[Head(in)]>>]
        BY <1>8, <2>4 DEF Take, Opened, Unopened
      <4>2. <<>> \in Seq(FileName)
        BY EmptySeq
      <4>3. emitted[Head(in)] # Blank => <<emitted[Head(in)]>> \in Seq(FileName)
        BY <2>4
      <4> QED
        BY <4>1, <4>2, <4>3
    <3> QED
      BY <1>8, <2>2, <3>1, <3>2, <3>3 DEF Take, Opened, Unopened
  <2> QED
    BY <1>8, <2>3, <2>4 DEF Take, Opened, Unopened
<1>9. ASSUME NEW w \in Worker, CopyStdin(w) PROVE TypeOK'
  <2>1. PICK k \in 1..Len(stdin) :
           /\ data' = [data EXCEPT ![w] = @ \o SubSeq(stdin, 1, k)]
           /\ stdin' = SubSeq(stdin, k + 1, Len(stdin))
    BY <1>9 DEF CopyStdin
  <2>2. SubSeq(stdin, 1, k) \in Seq(FileName) /\ stdin' \in Seq(FileName)
    BY <2>1, CutSeq
  <2>3. data' \in [Worker -> Seq(FileName)]
    <3>1. data \in [Worker -> Seq(FileName)]
      OBVIOUS
    <3>2. data[w] \o SubSeq(stdin, 1, k) \in Seq(FileName)
      BY <2>2, <3>1, ConcatProperties
    <3> QED
      BY <2>1, <3>1, <3>2
  <2>4. UNCHANGED <<file, given, stdinOpen, feeder, in, out, wpc, job, n, mpc, printed>>
    BY <1>9 DEF CopyStdin
  <2> QED
    BY <2>2, <2>3, <2>4
<1>10. ASSUME NEW w \in Worker, CopyEnd(w) PROVE TypeOK'
  BY <1>10 DEF CopyEnd
<1>11. ASSUME NEW w \in Worker, SendResult(w) PROVE TypeOK'
  <2>1. Sent(w) \in Result
    BY <1>11 DEF Sent, Result
  <2>2. out' \in Seq(Result)
    BY <1>11, <2>1, AppendProperties DEF SendResult
  <2> QED
    BY <1>11, <2>2 DEF SendResult
<1>12. ASSUME NEW w \in Worker, Quit(w) PROVE TypeOK'
  BY <1>12 DEF Quit
<1>13. ASSUME NEW w \in Worker, RecvDone(w) PROVE TypeOK'
  BY <1>13 DEF RecvDone, Leave
<1>14. CASE RecvOut
  <2>1. Head(out) \in Result /\ out' \in Seq(Result)
    BY <1>14 DEF RecvOut
  <2>2. printed' \in Seq(Result)
    BY <1>14, <2>1 DEF RecvOut
  <2> QED
    BY <1>14, <2>1, <2>2 DEF RecvOut, Leave
<1>15. CASE UNCHANGED vars
  BY <1>15 DEF vars
<1> QED
  BY <1>1, <1>2, <1>3, <1>4, <1>5, <1>6, <1>7, <1>8, <1>9, <1>10, <1>11,
     <1>12, <1>13, <1>14, <1>15 DEF Next, Feeder, WorkerStep

\* Every variable keeps its type.
THEOREM TypeCorrect == Spec => []TypeOK
  BY InitTyped, TypeStep, PTL DEF Spec

Places == Queue /\ Placed /\ NoLoss /\ Apart

\* A step that moves no work value.
LEMMA Still ==
  ASSUME Places, UNCHANGED <<emitted, in, out, worker, printed>>
  PROVE  Places'
<1>1. Taken' = Taken /\ \A i : Opens(i)' <=> Opens(i)
  BY DEF Taken, Opens
<1>2. wpc' = wpc /\ job' = job /\ \A w : Holding(w)' <=> Holding(w)
  BY DEF worker, Holding
<1>3. Queue'
  BY <1>1 DEF Places, Queue
<1>4. Placed'
  BY <1>1, <1>2 DEF Places, Placed
<1>5. NoLoss'
  BY <1>1, <1>2 DEF Places, NoLoss
<1>6. Apart'
  BY <1>2 DEF Places, Apart, PrintedOnce
<1> QED
  BY <1>3, <1>4, <1>5, <1>6 DEF Places

\* The feeder sends one more work value.
LEMMA Emit ==
  ASSUME TypeOK, Places, NEW name \in FileName, SendWork(name),
         UNCHANGED <<out, worker, printed>>
  PROVE  Places'
<1>1. /\ emitted' = Append(emitted, name) /\ in' = Append(in, Len(emitted) + 1)
      /\ emitted \in Seq(FileName) /\ in \in Seq(Nat)
  BY DEF SendWork, TypeOK
<1>2. /\ Len(emitted') = Len(emitted) + 1 /\ Len(in') = Len(in) + 1
      /\ Len(in) \in Nat /\ Len(emitted) \in Nat
      /\ \A i \in 1..Len(emitted) : emitted'[i] = emitted[i]
      /\ \A i \in 1..Len(in) : in'[i] = in[i]
      /\ in'[Len(in) + 1] = Len(emitted) + 1
  BY <1>1
<1>3. Taken' = Taken /\ Taken \in Int /\ Taken <= Len(emitted)
  BY <1>2 DEF Taken
<1>4. Queue'
  <2>1. \A i \in 1..Len(in) : in'[i] = Taken' + i
    BY <1>2, <1>3 DEF Places, Queue
  <2>2. in'[Len(in) + 1] = Taken' + (Len(in) + 1)
    BY <1>2, <1>3 DEF Taken
  <2>3. Len(in') <= Len(emitted')
    BY <1>2 DEF Places, Queue
  <2> QED
    BY <1>2, <2>1, <2>2, <2>3 DEF Queue
<1>5. Placed' /\ Apart'
  BY <1>3 DEF Places, Placed, Apart, PrintedOnce, Holding, worker
<1>6. NoLoss'
  <2>1. \A i \in 1..Taken : Opens(i)' => Opens(i)
    BY <1>2, <1>3 DEF Opens
  <2> QED
    BY <1>3, <2>1 DEF Places, NoLoss, Holding, worker
<1> QED
  BY <1>4, <1>5, <1>6 DEF Places

\* A worker takes a work value: it leaves in for one pair of hands or, when
\* its file does not open, for good.
LEMMA TakeStep ==
  ASSUME TypeOK, Places, NEW w \in Worker, Take(w)
  PROVE  Places'
<1> DEFINE id == Head(in)
<1>1. /\ in \in Seq(Nat) /\ in # <<>> /\ in' = Tail(in) /\ id = in[1]
      /\ UNCHANGED <<emitted, out, printed>> /\ ~Holding(w) /\ Len(emitted) \in Nat
  BY DEF Take, TypeOK, feeder, Holding
<1>2. /\ Len(in) \in Nat \ {0} /\ Len(in') = Len(in) - 1
      /\ \A i \in 1..(Len(in) - 1) : in'[i] = in[i + 1]
  BY <1>1, HeadTailProperties, EmptySeq
<1>3. Taken' = Taken + 1 /\ Taken \in Nat /\ id = Taken + 1
  BY <1>1, <1>2 DEF Taken, Places, Queue
<1>4. Queue'
  BY <1>1, <1>2, <1>3 DEF Places, Queue, Taken
<1>5. \A i : Opens(i)' = Opens(i)
  BY <1>1 DEF Opens
<1>6. CASE UNCHANGED worker /\ ~Opens(id)
  <2>1. job' = job /\ \A v \in Worker : Holding(v)' <=> Holding(v)
    BY <1>6 DEF worker, Holding
  <2>2. Placed'
    <3>1. 1..Taken \subseteq 1..Taken'
      BY <1>3
    <3> QED
      BY <1>1, <2>1, <3>1 DEF Places, Placed
  <2>3. Apart'
    BY <1>1, <2>1 DEF Places, Apart, PrintedOnce
  <2>4. NoLoss'
    <3>1. \A i \in 1..Taken' : Opens(i)' => i \in 1..Taken /\ Opens(i)
      BY <1>3, <1>5, <1>6
    <3> QED
      BY <1>1, <2>1, <3>1 DEF Places, NoLoss
  <2> QED
    BY <1>4, <2>2, <2>3, <2>4 DEF Places
<1>7. CASE /\ Opens(id) /\ job' = [job EXCEPT ![w] = id]
           /\ \E pc \in {"copy", "send"} : wpc' = [wpc EXCEPT ![w] = pc]
  <2>1. /\ wpc'[w] \in {"copy", "send"} /\ job'[w] = id
        /\ \A v \in Worker : v # w => wpc'[v] = wpc[v] /\ job'[v] = job[v]
    BY <1>7 DEF TypeOK
  <2>2. \A v \in Worker : v # w => (Holding(v)' <=> Holding(v)) /\ job'[v] = job[v]
    BY <2>1 DEF Holding
  <2>3. /\ \A v \in Worker : Holding(v) => job[v] \in 1..Taken
        /\ \A k \in 1..Len(out) : out[k].id \in 1..Taken
        /\ \A k \in 1..Len(printed) : printed[k].id \in 1..Taken
    BY DEF Places, Placed
  <2>4. Placed'
    <3>1. 1..Taken \subseteq 1..Taken' /\ id \in 1..Taken'
      BY <1>3
    <3> HIDE DEF id
    <3> QED
      BY <1>1, <2>1, <2>2, <2>3, <3>1 DEF Placed
  <2>5. Apart'
    <3>1. id \notin 1..Taken
      BY <1>3
    <3> HIDE DEF id
    <3>2. \A u, v \in Worker : Holding(u)' /\ Holding(v)' /\ job'[u] = job'[v] => u = v
      BY <2>1, <2>2, <2>3, <3>1 DEF Places, Apart
    <3>3. /\ \A v \in Worker, k \in 1..Len(out) : Holding(v)' => job'[v] # out[k].id
          /\ \A v \in Worker, k \in 1..Len(printed) : Holding(v)' => job'[v] # printed[k].id
      BY <2>1, <2>2, <2>3, <3>1 DEF Places, Apart
    <3> QED
      BY <1>1, <3>2, <3>3 DEF Places, Apart, PrintedOnce
  <2>6. NoLoss'
    <3> SUFFICES ASSUME NEW i \in 1..Taken', Opens(i)'
                 PROVE  \/ \E v \in Worker : Holding(v)' /\ job'[v] = i
                        \/ \E k \in 1..Len(out) : out[k].id = i
                        \/ \E k \in 1..Len(printed) : printed[k].id = i
      BY <1>1 DEF NoLoss
    <3>1. CASE i = id
      BY <2>1, <3>1 DEF Holding
    <3>2. CASE i # id
      <4>1. i \in 1..Taken /\ Opens(i)
        BY <1>3, <1>5, <3>2
      <4>2. CASE \E v \in Worker : Holding(v) /\ job[v] = i
        BY <1>1, <2>1, <4>2 DEF Holding
      <4> QED
        BY <4>1, <4>2 DEF Places, NoLoss
    <3> QED
      BY <3>1, <3>2
  <2> QED
    BY <1>4, <2>4, <2>5, <2>6 DEF Places
<1> QED
  BY <1>6, <1>7 DEF Take, Opened, Unopened, Opens

\* A worker's result goes from its hands to out.
LEMMA SendResultStep ==
  ASSUME TypeOK, Places, NEW w \in Worker, SendResult(w)
  PROVE  Places'
<1> DEFINE m == Len(out)
<1>1. /\ wpc[w] = "send" /\ wpc'[w] = "recv"
      /\ \A v \in Worker : v # w => wpc'[v] = wpc[v]
      /\ UNCHANGED <<emitted, in, printed, job>>
  BY DEF SendResult, TypeOK, feeder
<1>2. /\ m \in Nat /\ Len(out') = m + 1 /\ out'[m + 1].id = job[w]
      /\ \A k \in 1..m : out'[k].id = out[k].id
  <2> DEFINE r == [id |-> job[w], data |-> data[w]]
  <2>1. r \in Result /\ r.id = job[w]
    BY DEF TypeOK, Result
  <2>2. out' = Append(out, r) /\ out \in Seq(Result)
    BY DEF SendResult, Sent, TypeOK
  <2> HIDE DEF r
  <2>3. /\ m \in Nat /\ Len(out') = m + 1 /\ out'[m + 1] = r
        /\ \A k \in 1..m : out'[k] = out[k]
    BY <2>1, <2>2
  <2> QED
    BY <2>1, <2>3
<1>3. Queue'
  BY <1>1 DEF Places, Queue, Taken
<1>4. Placed'
  <2>1. Taken' = Taken
    BY <1>1 DEF Taken
  <2>2. \A k \in 1..Len(out') : out'[k].id \in 1..Taken
    BY <1>1, <1>2 DEF Places, Placed, Holding
  <2> QED
    BY <1>1, <2>1, <2>2 DEF Places, Placed, Holding
<1>5. Apart'
  <2>1. \A u, v \in Worker : Holding(u)' /\ Holding(v)' /\ job'[u] = job'[v] => u = v
    BY <1>1 DEF Places, Apart, Holding
  <2>2. \A j, k \in 1..Len(out') : out'[j].id = out'[k].id => j = k
    BY <1>1, <1>2 DEF Places, Apart, Holding
  <2>3. \A v \in Worker, k \in 1..Len(out') : Holding(v)' => job'[v] # out'[k].id
    BY <1>1, <1>2 DEF Places, Apart, Holding
  <2>4. \A v \in Worker, k \in 1..Len(printed) : Holding(v)' => job'[v] # printed[k].id
    BY <1>1 DEF Places, Apart, Holding
  <2>5. \A j \in 1..Len(out'), k \in 1..Len(printed) : out'[j].id # printed[k].id
    BY <1>1, <1>2 DEF Places, Apart, Holding
  <2> QED
    BY <1>1, <2>1, <2>2, <2>3, <2>4, <2>5 DEF Places, Apart, PrintedOnce
<1>6. NoLoss'
  <2> SUFFICES ASSUME NEW i \in 1..Taken, Opens(i)
               PROVE  \/ \E v \in Worker : Holding(v)' /\ job[v] = i
                      \/ \E k \in 1..Len(out') : out'[k].id = i
                      \/ \E k \in 1..Len(printed) : printed[k].id = i
    BY <1>1 DEF NoLoss, Taken, Opens
  <2>1. CASE i = job[w]
    BY <1>2, <2>1
  <2>2. CASE \E v \in Worker : v # w /\ Holding(v) /\ job[v] = i
    BY <1>1, <2>2 DEF Holding
  <2>3. CASE \E k \in 1..m : out[k].id = i
    BY <1>2, <2>3
  <2> QED
    BY <2>1, <2>2, <2>3 DEF Places, NoLoss
<1> QED
  BY <1>3, <1>4, <1>5, <1>6 DEF Places

\* main prints the first result of out.
LEMMA RecvOutStep ==
  ASSUME TypeOK, Places, RecvOut
  PROVE  Places'
<1> DEFINE p == Len(printed)
<1>1. UNCHANGED <<emitted, in, wpc, job>>
  BY DEF RecvOut, feeder, worker
<1>2. /\ Len(out) \in Nat \ {0} /\ Len(out') = Len(out) - 1
      /\ \A k \in 1..(Len(out) - 1) : out'[k] = out[k + 1]
      /\ Head(out) = out[1]
  BY HeadTailProperties, EmptySeq DEF RecvOut, TypeOK
<1>3. /\ p \in Nat /\ Len(printed') = p + 1 /\ printed'[p + 1] = out[1]
      /\ \A k \in 1..p : printed'[k] = printed[k]
  <2>1. out[1] \in Result /\ printed \in Seq(Result)
    BY <1>2, ElementOfSeq DEF TypeOK
  <2>2. printed' = Append(printed, out[1])
    BY <1>2 DEF RecvOut
  <2> QED
    BY <2>1, <2>2
<1>4. Queue'
  BY <1>1 DEF Places, Queue, Taken
<1>5. Placed'
  <2>1. Taken' = Taken
    BY <1>1 DEF Taken
  <2>2. \A k \in 1..Len(out') : out'[k].id \in 1..Taken
    BY <1>2 DEF Places, Placed
  <2>3. \A k \in 1..Len(printed') : printed'[k].id \in 1..Taken
    <3>1. out[1].id \in 1..Taken /\ \A k \in 1..p : printed[k].id \in 1..Taken
      BY <1>2 DEF Places, Placed
    <3> QED
      BY <1>3, <3>1
  <2> QED
    BY <1>1, <2>1, <2>2, <2>3 DEF Places, Placed, Holding
<1>6. Apart'
  <2>1. \A v \in Worker, k \in 1..Len(out') : Holding(v)' => job'[v] # out'[k].id
    BY <1>1, <1>2 DEF Places, Apart, Holding
  <2>2. \A v \in Worker, k \in 1..Len(printed') : Holding(v)' => job'[v] # printed'[k].id
    BY <1>1, <1>2, <1>3 DEF Places, Apart, Holding
  <2>3. \A j, k \in 1..Len(out') : out'[j].id = out'[k].id => j = k
    BY <1>2 DEF Places, Apart
  <2>4. \A j, k \in 1..Len(printed') : printed'[j].id = printed'[k].id => j = k
    <3>1. \A j \in 1..p : printed'[j].id # printed'[p + 1].id
      BY <1>2, <1>3 DEF Places, Apart
    <3>2. \A j, k \in 1..p : printed'[j].id = printed'[k].id => j = k
      BY <1>3 DEF Places, Apart, PrintedOnce
    <3> QED
      BY <1>3, <3>1, <3>2
  <2>5. \A j \in 1..Len(out'), k \in 1..Len(printed') : out'[j].id # printed'[k].id
    <3> SUFFICES ASSUME NEW j \in 1..Len(out') PROVE \A k \in 1..Len(printed') : out'[j].id # printed'[k].id
      OBVIOUS
    <3>1. j + 1 \in 1..Len(out) /\ j + 1 # 1 /\ 1 \in 1..Len(out) /\ out'[j] = out[j + 1]
      BY <1>2
    <3>2. out[j + 1].id # out[1].id /\ \A k \in 1..p : out[j + 1].id # printed[k].id
      BY <3>1 DEF Places, Apart
    <3> QED
      BY <1>3, <3>1, <3>2
  <2> QED
    BY <1>1, <2>1, <2>2, <2>3, <2>4, <2>5 DEF Places, Apart, PrintedOnce, Holding
<1>7. NoLoss'
  <2> SUFFICES ASSUME NEW i \in 1..Taken, Opens(i)
               PROVE  \/ \E v \in Worker : Holding(v) /\ job[v] = i
                      \/ \E k \in 1..Len(out') : out'[k].id = i
                      \/ \E k \in 1..Len(printed') : printed'[k].id = i
    BY <1>1 DEF NoLoss, Taken, Opens, Holding
  <2>1. ASSUME NEW k \in 1..Len(out), out[k].id = i
        PROVE  \/ \E j \in 1..Len(out') : out'[j].id = i
               \/ \E j \in 1..Len(printed') : printed'[j].id = i
    <3>1. CASE k = 1
      BY <1>3, <2>1, <3>1
    <3>2. CASE k # 1
      <4>1. k - 1 \in 1..Len(out') /\ out'[k - 1].id = i
        BY <1>2, <2>1, <3>2
      <4> QED
        BY <4>1
    <3> QED
      BY <3>1, <3>2
  <2>2. CASE \E k \in 1..p : printed[k].id = i
    BY <1>3, <2>2
  <2> QED
    BY <2>1, <2>2 DEF Places, NoLoss
<1> QED
  BY <1>4, <1>5, <1>6, <1>7 DEF Places

\* Counting and Closing: who has stopped, and when.
LEMMA StopStep ==
  ASSUME TypeOK, Counting, Closing, [Next]_vars
  PROVE  Counting' /\ Closing'
<1>1. IsFiniteSet(Worker) /\ IsFiniteSet(Live)
  BY HashAssumption, FS_Subset DEF Live
<1>2. ASSUME UNCHANGED <<wpc, n>> PROVE Counting'
  BY <1>2 DEF Counting, Live
<1>3. ASSUME NEW w \in Worker, wpc[w] # "stop", n' = n, NEW pc, pc # "stop",
             wpc' = [wpc EXCEPT ![w] = pc]
      PROVE  Counting'
  <2>1. Live' = Live
    BY <1>3 DEF Live, TypeOK
  <2> QED
    BY <1>3, <2>1 DEF Counting
<1>4. ASSUME NEW w \in Worker, wpc[w] = "done", n' = n - 1,
             wpc' = [wpc EXCEPT ![w] = "stop"]
      PROVE  Counting'
  <2>1. Live' = Live \ {w} /\ w \in Live
    BY <1>4 DEF Live, TypeOK
  <2>2. Cardinality(Live') = Cardinality(Live) - 1
    BY <1>1, <2>1, FS_RemoveElement
  <2> QED
    BY <1>4, <2>2 DEF Counting
<1>5. ASSUME UNCHANGED <<inClosed, fpc, in, wpc, mpc, out>> PROVE Closing'
  BY <1>5 DEF Closing, Live
<1>6. CASE FeedDefault
  BY <1>2, <1>6 DEF FeedDefault, SendWork, worker, Closing, Live, Running
<1>7. CASE FeedArg
  BY <1>2, <1>7 DEF FeedArg, SendWork, worker, Closing, Live, Running
<1>8. CASE FeedDash
  BY <1>2, <1>8 DEF FeedDash, worker, Closing, Live
<1>9. CASE ScanRead
  BY <1>2, <1>5, <1>9 DEF ScanRead, worker
<1>10. CASE FeedLine
  BY <1>2, <1>10 DEF FeedLine, SendWork, worker, Closing, Live, Running
<1>11. CASE ScanEnd
  BY <1>2, <1>11 DEF ScanEnd, worker, Closing, Live
<1>12. CASE CloseIn
  BY <1>2, <1>12 DEF CloseIn, worker, Closing, Live
<1>13. ASSUME NEW w \in Worker, Take(w) PROVE Counting' /\ Closing'
  <2>1. CASE UNCHANGED worker
    BY <1>2, <1>13, <2>1 DEF Take, Unopened, worker, feeder, Closing, Live, Running
  <2>2. CASE \E pc \in {"copy", "send"} : wpc' = [wpc EXCEPT ![w] = pc]
    <3>1. PICK pc \in {"copy", "send"} : wpc' = [wpc EXCEPT ![w] = pc]
      BY <2>2
    <3>2. Counting'
      BY <1>3, <1>13, <3>1 DEF Take, Opened, Unopened
    <3>3. Closing'
      BY <1>13, <3>1 DEF Take, feeder, Closing, Live, Running, TypeOK
    <3> QED
      BY <3>2, <3>3
  <2> QED
    BY <1>13, <2>1, <2>2 DEF Take, Opened, Unopened
<1>14. ASSUME NEW w \in Worker, CopyStdin(w) PROVE Counting' /\ Closing'
  <2>1. wpc' = wpc
    BY <1>14 DEF CopyStdin, TypeOK
  <2> QED
    BY <1>2, <1>5, <1>14, <2>1 DEF CopyStdin, feeder
<1>15. ASSUME NEW w \in Worker, CopyEnd(w) PROVE Counting' /\ Closing'
  <2>1. Counting'
    BY <1>3, <1>15 DEF CopyEnd
  <2> QED
    BY <1>15, <2>1 DEF CopyEnd, feeder, Closing, Live, TypeOK, Running
<1>16. ASSUME NEW w \in Worker, SendResult(w) PROVE Counting' /\ Closing'
  <2>1. Counting'
    BY <1>3, <1>16 DEF SendResult
  <2> QED
    BY <1>16, <2>1 DEF SendResult, feeder, Closing, Live, TypeOK, Running
<1>17. ASSUME NEW w \in Worker, Quit(w) PROVE Counting' /\ Closing'
  <2>1. Counting'
    BY <1>3, <1>17 DEF Quit
  <2> QED
    BY <1>17, <2>1 DEF Quit, Drained, feeder, Closing, Live, TypeOK, Running
<1>18. ASSUME NEW w \in Worker, RecvDone(w) PROVE Counting' /\ Closing'
  <2>1. Counting'
    BY <1>4, <1>18 DEF RecvDone
  <2>2. n' = 0 => Live' = {}
    <3>1. IsFiniteSet(Live')
      BY <1>1, FS_Subset, HashAssumption DEF Live
    <3> QED
      BY <2>1, <3>1, FS_EmptySet DEF Counting
  <2> QED
    BY <1>18, <2>1, <2>2 DEF RecvDone, Leave, feeder, Closing, Live, TypeOK
<1>19. CASE RecvOut
  <2>1. Counting'
    BY <1>2, <1>19 DEF RecvOut, worker
  <2>2. n' = 0 => Live' = {}
    <3>1. Live' = Live
      BY <1>19 DEF RecvOut, worker, Live
    <3> QED
      BY <1>1, <2>1, <3>1, FS_EmptySet DEF Counting
  <2> QED
    BY <1>19, <2>1, <2>2 DEF RecvOut, Leave, feeder, worker, Closing, Live
<1>20. CASE UNCHANGED vars
  BY <1>2, <1>5, <1>20 DEF vars, feeder, worker
<1> QED
  BY <1>6, <1>7, <1>8, <1>9, <1>10, <1>11, <1>12, <1>13, <1>14, <1>15, <1>16,
     <1>17, <1>18, <1>19, <1>20 DEF Next, Feeder, WorkerStep

\* Every step keeps each work value in one place.
LEMMA PlacesStep ==
  ASSUME TypeOK, Places, [Next]_vars
  PROVE  Places'
<1>1. CASE FeedDefault
  BY <1>1, Emit DEF FeedDefault, FileName
<1>2. CASE FeedArg
  <2>1. file[fpos] \in FileName
    BY <1>2, ElementOfSeq DEF FeedArg, TypeOK, FileName
  <2> QED
    BY <1>2, <2>1, Emit DEF FeedArg
<1>3. CASE FeedLine
  <2>1. Head(lines) \in FileName
    BY <1>3, HeadTailProperties DEF FeedLine, TypeOK
  <2> QED
    BY <1>3, <2>1, Emit DEF FeedLine
<1>4. CASE FeedDash \/ ScanRead \/ ScanEnd \/ CloseIn
  BY <1>4, Still DEF FeedDash, ScanRead, ScanEnd, CloseIn
<1>5. ASSUME NEW w \in Worker, Take(w) PROVE Places'
  BY <1>5, TakeStep
<1>6. ASSUME NEW w \in Worker, SendResult(w) PROVE Places'
  BY <1>6, SendResultStep
<1>7. CASE RecvOut
  BY <1>7, RecvOutStep
<1>8. ASSUME UNCHANGED <<emitted, in, out, job, printed>>,
             \A w \in Worker : Holding(w)' <=> Holding(w)
      PROVE  Places'
  <2>1. Taken' = Taken /\ \A i : Opens(i)' <=> Opens(i)
    BY <1>8 DEF Taken, Opens
  <2>2. Queue'
    BY <1>8, <2>1 DEF Places, Queue
  <2>3. Placed'
    BY <1>8, <2>1 DEF Places, Placed
  <2>4. NoLoss'
    BY <1>8, <2>1 DEF Places, NoLoss
  <2>5. Apart'
    BY <1>8 DEF Places, Apart, PrintedOnce
  <2> QED
    BY <2>2, <2>3, <2>4, <2>5 DEF Places
<1>9. ASSUME NEW w \in Worker,
             CopyStdin(w) \/ CopyEnd(w) \/ Quit(w) \/ RecvDone(w)
      PROVE  Places'
  <2>1. \A v \in Worker : Holding(v)' <=> Holding(v)
    BY <1>9 DEF CopyStdin, CopyEnd, Quit, RecvDone, Holding, TypeOK
  <2> QED
    BY <1>8, <1>9, <2>1 DEF CopyStdin, CopyEnd, Quit, RecvDone, feeder
<1>10. CASE UNCHANGED vars
  BY <1>10, Still DEF vars, feeder
<1> QED
  BY <1>1, <1>2, <1>3, <1>4, <1>5, <1>6, <1>7, <1>9, <1>10
     DEF Next, Feeder, WorkerStep

\* The parts of the invariant hold initially.
LEMMA InitPlaces == Init => TypeOK /\ Counting /\ Closing /\ Places
<1> SUFFICES ASSUME Init PROVE TypeOK /\ Counting /\ Closing /\ Places
  OBVIOUS
<1>1. TypeOK
  BY InitTyped
<1>2. Counting
  <2>1. Live = Worker
    BY DEF Init, Live
  <2> QED
    BY <2>1 DEF Init, Counting, Cap
<1>3. Closing
  BY DEF Init, Closing, Live
<1>4. Len(in) = 0 /\ Len(emitted) = 0 /\ Len(out) = 0 /\ Len(printed) = 0 /\ Taken = 0
  BY EmptySeq DEF Init, Taken
<1>5. Places
  BY <1>4 DEF Init, Places, Queue, Placed, NoLoss, Apart, PrintedOnce, Holding
<1> QED
  BY <1>1, <1>2, <1>3, <1>5

\* The parts of the invariant hold in every state of every behaviour.
LEMMA Inductive == Spec => [](TypeOK /\ Counting /\ Closing /\ Places)
<1>1. TypeOK /\ Counting /\ Closing /\ Places /\ [Next]_vars
      => (TypeOK /\ Counting /\ Closing /\ Places)'
  BY TypeStep, StopStep, PlacesStep
<1> QED
  BY InitPlaces, <1>1, PTL DEF Spec

\* No work value is printed twice.
THEOREM AtMostOnce == Spec => []PrintedOnce
<1>1. Places => PrintedOnce
  BY DEF Places, Apart
<1> QED
  BY Inductive, <1>1, PTL

\* main returns only when the feeder and every worker are through.
THEOREM Quiescent == Spec => []ExitQuiescent
<1>1. Closing => ExitQuiescent
  BY DEF Closing, ExitQuiescent, Live
<1> QED
  BY Inductive, <1>1, PTL

\* When main returns every work value whose file opens has been printed.
THEOREM Complete == Spec => []ExitComplete
<1>1. TypeOK /\ Closing /\ Places => ExitComplete
  <2> SUFFICES ASSUME TypeOK, Closing, Places, mpc = "exit",
                      NEW i \in 1..Len(emitted), Opens(i)
               PROVE  i \in Hashed
    BY DEF ExitComplete
  <2>1. /\ \A w \in Worker : wpc[w] = "stop"
        /\ out = <<>> /\ in = <<>>
    BY DEF Closing, Live
  <2>2. Taken = Len(emitted) /\ Len(out) = 0
    BY <2>1 DEF Taken, TypeOK
  <2>3. \E k \in 1..Len(printed) : printed[k].id = i
    BY <2>1, <2>2 DEF Places, NoLoss, Holding
  <2> QED
    BY <2>3 DEF Hashed
<1> QED
  BY Inductive, <1>1, PTL

----------------------------------------------------------------------------
(* The names listed. *)

\* What is listed never changes.
LEMMA Fixed == [Next]_vars => UNCHANGED <<file, given>>
  BY DEF Next, Feeder, WorkerStep, FeedDefault, FeedArg, FeedDash, ScanRead, FeedLine, ScanEnd,
         CloseIn, Take, CopyStdin, CopyEnd, SendResult, Quit, RecvDone, RecvOut, vars

\* The operands that are not "-" are counted one by one.
LEMMA CountBefore ==
  ASSUME TypeOK, NEW p \in 1..Len(file)
  PROVE  /\ Cardinality(Before(p)) \in Nat
         /\ Cardinality(Before(p + 1)) = Cardinality(Before(p)) + (IF file[p] # Dash THEN 1 ELSE 0)
         /\ Scanned(p + 1) <=> Scanned(p) \/ file[p] = Dash
         /\ Ordinal(p) \in Nat
<1>0. Len(file) \in Nat /\ p \in Nat /\ 1 <= p /\ Len(given) \in Nat
  BY DEF TypeOK
<1>1. IsFiniteSet(Before(p)) /\ p \notin Before(p)
  <2>1. IsFiniteSet(1..(p - 1))
    BY <1>0, FS_Interval
  <2>2. Before(p) \subseteq 1..(p - 1) /\ p \notin 1..(p - 1)
    BY <1>0 DEF Before
  <2> QED
    BY <2>1, <2>2, FS_Subset
<1>2. Cardinality(Before(p)) \in Nat
  BY <1>1, FS_CardinalityType
<1>3. Before(p + 1) = IF file[p] # Dash THEN Before(p) \cup {p} ELSE Before(p)
  BY <1>0 DEF Before
<1>4. Cardinality(Before(p) \cup {p}) = Cardinality(Before(p)) + 1
  BY <1>1, FS_AddElement
<1>5. Scanned(p + 1) <=> Scanned(p) \/ file[p] = Dash
  BY <1>0 DEF Scanned
<1> QED
  BY <1>0, <1>2, <1>3, <1>4, <1>5 DEF Ordinal

\* A later operand counts every operand that an earlier place counts, and the
\* operand at that place.
LEMMA BeforeMonotone ==
  ASSUME TypeOK, NEW p \in 1..Len(file), NEW q \in 1..Len(file), p < q
  PROVE  /\ Cardinality(Before(p)) <= Cardinality(Before(q))
         /\ file[p] # Dash => Cardinality(Before(p)) < Cardinality(Before(q))
<1>0. Len(file) \in Nat /\ p \in Nat /\ q \in Nat /\ 1 <= p
  BY DEF TypeOK
<1>1. IsFiniteSet(Before(q))
  <2>1. IsFiniteSet(1..(q - 1))
    BY <1>0, FS_Interval
  <2> QED
    BY <2>1, FS_Subset DEF Before
<1>2. Before(p) \subseteq Before(q) /\ (file[p] # Dash => Before(p + 1) \subseteq Before(q))
  BY <1>0 DEF Before
<1>3. /\ Cardinality(Before(p)) <= Cardinality(Before(q))
      /\ file[p] # Dash => Cardinality(Before(p + 1)) <= Cardinality(Before(q))
  BY <1>1, <1>2, FS_Subset
<1>4. Cardinality(Before(p)) \in Nat /\ Cardinality(Before(q)) \in Nat
  BY CountBefore
<1> QED
  BY <1>3, <1>4, CountBefore

\* An entry of the list.
Operand(e, p) == file[p] # Dash /\ e = <<Ordinal(p), file[p]>>
InputLine(e, p, l) == file[p] = Dash /\ ~Scanned(p) /\ e = <<Ordinal(p) - 1 + l, given[l]>>

\* What the list consists of.
LEMMA Entries ==
  ASSUME NEW e
  PROVE  e \in Listed <=>
           IF file = <<>> THEN e = <<1, Blank>>
           ELSE \/ \E p \in 1..Len(file) : Operand(e, p)
                \/ \E p \in 1..Len(file), l \in 1..Len(given) : InputLine(e, p, l)
  BY DEF Listed, Operand, InputLine

\* No ordinal is listed with two names.
LEMMA OneName ==
  ASSUME TypeOK, NEW d \in Listed, NEW e \in Listed, d[1] = e[1]
  PROVE  d[2] = e[2]
<1>1. CASE file = <<>>
  BY <1>1, Entries
<1>2. CASE file # <<>>
  <2> DEFINE Ord(p) == Cardinality(Before(p)) + (IF Scanned(p) THEN Len(given) ELSE 0)
  <2>1. /\ Len(file) \in Nat /\ Len(given) \in Nat
        /\ \A p \in 1..Len(file) : Cardinality(Before(p)) \in Nat /\ Ordinal(p) = 1 + Ord(p)
    <3>1. Len(file) \in Nat /\ Len(given) \in Nat
      BY DEF TypeOK
    <3>2. \A p \in 1..Len(file) : Cardinality(Before(p)) \in Nat
      BY CountBefore
    <3> QED
      BY <3>1, <3>2 DEF Ordinal
  <2>2. \A p, q \in 1..Len(file) : p < q =>
           /\ Cardinality(Before(p)) <= Cardinality(Before(q))
           /\ file[p] # Dash => Cardinality(Before(p)) < Cardinality(Before(q))
           /\ Scanned(p) \/ file[p] = Dash => Scanned(q)
    <3>1. \A p, q \in 1..Len(file) : p < q /\ (Scanned(p) \/ file[p] = Dash) => Scanned(q)
      BY <2>1 DEF Scanned
    <3> QED
      BY <3>1, BeforeMonotone
  <2>3. ASSUME NEW p \in 1..Len(file), NEW q \in 1..Len(file), Operand(d, p), Operand(e, q)
        PROVE  p = q
    <3>1. Ordinal(p) = Ordinal(q) /\ file[p] # Dash /\ file[q] # Dash
      BY <2>3 DEF Operand
    <3> QED
      BY <2>1, <2>2, <3>1
  <2>4. ASSUME NEW p \in 1..Len(file), NEW k \in 1..Len(given), InputLine(d, p, k),
               NEW q \in 1..Len(file), NEW l \in 1..Len(given), InputLine(e, q, l)
        PROVE  p = q /\ k = l
    <3>1. p = q
      BY <2>1, <2>2, <2>4, SMTT(60) DEF InputLine
    <3>2. Ordinal(p) - 1 + k = Ordinal(p) - 1 + l
      BY <2>4, <3>1 DEF InputLine
    <3> QED
      BY <2>1, <3>1, <3>2
  <2>5. ASSUME NEW c, NEW f, c[1] = f[1], NEW p \in 1..Len(file), Operand(c, p),
               NEW q \in 1..Len(file), NEW l \in 1..Len(given), InputLine(f, q, l)
        PROVE  FALSE
    <3>0. file[p] # Dash /\ file[q] = Dash /\ ~Scanned(q) /\ Ordinal(p) = Ordinal(q) - 1 + l
      <4>1. c[1] = Ordinal(p) /\ file[p] # Dash
        BY <2>5 DEF Operand
      <4>2. f[1] = Ordinal(q) - 1 + l /\ file[q] = Dash /\ ~Scanned(q)
        BY <2>5 DEF InputLine
      <4> QED
        BY <2>5, <4>1, <4>2
    <3>1. Ord(q) = Cardinality(Before(q))
      BY <2>1, <3>0
    <3>2. CASE p < q
      BY <2>1, <2>2, <3>0, <3>2
    <3>3. CASE q < p
      BY <2>1, <2>2, <3>0, <3>3
    <3> QED
      BY <2>1, <3>0, <3>2, <3>3
  <2> QED
    BY <1>2, <2>3, <2>4, <2>5, Entries DEF Operand, InputLine
<1> QED
  BY <1>1, <1>2

\* The l-th of g numbers from a on is below b, if all of them are.
LEMMA OneOfMany ==
  ASSUME NEW a \in Nat \ {0}, NEW g \in Nat, NEW b \in Nat, NEW l \in 1..g, a + g <= b
  PROVE  a - 1 + l \in 1..(b - 1)
OBVIOUS

\* At the end of file every ordinal listed lies before the feeder's place.
LEMMA AllListed ==
  ASSUME TypeOK, Listing, Plain, fpc = "stop", NEW e \in Listed
  PROVE  e \in {<<i, emitted[i]>> : i \in 1..Len(emitted)}
<1>1. e[1] \in 1..Len(emitted)
  <2>1. CASE file = <<>>
    BY <2>1, Entries DEF Listing
  <2>2. CASE file # <<>>
    <3>1. /\ Len(file) \in Nat /\ Len(given) \in Nat /\ fpos = Len(file) + 1
          /\ Len(emitted) = Ordinal(Len(file) + 1) - 1
      BY <2>2 DEF TypeOK, Listing
    <3>2. \A p \in 1..Len(file) : 
             /\ Cardinality(Before(p)) + (IF file[p] # Dash THEN 1 ELSE 0) <= Cardinality(Before(Len(file) + 1))
             /\ Cardinality(Before(p)) \in Nat
             /\ Scanned(p) \/ file[p] = Dash => Scanned(Len(file) + 1)
      <4> SUFFICES ASSUME NEW p \in 1..Len(file)
                   PROVE  /\ Cardinality(Before(p)) + (IF file[p] # Dash THEN 1 ELSE 0)
                                <= Cardinality(Before(Len(file) + 1))
                          /\ Cardinality(Before(p)) \in Nat
                          /\ Scanned(p) \/ file[p] = Dash => Scanned(Len(file) + 1)
        OBVIOUS
      <4>1. Before(p + 1) \subseteq Before(Len(file) + 1)
        BY <3>1 DEF Before
      <4>2. IsFiniteSet(Before(Len(file) + 1))
        <5>1. IsFiniteSet(1..Len(file)) /\ Before(Len(file) + 1) \subseteq 1..Len(file)
          BY <3>1, FS_Interval DEF Before
        <5> QED
          BY <5>1, FS_Subset
      <4>3. Cardinality(Before(p + 1)) <= Cardinality(Before(Len(file) + 1))
        BY <4>1, <4>2, FS_Subset
      <4>4. Scanned(p) \/ file[p] = Dash => Scanned(Len(file) + 1)
        BY <3>1 DEF Scanned
      <4> QED
        BY <4>3, <4>4, CountBefore
    <3>3. Cardinality(Before(Len(file) + 1)) \in Nat
      BY <2>2, <3>1, CountBefore, EmptySeq
    <3>4. Ordinal(Len(file) + 1) \in Nat
      BY <3>1, <3>3 DEF Ordinal
    <3>5. ASSUME NEW p \in 1..Len(file), Operand(e, p)
          PROVE  e[1] \in 1..Len(emitted)
      <4>1. e[1] = Ordinal(p) /\ file[p] # Dash
        BY <3>5 DEF Operand
      <4>2. /\ Cardinality(Before(p)) \in Nat
            /\ Cardinality(Before(p)) + 1 <= Cardinality(Before(Len(file) + 1))
            /\ Scanned(p) => Scanned(Len(file) + 1)
        BY <3>2, <4>1
      <4>3. Ordinal(p) \in Nat \ {0} /\ Ordinal(p) + 1 <= Ordinal(Len(file) + 1)
        BY <3>1, <3>3, <4>2 DEF Ordinal
      <4> QED
        BY <3>1, <3>4, <4>1, <4>3
    <3>6. ASSUME NEW p \in 1..Len(file), NEW l \in 1..Len(given), InputLine(e, p, l)
          PROVE  e[1] \in 1..Len(emitted)
      <4>1. e[1] = Ordinal(p) - 1 + l /\ file[p] = Dash /\ ~Scanned(p)
        BY <3>6 DEF InputLine
      <4>2. /\ Cardinality(Before(p)) \in Nat
            /\ Cardinality(Before(p)) <= Cardinality(Before(Len(file) + 1))
            /\ Scanned(Len(file) + 1)
        BY <3>2, <4>1
      <4>3. Ordinal(p) \in Nat \ {0} /\ Ordinal(p) + Len(given) <= Ordinal(Len(file) + 1)
        BY <3>1, <3>3, <4>1, <4>2 DEF Ordinal
      <4>4. Ordinal(p) - 1 + l \in 1..(Ordinal(Len(file) + 1) - 1)
        BY <3>1, <3>4, <4>3, OneOfMany
      <4> QED
        BY <3>1, <4>1, <4>4
    <3> QED
      BY <2>2, <3>5, <3>6, Entries
  <2> QED
    BY <2>1, <2>2
<1>2. <<e[1], emitted[e[1]]>> \in Listed
  BY <1>1 DEF Listing
<1>3. emitted[e[1]] = e[2]
  BY <1>2, OneName
<1>4. e = <<e[1], e[2]>>
  BY Entries DEF Operand, InputLine
<1> QED
  BY <1>1, <1>3, <1>4

----------------------------------------------------------------------------
(* What is sent and what is read. *)

\* Only without operands is the empty name sent, and then nothing else is.
LEMMA BlankAlone ==
  ASSUME TypeOK, Plain, Listing, NEW i \in 1..Len(emitted), emitted[i] = Blank
  PROVE  file = <<>> /\ Len(emitted) = 1 /\ i = 1
<1>1. <<i, Blank>> \in Listed
  BY DEF Listing
<1>2. file = <<>>
  BY <1>1, Entries DEF Operand, InputLine, Plain
<1>3. Len(emitted) \in Nat /\ 1 <= Len(emitted)
  BY DEF TypeOK
<1>4. Len(emitted) = 1
  BY <1>2, <1>3, EmptySeq DEF Listing
<1> QED
  BY <1>2, <1>4

\* A name appended to emitted is the next one listed.
LEMMA ListNext ==
  ASSUME TypeOK, Listing, UNCHANGED <<file, given>>, NEW name \in FileName, SendWork(name),
         <<Len(emitted) + 1, name>> \in Listed
  PROVE  /\ Len(emitted') = Len(emitted) + 1
         /\ \A i \in 1..Len(emitted') : <<i, emitted'[i]>> \in Listed'
<1>1. emitted' = Append(emitted, name) /\ emitted \in Seq(FileName)
  BY DEF SendWork, TypeOK
<1>2. /\ Len(emitted) \in Nat /\ Len(emitted') = Len(emitted) + 1
      /\ emitted'[Len(emitted) + 1] = name
      /\ \A i \in 1..Len(emitted) : emitted'[i] = emitted[i]
  BY <1>1
<1>3. Listed' = Listed
  BY DEF Listed, Ordinal, Before, Scanned
<1> QED
  BY <1>2, <1>3 DEF Listing

\* Without operands a step that sends nothing keeps Listing and Unread; with
\* operands, one that leaves the feeder and what it reads alone.
LEMMA FeederStill ==
  ASSUME Listing, Unread, UNCHANGED <<file, given, fpc, fpos, lines, emitted>>,
         file # <<>> => UNCHANGED <<stdin, stdinOpen>>
  PROVE  Listing' /\ Unread'
<1>1. Listed' = Listed /\ \A p : Scanned(p)' = Scanned(p) /\ Ordinal(p)' = Ordinal(p)
  BY DEF Listed, Ordinal, Before, Scanned
<1>2. Listing'
  BY <1>1 DEF Listing
<1>3. Unread'
  BY <1>1 DEF Unread
<1> QED
  BY <1>2, <1>3

\* Every step of the feeder keeps its place in the list.
LEMMA FeederStep ==
  ASSUME TypeOK, Plain, Listing, Unread, Feeder, UNCHANGED <<file, given>>
  PROVE  Listing' /\ Unread'
<1>1. /\ Len(file) \in Nat /\ Len(given) \in Nat /\ Len(emitted) \in Nat /\ fpos \in Nat \ {0}
      /\ Len(lines) \in Nat /\ Len(stdin) \in Nat
      /\ file = <<>> <=> Len(file) = 0
  BY EmptySeq DEF TypeOK
<1>2. Listed' = Listed /\ \A p : Scanned(p)' = Scanned(p) /\ Ordinal(p)' = Ordinal(p)
  BY DEF Listed, Ordinal, Before, Scanned
<1>3. CASE FeedDefault
  <2>1. file = <<>> /\ emitted = <<>> /\ fpos' = fpos /\ fpc' = "next" /\ SendWork(Blank)
    BY <1>3 DEF FeedDefault, Listing
  <2>2. <<Len(emitted) + 1, Blank>> \in Listed /\ Blank \in FileName /\ Len(emitted) = 0
    BY <2>1, Entries, EmptySeq DEF FileName
  <2>3. /\ Len(emitted') = Len(emitted) + 1
        /\ \A i \in 1..Len(emitted') : <<i, emitted'[i]>> \in Listed'
    BY <2>1, <2>2, ListNext
  <2> QED
    BY <2>1, <2>2, <2>3 DEF Listing, Unread
<1>4. CASE FeedArg
  <2>1. /\ fpos \in 1..Len(file) /\ file[fpos] # Dash /\ fpc = "next" /\ fpc' = fpc /\ fpos' = fpos + 1
        /\ SendWork(file[fpos]) /\ UNCHANGED <<lines, stdin, stdinOpen>> /\ file # <<>>
        /\ file[fpos] \in FileName
    BY <1>1, <1>4 DEF FeedArg, TypeOK, FileName
  <2>2. Len(emitted) + 1 = Ordinal(fpos) /\ Ordinal(fpos + 1) = Ordinal(fpos) + 1
    <3>1. Len(emitted) = Ordinal(fpos) - 1
      BY <2>1 DEF Listing
    <3>2. /\ Cardinality(Before(fpos)) \in Nat
          /\ Cardinality(Before(fpos + 1)) = Cardinality(Before(fpos)) + 1
          /\ Scanned(fpos + 1) <=> Scanned(fpos)
      BY <2>1, CountBefore
    <3>3. Ordinal(fpos) \in Nat /\ Ordinal(fpos + 1) = Ordinal(fpos) + 1
      BY <1>1, <3>2 DEF Ordinal
    <3> QED
      BY <1>1, <3>1, <3>3
  <2>3. <<Len(emitted) + 1, file[fpos]>> \in Listed
    BY <2>1, <2>2, Entries DEF Operand
  <2>4. /\ Len(emitted') = Len(emitted) + 1
        /\ \A i \in 1..Len(emitted') : <<i, emitted'[i]>> \in Listed'
    BY <2>1, <2>3, ListNext
  <2>5. Scanned(fpos + 1) <=> Scanned(fpos)
    BY <2>1, CountBefore
  <2>6. Listing'
    BY <1>1, <1>2, <2>1, <2>2, <2>4 DEF Listing
  <2>7. Unread'
    BY <1>2, <2>1, <2>5 DEF Unread
  <2> QED
    BY <2>6, <2>7
<1>5. CASE FeedDash
  <2>1. /\ fpos \in 1..Len(file) /\ file[fpos] = Dash /\ fpc = "next" /\ fpc' = "scan" /\ fpos' = fpos
        /\ UNCHANGED <<emitted, lines, stdin, stdinOpen>> /\ file # <<>>
    BY <1>1, <1>5 DEF FeedDash
  <2>2. Len(emitted) = Ordinal(fpos) - 1 /\ Ordinal(fpos) \in Nat
    BY <2>1, CountBefore DEF Listing
  <2>3. lines = <<>> /\ (~Scanned(fpos) => Len(stdin) = Len(given)) /\ Len(<<>>) = 0
    BY <2>1, EmptySeq DEF Unread
  <2>4. Listing'
    BY <1>1, <1>2, <2>1, <2>2, <2>3 DEF Listing
  <2>5. Unread'
    BY <1>2, <2>1, <2>3 DEF Unread
  <2> QED
    BY <2>4, <2>5
<1>6. CASE ScanRead
  <2>1. /\ fpc = "scan" /\ lines = <<>> /\ stdin # <<>>
        /\ UNCHANGED <<fpc, fpos, emitted, stdinOpen>>
    BY <1>6 DEF ScanRead, NoInput
  <2>2. file # <<>> /\ ~Scanned(fpos)
    BY <1>1, <2>1 DEF Listing, Unread
  <2>3. PICK k \in 1..Len(stdin) :
           lines' = SubSeq(stdin, 1, k) /\ stdin' = SubSeq(stdin, k + 1, Len(stdin))
    BY <1>6 DEF ScanRead
  <2>4. /\ Len(lines') = k /\ Len(stdin') = Len(stdin) - k /\ Len(lines) = 0 /\ k \in Nat
        /\ \A i \in 1..k : lines'[i] = stdin[i]
        /\ \A i \in 1..(Len(stdin) - k) : stdin'[i] = stdin[k + i]
    BY <1>1, <2>1, <2>3, EmptySeq DEF TypeOK
  <2>5. Listing'
    BY <1>1, <1>2, <2>1, <2>2, <2>4 DEF Listing
  <2>6. Unread'
    <3>1. /\ Len(stdin) <= Len(given)
          /\ \A i \in 1..Len(stdin) : stdin[i] = given[Len(given) - Len(stdin) + i]
      BY <1>1, <2>2, <2>4 DEF Unread
    <3>2. \A i \in 1..Len(lines') : lines'[i] = given[Len(given) - Len(lines') - Len(stdin') + i]
      <4>1. Len(given) - Len(lines') - Len(stdin') = Len(given) - Len(stdin)
        BY <1>1, <2>4
      <4>2. \A i \in 1..k : i \in 1..Len(stdin)
        BY <1>1, <2>4
      <4> QED
        BY <2>4, <3>1, <4>1, <4>2
    <3>3. \A i \in 1..Len(stdin') : stdin'[i] = given[Len(given) - Len(stdin') + i]
      <4> SUFFICES ASSUME NEW i \in 1..(Len(stdin) - k) 
                   PROVE  stdin'[i] = given[Len(given) - Len(stdin') + i]
        BY <2>4
      <4>1. k + i \in 1..Len(stdin) /\ Len(given) - Len(stdin') + i = Len(given) - Len(stdin) + (k + i)
        BY <1>1, <2>4
      <4> QED
        BY <2>4, <3>1, <4>1
    <3> QED
      BY <1>1, <1>2, <2>1, <2>2, <2>4, <3>1, <3>2, <3>3 DEF Unread
  <2> QED
    BY <2>5, <2>6
<1>7. CASE FeedLine
  <2>1. /\ fpc = "scan" /\ lines # <<>> /\ lines' = Tail(lines) /\ SendWork(Head(lines))
        /\ UNCHANGED <<fpc, fpos, stdin, stdinOpen>>
    BY <1>7 DEF FeedLine
  <2>2. /\ file # <<>> /\ ~Scanned(fpos) /\ fpos \in 1..Len(file) /\ file[fpos] = Dash
    BY <1>1, <2>1 DEF Listing, Unread
  <2>3. /\ Len(lines) > 0 /\ Len(lines') = Len(lines) - 1 /\ Head(lines) = lines[1]
        /\ Head(lines) \in FileName
        /\ \A i \in 1..(Len(lines) - 1) : lines'[i] = lines[i + 1]
    BY <2>1, HeadTailProperties, EmptySeq DEF TypeOK
  <2> DEFINE l == Len(given) - Len(lines) - Len(stdin) + 1
  <2>4. l \in 1..Len(given) /\ lines[1] = given[l]
    BY <1>1, <2>2, <2>3 DEF Unread
  <2>5. Len(emitted) + 1 = Ordinal(fpos) - 1 + l /\ Ordinal(fpos) \in Nat
    <3>1. Len(emitted) = Ordinal(fpos) - 1 + Len(given) - Len(lines) - Len(stdin)
      BY <2>1, <2>2 DEF Listing
    <3>2. Ordinal(fpos) \in Nat
      BY <2>2, CountBefore
    <3> QED
      BY <1>1, <3>1, <3>2
  <2>6. <<Len(emitted) + 1, Head(lines)>> \in Listed
    BY <2>2, <2>3, <2>4, <2>5, Entries DEF InputLine
  <2>7. /\ Len(emitted') = Len(emitted) + 1
        /\ \A i \in 1..Len(emitted') : <<i, emitted'[i]>> \in Listed'
    BY <2>1, <2>3, <2>6, ListNext
  <2>8. Listing'
    BY <1>1, <1>2, <2>1, <2>2, <2>3, <2>5, <2>7 DEF Listing
  <2>9. Unread'
    BY <1>1, <1>2, <2>1, <2>2, <2>3 DEF Unread
  <2> QED
    BY <2>8, <2>9
<1>8. CASE ScanEnd
  <2>1. /\ fpc = "scan" /\ lines = <<>> /\ fpc' = "next" /\ fpos' = fpos + 1
        /\ UNCHANGED <<emitted, lines, stdin, stdinOpen>>
    BY <1>8 DEF ScanEnd
  <2>2. /\ file # <<>> /\ fpos \in 1..Len(file) /\ file[fpos] = Dash
    BY <1>1, <2>1 DEF Listing
  <2>3. stdin = <<>> /\ Len(stdin) = 0 /\ Len(lines) = 0
    BY <1>8, <2>1, <2>2, EmptySeq DEF Unread, ScanEnd, NoInput
  <2>4. Scanned(fpos + 1) /\ Len(emitted) = Ordinal(fpos + 1) - 1
    <3>1. Len(emitted) = IF Scanned(fpos) THEN Ordinal(fpos) - 1 ELSE Ordinal(fpos) - 1 + Len(given)
      BY <1>1, <2>1, <2>2, <2>3, CountBefore DEF Listing
    <3>2. /\ Scanned(fpos + 1) /\ Cardinality(Before(fpos)) \in Nat
          /\ Cardinality(Before(fpos + 1)) = Cardinality(Before(fpos))
      BY <2>2, CountBefore
    <3>3. Ordinal(fpos + 1) = 1 + Cardinality(Before(fpos)) + Len(given)
      BY <3>2 DEF Ordinal
    <3>4. CASE Scanned(fpos)
      <4>1. Ordinal(fpos) = 1 + Cardinality(Before(fpos)) + Len(given) /\ Len(emitted) = Ordinal(fpos) - 1
        BY <3>1, <3>4 DEF Ordinal
      <4> QED
        BY <3>2, <3>3, <4>1
    <3>5. CASE ~Scanned(fpos)
      <4>1. /\ Ordinal(fpos) = 1 + Cardinality(Before(fpos)) /\ Len(emitted) = Ordinal(fpos) - 1 + Len(given)
        BY <3>1, <3>2, <3>5 DEF Ordinal
      <4> QED
        BY <1>1, <3>2, <3>3, <4>1
    <3> QED
      BY <3>4, <3>5
  <2>5. Listing'
    BY <1>1, <1>2, <2>1, <2>2, <2>4 DEF Listing
  <2>6. Unread'
    BY <1>2, <2>1, <2>2, <2>3, <2>4 DEF Unread
  <2> QED
    BY <2>5, <2>6
<1>9. CASE CloseIn
  <2>1. /\ fpc = "next" /\ fpc' = "stop" /\ fpos > Len(file) 
        /\ UNCHANGED <<fpos, emitted, lines, stdin, stdinOpen>>
    BY <1>9 DEF CloseIn
  <2>2. fpos = Len(file) + 1
    BY <1>1, <2>1 DEF Listing
  <2>3. Listing'
    BY <1>1, <1>2, <2>1, <2>2 DEF Listing
  <2>4. Unread'
    BY <1>2, <2>1 DEF Unread
  <2> QED
    BY <2>3, <2>4
<1> QED
  BY <1>3, <1>4, <1>5, <1>6, <1>7, <1>8, <1>9 DEF Feeder

\* A sequence is put together again from a beginning and the rest.
LEMMA Rejoin ==
  ASSUME NEW S, NEW r \in Seq(S), NEW s \in Seq(S), NEW k \in 1..Len(s)
  PROVE  (r \o SubSeq(s, 1, k)) \o SubSeq(s, k + 1, Len(s)) = r \o s
<1>1. SubSeq(s, 1, k) \in Seq(S) /\ SubSeq(s, k + 1, Len(s)) \in Seq(S)
  BY CutSeq
<1>2. Len(r) \in Nat /\ Len(s) \in Nat /\ k \in Nat /\ k <= Len(s)
  BY LenProperties
<1> DEFINE front == SubSeq(s, 1, k)
           rest  == SubSeq(s, k + 1, Len(s))
<1>3. /\ Len(front) = k /\ \A i \in 1..k : front[i] = s[i]
      /\ Len(rest) = Len(s) - k /\ \A i \in 1..(Len(s) - k) : rest[i] = s[k + i]
  BY <1>2
<1> HIDE DEF front, rest
<1>4. r \o front \in Seq(S) /\ (r \o front) \o rest \in Seq(S) /\ r \o s \in Seq(S)
  BY <1>1, ConcatProperties DEF front, rest
<1>5. /\ Len(r \o front) = Len(r) + k
      /\ \A i \in 1..(Len(r) + k) : (r \o front)[i] = IF i <= Len(r) THEN r[i] ELSE front[i - Len(r)]
  BY <1>1, <1>3, ConcatProperties DEF front
<1>6. /\ Len((r \o front) \o rest) = Len(r) + Len(s)
      /\ \A i \in 1..(Len(r) + Len(s)) :
            ((r \o front) \o rest)[i] = IF i <= Len(r) + k THEN (r \o front)[i] ELSE rest[i - (Len(r) + k)]
  <2>1. (Len(r) + k) + (Len(s) - k) = Len(r) + Len(s)
    BY <1>2
  <2>2. /\ Len((r \o front) \o rest) = Len(r \o front) + Len(rest)
        /\ \A i \in 1..(Len(r \o front) + Len(rest)) :
              ((r \o front) \o rest)[i] = IF i <= Len(r \o front) THEN (r \o front)[i] ELSE rest[i - Len(r \o front)]
    BY <1>1, <1>4, ConcatProperties DEF rest
  <2> QED
    BY <1>3, <1>5, <2>1, <2>2
<1>7. /\ Len(r \o s) = Len(r) + Len(s)
      /\ \A i \in 1..(Len(r) + Len(s)) : (r \o s)[i] = IF i <= Len(r) THEN r[i] ELSE s[i - Len(r)]
  BY ConcatProperties
<1>8. \A i \in 1..(Len(r) + Len(s)) : ((r \o front) \o rest)[i] = (r \o s)[i]
  <2> SUFFICES ASSUME NEW i \in 1..(Len(r) + Len(s))
               PROVE  ((r \o front) \o rest)[i] = (r \o s)[i]
    OBVIOUS
  <2>1. CASE i <= Len(r) + k
    <3>1. i \in 1..(Len(r) + k) /\ (i > Len(r) => i - Len(r) \in 1..k)
      BY <1>2, <2>1
    <3> QED
      BY <1>3, <1>5, <1>6, <1>7, <2>1, <3>1
  <2>2. CASE ~(i <= Len(r) + k)
    <3> DEFINE j == i - (Len(r) + k)
    <3>1. ~(i <= Len(r)) /\ j \in 1..(Len(s) - k) /\ k + j = i - Len(r)
      BY <1>2, <2>2
    <3>2. ((r \o front) \o rest)[i] = rest[j] /\ (r \o s)[i] = s[i - Len(r)]
      BY <1>6, <1>7, <2>2, <3>1
    <3> HIDE DEF j
    <3> QED
      BY <1>3, <3>1, <3>2
  <2> QED
    BY <2>1, <2>2
<1> QED
  BY <1>4, <1>6, <1>7, <1>8, SeqEqual DEF front, rest

\* The digests stay right when nothing that they are about moves.
LEMMA DigestStill ==
  ASSUME Digesting, UNCHANGED <<file, given, stdin, stdinOpen, emitted, in, out, worker, printed>>
  PROVE  Digesting'
<1>1. Taken' = Taken /\ \A i : Opens(i)' <=> Opens(i)
  BY DEF Taken, Opens
<1>2. wpc' = wpc /\ job' = job /\ data' = data /\ \A w : Holding(w)' <=> Holding(w)
  BY DEF worker, Holding
<1> QED
  BY <1>1, <1>2 DEF Digesting, Digest

\* The feeder hands out more work or reads standard input itself.
LEMMA DigestFeeder ==
  ASSUME TypeOK, Plain, Places, Listing, Unread, Digesting, Feeder
  PROVE  Digesting'
<1>1. UNCHANGED <<file, given, stdinOpen, out, worker, printed>>
  BY DEF Feeder, FeedDefault, FeedArg, FeedDash, ScanRead, FeedLine, ScanEnd, CloseIn
<1>2. wpc' = wpc /\ job' = job /\ data' = data
  BY <1>1 DEF worker
<1>3. /\ Len(emitted) \in Nat /\ Len(in) \in Nat /\ Taken \in Nat /\ Taken <= Len(emitted)
      /\ Taken' = Taken
      /\ \A i \in 1..Taken : emitted'[i] = emitted[i]
  <2>1. Len(emitted) \in Nat /\ Len(in) \in Nat /\ Taken \in Nat /\ Taken <= Len(emitted)
    BY DEF TypeOK, Places, Queue, Taken
  <2>2. CASE UNCHANGED <<emitted, in>>
    BY <2>1, <2>2 DEF Taken
  <2>3. ASSUME NEW name \in FileName, SendWork(name)
        PROVE  Taken' = Taken /\ \A i \in 1..Taken : emitted'[i] = emitted[i]
    <3>1. emitted' = Append(emitted, name) /\ in' = Append(in, Len(emitted) + 1)
          /\ emitted \in Seq(FileName) /\ in \in Seq(Nat)
      BY <2>3 DEF SendWork, TypeOK
    <3>2. /\ Len(emitted') = Len(emitted) + 1 /\ Len(in') = Len(in) + 1
          /\ \A i \in 1..Len(emitted) : emitted'[i] = emitted[i]
      BY <2>1, <3>1
    <3> QED
      BY <2>1, <3>2 DEF Taken
  <2>4. \/ UNCHANGED <<emitted, in>>
        \/ \E name \in FileName : SendWork(name)
    <3>1. CASE FeedDefault
      BY <3>1 DEF FeedDefault, FileName
    <3>2. CASE FeedArg
      <4>1. file[fpos] \in FileName
        BY <3>2, ElementOfSeq DEF FeedArg, TypeOK, FileName
      <4> QED
        BY <3>2, <4>1 DEF FeedArg
    <3>3. CASE FeedLine
      <4>1. Head(lines) \in FileName
        BY <3>3, HeadTailProperties DEF FeedLine, TypeOK
      <4> QED
        BY <3>3, <4>1 DEF FeedLine
    <3> QED
      BY <3>1, <3>2, <3>3 DEF Feeder, FeedDash, ScanRead, ScanEnd, CloseIn
  <2> QED
    BY <2>1, <2>2, <2>3, <2>4
<1>4. \A i \in 1..Taken : Opens(i)' <=> Opens(i)
  BY <1>3 DEF Opens
<1>5. stdin' = stdin \/ file # <<>>
  <2>1. ScanRead => file # <<>>
    <3>1. ScanRead => fpos <= Len(file) /\ fpos \in Nat \ {0}
      BY DEF ScanRead, Listing, TypeOK
    <3> QED
      BY <3>1, EmptySeq
  <2> QED
    BY <2>1 DEF Feeder, FeedDefault, FeedArg, FeedDash, FeedLine, ScanEnd, CloseIn
<1>6. /\ \A w \in Worker : Holding(w) => job[w] \in 1..Taken
      /\ \A k \in 1..Len(out) : out[k].id \in 1..Taken
      /\ \A k \in 1..Len(printed) : printed[k].id \in 1..Taken
  BY DEF Places, Placed
<1>7. \A w \in Worker : wpc[w] = "copy" => file = <<>>
  <2> SUFFICES ASSUME NEW w \in Worker, wpc[w] = "copy" PROVE file = <<>>
    OBVIOUS
  <2>1. emitted[job[w]] = Blank /\ job[w] \in 1..Len(emitted)
    BY <1>3, <1>6 DEF Digesting, Holding
  <2> QED
    BY <2>1, BlankAlone
<1>8. \A w \in Worker : wpc'[w] = "copy" =>
        emitted'[job'[w]] = Blank /\ stdinOpen' /\ data'[w] \o stdin' = given'
  BY <1>1, <1>2, <1>3, <1>5, <1>6, <1>7 DEF Digesting, Holding
<1>9. \A w \in Worker : wpc'[w] = "send" => data'[w] = Digest(emitted[job[w]])'
  BY <1>1, <1>2, <1>3, <1>6 DEF Digesting, Holding, Digest
<1>10. \A w \in Worker : Holding(w)' => Opens(job[w])'
  BY <1>2, <1>4, <1>6 DEF Digesting, Holding
<1>11. /\ \A k \in 1..Len(out) : Opens(out[k].id)' /\ out[k].data = Digest(emitted[out[k].id])'
       /\ \A k \in 1..Len(printed) : Opens(printed[k].id)' /\ printed[k].data = Digest(emitted[printed[k].id])'
  BY <1>1, <1>3, <1>4, <1>6 DEF Digesting, Digest
<1>12. file' = <<>> /\ Taken' = 0 => stdinOpen' /\ stdin' = given'
  BY <1>1, <1>3, <1>5 DEF Digesting
<1> QED
  BY <1>1, <1>8, <1>9, <1>10, <1>11, <1>12 DEF Digesting

\* With operands nobody but the feeder reads standard input.
LEMMA CopyAlone ==
  ASSUME TypeOK, Plain, Places, Listing, Digesting, NEW w \in Worker, wpc[w] = "copy"
  PROVE  /\ file = <<>> /\ Taken = 1 /\ job[w] = 1
         /\ \A v \in Worker : Holding(v) => v = w
<1>1. Holding(w) /\ job[w] \in 1..Taken
  BY DEF Holding, Places, Placed
<1>2. Taken \in Nat /\ Taken <= Len(emitted)
  BY DEF TypeOK, Places, Queue, Taken
<1>3. emitted[job[w]] = Blank /\ job[w] \in 1..Len(emitted) /\ Len(emitted) \in Nat
  BY <1>1, <1>2 DEF Digesting, TypeOK
<1>4. file = <<>> /\ Len(emitted) = 1 /\ job[w] = 1
  BY <1>3, BlankAlone
<1>5. Taken = 1
  BY <1>1, <1>2, <1>4
<1>6. ASSUME NEW v \in Worker, Holding(v) PROVE v = w
  <2>1. job[v] \in 1..Taken
    BY <1>6 DEF Places, Placed
  <2>2. job[v] = job[w]
    BY <1>4, <1>5, <2>1
  <2> QED
    BY <1>1, <1>6, <2>2 DEF Places, Apart
<1> QED
  BY <1>4, <1>5, <1>6

\* A worker takes a work value.
LEMMA DigestTake ==
  ASSUME TypeOK, Plain, Places, Listing, Digesting, NEW w \in Worker, Take(w)
  PROVE  Digesting'
<1> DEFINE id == Head(in)
           name == emitted[Head(in)]
<1>1. /\ in \in Seq(Nat) /\ in # <<>> /\ in' = Tail(in) /\ id = in[1] /\ ~Holding(w)
      /\ UNCHANGED <<file, given, stdin, stdinOpen, emitted, out, printed>> /\ Len(emitted) \in Nat
  BY DEF Take, TypeOK, feeder, Holding
<1>2. /\ Len(in) \in Nat \ {0} /\ Len(in') = Len(in) - 1
  BY <1>1, HeadTailProperties, EmptySeq
<1>3. Taken' = Taken + 1 /\ Taken \in Nat /\ id = Taken + 1 /\ id \in 1..Len(emitted)
  BY <1>1, <1>2 DEF Taken, Places, Queue
<1>4. \A i : (Opens(i)' <=> Opens(i)) /\ Digest(emitted[i])' = Digest(emitted[i])
  BY <1>1 DEF Opens, Digest
<1>5. /\ \A k \in 1..Len(out) : Opens(out[k].id)' /\ out[k].data = Digest(emitted[out[k].id])'
      /\ \A k \in 1..Len(printed) : Opens(printed[k].id)' /\ printed[k].data = Digest(emitted[printed[k].id])'
  BY <1>1, <1>4 DEF Digesting
<1>6. ~(file' = <<>> /\ Taken' = 0)
  BY <1>3
<1>7. CASE UNCHANGED worker
  <2>1. wpc' = wpc /\ job' = job /\ data' = data /\ \A v \in Worker : Holding(v)' <=> Holding(v)
    BY <1>7 DEF worker, Holding
  <2> QED
    BY <1>1, <1>4, <1>5, <1>6, <2>1 DEF Digesting
<1>8. CASE /\ Opens(id)
           /\ wpc' = [wpc EXCEPT ![w] = IF name = Blank THEN "copy" ELSE "send"]
           /\ job' = [job EXCEPT ![w] = id]
           /\ data' = [data EXCEPT ![w] = Opened(w, name)]
  <2>1. /\ wpc'[w] = IF name = Blank THEN "copy" ELSE "send"
        /\ job'[w] = id /\ data'[w] = Opened(w, name)
        /\ \A v \in Worker : v # w => wpc'[v] = wpc[v] /\ job'[v] = job[v] /\ data'[v] = data[v]
    BY <1>8 DEF TypeOK
  <2>2. name = Blank => stdinOpen /\ stdin = given /\ data'[w] = <<>> /\ <<>> \o stdin = stdin
    <3> SUFFICES ASSUME name = Blank
                 PROVE  stdinOpen /\ stdin = given /\ data'[w] = <<>> /\ <<>> \o stdin = stdin
      OBVIOUS
    <3>1. file = <<>> /\ id = 1
      BY <1>3, BlankAlone
    <3>2. Taken = 0
      BY <1>3, <3>1
    <3>3. stdinOpen /\ stdin = given
      BY <3>1, <3>2 DEF Digesting
    <3>4. <<>> \o stdin = stdin
      BY ConcatEmptySeq DEF TypeOK
    <3> QED
      BY <2>1, <3>3, <3>4 DEF Opened
  <2>3. name # Blank => data'[w] = Digest(emitted[id])
    BY <2>1 DEF Digest, Opened
  <2> HIDE DEF id, name
  <2>4. \A v \in Worker : Holding(v)' => Opens(job[v])'
    BY <1>4, <1>8, <2>1 DEF Digesting, Holding
  <2>5. \A v \in Worker : wpc'[v] = "send" => data'[v] = Digest(emitted[job[v]])'
    <3> SUFFICES ASSUME NEW v \in Worker, wpc'[v] = "send" PROVE data'[v] = Digest(emitted[job[v]])'
      OBVIOUS
    <3>1. CASE v = w
      <4>1. name # Blank /\ job'[v] = id
        BY <2>1, <3>1
      <4> QED
        BY <1>1, <2>3, <3>1, <4>1 DEF Digest
    <3>2. CASE v # w
      BY <1>1, <2>1, <3>2, ZenonT(60) DEF Digesting, Digest
    <3> QED
      BY <3>1, <3>2
  <2>6. \A v \in Worker : wpc'[v] = "copy" =>
            emitted'[job'[v]] = Blank /\ stdinOpen' /\ data'[v] \o stdin' = given'
    <3> SUFFICES ASSUME NEW v \in Worker, wpc'[v] = "copy"
                 PROVE  emitted'[job'[v]] = Blank /\ stdinOpen' /\ data'[v] \o stdin' = given'
      OBVIOUS
    <3>1. CASE v = w
      <4>1. name = Blank /\ job'[v] = id
        BY <2>1, <3>1
      <4> QED
        BY <1>1, <2>2, <3>1, <4>1 DEF name, id
    <3>2. CASE v # w
      BY <1>1, <2>1, <3>2 DEF Digesting
    <3> QED
      BY <3>1, <3>2
  <2> QED
    BY <1>1, <1>5, <1>6, <2>4, <2>5, <2>6 DEF Digesting
<1> QED
  BY <1>7, <1>8 DEF Take, Unopened, Opens

\* The worker that has the empty name copies, and comes to the end.
LEMMA DigestCopy ==
  ASSUME TypeOK, Plain, Places, Listing, Digesting, NEW w \in Worker, CopyStdin(w) \/ CopyEnd(w)
  PROVE  Digesting'
<1>1. /\ wpc[w] = "copy" /\ job' = job /\ UNCHANGED <<file, given, emitted, in, out, printed>>
  BY DEF CopyStdin, CopyEnd, feeder
<1>2. /\ file = <<>> /\ Taken = 1 /\ job[w] = 1
      /\ \A v \in Worker : Holding(v) => v = w
  BY <1>1, CopyAlone
<1>3. emitted[1] = Blank /\ stdinOpen /\ data[w] \o stdin = given /\ Opens(1)
  BY <1>1, <1>2 DEF Digesting, Holding
<1>4. Taken' = Taken /\ \A i : (Opens(i)' <=> Opens(i)) /\ Digest(emitted[i])' = Digest(emitted[i])
  BY <1>1 DEF Taken, Opens, Digest
<1>5. /\ \A k \in 1..Len(out) : Opens(out[k].id)' /\ out[k].data = Digest(emitted[out[k].id])'
      /\ \A k \in 1..Len(printed) : Opens(printed[k].id)' /\ printed[k].data = Digest(emitted[printed[k].id])'
  BY <1>1, <1>4 DEF Digesting
<1>6. CASE CopyStdin(w)
  <2>1. PICK k \in 1..Len(stdin) :
           /\ data' = [data EXCEPT ![w] = @ \o SubSeq(stdin, 1, k)]
           /\ stdin' = SubSeq(stdin, k + 1, Len(stdin))
    BY <1>6 DEF CopyStdin
  <2>2. data[w] \in Seq(FileName) /\ stdin \in Seq(FileName)
    BY DEF TypeOK
  <2>3. data'[w] \o stdin' = given'
    <3>1. (data[w] \o SubSeq(stdin, 1, k)) \o SubSeq(stdin, k + 1, Len(stdin)) = data[w] \o stdin
      BY <2>2, Rejoin
    <3>2. data'[w] = data[w] \o SubSeq(stdin, 1, k)
      BY <2>1 DEF TypeOK
    <3> QED
      BY <1>1, <1>3, <2>1, <3>1, <3>2
  <2>4. wpc' = wpc /\ stdinOpen' = stdinOpen
    BY <1>6 DEF CopyStdin
  <2>5. \A v \in Worker : Holding(v)' => v = w /\ wpc'[v] = "copy"
    BY <1>1, <1>2, <2>4 DEF Holding
  <2> QED
    <3>1. \A v \in Worker : Holding(v)' => Opens(job[v])' /\ wpc'[v] # "send"
      BY <1>1, <1>2, <1>3, <1>4, <2>5
    <3>2. \A v \in Worker : wpc'[v] = "copy" =>
              emitted'[job'[v]] = Blank /\ stdinOpen' /\ data'[v] \o stdin' = given'
      BY <1>1, <1>2, <1>3, <2>3, <2>4, <2>5 DEF Holding
    <3>3. \A v \in Worker : wpc'[v] = "send" => data'[v] = Digest(emitted[job[v]])'
      BY <3>1 DEF Holding
    <3>4. ~(Taken' = 0)
      BY <1>2, <1>4
    <3> QED
      BY <1>1, <1>5, <3>1, <3>2, <3>3, <3>4 DEF Digesting
<1>7. CASE CopyEnd(w)
  <2>1. stdin = <<>> /\ wpc' = [wpc EXCEPT ![w] = "send"] /\ UNCHANGED <<data, stdin>>
    BY <1>3, <1>7 DEF CopyEnd, NoInput
  <2>2. data[w] = given
    <3>1. data[w] \o <<>> = data[w]
      BY ConcatEmptySeq DEF TypeOK
    <3> QED
      BY <1>3, <2>1, <3>1
  <2>3. wpc'[w] = "send" /\ \A v \in Worker : Holding(v)' => v = w
    BY <1>2, <2>1 DEF Holding, TypeOK
  <2> QED
    BY <1>1, <1>2, <1>3, <1>4, <1>5, <2>1, <2>2, <2>3 DEF Digesting, Digest, Holding
<1> QED
  BY <1>6, <1>7

\* A result goes from a worker to out.
LEMMA DigestSend ==
  ASSUME TypeOK, Digesting, NEW w \in Worker, SendResult(w)
  PROVE  Digesting'
<1>1. /\ wpc[w] = "send" /\ wpc'[w] = "recv" /\ Holding(w)
      /\ \A v \in Worker : v # w => wpc'[v] = wpc[v]
      /\ UNCHANGED <<file, given, stdin, stdinOpen, emitted, in, printed, job, data>>
  BY DEF SendResult, TypeOK, feeder, Holding
<1>2. Taken' = Taken /\ \A i : (Opens(i)' <=> Opens(i)) /\ Digest(emitted[i])' = Digest(emitted[i])
  BY <1>1 DEF Taken, Opens, Digest
<1>3. Sent(w) \in Result /\ Sent(w).id = job[w] /\ Sent(w).data = data[w]
  BY DEF Sent, Result, TypeOK
<1>4. /\ Len(out) \in Nat /\ Len(out') = Len(out) + 1 /\ out'[Len(out) + 1] = Sent(w)
      /\ \A k \in 1..Len(out) : out'[k] = out[k]
  <2>1. out' = Append(out, Sent(w)) /\ out \in Seq(Result)
    BY DEF SendResult, TypeOK
  <2> QED
    BY <1>3, <2>1, AppendProperties, LenProperties
<1>5. Opens(job[w]) /\ data[w] = Digest(emitted[job[w]])
  BY <1>1 DEF Digesting
<1>6. \A k \in 1..Len(out') : Opens(out'[k].id) /\ out'[k].data = Digest(emitted[out'[k].id])
  BY <1>3, <1>4, <1>5 DEF Digesting
<1>7. \A k \in 1..Len(out') : Opens(out[k].id)' /\ out'[k].data = Digest(emitted[out[k].id])'
  BY <1>1, <1>6 DEF Opens, Digest
<1>8. \A v \in Worker : Holding(v)' => v # w /\ Holding(v)
  BY <1>1 DEF Holding
<1> QED
  BY <1>1, <1>2, <1>7, <1>8 DEF Digesting

\* main prints a result.
LEMMA DigestPrint ==
  ASSUME TypeOK, Digesting, RecvOut
  PROVE  Digesting'
<1>1. UNCHANGED <<file, given, stdin, stdinOpen, emitted, in, wpc, job, data>>
  BY DEF RecvOut, feeder, worker
<1>2. Taken' = Taken /\ \A i : (Opens(i)' <=> Opens(i)) /\ Digest(emitted[i])' = Digest(emitted[i])
  BY <1>1 DEF Taken, Opens, Digest
<1>3. /\ Len(out) \in Nat \ {0} /\ Len(out') = Len(out) - 1
      /\ \A k \in 1..(Len(out) - 1) : out'[k] = out[k + 1]
      /\ Head(out) = out[1] /\ out[1] \in Result
  BY HeadTailProperties, EmptySeq, ElementOfSeq DEF RecvOut, TypeOK
<1>4. /\ Len(printed) \in Nat /\ Len(printed') = Len(printed) + 1
      /\ printed'[Len(printed) + 1] = out[1]
      /\ \A k \in 1..Len(printed) : printed'[k] = printed[k]
  <2>1. printed' = Append(printed, out[1]) /\ printed \in Seq(Result)
    BY <1>3 DEF RecvOut, TypeOK
  <2> QED
    BY <1>3, <2>1, AppendProperties, LenProperties
<1>5. \A k \in 1..Len(out') : Opens(out'[k].id) /\ out'[k].data = Digest(emitted[out'[k].id])
  <2> SUFFICES ASSUME NEW k \in 1..Len(out')
               PROVE  Opens(out'[k].id) /\ out'[k].data = Digest(emitted[out'[k].id])
    OBVIOUS
  <2>1. k + 1 \in 1..Len(out) /\ out'[k] = out[k + 1]
    BY <1>3
  <2> DEFINE j == k + 1
  <2>2. j \in 1..Len(out) /\ out'[k] = out[j]
    BY <2>1
  <2> HIDE DEF j
  <2> QED
    BY <2>2 DEF Digesting
<1>6. \A k \in 1..Len(printed') : Opens(printed'[k].id) /\ printed'[k].data = Digest(emitted[printed'[k].id])
  <2>1. Opens(out[1].id) /\ out[1].data = Digest(emitted[out[1].id])
    BY <1>3 DEF Digesting
  <2> QED
    BY <1>4, <2>1 DEF Digesting
<1>7. /\ \A k \in 1..Len(out') : Opens(out[k].id)' /\ out'[k].data = Digest(emitted[out[k].id])'
      /\ \A k \in 1..Len(printed') : Opens(printed[k].id)' /\ printed'[k].data = Digest(emitted[printed[k].id])'
  BY <1>1, <1>5, <1>6 DEF Opens, Digest
<1> QED
  BY <1>1, <1>2, <1>7 DEF Digesting, Holding

Read == Listing /\ Unread /\ Digesting

\* Every step keeps the list and the digests right.
LEMMA ReadStep ==
  ASSUME TypeOK, Plain, Places, Read, [Next]_vars
  PROVE  Read'
<1>0. UNCHANGED <<file, given>>
  BY Fixed
<1>1. CASE Feeder
  <2>1. Listing' /\ Unread'
    BY <1>0, <1>1, FeederStep DEF Read
  <2>2. Digesting'
    BY <1>1, DigestFeeder DEF Read
  <2> QED
    BY <2>1, <2>2 DEF Read
<1>2. ASSUME NEW w \in Worker, CopyStdin(w) \/ CopyEnd(w) PROVE Read'
  <2>1. file = <<>>
    BY <1>2, CopyAlone DEF CopyStdin, CopyEnd, Read
  <2>2. Listing' /\ Unread'
    BY <1>0, <1>2, <2>1, FeederStill DEF CopyStdin, CopyEnd, Read, feeder
  <2> QED
    BY <1>2, <2>2, DigestCopy DEF Read
<1>3. ASSUME NEW w \in Worker, Take(w) \/ SendResult(w) \/ Quit(w) \/ RecvDone(w) PROVE Read'
  <2>1. Listing' /\ Unread'
    BY <1>0, <1>3, FeederStill DEF Take, SendResult, Quit, RecvDone, Read, feeder
  <2>2. CASE Take(w)
    BY <2>1, <2>2, DigestTake DEF Read
  <2>3. CASE SendResult(w)
    BY <2>1, <2>3, DigestSend DEF Read
  <2>4. CASE Quit(w) \/ RecvDone(w)
    <3>1. /\ UNCHANGED <<file, given, stdin, stdinOpen, emitted, in, out, job, data, printed>>
          /\ \A v \in Worker : wpc'[v] \in {"copy", "send"} \/ wpc[v] \in {"copy", "send"} => wpc'[v] = wpc[v]
      BY <2>4 DEF Quit, RecvDone, feeder, TypeOK
    <3>2. Taken' = Taken /\ \A i : (Opens(i)' <=> Opens(i)) /\ Digest(emitted[i])' = Digest(emitted[i])
      BY <3>1 DEF Taken, Opens, Digest
    <3>3. Digesting'
      BY <3>1, <3>2 DEF Read, Digesting, Holding
    <3> QED
      BY <2>1, <3>3 DEF Read
  <2> QED
    BY <1>3, <2>2, <2>3, <2>4
<1>4. CASE RecvOut
  <2>1. Listing' /\ Unread'
    BY <1>0, <1>4, FeederStill DEF RecvOut, Read, feeder
  <2> QED
    BY <1>4, <2>1, DigestPrint DEF Read
<1>5. CASE UNCHANGED vars
  BY <1>5, FeederStill, DigestStill DEF vars, feeder, Read
<1> QED
  BY <1>1, <1>2, <1>3, <1>4, <1>5 DEF Next, WorkerStep

\* They are right at the start.
LEMMA InitRead == Init => Read
<1> SUFFICES ASSUME Init PROVE Read
  OBVIOUS
<1>1. /\ Len(emitted) = 0 /\ Len(in) = 0 /\ Len(out) = 0 /\ Len(printed) = 0 /\ Len(lines) = 0
      /\ Taken = 0 /\ fpos = 1
  BY EmptySeq DEF Init, Taken
<1>2. file \in Seq(Name \cup {Dash, Blank}) /\ given \in Seq(FileName)
  BY InitTyped DEF TypeOK
<1>3. Len(file) \in Nat /\ Len(given) \in Nat
  BY <1>2, LenProperties
<1>4. Before(1) = {} /\ ~Scanned(1)
  BY DEF Before, Scanned
<1>5. Ordinal(1) = 1
  BY <1>4, FS_EmptySet DEF Ordinal
<1>6. Listing
  BY <1>1, <1>3, <1>4, <1>5, EmptySeq DEF Init, Listing
<1>7. Unread
  <2>1. stdin = given /\ lines = <<>> /\ stdinOpen /\ fpc # "scan"
    BY DEF Init
  <2> QED
    BY <1>1, <1>3, <1>4, <2>1 DEF Unread
<1>8. Digesting
  BY <1>1 DEF Init, Digesting, Holding
<1> QED
  BY <1>6, <1>7, <1>8 DEF Read

\* The inductive invariant holds of every behaviour.
THEOREM Invariance == Spec => []IInv
<1> DEFINE All == TypeOK /\ Counting /\ Closing /\ Places /\ (Plain => Read)
<1>1. Init => All
  BY InitPlaces, InitRead
<1>2. All /\ [Next]_vars => All'
  <2> SUFFICES ASSUME All, [Next]_vars PROVE All'
    OBVIOUS
  <2>1. TypeOK' /\ Counting' /\ Closing' /\ Places'
    BY TypeStep, StopStep, PlacesStep
  <2>2. Plain' => Plain
    BY Fixed DEF Plain
  <2> QED
    BY <2>1, <2>2, ReadStep
<1>3. All => IInv
  BY DEF IInv, Places, Read
<1> QED
  BY <1>1, <1>2, <1>3, PTL DEF Spec

\* The digest printed for a name listed is that of the file so named.
THEOREM DigestsRight == Spec => []RightDigest
<1>1. IInv => RightDigest
  <2> SUFFICES ASSUME IInv, Plain, NEW k \in 1..Len(printed)
               PROVE  \E entry \in Listed :
                         /\ printed[k].id = entry[1]
                         /\ printed[k].data = IF entry[2] = Blank THEN given ELSE <<entry[2]>>
    BY DEF RightDigest
  <2> DEFINE id == printed[k].id
  <2>1. Len(emitted) \in Nat /\ Taken \in Nat /\ Taken <= Len(emitted)
    BY DEF IInv, TypeOK, Queue, Taken
  <2>2. id \in 1..Len(emitted)
    BY <2>1 DEF IInv, Placed
  <2>3. <<id, emitted[id]>> \in Listed
    BY <2>2 DEF IInv, Listing
  <2>4. printed[k].data = Digest(emitted[id])
    BY DEF IInv, Digesting
  <2> QED
    BY <2>3, <2>4 DEF Digest
<1> QED
  BY Invariance, <1>1, PTL

----------------------------------------------------------------------------
(* The promise. *)

\* The ordinals of the names listed that open are the jobs of Batch.
LEMMA JobsTyped == TypeOK => Promised \subseteq Nat
<1> SUFFICES ASSUME TypeOK, NEW e \in Listed PROVE e[1] \in Nat
  BY DEF Promised
<1>1. Len(file) \in Nat /\ Len(given) \in Nat
  BY DEF TypeOK
<1>2. \A p \in 1..Len(file) : Ordinal(p) \in Nat /\ Ordinal(p) >= 1
  <2> SUFFICES ASSUME NEW p \in 1..Len(file) PROVE Ordinal(p) \in Nat /\ Ordinal(p) >= 1
    OBVIOUS
  <2>1. Cardinality(Before(p)) \in Nat
    BY CountBefore
  <2> QED
    BY <1>1, <2>1 DEF Ordinal
<1>3. CASE file = <<>>
  BY <1>3, Entries
<1>4. ASSUME NEW p \in 1..Len(file), Operand(e, p) PROVE e[1] \in Nat
  BY <1>2, <1>4 DEF Operand
<1>5. ASSUME NEW p \in 1..Len(file), NEW l \in 1..Len(given), InputLine(e, p, l) PROVE e[1] \in Nat
  BY <1>1, <1>2, <1>5 DEF InputLine
<1> QED
  BY <1>3, <1>4, <1>5, Entries

NoneLeft == mpc = "exit" => Promised \subseteq Hashed

\* When main returns no job is left.
LEMMA NothingLeft == IInv /\ Plain => NoneLeft
<1> SUFFICES ASSUME IInv, Plain, mpc = "exit", NEW e \in Listed, e[2] \in Readable \cup {Blank}
             PROVE  e[1] \in Hashed
  BY DEF NoneLeft, Promised
<1>1. inClosed /\ fpc = "stop" /\ in = <<>> /\ out = <<>> /\ \A w \in Worker : wpc[w] = "stop"
  BY DEF IInv, Closing, Live
<1>2. PICK i \in 1..Len(emitted) : e = <<i, emitted[i]>>
  BY <1>1, AllListed DEF IInv
<1>3. Opens(i) /\ e[1] = i
  BY <1>2 DEF Opens
<1>4. Taken = Len(emitted) /\ Len(out) = 0
  BY <1>1, EmptySeq DEF Taken, IInv, TypeOK
<1>5. \E k \in 1..Len(printed) : printed[k].id = i
  BY <1>1, <1>3, <1>4 DEF IInv, NoLoss, Holding
<1> QED
  BY <1>3, <1>5 DEF Hashed

\* A result that main is about to print is that of a job not yet handled.
LEMMA NextJob ==
  ASSUME IInv, Plain, out # <<>>
  PROVE  Head(out).id \in Promised \ Hashed
<1>1. Len(out) \in Nat /\ 1 \in 1..Len(out) /\ Head(out) = out[1]
  BY EmptySeq, HeadTailProperties DEF IInv, TypeOK
<1> DEFINE id == out[1].id
<1>2. Len(emitted) \in Nat /\ Taken \in Nat /\ Taken <= Len(emitted)
  BY DEF IInv, TypeOK, Queue, Taken
<1>3. id \in 1..Len(emitted)
  BY <1>1, <1>2 DEF IInv, Placed
<1>4. <<id, emitted[id]>> \in Listed /\ Opens(id)
  BY <1>1, <1>3 DEF IInv, Listing, Digesting
<1>5. id \in Promised
  BY <1>4 DEF Promised, Opens
<1>6. id \notin Hashed
  BY <1>1 DEF IInv, Apart, Hashed
<1> QED
  BY <1>1, <1>5, <1>6

\* Every step of the program is a step of Batch or none.
LEMMA PromiseStep ==
  ASSUME IInv, Plain, [Next]_vars, NoneLeft'
  PROVE  [Promise!Next]_(Promise!vars)
<1>1. Promised' = Promised
  <2>1. UNCHANGED <<file, given>>
    BY Fixed
  <2> QED
    BY <2>1 DEF Promised, Listed, Ordinal, Before, Scanned
<1>2. CASE RecvOut
  <2>1. mpc = "select" /\ out # <<>> /\ printed' = Append(printed, Head(out)) /\ mpc' \in {"select", "exit"}
    BY <1>2 DEF RecvOut, Leave
  <2>2. Hashed' = Hashed \cup {Head(out).id}
    <3>1. /\ Len(printed) \in Nat /\ Len(printed') = Len(printed) + 1
          /\ printed'[Len(printed) + 1] = Head(out)
          /\ \A k \in 1..Len(printed) : printed'[k] = printed[k]
      BY <2>1, HeadTailProperties, AppendProperties, LenProperties DEF IInv, TypeOK
    <3>2. \A i : i \in Hashed' <=> i \in Hashed \/ i = Head(out).id
      BY <3>1 DEF Hashed
    <3> QED
      BY <3>2
  <2>3. Head(out).id \in Promised \ Hashed
    BY <2>1, NextJob
  <2>4. Promise!Handle(Head(out).id)
    BY <1>1, <2>1, <2>2 DEF Promise!Handle, NoneLeft
  <2> QED
    BY <2>3, <2>4 DEF Promise!Next
<1>3. ASSUME NEW w \in Worker, RecvDone(w) PROVE [Promise!Next]_(Promise!vars)
  <2>1. mpc = "select" /\ printed' = printed /\ mpc' \in {"select", "exit"}
    BY <1>3 DEF RecvDone, Leave
  <2>2. Hashed' = Hashed
    BY <2>1 DEF Hashed
  <2>3. CASE mpc' = "exit"
    BY <1>1, <2>1, <2>2, <2>3 DEF Promise!Next, Promise!End, NoneLeft
  <2>4. CASE mpc' = "select"
    BY <1>1, <2>1, <2>2, <2>4 DEF Promise!vars
  <2> QED
    BY <2>1, <2>3, <2>4
<1>4. CASE UNCHANGED <<mpc, printed>>
  BY <1>1, <1>4 DEF Promise!vars, Hashed
<1>5. UNCHANGED <<mpc, printed>> \/ RecvOut \/ \E w \in Worker : RecvDone(w)
  BY DEF Next, Feeder, WorkerStep, FeedDefault, FeedArg, FeedDash, ScanRead, FeedLine, ScanEnd,
         CloseIn, Take, CopyStdin, CopyEnd, SendResult, Quit, vars
<1> QED
  BY <1>2, <1>3, <1>4, <1>5

\* The program implements Batch: each name that opens is handled once, and main
\* returns only when none is left.
THEOREM Implements == Plain /\ Spec => Promise!SafeSpec
<1>1. Init /\ Plain => Promise!Init
  <2> SUFFICES ASSUME Init PROVE Promise!Init
    OBVIOUS
  <2>1. Promised \subseteq Nat
    BY InitTyped, JobsTyped
  <2>2. Hashed = {}
    BY EmptySeq DEF Init, Hashed
  <2> QED
    BY <2>1, <2>2 DEF Init, Promise!Init
<1>2. Plain /\ [Next]_vars => Plain'
  BY Fixed DEF Plain
<1>3. IInv /\ Plain /\ [Next]_vars /\ NoneLeft' => [Promise!Next]_(Promise!vars)
  BY PromiseStep
<1>4. IInv /\ Plain => NoneLeft
  BY NothingLeft
<1>5. Plain /\ Spec => [](IInv /\ Plain)
  BY Invariance, <1>2, PTL DEF Spec
<1> QED
  BY <1>1, <1>3, <1>4, <1>5, PTL DEF Spec, Promise!SafeSpec
=============================================================================
