----------------------------- MODULE ProcsProofs -----------------------------
(***************************************************************************)
(* Proofs about the programs that run processes or clients next to main.   *)
(* Rewire, for any list of descriptors, with the processes and goroutines  *)
(* ending in any order: at most one process reads and one writes the       *)
(* terminal, wg counts the results that are missing, the slice of extra    *)
(* files has room, and main returns only for a reason.  Its parser, for    *)
(* any command lines: what is run is what was written.  Hget, for any      *)
(* input, any numbers of clients and storers, and any failures: a page     *)
(* handed out is in one place until it comes back, main ends after all of  *)
(* them, and a file is written under its own name.                         *)
(***************************************************************************)
EXTENDS Rewire, Hget, FiniteSetTheorems, SequenceTheorems, WellFoundedInduction, TLAPS

----------------------------------------------------------------------------
(* The processes (Rewire). *)

\* Redirect has started the commands before pos, and no other.
Reached == \A i \in Cmd : waiter[i] # "none" <=> i < pos

\* The commands whose results main has not received.
Unreceived == {i \in Started : waiter[i] # "stop"}

\* Only one command holds each end of the terminal, and none while rewire has it itself;
\* the final command has what rewire was left with.
Terminals ==
    /\ \A i, j \in Cmd : pin[i] = "terminal" /\ pin[j] = "terminal" => i = j
    /\ \A i, j \in Cmd : pout[i] = "terminal" /\ pout[j] = "terminal" => i = j
    /\ osIn = "terminal" => \A i \in Cmd : pin[i] # "terminal"
    /\ osOut = "terminal" => \A i \in Cmd : pout[i] # "terminal"
    /\ cin = "terminal" => osIn = "terminal"
    /\ cout = "terminal" => osOut = "terminal"

\* The extra files are as many as the last descriptor above 2 asks for.
ExtraFrom ==
    Running => extra = 0 \/ \E i \in Started : redirs[i] > 2 /\ extra = redirs[i] - 2

\* What a goroutine past a wait knows: the process it waited for was reaped, all results
\* were received before done was closed for the group, and main returns after a close.
Ends ==
    /\ \A i \in Cmd : waiter[i] \in {"send", "stop"} => proc[i] = "reaped"
    /\ cpc # "none" => pos > Len(redirs)
    /\ cpc \in {"close", "stop"} => \A i \in Cmd : waiter[i] = "stop"
    /\ fpc \in {"close", "stop"} => proc[0] = "reaped"
    /\ done > 0 => cpc = "stop" \/ fpc = "stop"
    /\ outcome = "return" => done > 0

\* A set whose elements are all equal has at most one.
LEMMA AtMostOne ==
  ASSUME NEW S, \A x, y \in S : x = y
  PROVE  One(S)
<1>1. CASE S = {}
  BY <1>1, FS_EmptySet DEF One
<1>2. CASE S # {}
  <2>1. PICK x : x \in S
    BY <1>2
  <2>2. S = {x}
    BY <2>1
  <2> QED
    BY <2>2, FS_Singleton DEF One
<1> QED
  BY <1>1, <1>2

\* The descriptors are numbers and the commands finitely many.
LEMMA ListTyped ==
  ASSUME RewireAssumption, TypeOK
  PROVE  /\ redirs \in Seq(Nat) /\ Len(redirs) \in Nat /\ pos \in Nat /\ Cmd \subseteq Nat
         /\ 1 <= pos /\ pos <= Len(redirs) + 1
         /\ \A i \in Cmd : redirs[i] \in Nat
         /\ IsFiniteSet(Cmd) /\ Cardinality(Cmd) = Len(redirs)
         /\ 0 \notin Cmd
<1>0. redirs \in Seq(Nat)
  BY DEF RewireAssumption, TypeOK
<1>1. redirs \in Seq(Nat) /\ Len(redirs) \in Nat /\ \A i \in Cmd : redirs[i] \in Nat
  BY <1>0, LenProperties, ElementOfSeq DEF Cmd
<1>2. 1 \in Int /\ Len(redirs) \in Int
  BY <1>1
<1>3. IsFiniteSet(Cmd) /\ Cardinality(Cmd) = IF 1 > Len(redirs) THEN 0 ELSE Len(redirs) - 1 + 1
  BY <1>2, FS_Interval, Zenon DEF Cmd
<1>4. Cardinality(Cmd) = Len(redirs)
  BY <1>1, <1>3
<1>5. pos \in 1..Len(redirs) + 1
  BY DEF TypeOK
<1>6. pos \in Nat /\ 1 <= pos /\ pos <= Len(redirs) + 1 /\ Cmd \subseteq Nat /\ 0 \notin Cmd
  BY <1>1, <1>5 DEF Cmd
<1> QED
  BY <1>1, <1>3, <1>4, <1>6, Zenon

\* The list of descriptors never changes.
LEMMA SameList ==
  ASSUME [Next]_vars
  PROVE  redirs' = redirs /\ Cmd' = Cmd
<1>1. redirs' = redirs
  BY DEF Next, Main, Redirect, RedirectPanic, RedirectsOver, Return, Group, GroupWait,
     GroupClose,
         Final, FinalStart, FinalWait, FinalClose, Exit, Reap, SendDone, vars
<1> QED
  BY <1>1 DEF Cmd

\* The missing results can be counted, and are at most as many as the commands.
LEMMA UnreceivedFinite ==
  ASSUME RewireAssumption, TypeOK
  PROVE  IsFiniteSet(Unreceived) /\ Cardinality(Unreceived) \in Nat /\ Cardinality(Unreceived) <= Len(redirs)
<1>1. Unreceived \subseteq Cmd /\ IsFiniteSet(Cmd) /\ Cardinality(Cmd) = Len(redirs)
  BY ListTyped DEF Unreceived, Started
<1> QED
  BY <1>1, FS_Subset, FS_CardinalityType

----------------------------------------------------------------------------
\* Each Start adds one to wg and to the missing results, each receipt takes one from both:
\* wg never goes below zero.
LEMMA CountsStep ==
  ASSUME RewireAssumption, TypeOK, Reached, CountsUnreceived, [Next]_vars
  PROVE  CountsUnreceived' /\ wg' \in 0..Len(redirs') /\ redirs' = redirs
<1>0. redirs' = redirs /\ Cmd' = Cmd
  BY SameList
<1>a. /\ IsFiniteSet(Unreceived) /\ Cardinality(Unreceived) \in Nat
      /\ Cardinality(Unreceived) <= Len(redirs) /\ wg = Cardinality(Unreceived)
  BY UnreceivedFinite DEF CountsUnreceived, Unreceived
<1>b. /\ Len(redirs) \in Nat /\ pos \in Nat /\ 1 <= pos /\ pos <= Len(redirs) + 1
      /\ waiter \in [Cmd -> {"none", "wait", "send", "stop"}]
      /\ Cmd = 1..Len(redirs) /\ Cmd' = Cmd
  BY ListTyped, <1>0 DEF TypeOK, Cmd
<1>c. CountsUnreceived' <=> wg' = Cardinality(Unreceived')
  BY DEF CountsUnreceived, Unreceived
<1>1. CASE UNCHANGED <<waiter, wg>>
  <2>1. Unreceived' = Unreceived
    BY <1>1, <1>b DEF Unreceived, Started
  <2> QED
    BY <2>1, <1>0, <1>1, <1>a, <1>c
<1>2. CASE /\ mpc = "redirect" /\ pos <= Len(redirs)
           /\ waiter' = [waiter EXCEPT ![pos] = "wait"] /\ wg' = wg + 1
  <2>1. pos \in Cmd /\ pos \notin Unreceived
    <3>1. pos \in Cmd
      BY <1>2, <1>b
    <3> QED
      BY <3>1, <1>b DEF Reached, Unreceived, Started
  <2>2. Unreceived' = Unreceived \cup {pos}
    BY <1>2, <2>1, <1>b DEF Unreceived, Started
  <2>3. Cardinality(Unreceived \cup {pos}) = Cardinality(Unreceived) + 1
    BY <1>a, <2>1, FS_AddElement
  <2>4. Unreceived \cup {pos} \subseteq Cmd /\ IsFiniteSet(Cmd) /\ Cardinality(Cmd) = Len(redirs)
    BY <2>1, ListTyped DEF Unreceived, Started
  <2>5. Cardinality(Unreceived \cup {pos}) <= Len(redirs)
    BY <2>4, FS_Subset
  <2>6. Cardinality(Unreceived') = Cardinality(Unreceived) + 1 /\ Cardinality(Unreceived') <= Len(redirs)
    BY <2>2, <2>3, <2>5, Zenon
  <2> QED
    BY <2>6, <1>0, <1>2, <1>a, <1>b, <1>c
<1>3. ASSUME NEW i \in Cmd, waiter[i] = "send", wg' = wg - 1, waiter' = [waiter EXCEPT ![i] = "stop"]
      PROVE  CountsUnreceived' /\ wg' \in 0..Len(redirs')
  <2>1. i \in Unreceived
    BY <1>3 DEF Unreceived, Started
  <2>2. Unreceived' = Unreceived \ {i}
    BY <1>3, <1>b DEF Unreceived, Started
  <2>3. Cardinality(Unreceived \ {i}) = Cardinality(Unreceived) - 1 /\ Cardinality(Unreceived \ {i}) \in Nat
    BY <1>a, <2>1, FS_RemoveElement, FS_CardinalityType
  <2>4. Cardinality(Unreceived') = Cardinality(Unreceived) - 1 /\ Cardinality(Unreceived') \in Nat
    BY <2>2, <2>3, Zenon
  <2> QED
    BY <2>4, <1>0, <1>3, <1>a, <1>b, <1>c
<1>4. CASE Redirect
  BY <1>0, <1>1, <1>2, <1>4 DEF Redirect
<1>5. ASSUME NEW i \in Cmd, SendDone(i)
      PROVE  CountsUnreceived' /\ wg' \in 0..Len(redirs')
  BY <1>0, <1>1, <1>3, <1>5 DEF SendDone, CountedDone
<1>6. ASSUME NEW i \in Cmd, Reap(i)
      PROVE  CountsUnreceived' /\ wg' \in 0..Len(redirs')
  <2>1. Unreceived' = Unreceived /\ wg' = wg
    BY <1>6, <1>b DEF Unreceived, Started, Reap
  <2> QED
    BY <2>1, <1>0, <1>a, <1>c
<1>7. CASE UNCHANGED vars
  BY <1>0, <1>1, <1>7 DEF vars
<1>8. CASE RedirectPanic \/ RedirectsOver \/ Return \/ Group \/ Final \/ Exit(0) \/ \E i \in Cmd : Exit(i)
  BY <1>0, <1>1, <1>8 DEF RedirectPanic, RedirectsOver, Return, Group, GroupWait, GroupClose,
         Final, FinalStart, FinalWait, FinalClose, Exit
<1> QED
  BY <1>0, <1>4, <1>5, <1>6, <1>7, <1>8 DEF Next, Main

\* Every step keeps the types.
LEMMA TypeStep ==
  ASSUME RewireAssumption, TypeOK, [Next]_vars, wg' \in 0..Len(redirs)
  PROVE  TypeOK'
<1> DEFINE Outcome == {"none", "return", "fatal", "close of closed channel",
                       "send on closed channel", "makeslice"}
           StreamsTyped ==
             /\ osIn \in {"terminal", "null"} /\ osOut \in {"terminal", "null"}
             /\ pin \in [Cmd -> Stream] /\ pout \in [Cmd -> Stream]
             /\ cin \in Stream /\ cinFrom \in {0} \cup Cmd /\ cout \in Stream /\ cerr \in {"unset", "terminal"}
           SetsTyped == wasset \in SUBSET {0, 1, 2} /\ extra \in Nat
           CommandsTyped ==
             /\ proc \in [Cmd \cup {0} -> {"none", "running", "ended", "reaped"}]
             /\ waiter \in [Cmd -> {"none", "wait", "send", "stop"}]
           ControlTyped ==
             /\ done \in 0..1
             /\ cpc \in {"none", "wait", "close", "stop"}
             /\ fpc \in {"none", "start", "wait", "close", "stop"}
             /\ mpc \in {"redirect", "range", "over"}
             /\ outcome \in Outcome
<1>00. redirs' = redirs /\ Cmd' = Cmd
  BY SameList
<1>0. /\ redirs \in Lists /\ Len(redirs) \in Nat /\ \A i \in Cmd : redirs[i] \in Nat
      /\ pos \in 1..Len(redirs) + 1 /\ pos \in Nat /\ extra \in Nat
  BY ListTyped DEF TypeOK
<1>t. StreamsTyped /\ SetsTyped /\ CommandsTyped /\ ControlTyped
  BY DEF TypeOK
<1>q. StreamsTyped' /\ SetsTyped' /\ CommandsTyped' /\ ControlTyped' /\ pos' \in 1..Len(redirs) + 1 => TypeOK'
  BY <1>00, <1>0 DEF TypeOK
<1>1. CASE Redirect
  <2>1. pos \in Cmd
    BY <1>0, <1>1 DEF Redirect, Cmd
  <2>2. StreamsTyped'
    <3>1. StreamsTyped /\ Cmd' = Cmd
      BY <1>t, <1>00
    <3>2. CASE RedirectIn(pos)
      BY <2>1, <3>1, <3>2 DEF RedirectIn, InLeft, Stream
    <3>3. CASE RedirectOut(pos)
      BY <2>1, <3>1, <3>3 DEF RedirectOut, Stream
    <3>4. CASE RedirectErr(pos) \/ RedirectExtra(pos)
      BY <3>1, <3>4 DEF RedirectErr, RedirectExtra
    <3> QED
      BY <1>1, <3>2, <3>3, <3>4 DEF Redirect
  <2>3. extra' \in Nat
    BY <1>0, <1>1, <2>1 DEF Redirect, RedirectIn, RedirectOut, RedirectErr, RedirectExtra, Delta
  <2>4. SetsTyped'
    <3>1. wasset' = wasset \cup ({redirs[pos]} \cap 0..2)
      BY <1>1 DEF Redirect
    <3>2. 0..2 = {0, 1, 2}
      OBVIOUS
    <3> QED
      BY <1>t, <2>3, <3>1, <3>2
  <2>5. CommandsTyped'
    BY <1>t, <1>00, <1>1, <2>1 DEF Redirect
  <2>6. ControlTyped'
    BY <1>t, <1>1 DEF Redirect, End
  <2>7. pos' \in 1..Len(redirs) + 1
    BY <1>0, <1>1 DEF Redirect
  <2> QED
    BY <1>q, <2>2, <2>4, <2>5, <2>6, <2>7
<1>2. CASE RedirectPanic
  <2>1. StreamsTyped' /\ SetsTyped' /\ pos' = pos
    BY <1>00, <1>t, <1>2 DEF RedirectPanic, streams
  <2>2. CommandsTyped'
    BY <1>00, <1>t, <1>2 DEF RedirectPanic
  <2>3. ControlTyped'
    BY <1>t, <1>2 DEF RedirectPanic, End
  <2> QED
    BY <1>0, <1>q, <2>1, <2>2, <2>3
<1>3. CASE RedirectsOver
  <2>1. StreamsTyped' /\ SetsTyped' /\ pos' = pos
    BY <1>00, <1>t, <1>3 DEF RedirectsOver, streams
  <2>2. CommandsTyped'
    BY <1>00, <1>t, <1>3 DEF RedirectsOver
  <2>3. ControlTyped'
    BY <1>t, <1>3 DEF RedirectsOver, End
  <2> QED
    BY <1>0, <1>q, <2>1, <2>2, <2>3
<1>4. CASE Return
  <2>1. StreamsTyped' /\ SetsTyped' /\ pos' = pos
    BY <1>00, <1>t, <1>4 DEF Return, streams
  <2>2. CommandsTyped'
    BY <1>00, <1>t, <1>4 DEF Return
  <2>3. ControlTyped'
    BY <1>t, <1>4 DEF Return, End
  <2> QED
    BY <1>0, <1>q, <2>1, <2>2, <2>3
<1>5. CASE GroupWait
  <2>1. StreamsTyped' /\ SetsTyped' /\ pos' = pos
    BY <1>00, <1>t, <1>5 DEF GroupWait, streams
  <2>2. CommandsTyped'
    BY <1>00, <1>t, <1>5 DEF GroupWait
  <2>3. ControlTyped'
    BY <1>t, <1>5 DEF GroupWait, End
  <2> QED
    BY <1>0, <1>q, <2>1, <2>2, <2>3
<1>6. CASE GroupClose
  <2>1. StreamsTyped' /\ SetsTyped' /\ pos' = pos
    BY <1>00, <1>t, <1>6 DEF GroupClose, CloseDone, streams
  <2>2. CommandsTyped'
    BY <1>00, <1>t, <1>6 DEF GroupClose, CloseDone
  <2>3. ControlTyped'
    <3>0. 1 \in 0..1
      OBVIOUS
    <3>1. CASE done = 0
      <4>1. done' = 1 /\ UNCHANGED <<mpc, outcome>>
        BY <1>6, <3>1 DEF GroupClose, CloseDone
      <4> QED
        BY <1>t, <1>6, <3>0, <4>1 DEF GroupClose
    <3>2. CASE done # 0
      <4>1. done' = done /\ mpc' = "over" /\ outcome' = "close of closed channel"
        BY <1>6, <3>2 DEF GroupClose, CloseDone, End
      <4> QED
        BY <1>t, <1>6, <4>1 DEF GroupClose
    <3> QED
      BY <3>1, <3>2
  <2> QED
    BY <1>0, <1>q, <2>1, <2>2, <2>3
<1>7. CASE FinalStart
  <2>1. StreamsTyped'
    BY <1>00, <1>t, <1>7 DEF FinalStart, Stream
  <2>2. SetsTyped' /\ CommandsTyped'
    BY <1>00, <1>t, <1>7 DEF FinalStart
  <2>3. ControlTyped' /\ pos' = pos
    BY <1>t, <1>7 DEF FinalStart, End
  <2> QED
    BY <1>0, <1>q, <2>1, <2>2, <2>3
<1>8. CASE FinalWait
  <2>1. StreamsTyped' /\ SetsTyped' /\ pos' = pos
    BY <1>00, <1>t, <1>8 DEF FinalWait, streams
  <2>2. CommandsTyped'
    BY <1>00, <1>t, <1>8 DEF FinalWait
  <2>3. ControlTyped'
    BY <1>t, <1>8 DEF FinalWait, End
  <2> QED
    BY <1>0, <1>q, <2>1, <2>2, <2>3
<1>9. CASE FinalClose
  <2>1. StreamsTyped' /\ SetsTyped' /\ pos' = pos
    BY <1>00, <1>t, <1>9 DEF FinalClose, CloseDone, streams
  <2>2. CommandsTyped'
    BY <1>00, <1>t, <1>9 DEF FinalClose, CloseDone
  <2>3. ControlTyped'
    <3>0. 1 \in 0..1
      OBVIOUS
    <3>1. CASE done = 0
      <4>1. done' = 1 /\ UNCHANGED <<mpc, outcome>>
        BY <1>9, <3>1 DEF FinalClose, CloseDone
      <4> QED
        BY <1>t, <1>9, <3>0, <4>1 DEF FinalClose
    <3>2. CASE done # 0
      <4>1. done' = done /\ mpc' = "over" /\ outcome' = "close of closed channel"
        BY <1>9, <3>2 DEF FinalClose, CloseDone, End
      <4> QED
        BY <1>t, <1>9, <4>1 DEF FinalClose
    <3> QED
      BY <3>1, <3>2
  <2> QED
    BY <1>0, <1>q, <2>1, <2>2, <2>3
<1>10. CASE \E i \in Cmd \cup {0} : Exit(i)
  <2>1. StreamsTyped' /\ SetsTyped' /\ pos' = pos
    BY <1>00, <1>t, <1>10 DEF Exit, streams
  <2>2. CommandsTyped'
    BY <1>00, <1>t, <1>10 DEF Exit
  <2>3. ControlTyped'
    BY <1>t, <1>10 DEF Exit, End
  <2> QED
    BY <1>0, <1>q, <2>1, <2>2, <2>3
<1>11. CASE \E i \in Cmd : Reap(i)
  <2>1. StreamsTyped' /\ SetsTyped' /\ pos' = pos
    BY <1>00, <1>t, <1>11 DEF Reap, streams
  <2>2. CommandsTyped'
    <3>1. PICK i \in Cmd : Reap(i)
      BY <1>11
    <3> QED
      BY <1>00, <1>t, <3>1 DEF Reap
  <2>3. ControlTyped'
    BY <1>t, <1>11 DEF Reap, End
  <2> QED
    BY <1>0, <1>q, <2>1, <2>2, <2>3
<1>12. CASE \E i \in Cmd : SendDone(i)
  <2>1. StreamsTyped' /\ SetsTyped' /\ pos' = pos
    BY <1>00, <1>t, <1>12 DEF SendDone, streams
  <2>2. CommandsTyped'
    BY <1>00, <1>t, <1>12 DEF SendDone
  <2>3. ControlTyped'
    BY <1>t, <1>12 DEF SendDone, End
  <2> QED
    BY <1>0, <1>q, <2>1, <2>2, <2>3
<1>13. CASE UNCHANGED vars
  <2>1. StreamsTyped' /\ SetsTyped' /\ pos' = pos
    BY <1>00, <1>t, <1>13 DEF vars
  <2>2. CommandsTyped'
    BY <1>00, <1>t, <1>13 DEF vars
  <2>3. ControlTyped'
    BY <1>t, <1>13 DEF vars
  <2> QED
    BY <1>0, <1>q, <2>1, <2>2, <2>3
<1> QED
  BY <1>1, <1>2, <1>3, <1>4, <1>5, <1>6, <1>7, <1>8, <1>9, <1>10, <1>11, <1>12, <1>13
     DEF Next, Main, Group, Final

\* A command is started where main is; extra grows with it, or the program panics.
LEMMA ReachedStep ==
  ASSUME RewireAssumption, TypeOK, Reached, ExtraFrom, ExtraFits, [Next]_vars
  PROVE  Reached' /\ ExtraFrom' /\ ExtraFits'
<1>0. /\ redirs \in Lists /\ Len(redirs) \in Nat /\ pos \in Nat /\ 1 <= pos /\ pos <= Len(redirs) + 1
      /\ \A i \in Cmd : redirs[i] \in Nat
      /\ Cmd = 1..Len(redirs) /\ extra \in Nat
      /\ waiter \in [Cmd -> {"none", "wait", "send", "stop"}]
  BY ListTyped DEF TypeOK, Cmd
<1>00. redirs' = redirs /\ Cmd' = Cmd
  BY SameList
<1>1. CASE Redirect
  <2>1. pos \in Cmd /\ redirs' = redirs /\ Cmd' = Cmd
    BY <1>0, <1>1 DEF Redirect, Cmd
  <2>2. Reached'
    BY <1>0, <1>1, <2>1 DEF Redirect, Reached
  <2>3. extra <= extra' /\ extra' \in Nat
    BY <1>0, <1>1, <2>1 DEF Redirect, RedirectIn, RedirectOut, RedirectErr, RedirectExtra, Delta
  <2>4. redirs[pos] > 2 => extra' = redirs[pos] - 2
    BY <1>0, <1>1, <2>1 DEF Redirect, RedirectIn, RedirectOut, RedirectErr, RedirectExtra, Delta
  <2>5. redirs[pos] <= 2 => extra' = extra
    BY <1>0, <1>1, <2>1 DEF Redirect, RedirectIn, RedirectOut, RedirectErr, RedirectExtra, Delta
  <2>6. outcome' # "makeslice" /\ outcome = "none"
    BY <1>1 DEF Redirect, Running, End
  <2>7. CASE waiter' = [waiter EXCEPT ![pos] = "wait"] /\ outcome' = outcome
    <3>1. Started' = Started \cup {pos}
      BY <1>0, <2>1, <2>7 DEF Started
    <3>2. ExtraFits'
      BY <1>0, <2>1, <2>3, <2>4, <2>6, <3>1 DEF ExtraFits, Started
    <3>3. ExtraFrom'
      BY <1>0, <2>1, <2>4, <2>5, <2>6, <2>7, <3>1 DEF ExtraFrom, Running, Started
    <3> QED
      BY <2>2, <3>2, <3>3
  <2>8. CASE waiter' = waiter /\ outcome' = "fatal"
    <3>1. Started' = Started
      BY <2>1, <2>8 DEF Started
    <3>2. ExtraFits'
      BY <1>0, <2>1, <2>3, <2>4, <2>6, <3>1 DEF ExtraFits, Started
    <3> QED
      BY <2>2, <2>8, <3>2 DEF ExtraFrom, Running
  <2> QED
    BY <1>1, <2>7, <2>8 DEF Redirect, End
<1>2. CASE RedirectPanic
  BY <1>0, <1>2 DEF RedirectPanic, End, Cmd, streams, Reached, ExtraFits, ExtraFrom,
     Started, Running, Delta
<1>3. CASE \E i \in Cmd : Reap(i) \/ SendDone(i)
  <2>1. /\ UNCHANGED <<redirs, pos, extra>> /\ outcome = "none"
        /\ outcome' # "makeslice" /\ Started' = Started
    BY <1>0, <1>3 DEF Reap, SendDone, streams, End, Running, Started, Cmd
  <2>2. Cmd' = Cmd /\ \A i \in Cmd : waiter'[i] # "none" <=> waiter[i] # "none"
    BY <1>0, <1>3, <2>1 DEF Reap, SendDone, Cmd
  <2> QED
    BY <2>1, <2>2 DEF Reached, ExtraFits, ExtraFrom, Running
<1>4. CASE RedirectsOver \/ Return \/ Group \/ Final \/ Exit(0) \/ (\E i \in Cmd : Exit(i)) \/ UNCHANGED vars
  <2>1. UNCHANGED <<redirs, pos, extra, waiter>>
    BY <1>4 DEF RedirectsOver, Return, Group, GroupWait, GroupClose, CloseDone,
         Final, FinalStart, FinalWait, FinalClose, Exit, streams, End, vars
  <2>2. /\ outcome' = "makeslice" => outcome = "makeslice"
        /\ outcome' = "none" => outcome = "none"
    BY <1>4 DEF RedirectsOver, Return, Group, GroupWait, GroupClose, CloseDone,
         Final, FinalStart, FinalWait, FinalClose, Exit, streams, End, vars, Running
  <2> QED
    BY <2>1, <2>2 DEF Reached, ExtraFits, ExtraFrom, Running, Started, Cmd
<1> QED
  BY <1>1, <1>2, <1>3, <1>4 DEF Next, Main

\* A redirection takes the terminal from rewire when it gives it to a command, and Start
\* gives the final command what is left.
LEMMA TerminalsStep ==
  ASSUME RewireAssumption, TypeOK, Terminals, [Next]_vars
  PROVE  Terminals'
<1>00. redirs' = redirs /\ Cmd' = Cmd
  BY SameList
<1>1. CASE Redirect
  <2>0. pos \in Cmd
    BY ListTyped, <1>1 DEF Redirect, Cmd
  <2>1. pos \in Cmd /\ redirs' = redirs /\ Cmd' = Cmd /\ pin \in [Cmd -> Stream] /\ pout \in [Cmd -> Stream]
    BY <1>00, <2>0 DEF TypeOK
  <2>2. CASE RedirectIn(pos)
    BY <2>1, <2>2 DEF RedirectIn, Terminals, InLeft
  <2>3. CASE RedirectOut(pos)
    BY <2>1, <2>3 DEF RedirectOut, Terminals
  <2>4. CASE RedirectErr(pos) \/ RedirectExtra(pos)
    BY <2>1, <2>4 DEF RedirectErr, RedirectExtra, Terminals
  <2> QED
    BY <1>1, <2>2, <2>3, <2>4 DEF Redirect
<1>2. CASE FinalStart
  BY <1>2 DEF FinalStart, Terminals, Cmd
<1>3. CASE \/ RedirectPanic \/ RedirectsOver \/ Return \/ Group \/ FinalWait \/ FinalClose \/ Exit(0)
           \/ UNCHANGED vars \/ \E i \in Cmd : Exit(i) \/ Reap(i) \/ SendDone(i)
  <2>1. UNCHANGED <<redirs, streams>>
    BY <1>3 DEF RedirectPanic, RedirectsOver, Return, Group, GroupWait, GroupClose,
       FinalWait, FinalClose,
                Exit, Reap, SendDone, streams, vars
  <2> QED
    BY <2>1 DEF Terminals, streams, Cmd
<1> QED
  BY <1>1, <1>2, <1>3 DEF Next, Main, Final

\* wg at zero means that every result was received; the rest is what each goroutine did.
LEMMA EndsStep ==
  ASSUME RewireAssumption, TypeOK, Reached, CountsUnreceived, Ends, [Next]_vars
  PROVE  Ends'
<1>0. /\ Len(redirs) \in Nat /\ pos \in Nat /\ 1 <= pos /\ pos <= Len(redirs) + 1
      /\ Cmd = 1..Len(redirs) /\ 0 \notin Cmd /\ done \in 0..1
      /\ waiter \in [Cmd -> {"none", "wait", "send", "stop"}]
      /\ proc \in [Cmd \cup {0} -> {"none", "running", "ended", "reaped"}]
  BY ListTyped DEF TypeOK, Cmd
<1>00. redirs' = redirs /\ Cmd' = Cmd
  BY SameList
<1>1. CASE Redirect
  BY <1>00, <1>0, <1>1 DEF Redirect, Ends, End, Running, Cmd, TypeOK, Reached
<1>2. CASE RedirectPanic
  BY <1>00, <1>0, <1>2 DEF RedirectPanic, Ends, End
<1>3. CASE RedirectsOver
  BY <1>00, <1>0, <1>3 DEF RedirectsOver, Ends, End
<1>4. CASE Return
  BY <1>00, <1>0, <1>4 DEF Return, Ends, End
<1>5. CASE GroupWait
  <2>1. IsFiniteSet(Unreceived) /\ Cardinality(Unreceived) = 0
    BY <1>5, UnreceivedFinite DEF GroupWait, AllReceived, CountsUnreceived, Unreceived
  <2>2. Unreceived = {}
    BY <2>1, FS_EmptySet
  <2>3. \A i \in Cmd : waiter[i] = "stop"
    BY <1>0, <1>5, <2>2 DEF GroupWait, Ends, Reached, Unreceived, Started
  <2> QED
    BY <1>00, <1>5, <2>3 DEF GroupWait, Ends
<1>6. CASE GroupClose
  BY <1>00, <1>0, <1>6 DEF GroupClose, CloseDone, Ends, End, Running
<1>7. CASE FinalStart
  BY <1>00, <1>0, <1>7 DEF FinalStart, Ends, End, Running
<1>8. CASE FinalWait
  BY <1>00, <1>0, <1>8 DEF FinalWait, Ends, End, Running
<1>9. CASE FinalClose
  BY <1>00, <1>0, <1>9 DEF FinalClose, CloseDone, Ends, End, Running
<1>10. CASE \E i \in Cmd \cup {0} : Exit(i)
  BY <1>00, <1>0, <1>10 DEF Exit, Ends
<1>11. CASE \E i \in Cmd : Reap(i)
  BY <1>00, <1>0, <1>11 DEF Reap, Ends
<1>12. CASE \E i \in Cmd : SendDone(i)
  BY <1>00, <1>0, <1>12, ZenonT(60) DEF SendDone, Ends, End, Running
<1>13. CASE UNCHANGED vars
  BY <1>00, <1>0, <1>13 DEF vars, Ends
<1> QED
  BY <1>1, <1>2, <1>3, <1>4, <1>5, <1>6, <1>7, <1>8, <1>9, <1>10, <1>11, <1>12, <1>13
     DEF Next, Main, Group, Final

\* The inductive invariant.
RewireKept == RewireInv /\ Reached /\ ExtraFrom /\ Terminals /\ Ends

\* The invariant holds at the start.
LEMMA RewireInitRight ==
  ASSUME RewireAssumption, Init
  PROVE  RewireKept
<1>1. Len(redirs) \in Nat /\ redirs \in Seq(Nat)
  BY DEF Init, RewireAssumption
<1>2. Started = {}
  BY DEF Init, Started, Cmd
<1>3. TypeOK
  BY <1>1 DEF Init, TypeOK, Stream, Cmd
<1>4. Cardinality({i \in Started : waiter[i] # "stop"}) = 0
  <2>1. {i \in Started : waiter[i] # "stop"} = {}
    BY <1>2
  <2> QED
    BY <2>1, FS_EmptySet
<1>5. CountsUnreceived
  BY <1>4 DEF CountsUnreceived, Init
<1>6. Reached /\ ExtraFrom /\ Terminals /\ ExtraFits
  BY <1>1, <1>2 DEF Init, Reached, ExtraFrom, Terminals, ExtraFits, Cmd
<1>7. Ends
  BY <1>1 DEF Init, Ends, Cmd
<1> QED
  BY <1>3, <1>5, <1>6, <1>7 DEF RewireKept, RewireInv

\* The inductive invariant holds in every state.
THEOREM RewireInvariance == ASSUME RewireAssumption PROVE Spec => []RewireKept
<1>1. Init => RewireKept
  BY RewireInitRight
<1>2. RewireKept /\ [Next]_vars => RewireKept'
  BY CountsStep, TypeStep, ReachedStep, TerminalsStep, EndsStep DEF RewireKept, RewireInv
<1> QED
  BY <1>1, <1>2, PTL DEF Spec

\* The variables keep their types, wg counts the results main has not received
\* (rewire.go:140, 173), and extra files fit (rewire.go:44-75).
THEOREM RewireSound == ASSUME RewireAssumption PROVE Spec => []RewireInv
<1>1. RewireKept => RewireInv
  BY DEF RewireKept
<1> QED
  BY <1>1, RewireInvariance, PTL

\* At most one process reads rewire's standard input and at most one writes its standard
\* output (Redirect and Start, rewire.go:44-90).
THEOREM OneReaderOneWriter == ASSUME RewireAssumption PROVE Spec => []OneAtTerminal
<1>1. RewireKept => OneAtTerminal
  <2> SUFFICES ASSUME RewireKept PROVE OneAtTerminal
    OBVIOUS
  <2> DEFINE Readers == {i \in Started : pin[i] = "terminal"} \cup (IF FinalRan /\ cin = "terminal" THEN {0} ELSE {})
             Writers == {i \in Started : pout[i] = "terminal"} \cup (IF FinalRan /\ cout = "terminal" THEN {0} ELSE {})
  <2>1. \A x, y \in Readers : x = y
    BY DEF RewireKept, Terminals, Started
  <2>2. \A x, y \in Writers : x = y
    BY DEF RewireKept, Terminals, Started
  <2>3. One(Readers) /\ One(Writers)
    <3> HIDE DEF Readers, Writers
    <3> QED
      BY <2>1, <2>2, AtMostOne
  <2> QED
    BY <2>3 DEF OneAtTerminal
<1> QED
  BY <1>1, RewireInvariance, PTL

\* main returns only when the final command was reaped or every other command was, with
\* its result received (rewire.go:146-180).
THEOREM ReturnsRight == ASSUME RewireAssumption PROVE Spec => []ReturnsForAReason
<1>1. RewireKept => ReturnsForAReason
  BY DEF RewireKept, Ends, ReturnsForAReason
<1> QED
  BY <1>1, RewireInvariance, PTL

----------------------------------------------------------------------------
(* The command line (Rewire). *)

\* A set of numbers that is not empty has a least one.
LEMMA LeastNumber ==
  ASSUME NEW T \in SUBSET Nat, T # {}
  PROVE  \E m \in T : \A y \in T : m <= y
<1>1. \E m \in T : \A y \in T : ~ (<<y, m>> \in OpToRel(<, Nat))
  BY NatLessThanWellFounded, WFMin
<1>2. PICK m \in T : \A y \in T : ~ (<<y, m>> \in OpToRel(<, Nat))
  BY <1>1
<1>3. ASSUME NEW y \in T PROVE m <= y
  <2>1. <<y, m>> \in OpToRel(<, Nat) <=> y < m
    <3>1. <<y, m>> \in Nat \X Nat
      OBVIOUS
    <3> QED
      BY <3>1 DEF OpToRel
  <2>2. ~(y < m)
    BY <1>2, <2>1
  <2>3. y \in Nat /\ m \in Nat
    OBVIOUS
  <2> QED
    BY <2>2, <2>3
<1> QED
  BY <1>3

\* Induction, over a set of numbers.
LEMMA AllNat ==
  ASSUME NEW T \in SUBSET Nat, 0 \in T, \A i \in T : i + 1 \in T
  PROVE  T = Nat
<1> SUFFICES ASSUME T # Nat PROVE FALSE
  OBVIOUS
<1>1. Nat \ T \in SUBSET Nat /\ Nat \ T # {}
  OBVIOUS
<1>2. PICK m \in Nat \ T : \A y \in Nat \ T : m <= y
  BY <1>1, LeastNumber
<1>3. m # 0 /\ m \in Nat /\ m - 1 \in Nat
  BY <1>2
<1>4. m - 1 \in T
  BY <1>2, <1>3
<1>5. (m - 1) + 1 \in T
  BY <1>4
<1> QED
  BY <1>2, <1>3, <1>5

\* The digits after the dash are as many as there are.
LEMMA NumberLenIs ==
  ASSUME NEW token \in Seq(STRING), token # <<>>
  PROVE  /\ NumberLen(token) \in 0..(Len(token) - 1)
         /\ \A j \in 1..NumberLen(token) : Digit(token[j + 1])
<1> DEFINE T == {m \in Nat : m + 2 <= Len(token) => ~Digit(token[m + 2])}
<1> DEFINE L == Len(token)
<1>1. L \in Nat /\ L >= 1
  OBVIOUS
<1>2. L - 1 \in T
  BY <1>1
<1>3. PICK m \in T : \A y \in T : m <= y
  <2>1. T \in SUBSET Nat
    OBVIOUS
  <2> HIDE DEF T
  <2> QED
    BY <1>2, <2>1, LeastNumber
<1>4. m \in 0..(L - 1)
  BY <1>1, <1>2, <1>3
<1>5. ASSUME NEW j \in 1..m PROVE Digit(token[j + 1])
  <2>1. j - 1 \in Nat /\ ~(m <= j - 1) /\ (j - 1) + 2 = j + 1
    BY <1>4
  <2>2. j - 1 \notin T
    BY <2>1, <1>3
  <2> QED
    BY <2>1, <2>2
<1>6. m + 2 <= Len(token) => ~Digit(token[m + 2])
  BY <1>3
<1>7. \E k \in 0..(Len(token) - 1) :
        /\ \A j \in 1..k : Digit(token[j + 1])
        /\ k + 2 <= Len(token) => ~Digit(token[k + 2])
  <2> HIDE DEF T
  <2> QED
    BY <1>4, <1>5, <1>6
<1> QED
  BY <1>7 DEF NumberLen

\* Parts of a token are sequences of characters.
LEMMA NumberIs ==
  ASSUME NEW token \in Seq(STRING), token # <<>>
  PROVE  /\ Number(token) \in Seq(STRING) /\ Len(Number(token)) = NumberLen(token)
         /\ \A j \in 1..Len(Number(token)) : Digit(Number(token)[j])
<1> DEFINE L == NumberLen(token)
<1>1. L \in 0..(Len(token) - 1) /\ (\A j \in 1..L : Digit(token[j + 1]))
  BY NumberLenIs
<1> HIDE DEF L
<1>2. /\ SubSeq(token, 2, L + 1) \in Seq(STRING) /\ Len(SubSeq(token, 2, L + 1)) = L
      /\ \A j \in 1..L : SubSeq(token, 2, L + 1)[j] = token[j + 1]
  BY <1>1
<1>3. Number(token) = SubSeq(token, 2, L + 1)
  BY DEF Number, L
<1>4. Len(Number(token)) = L /\ (\A j \in 1..L : Number(token)[j] = token[j + 1])
  BY <1>2, <1>3
<1>5. \A j \in 1..L : Digit(Number(token)[j])
  BY <1>1, <1>4
<1> QED
  BY <1>2, <1>3, <1>4, <1>5 DEF L

\* A digit has a value.
LEMMA DigitValueTyped ==
  ASSUME NEW ch, Digit(ch)
  PROVE  DigitValue(ch) \in 0..9
<1>1. \E k \in 1..10 : Digits[k] = ch
  BY DEF Digit
<1>2. (CHOOSE k \in 1..10 : Digits[k] = ch) \in 1..10
  BY <1>1
<1> QED
  BY <1>2 DEF DigitValue

\* One number of the recursion that reads the digits.
ValueRow(s, f, k) == IF k = 0 THEN 0 ELSE 10 * f[k - 1] + DigitValue(s[k])

\* The function that reads the first digits exists, and gives numbers.
LEMMA ValuesExist ==
  ASSUME NEW s, NEW m \in Nat, \A j \in 1..m : DigitValue(s[j]) \in Nat
  PROVE  \E f : f = [k \in 0..m |-> ValueRow(s, f, k)]
<1> DEFINE T == {i \in Nat : \E f : f = [k \in 0..i |-> ValueRow(s, f, k)]}
<1>1. 0 \in T
  <2> DEFINE f == [k \in 0..0 |-> 0]
  <2>1. f = [k \in 0..0 |-> ValueRow(s, f, k)]
    BY DEF ValueRow
  <2> QED
    BY <2>1
<1>2. ASSUME NEW i \in T PROVE i + 1 \in T
  <2>1. PICK f : f = [k \in 0..i |-> ValueRow(s, f, k)]
    OBVIOUS
  <2> DEFINE g == [k \in 0..(i + 1) |-> ValueRow(s, f, k)]
  <2>2. \A k \in 0..i : g[k] = f[k]
    BY <2>1
  <2>3. ASSUME NEW k \in 0..(i + 1) PROVE ValueRow(s, f, k) = ValueRow(s, g, k)
    <3>1. CASE k = 0
      BY <3>1 DEF ValueRow
    <3>2. CASE k # 0
      <4>1. k - 1 \in 0..i
        BY <3>2
      <4>2. g[k - 1] = f[k - 1]
        BY <4>1, <2>2
      <4> HIDE DEF g
      <4> QED
        BY <3>2, <4>2 DEF ValueRow
    <3> QED
      BY <3>1, <3>2
  <2>4. g = [k \in 0..(i + 1) |-> ValueRow(s, g, k)]
    BY <2>3
  <2>5. \E h : h = [k \in 0..(i + 1) |-> ValueRow(s, h, k)]
    <3> HIDE DEF g
    <3> QED
      BY <2>4
  <2> QED
    BY <2>5
<1>3. T = Nat
  <2>1. T \in SUBSET Nat
    OBVIOUS
  <2> HIDE DEF T
  <2> QED
    BY <1>1, <1>2, <2>1, AllNat
<1> QED
  BY <1>3

\* The value of a sequence of digits is a number.
LEMMA ValueTyped ==
  ASSUME NEW s \in Seq(STRING), \A j \in 1..Len(s) : Digit(s[j])
  PROVE  Value(s) \in Nat
<1> DEFINE F == CHOOSE f : f = [k \in 0..Len(s) |-> ValueRow(s, f, k)]
<1>0. Len(s) \in Nat
  OBVIOUS
<1>1. \A j \in 1..Len(s) : DigitValue(s[j]) \in Nat
  BY DigitValueTyped
<1>2. \E f : f = [k \in 0..Len(s) |-> ValueRow(s, f, k)]
  BY <1>0, <1>1, ValuesExist
<1>3. F = [k \in 0..Len(s) |-> ValueRow(s, F, k)]
  BY <1>2
<1>4. Value(s) = F[Len(s)]
  BY DEF Value, ValueRow
<1> HIDE DEF F
<1> DEFINE T == {i \in Nat : i <= Len(s) => F[i] \in Nat}
<1>5. 0 \in T
  BY <1>0, <1>3 DEF ValueRow
<1>6. ASSUME NEW i \in T PROVE i + 1 \in T
  <2> SUFFICES ASSUME i + 1 <= Len(s) PROVE F[i + 1] \in Nat
    OBVIOUS
  <2>1. F[i] \in Nat /\ i \in Nat /\ i + 1 \in 0..Len(s) /\ i + 1 \in 1..Len(s)
    BY <1>0
  <2>2. F[i + 1] = ValueRow(s, F, i + 1)
    BY <1>3, <2>1
  <2>3. ValueRow(s, F, i + 1) = 10 * F[i] + DigitValue(s[i + 1])
    <3>1. i + 1 # 0 /\ (i + 1) - 1 = i
      BY <2>1
    <3> QED
      BY <3>1 DEF ValueRow
  <2> QED
    BY <1>1, <2>1, <2>2, <2>3
<1>7. T = Nat
  <2>1. T \in SUBSET Nat
    OBVIOUS
  <2> HIDE DEF T
  <2> QED
    BY <1>5, <1>6, <2>1, AllNat
<1> QED
  BY <1>0, <1>4, <1>7

\* What is left of the arguments after p of them.
Rest(args, p) == SubSeq(args, p + 1, Len(args))

\* The k-th argument starts with a dash and a number.
FlagAt(args, k) == k <= Len(args) /\ Flag(args[k]) /\ Number(args[k]) # <<>>
FlagsUpTo(args, m) == \A j \in 1..m : FlagAt(args, 2 * j - 1)

\* The redirections that have been parsed.
OpsRight ==
    /\ Len(ops) \in Nat /\ FlagsUpTo(line, Len(ops))
    /\ ops = [j \in 1..Len(ops) |-> Redirection(line, j)]

\* No flag follows them.
NoFlagAfter(args, m) == 2 * m + 1 <= Len(args) => ~Flag(args[2 * m + 1])
OpsOver == NoFlagAfter(line, Len(ops))

\* The words of the final command are the arguments that follow, without an empty one.
WordsFrom(cmd, args, m) ==
    /\ Len(cmd) \in Nat /\ 2 * m + Len(cmd) <= Len(args)
    /\ cmd = SubSeq(args, 2 * m + 1, 2 * m + Len(cmd))
    /\ \A k \in 1..Len(cmd) : cmd[k] # <<>>
Words == WordsFrom(finalcmd, line, Len(ops))
Looked == At(line, 2 * Len(ops) + Len(finalcmd) + 1)

\* Where the parser is.
AtCheck == ppc = "check" => source = line /\ ops = <<>> /\ finalcmd = <<>>
AtFd == ppc = "fd" => OpsRight /\ source = Rest(line, 2 * Len(ops)) /\ finalcmd = <<>>
AtCmd ==
    ppc = "cmd" =>
        /\ OpsRight /\ FlagAt(line, 2 * Len(ops) + 1)
        /\ source = Rest(line, 2 * Len(ops) + 1) /\ finalcmd = <<>>
        /\ dest = Value(Number(line[2 * Len(ops) + 1])) /\ mode = ModeOf(line[2 * Len(ops) + 1])
AtFinal ==
    ppc = "final" =>
        /\ OpsRight /\ OpsOver /\ Words
        /\ tok = Looked /\ source = Rest(line, 2 * Len(ops) + Len(finalcmd) + 1)
        /\ finalcmd # <<>> \/ tok # <<>>
AtStart ==
    ppc = "start" =>
        OpsRight /\ OpsOver /\ FinalMeant(finalcmd, Rest(line, 2 * Len(ops))) /\ Worded(line, started)
AtCommands ==
    ppc = "commands" => OpsRight /\ OpsOver /\ (finalcmd = <<>> \/ Words) /\ Looked = <<>>

\* The types.
ArgsTyped ==
    /\ line \in CommandLines /\ dest \in Nat
    /\ ppc \in {"check", "fd", "cmd", "final", "commands", "start", "over"}
    /\ Len(finalcmd) <= Len(line) + 1 /\ Len(ops) <= Len(line)
    /\ Len(ops) \in Nat /\ started \in 0..Len(ops)
    /\ ppc \notin {"start", "over"} => started = 0
    /\ parsed \in {"none", "usage", "help", "just a dash", "no command", "fatal", "run"}
    /\ parsed # "none" => ppc = "over"
LeftOver == \E k \in 0..Len(line) : source = Rest(line, k)

\* The inductive invariant.
ArgsKept ==
    /\ ArgsTyped /\ LeftOver
    /\ AtCheck /\ AtFd /\ AtCmd /\ AtFinal /\ AtCommands /\ AtStart /\ ParsedAsWritten

\* Taking an argument off what is left.
LEMMA RestIs ==
  ASSUME NEW args \in Seq(Seq(STRING)), NEW p \in Nat
  PROVE  /\ (Rest(args, p) = <<>>) <=> p >= Len(args)
         /\ (IF Rest(args, p) = <<>> THEN <<>> ELSE Head(Rest(args, p))) = At(args, p + 1)
         /\ (IF Rest(args, p) = <<>> THEN Rest(args, p) ELSE Tail(Rest(args, p))) = Rest(args, p + 1)
<1>0. Len(args) \in Nat
  OBVIOUS
<1>1. CASE p >= Len(args)
  <2>1. Rest(args, p) = <<>> /\ Rest(args, p + 1) = <<>>
    BY <1>0, <1>1 DEF Rest
  <2> QED
    BY <1>0, <1>1, <2>1 DEF At
<1>2. CASE p < Len(args)
  <2>1. p + 1 \in 1..(Len(args) + 1) /\ Len(args) \in 0..Len(args)
    BY <1>0, <1>2
  <2> DEFINE s == SubSeq(args, p + 1, Len(args))
  <2>2. /\ s \in Seq(Seq(STRING)) /\ Len(s) = Len(args) - p
        /\ \A i \in 1..(Len(args) - p) : s[i] = args[p + i]
    <3>1. /\ SubSeq(args, p + 1, Len(args)) \in Seq(Seq(STRING))
          /\ Len(SubSeq(args, p + 1, Len(args))) = Len(args) - p
          /\ \A i \in 1..(Len(args) - p) : SubSeq(args, p + 1, Len(args))[i] = args[p + i]
      BY <1>0, <1>2
    <3> QED
      BY <3>1
  <2>6. Rest(args, p) = s
    BY DEF Rest
  <2> HIDE DEF s
  <2>7. s # <<>>
    BY <1>0, <1>2, <2>2
  <2>3. Rest(args, p) # <<>> /\ Head(Rest(args, p)) = args[p + 1]
    <3>1. Head(s) = s[1] /\ s[1] = args[p + 1]
      BY <1>0, <1>2, <2>2, <2>7
    <3> QED
      BY <3>1, <2>6, <2>7
  <2>4. Tail(s) = SubSeq(args, p + 2, Len(args))
    <3>1. /\ SubSeq(args, p + 2, Len(args)) \in Seq(Seq(STRING))
          /\ Len(SubSeq(args, p + 2, Len(args))) = Len(args) - p - 1
          /\ \A i \in 1..(Len(args) - p - 1) : SubSeq(args, p + 2, Len(args))[i] = args[p + 1 + i]
      BY <1>0, <1>2
    <3>2. /\ Tail(s) \in Seq(Seq(STRING)) /\ Len(Tail(s)) = Len(args) - p - 1
          /\ \A i \in 1..(Len(args) - p - 1) : Tail(s)[i] = s[i + 1]
      BY <1>0, <1>2, <2>2, <2>7
    <3>3. \A i \in 1..(Len(args) - p - 1) : Tail(s)[i] = args[p + 1 + i]
      <4> SUFFICES ASSUME NEW i \in 1..(Len(args) - p - 1) PROVE Tail(s)[i] = args[p + 1 + i]
        OBVIOUS
      <4>1. i + 1 \in 1..(Len(args) - p) /\ p + (i + 1) = p + 1 + i
        BY <1>0, <1>2
      <4>2. s[i + 1] = args[p + (i + 1)]
        BY <4>1, <2>2
      <4> QED
        BY <3>2, <4>1, <4>2
    <3> QED
      BY <3>1, <3>2, <3>3, <1>0, <1>2, SeqEqual
  <2>5. (p + 1) + 1 = p + 2
    OBVIOUS
  <2> QED
    <3>1. Rest(args, p + 1) = Tail(Rest(args, p))
      BY <2>4, <2>5, <2>6 DEF Rest
    <3>2. At(args, p + 1) = args[p + 1]
      BY <1>0, <1>2 DEF At
    <3>3. ~(p >= Len(args))
      BY <1>0, <1>2
    <3> QED
      BY <2>3, <3>1, <3>2, <3>3
<1> QED
  BY <1>0, <1>1, <1>2

\* The flags at the first, third, ... place are as many as there are.
LEMMA PairsIs ==
  ASSUME NEW args \in Seq(Seq(STRING))
  PROVE  /\ Pairs(args) \in 0..Len(args)
         /\ \A k \in 1..Pairs(args) : 2 * k - 1 <= Len(args) /\ Flag(args[2 * k - 1])
         /\ NoFlagAfter(args, Pairs(args))
<1> DEFINE T == {m \in Nat : NoFlagAfter(args, m)}
<1>0. Len(args) \in Nat
  OBVIOUS
<1>1. Len(args) \in T
  BY <1>0 DEF NoFlagAfter
<1>2. PICK m \in T : \A y \in T : m <= y
  <2>1. T \in SUBSET Nat
    OBVIOUS
  <2> HIDE DEF T
  <2> QED
    BY <1>1, <2>1, LeastNumber
<1>3. m \in 0..Len(args)
  BY <1>0, <1>1, <1>2
<1>4. ASSUME NEW k \in 1..m PROVE 2 * k - 1 <= Len(args) /\ Flag(args[2 * k - 1])
  <2>1. k - 1 \in Nat /\ ~(m <= k - 1) /\ 2 * (k - 1) + 1 = 2 * k - 1
    BY <1>3
  <2>2. k - 1 \notin T
    BY <2>1, <1>2
  <2> QED
    BY <2>1, <2>2 DEF NoFlagAfter
<1>5. 2 * m + 1 <= Len(args) => ~Flag(args[2 * m + 1])
  BY <1>2 DEF NoFlagAfter
<1>6. \E p \in 0..Len(args) :
        /\ \A k \in 1..p : 2 * k - 1 <= Len(args) /\ Flag(args[2 * k - 1])
        /\ 2 * p + 1 <= Len(args) => ~Flag(args[2 * p + 1])
  <2> HIDE DEF T
  <2> QED
    BY <1>3, <1>4, <1>5
<1> DEFINE P == CHOOSE p \in 0..Len(args) :
        /\ \A k \in 1..p : 2 * k - 1 <= Len(args) /\ Flag(args[2 * k - 1])
        /\ 2 * p + 1 <= Len(args) => ~Flag(args[2 * p + 1])
<1>7. /\ P \in 0..Len(args)
      /\ \A k \in 1..P : 2 * k - 1 <= Len(args) /\ Flag(args[2 * k - 1])
      /\ 2 * P + 1 <= Len(args) => ~Flag(args[2 * P + 1])
  BY <1>6
<1>8. Pairs(args) = P
  BY DEF Pairs
<1> HIDE DEF P
<1> QED
  BY <1>7, <1>8 DEF NoFlagAfter

\* There are at least as many as have been found.
LEMMA PairsAtLeast ==
  ASSUME NEW args \in Seq(Seq(STRING)), NEW m \in Nat,
         \A j \in 1..m : 2 * j - 1 <= Len(args) /\ Flag(args[2 * j - 1])
  PROVE  m <= Pairs(args)
<1>1. Pairs(args) \in Nat /\ NoFlagAfter(args, Pairs(args))
  BY PairsIs
<1> SUFFICES ASSUME ~(m <= Pairs(args)) PROVE FALSE
  OBVIOUS
<1>2. Pairs(args) + 1 \in 1..m /\ 2 * (Pairs(args) + 1) - 1 = 2 * Pairs(args) + 1
  BY <1>1
<1>3. 2 * Pairs(args) + 1 <= Len(args) /\ Flag(args[2 * Pairs(args) + 1])
  BY <1>2
<1> QED
  BY <1>1, <1>3 DEF NoFlagAfter

\* And no more, where no flag follows.
LEMMA PairsAre ==
  ASSUME NEW args \in Seq(Seq(STRING)), NEW m \in Nat,
         \A j \in 1..m : 2 * j - 1 <= Len(args) /\ Flag(args[2 * j - 1]), NoFlagAfter(args, m)
  PROVE  Pairs(args) = m
<1>1. m <= Pairs(args)
  BY PairsAtLeast
<1>2. Pairs(args) \in Nat /\ (\A k \in 1..Pairs(args) : 2 * k - 1 <= Len(args) /\ Flag(args[2 * k - 1]))
  BY PairsIs
<1> SUFFICES ASSUME m < Pairs(args) PROVE FALSE
  BY <1>1, <1>2
<1>3. m + 1 \in 1..Pairs(args) /\ 2 * (m + 1) - 1 = 2 * m + 1
  BY <1>2
<1> QED
  BY <1>2, <1>3 DEF NoFlagAfter

\* The command line is a sequence of arguments.
LEMMA LineTyped ==
  ASSUME RewireArgsAssumption, line \in CommandLines
  PROVE  line \in Seq(Seq(STRING)) /\ Len(line) \in Nat
BY DEF RewireArgsAssumption

\* What has been parsed stays right.
LEMMA SameOps ==
  ASSUME UNCHANGED <<line, ops>>
  PROVE  (OpsRight => OpsRight') /\ (OpsOver => OpsOver')
BY DEF OpsRight, OpsOver

\* What is left of the line.
LEMMA LeftOverStep ==
  ASSUME RewireArgsAssumption, ArgsTyped, LeftOver, UNCHANGED line,
         UNCHANGED source \/ Advance
  PROVE  LeftOver'
<1>1. line \in Seq(Seq(STRING)) /\ Len(line) \in Nat
  BY LineTyped DEF ArgsTyped
<1>2. PICK k \in 0..Len(line) : source = Rest(line, k)
  BY DEF LeftOver
<1>3. k \in Nat
  BY <1>1
<1>4. /\ (Rest(line, k) = <<>>) <=> k >= Len(line)
      /\ (IF Rest(line, k) = <<>> THEN Rest(line, k) ELSE Tail(Rest(line, k))) = Rest(line, k + 1)
  BY <1>1, <1>3, RestIs
<1>5. CASE UNCHANGED source
  BY <1>2, <1>5 DEF LeftOver
<1>6. CASE Advance /\ source = <<>>
  <2>1. source' = source
    BY <1>6 DEF Advance
  <2> QED
    BY <1>2, <2>1 DEF LeftOver
<1>7. CASE Advance /\ source # <<>>
  <2>1. source' = Rest(line, k + 1)
    BY <1>2, <1>4, <1>7 DEF Advance
  <2>2. k + 1 \in 0..Len(line)
    BY <1>1, <1>2, <1>3, <1>4, <1>7
  <2> QED
    BY <2>1, <2>2 DEF LeftOver
<1> QED
  BY <1>5, <1>6, <1>7

\* checkarg (rewire.go).
LEMMA CheckargStep ==
  ASSUME RewireArgsAssumption, ArgsKept, Checkarg
  PROVE  ArgsKept'
<1>1. line \in Seq(Seq(STRING)) /\ Len(line) \in Nat
  BY LineTyped DEF ArgsKept, ArgsTyped
<1>2. /\ ppc = "check" /\ parsed = "none" /\ source = line /\ ops = <<>> /\ finalcmd = <<>>
  BY DEF ArgsKept, ArgsTyped, AtCheck, Checkarg
<1>3. UNCHANGED <<line, source, tok, dest, mode, ops, finalcmd, started>>
  BY DEF Checkarg
<1>4. /\ ppc' \in {"over", "fd"} /\ parsed' \in {"none", "usage", "help"}
      /\ parsed' # "none" => ppc' = "over"
  BY <1>2 DEF Checkarg, Over
<1>5. LeftOver'
  BY <1>3, LeftOverStep DEF ArgsKept
<1>6. ArgsTyped'
  BY <1>2, <1>3, <1>4 DEF ArgsKept, ArgsTyped
<1>7. line = Rest(line, 0)
  <2>1. Len(SubSeq(line, 1, Len(line))) = Len(line) /\ SubSeq(line, 1, Len(line)) \in Seq(Seq(STRING))
    BY <1>1
  <2>2. \A i \in 1..Len(line) : SubSeq(line, 1, Len(line))[i] = line[i]
    BY <1>1
  <2>3. SubSeq(line, 1, Len(line)) = line
    BY <1>1, <2>1, <2>2, SeqEqual
  <2> QED
    BY <2>3 DEF Rest
<1>8. AtFd'
  <2>1. Len(<<>>) = 0 /\ 2 * 0 = 0
    OBVIOUS
  <2>2. Len(ops) = 0 /\ 2 * Len(ops) = 0
    BY <1>2, <2>1
  <2>3. FlagsUpTo(line, Len(ops)) /\ ops = [j \in 1..Len(ops) |-> Redirection(line, j)]
    BY <1>2, <2>2 DEF FlagsUpTo
  <2>4. OpsRight
    BY <2>2, <2>3 DEF OpsRight
  <2>5. source = Rest(line, 2 * Len(ops))
    BY <1>2, <1>7, <2>2
  <2>6. source' = Rest(line', 2 * Len(ops')) /\ finalcmd' = <<>>
    BY <1>2, <1>3, <2>5
  <2> QED
    BY <1>3, <2>4, <2>6, SameOps DEF AtFd
<1>9. AtCheck' /\ AtCmd' /\ AtFinal' /\ AtCommands' /\ AtStart'
  BY <1>4 DEF AtCheck, AtCmd, AtFinal, AtCommands, AtStart
<1>10. ParsedAsWritten'
  BY <1>4 DEF ParsedAsWritten
<1> QED
  BY <1>5, <1>6, <1>8, <1>9, <1>10 DEF ArgsKept

\* parseFd (parser.go).
LEMMA ParseFdStep ==
  ASSUME RewireArgsAssumption, ArgsKept, ParseFd
  PROVE  ArgsKept'
<1> DEFINE m == Len(ops)
<1>1. line \in Seq(Seq(STRING)) /\ Len(line) \in Nat
  BY LineTyped DEF ArgsKept, ArgsTyped
<1>2. ppc = "fd" /\ parsed = "none" /\ OpsRight /\ source = Rest(line, 2 * m) /\ finalcmd = <<>>
  BY DEF ArgsKept, ArgsTyped, AtFd, ParseFd
<1>3. m \in Nat /\ FlagsUpTo(line, m) /\ ops = [j \in 1..m |-> Redirection(line, j)]
  BY <1>2 DEF OpsRight
<1>4. UNCHANGED <<line, ops, finalcmd, started>> /\ Advance
  BY DEF ParseFd
<1> DEFINE flag == At(line, 2 * m + 1)
<1>5. /\ (source = <<>>) <=> 2 * m >= Len(line)
      /\ Taken = flag
      /\ source' = Rest(line, 2 * m + 1)
  <2>1. 2 * m \in Nat
    BY <1>3
  <2>2. /\ (Rest(line, 2 * m) = <<>>) <=> 2 * m >= Len(line)
        /\ (IF Rest(line, 2 * m) = <<>> THEN <<>> ELSE Head(Rest(line, 2 * m))) = At(line, 2 * m + 1)
        /\ (IF Rest(line, 2 * m) = <<>> THEN Rest(line, 2 * m) ELSE Tail(Rest(line, 2 * m))) = Rest(line, 2 * m + 1)
    BY <1>1, <2>1, RestIs
  <2> HIDE DEF m
  <2> QED
    BY <1>2, <1>4, <2>2 DEF Taken, Advance
<1>6. LeftOver' /\ OpsRight' /\ finalcmd' = <<>>
  BY <1>2, <1>4, LeftOverStep, SameOps DEF ArgsKept
<1>7. ASSUME ppc' \in {"commands", "final", "cmd", "over"}, dest' \in Nat,
             parsed' \in {"none", "just a dash"}, parsed' # "none" => ppc' = "over"
      PROVE  ArgsTyped' /\ AtCheck' /\ AtFd' /\ AtStart'
  BY <1>2, <1>4, <1>7 DEF ArgsKept, ArgsTyped, AtCheck, AtFd, AtStart
<1>8. m' = m /\ line' = line
  BY <1>4
<1>9. flag # <<>> => 2 * m + 1 <= Len(line) /\ flag = line[2 * m + 1] /\ flag \in Seq(STRING) /\ source # <<>>
  <2>1. 2 * m + 1 \in Nat /\ 2 * m + 1 >= 1
    BY <1>3
  <2>2. 2 * m + 1 <= Len(line) => flag = line[2 * m + 1] /\ line[2 * m + 1] \in Seq(STRING) /\ ~(2 * m >= Len(line))
    BY <1>1, <2>1, <1>3 DEF At
  <2>3. ~(2 * m + 1 <= Len(line)) => flag = <<>>
    BY DEF At
  <2> HIDE DEF m, flag
  <2> QED
    BY <2>2, <2>3, <1>5
<1>10. CASE Taken = <<>>
  <2>1. ppc' = "commands" /\ dest' = dest /\ parsed' = "none"
    BY <1>2, <1>10 DEF ParseFd
  <2>2. dest' \in Nat
    BY <2>1 DEF ArgsKept, ArgsTyped
  <2>3. ArgsTyped' /\ AtCheck' /\ AtFd' /\ AtStart'
    BY <1>7, <2>1, <2>2
  <2>4. flag = <<>>
    BY <1>5, <1>10
  <2>5. NoFlagAfter(line, m)
    <3>1. 2 * m + 1 <= Len(line) => line[2 * m + 1] = <<>>
      BY <2>4 DEF At
    <3> QED
      BY <3>1 DEF NoFlagAfter, Flag
  <2>6. OpsOver'
    BY <1>8, <2>5 DEF OpsOver
  <2>7. Looked'
    = <<>>
    <3>1. Len(finalcmd') = 0
      BY <1>6
    <3>2. 2 * m + 0 + 1 = 2 * m + 1
      BY <1>3
    <3> QED
      BY <1>8, <2>4, <3>1, <3>2 DEF Looked
  <2>8. AtCmd' /\ AtFinal' /\ AtCommands'
    BY <2>1, <2>6, <2>7, <1>6 DEF AtCmd, AtFinal, AtCommands
  <2>9. ParsedAsWritten'
    BY <2>1 DEF ParsedAsWritten
  <2> QED
    BY <1>6, <2>3, <2>8, <2>9 DEF ArgsKept
<1>11. CASE Taken # <<>> /\ ~Flag(Taken)
  <2>1. ppc' = "final" /\ dest' = dest /\ parsed' = "none" /\ tok' = Taken
    BY <1>2, <1>5, <1>9, <1>11 DEF ParseFd
  <2>2. dest' \in Nat
    BY <2>1 DEF ArgsKept, ArgsTyped
  <2>3. ArgsTyped' /\ AtCheck' /\ AtFd' /\ AtStart'
    BY <1>7, <2>1, <2>2
  <2>4. flag # <<>> /\ flag = line[2 * m + 1] /\ 2 * m + 1 <= Len(line)
    BY <1>5, <1>9, <1>11
  <2>5. OpsOver'
    <3>1. ~Flag(line[2 * m + 1])
      BY <1>5, <1>11, <2>4
    <3> QED
      BY <1>8, <3>1 DEF OpsOver, NoFlagAfter
  <2>6. Len(finalcmd') = 0 /\ 2 * m + 0 + 1 = 2 * m + 1 /\ 2 * m + 0 = 2 * m /\ 2 * m <= Len(line)
    BY <1>1, <1>3, <1>6, <2>4
  <2>7. Words'
    <3>1. SubSeq(line, 2 * m + 1, 2 * m) = <<>>
      BY <1>1, <1>3
    <3> QED
      BY <1>6, <1>8, <2>6, <3>1 DEF Words, WordsFrom
  <2>8. tok' = Looked' /\ source' = Rest(line', 2 * m' + Len(finalcmd') + 1) /\ tok' # <<>>
    BY <1>5, <1>8, <2>1, <2>4, <2>6 DEF Looked
  <2>9. AtCmd' /\ AtFinal' /\ AtCommands'
    BY <2>1, <2>5, <2>7, <2>8, <1>6 DEF AtCmd, AtFinal, AtCommands
  <2>10. ParsedAsWritten'
    BY <2>1 DEF ParsedAsWritten
  <2> QED
    BY <1>6, <2>3, <2>9, <2>10 DEF ArgsKept
<1>12. CASE Flag(Taken) /\ Number(Taken) = <<>>
  <2>1. Taken # <<>>
    BY <1>12 DEF Flag
  <2>2. ppc' = "over" /\ dest' = dest /\ parsed' = "just a dash"
    BY <1>12, <2>1 DEF ParseFd, Over
  <2>3. dest' \in Nat
    BY <2>2 DEF ArgsKept, ArgsTyped
  <2>4. ArgsTyped' /\ AtCheck' /\ AtFd' /\ AtStart'
    BY <1>7, <2>2, <2>3
  <2>5. AtCmd' /\ AtFinal' /\ AtCommands'
    BY <2>2 DEF AtCmd, AtFinal, AtCommands
  <2>6. flag = line[2 * m + 1] /\ 2 * m + 1 <= Len(line) /\ Flag(flag) /\ Number(flag) = <<>>
    BY <1>5, <1>9, <1>12, <2>1
  <2>7. m + 1 <= Pairs(line)
    <3>1. ASSUME NEW j \in 1..(m + 1) PROVE 2 * j - 1 <= Len(line) /\ Flag(line[2 * j - 1])
      <4>1. CASE j \in 1..m
        BY <1>3, <4>1 DEF FlagsUpTo, FlagAt
      <4>2. CASE j = m + 1
        <5>1. 2 * j - 1 = 2 * m + 1
          BY <1>3, <4>2
        <5> QED
          BY <5>1, <2>6
      <4> QED
        BY <1>3, <4>1, <4>2
    <3>2. m + 1 \in Nat
      BY <1>3
    <3> QED
      BY <1>1, <3>1, <3>2, PairsAtLeast
  <2>8. Pairs(line) \in Nat
    BY <1>1, PairsIs
  <2>9. \E k \in 1..Pairs(line) : Number(line[2 * k - 1]) = <<>>
    <3>1. m + 1 \in 1..Pairs(line) /\ 2 * (m + 1) - 1 = 2 * m + 1
      BY <1>3, <2>7, <2>8
    <3>2. Number(line[2 * (m + 1) - 1]) = <<>>
      BY <3>1, <2>6
    <3> QED
      BY <3>1, <3>2
  <2>10. started' = 0
    BY <1>2, <1>4 DEF ArgsKept, ArgsTyped
  <2>11. ParsedAsWritten'
    <3>1. Worded(line', started')
      BY <2>10 DEF Worded
    <3> QED
      BY <1>8, <2>2, <2>9, <2>10, <3>1 DEF ParsedAsWritten
  <2> QED
    BY <1>6, <2>4, <2>5, <2>11 DEF ArgsKept
<1>13. CASE Flag(Taken) /\ Number(Taken) # <<>>
  <2>1. Taken # <<>>
    BY <1>13 DEF Flag
  <2>2. ppc' = "cmd" /\ dest' = Value(Number(Taken)) /\ mode' = ModeOf(Taken) /\ parsed' = "none"
    BY <1>2, <1>13, <2>1 DEF ParseFd
  <2>3. flag = line[2 * m + 1] /\ 2 * m + 1 <= Len(line) /\ flag \in Seq(STRING) /\ flag # <<>> /\ flag = Taken
    BY <1>5, <1>9, <2>1
  <2>4. dest' \in Nat
    <3>1. /\ Number(flag) \in Seq(STRING)
          /\ \A j \in 1..Len(Number(flag)) : Digit(Number(flag)[j])
      <4> HIDE DEF flag
      <4> QED
        BY <2>3, NumberIs
    <3>2. Value(Number(flag)) \in Nat
      BY <3>1, ValueTyped
    <3> QED
      BY <2>2, <2>3, <3>2
  <2>5. ArgsTyped' /\ AtCheck' /\ AtFd' /\ AtStart'
    BY <1>7, <2>2, <2>4
  <2>6. FlagAt(line, 2 * m + 1)
    BY <1>13, <2>3 DEF FlagAt
  <2>7. AtCmd'
    BY <1>5, <1>6, <1>8, <2>2, <2>3, <2>6 DEF AtCmd
  <2>8. AtFinal' /\ AtCommands'
    BY <2>2 DEF AtFinal, AtCommands
  <2>9. ParsedAsWritten'
    BY <2>2 DEF ParsedAsWritten
  <2> QED
    BY <1>6, <2>5, <2>7, <2>8, <2>9 DEF ArgsKept
<1> QED
  BY <1>10, <1>11, <1>12, <1>13 DEF Flag

\* parseCmd (parser.go).
LEMMA ParseCmdStep ==
  ASSUME RewireArgsAssumption, ArgsKept, ParseCmd
  PROVE  ArgsKept'
<1> DEFINE m == Len(ops)
<1>1. line \in Seq(Seq(STRING)) /\ Len(line) \in Nat
  BY LineTyped DEF ArgsKept, ArgsTyped
<1>2. /\ ppc = "cmd" /\ parsed = "none" /\ OpsRight /\ FlagAt(line, 2 * m + 1)
      /\ source = Rest(line, 2 * m + 1) /\ finalcmd = <<>>
      /\ dest = Value(Number(line[2 * m + 1])) /\ mode = ModeOf(line[2 * m + 1])
  BY DEF ArgsKept, ArgsTyped, AtCmd, ParseCmd
<1>3. m \in Nat /\ FlagsUpTo(line, m) /\ ops = [j \in 1..m |-> Redirection(line, j)]
  BY <1>2 DEF OpsRight
<1>4. /\ UNCHANGED <<line, dest, finalcmd, started, parsed>> /\ Advance /\ ppc' = "fd"
      /\ ops' = Append(ops, [fd |-> dest, mode |-> mode, cmd |-> Taken])
  BY DEF ParseCmd, OpLast
<1>5. Taken = At(line, 2 * (m + 1)) /\ source' = Rest(line, 2 * (m + 1))
  <2>1. 2 * m + 1 \in Nat /\ (2 * m + 1) + 1 = 2 * (m + 1)
    BY <1>3
  <2>2. /\ (IF Rest(line, 2 * m + 1) = <<>> THEN <<>> ELSE Head(Rest(line, 2 * m + 1))) = At(line, 2 * (m + 1))
        /\ (IF Rest(line, 2 * m + 1) = <<>> THEN Rest(line, 2 * m + 1) ELSE Tail(Rest(line, 2 * m + 1)))
             = Rest(line, 2 * (m + 1))
    BY <1>1, <2>1, RestIs
  <2> HIDE DEF m
  <2> QED
    BY <1>2, <1>4, <2>2 DEF Taken, Advance
<1>6. LeftOver'
  BY <1>4, LeftOverStep DEF ArgsKept
<1>7. [fd |-> dest, mode |-> mode, cmd |-> Taken] = Redirection(line, m + 1)
  <2>1. 2 * (m + 1) - 1 = 2 * m + 1
    BY <1>3
  <2> QED
    BY <1>2, <1>5, <2>1 DEF Redirection
<1>8. ops' = [j \in 1..(m + 1) |-> Redirection(line, j)] /\ Len(ops') = m + 1
  <2> HIDE DEF m
  <2>1. ops' = Append([j \in 1..m |-> Redirection(line, j)], Redirection(line, m + 1))
    BY <1>3, <1>4, <1>7
  <2>2. Append([j \in 1..m |-> Redirection(line, j)], Redirection(line, m + 1))
          = [j \in 1..(m + 1) |-> Redirection(line, j)]
    BY <1>3
  <2> QED
    BY <1>3, <2>1, <2>2
<1>9. FlagsUpTo(line, m + 1)
  <2>1. ASSUME NEW j \in 1..(m + 1) PROVE FlagAt(line, 2 * j - 1)
    <3>1. CASE j \in 1..m
      BY <1>3, <3>1 DEF FlagsUpTo
    <3>2. CASE j = m + 1
      <4>1. 2 * j - 1 = 2 * m + 1
        BY <1>3, <3>2
      <4> QED
        BY <1>2, <4>1
    <3> QED
      BY <1>3, <3>1, <3>2
  <2> QED
    BY <2>1 DEF FlagsUpTo
<1>10. OpsRight'
  <2>1. m + 1 \in Nat
    BY <1>3
  <2> HIDE DEF m
  <2> QED
    BY <1>4, <1>8, <1>9, <2>1 DEF OpsRight
<1>11. AtFd'
  <2> HIDE DEF m
  <2> QED
    BY <1>2, <1>4, <1>5, <1>8, <1>10 DEF AtFd
<1>12. ArgsTyped'
  <2>1. 2 * m + 1 <= Len(line)
    BY <1>2 DEF FlagAt
  <2>2. m + 1 <= Len(line)
    BY <1>1, <1>3, <2>1
  <2>3. Len(ops') \in Nat /\ 0 <= Len(ops')
    BY <1>3, <1>8
  <2> HIDE DEF m
  <2> QED
    BY <1>2, <1>4, <1>8, <2>2, <2>3 DEF ArgsKept, ArgsTyped
<1>13. AtCheck' /\ AtCmd' /\ AtFinal' /\ AtCommands' /\ AtStart'
  BY <1>4 DEF AtCheck, AtCmd, AtFinal, AtCommands, AtStart
<1>14. ParsedAsWritten'
  BY <1>2, <1>4 DEF ParsedAsWritten
<1> QED
  BY <1>6, <1>11, <1>12, <1>13, <1>14 DEF ArgsKept

\* A part of the arguments.
LEMMA PartIs ==
  ASSUME NEW args \in Seq(Seq(STRING)), NEW p \in Nat, NEW q \in Nat, p + q <= Len(args)
  PROVE  /\ SubSeq(args, p + 1, p + q) \in Seq(Seq(STRING)) /\ Len(SubSeq(args, p + 1, p + q)) = q
         /\ \A i \in 1..q : SubSeq(args, p + 1, p + q)[i] = args[p + i]
<1>1. Len(args) \in Nat
  OBVIOUS
<1> QED
  BY <1>1

\* The next word of the final command.
LEMMA OneMoreWord ==
  ASSUME NEW args \in Seq(Seq(STRING)), NEW cmd, NEW m \in Nat, WordsFrom(cmd, args, m),
         NEW word, word = At(args, 2 * m + Len(cmd) + 1), word # <<>>
  PROVE  WordsFrom(Append(cmd, word), args, m) /\ Len(Append(cmd, word)) = Len(cmd) + 1
<1> DEFINE f == Len(cmd)
<1>0. Len(args) \in Nat
  OBVIOUS
<1>1. /\ f \in Nat /\ 2 * m + f <= Len(args)
      /\ cmd = SubSeq(args, 2 * m + 1, 2 * m + f)
      /\ \A k \in 1..f : cmd[k] # <<>>
  BY DEF WordsFrom
<1>2. 2 * m + f + 1 <= Len(args) /\ word = args[2 * m + f + 1]
  BY <1>0, <1>1 DEF At
<1> HIDE DEF f
<1>3. /\ SubSeq(args, 2 * m + 1, 2 * m + f) \in Seq(Seq(STRING))
      /\ \A i \in 1..f : SubSeq(args, 2 * m + 1, 2 * m + f)[i] = args[2 * m + i]
      /\ Len(SubSeq(args, 2 * m + 1, 2 * m + f)) = f
  <2>1. 2 * m \in Nat /\ f \in Nat /\ 2 * m + f <= Len(args)
    BY <1>1
  <2> QED
    BY <2>1, PartIs
<1>4. /\ SubSeq(args, 2 * m + 1, 2 * m + (f + 1)) \in Seq(Seq(STRING))
      /\ \A i \in 1..(f + 1) : SubSeq(args, 2 * m + 1, 2 * m + (f + 1))[i] = args[2 * m + i]
      /\ Len(SubSeq(args, 2 * m + 1, 2 * m + (f + 1))) = f + 1
  <2>1. \A x, y, z \in Nat : 2 * x + y + 1 <= z => 2 * x \in Nat /\ y + 1 \in Nat /\ 2 * x + (y + 1) <= z
    OBVIOUS
  <2>2. f \in Nat /\ 2 * m + f + 1 <= Len(args)
    BY <1>1, <1>2
  <2>3. 2 * m \in Nat /\ f + 1 \in Nat /\ 2 * m + (f + 1) <= Len(args)
    BY <1>0, <2>1, <2>2
  <2> QED
    BY <2>3, PartIs
<1>5. cmd \in Seq(Seq(STRING)) /\ Len(cmd) = f /\ (\A i \in 1..f : cmd[i] = args[2 * m + i])
  BY <1>1, <1>3
<1>6. word \in Seq(STRING) /\ word = args[2 * m + (f + 1)]
  BY <1>0, <1>1, <1>2
<1>7. /\ Append(cmd, word) \in Seq(Seq(STRING)) /\ Len(Append(cmd, word)) = f + 1
      /\ \A i \in 1..f : Append(cmd, word)[i] = cmd[i]
      /\ Append(cmd, word)[f + 1] = word
  BY <1>1, <1>5, <1>6, SMTT(60)
<1>8. \A i \in 1..(f + 1) : Append(cmd, word)[i] = args[2 * m + i]
  <2> SUFFICES ASSUME NEW i \in 1..(f + 1) PROVE Append(cmd, word)[i] = args[2 * m + i]
    OBVIOUS
  <2>1. i \in 1..f \/ i = f + 1
    BY <1>1
  <2>2. CASE i \in 1..f
    BY <1>5, <1>7, <2>2
  <2>3. CASE i = f + 1
    BY <1>6, <1>7, <2>3
  <2> QED
    BY <2>1, <2>2, <2>3
<1>9. Append(cmd, word) = SubSeq(args, 2 * m + 1, 2 * m + (f + 1))
  <2> DEFINE longer == Append(cmd, word)
  <2> DEFINE part == SubSeq(args, 2 * m + 1, 2 * m + (f + 1))
  <2>1. longer \in Seq(Seq(STRING)) /\ part \in Seq(Seq(STRING)) /\ Len(longer) = Len(part)
    BY <1>4, <1>7
  <2>2. \A i \in 1..Len(longer) : longer[i] = part[i]
    BY <1>4, <1>7, <1>8
  <2> HIDE DEF longer, part
  <2>3. longer = part
    BY <2>1, <2>2, SeqEqual
  <2> QED
    BY <2>3 DEF longer, part
<1>10. \A k \in 1..(f + 1) : Append(cmd, word)[k] # <<>>
  <2>1. \A k \in 1..f : cmd[k] # <<>>
    BY <1>1
  <2>2. \A k \in 1..(f + 1) : k \in 1..f \/ k = f + 1
    BY <1>1
  <2> QED
    BY <1>7, <2>1, <2>2
<1>11. f + 1 \in Nat /\ 2 * m + (f + 1) <= Len(args)
  BY <1>1, <1>2
<1> QED
  BY <1>5, <1>7, <1>9, <1>10, <1>11 DEF WordsFrom

\* parseFinal (parser.go).
LEMMA ParseFinalStep ==
  ASSUME RewireArgsAssumption, ArgsKept, ParseFinal
  PROVE  ArgsKept'
<1> DEFINE m == Len(ops)
<1> DEFINE f == Len(finalcmd)
<1>1. line \in Seq(Seq(STRING)) /\ Len(line) \in Nat
  BY LineTyped DEF ArgsKept, ArgsTyped
<1>2. /\ ppc = "final" /\ parsed = "none" /\ OpsRight /\ OpsOver /\ Words
      /\ tok = Looked /\ source = Rest(line, 2 * m + f + 1)
      /\ finalcmd # <<>> \/ tok # <<>>
  BY DEF ArgsKept, ArgsTyped, AtFinal, ParseFinal
<1>3. m \in Nat /\ f \in Nat /\ 2 * m + f <= Len(line)
  BY <1>2 DEF OpsRight, Words, WordsFrom
<1>4. UNCHANGED <<line, ops, dest, started, parsed>> /\ OpsRight' /\ OpsOver'
  BY <1>2, SameOps DEF ParseFinal
<1>5. LeftOver'
  <2>1. UNCHANGED source \/ Advance
    BY DEF ParseFinal
  <2> QED
    BY <1>4, <2>1, LeftOverStep DEF ArgsKept
<1>6. CASE tok = <<>>
  <2>1. ppc' = "commands" /\ UNCHANGED <<tok, finalcmd>>
    BY <1>6 DEF ParseFinal
  <2>2. Words' /\ Looked' = <<>>
    BY <1>2, <1>4, <1>6, <2>1 DEF Words, Looked
  <2>3. ArgsTyped'
    BY <1>2, <1>4, <2>1 DEF ArgsKept, ArgsTyped
  <2>4. AtCheck' /\ AtFd' /\ AtCmd' /\ AtFinal' /\ AtCommands' /\ AtStart'
    BY <1>4, <2>1, <2>2 DEF AtCheck, AtFd, AtCmd, AtFinal, AtCommands, AtStart
  <2>5. ParsedAsWritten'
    BY <1>2, <1>4 DEF ParsedAsWritten
  <2> QED
    BY <1>5, <2>3, <2>4, <2>5 DEF ArgsKept
<1>7. CASE tok # <<>>
  <2>1. finalcmd' = Append(finalcmd, tok) /\ Advance /\ tok' = Taken /\ ppc' = "final"
    BY <1>2, <1>7 DEF ParseFinal
  <2>2. WordsFrom(finalcmd', line, m) /\ Len(finalcmd') = f + 1
    <3>1. WordsFrom(finalcmd, line, m) /\ tok = At(line, 2 * m + Len(finalcmd) + 1)
      BY <1>2 DEF Words, Looked
    <3> QED
      BY <1>1, <1>3, <1>7, <2>1, <3>1, OneMoreWord
  <2>3. Words'
    BY <1>4, <2>2 DEF Words
  <2>4. tok' = At(line, 2 * m + (f + 1) + 1) /\ source' = Rest(line, 2 * m + (f + 1) + 1)
    <3>1. 2 * m + f + 1 \in Nat /\ (2 * m + f + 1) + 1 = 2 * m + (f + 1) + 1
      BY <1>3
    <3> DEFINE p == 2 * m + f + 1
    <3>2. /\ (IF Rest(line, p) = <<>> THEN <<>> ELSE Head(Rest(line, p))) = At(line, p + 1)
          /\ (IF Rest(line, p) = <<>> THEN Rest(line, p) ELSE Tail(Rest(line, p))) = Rest(line, p + 1)
      BY <1>1, <3>1, RestIs
    <3>3. source = Rest(line, p)
      BY <1>2
    <3>4. tok' = At(line, p + 1) /\ source' = Rest(line, p + 1)
      <4> HIDE DEF p, m, f
      <4> QED
        BY <2>1, <3>2, <3>3 DEF Taken, Advance
    <3> QED
      BY <3>1, <3>4
  <2>5. tok' = Looked' /\ source' = Rest(line', 2 * m' + Len(finalcmd') + 1) /\ finalcmd' # <<>>
    <3>1. finalcmd' # <<>>
      BY <1>3, <2>2
    <3> QED
      BY <1>4, <2>2, <2>4, <3>1 DEF Looked
  <2>6. AtFinal'
    BY <1>4, <2>3, <2>5 DEF AtFinal
  <2>7. ArgsTyped'
    <3>1. f + 1 <= Len(line) + 1
      BY <1>1, <1>3
    <3>2. Len(finalcmd') <= Len(line') + 1
      BY <1>4, <2>2, <3>1
    <3> HIDE DEF m, f
    <3> QED
      BY <1>2, <1>4, <2>1, <3>2 DEF ArgsKept, ArgsTyped
  <2>8. AtCheck' /\ AtFd' /\ AtCmd' /\ AtCommands' /\ AtStart'
    BY <2>1 DEF AtCheck, AtFd, AtCmd, AtCommands, AtStart
  <2>9. ParsedAsWritten'
    BY <1>2, <1>4 DEF ParsedAsWritten
  <2> QED
    BY <1>5, <2>6, <2>7, <2>8, <2>9 DEF ArgsKept
<1> QED
  BY <1>6, <1>7

\* The final command is what follows, up to an empty argument.
FinalIs(cmd, rest) ==
    \/ cmd = Cat /\ (rest = <<>> \/ rest[1] = <<>>)
    \/ /\ IsPrefix(cmd, rest) /\ cmd # <<>>
       /\ \A k \in DOMAIN cmd : cmd[k] # <<>>
       /\ Len(cmd) < Len(rest) => rest[Len(cmd) + 1] = <<>>

\* The words found are the final command that was meant.
LEMMA FinalRight ==
  ASSUME NEW args \in Seq(Seq(STRING)), NEW m \in Nat, NEW cmd,
         cmd = <<>> \/ WordsFrom(cmd, args, m), At(args, 2 * m + Len(cmd) + 1) = <<>>
  PROVE  FinalIs(IF cmd = <<>> THEN Cat ELSE cmd, SubSeq(args, 2 * m + 1, Len(args)))
<1> DEFINE rest == SubSeq(args, 2 * m + 1, Len(args))
<1>0. Len(args) \in Nat
  OBVIOUS
<1>1. 2 * m + 1 <= Len(args) =>
        rest \in Seq(Seq(STRING)) /\ Len(rest) = Len(args) - 2 * m /\ \A i \in 1..(Len(args) - 2 * m) : rest[i] = args[2 * m + i]
  BY <1>0
<1>2. ~(2 * m + 1 <= Len(args)) => rest = <<>>
  BY <1>0
<1> HIDE DEF rest
<1>3. CASE cmd = <<>>
  <2>1. Len(cmd) = 0 /\ 2 * m + 0 + 1 = 2 * m + 1
    BY <1>3
  <2>2. At(args, 2 * m + 1) = <<>>
    BY <2>1
  <2>3. rest = <<>> \/ rest[1] = <<>>
    <3>1. CASE 2 * m + 1 <= Len(args)
      <4>1. 1 \in 1..(Len(args) - 2 * m)
        BY <1>0, <3>1
      <4>2. rest[1] = args[2 * m + 1]
        BY <1>1, <3>1, <4>1
      <4> QED
        BY <2>2, <3>1, <4>2 DEF At
    <3> QED
      BY <1>2, <3>1
  <2> QED
    BY <1>3, <2>3 DEF FinalIs, rest
<1>4. CASE cmd # <<>>
  <2> DEFINE f == Len(cmd)
  <2>1. /\ f \in Nat /\ 2 * m + f <= Len(args)
        /\ cmd = SubSeq(args, 2 * m + 1, 2 * m + f)
        /\ \A k \in 1..f : cmd[k] # <<>>
    BY <1>4 DEF WordsFrom
  <2>2. At(args, 2 * m + f + 1) = <<>>
    OBVIOUS
  <2>3. Len(cmd) = f
    OBVIOUS
  <2> HIDE DEF f
  <2>4. /\ SubSeq(args, 2 * m + 1, 2 * m + f) \in Seq(Seq(STRING))
        /\ \A i \in 1..f : SubSeq(args, 2 * m + 1, 2 * m + f)[i] = args[2 * m + i]
    <3>1. 2 * m \in Nat /\ f \in Nat /\ 2 * m + f <= Len(args)
      BY <2>1
    <3> QED
      BY <3>1, PartIs
  <2>5. cmd \in Seq(Seq(STRING)) /\ (\A i \in 1..f : cmd[i] = args[2 * m + i]) /\ DOMAIN cmd = 1..f
    BY <2>1, <2>3, <2>4
  <2>6. f # 0
    BY <1>4, <2>3, <2>5
  <2>7. 2 * m + 1 <= Len(args)
    BY <1>0, <2>1, <2>6
  <2>8. f <= Len(rest) /\ rest \in Seq(Seq(STRING)) /\ Len(rest) \in Nat
    BY <1>0, <1>1, <2>1, <2>7
  <2>9. IsPrefix(cmd, rest)
    <3>1. /\ SubSeq(rest, 1, f) \in Seq(Seq(STRING)) /\ Len(SubSeq(rest, 1, f)) = f
          /\ \A i \in 1..f : SubSeq(rest, 1, f)[i] = rest[i]
      BY <2>1, <2>8, SMTT(60)
    <3>2. \A i \in 1..f : rest[i] = args[2 * m + i]
      BY <1>0, <1>1, <2>1, <2>7
    <3>3. SubSeq(rest, 1, f) = cmd
      BY <2>3, <2>5, <3>1, <3>2, SeqEqual
    <3>4. /\ SubSeq(cmd, 1, f) \in Seq(Seq(STRING)) /\ Len(SubSeq(cmd, 1, f)) = f
          /\ \A i \in 1..f : SubSeq(cmd, 1, f)[i] = cmd[i]
      BY <2>1, <2>3, <2>5
    <3>5. SubSeq(cmd, 1, f) = cmd
      BY <2>3, <2>5, <3>4, SeqEqual
    <3> QED
      BY <2>3, <2>8, <3>3, <3>5 DEF IsPrefix
  <2>10. f < Len(rest) => rest[f + 1] = <<>>
    <3> SUFFICES ASSUME f < Len(rest) PROVE rest[f + 1] = <<>>
      OBVIOUS
    <3>1. f + 1 \in 1..(Len(args) - 2 * m) /\ 2 * m + f + 1 <= Len(args) /\ 2 * m + (f + 1) = 2 * m + f + 1
      BY <1>0, <1>1, <2>1, <2>7
    <3>2. rest[f + 1] = args[2 * m + (f + 1)]
      BY <1>1, <2>7, <3>1
    <3> QED
      BY <2>2, <3>1, <3>2 DEF At
  <2>11. \A k \in DOMAIN cmd : cmd[k] # <<>>
    BY <2>1, <2>5
  <2> QED
    BY <1>4, <2>3, <2>9, <2>10, <2>11 DEF FinalIs, rest
<1> QED
  BY <1>3, <1>4

\* Without an empty argument, that is all of what follows.
LEMMA MeantRight ==
  ASSUME NEW rest \in Seq(Seq(STRING)), NEW S, NEW cmd \in Seq(S), FinalIs(cmd, rest)
  PROVE  FinalMeant(cmd, rest)
<1> SUFFICES ASSUME \A k \in DOMAIN rest : rest[k] # <<>> PROVE cmd = IF rest = <<>> THEN Cat ELSE rest
  BY DEF FinalMeant
<1>0. Len(rest) \in Nat /\ DOMAIN rest = 1..Len(rest)
  OBVIOUS
<1>1. rest # <<>> => 1 \in DOMAIN rest
  BY <1>0
<1>2. CASE cmd = Cat /\ (rest = <<>> \/ rest[1] = <<>>)
  BY <1>1, <1>2
<1>3. CASE /\ IsPrefix(cmd, rest) /\ cmd # <<>>
           /\ Len(cmd) < Len(rest) => rest[Len(cmd) + 1] = <<>>
  <2>1. Len(cmd) <= Len(rest) /\ SubSeq(cmd, 1, Len(cmd)) = SubSeq(rest, 1, Len(cmd))
    BY <1>3 DEF IsPrefix
  <2>2. Len(cmd) \in Nat /\ Len(cmd) # 0
    BY <1>3
  <2>3. ~(Len(cmd) < Len(rest))
    <3> SUFFICES ASSUME Len(cmd) < Len(rest) PROVE FALSE
      OBVIOUS
    <3>1. Len(cmd) + 1 \in DOMAIN rest
      BY <1>0, <2>2
    <3> QED
      BY <1>3, <3>1
  <2>4. Len(cmd) = Len(rest)
    BY <1>0, <2>1, <2>2, <2>3
  <2>5. SubSeq(cmd, 1, Len(cmd)) = cmd /\ SubSeq(rest, 1, Len(rest)) = rest
    OBVIOUS
  <2>6. cmd = rest /\ rest # <<>>
    BY <1>3, <2>1, <2>4, <2>5
  <2> QED
    BY <2>6
<1> QED
  BY <1>2, <1>3 DEF FinalIs

\* main (rewire.go).
LEMMA CommandsStep ==
  ASSUME RewireArgsAssumption, ArgsKept, Commands
  PROVE  ArgsKept'
<1> DEFINE m == Len(ops)
<1>1. line \in Seq(Seq(STRING)) /\ Len(line) \in Nat
  BY LineTyped DEF ArgsKept, ArgsTyped
<1>2. /\ ppc = "commands" /\ OpsRight /\ OpsOver /\ (finalcmd = <<>> \/ Words) /\ Looked = <<>>
      /\ parsed = "none" /\ started = 0
  BY DEF ArgsKept, ArgsTyped, AtCommands, Commands
<1>3. m \in Nat
  BY <1>2 DEF OpsRight
<1>4. /\ UNCHANGED <<line, source, tok, dest, mode, ops, started, parsed>> /\ ppc' = "start"
      /\ finalcmd' = IF finalcmd = <<>> THEN Cat ELSE finalcmd
  BY DEF Commands
<1>5. LeftOver'
  BY <1>4, LeftOverStep DEF ArgsKept
<1>6. ArgsTyped'
  <2>1. Len(Cat) = 1
    BY DEF Cat
  <2>2. Len(finalcmd') <= Len(line) + 1
    <3>1. CASE finalcmd = <<>>
      <4>1. Len(finalcmd') = 1
        BY <1>4, <2>1, <3>1
      <4> QED
        BY <1>1, <4>1
    <3>2. CASE finalcmd # <<>>
      <4>1. finalcmd' = finalcmd
        BY <1>4, <3>2
      <4> QED
        BY <4>1 DEF ArgsKept, ArgsTyped
    <3> QED
      BY <3>1, <3>2
  <2> QED
    BY <1>2, <1>4, <2>2 DEF ArgsKept, ArgsTyped
<1>7. AtCheck' /\ AtFd' /\ AtCmd' /\ AtFinal' /\ AtCommands'
  BY <1>4 DEF AtCheck, AtFd, AtCmd, AtFinal, AtCommands
<1>8. FinalMeant(finalcmd', Rest(line, 2 * m))
  <2>1. finalcmd = <<>> \/ WordsFrom(finalcmd, line, m)
    BY <1>2 DEF Words
  <2>2. At(line, 2 * m + Len(finalcmd) + 1) = <<>>
    BY <1>2 DEF Looked
  <2>3. FinalIs(finalcmd', SubSeq(line, 2 * m + 1, Len(line)))
    <3> HIDE DEF m
    <3> QED
      BY <1>1, <1>3, <1>4, <2>1, <2>2, FinalRight
  <2>4. SubSeq(line, 2 * m + 1, Len(line)) \in Seq(Seq(STRING))
    BY <1>1, <1>3
  <2>5. \E S : finalcmd' \in Seq(S)
    <3>1. CASE finalcmd = <<>>
      <4>1. Cat \in Seq({<<"c", "a", "t">>})
        BY DEF Cat
      <4> QED
        BY <1>4, <3>1, <4>1
    <3>2. CASE finalcmd # <<>>
      <4>1. finalcmd = SubSeq(line, 2 * m + 1, 2 * m + Len(finalcmd)) /\ Len(finalcmd) \in Nat
            /\ 2 * m + Len(finalcmd) <= Len(line)
        BY <2>1, <3>2 DEF WordsFrom
      <4>2. 2 * m \in Nat
        BY <1>3
      <4>3. finalcmd \in Seq(Seq(STRING))
        <5> HIDE DEF m
        <5> QED
          BY <1>1, <4>1, <4>2, PartIs, ZenonT(60)
      <4> QED
        BY <1>4, <3>2, <4>3
    <3> QED
      BY <3>1, <3>2
  <2> HIDE DEF m
  <2> QED
    BY <2>3, <2>4, <2>5, MeantRight DEF Rest
<1>9. AtStart'
  <2>1. OpsRight' /\ OpsOver' /\ FinalMeant(finalcmd', Rest(line', 2 * Len(ops')))
    BY <1>2, <1>4, <1>8, SameOps
  <2>2. Worded(line', started')
    BY <1>2, <1>4 DEF Worded
  <2> QED
    BY <2>1, <2>2 DEF AtStart
<1>10. ParsedAsWritten'
  BY <1>2, <1>4 DEF ParsedAsWritten
<1> QED
  BY <1>5, <1>6, <1>7, <1>9, <1>10 DEF ArgsKept

\* The redirections that were parsed are those of the line.
LEMMA OpsAre ==
  ASSUME RewireArgsAssumption, ArgsKept, ppc = "start"
  PROVE  /\ Len(ops) \in Nat /\ started \in 0..Len(ops) /\ Pairs(line) = Len(ops)
         /\ ~ \E k \in 1..Pairs(line) : Number(line[2 * k - 1]) = <<>>
         /\ ops = [k \in 1..Pairs(line) |-> Redirection(line, k)]
         /\ \A k \in 1..Pairs(line) : ops[k].cmd = At(line, 2 * k)
<1> DEFINE m == Len(ops)
<1>1. line \in Seq(Seq(STRING)) /\ Len(line) \in Nat
  BY LineTyped DEF ArgsKept, ArgsTyped
<1>2. OpsRight /\ OpsOver /\ started \in 0..m
  BY DEF ArgsKept, ArgsTyped, AtStart
<1>3. m \in Nat /\ FlagsUpTo(line, m) /\ ops = [j \in 1..m |-> Redirection(line, j)]
  BY <1>2 DEF OpsRight
<1>4. Pairs(line) = m
  <2>1. \A j \in 1..m : 2 * j - 1 <= Len(line) /\ Flag(line[2 * j - 1])
    BY <1>3 DEF FlagsUpTo, FlagAt
  <2>2. NoFlagAfter(line, m)
    BY <1>2 DEF OpsOver
  <2> QED
    BY <1>1, <1>3, <2>1, <2>2, PairsAre
<1>5. ~ \E k \in 1..m : Number(line[2 * k - 1]) = <<>>
  BY <1>3 DEF FlagsUpTo, FlagAt
<1>6. \A k \in 1..m : ops[k].cmd = At(line, 2 * k)
  <2> SUFFICES ASSUME NEW k \in 1..m PROVE ops[k].cmd = At(line, 2 * k)
    OBVIOUS
  <2>1. ops[k] = Redirection(line, k)
    <3> HIDE DEF m
    <3> QED
      BY <1>3
  <2> QED
    BY <2>1 DEF Redirection
<1> HIDE DEF m
<1> QED
  BY <1>2, <1>3, <1>4, <1>5, <1>6 DEF m

\* The loop over the redirections, and CmdParse (rewire.go).
LEMMA StartCommandStep ==
  ASSUME RewireArgsAssumption, ArgsKept, StartCommand
  PROVE  ArgsKept'
<1>1. ppc = "start" /\ started < Len(ops)
  BY DEF StartCommand
<1>2. /\ OpsRight /\ OpsOver /\ FinalMeant(finalcmd, Rest(line, 2 * Len(ops))) /\ Worded(line, started)
      /\ parsed = "none"
  BY <1>1 DEF ArgsKept, ArgsTyped, AtStart
<1>3. /\ Len(ops) \in Nat /\ started \in 0..Len(ops) /\ Pairs(line) = Len(ops)
      /\ ~ \E k \in 1..Pairs(line) : Number(line[2 * k - 1]) = <<>>
      /\ \A k \in 1..Pairs(line) : ops[k].cmd = At(line, 2 * k)
  BY <1>1, OpsAre
<1>4. UNCHANGED <<line, source, tok, dest, mode, ops, finalcmd>>
  BY DEF StartCommand
<1>5. LeftOver'
  BY <1>4, LeftOverStep DEF ArgsKept
<1>6. started + 1 \in 1..Pairs(line) /\ ops[started + 1].cmd = At(line, 2 * (started + 1))
  BY <1>1, <1>3
<1>7. OpsRight' /\ OpsOver'
  BY <1>2, <1>4, SameOps
<1>8. CASE ppc' = "over" /\ parsed' \in {"fatal", "no command"} /\ started' = started
           /\ (parsed' = "no command" <=> Blank(ops[started + 1].cmd))
  <2>1. ArgsTyped'
    BY <1>4, <1>8 DEF ArgsKept, ArgsTyped
  <2>2. AtCheck' /\ AtFd' /\ AtCmd' /\ AtFinal' /\ AtCommands' /\ AtStart'
    BY <1>8 DEF AtCheck, AtFd, AtCmd, AtFinal, AtCommands, AtStart
  <2>3. ParsedAsWritten'
    BY <1>1, <1>2, <1>3, <1>4, <1>6, <1>8 DEF ParsedAsWritten
  <2> QED
    BY <1>5, <2>1, <2>2, <2>3 DEF ArgsKept
<1>9. CASE ppc' = "start" /\ parsed' = "none" /\ started' = started + 1 /\ ~Blank(ops[started + 1].cmd)
  <2>1. ArgsTyped'
    <3>1. started + 1 \in 0..Len(ops)
      BY <1>1, <1>3
    <3> QED
      BY <1>4, <1>9, <3>1 DEF ArgsKept, ArgsTyped
  <2>2. Worded(line, started + 1)
    <3>1. \A k \in 1..(started + 1) : k \in 1..started \/ k = started + 1
      BY <1>3
    <3>2. ~Blank(At(line, 2 * (started + 1)))
      BY <1>6, <1>9
    <3> QED
      BY <1>2, <3>1, <3>2 DEF Worded
  <2>3. AtStart'
    BY <1>2, <1>4, <1>7, <1>9, <2>2 DEF AtStart
  <2>4. AtCheck' /\ AtFd' /\ AtCmd' /\ AtFinal' /\ AtCommands' /\ ParsedAsWritten'
    BY <1>9 DEF AtCheck, AtFd, AtCmd, AtFinal, AtCommands, ParsedAsWritten
  <2> QED
    BY <1>5, <2>1, <2>3, <2>4 DEF ArgsKept
<1>10. CASE Blank(ops[started + 1].cmd)
  <2>1. ppc' = "over" /\ parsed' = "no command" /\ started' = started
    BY <1>10 DEF StartCommand, Over
  <2> QED
    BY <1>8, <1>10, <2>1
<1>11. CASE ~Blank(ops[started + 1].cmd)
  <2>1. \/ started' = started + 1 /\ ppc' = ppc /\ parsed' = parsed
        \/ ppc' = "over" /\ parsed' = "fatal" /\ started' = started
    BY <1>11 DEF StartCommand, Over
  <2> QED
    BY <1>1, <1>2, <1>8, <1>9, <1>11, <2>1
<1> QED
  BY <1>10, <1>11

\* The final command is started when all redirections are (rewire.go).
LEMMA RunFinalStep ==
  ASSUME RewireArgsAssumption, ArgsKept, RunFinal
  PROVE  ArgsKept'
<1>1. ppc = "start" /\ started = Len(ops) /\ ppc' = "over" /\ parsed' = "run"
  BY DEF RunFinal, Over
<1>2. FinalMeant(finalcmd, Rest(line, 2 * Len(ops))) /\ Worded(line, started)
  BY <1>1 DEF ArgsKept, AtStart
<1>3. /\ Len(ops) \in Nat /\ Pairs(line) = Len(ops)
      /\ ~ \E k \in 1..Pairs(line) : Number(line[2 * k - 1]) = <<>>
      /\ ops = [k \in 1..Pairs(line) |-> Redirection(line, k)]
  BY <1>1, OpsAre
<1>4. UNCHANGED <<line, source, tok, dest, mode, ops, finalcmd, started>>
  BY DEF RunFinal
<1>5. LeftOver'
  BY <1>4, LeftOverStep DEF ArgsKept
<1>6. ArgsTyped'
  BY <1>1, <1>4 DEF ArgsKept, ArgsTyped
<1>7. AtCheck' /\ AtFd' /\ AtCmd' /\ AtFinal' /\ AtCommands' /\ AtStart'
  BY <1>1 DEF AtCheck, AtFd, AtCmd, AtFinal, AtCommands, AtStart
<1>8. FinalMeant(finalcmd, SubSeq(line, 2 * Pairs(line) + 1, Len(line)))
  BY <1>2, <1>3 DEF Rest
<1>9. ParsedAsWritten'
  BY <1>1, <1>2, <1>3, <1>4, <1>8 DEF ParsedAsWritten
<1> QED
  BY <1>5, <1>6, <1>7, <1>9 DEF ArgsKept

\* The invariant holds at the start.
LEMMA ArgsInitRight == ASSUME RewireArgsAssumption, ArgsInit PROVE ArgsKept
<1>1. line \in CommandLines /\ line \in Seq(Seq(STRING)) /\ Len(line) \in Nat
  BY LineTyped DEF ArgsInit
<1>2. /\ source = line /\ ppc = "check" /\ dest = 0 /\ ops = <<>> /\ finalcmd = <<>> /\ parsed = "none"
      /\ started = 0
  BY DEF ArgsInit
<1>3. Len(ops) = 0 /\ Len(finalcmd) = 0
  BY <1>2
<1>4. ArgsTyped
  BY <1>1, <1>2, <1>3 DEF ArgsTyped
<1>5. LeftOver
  <2>1. SubSeq(line, 1, Len(line)) \in Seq(Seq(STRING)) /\ Len(SubSeq(line, 1, Len(line))) = Len(line)
    BY <1>1
  <2>2. \A i \in 1..Len(line) : SubSeq(line, 1, Len(line))[i] = line[i]
    BY <1>1
  <2>3. SubSeq(line, 1, Len(line)) = line
    BY <1>1, <2>1, <2>2, SeqEqual
  <2>4. 0 \in 0..Len(line) /\ source = Rest(line, 0)
    BY <1>1, <1>2, <2>3 DEF Rest
  <2> QED
    BY <2>4 DEF LeftOver
<1>6. AtCheck /\ AtFd /\ AtCmd /\ AtFinal /\ AtCommands /\ AtStart /\ ParsedAsWritten
  BY <1>2 DEF AtCheck, AtFd, AtCmd, AtFinal, AtCommands, AtStart, ParsedAsWritten
<1> QED
  BY <1>4, <1>5, <1>6 DEF ArgsKept

\* The inductive invariant holds in every state.
THEOREM ArgsInvariance == ASSUME RewireArgsAssumption PROVE ArgsSpec => []ArgsKept
<1>1. ArgsInit => ArgsKept
  BY ArgsInitRight
<1>2. ArgsKept /\ [ArgsNext]_parseVars => ArgsKept'
  <2> SUFFICES ASSUME ArgsKept, [ArgsNext]_parseVars PROVE ArgsKept'
    OBVIOUS
  <2>1. CASE UNCHANGED parseVars
    BY <2>1 DEF parseVars, ArgsKept, ArgsTyped, LeftOver, AtCheck, AtFd, AtCmd, AtFinal, AtCommands, AtStart,
      OpsRight, OpsOver, Words, Looked, ParsedAsWritten
  <2> QED
    BY <2>1, CheckargStep, ParseFdStep, ParseCmdStep, ParseFinalStep, CommandsStep, StartCommandStep, RunFinalStep DEF ArgsNext
<1> QED
  BY <1>1, <1>2, PTL DEF ArgsSpec

\* A command line is run as the manual says, its redirections started in the order written
\* before the final command, and no line is refused but for a flag without a number or,
\* once the redirections before it run, for one without a command (parser.go; the loop of
\* main and CmdParse in rewire.go).
THEOREM ParserRight == ASSUME RewireArgsAssumption PROVE ArgsSpec => []ArgsRight
<1>1. ArgsKept => ArgsRight
  BY DEF ArgsKept, ArgsRight, ArgsTypeOK, ArgsTyped, LeftOver, Rest
<1> QED
  BY <1>1, ArgsInvariance, PTL

----------------------------------------------------------------------------
(* The pages (Hget). *)

\* main and the channels.
InputTyped ==
    /\ lines \in Inputs /\ read \in 0..Len(lines)
    /\ hmpc \in {"scan", "select", "drain", "return", "exit"}
    /\ getcClosed \in BOOLEAN /\ putcClosed \in BOOLEAN /\ panic \in BOOLEAN

\* The clients.
ClientsTyped ==
    hcpc \in [Client -> {"idle", "do", "out", "err", "dead"}] /\ cpage \in [Client -> 0..Len(lines)]

\* The storers.
StorersTyped ==
    spc \in [Storer -> {"idle", "stat", "write", "err"}] /\ spage \in [Storer -> 0..Len(lines)]

\* The history.
HistoryTyped == sent \in SUBSET Line /\ through \in Seq(Line)

\* The files.
DiskTyped == disk \in [File -> Line \cup {None, Old, Part}]

\* The line in hand has not been given to a client yet.
Fresh == sent \subseteq 1..read /\ (hmpc = "select" => read \in Line /\ read \notin sent)

\* No two goroutines have the same page in their hands.
Apart ==
    /\ \A c, d \in Busy : cpage[c] = cpage[d] => c = d
    /\ \A s, t \in Storing : spage[s] = spage[t] => s = t
    /\ \A c \in Busy, s \in Storing : cpage[c] # spage[s]
    /\ \A c \in Busy : cpage[c] \in Line
    /\ \A s \in Storing : spage[s] \in Line

\* getc is closed after every page has come back, and nothing is handed out after it.
Closed ==
    /\ getcClosed => hmpc \in {"return", "exit"} /\ Busy = {} /\ Storing = {}
    /\ hmpc \in {"return", "exit"} => getcClosed
    /\ panic => getcClosed

\* A storer that writes has seen that the file did not exist before.
NotExisting == \A s \in Storer : spc[s] = "write" => Target(s) \notin Existing

\* The lines are urls, and each has a file.
LEMMA LinesTyped ==
  ASSUME HgetAssumption, InputTyped
  PROVE  /\ lines \in Seq(Url) /\ Len(lines) \in Nat /\ read \in Nat /\ Line = 1..Len(lines)
         /\ \A i \in Line : lines[i] \in Url /\ FileOf[lines[i]] \in File
<1>1. lines \in Seq(Url)
  BY DEF HgetAssumption, InputTyped
<1>2. Len(lines) \in Nat /\ \A i \in Line : lines[i] \in Url
  BY <1>1, LenProperties, ElementOfSeq DEF Line
<1>3. read \in Nat
  BY <1>2 DEF InputTyped
<1> QED
  BY <1>1, <1>2, <1>3 DEF HgetAssumption, Line

\* The input never changes.
LEMMA SameLines ==
  ASSUME [HgetNext]_hgetVars
  PROVE  lines' = lines /\ Line' = Line
<1>1. lines' = lines
  BY DEF HgetNext, Results, Scan, CloseGetc, HgetReturn, Hand, Do, Stop, ClientErr, StorerErr,
     Receive, Put, Stat, Write,
         main, clients, storers, hgetVars
<1> QED
  BY <1>1 DEF Line

\* The goroutines with a page in their hands can be counted.
LEMMA SetsFinite ==
  ASSUME HgetAssumption
  PROVE  /\ IsFiniteSet(Busy) /\ Cardinality(Busy) \in Nat
         /\ IsFiniteSet(Storing) /\ Cardinality(Storing) \in Nat
<1>1. Busy \subseteq Client /\ Storing \subseteq Storer
  BY DEF Busy, Storing
<1> QED
  BY <1>1, FS_Subset, FS_CardinalityType DEF HgetAssumption

\* Every step keeps the types of main, the clients and the storers.
LEMMA ControlStep ==
  ASSUME HgetAssumption, InputTyped, ClientsTyped, StorersTyped, [HgetNext]_hgetVars
  PROVE  InputTyped' /\ ClientsTyped' /\ StorersTyped'
<1>00. lines' = lines /\ Line' = Line
  BY SameLines
<1>0. lines \in Inputs /\ Len(lines) \in Nat /\ read \in 0..Len(lines) /\ read \in Nat
  BY LinesTyped DEF InputTyped
<1>1. CASE Scan
  <2>1. InputTyped'
    BY <1>00, <1>0, <1>1 DEF Scan, main, clients, storers, InputTyped
  <2>2. ClientsTyped'
    BY <1>00, <1>0, <1>1 DEF Scan, main, clients, storers, ClientsTyped
  <2>3. StorersTyped'
    BY <1>00, <1>0, <1>1 DEF Scan, main, clients, storers, StorersTyped
  <2> QED
    BY <2>1, <2>2, <2>3
<1>2. CASE CloseGetc
  <2>1. InputTyped'
    BY <1>00, <1>0, <1>2 DEF CloseGetc, main, clients, storers, InputTyped
  <2>2. ClientsTyped'
    BY <1>00, <1>0, <1>2 DEF CloseGetc, main, clients, storers, ClientsTyped
  <2>3. StorersTyped'
    BY <1>00, <1>0, <1>2 DEF CloseGetc, main, clients, storers, StorersTyped
  <2> QED
    BY <2>1, <2>2, <2>3
<1>3. CASE HgetReturn
  <2>1. InputTyped'
    BY <1>00, <1>0, <1>3 DEF HgetReturn, main, clients, storers, InputTyped
  <2>2. ClientsTyped'
    BY <1>00, <1>0, <1>3 DEF HgetReturn, main, clients, storers, ClientsTyped
  <2>3. StorersTyped'
    BY <1>00, <1>0, <1>3 DEF HgetReturn, main, clients, storers, StorersTyped
  <2> QED
    BY <2>1, <2>2, <2>3
<1>4. CASE \E c \in Client : Hand(c)
  <2>0. PICK c \in Client : Hand(c)
    BY <1>4
  <2>1. InputTyped'
    BY <1>00, <1>0, <2>0 DEF Hand, main, clients, storers, InputTyped
  <2>2. ClientsTyped'
    BY <1>00, <1>0, <2>0 DEF Hand, main, clients, storers, ClientsTyped
  <2>3. StorersTyped'
    BY <1>00, <1>0, <2>0 DEF Hand, main, clients, storers, StorersTyped
  <2> QED
    BY <2>1, <2>2, <2>3
<1>5. CASE \E c \in Client : Do(c)
  <2>0. PICK c \in Client : Do(c)
    BY <1>5
  <2>1. InputTyped'
    BY <1>00, <1>0, <2>0 DEF Do, main, clients, storers, InputTyped
  <2>2. ClientsTyped'
    BY <1>00, <1>0, <2>0 DEF Do, main, clients, storers, ClientsTyped
  <2>3. StorersTyped'
    BY <1>00, <1>0, <2>0 DEF Do, main, clients, storers, StorersTyped
  <2> QED
    BY <2>1, <2>2, <2>3
<1>6. CASE \E c \in Client : Stop(c)
  <2>0. PICK c \in Client : Stop(c)
    BY <1>6
  <2>1. InputTyped'
    BY <1>00, <1>0, <2>0 DEF Stop, main, clients, storers, InputTyped
  <2>2. ClientsTyped'
    BY <1>00, <1>0, <2>0 DEF Stop, main, clients, storers, ClientsTyped
  <2>3. StorersTyped'
    BY <1>00, <1>0, <2>0 DEF Stop, main, clients, storers, StorersTyped
  <2> QED
    BY <2>1, <2>2, <2>3
<1>7. CASE \E c \in Client : ClientErr(c)
  <2>0. PICK c \in Client : ClientErr(c)
    BY <1>7
  <2>1. InputTyped'
    BY <1>00, <1>0, <2>0 DEF ClientErr, Receive, Counted, AfterError, main, clients,
       storers, InputTyped
  <2>2. ClientsTyped'
    BY <1>00, <1>0, <2>0 DEF ClientErr, Receive, Counted, AfterError, main, clients,
       storers, ClientsTyped
  <2>3. StorersTyped'
    BY <1>00, <1>0, <2>0 DEF ClientErr, Receive, Counted, AfterError, main, clients,
       storers, StorersTyped
  <2> QED
    BY <2>1, <2>2, <2>3
<1>8. CASE \E s \in Storer : StorerErr(s)
  <2>0. PICK s \in Storer : StorerErr(s)
    BY <1>8
  <2>1. InputTyped'
    BY <1>00, <1>0, <2>0 DEF StorerErr, Receive, Counted, main, clients, storers, InputTyped
  <2>2. ClientsTyped'
    BY <1>00, <1>0, <2>0 DEF StorerErr, Receive, Counted, main, clients, storers, ClientsTyped
  <2>3. StorersTyped'
    BY <1>00, <1>0, <2>0 DEF StorerErr, Receive, Counted, main, clients, storers, StorersTyped
  <2> QED
    BY <2>1, <2>2, <2>3
<1>9. CASE \E c \in Client, s \in Storer : Put(c, s)
  <2>0. PICK c \in Client, s \in Storer : Put(c, s)
    BY <1>9
  <2>1. InputTyped'
    BY <1>00, <1>0, <2>0 DEF Put, main, clients, storers, InputTyped
  <2>2. ClientsTyped'
    BY <1>00, <1>0, <2>0 DEF Put, main, clients, storers, ClientsTyped
  <2>3. StorersTyped'
    <3>1. cpage[c] \in 0..Len(lines)
      BY DEF ClientsTyped
    <3> QED
      BY <1>00, <2>0, <3>1 DEF Put, StorersTyped
  <2> QED
    BY <2>1, <2>2, <2>3
<1>10. CASE \E s \in Storer : Stat(s)
  <2>0. PICK s \in Storer : Stat(s)
    BY <1>10
  <2>1. InputTyped'
    BY <1>00, <1>0, <2>0 DEF Stat, main, clients, storers, InputTyped
  <2>2. ClientsTyped'
    BY <1>00, <1>0, <2>0 DEF Stat, main, clients, storers, ClientsTyped
  <2>3. StorersTyped'
    BY <1>00, <1>0, <2>0 DEF Stat, main, clients, storers, StorersTyped
  <2> QED
    BY <2>1, <2>2, <2>3
<1>11. CASE \E s \in Storer : Write(s)
  <2>0. PICK s \in Storer : Write(s)
    BY <1>11
  <2>1. InputTyped'
    BY <1>00, <1>0, <2>0 DEF Write, main, clients, storers, InputTyped
  <2>2. ClientsTyped'
    BY <1>00, <1>0, <2>0 DEF Write, main, clients, storers, ClientsTyped
  <2>3. StorersTyped'
    BY <1>00, <1>0, <2>0 DEF Write, main, clients, storers, StorersTyped
  <2> QED
    BY <2>1, <2>2, <2>3
<1>12. CASE UNCHANGED hgetVars
  <2>1. InputTyped'
    BY <1>00, <1>0, <1>12 DEF hgetVars, main, clients, storers, InputTyped
  <2>2. ClientsTyped'
    BY <1>00, <1>0, <1>12 DEF hgetVars, main, clients, storers, ClientsTyped
  <2>3. StorersTyped'
    BY <1>00, <1>0, <1>12 DEF hgetVars, main, clients, storers, StorersTyped
  <2> QED
    BY <2>1, <2>2, <2>3
<1> QED
  BY <1>1, <1>2, <1>3, <1>4, <1>5, <1>6, <1>7, <1>8, <1>9, <1>10, <1>11, <1>12 DEF HgetNext, Results

\* Only the line in hand is given to a client, and what comes back was given.
LEMMA HistoryStep ==
  ASSUME HgetAssumption, InputTyped, ClientsTyped, StorersTyped, HistoryTyped, Fresh, Apart, [HgetNext]_hgetVars
  PROVE  HistoryTyped' /\ Fresh'
<1>00. lines' = lines /\ Line' = Line
  BY SameLines
<1>0. Len(lines) \in Nat /\ read \in 0..Len(lines) /\ read \in Nat /\ Line = 1..Len(lines)
  BY LinesTyped DEF InputTyped
<1>1. CASE Scan
  <2>1. HistoryTyped'
    BY <1>00, <1>0, <1>1 DEF Scan, main, clients, storers, HistoryTyped, Fresh
  <2>2. Fresh'
    BY <1>00, <1>0, <1>1 DEF Scan, main, clients, storers, Fresh
  <2> QED
    BY <2>1, <2>2
<1>2. CASE CloseGetc
  <2>1. HistoryTyped'
    BY <1>00, <1>0, <1>2 DEF CloseGetc, main, clients, storers, HistoryTyped, Fresh
  <2>2. Fresh'
    BY <1>00, <1>0, <1>2 DEF CloseGetc, main, clients, storers, Fresh
  <2> QED
    BY <2>1, <2>2
<1>3. CASE HgetReturn
  <2>1. HistoryTyped'
    BY <1>00, <1>0, <1>3 DEF HgetReturn, main, clients, storers, HistoryTyped, Fresh
  <2>2. Fresh'
    BY <1>00, <1>0, <1>3 DEF HgetReturn, main, clients, storers, Fresh
  <2> QED
    BY <2>1, <2>2
<1>4. CASE \E c \in Client : Hand(c)
  <2>0. PICK c \in Client : Hand(c)
    BY <1>4
  <2>1. HistoryTyped'
    BY <1>00, <1>0, <2>0 DEF Hand, main, clients, storers, HistoryTyped, Fresh
  <2>2. Fresh'
    BY <1>00, <1>0, <2>0 DEF Hand, main, clients, storers, Fresh
  <2> QED
    BY <2>1, <2>2
<1>5. CASE \E c \in Client : Do(c)
  <2>0. PICK c \in Client : Do(c)
    BY <1>5
  <2>1. HistoryTyped'
    BY <1>00, <1>0, <2>0 DEF Do, main, clients, storers, HistoryTyped, Fresh
  <2>2. Fresh'
    BY <1>00, <1>0, <2>0 DEF Do, main, clients, storers, Fresh
  <2> QED
    BY <2>1, <2>2
<1>6. CASE \E c \in Client : Stop(c)
  <2>0. PICK c \in Client : Stop(c)
    BY <1>6
  <2>1. HistoryTyped'
    BY <1>00, <1>0, <2>0 DEF Stop, main, clients, storers, HistoryTyped, Fresh
  <2>2. Fresh'
    BY <1>00, <1>0, <2>0 DEF Stop, main, clients, storers, Fresh
  <2> QED
    BY <2>1, <2>2
<1>7. CASE \E c \in Client : ClientErr(c)
  <2>0. PICK c \in Client : ClientErr(c)
    BY <1>7
  <2>3. cpage[c] \in Line /\ through' = Append(through, cpage[c])
    BY <2>0 DEF ClientErr, Receive, Counted, AfterError, main, clients, storers, Busy, Apart
  <2>1. HistoryTyped'
    BY <1>00, <2>3, <2>0, AppendProperties DEF ClientErr, Receive, Counted, AfterError,
       main, clients, storers, HistoryTyped
  <2>2. Fresh'
    BY <1>00, <1>0, <2>0 DEF ClientErr, Receive, Counted, AfterError, main, clients,
       storers, Fresh
  <2> QED
    BY <2>1, <2>2
<1>8. CASE \E s \in Storer : StorerErr(s)
  <2>0. PICK s \in Storer : StorerErr(s)
    BY <1>8
  <2>3. spage[s] \in Line /\ through' = Append(through, spage[s])
    BY <2>0 DEF StorerErr, Receive, Counted, main, clients, storers, Storing, Apart
  <2>1. HistoryTyped'
    BY <1>00, <2>3, <2>0, AppendProperties DEF StorerErr, Receive, Counted, main, clients,
       storers, HistoryTyped
  <2>2. Fresh'
    BY <1>00, <1>0, <2>0 DEF StorerErr, Receive, Counted, main, clients, storers, Fresh
  <2> QED
    BY <2>1, <2>2
<1>9. CASE \E c \in Client, s \in Storer : Put(c, s)
  <2>0. PICK c \in Client, s \in Storer : Put(c, s)
    BY <1>9
  <2>1. HistoryTyped'
    BY <1>00, <1>0, <2>0 DEF Put, main, clients, storers, HistoryTyped, Fresh
  <2>2. Fresh'
    BY <1>00, <1>0, <2>0 DEF Put, main, clients, storers, Fresh
  <2> QED
    BY <2>1, <2>2
<1>10. CASE \E s \in Storer : Stat(s)
  <2>0. PICK s \in Storer : Stat(s)
    BY <1>10
  <2>1. HistoryTyped'
    BY <1>00, <1>0, <2>0 DEF Stat, main, clients, storers, HistoryTyped, Fresh
  <2>2. Fresh'
    BY <1>00, <1>0, <2>0 DEF Stat, main, clients, storers, Fresh
  <2> QED
    BY <2>1, <2>2
<1>11. CASE \E s \in Storer : Write(s)
  <2>0. PICK s \in Storer : Write(s)
    BY <1>11
  <2>1. HistoryTyped'
    BY <1>00, <1>0, <2>0 DEF Write, main, clients, storers, HistoryTyped, Fresh
  <2>2. Fresh'
    BY <1>00, <1>0, <2>0 DEF Write, main, clients, storers, Fresh
  <2> QED
    BY <2>1, <2>2
<1>12. CASE UNCHANGED hgetVars
  <2>1. HistoryTyped'
    BY <1>00, <1>0, <1>12 DEF hgetVars, main, clients, storers, HistoryTyped, Fresh
  <2>2. Fresh'
    BY <1>00, <1>0, <1>12 DEF hgetVars, main, clients, storers, Fresh
  <2> QED
    BY <2>1, <2>2
<1> QED
  BY <1>1, <1>2, <1>3, <1>4, <1>5, <1>6, <1>7, <1>8, <1>9, <1>10, <1>11, <1>12 DEF HgetNext, Results

\* A page goes from one pair of hands to the next.
LEMMA ApartStep ==
  ASSUME HgetAssumption, InputTyped, ClientsTyped, StorersTyped, Fresh, Apart, OnePlace, [HgetNext]_hgetVars
  PROVE  Apart'
<1>00. lines' = lines /\ Line' = Line
  BY SameLines
<1>1. CASE Scan
  <2> QED
    BY <1>00, <1>1 DEF Scan, main, clients, storers, Apart, Busy, Storing, ClientsTyped,
       StorersTyped
<1>2. CASE CloseGetc
  <2> QED
    BY <1>00, <1>2 DEF CloseGetc, main, clients, storers, Apart, Busy, Storing,
       ClientsTyped, StorersTyped
<1>3. CASE HgetReturn
  <2> QED
    BY <1>00, <1>3 DEF HgetReturn, main, clients, storers, Apart, Busy, Storing, ClientsTyped,
       StorersTyped
<1>4. CASE \E c \in Client : Hand(c)
  <2>0. PICK c \in Client : Hand(c)
    BY <1>4
  <2>1. /\ read \in Line /\ \A d \in Busy : cpage[d] # read
        /\ \A s \in Storing : spage[s] # read
    BY <2>0 DEF Hand, Fresh, OnePlace, InHand
  <2> QED
    BY <1>00, <2>0, <2>1 DEF Hand, main, clients, storers, Apart, Busy, Storing, ClientsTyped
<1>5. CASE \E c \in Client : Do(c)
  <2>0. PICK c \in Client : Do(c)
    BY <1>5
  <2>1. Busy' = Busy
    BY <2>0 DEF Do, Busy, ClientsTyped
  <2>2. Storing' = Storing /\ cpage' = cpage /\ spage' = spage
    BY <2>0 DEF Do, Storing, storers
  <2> QED
    BY <1>00, <2>1, <2>2 DEF Apart
<1>6. CASE \E c \in Client : Stop(c)
  <2>0. PICK c \in Client : Stop(c)
    BY <1>6
  <2> QED
    BY <1>00, <2>0 DEF Stop, main, clients, storers, Apart, Busy, Storing, ClientsTyped,
       StorersTyped
<1>7. CASE \E c \in Client : ClientErr(c)
  <2>0. PICK c \in Client : ClientErr(c)
    BY <1>7
  <2> QED
    BY <1>00, <2>0 DEF ClientErr, Receive, Counted, AfterError, main, clients, storers,
       Apart, Busy, Storing, ClientsTyped, StorersTyped
<1>8. CASE \E s \in Storer : StorerErr(s)
  <2>0. PICK s \in Storer : StorerErr(s)
    BY <1>8
  <2> QED
    BY <1>00, <2>0 DEF StorerErr, Receive, Counted, main, clients, storers, Apart, Busy,
       Storing, ClientsTyped, StorersTyped
<1>9. CASE \E c \in Client, s \in Storer : Put(c, s)
  <2>0. PICK c \in Client, s \in Storer : Put(c, s)
    BY <1>9
  <2> QED
    BY <1>00, <2>0 DEF Put, main, clients, storers, Apart, Busy, Storing, ClientsTyped,
       StorersTyped
<1>10. CASE \E s \in Storer : Stat(s)
  <2>0. PICK s \in Storer : Stat(s)
    BY <1>10
  <2> QED
    BY <1>00, <2>0 DEF Stat, main, clients, storers, Apart, Busy, Storing, ClientsTyped,
       StorersTyped
<1>11. CASE \E s \in Storer : Write(s)
  <2>0. PICK s \in Storer : Write(s)
    BY <1>11
  <2> QED
    BY <1>00, <2>0 DEF Write, main, clients, storers, Apart, Busy, Storing, ClientsTyped,
       StorersTyped
<1>12. CASE UNCHANGED hgetVars
  <2> QED
    BY <1>00, <1>12 DEF hgetVars, main, clients, storers, Apart, Busy, Storing, ClientsTyped,
       StorersTyped
<1> QED
  BY <1>1, <1>2, <1>3, <1>4, <1>5, <1>6, <1>7, <1>8, <1>9, <1>10, <1>11, <1>12 DEF HgetNext, Results

\* The pages in hands can be counted.
LEMMA HandsFinite ==
  ASSUME HgetAssumption, InputTyped, Apart
  PROVE  IsFiniteSet(InHand) /\ Cardinality(InHand) \in Nat
<1>1. Len(lines) \in Nat /\ Line = 1..Len(lines)
  BY LinesTyped
<1>2. 1 \in Int /\ Len(lines) \in Int
  BY <1>1
<1>3. IsFiniteSet(Line)
  BY <1>1, <1>2, FS_Interval, Zenon
<1>4. InHand \subseteq Line
  BY DEF InHand, Apart
<1>5. IsFiniteSet(InHand)
  BY <1>3, <1>4, FS_Subset
<1> QED
  BY <1>5, FS_CardinalityType

\* A page that comes back is put after the others.
LEMMA ComesBack ==
  ASSUME NEW i \in Line, through \in Seq(Line), through' = Append(through, i)
  PROVE  /\ Through' = Through \cup {i}
         /\ (\A j, k \in 1..Len(through) : through[j] = through[k] => j = k) /\ i \notin Through =>
              \A j, k \in 1..Len(through') : through'[j] = through'[k] => j = k
<1>1. /\ Len(through) \in Nat /\ Len(through') = Len(through) + 1
      /\ \A k \in 1..Len(through) : through'[k] = through[k]
      /\ through'[Len(through) + 1] = i
  BY AppendProperties, LenProperties
<1>2. 1..Len(through') = 1..Len(through) \cup {Len(through) + 1}
  BY <1>1
<1>3. Through' = Through \cup {i}
  BY <1>1, <1>2 DEF Through
<1>4. ASSUME i \notin Through PROVE \A k \in 1..Len(through) : through[k] # i
  BY <1>4 DEF Through
<1> QED
  BY <1>1, <1>2, <1>3, <1>4

\* A client takes the line in hand, which nobody has had.
LEMMA HandMoves ==
  ASSUME HgetAssumption, InputTyped, ClientsTyped, StorersTyped, Fresh, OnePlace, NEW c \in Client, Hand(c)
  PROVE  /\ Busy' = Busy \cup {c} /\ c \notin Busy /\ Storing' = Storing
         /\ InHand' = InHand \cup {read} /\ read \notin InHand /\ read \notin sent /\ Through' = Through
<1>1. Busy' = Busy \cup {c} /\ c \notin Busy /\ Storing' = Storing
  BY DEF Hand, Busy, Storing, ClientsTyped, storers
<1>2. cpage'[c] = read /\ (\A d \in Busy : cpage'[d] = cpage[d]) /\ spage' = spage /\ through' = through
  BY <1>1 DEF Hand, Busy, ClientsTyped, storers
<1>3. InHand' = InHand \cup {read}
  BY <1>1, <1>2 DEF InHand
<1> QED
  BY <1>1, <1>2, <1>3 DEF Hand, Fresh, OnePlace, Through

\* A client gives its page back.
LEMMA ClientErrMoves ==
  ASSUME HgetAssumption, ClientsTyped, Apart, NEW c \in Client, ClientErr(c)
  PROVE  /\ Busy' = Busy \ {c} /\ c \in Busy /\ Storing' = Storing
         /\ InHand' = InHand \ {cpage[c]} /\ cpage[c] \in InHand /\ cpage[c] \in Line
         /\ through' = Append(through, cpage[c])
<1>1. Busy' = Busy \ {c} /\ c \in Busy /\ Storing' = Storing
  BY DEF ClientErr, AfterError, Busy, Storing, ClientsTyped, storers
<1>2. cpage' = cpage /\ spage' = spage /\ through' = Append(through, cpage[c])
  BY DEF ClientErr, Receive, storers
<1>3. InHand' = InHand \ {cpage[c]}
  BY <1>1, <1>2 DEF InHand, Apart
<1> QED
  BY <1>1, <1>2, <1>3 DEF InHand, Apart

\* A storer gives its page back.
LEMMA StorerErrMoves ==
  ASSUME HgetAssumption, StorersTyped, Apart, NEW s \in Storer, StorerErr(s)
  PROVE  /\ Storing' = Storing \ {s} /\ s \in Storing /\ Busy' = Busy
         /\ InHand' = InHand \ {spage[s]} /\ spage[s] \in InHand /\ spage[s] \in Line
         /\ through' = Append(through, spage[s])
<1>1. Storing' = Storing \ {s} /\ s \in Storing /\ Busy' = Busy
  BY DEF StorerErr, Busy, Storing, StorersTyped, clients
<1>2. cpage' = cpage /\ spage' = spage /\ through' = Append(through, spage[s])
  BY DEF StorerErr, Receive, clients
<1>3. InHand' = InHand \ {spage[s]}
  BY <1>1, <1>2 DEF InHand, Apart
<1> QED
  BY <1>1, <1>2, <1>3 DEF InHand, Apart

\* A client's page passes to a storer.
LEMMA PutMoves ==
  ASSUME HgetAssumption, ClientsTyped, StorersTyped, Apart, NEW c \in Client, NEW s \in Storer, Put(c, s)
  PROVE  /\ Busy' = Busy \ {c} /\ c \in Busy /\ Storing' = Storing \cup {s} /\ s \notin Storing
         /\ InHand' = InHand /\ Through' = Through
<1>1. Busy' = Busy \ {c} /\ c \in Busy /\ Storing' = Storing \cup {s} /\ s \notin Storing
  BY DEF Put, Busy, Storing, ClientsTyped, StorersTyped
<1>2. /\ cpage' = cpage /\ spage'[s] = cpage[c] /\ \A t \in Storing : spage'[t] = spage[t]
      /\ through' = through
  BY <1>1 DEF Put, Storing, StorersTyped, main
<1>3. InHand' = InHand
  BY <1>1, <1>2 DEF InHand
<1> QED
  BY <1>1, <1>2, <1>3 DEF Through

\* In every other step each page stays where it is.
LEMMA QuietMoves ==
  ASSUME ClientsTyped, StorersTyped,
         \/ Scan \/ CloseGetc \/ HgetReturn \/ UNCHANGED hgetVars
         \/ \E c \in Client : Do(c) \/ Stop(c)
         \/ \E s \in Storer : Stat(s) \/ Write(s)
  PROVE  /\ Busy' = Busy /\ Storing' = Storing /\ InHand' = InHand
         /\ sent' = sent /\ through' = through /\ Through' = Through
<1>1. cpage' = cpage /\ spage' = spage /\ sent' = sent /\ through' = through
  BY DEF Scan, CloseGetc, HgetReturn, hgetVars, Do, Stop, Stat, Write, main, clients, storers
<1>2. Busy' = Busy
  BY DEF Scan, CloseGetc, HgetReturn, hgetVars, Do, Stop, Stat, Write, main, clients, storers, Busy,
     ClientsTyped
<1>3. Storing' = Storing
  BY DEF Scan, CloseGetc, HgetReturn, hgetVars, Do, Stop, Stat, Write, main, clients, storers,
     Storing, StorersTyped
<1> QED
  BY <1>1, <1>2, <1>3 DEF InHand, Through

----------------------------------------------------------------------------
\* Every step keeps each page in one place.
LEMMA OnePlaceStep ==
  ASSUME HgetAssumption, InputTyped, ClientsTyped, StorersTyped, HistoryTyped, Fresh, Apart, OnePlace, [HgetNext]_hgetVars
  PROVE  OnePlace'
<1> DEFINE Quiet == \/ Scan \/ CloseGetc \/ HgetReturn \/ UNCHANGED hgetVars
                    \/ \E c \in Client : Do(c) \/ Stop(c)
                    \/ \E s \in Storer : Stat(s) \/ Write(s)
           Injective == \A j, k \in 1..Len(through) : through[j] = through[k] => j = k
           Split == sent = InHand \cup Through /\ InHand \cap Through = {}
           Counted2 == Cardinality(InHand) = Cardinality(Busy) + Cardinality(Storing)
<1>0. /\ IsFiniteSet(Busy) /\ Cardinality(Busy) \in Nat /\ IsFiniteSet(Storing) /\ Cardinality(Storing) \in Nat
      /\ IsFiniteSet(InHand) /\ Cardinality(InHand) \in Nat
  BY SetsFinite, HandsFinite
<1>p. Injective /\ Split /\ Counted2
  BY DEF OnePlace
<1>q. Injective' /\ Split' /\ Counted2' => OnePlace'
  BY DEF OnePlace
<1>1. CASE Quiet
  <2>1. /\ Busy' = Busy /\ Storing' = Storing /\ InHand' = InHand
        /\ sent' = sent /\ through' = through /\ Through' = Through
    BY <1>1, QuietMoves
  <2>2. Counted2'
    BY <1>p, <2>1, Zenon
  <2> QED
    BY <1>p, <1>q, <2>1, <2>2
<1>2. ASSUME NEW c \in Client, Hand(c) PROVE OnePlace'
  <2>1. /\ Busy' = Busy \cup {c} /\ c \notin Busy /\ Storing' = Storing
        /\ InHand' = InHand \cup {read} /\ read \notin InHand /\ read \notin sent /\ Through' = Through
    BY <1>2, HandMoves
  <2>2. Cardinality(Busy \cup {c}) = Cardinality(Busy) + 1 /\ Cardinality(InHand \cup {read}) = Cardinality(InHand) + 1
    BY <1>0, <2>1, FS_AddElement
  <2>3. /\ Cardinality(Busy') = Cardinality(Busy) + 1 /\ Cardinality(InHand') = Cardinality(InHand) + 1
        /\ Cardinality(Storing') = Cardinality(Storing)
    BY <2>1, <2>2, Zenon
  <2>4. Counted2'
    BY <1>0, <1>p, <2>3
  <2>5. sent' = sent \cup {read} /\ through' = through
    BY <1>2 DEF Hand
  <2>6. Split'
    BY <1>p, <2>1, <2>5
  <2> QED
    BY <1>p, <1>q, <2>4, <2>5, <2>6
<1>3. ASSUME NEW c \in Client, ClientErr(c) PROVE OnePlace'
  <2>1. /\ Busy' = Busy \ {c} /\ c \in Busy /\ Storing' = Storing
        /\ InHand' = InHand \ {cpage[c]} /\ cpage[c] \in InHand /\ cpage[c] \in Line
        /\ through' = Append(through, cpage[c])
    BY <1>3, ClientErrMoves
  <2>2. Cardinality(Busy \ {c}) = Cardinality(Busy) - 1 /\ Cardinality(InHand \ {cpage[c]}) = Cardinality(InHand) - 1
    BY <1>0, <2>1, FS_RemoveElement
  <2>3. /\ Cardinality(Busy') = Cardinality(Busy) - 1 /\ Cardinality(InHand') = Cardinality(InHand) - 1
        /\ Cardinality(Storing') = Cardinality(Storing)
    BY <2>1, <2>2, Zenon
  <2>4. Counted2'
    BY <1>0, <1>p, <2>3
  <2>5. cpage[c] \notin Through
    BY <1>p, <2>1
  <2>6. Through' = Through \cup {cpage[c]} /\ Injective'
    BY <1>p, <2>1, <2>5, ComesBack DEF HistoryTyped
  <2>7. Split'
    <3>1. sent' = sent
      BY <1>3 DEF ClientErr, Receive
    <3> QED
      BY <1>p, <2>1, <2>6, <3>1
  <2> QED
    BY <1>q, <2>4, <2>6, <2>7
<1>4. ASSUME NEW s \in Storer, StorerErr(s) PROVE OnePlace'
  <2>1. /\ Storing' = Storing \ {s} /\ s \in Storing /\ Busy' = Busy
        /\ InHand' = InHand \ {spage[s]} /\ spage[s] \in InHand /\ spage[s] \in Line
        /\ through' = Append(through, spage[s])
    BY <1>4, StorerErrMoves
  <2>2. Cardinality(Storing \ {s}) = Cardinality(Storing) - 1 /\ Cardinality(InHand \ {spage[s]}) = Cardinality(InHand) - 1
    BY <1>0, <2>1, FS_RemoveElement
  <2>3. /\ Cardinality(Storing') = Cardinality(Storing) - 1 /\ Cardinality(InHand') = Cardinality(InHand) - 1
        /\ Cardinality(Busy') = Cardinality(Busy)
    BY <2>1, <2>2, Zenon
  <2>4. Counted2'
    BY <1>0, <1>p, <2>3
  <2>5. spage[s] \notin Through
    BY <1>p, <2>1
  <2>6. Through' = Through \cup {spage[s]} /\ Injective'
    BY <1>p, <2>1, <2>5, ComesBack DEF HistoryTyped
  <2>7. Split'
    <3>1. sent' = sent
      BY <1>4 DEF StorerErr, Receive
    <3> QED
      BY <1>p, <2>1, <2>6, <3>1
  <2> QED
    BY <1>q, <2>4, <2>6, <2>7
<1>5. ASSUME NEW c \in Client, NEW s \in Storer, Put(c, s) PROVE OnePlace'
  <2>1. /\ Busy' = Busy \ {c} /\ c \in Busy /\ Storing' = Storing \cup {s} /\ s \notin Storing
        /\ InHand' = InHand /\ Through' = Through
    BY <1>5, PutMoves
  <2>2. Cardinality(Busy \ {c}) = Cardinality(Busy) - 1 /\ Cardinality(Storing \cup {s}) = Cardinality(Storing) + 1
    BY <1>0, <2>1, FS_RemoveElement, FS_AddElement
  <2>3. /\ Cardinality(Busy') = Cardinality(Busy) - 1 /\ Cardinality(Storing') = Cardinality(Storing) + 1
        /\ Cardinality(InHand') = Cardinality(InHand)
    BY <2>1, <2>2, Zenon
  <2>4. Counted2'
    BY <1>0, <1>p, <2>3
  <2>5. sent' = sent /\ through' = through
    BY <1>5 DEF Put, main
  <2> QED
    BY <1>p, <1>q, <2>1, <2>4, <2>5
<1>6. Quiet \/ (\E c \in Client : Hand(c)) \/ (\E c \in Client : ClientErr(c)) \/ (\E s \in Storer : StorerErr(s))
      \/ (\E c \in Client, s \in Storer : Put(c, s))
  BY DEF HgetNext, Results
<1> QED
  BY <1>1, <1>2, <1>3, <1>4, <1>5, <1>6

\* n counts the pages in hands: what goes out and comes back changes both.
LEMMA OutstandingStep ==
  ASSUME HgetAssumption, InputTyped, ClientsTyped, StorersTyped, Fresh, Apart, OnePlace, n \in Nat, Outstanding, [HgetNext]_hgetVars
  PROVE  n' \in Nat /\ Outstanding'
<1> DEFINE b == Cardinality(Busy)
           s0 == Cardinality(Storing)
           Quiet == \/ Scan \/ CloseGetc \/ HgetReturn \/ UNCHANGED hgetVars
                    \/ \E c \in Client : Do(c) \/ Stop(c)
                    \/ \E s \in Storer : Stat(s) \/ Write(s)
<1>0. /\ IsFiniteSet(Busy) /\ b \in Nat /\ IsFiniteSet(Storing) /\ s0 \in Nat
  BY SetsFinite
<1>o. IF hmpc \in {"scan", "select"} THEN n = b + s0 ELSE n >= b + s0
  BY DEF Outstanding
<1>r. Outstanding' <=> IF hmpc' \in {"scan", "select"} THEN n' = b' + s0' ELSE n' >= b' + s0'
  BY DEF Outstanding
<1>1. CASE Quiet
  <2>1. Busy' = Busy /\ Storing' = Storing
    BY <1>1, QuietMoves
  <2>2. b' = b /\ s0' = s0
    BY <2>1, Zenon
  <2>3. n' = n /\ (hmpc' \in {"scan", "select"} => hmpc \in {"scan", "select"})
    BY <1>1 DEF Scan, CloseGetc, HgetReturn, hgetVars, Do, Stop, Stat, Write, main
  <2> QED
    BY <1>0, <1>o, <1>r, <2>2, <2>3
<1>2. ASSUME NEW c \in Client, Hand(c) PROVE n' \in Nat /\ Outstanding'
  <2>1. Busy' = Busy \cup {c} /\ c \notin Busy /\ Storing' = Storing
    BY <1>2, HandMoves
  <2>2. Cardinality(Busy \cup {c}) = b + 1
    BY <1>0, <2>1, FS_AddElement
  <2>3. b' = b + 1 /\ s0' = s0
    BY <2>1, <2>2, Zenon
  <2>4. n' = n + 1 /\ hmpc \in {"scan", "select"} /\ hmpc' \in {"scan", "select"}
    BY <1>2 DEF Hand
  <2> QED
    BY <1>0, <1>o, <1>r, <2>3, <2>4
<1>a. ASSUME NEW i, Receive(i), b' + s0' = b + s0 - 1, b' \in Nat, s0' \in Nat
      PROVE  n' \in Nat /\ Outstanding'
  <2>1. \/ hmpc = "select" /\ hmpc' = "scan" /\ n' = n - 1
        \/ hmpc = "drain" /\ hmpc' = "drain" /\ n' = n
    BY <1>a DEF Receive, Counted
  <2> QED
    BY <1>0, <1>o, <1>r, <1>a, <2>1
<1>3. ASSUME NEW c \in Client, ClientErr(c) PROVE n' \in Nat /\ Outstanding'
  <2>1. Busy' = Busy \ {c} /\ c \in Busy /\ Storing' = Storing
    BY <1>3, ClientErrMoves
  <2>2. Cardinality(Busy \ {c}) = b - 1 /\ Cardinality(Busy \ {c}) \in Nat
    BY <1>0, <2>1, FS_RemoveElement, FS_CardinalityType
  <2>3. b' = b - 1 /\ b' \in Nat /\ s0' = s0
    BY <2>1, <2>2, Zenon
  <2>4. Receive(cpage[c])
    BY <1>3 DEF ClientErr
  <2> QED
    BY <1>0, <1>a, <2>3, <2>4
<1>4. ASSUME NEW s \in Storer, StorerErr(s) PROVE n' \in Nat /\ Outstanding'
  <2>1. Storing' = Storing \ {s} /\ s \in Storing /\ Busy' = Busy
    BY <1>4, StorerErrMoves
  <2>2. Cardinality(Storing \ {s}) = s0 - 1 /\ Cardinality(Storing \ {s}) \in Nat
    BY <1>0, <2>1, FS_RemoveElement, FS_CardinalityType
  <2>3. s0' = s0 - 1 /\ s0' \in Nat /\ b' = b
    BY <2>1, <2>2, Zenon
  <2>4. Receive(spage[s])
    BY <1>4 DEF StorerErr
  <2> QED
    BY <1>0, <1>a, <2>3, <2>4
<1>5. ASSUME NEW c \in Client, NEW s \in Storer, Put(c, s) PROVE n' \in Nat /\ Outstanding'
  <2>1. Busy' = Busy \ {c} /\ c \in Busy /\ Storing' = Storing \cup {s} /\ s \notin Storing
    BY <1>5, PutMoves
  <2>2. Cardinality(Busy \ {c}) = b - 1 /\ Cardinality(Storing \cup {s}) = s0 + 1
    BY <1>0, <2>1, FS_RemoveElement, FS_AddElement
  <2>3. b' = b - 1 /\ s0' = s0 + 1
    BY <2>1, <2>2, Zenon
  <2>4. n' = n /\ hmpc' = hmpc
    BY <1>5 DEF Put, main
  <2> QED
    BY <1>0, <1>o, <1>r, <2>3, <2>4
<1>6. Quiet \/ (\E c \in Client : Hand(c)) \/ (\E c \in Client : ClientErr(c)) \/ (\E s \in Storer : StorerErr(s))
      \/ (\E c \in Client, s \in Storer : Put(c, s))
  BY DEF HgetNext, Results
<1> QED
  BY <1>1, <1>2, <1>3, <1>4, <1>5, <1>6

\* getc is closed when n is zero, that is when no page is in hands.
LEMMA ClosedStep ==
  ASSUME HgetAssumption, InputTyped, ClientsTyped, StorersTyped, Apart, n \in Nat, Outstanding, Closed, [HgetNext]_hgetVars
  PROVE  Closed'
<1>1. CASE CloseGetc
  <2>1. n = 0 /\ n >= Cardinality(Busy) + Cardinality(Storing)
    BY <1>1 DEF CloseGetc, Drained, Outstanding
  <2>2. Cardinality(Busy) = 0 /\ Cardinality(Storing) = 0 /\ IsFiniteSet(Busy) /\ IsFiniteSet(Storing)
    BY <2>1, SetsFinite
  <2>3. Busy = {} /\ Storing = {}
    BY <2>2, FS_EmptySet
  <2>4. Busy' = {} /\ Storing' = {}
    BY <1>1, <2>3, QuietMoves
  <2>5. getcClosed' = TRUE /\ hmpc' = "return"
    BY <1>1 DEF CloseGetc
  <2> QED
    BY <2>4, <2>5 DEF Closed
<1>2. CASE \/ Scan \/ HgetReturn \/ UNCHANGED hgetVars
           \/ \E c \in Client : Do(c) \/ Stop(c)
           \/ \E s \in Storer : Stat(s) \/ Write(s)
  <2>1. Busy' = Busy /\ Storing' = Storing
    BY <1>2, QuietMoves
  <2>2. /\ getcClosed' = getcClosed /\ (hmpc' \in {"return", "exit"} <=> hmpc \in {"return", "exit"})
        /\ panic' => panic \/ getcClosed
    BY <1>2 DEF Scan, HgetReturn, hgetVars, Do, Stop, Stat, Write, main
  <2> QED
    BY <2>1, <2>2 DEF Closed
<1>3. CASE (\E c \in Client : Hand(c)) \/ (\E c \in Client : ClientErr(c)) \/ (\E s \in Storer : StorerErr(s))
  <2>1. /\ hmpc \notin {"return", "exit"} /\ hmpc' \notin {"return", "exit"}
        /\ getcClosed' = getcClosed /\ panic' = panic
    BY <1>3 DEF Hand, ClientErr, StorerErr, Receive
  <2> QED
    BY <2>1 DEF Closed
<1>4. ASSUME NEW c \in Client, NEW s \in Storer, Put(c, s) PROVE Closed'
  <2>1. c \in Busy
    BY <1>4, PutMoves
  <2>2. UNCHANGED <<hmpc, getcClosed, panic>>
    BY <1>4 DEF Put, main
  <2> QED
    BY <2>1, <2>2 DEF Closed
<1> QED
  BY <1>1, <1>2, <1>3, <1>4 DEF HgetNext, Results

\* The file of the page that a storer has.
LEMMA TargetTyped ==
  ASSUME HgetAssumption, InputTyped, Apart, NEW s \in Storing
  PROVE  spage[s] \in Line /\ Target(s) \in File
  BY LinesTyped DEF Apart, Target

\* Only files that did not exist are written, each with a page of its name.
LEMMA DiskStep ==
  ASSUME HgetAssumption, InputTyped, ClientsTyped, StorersTyped, DiskTyped, Fresh, Apart, OnePlace,
         NotExisting, FilesKept, [HgetNext]_hgetVars
  PROVE  DiskTyped' /\ NotExisting' /\ FilesKept'
<1>00. lines' = lines /\ Line' = Line
  BY SameLines
<1>0. Line \subseteq Nat
  BY LinesTyped
<1>1. ASSUME NEW s \in Storer, Stat(s) PROVE DiskTyped' /\ NotExisting' /\ FilesKept'
  <2>1. disk' = disk /\ sent' = sent /\ spage' = spage /\ s \in Storing
    BY <1>1 DEF Stat, main, Storing
  <2>2. Target(s) \in File
    BY <2>1, TargetTyped
  <2>3. spc' = [spc EXCEPT ![s] = IF disk[Target(s)] = None THEN "write" ELSE "err"]
    BY <1>1 DEF Stat, Free
  <2>4. disk[Target(s)] = None => Target(s) \notin Existing
    BY <2>2 DEF FilesKept, None, Old
  <2>5. \A t \in Storer : Target(t)' = Target(t)
    BY <1>00, <2>1 DEF Target
  <2>6. NotExisting'
    BY <2>3, <2>4, <2>5 DEF NotExisting, StorersTyped
  <2> QED
    BY <1>00, <2>1, <2>6 DEF DiskTyped, FilesKept
<1>2. ASSUME NEW s \in Storer, Write(s) PROVE DiskTyped' /\ NotExisting' /\ FilesKept'
  <2>1. sent' = sent /\ spage' = spage /\ s \in Storing /\ spc[s] = "write"
    BY <1>2 DEF Write, main, Storing
  <2>2. spage[s] \in Line /\ Target(s) \in File /\ Target(s) \notin Existing
    BY <2>1, TargetTyped DEF NotExisting
  <2>3. spage[s] \in sent
    BY <2>1 DEF OnePlace, InHand
  <2>4. \A t \in Storer : Target(t)' = Target(t)
    BY <1>00, <2>1 DEF Target
  <2>5. NotExisting'
    BY <1>2, <2>4 DEF Write, NotExisting, StorersTyped
  <2>6. CASE disk' = disk
    BY <1>00, <2>1, <2>5, <2>6 DEF DiskTyped, FilesKept
  <2>7. ASSUME NEW what \in {spage[s], Part}, disk' = [disk EXCEPT ![Target(s)] = what]
        PROVE  DiskTyped' /\ NotExisting' /\ FilesKept'
    <3>1. DiskTyped'
      BY <1>00, <2>2, <2>7 DEF DiskTyped
    <3>2. disk'[Target(s)] = what /\ \A f \in File : f # Target(s) => disk'[f] = disk[f]
      BY <2>2, <2>7 DEF DiskTyped
    <3>3. FileOf[lines[spage[s]]] = Target(s)
      BY DEF Target
    <3>4. Part \notin Line /\ Part # Old /\ Old \notin Line
      BY <1>0 DEF Part, Old
    <3>5. FilesKept'
      BY <1>00, <2>1, <2>2, <2>3, <2>7, <3>2, <3>3, <3>4 DEF FilesKept
    <3> QED
      BY <2>5, <3>1, <3>5
  <2> QED
    BY <1>2, <2>6, <2>7 DEF Write
<1>3. ASSUME NEW s \in Storer, StorerErr(s) PROVE DiskTyped' /\ NotExisting' /\ FilesKept'
  <2>1. disk' = disk /\ sent' = sent /\ spage' = spage /\ spc' = [spc EXCEPT ![s] = "idle"]
    BY <1>3 DEF StorerErr, Receive
  <2>2. \A t \in Storer : Target(t)' = Target(t)
    BY <1>00, <2>1 DEF Target
  <2> QED
    BY <1>00, <2>1, <2>2 DEF DiskTyped, NotExisting, FilesKept, StorersTyped
<1>4. ASSUME NEW c \in Client, NEW s \in Storer, Put(c, s) PROVE DiskTyped' /\ NotExisting' /\ FilesKept'
  <2>1. disk' = disk /\ sent' = sent /\ spc' = [spc EXCEPT ![s] = "stat"]
    BY <1>4 DEF Put, main
  <2>2. \A t \in Storer : t # s => Target(t)' = Target(t)
    BY <1>00, <1>4 DEF Put, Target, StorersTyped
  <2> QED
    BY <1>00, <2>1, <2>2 DEF DiskTyped, NotExisting, FilesKept, StorersTyped
<1>5. CASE \/ Scan \/ CloseGetc \/ HgetReturn \/ UNCHANGED hgetVars
           \/ \E c \in Client : Hand(c) \/ Do(c) \/ Stop(c) \/ ClientErr(c)
  <2>1. disk' = disk /\ sent \subseteq sent' /\ spc' = spc /\ spage' = spage
    BY <1>5 DEF Scan, CloseGetc, HgetReturn, hgetVars, Hand, Do, Stop, ClientErr, Receive, main, storers
  <2>2. \A t \in Storer : Target(t)' = Target(t)
    BY <1>00, <2>1 DEF Target
  <2> QED
    BY <1>00, <2>1, <2>2 DEF DiskTyped, NotExisting, FilesKept
<1> QED
  BY <1>1, <1>2, <1>3, <1>4, <1>5 DEF HgetNext, Results

----------------------------------------------------------------------------
\* The inductive invariant.
HgetKept ==
    /\ InputTyped /\ ClientsTyped /\ StorersTyped /\ HistoryTyped /\ DiskTyped /\ n \in Nat
    /\ Fresh /\ Apart /\ OnePlace /\ Outstanding /\ Closed /\ NotExisting /\ FilesKept

\* The invariant holds at the start.
LEMMA HgetInitRight ==
  ASSUME HgetAssumption, HgetInit
  PROVE  HgetKept
<1>1. lines \in Seq(Url) /\ Len(lines) \in Nat
  BY LenProperties DEF HgetInit, HgetAssumption
<1>2. InputTyped /\ ClientsTyped /\ StorersTyped /\ n \in Nat
  <2>1. 0 \in 0..Len(lines)
    BY <1>1
  <2>2. InputTyped /\ n \in Nat
    BY <2>1 DEF HgetInit, InputTyped
  <2> QED
    BY <2>1, <2>2 DEF HgetInit, ClientsTyped, StorersTyped
<1>3. HistoryTyped
  BY EmptySeq DEF HgetInit, HistoryTyped
<1>4. DiskTyped
  BY DEF HgetInit, DiskTyped
<1>5. Busy = {} /\ Storing = {}
  BY DEF HgetInit, Busy, Storing
<1>6. Len(through) = 0
  BY EmptySeq DEF HgetInit
<1>7. InHand = {} /\ Through = {}
  BY <1>5, <1>6 DEF InHand, Through
<1>8. Cardinality(Busy) = 0 /\ Cardinality(Storing) = 0 /\ Cardinality(InHand) = 0
  BY <1>5, <1>7, FS_EmptySet
<1>9. OnePlace
  BY <1>6, <1>7, <1>8 DEF HgetInit, OnePlace
<1>10. Outstanding
  BY <1>8 DEF HgetInit, Outstanding
<1>11. Fresh /\ Apart /\ Closed /\ NotExisting
  BY <1>5 DEF HgetInit, Fresh, Apart, Closed, NotExisting
<1>12. FilesKept
  BY <1>1 DEF HgetInit, FilesKept, Line, None, Old, Part
<1> QED
  BY <1>2, <1>3, <1>4, <1>9, <1>10, <1>11, <1>12 DEF HgetKept

\* The inductive invariant holds in every state.
THEOREM HgetInvariance == ASSUME HgetAssumption PROVE HgetSpec => []HgetKept
<1>1. HgetInit => HgetKept
  BY HgetInitRight
<1>2. HgetKept /\ [HgetNext]_hgetVars => HgetKept'
  <2> SUFFICES ASSUME HgetKept, [HgetNext]_hgetVars PROVE HgetKept'
    OBVIOUS
  <2> USE DEF HgetKept
  <2>1. InputTyped' /\ ClientsTyped' /\ StorersTyped'
    BY ControlStep
  <2>2. HistoryTyped' /\ Fresh'
    BY HistoryStep
  <2>3. Apart' /\ OnePlace'
    BY ApartStep, OnePlaceStep
  <2>4. n' \in Nat /\ Outstanding' /\ Closed'
    BY OutstandingStep, ClosedStep
  <2>5. DiskTyped' /\ NotExisting' /\ FilesKept'
    BY DiskStep
  <2> QED
    BY <2>1, <2>2, <2>3, <2>4, <2>5
<1> QED
  BY <1>1, <1>2, PTL DEF HgetSpec

\* The variables keep their types, and n counts the pages in hands until the input is over
\* and is never too low (hget.go:106-125).
THEOREM HgetSound == ASSUME HgetAssumption PROVE HgetSpec => []HgetInv
<1>1. HgetKept => HgetInv
  BY DEF HgetKept, HgetInv, HgetTypeOK, InputTyped, ClientsTyped, StorersTyped, HistoryTyped, DiskTyped
<1> QED
  BY <1>1, HgetInvariance, PTL

\* No page is lost or comes back twice between the goroutines, and files that were there
\* are kept (hget.go:106-125, 196-250).
THEOREM NoPageLost == ASSUME HgetAssumption PROVE HgetSpec => []PagesKept
<1>1. HgetKept => PagesKept
  BY DEF HgetKept, PagesKept
<1> QED
  BY <1>1, HgetInvariance, PTL

\* main returns, or panics in the second close of putc, only when every page has come back
\* (hget.go:120-131, 197).
THEOREM EndsRight == ASSUME HgetAssumption PROVE HgetSpec => []EndsAfterAll
<1>1. HgetKept => EndsAfterAll
  BY DEF HgetKept, Closed, OnePlace, InHand, EndsAfterAll
<1> QED
  BY <1>1, HgetInvariance, PTL

\* n counts the pages in hands, no page is lost or comes back twice, and main ends after
\* all of them (hget.go:106-131, 196-250).
THEOREM HgetAllRight == ASSUME HgetAssumption PROVE HgetSpec => []HgetRight
<1>1. HgetInv /\ PagesKept /\ EndsAfterAll => HgetRight
  BY DEF HgetRight
<1> QED
  BY <1>1, HgetSound, NoPageLost, EndsRight, PTL
==============================================================================
