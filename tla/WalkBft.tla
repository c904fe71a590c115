------------------------------ MODULE WalkBft -------------------------------
(***************************************************************************)
(* walk's breadth-first traversal (walk/walk.go: bft).  A printer takes    *)
(* one directory at a time from fnx and starts a goroutine for each of its *)
(* files: it prints the name and, when the file is a directory, reads it   *)
(* and sends the result on `list'.  A dispatcher moves directories from    *)
(* list to fnx.  The WaitGroup wg is to tell main when all is done.        *)
(*                                                                         *)
(* Data.  A directory read is its name; NoDir is the nil that dirs returns *)
(* for one that cannot be read.  A directory's level is fixed by its place *)
(* in the tree.  Other operands may be walked at the same time, so the     *)
(* program can outlive the traversal.                                      *)
(***************************************************************************)
EXTENDS Integers, Sequences, FiniteSets

CONSTANTS TreeFile, TreeDir,
          Failures,       \* sets of directories that ReadDir may be unable to read
          TreeListing,    \* [TreeDir -> SUBSET TreeFile]
          Level,          \* [TreeDir -> Nat]: 1 for the root
          TreeRoot, NoDir,
          BftLimits,      \* the values of -t
          ListCap         \* NGo: list holds as many directories, fnx one more

BftAssumption ==
    /\ TreeDir \subseteq TreeFile /\ Failures \subseteq SUBSET TreeDir /\ NoDir \notin TreeFile
    /\ TreeListing \in [TreeDir -> SUBSET TreeFile] /\ Level \in [TreeDir -> Nat]
    /\ TreeRoot \in TreeDir
    \* A file lies in one directory, one level below it, and the root in none.
    /\ \A d, e \in TreeDir : TreeListing[d] \cap TreeListing[e] # {} => d = e
    /\ \A d \in TreeDir : \A f \in TreeListing[d] : f # TreeRoot /\ (f \in TreeDir => Level[f] = Level[d] + 1)
    /\ BftLimits \subseteq Nat /\ ListCap \in Nat \ {0}

VARIABLES limit,    \* -t
          unreadable, \* the directories that cannot be read
          list, listClosed, fnx,
          bftWg,    \* the WaitGroup of line 232
          batch,    \* the directory the printer is at, or NoDir
          kid,      \* control state of the goroutine of each file of the batch
          dpc, dir, \* the dispatcher and the directory it holds
          mpc,      \* main
          panic,
          bftPrinted \* history: the names printed, in order

bftVars == <<limit, unreadable, list, listClosed, fnx, bftWg, batch, kid, dpc, dir, mpc, panic, bftPrinted>>

BftTypeOK ==
    /\ limit \in BftLimits /\ unreadable \in Failures
    /\ list \in Seq(TreeDir \cup {NoDir}) /\ Len(list) <= ListCap
    /\ listClosed \in BOOLEAN
    /\ fnx \in Seq(TreeDir \cup {NoDir}) /\ Len(fnx) <= ListCap + 1
    /\ bftWg \in Nat
    /\ batch \in TreeDir \cup {NoDir}
    /\ kid \in [TreeFile -> {"none", "print", "list", "done"}]
    /\ dpc \in {"recv", "add", "send", "stop"} /\ dir \in TreeDir \cup {NoDir}
    /\ mpc \in {"call", "wait", "woken", "close", "over", "exit"}
    /\ panic \in {"none", "nil directory", "send on closed list", "WaitGroup reused"}
    /\ bftPrinted \in Seq(TreeFile)

Read(d) == IF d \in unreadable THEN NoDir ELSE d     \* dirs(d, Level[d])

\* main has added one to wg, sent the root, started the dispatcher and is about
\* to call wg.Wait.
BftInit ==
    /\ limit \in BftLimits /\ unreadable \in Failures
    /\ list = <<>> /\ listClosed = FALSE
    /\ fnx = <<Read(TreeRoot)>> /\ bftWg = 1
    /\ batch = NoDir /\ kid = [f \in TreeFile |-> "none"]
    /\ dpc = "recv" /\ dir = NoDir
    /\ mpc = "call" /\ panic = "none" /\ bftPrinted = <<>>

BftRunning == mpc # "exit" /\ panic = "none"

----------------------------------------------------------------------------
(* The printer, walk.go:235-252 *)

\* A nil root is dereferenced.
Begin ==
    /\ BftRunning /\ batch = NoDir /\ fnx # <<>>
    /\ fnx' = Tail(fnx)
    /\ IF Head(fnx) = NoDir
       THEN panic' = "nil directory" /\ UNCHANGED <<batch, kid>>
       ELSE /\ batch' = Head(fnx)
            /\ kid' = [f \in TreeFile |-> IF f \in TreeListing[Head(fnx)] THEN "print" ELSE "none"]
            /\ UNCHANGED panic
    /\ UNCHANGED <<limit, unreadable, list, listClosed, bftWg, dpc, dir, mpc, bftPrinted>>

KidPrint(f) ==
    /\ BftRunning /\ kid[f] = "print"
    /\ bftPrinted' = Append(bftPrinted, f)
    /\ kid' = [kid EXCEPT ![f] = IF f \in TreeDir THEN "list" ELSE "done"]
    /\ UNCHANGED <<limit, unreadable, list, listClosed, fnx, bftWg, batch, dpc, dir, mpc, panic>>

ListRoom == Len(list) < ListCap
InFront(q, d) == <<d>> \o q         \* mutant: last in, first out
Queued(q, d) == Append(q, d)

KidSend(f) ==
    /\ BftRunning /\ kid[f] = "list"
    /\ IF listClosed
       THEN panic' = "send on closed list" /\ UNCHANGED <<list, kid>>
       ELSE /\ ListRoom
            /\ list' = Queued(list, Read(f))
            /\ kid' = [kid EXCEPT ![f] = "done"]
            /\ UNCHANGED panic
    /\ UNCHANGED <<limit, unreadable, listClosed, fnx, bftWg, batch, dpc, dir, mpc, bftPrinted>>

Done == bftWg - 1

\* wg2.Wait() and wg.Done(); the Done that reaches zero wakes main.
FinishBatch ==
    /\ BftRunning /\ batch # NoDir /\ \A f \in TreeFile : kid[f] \in {"none", "done"}
    /\ batch' = NoDir /\ kid' = [f \in TreeFile |-> "none"]
    /\ bftWg' = Done
    /\ mpc' = IF mpc = "wait" /\ bftWg' = 0 THEN "woken" ELSE mpc
    /\ UNCHANGED <<limit, unreadable, list, listClosed, fnx, dpc, dir, panic, bftPrinted>>

----------------------------------------------------------------------------
(* The dispatcher, walk.go:255-266 *)

Beyond(d) == Level[d] > limit

\* A nil is skipped; a directory below the limit ends the dispatcher.
Dispatch ==
    /\ BftRunning /\ dpc = "recv" /\ list # <<>>
    /\ list' = Tail(list)
    /\ dpc' = IF Head(list) = NoDir THEN "recv"
              ELSE IF Beyond(Head(list)) THEN "stop" ELSE "add"
    /\ dir' = IF dpc' = "add" THEN Head(list) ELSE NoDir
    /\ UNCHANGED <<limit, unreadable, listClosed, fnx, bftWg, batch, kid, mpc, panic, bftPrinted>>

DispatchEnd ==
    /\ BftRunning /\ dpc = "recv" /\ list = <<>> /\ listClosed
    /\ dpc' = "stop"
    /\ UNCHANGED <<limit, unreadable, list, listClosed, fnx, bftWg, batch, kid, dir, mpc, panic, bftPrinted>>

Counted == bftWg + 1

Add ==
    /\ BftRunning /\ dpc = "add"
    /\ bftWg' = Counted /\ dpc' = "send"
    /\ UNCHANGED <<limit, unreadable, list, listClosed, fnx, batch, kid, dir, mpc, panic, bftPrinted>>

PassOn ==
    /\ BftRunning /\ dpc = "send" /\ Len(fnx) < ListCap + 1
    /\ fnx' = Queued(fnx, dir) /\ dir' = NoDir /\ dpc' = "recv"
    /\ UNCHANGED <<limit, unreadable, list, listClosed, bftWg, batch, kid, mpc, panic, bftPrinted>>

----------------------------------------------------------------------------
(* main, walk.go:267-268 *)

Wait ==
    /\ BftRunning /\ mpc = "call"
    /\ mpc' = IF bftWg = 0 THEN "close" ELSE "wait"
    /\ UNCHANGED <<limit, unreadable, list, listClosed, fnx, bftWg, batch, kid, dpc, dir, panic, bftPrinted>>

\* A Wait that was woken and finds the counter raised again panics.
Woken ==
    /\ BftRunning /\ mpc = "woken"
    /\ IF bftWg # 0
       THEN panic' = "WaitGroup reused" /\ UNCHANGED mpc
       ELSE mpc' = "close" /\ UNCHANGED panic
    /\ UNCHANGED <<limit, unreadable, list, listClosed, fnx, bftWg, batch, kid, dpc, dir, bftPrinted>>

CloseList ==
    /\ BftRunning /\ mpc = "close"
    /\ listClosed' = TRUE /\ mpc' = "over"
    /\ UNCHANGED <<limit, unreadable, list, fnx, bftWg, batch, kid, dpc, dir, panic, bftPrinted>>

\* The other operands have been walked too.
Exit ==
    /\ BftRunning /\ mpc = "over" /\ mpc' = "exit"
    /\ UNCHANGED <<limit, unreadable, list, listClosed, fnx, bftWg, batch, kid, dpc, dir, panic, bftPrinted>>

BftNext ==
    \/ Begin \/ FinishBatch \/ Dispatch \/ DispatchEnd \/ Add \/ PassOn
    \/ Wait \/ Woken \/ CloseList \/ Exit
    \/ \E f \in TreeFile : KidPrint(f) \/ KidSend(f)

BftSpec == BftInit /\ [][BftNext]_bftVars

BftFairness ==
    /\ WF_bftVars(Begin \/ FinishBatch) /\ WF_bftVars(Dispatch \/ DispatchEnd \/ Add \/ PassOn)
    /\ WF_bftVars(Wait \/ Woken \/ CloseList)
    /\ \A f \in TreeFile : WF_bftVars(KidPrint(f) \/ KidSend(f))

----------------------------------------------------------------------------
(* Properties. *)

PrintedNames == {bftPrinted[i] : i \in 1..Len(bftPrinted)}
DirOf(f) == CHOOSE d \in TreeDir : f \in TreeListing[d]
Known(d) == d = TreeRoot \/ d \in PrintedNames
Held == {list[i] : i \in 1..Len(list)} \cup {fnx[i] : i \in 1..Len(fnx)}
        \cup {dir, batch} \cup {f \in TreeDir : kid[f] \in {"print", "list"}}

\* The type invariant, and: wg counts the directories between the dispatcher's Add and the printer's
\* Done.  Those still in list, or in the dispatcher's hands before its Add,
\* are not counted: that is why main can be woken too early.
CountsDispatched ==
    panic = "none" =>
        bftWg = Len(fnx) + Cardinality({batch} \cap TreeDir) + (IF dpc = "send" THEN 1 ELSE 0)

BftInv == BftTypeOK /\ CountsDispatched

\* Breadth first: no name is printed after one of a deeper level or a second
\* time, and none of a directory below the limit, although the files of a
\* directory are printed by concurrent goroutines.
LevelOrder ==
    /\ \A i, j \in 1..Len(bftPrinted) :
          i < j => /\ bftPrinted[i] # bftPrinted[j]
                   /\ Level[DirOf(bftPrinted[i])] <= Level[DirOf(bftPrinted[j])]
    /\ \A f \in PrintedNames : Level[DirOf(f)] <= limit \/ DirOf(f) = TreeRoot

\* A directory whose name is printed and that the limit admits is read out in
\* full or still on its way: the dispatcher, which stops for good at the first
\* directory beyond the limit, leaves none behind that it should have passed on,
\* because list holds directories in the order of their levels.
NoneLeftBehind ==
    panic = "none" =>
        \A d \in TreeDir \ unreadable :
            Known(d) /\ (Level[d] <= limit \/ d = TreeRoot) =>
                \/ TreeListing[d] \subseteq PrintedNames
                \/ d \in Held /\ (dpc = "stop" /\ ~listClosed => d \in {fnx[i] : i \in 1..Len(fnx)} \cup {batch})

\* With -b the directories passed on are counted, the names come level by level, none of
\* them twice, and when list fills up for good nothing within the limit is left in it
\* (walk.go:231-269).
BreadthFirst == BftInv /\ LevelOrder /\ NoneLeftBehind

\* "Walk walks the named file list and prints each name" (walk.go:289): main
\* returns after everything within the limit is printed.
ReturnsWhenDone ==
    mpc \in {"over", "exit"} =>
        \A d \in TreeDir \ unreadable :
            Known(d) /\ (Level[d] <= limit \/ d = TreeRoot) => TreeListing[d] \subseteq PrintedNames

\* main returns or the runtime panics, unless list fills up for good: nobody
\* receives from it once the dispatcher has stopped at the limit, or everyone
\* waits for room in list or fnx.
BftReturns == <>(panic # "none" \/ mpc \in {"over", "exit"}) \/ <>[](Len(list) = ListCap)
=============================================================================
