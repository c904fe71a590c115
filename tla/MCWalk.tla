------------------------------- MODULE MCWalk -------------------------------
(* walk with and without -b for TLC: the initial state decides between the   *)
(* two traversals, and the variables of the other one are those of a walk    *)
(* that is over.                                                             *)
EXTENDS Walk, WalkBft, TLC
CONSTANTS r, a, b, c, e, x, y, z, p1, p2

\* r/{a/{b/{}}, y}, where b cannot be read.
SmallFile == {r, a, b, y}
SmallDir == {r, a, b}
SmallUnreadable == {b}
SmallListing == (r :> <<a, y>>) @@ (a :> <<b>>) @@ (b :> <<>>)
DepthOf == (r :> 0) @@ (a :> 1) @@ (y :> 1) @@ (b :> 2)

\* r/{a/{b/{c}}, z/{}, e/{x}}, where z or the root cannot be read.
LevelFile == {r, a, b, z, e, c, x}
LevelDir == {r, a, b, z, e}
ZOrRoot == {{z}, {r}}
LevelListing == (r :> {a, z, e}) @@ (a :> {b}) @@ (b :> {c}) @@ (z :> {}) @@ (e :> {x})
LevelOf == (r :> 1) @@ (a :> 2) @@ (z :> 2) @@ (e :> 2) @@ (b :> 3)

TwoPaths == {p1, p2}
\* walk r a: the second operand lies under the first.
Overlapping == (p1 :> r) @@ (p2 :> a)

Unlimited == 1073741824
Opt(limit1, memorize) == [t |-> limit1, m |-> memorize]
MCOptions == {Opt(0, FALSE), Opt(1, FALSE), Opt(Unlimited, TRUE)}

VARIABLE breadth       \* -b

ASSUME BftAssumption

\* Of a walk that was ended by the runtime WalkComplete and MemoryLosesNothing say nothing.
DeepOver ==
    /\ args = Opt(Unlimited, TRUE) /\ visit = {} /\ fatal = TRUE
    /\ pc = [p \in Path |-> [d \in Dir |-> "dead"]]
    /\ pos = [p \in Path |-> [d \in Dir |-> 1]] /\ deep = [p \in Path |-> [d \in Dir |-> 0]]
    /\ wg = [p \in Path |-> 0] /\ over = [p \in Path |-> TRUE] /\ closed = over
    /\ listch = [p \in Path |-> <<>>] /\ printed = listch

BftOver ==
    /\ limit = 3 /\ unreadable = {r} /\ list = <<>> /\ listClosed = TRUE /\ fnx = <<>> /\ bftWg = 0
    /\ batch = NoDir /\ kid = [f \in TreeFile |-> "none"]
    /\ dpc = "stop" /\ dir = NoDir /\ mpc = "exit" /\ panic = "none" /\ bftPrinted = <<>>

MCInit ==
    \/ breadth = FALSE /\ Init /\ BftOver
    \/ breadth = TRUE /\ DeepOver /\ BftInit

MCNext ==
    /\ UNCHANGED breadth
    /\ \/ Next /\ UNCHANGED bftVars
       \/ BftNext /\ UNCHANGED vars

MCSpec == MCInit /\ [][MCNext]_<<vars, breadth, bftVars>> /\ Fairness /\ BftFairness

\* Every walk returns, in either order (walk.go:196-269), unless the run-time system
\* ends the program or, with -b, list fills up for good.
WalkReturns == Returns /\ BftReturns
=============================================================================
