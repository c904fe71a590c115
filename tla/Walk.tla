-------------------------------- MODULE Walk --------------------------------
(***************************************************************************)
(* walk's depth-first traversal (walk/walk.go: main, dft, dft1, visited).  *)
(* Each path on the command line is walked by a goroutine of its own; in a *)
(* walk every directory is read by a goroutine of its own, which sends the *)
(* names it finds on the walk's channel listch.  With -m all of them share *)
(* the map `visit': it is written under a lock and read without one.       *)
(*                                                                         *)
(* Data.  A file is its path; Listing[d] is what reading the directory d   *)
(* returns, in order.  The conditions -d and -f and the printing of paths  *)
(* are left out: a name received from listch is printed.                   *)
(***************************************************************************)
EXTENDS Integers, Sequences, FiniteSets

CONSTANTS File, Dir,      \* Dir: the directories among the files
          Unreadable,     \* directories that ReadDir rejects
          Listing,        \* [Dir -> Seq(File)]
          Path,           \* the walks, one for each operand
          Root,           \* [Path -> Dir]
          Depth,          \* [File -> Nat]: the elements of a path
          Options,        \* command lines: t is -t and m is -m
          NoLimit,        \* the default of -t
          NGo             \* the capacity of listch, 16384

\* A path is listed once, by its own directory, and has more elements than that.
ASSUME WalkAssumption ==
    /\ Dir \subseteq File /\ Unreadable \subseteq Dir /\ IsFiniteSet(Dir)
    /\ Listing \in [Dir -> Seq(File)]
    /\ Depth \in [File -> Nat]
    /\ \A d \in Dir : \A i \in DOMAIN Listing[d] : Depth[d] < Depth[Listing[d][i]]
    /\ \A d, e \in Dir : \A i \in DOMAIN Listing[d], j \in DOMAIN Listing[e] :
          Listing[d][i] = Listing[e][j] => d = e /\ i = j
    /\ Root \in [Path -> Dir]
    /\ Options \subseteq [t : Nat, m : BOOLEAN] /\ NoLimit \in Nat
    /\ NGo \in Nat \ {0}

VARIABLES args,     \* the command line
          pc,       \* pc[p][d]: the goroutine dft1 of directory d in walk p
          pos,      \* its index in Listing[d]
          deep,     \* its parameter deep
          wg,       \* the WaitGroup of each walk
          listch,   \* the channel of each walk
          closed,   \* whether it is closed
          printed,  \* history: the names each walk has printed, in order
          over,     \* whether run.walk has returned for this path
          visit,    \* the shared map
          fatal     \* the runtime threw "concurrent map read and map write"

goroutines == <<pc, pos, deep, wg>>
vars == <<goroutines, listch, closed, printed, over, visit, fatal, args>>

Control == {"unborn", "read", "next", "lock", "write", "go", "send", "dead"}

TypeOK ==
    /\ args \in Options
    /\ pc \in [Path -> [Dir -> Control]]
    /\ pos \in [Path -> [Dir -> Nat]] /\ deep \in [Path -> [Dir -> Nat]]
    /\ wg \in [Path -> Nat]
    /\ listch \in [Path -> Seq(File)] /\ \A p \in Path : Len(listch[p]) <= NGo
    /\ closed \in [Path -> BOOLEAN] /\ over \in [Path -> BOOLEAN]
    /\ printed \in [Path -> Seq(File)]
    /\ visit \in SUBSET File /\ fatal \in BOOLEAN

Init ==
    /\ args \in Options
    /\ pc = [p \in Path |-> [d \in Dir |-> IF d = Root[p] THEN "read" ELSE "unborn"]]
    /\ pos = [p \in Path |-> [d \in Dir |-> 1]]
    /\ deep = [p \in Path |-> [d \in Dir |-> 0]]
    /\ wg = [p \in Path |-> 1]
    /\ listch = [p \in Path |-> <<>>]
    /\ closed = [p \in Path |-> FALSE]
    /\ printed = [p \in Path |-> <<>>]
    /\ over = [p \in Path |-> FALSE]
    /\ visit = {} /\ fatal = FALSE

Running == ~fatal /\ \E p \in Path : ~over[p]    \* main waits for every walk

Kid(p, d) == Listing[d][pos[p][d]]
Names(d) == IF d \notin Dir \ Unreadable THEN {} ELSE {Listing[d][i] : i \in 1..Len(Listing[d])}
To(p, d, c) == pc' = [pc EXCEPT ![p][d] = c]
Advance(p, d) == pos' = [pos EXCEPT ![p][d] = @ + 1]

----------------------------------------------------------------------------
(* dft1, walk.go:210-227 *)

FinishUncounted(p, d) == To(p, d, "dead") /\ UNCHANGED wg  \* mutant: a return skips Done
\* The deferred wg.Done() runs when the loop is over.
Finish(p, d) == To(p, d, "dead") /\ wg' = [wg EXCEPT ![p] = @ - 1]

ReadDir(p, d) ==
    /\ Running /\ pc[p][d] = "read"
    /\ IF d \in Unreadable THEN Finish(p, d) ELSE To(p, d, "next") /\ UNCHANGED wg
    /\ UNCHANGED <<pos, deep, listch, closed, printed, over, visit, fatal, args>>

\* visitedfunc(kid), first half: the map is read without the lock.
Ask(p, d) ==
    /\ Running /\ pc[p][d] = "next" /\ pos[p][d] <= Len(Listing[d])
    /\ IF ~args.m THEN To(p, d, "go") /\ UNCHANGED pos
       ELSE IF Kid(p, d) \in visit THEN Advance(p, d) /\ UNCHANGED pc
       ELSE To(p, d, "lock") /\ UNCHANGED pos
    /\ UNCHANGED <<deep, wg, listch, closed, printed, over, visit, fatal, args>>

\* The runtime may notice a read of the map during a write and throws.
AskDuringWrite(p, d) ==
    /\ Running /\ args.m /\ pc[p][d] = "next" /\ pos[p][d] <= Len(Listing[d])
    /\ \E q \in Path, e \in Dir : pc[q][e] = "write"
    /\ fatal' = TRUE
    /\ UNCHANGED <<goroutines, listch, closed, printed, over, visit, args>>

\* Second half, lines 97-99: the lock is taken and the map written.
Lock(p, d) ==
    /\ Running /\ pc[p][d] = "lock"
    /\ \A q \in Path, e \in Dir : pc[q][e] # "write"
    /\ To(p, d, "write")
    /\ UNCHANGED <<pos, deep, wg, listch, closed, printed, over, visit, fatal, args>>

SkippedAll(p, d) == Names(Kid(p, d)) \cup {Kid(p, d)}   \* mutant: marks what it has not walked
Skipped(p, d) == {Kid(p, d)}

Write(p, d) ==
    /\ Running /\ pc[p][d] = "write"
    /\ visit' = visit \cup Skipped(p, d)
    /\ To(p, d, "go")
    /\ UNCHANGED <<pos, deep, wg, listch, closed, printed, over, fatal, args>>

Joined(k) == k + 1

\* A directory above the limit gets a goroutine, counted before it starts.
DescendsPast(p, d) == Kid(p, d) \in Dir /\ deep[p][d] <= args.t   \* mutant
Descends(p, d) == Kid(p, d) \in Dir /\ deep[p][d] < args.t

Go(p, d) ==
    /\ Running /\ pc[p][d] = "go"
    /\ IF Descends(p, d)
       THEN /\ pc' = [pc EXCEPT ![p][d] = "send", ![p][Kid(p, d)] = "read"]
            /\ deep' = [deep EXCEPT ![p][Kid(p, d)] = deep[p][d] + 1]
            /\ wg' = [wg EXCEPT ![p] = Joined(@)]
       ELSE To(p, d, "send") /\ UNCHANGED <<deep, wg>>
    /\ UNCHANGED <<pos, listch, closed, printed, over, visit, fatal, args>>

Room(p) == Len(listch[p]) < NGo

Send(p, d) ==
    /\ Running /\ pc[p][d] = "send" /\ Room(p)
    /\ listch' = [listch EXCEPT ![p] = Append(@, Kid(p, d))]
    /\ Advance(p, d) /\ To(p, d, "next")
    /\ UNCHANGED <<deep, wg, closed, printed, over, visit, fatal, args>>

Leave(p, d) ==
    /\ Running /\ pc[p][d] = "next" /\ pos[p][d] > Len(Listing[d])
    /\ Finish(p, d)
    /\ UNCHANGED <<pos, deep, listch, closed, printed, over, visit, fatal, args>>

Dft1(p, d) == \/ ReadDir(p, d) \/ Ask(p, d) \/ AskDuringWrite(p, d) \/ Lock(p, d)
              \/ Write(p, d) \/ Go(p, d) \/ Send(p, d) \/ Leave(p, d)

----------------------------------------------------------------------------
(* dft, walk.go:196-208 *)

Close(p) ==
    /\ Running /\ ~closed[p] /\ wg[p] = 0
    /\ closed' = [closed EXCEPT ![p] = TRUE]
    /\ UNCHANGED <<goroutines, listch, printed, over, visit, fatal, args>>

Show(p) ==
    /\ Running /\ listch[p] # <<>>
    /\ printed' = [printed EXCEPT ![p] = Append(@, Head(listch[p]))]
    /\ listch' = [listch EXCEPT ![p] = Tail(@)]
    /\ UNCHANGED <<goroutines, closed, over, visit, fatal, args>>

Return(p) ==
    /\ Running /\ ~over[p] /\ listch[p] = <<>> /\ closed[p]
    /\ over' = [over EXCEPT ![p] = TRUE]
    /\ UNCHANGED <<goroutines, listch, closed, printed, visit, fatal, args>>

Next ==
    \/ \E p \in Path, d \in Dir : Dft1(p, d)
    \/ \E p \in Path : Close(p) \/ Show(p) \/ Return(p)

Spec == Init /\ [][Next]_vars

\* Every goroutine that can run is run.
Fairness ==
    /\ \A p \in Path, d \in Dir : WF_vars(Dft1(p, d))
    /\ \A p \in Path : WF_vars(Close(p)) /\ WF_vars(Show(p) \/ Return(p))

----------------------------------------------------------------------------
(* Properties. *)

Printed(p) == {printed[p][i] : i \in 1..Len(printed[p])}
PrintedOnce(p) == Len(printed[p]) = Cardinality(Printed(p))

\* The directories k levels under the root of each walk.
Below[k \in 0..Cardinality(Dir)] ==
    [p \in Path |-> IF k = 0 THEN {Root[p]}
                    ELSE UNION {Names(d) \cap Dir : d \in Below[k - 1][p]}]

\* The names on the first n levels under the root of walk p, and those the code prints
\* with -t: one level more.
FirstLevels(p, n) ==
    UNION {UNION {Names(d) : d \in Below[k][p]} : k \in {k \in 0..Cardinality(Dir) : k < n}}
Expected(p) ==
    UNION {UNION {Names(d) : d \in Below[k][p]} : k \in {k \in 0..Cardinality(Dir) : k <= args.t}}

\* wg counts the goroutines that have not finished, so listch is closed after the last
\* send and never before (lines 201-204, 211, 222).
Members(p) == {d \in Dir : pc[p][d] \notin {"unborn", "dead"}}
ClosedAfterLastSend ==
    \A p \in Path : wg[p] = Cardinality(Members(p)) /\ (closed[p] => Members(p) = {})

\* The type invariant with the above, and: no walk prints a name twice, at any moment and
\* however its goroutines are interleaved (walk.go:196-227).
WalkInv == TypeOK /\ ClosedAfterLastSend /\ \A p \in Path : PrintedOnce(p)

\* Without -m a walk that has returned has printed every name of the first -t levels
\* and none below the next one, however its goroutines were interleaved.  Whether that next
\* level belongs to the walk is where the code and its usage disagree: NoMoreLevels.
WalkComplete ==
    \A p \in Path : (over[p] /\ ~args.m) =>
        FirstLevels(p, args.t) \subseteq Printed(p) /\ Printed(p) \subseteq Expected(p)

\* "Walk the first four levels down the directory tree ... walk -d -t 4" (walk.go:307-311).
\* No run checks it: the code walks one level more.
NoMoreLevels == \A p \in Path : Printed(p) \subseteq FirstLevels(p, args.t)

\* With no limit, with -m: a name skipped as visited is printed by the walk that
\* marked it: together the walks lose no name, whatever they race for.
MemoryLosesNothing ==
    (~fatal /\ args.t = NoLimit /\ \A p \in Path : over[p]) =>
        UNION {Printed(p) : p \in Path} = UNION {Expected(p) : p \in Path}

\* Every walk returns, unless the runtime ends the program.
Returns == <>(fatal \/ \A p \in Path : over[p])
=============================================================================
