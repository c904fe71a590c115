-------------------------------- MODULE Comm ---------------------------------
(* comm: the merge of two sorted files into three columns. A line is a natural *)
(* number, 0 the empty line.                                                   *)
EXTENDS Integers, FiniteSets, SequencesExt

CONSTANTS CommPairs,  \* of sorted files
          CommFlags   \* sequences of the digits after the dash

Increasing(q) == \A k, l \in DOMAIN q : k < l => q[k] <= q[l]
ASSUME CommAssumption ==
    /\ CommPairs \subseteq [1..2 -> Seq(Nat)] /\ \A p \in CommPairs : Increasing(p[1]) /\ Increasing(p[2])
    /\ CommFlags \subseteq Seq(Nat)

VARIABLES sorted, hide,
          next,      \* lines Scan has gone through, of each file
          ln, ok,    \* what nextln returned last, of each file
          maxtabs,
          merged,    \* what is printed: [line, col, tabs]
          commphase  \* "args", "merge", "exit" or "usage"
commVars == <<sorted, hide, next, ln, ok, maxtabs, merged, commphase>>

CommInit ==
    /\ sorted \in CommPairs /\ hide \in CommFlags
    /\ next = [f \in 1..2 |-> 1]
    /\ ok = [f \in 1..2 |-> sorted[f] # <<>>]
    /\ ln = [f \in 1..2 |-> IF sorted[f] = <<>> THEN 0 ELSE sorted[f][1]]
    /\ maxtabs = 2 /\ merged = <<>> /\ commphase = "args"

\* Every digit takes a tab away, also one that was given before.
Columns ==
    /\ commphase = "args" /\ ToSet(hide) \subseteq 1..3
    /\ maxtabs' = 2 - Len(hide) /\ commphase' = "merge"
    /\ UNCHANGED <<sorted, hide, next, ln, ok, merged>>
BadColumn ==
    /\ commphase = "args" /\ ~(ToSet(hide) \subseteq 1..3)
    /\ commphase' = "usage"
    /\ UNCHANGED <<sorted, hide, next, ln, ok, maxtabs, merged>>

hidden == ToSet(hide)
Tabs(n) == IF n - (3 - maxtabs) < 0 THEN 0 ELSE n - (3 - maxtabs)
Show(s, n) == merged' = IF n \in hidden THEN merged ELSE Append(merged, [line |-> s, col |-> n, tabs |-> Tabs(n)])

\* nextln of some of the files.
NextLn(fs) ==
    /\ next' = [f \in 1..2 |-> IF f \in fs THEN next[f] + 1 ELSE next[f]]
    /\ ok' = [f \in 1..2 |-> next'[f] <= Len(sorted[f])]
    /\ ln' = [f \in 1..2 |-> IF f \notin fs THEN ln[f] ELSE IF ok'[f] THEN sorted[f][next'[f]] ELSE 0]
    /\ UNCHANGED <<sorted, hide, maxtabs, commphase>>

FirstFile == {1}                      \* mutant: only one line is taken
BothFiles == {1, 2}
Both == commphase = "merge" /\ ok[1] /\ ok[2] /\ ln[1] = ln[2] /\ Show(ln[1], 3) /\ NextLn(BothFiles)
First == commphase = "merge" /\ ok[1] /\ ok[2] /\ ln[1] < ln[2] /\ Show(ln[1], 1) /\ NextLn({1})
Second == commphase = "merge" /\ ok[1] /\ ok[2] /\ ln[1] > ln[2] /\ Show(ln[2], 2) /\ NextLn({2})

\* One file is over. flush goes on as long as that file has lines, which are none:
\* of the other one the line in hand is printed, whether or not there is one.
FirstOver ==
    /\ commphase = "merge" /\ ~ok[1]
    /\ Show(ln[2], 2) /\ commphase' = "exit"
    /\ UNCHANGED <<sorted, hide, next, ln, ok, maxtabs>>
SecondOver ==
    /\ commphase = "merge" /\ ok[1] /\ ~ok[2]
    /\ Show(ln[1], 1) /\ commphase' = "exit"
    /\ UNCHANGED <<sorted, hide, next, ln, ok, maxtabs>>

CommNext == Columns \/ BadColumn \/ Both \/ First \/ Second \/ FirstOver \/ SecondOver
CommSpec == CommInit /\ [][CommNext]_commVars
-----------------------------------------------------------------------------
\* How often a line is in a file, and how often it belongs in a column.
Times(f, s) == Cardinality({k \in DOMAIN sorted[f] : sorted[f][k] = s})
Belongs(s, n) ==
    CASE n = 3 -> IF Times(1, s) < Times(2, s) THEN Times(1, s) ELSE Times(2, s)
      [] n = 1 -> IF Times(1, s) > Times(2, s) THEN Times(1, s) - Times(2, s) ELSE 0
      [] n = 2 -> IF Times(2, s) > Times(1, s) THEN Times(2, s) - Times(1, s) ELSE 0
InColumn(s, n) == Cardinality({k \in DOMAIN merged : merged[k].line = s /\ merged[k].col = n})
Lines == UNION {ToSet(sorted[f]) : f \in 1..2}

\* Where the files end together an empty line follows.
Extra(s, n) == IF commphase = "exit" /\ ~ok[1] /\ ~ok[2] /\ s = 0 /\ n = 2 THEN 1 ELSE 0
\* The lines of the file that lasts, from the second of them on.
Lost(f) == ToSet(SubSeq(sorted[f], next[f] + 1, Len(sorted[f])))

\* What is printed is sorted and in the column it belongs to, no line of the files too
\* often but for the empty one that follows when they end together; and what is missing
\* lies beyond the first line left in one file when the other was over (comm.go:58-110).
CommPrefix ==
    /\ commphase = "exit" /\ hide = <<>> => \A s \in Lines, n \in 1..3 :
         \/ Belongs(s, n) <= InColumn(s, n) /\ InColumn(s, n) <= Belongs(s, n) + Extra(s, n)
         \/ InColumn(s, n) < Belongs(s, n) /\ n < 3 /\ s \in Lost(n)
    /\ \A k, l \in DOMAIN merged : k < l => merged[k].line <= merged[l].line \/ Extra(merged[l].line, merged[l].col) = 1
    /\ \A k \in DOMAIN merged : merged[k].col \notin hidden

\* "Comm reads two sorted files and outputs three columns: lines exclusively in
\* file1, lines exclusively in file2, and lines present in both files" (comm.go:155).
CommWhole == commphase = "exit" => \A s \in Lines, n \in (1..3) \ hidden : InColumn(s, n) >= Belongs(s, n)
=============================================================================
