-------------------------------- MODULE Uniq ---------------------------------
(* uniq: the lines of the files a goroutine opens are remembered with the      *)
(* fields that tell them apart, and written when all have been read; with -R    *)
(* every read is written unless the same was read before.                      *)
EXTENDS Integers, FiniteSets, SequencesExt

CONSTANTS UniqInputs, \* lists of files [readable, lines]; a line is the list of its fields
          Ranges,     \* what -s says: <<"one", n>>, <<"both", n, m>>, <<"from", n>>, <<"upto", m>>, <<"all">>
          UniqModes   \* subsets of {"d", "l", "c", "R"}

UniqText == Seq(Seq(STRING))
ASSUME UniqAssumption == UniqInputs \subseteq Seq([readable : BOOLEAN, lines : Seq(UniqText)])

VARIABLES inputs, range, modes,
          fileno, lineno,  \* the file in hand, and the lines read of it
          buf, sel, seen,  \* the lines, the selection of each, how often it occurred
          looked, passed,  \* the line looked at, and the lines of its selection passed over
          emitted,         \* [line |-> index into buf, ct]
          uniqphase        \* "range", "read", "write" or "exit", "fatal"
uniqVars == <<inputs, range, modes, fileno, lineno, buf, sel, seen, looked, passed, emitted, uniqphase>>
uniqGiven == <<inputs, range, modes>>

\* mustRange: Atoi of what is not a number ends the program, and a colon with a
\* number on one side only is not split.
Field(r) ==
    CASE r[1] = "all" -> <<0, 0>>
      [] r[1] = "one" -> <<r[2], 0>>
      [] r[1] = "both" -> <<r[2], r[3]>>
FatalRange(r) == r[1] \in {"from", "upto"}

Lesser(n, m) == IF n < m THEN n ELSE m
Greater(n, m) == IF n > m THEN n ELSE m

\* field.Extract; beyond the fields there are lie empty ones (regexp leaves the
\* slice room for ten). The selection is the text of the fields put together.
Extract(r, s) ==
    LET l == Len(s)
        n == Greater(r[1], 0)
        m0 == Lesser(r[2], l)
        m == IF n = m0 THEN n + 1 ELSE m0
    IN  CASE l = 0 -> <<>>
          [] l > 0 /\ n > m /\ n < l -> s[n + 1]
          [] l > 0 /\ n > m /\ n >= l -> <<>>
          [] OTHER -> FlattenSeq(SubSeq(s, n + 1, Lesser(m, l)))

Count(f, x) == IF x \in DOMAIN f THEN f[x] ELSE 0
Plus1(f, x) == [y \in DOMAIN f \cup {x} |-> IF y = x THEN Count(f, x) + 1 ELSE f[y]]
NoCount == [x \in {} |-> 0]

UniqInit ==
    /\ inputs \in UniqInputs /\ range \in Ranges /\ modes \in UniqModes
    /\ fileno = 1 /\ lineno = 0 /\ buf = <<>> /\ sel = <<>> /\ seen = NoCount
    /\ looked = 0 /\ passed = NoCount /\ emitted = <<>> /\ uniqphase = "range"

ParseRange ==
    /\ uniqphase = "range"
    /\ uniqphase' = IF FatalRange(range) THEN "fatal" ELSE "read"
    /\ UNCHANGED <<uniqGiven, fileno, lineno, buf, sel, seen, looked, passed, emitted>>

\* walker passes over what it cannot open.
NextFile ==
    /\ uniqphase = "read" /\ fileno <= Len(inputs)
    /\ ~inputs[fileno].readable \/ lineno = Len(inputs[fileno].lines)
    /\ fileno' = fileno + 1 /\ lineno' = 0
    /\ UNCHANGED <<uniqGiven, buf, sel, seen, looked, passed, emitted, uniqphase>>

IsDup ==
    /\ uniqphase = "read" /\ "R" \notin modes /\ fileno <= Len(inputs)
    /\ inputs[fileno].readable /\ lineno < Len(inputs[fileno].lines)
    /\ LET s == inputs[fileno].lines[lineno + 1]
           subf == Extract(Field(range), s)
       IN  /\ buf' = Append(buf, s) /\ sel' = Append(sel, subf) /\ seen' = Plus1(seen, subf)
    /\ lineno' = lineno + 1
    /\ UNCHANGED <<uniqGiven, fileno, looked, passed, emitted, uniqphase>>

\* -R: a read returns one or more of the bytes there are, as the system likes.
ReadToken ==
    /\ uniqphase = "read" /\ "R" \in modes /\ fileno <= Len(inputs)
    /\ inputs[fileno].readable /\ lineno < Len(inputs[fileno].lines)
    /\ \E k \in (lineno + 1)..Len(inputs[fileno].lines) :
        LET x == SubSeq(inputs[fileno].lines, lineno + 1, k)
        IN  /\ lineno' = k /\ buf' = Append(buf, x) /\ seen' = Plus1(seen, x)
            /\ emitted' = IF x \in DOMAIN seen THEN emitted ELSE Append(emitted, [line |-> Len(buf'), ct |-> 1])
    /\ UNCHANGED <<uniqGiven, fileno, sel, looked, passed, uniqphase>>

UniqAllRead ==
    /\ uniqphase = "read" /\ fileno > Len(inputs)
    /\ uniqphase' = IF "R" \in modes THEN "exit" ELSE "write"
    /\ UNCHANGED <<uniqGiven, fileno, lineno, buf, sel, seen, looked, passed, emitted>>

\* Neither -d nor -l: the first line of each selection.
PrintFirst ==
    /\ uniqphase = "write" /\ modes \cap {"d", "l"} = {} /\ looked < Len(buf)
    /\ looked' = looked + 1
    /\ LET x == sel[looked']
           new == seen[x] = 1 \/ Count(passed, x) = 0
       IN  /\ emitted' = IF new THEN Append(emitted, [line |-> looked', ct |-> seen[x]]) ELSE emitted
           /\ passed' = IF seen[x] > 1 /\ new THEN Plus1(passed, x) ELSE passed
    /\ UNCHANGED <<uniqGiven, fileno, lineno, buf, sel, seen, uniqphase>>

\* -d: what occurs again; -l: the last of those.
PrintDuplicate ==
    /\ uniqphase = "write" /\ modes \cap {"d", "l"} # {} /\ looked < Len(buf)
    /\ looked' = looked + 1
    /\ LET x == sel[looked']
           over == "l" \in modes /\ Count(passed, x) < seen[x] - 1
       IN  /\ emitted' = IF seen[x] = 1 \/ over THEN emitted ELSE Append(emitted, [line |-> looked', ct |-> seen[x]])
           /\ passed' = IF seen[x] > 1 /\ over THEN Plus1(passed, x) ELSE passed
    /\ UNCHANGED <<uniqGiven, fileno, lineno, buf, sel, seen, uniqphase>>

UniqExit ==
    /\ uniqphase = "write" /\ looked = Len(buf)
    /\ uniqphase' = "exit"
    /\ UNCHANGED <<uniqGiven, fileno, lineno, buf, sel, seen, looked, passed, emitted>>

UniqNext == ParseRange \/ NextFile \/ IsDup \/ ReadToken \/ UniqAllRead \/ PrintFirst \/ PrintDuplicate \/ UniqExit
UniqSpec == UniqInit /\ [][UniqNext]_uniqVars
-----------------------------------------------------------------------------
LinesOfFile(k) == IF inputs[k].readable THEN inputs[k].lines ELSE <<>>
LinesBefore[k \in 0..Len(inputs)] == IF k = 0 THEN <<>> ELSE LinesBefore[k - 1] \o LinesOfFile(k)
AllLines == LinesBefore[Len(inputs)]

\* What -s selects of a line: as the code takes it, or as the manual has it, which counts
\* the fields from 1 and takes both ends of a range.
ByManual(r, s) ==
    CASE r[1] = "all" -> s
      [] r[1] = "one" -> SubSeq(s, Greater(r[2], 1), Lesser(r[2], Len(s)))
      [] r[1] = "both" -> SubSeq(s, Greater(r[2], 1), Lesser(r[3], Len(s)))
      [] r[1] = "from" -> SubSeq(s, Greater(r[2], 1), Len(s))
      [] r[1] = "upto" -> SubSeq(s, 1, Lesser(r[2], Len(s)))
Picked(rule, s) == IF rule = "code" THEN Extract(Field(range), s) ELSE FlattenSeq(ByManual(range, s))

Same(rule, k, l) == Picked(rule, buf[k]) = Picked(rule, buf[l])
Others(rule, k) == {l \in DOMAIN buf : Same(rule, k, l)} \ {k}
ShownAs(rule, k) ==
    CASE modes \cap {"d", "l"} = {} -> \A l \in Others(rule, k) : k < l
      [] modes \cap {"d", "l"} # {} /\ "l" \in modes -> Others(rule, k) # {} /\ \A l \in Others(rule, k) : l < k
      [] modes \cap {"d", "l"} # {} /\ "l" \notin modes -> Others(rule, k) # {}
ShownBy(rule) ==
    /\ {emitted[k].line : k \in DOMAIN emitted} = {k \in DOMAIN buf : ShownAs(rule, k)}
    /\ \A k \in DOMAIN emitted : emitted[k].ct = Cardinality({l \in DOMAIN buf : Same(rule, emitted[k].line, l)})

\* The lines of all files that can be read are written in their order: the first of
\* each selection, with -d all that have another of their selection, with -l the last
\* of those, each with how often its selection occurs, the selection being the same
\* fields for every line; -R writes no read twice (uniq.go:199-277).
UniqRight ==
    /\ uniqphase = "exit" /\ "R" \notin modes =>
        /\ buf = AllLines
        /\ \A k, l \in DOMAIN emitted : k < l => emitted[k].line < emitted[l].line
        /\ \E rule \in {"code", "manual"} : ShownBy(rule)
    /\ "R" \in modes =>
        /\ \A k, l \in DOMAIN emitted : buf[emitted[k].line] = buf[emitted[l].line] => k = l
        /\ {buf[emitted[k].line] : k \in DOMAIN emitted} = ToSet(buf)

\* "-s n: Field n and every field after", "-s :m Every field up to m" (uniq.go:361-362).
RangesDocumented == uniqphase # "fatal"
=============================================================================
