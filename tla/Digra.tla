-------------------------------- MODULE Digra --------------------------------
(* digra: a goroutine loads the graph of a file while the main goroutine       *)
(* already answers queries from standard input. Ranging over a Go map takes    *)
(* the elements in any order. Words are what split returns of a line.          *)
EXTENDS Integers, FiniteSets, SequencesExt, Graphs

CONSTANTS Files,     \* [readable |-> BOOLEAN, lines |-> sequence of lists of words]
          Sessions,  \* sequences of lists of words: what is typed
          Bad        \* stands for a line whose quotation is invalid

VARIABLES file, nline, loaded, \* the loader: lines read, the graph it builds
          g,                   \* the graph the queries see
          session, asked,      \* queries typed, number read
          on,                  \* the graph the query in progress was called with
          stack, seen,         \* the calls of visit in progress, and seen
          order, comps,        \* S and sccs of Kosaraju's algorithm
          phase,               \* "ask", "visit", "pop" (the reverse pass), "exit"
          out                  \* one answer for each query: nothing is <<>>
vars == <<file, nline, loaded, g, session, asked, on, stack, seen, order, comps, phase, out>>
loading == <<file, nline, loaded, g>>

Empty == [n \in {} |-> {}]
Succ(h, n) == IF n \in DOMAIN h THEN h[n] ELSE {}

\* addEdges: to's are nodes too.
AddEdges(h, from, to) ==
    [n \in DOMAIN h \cup {from} \cup to |-> Succ(h, n) \cup (IF n = from THEN to ELSE {})]
Reverse1(h) == [n \in DOMAIN h |-> {m \in DOMAIN h : n \in h[m]}]

query == session[asked]
cmd == Head(query)
args == Tail(query)

\* The number of labels a command takes; next, prev, front and back take one or more.
Takes(c, k) ==
    \/ c \in {"node", "deg", "strongs"} /\ k = 0
    \/ c = "strong" /\ k = 1
    \/ c \in {"walk", "walkall"} /\ k = 2
    \/ c \in {"next", "prev", "front", "back"} /\ k > 0

\* Otherwise digraph returns an error, of which main makes nothing; an empty line
\* is passed over.
Accepted(h, q) == q # <<>> /\ Takes(Head(q), Len(q) - 1) /\ ToSet(Tail(q)) \subseteq DOMAIN h

Directed(h, c) == IF c \in {"prev", "back"} THEN Reverse1(h) ELSE h

\* The queries that need no search.
AtOnce(h, c, ls) ==
    CASE c = "node" -> <<DOMAIN h>>
      [] c = "deg" -> <<{<<Cardinality(Reverse1(h)[n]), Cardinality(h[n]), n>> : n \in DOMAIN h}>>
      [] c \in {"next", "prev"} -> <<UNION {Directed(h, c)[n] : n \in ToSet(ls)}>>

\* Where a search starts.
StartsAt(h, c, ls) ==
    CASE c \in {"front", "back"} -> ToSet(ls)
      [] c \in {"walk", "walkall"} -> {Head(ls)}
      [] c \in {"strongs", "strong"} -> DOMAIN h

\* A call of visit and the successors it has still to visit; the first frame
\* stands for the caller.
Frame(label, rest, reaches) == [label |-> label, rest |-> rest, reaches |-> reaches]
Caller(roots) == Frame("", roots, FALSE)
top == Last(stack)

Init ==
    /\ file \in Files /\ nline = 0 /\ loaded = Empty /\ g = Empty
    /\ session \in Sessions /\ asked = 0 /\ on = Empty
    /\ stack = <<>> /\ seen = Empty /\ order = <<>> /\ comps = <<>>
    /\ phase = "ask" /\ out = <<>>

-----------------------------------------------------------------------------
(* The loader. fatal ends the whole program.                                   *)
LoadLine ==
    /\ phase # "exit" /\ file.readable /\ nline < Len(file.lines)
    /\ file.lines[nline + 1] # Bad
    /\ nline' = nline + 1
    /\ loaded' = IF file.lines[nline'] = <<>> THEN loaded
                 ELSE AddEdges(loaded, Head(file.lines[nline']), ToSet(Tail(file.lines[nline'])))
    /\ UNCHANGED <<file, g, session, asked, on, stack, seen, order, comps, phase, out>>

LoadFails ==
    /\ phase # "exit"
    /\ \/ ~file.readable
       \/ nline < Len(file.lines) /\ file.lines[nline + 1] = Bad
    /\ phase' = "exit"
    /\ UNCHANGED <<file, nline, loaded, g, session, asked, on, stack, seen, order, comps, out>>

\* The assignment to main's g.
Publish ==
    /\ phase # "exit" /\ file.readable /\ nline = Len(file.lines) /\ g # loaded
    /\ g' = loaded
    /\ UNCHANGED <<file, nline, loaded, session, asked, on, stack, seen, order, comps, phase, out>>

-----------------------------------------------------------------------------
(* The main goroutine.                                                         *)
Answer(text) ==
    /\ out' = Append(out, text) /\ phase' = "ask"
    /\ stack' = <<>> /\ seen' = Empty /\ order' = <<>> /\ comps' = <<>>

\* The end of the input, or a query that cannot be split, ends the program.
EndOfInput ==
    /\ phase = "ask"
    /\ asked < Len(session) => session[asked + 1] = Bad
    /\ phase' = "exit"
    /\ UNCHANGED <<loading, session, asked, on, stack, seen, order, comps, out>>

Ask ==
    /\ phase = "ask" /\ asked < Len(session) /\ session[asked + 1] # Bad
    /\ asked' = asked + 1 /\ on' = g
    /\ LET q == session[asked']
       IN  \/ /\ ~Accepted(g, q)
              /\ Answer(<<>>)
           \/ /\ Accepted(g, q) /\ Head(q) \in {"node", "deg", "next", "prev"}
              /\ Answer(AtOnce(g, Head(q), Tail(q)))
           \/ /\ Accepted(g, q) /\ Head(q) \notin {"node", "deg", "next", "prev"}
              /\ phase' = "visit" /\ stack' = <<Caller(StartsAt(g, Head(q), Tail(q)))>>
              /\ UNCHANGED <<seen, order, comps, out>>
    /\ UNCHANGED <<loading, session>>

\* The graph visit ranges over.
Searched == IF phase = "rvisit" THEN Reverse1(on) ELSE Directed(on, cmd)

\* visit(e) of a node seen before returns at once.
Revisit == \E e \in IF stack = <<>> THEN {} ELSE top.rest :
    /\ phase \in {"visit", "rvisit"} /\ e \in DOMAIN seen
    /\ stack' = Append(Front(stack), Frame(top.label, top.rest \ {e}, top.reaches \/ (cmd = "walkall" /\ seen[e])))
    /\ UNCHANGED <<loading, session, asked, on, seen, order, comps, phase, out>>

Enter == \E e \in IF stack = <<>> THEN {} ELSE top.rest :
    /\ phase \in {"visit", "rvisit"} /\ e \notin DOMAIN seen /\ ~(cmd = "walk" /\ e = args[2])
    /\ LET there == cmd = "walkall" /\ e = args[2]
       IN  /\ seen' = [n \in DOMAIN seen \cup {e} |-> IF n = e THEN there ELSE seen[n]]
           /\ stack' = Front(stack) \o <<Frame(top.label, top.rest \ {e}, top.reaches), Frame(e, Succ(Searched, e), there)>>
    /\ UNCHANGED <<loading, session, asked, on, order, comps, phase, out>>

\* walk has arrived: it prints the labels of the calls in progress.
Found ==
    /\ phase = "visit" /\ stack # <<>> /\ cmd = "walk" /\ args[2] \in top.rest
    /\ Answer([i \in 1..Len(stack) |-> {IF i < Len(stack) THEN stack[i + 1].label ELSE args[2]}])
    /\ UNCHANGED <<loading, session, asked, on>>

Return ==
    /\ phase \in {"visit", "rvisit"} /\ Len(stack) > 1 /\ top.rest = {}
    /\ LET caller == stack[Len(stack) - 1]
       IN  stack' = Append(SubSeq(stack, 1, Len(stack) - 2), [caller EXCEPT !.reaches = @ \/ top.reaches])
    /\ seen' = [seen EXCEPT ![top.label] = top.reaches]
    /\ order' = IF phase = "visit" /\ cmd \in {"strongs", "strong"} THEN Append(order, top.label) ELSE order
    /\ UNCHANGED <<loading, session, asked, on, comps, phase, out>>

AllVisited == phase \in {"visit", "rvisit"} /\ Len(stack) = 1 /\ top.rest = {}

\* The end of front, back, walk without a path and walkall.
Searched1 ==
    /\ AllVisited /\ cmd \notin {"strongs", "strong"}
    /\ Answer(CASE cmd \in {"front", "back"} -> <<DOMAIN seen>>
                [] cmd = "walkall" /\ top.reaches -> <<{n \in DOMAIN seen : seen[n]}>>
                [] OTHER -> <<>>)
    /\ UNCHANGED <<loading, session, asked, on>>

\* sccs: the forward pass is over, or one component of the reverse pass is complete.
PassOver ==
    /\ AllVisited /\ cmd \in {"strongs", "strong"}
    /\ phase' = "pop" /\ stack' = <<>>
    /\ seen' = IF phase = "visit" THEN Empty ELSE seen
    /\ comps' = IF phase = "visit" THEN comps ELSE Append(comps, DOMAIN seen \ UNION ToSet(comps))
    /\ UNCHANGED <<loading, session, asked, on, order, out>>

\* The reverse pass pops S and starts a component at every node it has not seen.
Pop ==
    /\ phase = "pop" /\ order # <<>>
    /\ order' = Front(order)
    /\ IF Last(order) \in DOMAIN seen THEN UNCHANGED <<phase, stack>>
       ELSE phase' = "rvisit" /\ stack' = <<Caller({Last(order)})>>
    /\ UNCHANGED <<loading, session, asked, on, seen, comps, out>>

Components ==
    /\ phase = "pop" /\ order = <<>>
    /\ Answer(IF cmd = "strongs" THEN comps ELSE SelectSeq(comps, LAMBDA s : args[1] \in s))
    /\ UNCHANGED <<loading, session, asked, on>>

Next ==
    \/ LoadLine \/ LoadFails \/ Publish
    \/ EndOfInput \/ Ask \/ Revisit \/ Enter \/ Found \/ Return \/ Searched1 \/ PassOver \/ Pop \/ Components

Spec == Init /\ [][Next]_vars
-----------------------------------------------------------------------------
(* What the answers are compared with.                                         *)
FileGraph ==
    LET words == {i \in DOMAIN file.lines : file.lines[i] \notin {<<>>, Bad}}
    IN  [n \in UNION {ToSet(file.lines[i]) : i \in words} |->
            UNION {ToSet(Tail(file.lines[i])) : i \in {j \in words : Head(file.lines[j]) = n}}]
Reach(h) == ConnectionsIn([node |-> DOMAIN h, edge |-> {e \in (DOMAIN h) \X (DOMAIN h) : e[2] \in h[e[1]]}])

\* A walk: every step is an edge and no node occurs twice.
IsPath(h, text, from, to) ==
    /\ Head(text) = {from} /\ Last(text) = {to} /\ IsInjective(text)
    /\ \A i \in 1..(Len(text) - 1) : \E m \in text[i], n \in text[i + 1] : n \in h[m]

\* walkall: the two ends, and from every node another one of the answer.
IsWalks(h, set, from, to) ==
    /\ {from, to} \subseteq set
    /\ \A n \in set : Reach(h)[from, n] /\ Reach(h)[n, to]
    /\ \A n \in set \ {to} : h[n] \cap set # {}
OnWalks(h, from, to) == {n \in DOMAIN h : Reach(h)[from, n] /\ Reach(h)[n, to]}
Acyclic(h) == \A m, n \in DOMAIN h : m # n /\ Reach(h)[m, n] => ~Reach(h)[n, m]

Mutual(h, n) == {m \in DOMAIN h : Reach(h)[m, n] /\ Reach(h)[n, m]}

Right(h, q, text) ==
    LET c == Head(q)  ls == Tail(q)  r == Reach(h)
    IN  IF ~Accepted(h, q) THEN text = <<>>
        ELSE CASE c \in {"node", "deg", "next", "prev"} -> text = AtOnce(h, c, ls)
               [] c = "front" -> text = <<{n \in DOMAIN h : \E m \in ToSet(ls) : r[m, n]}>>
               [] c = "back" -> text = <<{n \in DOMAIN h : \E m \in ToSet(ls) : r[n, m]}>>
               [] c = "walk" -> IF r[ls[1], ls[2]] THEN IsPath(h, text, ls[1], ls[2]) ELSE text = <<>>
               [] c = "walkall" ->
                    IF ~r[ls[1], ls[2]] THEN text = <<>>
                    ELSE /\ Len(text) = 1 /\ IsWalks(h, text[1], ls[1], ls[2])
                         /\ Acyclic(h) => text[1] = OnWalks(h, ls[1], ls[2])
               [] c = "strong" -> text = <<Mutual(h, ls[1])>>
               [] c = "strongs" -> IsInjective(text) /\ ToSet(text) = {Mutual(h, n) : n \in DOMAIN h}

\* Every answer is right about the graph the query was called with, which is the
\* whole graph of the file or, before it is loaded, the empty one, although nothing
\* orders the loader and the queries (digra.go:45-59) and maps are ranged over in
\* any order.
AnswersRight ==
    /\ on \in {Empty, FileGraph}
    /\ phase = "ask" /\ out # <<>> => Right(on, session[Len(out)], Last(out))

\* The nodes walkall prints are all those on a path to the second (digra.go:323).
WalkallWhole ==
    phase = "ask" /\ out # <<>> =>
        LET q == session[Len(out)]
        IN  q # <<>> /\ Head(q) = "walkall" /\ Last(out) # <<>> =>
                Last(out) = <<OnWalks(on, q[2], q[3])>>
=============================================================================
