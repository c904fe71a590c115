--------------------------------- MODULE X ----------------------------------
(***************************************************************************)
(* x (x/main.go, lex.go, parse.go, addr.go, find.go and win.go): the       *)
(* program is parsed once and applied to each buffer read from standard    *)
(* input, and what is left of the buffer is written.  The file (Win) keeps *)
(* its dot, and the program its addresses, from one buffer to the next.    *)
(*                                                                         *)
(* A lexer goroutine sends items on an unbuffered channel, which it closes *)
(* at the end, and a parser goroutine receives them and then signals       *)
(* `stop'.  Neither has anyone else to talk to, so what they do depends on *)
(* the program only: here the parser runs when the lexer is done.  An item *)
(* received after the close is the zero item.                              *)
(*                                                                         *)
(* Data.  Programs and buffers are sequences of characters; offsets start  *)
(* at 0.  Quotes, backslashes and line ends, which emit would unquote, are *)
(* not in programs, and an argument is shorter than the limit of           *)
(* acceptUntil.  Expressions are literals, matched without regexp's        *)
(* operators, and x and y have one that matches no empty text (with one    *)
(* they never end).  w and > write a file of their own, which is left out, *)
(* as < is by the parser.                                                  *)
(***************************************************************************)
EXTENDS Integers, SequencesExt

Digit == {"0", "1", "2", "3", "4", "5", "6", "7", "8", "9"}
Alpha == {"a", "b", "c", "d", "e", "g", "i", "k", "m", "r", "s", "t", "v", "w", "x", "y", "z"}
Op == {"+", "-", ";", ","}
Mod == {"#", "/", "?"}

Item(k, v) == [kind |-> k, value |-> v]
MaxBytes == <<"max">>                   \* max(): 1<<63 - 1 in decimal

----------------------------------------------------------------------------
(* The lexer: what is left of the input, what has been read since start, the     *)
(* items sent and the state function that runs next.                             *)

Start(program) ==
    [state |-> "any", rest |-> program, buf |-> <<>>, items |-> <<>>, lastop |-> Item("op", <<"+">>), first |-> TRUE]

Peek(l) == IF l.rest = <<>> THEN "eof" ELSE Head(l.rest)
Accept(l) == [l EXCEPT !.buf = Append(@, Head(l.rest)), !.rest = Tail(@)]
Ignore(l) == [l EXCEPT !.buf = <<>>]
Inject(l, it) == [l EXCEPT !.items = Append(@, it)]
Emit(l, kind) == Ignore(Inject(l, Item(kind, l.buf)))
Errorf(l) == Inject(l, Item("err", <<"error">>))

\* What is before the first of some places, or all that is left.
AcceptBefore(l, places) ==
    LET n == IF places = {} THEN Len(l.rest) ELSE Min(places) - 1
    IN  [l EXCEPT !.buf = @ \o SubSeq(l.rest, 1, n), !.rest = SubSeq(@, n + 1, Len(@))]
AcceptRun(l, valid) == AcceptBefore(l, {i \in DOMAIN l.rest : l.rest[i] \notin valid})

IgnoreSpaces(l) == IF Peek(l) = " " THEN Ignore(AcceptRun(l, {" "})) ELSE l

AcceptUntil(l, delim) ==
    LET delims == {i \in DOMAIN l.rest : l.rest[i] = delim}
        text == AcceptBefore(l, delims)
    IN  IF delims = {} THEN Emit(Ignore(Errorf(text)), "eof") ELSE text

Go(l, state) == [l EXCEPT !.state = state]
Fail(l) == Go(Errorf(l), "nil")

\* After a character that delimits it, text of this kind and the character again.
Delimited(l, kind, next) ==
    LET delim == Peek(l)
        text == Emit(AcceptUntil(Ignore(Accept(l)), delim), kind)
    IN  IF Peek(text) = delim THEN Go(Ignore(Accept(text)), next) ELSE Fail(text)

DotOmitted(l) == l                      \* mutant: no implicit dot
DotEmitted(l) == Emit(l, "dot")

LexAny(l) ==
    IF Peek(l) \in Digit \cup Op \cup Mod THEN Go(l, "addr") ELSE Go(DotEmitted(l), "cmd")

LexAddr(l) ==
    LET c == Peek(l)
        number == IgnoreSpaces(Ignore(Accept(l)))
    IN  CASE c = "eof" -> Go(Emit(l, "eof"), "nil")
          [] c \in {",", ";"} ->
                Go(IF l.first THEN [Inject(l, Item("byte", <<"0">>)) EXCEPT !.first = FALSE] ELSE l, "op")
          [] c \in {"+", "-"} -> Emit(Accept([l EXCEPT !.first = FALSE]), "rel")
          [] c = "/" -> Delimited(l, "regexp", "op")
          [] c = "?" -> Delimited(l, "regexp back", "op")
          [] c = "." -> Go(Emit(Accept(l), "dot"), "op")
          [] c = "#" -> IF Peek(number) \in Digit
                        THEN Go(Emit(AcceptRun(number, Digit), "byte"), "op") ELSE Fail(number)
          [] c \in Digit -> Go(Emit(AcceptRun(l, Digit), "line"), "op")
          [] OTHER -> Go(l, "cmd")

EndOmitted(l) == l                      \* mutant: no default
EndInjected(l) == Inject(l, Item("byte", MaxBytes))

\* An address that follows no operator gets the last one; an operator that no address
\* follows gets the end of the file.
LexOp(l) ==
    LET isOp == Peek(l) \in Op
        op == IF isOp THEN <<Peek(l)>> ELSE <<>>
        l2 == IgnoreSpaces(IF isOp THEN Emit(Accept(l), "op") ELSE l)
        more == Peek(l2) \in Digit \cup Mod
        l3 == IF more /\ ~isOp THEN Inject(l2, l2.lastop) ELSE l2
        l4 == IF more THEN [l3 EXCEPT !.lastop = Item("op", op)] ELSE l3
    IN  IF Peek(l) = "eof" THEN Go(Emit(l, "eof"), "nil")
        ELSE Go(IF isOp /\ Peek(l4) \in Alpha \cup {"eof"}
                THEN EndInjected(l4) ELSE l4, "addr")

LexCmd(l) ==
    LET cmd == Emit(Accept(l), "cmd")
    IN  CASE Peek(l) = "eof" -> Go(Emit(l, "eof"), "nil")
          [] Peek(l) \in {"|", "<", ">"} -> Emit([cmd EXCEPT !.buf = cmd.rest, !.rest = <<>>], "arg")
          [] Peek(l) \in Alpha ->
                IF Peek(cmd) = "eof" THEN Go(Emit(cmd, "eof"), "nil") ELSE Delimited(cmd, "arg", "cmd")
          [] OTHER -> Fail(l)

\* One turn of lexer.run: each state function but those of text ignores leading spaces.
LexState(l) ==
    CASE l.state = "any" -> LexAny(l)
      [] l.state = "addr" -> LexAddr(l)
      [] l.state = "op" -> LexOp(l)
      [] l.state = "cmd" -> LexCmd(l)

----------------------------------------------------------------------------
(* The parser, at the i-th item it has received. *)

Tok(items, i) == IF i <= Len(items) THEN items[i] ELSE Item("op", <<>>)

\* What regexp.Compile rejects among texts with no operator but "+" and "?".
Compiles(re) ==
    \A i \in 1..Len(re) : re[i] \in {"+", "?"} => i > 1 /\ re[i - 1] \notin {"+", "?"}

NumberOf(digits) ==
    IF digits = MaxBytes THEN 1000000
    ELSE FoldLeft(LAMBDA n, d : 10 * n + (CHOOSE k \in 0..9 : ToString(k) = d), 0, digits)

NoAddress == [type |-> "nil"]
Dot == [type |-> "dot"]
Number(t, q, r) == [type |-> t, q |-> q, rel |-> r]
Regexp(re, r) == [type |-> "regexp", re |-> re, rel |-> r]
Compound(a0, a1) == [type |-> "compound", a0 |-> a0, a1 |-> a1]

\* The address at item i, the item it ends at, and whether it is bad.
ParseSimpleAddr(items, i) ==
    LET sign == Tok(items, i)
        rel == IF sign.kind # "rel" THEN 0 ELSE IF sign.value = <<"+">> THEN 1 ELSE -1
        at == IF rel = 0 THEN i ELSE i + 1
        tok == Tok(items, at)
        a == CASE tok.kind \in {"regexp", "regexp back"} ->
                        IF Compiles(tok.value) THEN Regexp(tok.value, rel) ELSE NoAddress
               [] tok.kind \in {"line", "byte"} ->
                        Number(tok.kind, IF rel < 0 THEN -NumberOf(tok.value) ELSE NumberOf(tok.value), rel)
               [] tok.kind = "dot" -> Dot
               [] OTHER -> NoAddress
    IN  [addr |-> a, at |-> at, bad |-> tok.kind \notin {"regexp", "regexp back", "line", "byte", "dot"}]

ParseAddr(items, i) ==
    LET p0 == ParseSimpleAddr(items, i)
        op == Tok(items, p0.at + 1)
        p1 == ParseSimpleAddr(items, p0.at + 2)
    IN  IF op.kind # "op" \/ op.value = <<>> THEN [p0 EXCEPT !.at = @ + 1]
        ELSE [addr |-> Compound(p0.addr, p1.addr), at |-> p1.at + 1, bad |-> p0.bad \/ p1.bad]

WithArg == {"a", "i", "c", "r", "w", "g", "v", "|", ">", "x", "y"}
Command(s, args, fn) == [s |-> s, args |-> args, fn |-> fn]

\* The commands from item i on, and whether one of them has a bad address: m and t
\* parse their address at the command itself, and so find none.
ParseCmds(items, first) ==
    LET cmds[i \in Nat] ==
            LET s == IF Len(Tok(items, i).value) = 1 THEN Tok(items, i).value[1] ELSE ""
                arg == Tok(items, i + 1).value
                c == IF s \in WithArg THEN Command(s, arg, s \notin {"x", "y"} \/ Compiles(arg))
                     ELSE Command(s, <<>>, TRUE)
                more == cmds[IF s \in WithArg THEN i + 2 ELSE i + 1]
            IN  IF s \notin WithArg \cup {"d", "m", "t"} THEN [cmd |-> <<>>, bad |-> FALSE]
                ELSE [cmd |-> <<c>> \o more.cmd, bad |-> s \in {"m", "t"} \/ more.bad]
    IN  cmds[first]

\* parser.run: what it leaves when it signals stop.
Parse(items) ==
    LET a == ParseAddr(items, 1)
        cs == ParseCmds(items, a.at)
    IN  [stop |-> Tok(items, 1).kind # "eof", addr |-> a.addr, cmd |-> cs.cmd, err |-> a.bad \/ cs.bad]

----------------------------------------------------------------------------
(* The file, the program's effect on it, and main. *)

CONSTANTS Cases,        \* a sequence of sets of cases: a program, the buffers it is given, and what it says: an
                        \* address and commands, or NoAddress for any text
          Readable,     \* what each file that can be read holds
          Output        \* what each command that | can run writes

\* A program is a text.
ASSUME XAssumption == \A i \in DOMAIN Cases : \A c \in Cases[i] : c.program \in Seq(STRING)

VARIABLES given,                \* the case
          in, out,              \* the buffers still to read and those written
          pc,                   \* main
          lexer,                \* the lexer, with the items it has sent
          addr, cmd,            \* the compiled program
          file                  \* Win, and whether Insert has lost a byte

vars == <<given, in, out, pc, lexer, addr, cmd, file>>

Init ==
    /\ \E i \in DOMAIN Cases : given \in Cases[i]
    /\ in = given.in /\ out = <<>> /\ pc = "lex" /\ lexer = Start(given.program)
    /\ addr = NoAddress /\ cmd = <<>>
    /\ file = [R |-> <<>>, q0 |-> 0, q1 |-> 0, clipped |-> FALSE, panic |-> FALSE]

----------------------------------------------------------------------------
(* Win, win.go *)

Clamp(v, h) == IF v < 0 THEN 0 ELSE IF v > h THEN h ELSE v
Q0(f) == Clamp(f.q0, Len(f.R))
Q1(f) == Clamp(f.q1, Len(f.R))
Between(s, q0, q1) == SubSeq(s, q0 + 1, q1)
Select(f, q0, q1) == [f EXCEPT !.q0 = q0, !.q1 = q1]

\* What follows the place of insertion, which is forgotten when it is one byte.
Back(R, q) == IF q < Len(R) - 1 THEN Between(R, q, Len(R)) ELSE <<>>

Insert(f, s, q) ==
    IF s = <<>> THEN f
    ELSE [f EXCEPT !.R = Between(@, 0, q) \o s \o Back(@, q), !.clipped = @ \/ q = Len(f.R) - 1]

\* With q0 > q1 the file would grow by what was in the buffer before: no instance
\* has such an address.
Delete(f, q0, q1) == [f EXCEPT !.R = Between(@, 0, q0) \o Between(@, q1, Len(@)), !.panic = @ \/ q0 > q1]

----------------------------------------------------------------------------
(* Addresses, addr.go and find.go *)

LineEnds(s) == {i \in 1..Len(s) : s[i] = "\n"}
Nth(S, n) == CHOOSE i \in S : Cardinality({j \in S : j <= i}) = n
MaxOf(S, else) == IF S = {} THEN else ELSE Max(S)

\* findline: line n of s, its start counted from the line end before it.
FindLine(n, s) ==
    LET ends == LineEnds(s)
        found == 1 <= n /\ n <= Cardinality(ends)
        q1 == IF found THEN Nth(ends, n) ELSE Len(s)
        before == MaxOf({i \in ends : i < q1 \/ ~found}, 1) - 1
        q0 == IF found /\ before # 0 THEN before + 1 ELSE before
    IN  <<IF q1 >= Len(s) THEN q0 + 1 ELSE q0, q1>>

\* findline2: the same, read through a reader.
FindLine2(n, s) ==
    LET ends == LineEnds(s)
        found == 1 <= n /\ n <= Cardinality(ends)
        q1 == IF n = 0 THEN 0 ELSE IF found THEN Nth(ends, n) ELSE Len(s)
    IN  <<MaxOf({i \in ends : IF found THEN i < q1 ELSE i <= q1}, 0), q1>>

\* The offset of the first match of re in s, or -1.
Match(re, s) ==
    LET at == {i \in 0..(Len(s) - Len(re)) : Between(s, i, i + Len(re)) = re}
    IN  IF at = {} THEN -1 ELSE Min(at)

AtLineStart(R, q) == q = 0 \/ R[q] = "\n"

\* Setting dot may change the address itself: a Line counts from its line the first
\* time, and from its own Q after that.
SetSimple(a, f) ==
    CASE a.type = "dot" -> [a |-> a, f |-> f]
      [] a.type = "byte" ->
            LET q == a.q + (CASE a.rel = 0 -> 0 [] a.rel = 1 -> Q1(f) [] a.rel = -1 -> Q0(f))
            IN  [a |-> a, f |-> Select(f, q, q)]
      [] a.type = "line" /\ a.rel = 0 ->
            LET q == FindLine(a.q, f.R) IN [a |-> a, f |-> Select(f, q[1], q[2])]
      [] a.type = "line" /\ a.rel = 1 ->
            LET org == Q1(f)
                n == IF AtLineStart(f.R, org) THEN a.q ELSE a.q + 1
                q == FindLine2(n, Between(f.R, org, Len(f.R)))
            IN  [a |-> [a EXCEPT !.q = n], f |-> Select(f, q[1] + org, q[2] + org)]
      [] a.type = "line" /\ a.rel = -1 ->
            LET org == Q0(f)
                n == 1 - a.q
                q == FindLine2(n, Reverse(Between(f.R, 0, org)))
                q0 == org - q[2]
                skip == IF q0 >= 0 /\ q0 < Len(f.R) /\ f.R[q0 + 1] = "\n" THEN 1 ELSE 0
            IN  [a |-> [a EXCEPT !.q = n], f |-> Select(f, q0 + skip, org - q[1])]
      [] a.type = "regexp" ->
            LET org == Q1(f)
                m == Match(a.re, Between(f.R, org, Len(f.R)))
                q1 == org + m + Len(a.re)
            IN  [a |-> a, f |-> IF m = -1 THEN f ELSE Select(f, IF a.rel = 1 THEN q1 ELSE org + m, q1)]
SetDot(a, f) ==
    IF a.type # "compound" THEN SetSimple(a, f)
    ELSE LET s0 == SetSimple(a.a0, f)
             s1 == SetSimple(a.a1, s0.f)
             back == a.a1.type # "dot" /\ a.a1.rel = -1
         IN  [a |-> Compound(s0.a, s1.a),
              f |-> IF back THEN s1.f ELSE Select(s1.f, Q0(s0.f), Q1(s1.f))]

----------------------------------------------------------------------------
(* Commands, parse.go:151-399, as functions of the file; g, v, x and y call the   *)
(* next one, which must be there.                                                *)

Win == [R : Seq(STRING), q0 : Int, q1 : Int, clipped : BOOLEAN, panic : BOOLEAN]

\* An argument of | without a word: its first word is taken all the same.
Blank == Seq({" ", "\n"})

Change(f, s) == Insert(Delete(f, Q0(f), Q1(f)), s, Q0(f))

NotAdvanced(x1, grown) == x1            \* mutant: a loop forgets that the file has grown
Advanced(x1, grown) == x1 + grown

\* x: each match in x1..q1, after what the next command did to the one before.
EachMatch(re, CallNext, dot) ==
    LET each[f \in Win, x1 \in Int, q1 \in Int] ==
            LET m == IF x1 > q1 THEN -1 ELSE Match(re, Between(f.R, x1, q1))
                end == x1 + m + Len(re)
                g == CallNext[Select(f, x1 + m, end)]
                grown == Len(g.R) - Len(f.R)
            IN  IF m = -1 THEN f
                ELSE IF g.panic THEN g ELSE each[g, Advanced(end, grown), q1 + grown]
    IN  each[dot, Q0(dot), Q1(dot)]

\* y: what is before each match, and what is left at the end unless it is empty.
EachGap(re, CallNext, dot) ==
    LET each[f \in Win, x1 \in Int, q1 \in Int] ==
            LET m == IF x1 > q1 THEN -1 ELSE Match(re, Between(f.R, x1, q1))
                g == CallNext[Select(f, x1, x1 + m)]
                grown == Len(g.R) - Len(f.R)
            IN  IF m = -1 THEN IF x1 < q1 THEN CallNext[Select(f, x1, q1)] ELSE f
                ELSE IF g.panic THEN g ELSE each[g, Advanced(x1 + m + Len(re), grown), q1 + grown]
    IN  each[dot, Q0(dot), Q1(dot)]

Do(cs, file0) ==
    LET do[i \in DOMAIN cs, f \in Win] ==
            LET arg == cs[i].args
                s == cs[i].s
                matches == Match(arg, Between(f.R, Q0(f), Q1(f))) # -1
                CallNext == [g \in Win |-> IF i = Len(cs) THEN [g EXCEPT !.panic = TRUE]
                                           ELSE IF cs[i + 1].fn THEN do[i + 1, g] ELSE g]
            IN  CASE s = "a" -> Insert(f, arg, Q1(f))
                  [] s = "i" -> Insert(f, arg, Q0(f))
                  [] s = "c" -> Change(f, arg)
                  [] s = "d" -> Delete(f, Q0(f), Q1(f))
                  [] s = "r" -> IF arg \in DOMAIN Readable THEN Change(f, Readable[arg]) ELSE f
                  [] s = "|" -> IF arg \in Blank THEN [f EXCEPT !.panic = TRUE]
                                ELSE Change(f, IF arg \in DOMAIN Output THEN Output[arg] ELSE <<>>)
                  [] s = "g" -> IF matches THEN CallNext[f] ELSE f
                  [] s = "v" -> IF matches THEN f ELSE CallNext[f]
                  [] s = "x" -> EachMatch(arg, CallNext, f)
                  [] s = "y" -> EachGap(arg, CallNext, f)
                  [] OTHER -> f
    IN  do[1, file0]

----------------------------------------------------------------------------
(* main, main.go:11-29, and cmdparse *)

Missing(a) == NoAddress \in (IF a.type = "compound" THEN {a.a0, a.a1} ELSE {a})

Lex ==
    /\ pc = "lex"
    /\ \E l \in {IgnoreSpaces(lexer)} : lexer' = LexState(l)
    /\ pc' = IF lexer'.state = "nil" THEN "parse" ELSE "lex"
    /\ UNCHANGED <<given, in, out, addr, cmd, file>>

\* Without a signal on stop main waits for ever.
CmdParse ==
    /\ pc = "parse"
    /\ LET p == Parse(lexer.items)
       IN  /\ p.stop
           /\ pc' = IF p.err \/ Missing(p.addr) THEN "no cmd" ELSE "read"
           /\ addr' = p.addr /\ cmd' = p.cmd
    /\ UNCHANGED <<given, in, out, lexer, file>>

\* The nil *Command or address is dereferenced for the first buffer.
Panic ==
    /\ pc = "no cmd" /\ in # <<>>
    /\ pc' = "panic"
    /\ UNCHANGED <<given, in, out, lexer, addr, cmd, file>>

Kept(f, R) == [f EXCEPT !.R = R]

Read ==
    /\ pc = "read" /\ in # <<>>
    /\ LET s == SetDot(addr, Kept(file, Head(in)))
           f == IF cmd # <<>> /\ cmd[1].fn THEN Do(cmd, s.f) ELSE s.f
       IN  /\ addr' = s.a /\ file' = f
           /\ IF f.panic THEN pc' = "panic" /\ UNCHANGED out
              ELSE out' = Append(out, f.R) /\ UNCHANGED pc
    /\ in' = Tail(in)
    /\ UNCHANGED <<given, lexer, cmd>>

Return ==
    /\ pc \in {"read", "no cmd"} /\ in = <<>>
    /\ pc' = "over"
    /\ UNCHANGED <<given, in, out, lexer, addr, cmd, file>>

Next == Lex \/ CmdParse \/ Panic \/ Read \/ Return
Spec == Init /\ [][Next]_vars

----------------------------------------------------------------------------
(* Properties. *)

\* The control states, and: main never waits in vain for the parser, whatever the
\* program (parse.go:416-425 returns without a signal when the first item is the end,
\* 469 waits for one).
XInv ==
    /\ pc \in {"lex", "parse", "no cmd", "read", "over", "panic"}
    /\ pc = "parse" => Parse(lexer.items).stop

\* A program comes through lexer and parser as it was written: the defaults of an
\* address that is left out, each command once and in order with its own argument
\* (lex.go:196-337, parse.go:42-118, 416-438).
ProgramKept ==
    given.addr # NoAddress /\ pc \notin {"lex", "parse"} =>
        /\ pc # "no cmd" /\ cmd = given.cmd
        /\ out = <<>> /\ pc = "read" => addr = given.addr

\* What commands say of a selection, without offsets.
Says(cs, selection) ==
    LET says[i \in DOMAIN cs, s \in Seq(STRING)] ==
            LET arg == cs[i].args
                m == Match(arg, s)
                before == SubSeq(s, 1, m)
                match == SubSeq(s, m + 1, m + Len(arg))
                after == SubSeq(s, m + Len(arg) + 1, Len(s))
            IN  CASE cs[i].s = "a" -> s \o arg
                  [] cs[i].s = "i" -> arg \o s
                  [] cs[i].s = "c" -> arg
                  [] cs[i].s = "d" -> <<>>
                  [] cs[i].s = "r" -> IF arg \in DOMAIN Readable THEN Readable[arg] ELSE s
                  [] cs[i].s = "g" -> IF m = -1 THEN s ELSE says[i + 1, s]
                  [] cs[i].s = "v" -> IF m = -1 THEN says[i + 1, s] ELSE s
                  [] cs[i].s = "x" -> IF m = -1 THEN s ELSE before \o says[i + 1, match] \o says[i, after]
                  [] cs[i].s = "y" -> IF m # -1 THEN says[i + 1, before] \o match \o says[i, after]
                                      ELSE IF s = <<>> THEN s ELSE says[i + 1, s]
    IN  says[1, selection]

\* Line n of s; findline finds it unless it is the last, or follows an empty first line.
LineOf(n, s) == <<IF n = 1 THEN 0 ELSE Nth(LineEnds(s), n - 1), Nth(LineEnds(s), n)>>
HasLine(n, s) ==
    /\ 1 <= n /\ n <= Cardinality(LineEnds(s)) /\ Nth(LineEnds(s), n) < Len(s)
    /\ ~(n = 2 /\ s[1] = "\n")

\* The range a simple address names when dot is at q, or <<>> for none or for one
\* that findline misses.
Named(a, s, q) ==
    LET m == Match(a.re, Between(s, q, Len(s)))
        ends == {i \in LineEnds(s) : i > q}
    IN  CASE a.type = "dot" -> <<0, 0>>
          [] a.type = "byte" -> LET n == Clamp(a.q, Len(s)) IN <<n, n>>
          [] a.type = "line" /\ a.rel = 0 -> IF HasLine(a.q, s) THEN LineOf(a.q, s) ELSE <<>>
          [] a.type = "line" /\ a.rel = 1 ->
                IF AtLineStart(s, q) /\ a.q = 1 THEN <<q, IF ends = {} THEN Len(s) ELSE Min(ends)>> ELSE <<>>
          [] a.type = "regexp" -> IF m = -1 THEN <<>> ELSE <<q + m, q + m + Len(a.re)>>

Range2(a, s) ==
    IF a.type # "compound" THEN Named(a, s, 0)
    ELSE LET r0 == Named(a.a0, s, 0)
             r1 == IF r0 = <<>> THEN <<>> ELSE Named(a.a1, s, r0[2])
         IN  IF r1 = <<>> \/ r1[2] < r0[1] THEN <<>> ELSE <<r0[1], r1[2]>>

Absolute(a) == a.type \in {"byte", "line"} /\ a.rel = 0
Steady(a) == IF a.type = "compound" THEN Absolute(a.a0) ELSE Absolute(a)

\* What is written for a buffer is the buffer with the selection that the address names
\* replaced by what the commands make of it, in spite of the offsets that each change
\* moves; for a buffer after the first when the address starts from no dot.  An
\* insertion before the last byte loses that byte (win.go:22): then nothing is said.
EditsAsWritten ==
    (given.addr # NoAddress /\ ~file.clipped /\ pc = "read") =>
        \A k \in 1..Len(out) :
            LET s == given.in[k]
                q == Range2(given.addr, s)
            IN  (k = 1 \/ Steady(given.addr)) /\ q # <<>> =>
                    out[k] = Between(s, 0, q[1]) \o Says(given.cmd, Between(s, q[1], q[2]))
                             \o Between(s, q[2], Len(s))
=============================================================================
