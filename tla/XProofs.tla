------------------------------ MODULE XProofs ------------------------------
(***************************************************************************)
(* That main of x never waits in vain for its parser, for every program,   *)
(* every list of buffers and every command the program may call.           *)
(*                                                                         *)
(* The parser returns without a signal when the first item is the end.  So *)
(* the argument is about what the lexer sends first: the state functions   *)
(* move on without an item only from lexAny to lexAddr, at a character     *)
(* which begins an address, and there each way sends something that is not *)
(* the end, if only an error.                                              *)
(***************************************************************************)
EXTENDS X, SequenceTheorems, WellFoundedInduction, TLAPS

\* The kinds of items, and what their texts are made of: strings, some of them the lexer's own.
Kinds == {"op", "byte", "line", "rel", "dot", "regexp", "regexp back", "cmd", "arg", "err", "eof"}
Letters == STRING \cup {"+", "0", "max", "error"} \cup Op

Items == [kind : Kinds, value : Seq(Letters)]
States == {"any", "addr", "op", "cmd", "nil"}
Lexers == [state : States, rest : Seq(Letters), buf : Seq(Letters), items : Seq(Items), lastop : Items, first : BOOLEAN]

\* Nothing has been sent, and what has been sent begins with something else than the end.
Silent(l) == l.items = <<>>
Begun(l) == l.items # <<>> /\ l.items[1].kind # "eof"

\* The lexer between two turns: it has begun, or is at its start or where an address begins.
LexerKept(l) ==
    /\ l \in Lexers
    /\ \/ Begun(l)
       \/ /\ Silent(l) /\ l.first
          /\ l.state = "any" \/ (l.state = "addr" /\ Peek(l) \in Digit \cup Op \cup Mod)

XKept ==
    /\ pc \in {"lex", "parse", "no cmd", "read", "over", "panic"}
    /\ LexerKept(lexer)
    /\ pc = "lex" => lexer.state # "nil"
    /\ pc # "lex" => lexer.state = "nil"

----------------------------------------------------------------------------
(* The operations of the lexer. *)

\* A set of numbers has a least one.
LEMMA LeastNumber ==
  ASSUME NEW T \in SUBSET Nat, T # {}
  PROVE  Min(T) \in T
<1>1. \E m \in T : \A y \in T : ~ (<<y, m>> \in OpToRel(<, Nat))
  BY NatLessThanWellFounded, WFMin
<1>2. PICK m \in T : \A y \in T : ~ (<<y, m>> \in OpToRel(<, Nat))
  BY <1>1
<1>3. ASSUME NEW y \in T PROVE m <= y
  <2>1. <<y, m>> \in OpToRel(<, Nat) <=> y < m
    <3>1. <<y, m>> \in Nat \X Nat
      OBVIOUS
    <3> QED
      BY <3>1 DEF OpToRel
  <2>2. ~(y < m)
    BY <1>2, <2>1
  <2>3. y \in Nat /\ m \in Nat
    OBVIOUS
  <2> QED
    BY <2>2, <2>3
<1> QED
  BY <1>3 DEF Min

\* What reads the input or forgets what was read sends nothing.
Quiet(l, m) == m \in Lexers /\ m.items = l.items /\ m.state = l.state /\ m.first = l.first

\* accept, at a character.
LEMMA AcceptQuiet ==
  ASSUME NEW l \in Lexers, l.rest # <<>>
  PROVE  Quiet(l, Accept(l))
<1>1. l.rest \in Seq(Letters) /\ l.buf \in Seq(Letters)
  BY DEF Lexers
<1>2. Head(l.rest) \in Letters /\ Tail(l.rest) \in Seq(Letters)
  BY <1>1, HeadTailProperties
<1>3. Append(l.buf, Head(l.rest)) \in Seq(Letters)
  BY <1>1, <1>2, AppendProperties
<1> QED
  BY <1>2, <1>3 DEF Quiet, Accept, Lexers

\* ignore.
LEMMA IgnoreQuiet ==
  ASSUME NEW l \in Lexers
  PROVE  Quiet(l, Ignore(l))
<1>1. <<>> \in Seq(Letters)
  OBVIOUS
<1> QED
  BY <1>1 DEF Quiet, Ignore, Lexers

\* Reading up to the first of some places.
LEMMA BeforeQuiet ==
  ASSUME NEW l \in Lexers, NEW places \in SUBSET DOMAIN l.rest
  PROVE  Quiet(l, AcceptBefore(l, places))
<1> DEFINE n == IF places = {} THEN Len(l.rest) ELSE Min(places) - 1
<1>1. l.rest \in Seq(Letters) /\ l.buf \in Seq(Letters)
  BY DEF Lexers
<1>2. Len(l.rest) \in Nat /\ DOMAIN l.rest = 1..Len(l.rest)
  BY <1>1
<1>3. n \in 0..Len(l.rest)
  <2>1. CASE places = {}
    BY <1>2, <2>1
  <2>2. CASE places # {}
    <3>1. Min(places) \in places
      BY <1>2, <2>2, LeastNumber
    <3> QED
      BY <1>2, <2>2, <3>1
  <2> QED
    BY <2>1, <2>2
<1> HIDE DEF n
<1>4. SubSeq(l.rest, 1, n) \in Seq(Letters)
  <2>1. \A i \in 1..n : l.rest[i] \in Letters
    BY <1>1, <1>2, <1>3, ElementOfSeq
  <2> QED
    BY <1>1, <1>2, <1>3, SubSeqProperties
<1>5. SubSeq(l.rest, n + 1, Len(l.rest)) \in Seq(Letters)
  <2>1. \A i \in n + 1..Len(l.rest) : l.rest[i] \in Letters
    BY <1>1, <1>2, <1>3, ElementOfSeq
  <2> QED
    BY <1>1, <1>2, <1>3, SubSeqProperties
<1>6. l.buf \o SubSeq(l.rest, 1, n) \in Seq(Letters)
  BY <1>1, <1>4, ConcatProperties
<1>7. AcceptBefore(l, places)
        = [l EXCEPT !.buf = l.buf \o SubSeq(l.rest, 1, n), !.rest = SubSeq(l.rest, n + 1, Len(l.rest))]
  BY DEF AcceptBefore, n, Lexers
<1> QED
  BY <1>5, <1>6, <1>7 DEF Quiet, Lexers

\* acceptRun.
LEMMA RunQuiet ==
  ASSUME NEW l \in Lexers, NEW valid
  PROVE  Quiet(l, AcceptRun(l, valid))
BY BeforeQuiet DEF AcceptRun

\* ignoreSpaces; a character that is no space is still the next one.
LEMMA SpacesQuiet ==
  ASSUME NEW l \in Lexers
  PROVE  /\ Quiet(l, IgnoreSpaces(l))
         /\ Peek(l) # " " => IgnoreSpaces(l) = l
<1>1. Quiet(l, AcceptRun(l, {" "}))
  BY RunQuiet
<1>2. Quiet(AcceptRun(l, {" "}), Ignore(AcceptRun(l, {" "})))
  BY <1>1, IgnoreQuiet DEF Quiet
<1> QED
  BY <1>1, <1>2 DEF IgnoreSpaces, Quiet

\* What sends leaves the state function alone, and the first item is not the end.
Sends(l, m) == m \in Lexers /\ Begun(m) /\ m.state = l.state

\* An item of some kind can be sent: it is not the first, or not the end.
Fit(l, kind) == Begun(l) \/ (Silent(l) /\ kind # "eof")

\* inject.
LEMMA InjectSends ==
  ASSUME NEW l \in Lexers, NEW it \in Items, Fit(l, it.kind)
  PROVE  Sends(l, Inject(l, it)) /\ Inject(l, it).rest = l.rest
<1>1. l.items \in Seq(Items)
  BY DEF Lexers
<1>2. /\ Append(l.items, it) \in Seq(Items)
      /\ Len(Append(l.items, it)) = Len(l.items) + 1
      /\ \A i \in 1..Len(l.items) : Append(l.items, it)[i] = l.items[i]
      /\ Append(l.items, it)[Len(l.items) + 1] = it
  BY <1>1, AppendProperties
<1>3. Inject(l, it) = [l EXCEPT !.items = Append(l.items, it)]
  BY DEF Inject, Lexers
<1>4. /\ Inject(l, it) \in Lexers /\ Inject(l, it).state = l.state /\ Inject(l, it).rest = l.rest
      /\ Inject(l, it).items = Append(l.items, it)
  BY <1>2, <1>3 DEF Lexers
<1>5. Append(l.items, it) # <<>>
  <2>1. Len(l.items) \in Nat
    BY <1>1, LenProperties
  <2>2. Len(Append(l.items, it)) # 0
    BY <1>2, <2>1
  <2> QED
    BY <1>2, <2>2, EmptySeq
<1>6. Append(l.items, it)[1].kind # "eof"
  <2>1. CASE Begun(l)
    <3>1. 1 \in 1..Len(l.items)
      BY <1>1, <2>1, EmptySeq DEF Begun
    <3> QED
      BY <1>2, <2>1, <3>1 DEF Begun
  <2>2. CASE Silent(l) /\ it.kind # "eof"
    <3>1. Len(l.items) = 0
      BY <1>1, <2>2, EmptySeq DEF Silent
    <3> QED
      BY <1>2, <2>2, <3>1
  <2> QED
    BY <2>1, <2>2 DEF Fit
<1> QED
  BY <1>4, <1>5, <1>6 DEF Sends, Begun

\* What is quiet leaves what can be sent as it was.
LEMMA QuietFit ==
  ASSUME NEW l \in Lexers, NEW m, Quiet(l, m), NEW kind
  PROVE  /\ Fit(m, kind) <=> Fit(l, kind)
         /\ Begun(m) <=> Begun(l)
BY DEF Quiet, Fit, Begun, Silent

\* emit.
LEMMA EmitSends ==
  ASSUME NEW l \in Lexers, NEW kind \in Kinds, Fit(l, kind)
  PROVE  Sends(l, Emit(l, kind)) /\ Emit(l, kind).rest = l.rest
<1> DEFINE it == Item(kind, l.buf)
           m == Inject(l, it)
<1>1. it \in Items /\ it.kind = kind
  BY DEF Item, Items, Lexers
<1>2. Sends(l, m) /\ m.rest = l.rest
  BY <1>1, InjectSends
<1>3. m \in Lexers
  BY <1>2 DEF Sends
<1>4. Quiet(m, Ignore(m)) /\ Ignore(m).rest = m.rest
  BY <1>3, IgnoreQuiet DEF Ignore, Lexers
<1>5. Begun(Ignore(m)) <=> Begun(m)
  BY <1>3, <1>4, QuietFit
<1>6. Emit(l, kind) = Ignore(m)
  BY DEF Emit
<1> QED
  BY <1>2, <1>4, <1>5, <1>6 DEF Sends, Quiet

\* A sequence of one.
LEMMA OneItem ==
  ASSUME NEW S, NEW e \in S
  PROVE  <<e>> \in Seq(S)
OBVIOUS

\* A sequence over some set is one over a greater set.
LEMMA SeqOfMore ==
  ASSUME NEW S, NEW T, S \subseteq T, NEW s \in Seq(S)
  PROVE  s \in Seq(T)
OBVIOUS

\* errorf: an error is something, too.
LEMMA ErrorSends ==
  ASSUME NEW l \in Lexers, Begun(l) \/ Silent(l)
  PROVE  Sends(l, Errorf(l))
<1>1. Item("err", <<"error">>) \in Items /\ Item("err", <<"error">>).kind = "err"
  <2>1. "error" \in Letters /\ "err" \in Kinds
    BY DEF Letters, Kinds
  <2>2. <<"error">> \in Seq(Letters)
    BY <2>1, OneItem
  <2> QED
    BY <2>1, <2>2 DEF Item, Items
<1>2. Fit(l, "err")
  BY DEF Fit
<1> QED
  BY <1>1, <1>2, InjectSends DEF Errorf

\* Sending after something quiet.
LEMMA QuietSends ==
  ASSUME NEW l \in Lexers, NEW m, Quiet(l, m), NEW n, Sends(m, n)
  PROVE  Sends(l, n)
BY DEF Quiet, Sends

\* acceptUntil: quiet where the delimiter is, an error and the end where it is not.
LEMMA UntilSends ==
  ASSUME NEW l \in Lexers, NEW delim, Begun(l) \/ Silent(l)
  PROVE  \/ Quiet(l, AcceptUntil(l, delim))
         \/ Sends(l, AcceptUntil(l, delim))
<1> DEFINE delims == {i \in DOMAIN l.rest : l.rest[i] = delim}
           text == AcceptBefore(l, delims)
           failed == Errorf(text)
<1>1. Quiet(l, text)
  BY BeforeQuiet
<1>2. text \in Lexers /\ (Begun(text) \/ Silent(text))
  BY <1>1 DEF Quiet, Begun, Silent
<1>3. Sends(text, failed)
  BY <1>2, ErrorSends
<1>4. failed \in Lexers /\ Begun(failed)
  BY <1>3 DEF Sends
<1>5. Quiet(failed, Ignore(failed))
  BY <1>4, IgnoreQuiet
<1>6. Ignore(failed) \in Lexers /\ Begun(Ignore(failed))
  BY <1>4, <1>5, QuietFit DEF Quiet
<1>7. Sends(Ignore(failed), Emit(Ignore(failed), "eof"))
  <2>1. Fit(Ignore(failed), "eof") /\ "eof" \in Kinds
    BY <1>6 DEF Fit, Kinds
  <2> QED
    BY <1>6, <2>1, EmitSends
<1>8. AcceptUntil(l, delim) = IF delims = {} THEN Emit(Ignore(failed), "eof") ELSE text
  BY DEF AcceptUntil
<1>9. Sends(l, Emit(Ignore(failed), "eof"))
  BY <1>1, <1>3, <1>5, <1>7 DEF Sends, Quiet
<1> QED
  BY <1>1, <1>8, <1>9

----------------------------------------------------------------------------
(* The state functions. *)

\* After a turn that has sent something, whichever state function is next.
LEMMA GoKeeps ==
  ASSUME NEW l \in Lexers, Begun(l), NEW state \in States
  PROVE  LexerKept(Go(l, state)) /\ Begun(Go(l, state))
<1>1. Go(l, state) \in Lexers /\ Go(l, state).state = state /\ Go(l, state).items = l.items
  BY DEF Go, Lexers
<1> QED
  BY <1>1 DEF LexerKept, Begun

\* errorf as the end of a state function.
LEMMA FailKeeps ==
  ASSUME NEW l \in Lexers, Begun(l) \/ Silent(l)
  PROVE  LexerKept(Fail(l)) /\ Begun(Fail(l))
<1>1. Sends(l, Errorf(l))
  BY ErrorSends
<1>2. Errorf(l) \in Lexers /\ Begun(Errorf(l)) /\ "nil" \in States
  BY <1>1 DEF Sends, States
<1> QED
  BY <1>2, GoKeeps DEF Fail

\* Delimited text: an item, or an error.
LEMMA DelimitedKeeps ==
  ASSUME NEW l \in Lexers, Begun(l) \/ Silent(l), l.rest # <<>>, Peek(l) # "eof",
         NEW kind \in Kinds, kind # "eof", NEW next \in States
  PROVE  LexerKept(Delimited(l, kind, next)) /\ Begun(Delimited(l, kind, next))
<1> DEFINE delim == Peek(l)
           l1 == Accept(l)
           l2 == Ignore(l1)
           l3 == AcceptUntil(l2, delim)
           text == Emit(l3, kind)
<1>1. Quiet(l, l1)
  BY AcceptQuiet
<1>2. l1 \in Lexers
  BY <1>1 DEF Quiet
<1>3. Quiet(l1, l2)
  BY <1>2, IgnoreQuiet
<1>4. l2 \in Lexers /\ (Begun(l2) \/ Silent(l2))
  BY <1>1, <1>3 DEF Quiet, Begun, Silent
<1>5. Quiet(l2, l3) \/ Sends(l2, l3)
  BY <1>4, UntilSends
<1>6. l3 \in Lexers /\ Fit(l3, kind)
  BY <1>4, <1>5 DEF Quiet, Sends, Fit, Begun, Silent
<1>7. text \in Lexers /\ Begun(text)
  BY <1>6, EmitSends DEF Sends
<1>8. Delimited(l, kind, next)
        = IF Peek(text) = delim THEN Go(Ignore(Accept(text)), next) ELSE Fail(text)
  BY DEF Delimited
<1> HIDE DEF text, delim
<1>9. CASE Peek(text) = delim
  <2>1. text.rest # <<>>
    BY <1>9 DEF Peek, delim
  <2>2. Quiet(text, Accept(text))
    BY <1>7, <2>1, AcceptQuiet
  <2>3. Quiet(Accept(text), Ignore(Accept(text)))
    BY <2>2, IgnoreQuiet DEF Quiet
  <2>4. Ignore(Accept(text)) \in Lexers /\ Begun(Ignore(Accept(text)))
    BY <1>7, <2>2, <2>3 DEF Quiet, Begun
  <2> QED
    BY <1>8, <1>9, <2>4, GoKeeps
<1>10. CASE Peek(text) # delim
  BY <1>7, <1>8, <1>10, FailKeeps
<1> QED
  BY <1>9, <1>10

\* A turn of the lexer: what it leaves is kept, and it stops only when it has begun.
TurnRight(m) == LexerKept(m) /\ (m.state = "nil" => Begun(m))

\* A lexer that has begun and goes on.
LEMMA BegunRight ==
  ASSUME NEW m \in Lexers, Begun(m)
  PROVE  TurnRight(m)
BY DEF TurnRight, LexerKept

\* Sending an item, then the next state function.
LEMMA EmitGo ==
  ASSUME NEW l \in Lexers, NEW kind \in Kinds, Fit(l, kind), NEW state \in States
  PROVE  TurnRight(Emit(l, kind)) /\ TurnRight(Go(Emit(l, kind), state))
<1>1. Emit(l, kind) \in Lexers /\ Begun(Emit(l, kind))
  BY EmitSends DEF Sends
<1> QED
  BY <1>1, BegunRight, GoKeeps DEF TurnRight

\* lexAny: an address can begin here, or dot is sent for it.
LEMMA AnyRight ==
  ASSUME NEW l \in Lexers, LexerKept(l)
  PROVE  TurnRight(LexAny(l))
<1>1. CASE Peek(l) \in Digit \cup Op \cup Mod
  <2>1. LexAny(l) = Go(l, "addr")
    BY <1>1 DEF LexAny
  <2>2. /\ Go(l, "addr") \in Lexers /\ Go(l, "addr").state = "addr" /\ Go(l, "addr").items = l.items
        /\ Go(l, "addr").first = l.first /\ Go(l, "addr").rest = l.rest
    BY DEF Go, Lexers, States
  <2>3. Peek(Go(l, "addr")) = Peek(l)
    BY <2>2 DEF Peek
  <2> QED
    BY <1>1, <2>1, <2>2, <2>3 DEF TurnRight, LexerKept, Begun, Silent
<1>2. CASE Peek(l) \notin Digit \cup Op \cup Mod
  <2>1. LexAny(l) = Go(Emit(l, "dot"), "cmd")
    BY <1>2 DEF LexAny, DotEmitted
  <2>2. Fit(l, "dot") /\ "dot" \in Kinds /\ "cmd" \in States
    BY DEF Fit, LexerKept, Kinds, States
  <2> QED
    BY <2>1, <2>2, EmitGo
<1> QED
  BY <1>1, <1>2

\* lexAddr: where an address begins, each way sends something before it goes on.
LEMMA AddrRight ==
  ASSUME NEW l \in Lexers, LexerKept(l), l.state = "addr"
  PROVE  TurnRight(LexAddr(l))
<1> DEFINE c == Peek(l)
           number == IgnoreSpaces(Ignore(Accept(l)))
           injected == [Inject(l, Item("byte", <<"0">>)) EXCEPT !.first = FALSE]
           moved == [l EXCEPT !.first = FALSE]
<1>1. Begun(l) \/ (Silent(l) /\ l.first /\ c \in Digit \cup Op \cup Mod)
  BY DEF LexerKept
<1>2. c # "eof" => l.rest # <<>>
  BY DEF Peek
<1>3. CASE c = "eof"
  <2>1. LexAddr(l) = Go(Emit(l, "eof"), "nil")
    BY <1>3 DEF LexAddr, Digit
  <2>2. Fit(l, "eof") /\ "eof" \in Kinds /\ "nil" \in States
    BY <1>1, <1>3 DEF Fit, Kinds, States, Digit, Op, Mod
  <2> QED
    BY <2>1, <2>2, EmitGo
<1>4. CASE c \in {",", ";"}
  <2>1. LexAddr(l) = Go(IF l.first THEN injected ELSE l, "op")
    BY <1>4 DEF LexAddr, Digit
  <2>2. CASE l.first
    <3>1. "0" \in Letters /\ "byte" \in Kinds
      BY DEF Letters, Kinds
    <3>2. <<"0">> \in Seq(Letters)
      BY <3>1, OneItem
    <3>3. Item("byte", <<"0">>) \in Items /\ Item("byte", <<"0">>).kind = "byte"
      BY <3>1, <3>2 DEF Item, Items
    <3>4. Fit(l, "byte")
      BY <1>1 DEF Fit
    <3>5. Inject(l, Item("byte", <<"0">>)) \in Lexers /\ Begun(Inject(l, Item("byte", <<"0">>)))
      BY <3>3, <3>4, InjectSends DEF Sends
    <3>6. injected \in Lexers /\ Begun(injected)
      BY <3>5 DEF Lexers, Begun
    <3>7. "op" \in States
      BY DEF States
    <3> HIDE DEF injected
    <3> QED
      BY <2>1, <2>2, <3>6, <3>7, GoKeeps DEF TurnRight
  <2>3. CASE ~l.first
    <3>1. Begun(l) /\ "op" \in States
      BY <1>1, <2>3 DEF States
    <3> QED
      BY <2>1, <2>3, <3>1, GoKeeps DEF TurnRight
  <2> QED
    BY <2>2, <2>3
<1>5. CASE c \in {"+", "-"}
  <2>1. LexAddr(l) = Emit(Accept(moved), "rel")
    BY <1>5 DEF LexAddr, Digit
  <2>2. moved \in Lexers /\ moved.items = l.items /\ moved.rest # <<>>
    BY <1>2, <1>5 DEF Lexers
  <2> HIDE DEF moved
  <2>3. Quiet(moved, Accept(moved))
    BY <2>2, AcceptQuiet
  <2>4. Accept(moved) \in Lexers /\ Fit(Accept(moved), "rel") /\ "rel" \in Kinds /\ "op" \in States
    BY <1>1, <2>2, <2>3 DEF Quiet, Fit, Begun, Silent, Kinds, States
  <2> QED
    BY <2>1, <2>4, EmitGo
<1>6. CASE c \in {"/", "?"}
  <2>1. \E kind \in {"regexp", "regexp back"} : LexAddr(l) = Delimited(l, kind, "op")
    BY <1>6 DEF LexAddr, Digit
  <2>2. PICK kind \in {"regexp", "regexp back"} : LexAddr(l) = Delimited(l, kind, "op")
    BY <2>1
  <2>3. kind \in Kinds /\ kind # "eof" /\ "op" \in States /\ Peek(l) # "eof" /\ l.rest # <<>>
    BY <1>2, <1>6 DEF Kinds, States
  <2>4. Begun(l) \/ Silent(l)
    BY <1>1
  <2> QED
    BY <2>2, <2>3, <2>4, DelimitedKeeps DEF TurnRight
<1>7. CASE c = "."
  <2>1. LexAddr(l) = Go(Emit(Accept(l), "dot"), "op")
    BY <1>7 DEF LexAddr, Digit
  <2>2. Quiet(l, Accept(l))
    BY <1>2, <1>7, AcceptQuiet
  <2>3. Accept(l) \in Lexers /\ Fit(Accept(l), "dot") /\ "dot" \in Kinds /\ "op" \in States
    BY <1>1, <2>2 DEF Quiet, Fit, Begun, Silent, Kinds, States
  <2> QED
    BY <2>1, <2>3, EmitGo
<1>8. CASE c = "#"
  <2>1. Quiet(l, Accept(l))
    BY <1>2, <1>8, AcceptQuiet
  <2>2. Quiet(Accept(l), Ignore(Accept(l)))
    BY <2>1, IgnoreQuiet DEF Quiet
  <2>3. Quiet(Ignore(Accept(l)), number)
    BY <2>2, SpacesQuiet DEF Quiet
  <2>4. number \in Lexers /\ (Begun(number) \/ Silent(number))
    BY <1>1, <2>1, <2>2, <2>3 DEF Quiet, Begun, Silent
  <2>5. LexAddr(l) = IF Peek(number) \in Digit
                     THEN Go(Emit(AcceptRun(number, Digit), "byte"), "op") ELSE Fail(number)
    BY <1>8 DEF LexAddr, Digit
  <2> HIDE DEF number
  <2>6. Quiet(number, AcceptRun(number, Digit))
    BY <2>4, RunQuiet
  <2>7. /\ AcceptRun(number, Digit) \in Lexers /\ Fit(AcceptRun(number, Digit), "byte")
        /\ "byte" \in Kinds /\ "op" \in States
    BY <2>4, <2>6 DEF Quiet, Fit, Begun, Silent, Kinds, States
  <2>8. TurnRight(Go(Emit(AcceptRun(number, Digit), "byte"), "op"))
    BY <2>7, EmitGo
  <2>9. TurnRight(Fail(number))
    BY <2>4, FailKeeps DEF TurnRight
  <2> QED
    BY <2>5, <2>8, <2>9
<1>9. CASE c \in Digit
  <2>1. LexAddr(l) = Go(Emit(AcceptRun(l, Digit), "line"), "op")
    BY <1>9 DEF LexAddr, Digit
  <2>2. Quiet(l, AcceptRun(l, Digit))
    BY RunQuiet
  <2>3. /\ AcceptRun(l, Digit) \in Lexers /\ Fit(AcceptRun(l, Digit), "line")
        /\ "line" \in Kinds /\ "op" \in States
    BY <1>1, <2>2 DEF Quiet, Fit, Begun, Silent, Kinds, States
  <2> QED
    BY <2>1, <2>3, EmitGo
<1>10. CASE c \notin {"eof", ",", ";", "+", "-", "/", "?", ".", "#"} \cup Digit
  <2>1. LexAddr(l) = Go(l, "cmd")
    BY <1>10 DEF LexAddr
  <2>2. Begun(l) /\ "cmd" \in States
    BY <1>1, <1>10 DEF States, Op, Mod
  <2> QED
    BY <2>1, <2>2, GoKeeps DEF TurnRight
<1> QED
  BY <1>3, <1>4, <1>5, <1>6, <1>7, <1>8, <1>9, <1>10

\* lexOp: only after something has been sent; an operator or a default may follow it.
LEMMA OpRight ==
  ASSUME NEW l \in Lexers, Begun(l)
  PROVE  TurnRight(LexOp(l))
<1> DEFINE isOp == Peek(l) \in Op
           op == IF isOp THEN <<Peek(l)>> ELSE <<>>
           l1 == IF isOp THEN Emit(Accept(l), "op") ELSE l
           l2 == IgnoreSpaces(l1)
           more == Peek(l2) \in Digit \cup Mod
           l3 == IF more /\ ~isOp THEN Inject(l2, l2.lastop) ELSE l2
           l4 == IF more THEN [l3 EXCEPT !.lastop = Item("op", op)] ELSE l3
           l5 == IF isOp /\ Peek(l4) \in Alpha \cup {"eof"} THEN EndInjected(l4) ELSE l4
<1>1. LexOp(l) = IF Peek(l) = "eof" THEN Go(Emit(l, "eof"), "nil") ELSE Go(l5, "addr")
  BY DEF LexOp
<1>2. TurnRight(Go(Emit(l, "eof"), "nil"))
  <2>1. Fit(l, "eof") /\ "eof" \in Kinds /\ "nil" \in States
    BY DEF Fit, Kinds, States
  <2> QED
    BY <2>1, EmitGo
<1>3. l1 \in Lexers /\ Begun(l1)
  <2>1. CASE isOp
    <3>1. l.rest # <<>>
      BY <2>1 DEF Peek, Op
    <3>2. Quiet(l, Accept(l))
      BY <3>1, AcceptQuiet
    <3>3. Accept(l) \in Lexers /\ Fit(Accept(l), "op") /\ "op" \in Kinds
      BY <3>2, QuietFit DEF Quiet, Fit, Kinds
    <3>4. Sends(Accept(l), Emit(Accept(l), "op"))
      BY <3>3, EmitSends
    <3> QED
      BY <2>1, <3>4 DEF Sends
  <2>2. CASE ~isOp
    BY <2>2
  <2> QED
    BY <2>1, <2>2
<1> HIDE DEF l1
<1>4. l2 \in Lexers /\ Begun(l2)
  BY <1>3, SpacesQuiet, QuietFit DEF Quiet
<1> HIDE DEF l2
<1>5. l3 \in Lexers /\ Begun(l3)
  <2>1. l2.lastop \in Items /\ Fit(l2, l2.lastop.kind)
    BY <1>4 DEF Lexers, Fit
  <2>2. Sends(l2, Inject(l2, l2.lastop))
    BY <1>4, <2>1, InjectSends
  <2> QED
    BY <1>4, <2>2 DEF Sends
<1> HIDE DEF l3
<1>6. op \in Seq(Letters)
  <2>1. CASE isOp
    <3>1. Peek(l) \in Letters
      BY <2>1 DEF Letters
    <3> QED
      BY <2>1, <3>1, OneItem
  <2>2. CASE ~isOp
    BY <2>2
  <2> QED
    BY <2>1, <2>2
<1> HIDE DEF op, more
<1>7. l4 \in Lexers /\ Begun(l4)
  <2>1. Item("op", op) \in Items
    BY <1>6 DEF Item, Items, Kinds
  <2>2. [l3 EXCEPT !.lastop = Item("op", op)] \in Lexers
    BY <1>5, <2>1 DEF Lexers
  <2>3. [l3 EXCEPT !.lastop = Item("op", op)].items = l3.items
    BY <1>5 DEF Lexers
  <2> QED
    BY <1>5, <2>2, <2>3 DEF Begun
<1> HIDE DEF l4
<1>8. l5 \in Lexers /\ Begun(l5)
  <2>1. "max" \in Letters /\ "byte" \in Kinds
    BY DEF Letters, Kinds
  <2>2. <<"max">> \in Seq(Letters)
    BY <2>1, OneItem
  <2>3. Item("byte", MaxBytes) \in Items
    BY <2>1, <2>2 DEF Item, Items, MaxBytes
  <2>4. Fit(l4, Item("byte", MaxBytes).kind)
    BY <1>7 DEF Fit
  <2>5. Sends(l4, EndInjected(l4))
    BY <1>7, <2>3, <2>4, InjectSends DEF EndInjected
  <2> QED
    BY <1>7, <2>5 DEF Sends
<1> HIDE DEF l5
<1>9. TurnRight(Go(l5, "addr"))
  <2>1. "addr" \in States
    BY DEF States
  <2> QED
    BY <1>8, <2>1, GoKeeps DEF TurnRight
<1> QED
  BY <1>1, <1>2, <1>9

\* lexCmd: only after something has been sent.
LEMMA CmdRight ==
  ASSUME NEW l \in Lexers, Begun(l)
  PROVE  TurnRight(LexCmd(l))
<1> DEFINE sent == Emit(Accept(l), "cmd")
           all == [sent EXCEPT !.buf = sent.rest, !.rest = <<>>]
<1>1. Fit(l, "eof") /\ {"eof", "cmd", "arg"} \subseteq Kinds /\ {"nil", "cmd"} \subseteq States
  BY DEF Fit, Kinds, States
<1>2. ASSUME Peek(l) # "eof"
      PROVE  sent \in Lexers /\ Begun(sent)
  <2>1. l.rest # <<>>
    BY <1>2 DEF Peek
  <2>2. Quiet(l, Accept(l))
    BY <2>1, AcceptQuiet
  <2>3. Accept(l) \in Lexers /\ Fit(Accept(l), "cmd")
    BY <2>2, QuietFit DEF Quiet, Fit
  <2>4. Sends(Accept(l), sent)
    BY <1>1, <2>3, EmitSends
  <2> QED
    BY <2>4 DEF Sends
<1> HIDE DEF sent
<1>3. CASE Peek(l) = "eof"
  <2>1. LexCmd(l) = Go(Emit(l, "eof"), "nil")
    BY <1>3 DEF LexCmd, Alpha
  <2> QED
    BY <1>1, <2>1, EmitGo
<1>4. CASE Peek(l) \in {"|", "<", ">"}
  <2>1. LexCmd(l) = Emit(all, "arg")
    BY <1>4 DEF LexCmd, Alpha, sent
  <2>2. sent \in Lexers /\ Begun(sent)
    BY <1>2, <1>4
  <2>3. all \in Lexers /\ all.items = sent.items
    <3>1. <<>> \in Seq(Letters)
      OBVIOUS
    <3> QED
      BY <2>2, <3>1 DEF Lexers
  <2>4. Fit(all, "arg")
    BY <2>2, <2>3 DEF Fit, Begun
  <2> HIDE DEF all
  <2> QED
    BY <1>1, <2>1, <2>3, <2>4, EmitGo
<1>5. CASE Peek(l) \in Alpha
  <2>1. LexCmd(l) = IF Peek(sent) = "eof" THEN Go(Emit(sent, "eof"), "nil") ELSE Delimited(sent, "arg", "cmd")
    BY <1>5 DEF LexCmd, Alpha, sent
  <2>2. sent \in Lexers /\ Begun(sent)
    BY <1>2, <1>5 DEF Alpha
  <2>3. TurnRight(Go(Emit(sent, "eof"), "nil"))
    <3>1. Fit(sent, "eof")
      BY <2>2 DEF Fit
    <3> QED
      BY <1>1, <2>2, <3>1, EmitGo
  <2>4. Peek(sent) # "eof" => TurnRight(Delimited(sent, "arg", "cmd"))
    <3>1. SUFFICES ASSUME Peek(sent) # "eof" PROVE TurnRight(Delimited(sent, "arg", "cmd"))
      OBVIOUS
    <3>2. sent.rest # <<>> /\ "arg" # "eof" /\ "arg" \in Kinds /\ "cmd" \in States
      BY <1>1, <3>1 DEF Peek
    <3> QED
      BY <2>2, <3>1, <3>2, DelimitedKeeps DEF TurnRight
  <2> QED
    BY <2>1, <2>3, <2>4
<1>6. CASE Peek(l) \notin {"eof", "|", "<", ">"} \cup Alpha
  <2>1. LexCmd(l) = Fail(l)
    BY <1>6 DEF LexCmd
  <2> QED
    BY <2>1, FailKeeps DEF TurnRight
<1> QED
  BY <1>3, <1>4, <1>5, <1>6

\* One turn of the lexer, spaces ignored.
LEMMA LexRight ==
  ASSUME NEW l0 \in Lexers, LexerKept(l0), l0.state # "nil"
  PROVE  TurnRight(LexState(IgnoreSpaces(l0)))
<1> DEFINE l == IgnoreSpaces(l0)
<1>1. Quiet(l0, l) /\ (Peek(l0) # " " => l = l0)
  BY SpacesQuiet
<1>2. l \in Lexers /\ l.state = l0.state /\ (Begun(l) <=> Begun(l0)) /\ (Silent(l) <=> Silent(l0))
  BY <1>1 DEF Quiet, Begun, Silent
<1>3. LexerKept(l)
  <2>1. Peek(l0) \in Digit \cup Op \cup Mod => l = l0
    BY <1>1 DEF Digit, Op, Mod
  <2> QED
    BY <1>1, <1>2, <2>1 DEF LexerKept, Quiet
<1> HIDE DEF l
<1>4. l.state \in {"any", "addr", "op", "cmd"}
  BY <1>2 DEF Lexers, States
<1>5. CASE l.state = "any"
  <2>1. LexState(l) = LexAny(l)
    BY <1>5 DEF LexState
  <2> QED
    BY <1>2, <1>3, <2>1, AnyRight DEF l
<1>6. CASE l.state = "addr"
  <2>1. LexState(l) = LexAddr(l)
    BY <1>6 DEF LexState
  <2> QED
    BY <1>2, <1>3, <1>6, <2>1, AddrRight DEF l
<1>7. CASE l.state = "op"
  <2>1. LexState(l) = LexOp(l)
    BY <1>7 DEF LexState
  <2>2. Begun(l)
    BY <1>3, <1>7 DEF LexerKept
  <2> QED
    BY <1>2, <2>1, <2>2, OpRight DEF l
<1>8. CASE l.state = "cmd"
  <2>1. LexState(l) = LexCmd(l)
    BY <1>8 DEF LexState
  <2>2. Begun(l)
    BY <1>3, <1>8 DEF LexerKept
  <2> QED
    BY <1>2, <2>1, <2>2, CmdRight DEF l
<1> QED
  BY <1>4, <1>5, <1>6, <1>7, <1>8 DEF l

----------------------------------------------------------------------------
(* x. *)

\* The start: a lexer that has sent nothing.
LEMMA XInit ==
  ASSUME Init
  PROVE  XKept
<1>1. PICK i \in DOMAIN Cases : given \in Cases[i]
  BY DEF Init
<1>2. given.program \in Seq(STRING)
  BY <1>1, XAssumption
<1>3. given.program \in Seq(Letters)
  BY <1>2, SeqOfMore DEF Letters
<1>4. lexer = Start(given.program) /\ pc = "lex"
  BY DEF Init
<1>5. Item("op", <<"+">>) \in Items
  <2>1. "+" \in Letters /\ "op" \in Kinds
    BY DEF Letters, Kinds
  <2>2. <<"+">> \in Seq(Letters)
    BY <2>1, OneItem
  <2> QED
    BY <2>1, <2>2 DEF Item, Items
<1>6. <<>> \in Seq(Letters) /\ <<>> \in Seq(Items) /\ "any" \in States
  BY DEF States
<1>7. Start(given.program) \in Lexers
  BY <1>3, <1>5, <1>6 DEF Start, Lexers
<1>8. Start(given.program).items = <<>> /\ Start(given.program).first /\ Start(given.program).state = "any"
  BY DEF Start
<1> QED
  BY <1>4, <1>7, <1>8 DEF XKept, LexerKept, Silent

\* Each step keeps it.
LEMMA XNext ==
  ASSUME XKept, [Next]_vars
  PROVE  XKept'
<1>1. CASE Lex
  <2>1. LexerKept(lexer) /\ lexer \in Lexers /\ lexer.state # "nil"
    BY <1>1 DEF XKept, Lex, LexerKept
  <2>2. lexer' = LexState(IgnoreSpaces(lexer)) /\ pc' = IF lexer'.state = "nil" THEN "parse" ELSE "lex"
    BY <1>1 DEF Lex
  <2>3. TurnRight(lexer')
    BY <2>1, <2>2, LexRight
  <2> QED
    BY <2>2, <2>3 DEF XKept, TurnRight, LexerKept, Peek, Begun, Silent
<1>2. CASE CmdParse
  BY <1>2 DEF CmdParse, XKept, LexerKept, Peek, Begun, Silent
<1>3. CASE Panic
  BY <1>3 DEF Panic, XKept, LexerKept, Peek, Begun, Silent
<1>4. CASE Read
  BY <1>4 DEF Read, XKept, LexerKept, Peek, Begun, Silent
<1>5. CASE Return
  BY <1>5 DEF Return, XKept, LexerKept, Peek, Begun, Silent
<1>6. CASE UNCHANGED vars
  BY <1>6 DEF vars, XKept, LexerKept, Peek, Begun, Silent
<1> QED
  BY <1>1, <1>2, <1>3, <1>4, <1>5, <1>6 DEF Next

\* Once the lexer has stopped, the parser has an item to begin with that is not the end.
LEMMA XFinds ==
  ASSUME XKept
  PROVE  XInv
<1>1. pc \in {"lex", "parse", "no cmd", "read", "over", "panic"}
  BY DEF XKept
<1>2. ASSUME pc = "parse" PROVE Parse(lexer.items).stop
  <2>1. lexer \in Lexers /\ Begun(lexer)
    BY <1>2 DEF XKept, LexerKept
  <2>2. lexer.items \in Seq(Items) /\ lexer.items # <<>>
    BY <2>1 DEF Lexers, Begun
  <2>3. 1 <= Len(lexer.items)
    BY <2>2, EmptySeq, LenProperties
  <2>4. Tok(lexer.items, 1).kind # "eof"
    BY <2>1, <2>3 DEF Tok, Begun
  <2> QED
    BY <2>4 DEF Parse
<1> QED
  BY <1>1, <1>2 DEF XInv

\* The inductive invariant of x (lex.go:75-337): at any turn the lexer has sent an item
\* first that is not the end, or it is at its start or where an address begins.
THEOREM XInvariance == Spec => []XKept
<1>1. Init => XKept
  BY XInit
<1>2. XKept /\ [Next]_vars => XKept'
  BY XNext
<1> QED
  BY <1>1, <1>2, PTL DEF Spec

\* For every program, whatever is wrong with it, the parser signals that it is done: main
\* does not wait for ever (parse.go:416-425 and 469).
THEOREM MainNeverWaits == Spec => []XInv
<1>1. Spec => []XKept
  BY XInvariance
<1>2. XKept => XInv
  BY XFinds
<1> QED
  BY <1>1, <1>2, PTL
=============================================================================
