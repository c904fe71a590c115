-------------------------------- MODULE MCX ---------------------------------
(* X for TLC: every text of up to three characters as a program, and programs  *)
(* written from an address, up to two loops or conditions and a change, on    *)
(* every buffer of up to three characters and some longer ones.                *)
EXTENDS X

Upto(S, n) == UNION {[1..k -> S] : k \in 0..n}

Chars == {",", "1", "#", "/", "?", "+", ".", " ", "a", "d", "x", "m", "|"}
AnyText == {[program |-> p, in |-> <<>>, addr |-> NoAddress, cmd |-> <<>>] : p \in Upto(Chars, 3)}

\* m has no address, x no command to call, and | no word or one that runs or does not.
Faulty == {[program |-> p, in |-> <<<<"a", "b">>>>, addr |-> NoAddress, cmd |-> <<>>] :
              p \in {<<",", "m", "/", "1", "/">>, <<",", "x", "/", "a", "/">>, <<",", "|", "a">>, <<",", "|", "b">>, <<",", "|">>,
                    <<",", "|", " ">>}}

Byte(n) == Number("byte", n, 0)
Line(n) == Number("line", n, 0)
Whole == Compound(Byte(0), Byte(1000000))
\* How an address is written.
Addresses == {
    <<<<>>, Dot>>, <<<<",">>, Whole>>, <<<<"1">>, Line(1)>>, <<<<" ", "2">>, Line(2)>>,
    <<<<"#", "1">>, Byte(1)>>, <<<<"#", "1", ",", "#", "2">>, Compound(Byte(1), Byte(2))>>,
    <<<<"1", ",">>, Compound(Line(1), Byte(1000000))>>, <<<<"/", "a", "/">>, Regexp(<<"a">>, 0)>>,
    <<<<"1", ",", "+", "1">>, Compound(Line(1), Number("line", 1, 1))>>,
    <<<<"1", ",", "/", "b", "/">>, Compound(Line(1), Regexp(<<"b">>, 0))>>}

Loops == {Command("x", <<"a">>, TRUE), Command("x", <<"a", "b">>, TRUE), Command("y", <<"a">>, TRUE),
          Command("g", <<"b">>, TRUE), Command("v", <<"b">>, TRUE)}
Changes == {Command("a", <<"c", "c">>, TRUE), Command("i", <<"c">>, TRUE), Command("c", <<"c", "c">>, TRUE),
            Command("d", <<>>, TRUE), Command("r", <<"f">>, TRUE), Command("r", <<"b">>, TRUE)}

Written(c) == IF c.s = "d" THEN <<"d">> ELSE <<c.s, "/">> \o c.args \o <<"/">>

Longer == {<<"a", "b", "a", "b", "\n", "b", "a", "\n", "a">>, <<"\n", "a", "b", "\n", "b", "\n", "b">>}
Some == Longer \cup {<<>>, <<"a">>, <<"b", "\n", "a">>, <<"a", "\n", "b", "\n">>}
OneOf(S) == {<<s>> : s \in S}
Two == <<<<"b", "\n", "a", "b", "a">>, <<"a", "b", "\n", "a", "\n", "b">>>>

WrittenCases(as, n, ins) ==
    {[program |-> a[1] \o FlattenSeq([i \in 1..Len(ls) |-> Written(ls[i])]) \o Written(c),
      in |-> bs, addr |-> a[2], cmd |-> Append(ls, c)] :
        a \in as, ls \in Upto(Loops, n), c \in Changes, bs \in ins}

MCCases == <<
    AnyText, Faulty,
    WrittenCases({<<<<",">>, Whole>>}, 2, OneOf(Upto({"a", "b", "\n"}, 3)) \cup OneOf(Longer)),
    WrittenCases(Addresses, 1, OneOf(Some) \cup {Two})>>
MCReadable == <<"f">> :> <<"c", "c">>
MCOutput == <<"a">> :> <<"z">>
=============================================================================
