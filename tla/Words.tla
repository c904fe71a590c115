-------------------------------- MODULE Words --------------------------------
(* digra's split: words between spaces, and quoted Go literals anywhere in     *)
(* them. A rune is "s" a space, "q" a quotation mark, "b" a backslash, "0" a   *)
(* digit, or a letter: of "n" and "z" the first makes an escape, of "N", a     *)
(* newline, and "U", a NUL.                                                    *)
EXTENDS Integers, FiniteSets, SequencesExt

CONSTANTS Lists,  \* lists of words that are quoted and joined by spaces
          Lines   \* other lines

VARIABLES list, line,
          at,             \* runes of the line gone through
          start,          \* where the literal in hand starts
          inWord, current, words,
          phase           \* "split", "quoted", "done" or "invalid"
vars == <<list, line, at, start, inWord, current, words, phase>>

-----------------------------------------------------------------------------
(* strconv.Quote and Unquote.                                                  *)
Escaped(r) == CASE r = "N" -> <<"b", "n">> [] r = "q" -> <<"b", "q">> [] r = "b" -> <<"b", "b">>
                [] r = "U" -> <<"b", "0", "0", "0">> [] OTHER -> <<r>>
Quoted(w) == <<"q">> \o FlattenSeq([i \in DOMAIN w |-> Escaped(w[i])]) \o <<"q">>
Escapes == {"N", "q", "b", "U"}
\* Runes of the text of a literal from the i-th on that make one rune.
Taken(t, i) == IF t[i] # "b" THEN 1 ELSE IF i < Len(t) /\ t[i + 1] = "0" THEN 4 ELSE 2
Rune1(t, i) == IF t[i] # "b" THEN <<t[i]>>
               ELSE LET s == {r \in Escapes : Escaped(r) = SubSeq(t, i, i + Taken(t, i) - 1)}
                    IN  IF i + Taken(t, i) - 1 > Len(t) \/ s = {} THEN <<>> ELSE <<CHOOSE r \in s : TRUE>>
Invalid == <<"-">>
Unquote(t) ==
    LET value[i \in 1..(Len(t) + 4)] ==
            IF i > Len(t) THEN <<>>
            ELSE IF Rune1(t, i) = <<>> \/ value[i + Taken(t, i)] = Invalid THEN Invalid
            ELSE Rune1(t, i) \o value[i + Taken(t, i)]
    IN  value[1]

\* A word whose first runes may stand before the quotation mark.
Bare(w, k) == \A i \in 1..k : w[i] \in {"n", "z", "0"}
Spelled(w, k) == IF k = Len(w) /\ k > 0 THEN w ELSE SubSeq(w, 1, k) \o Quoted(SubSeq(w, k + 1, Len(w)))
Joined(ws, k) == FlattenSeq([i \in DOMAIN ws |-> <<"s">> \o Spelled(ws[i], k[i])])

Init ==
    /\ \/ list \in Lists
          /\ \E k \in [DOMAIN list -> 0..3] :
                /\ \A i \in DOMAIN list : k[i] <= Len(list[i]) /\ Bare(list[i], k[i])
                /\ line = Joined(list, k)
       \/ list = <<>> /\ line \in Lines
    /\ at = 0 /\ start = 0 /\ inWord = FALSE /\ current = <<>> /\ words = <<>> /\ phase = "split"
-----------------------------------------------------------------------------
rune == line[at + 1]
More == at < Len(line)
given == <<list, line>>

Space ==
    /\ phase = "split" /\ More /\ rune = "s"
    /\ words' = IF inWord THEN Append(words, current) ELSE words
    /\ inWord' = FALSE /\ current' = <<>> /\ at' = at + 1
    /\ UNCHANGED <<given, start, phase>>
Rune ==
    /\ phase = "split" /\ More /\ rune \notin {"s", "q"}
    /\ inWord' = TRUE /\ current' = Append(current, rune) /\ at' = at + 1
    /\ UNCHANGED <<given, start, words, phase>>
EndOfLine ==
    /\ phase = "split" /\ ~More
    /\ words' = IF inWord THEN Append(words, current) ELSE words
    /\ phase' = "done"
    /\ UNCHANGED <<given, at, start, inWord, current>>

\* quotedLength: after an escape of a digit it passes over two runes, whichever they are.
Quote ==
    /\ phase = "split" /\ More /\ rune = "q"
    /\ phase' = "quoted" /\ at' = at + 1 /\ start' = at + 1
    /\ UNCHANGED <<given, inWord, current, words>>
QuotedRune ==
    /\ phase = "quoted" /\ More /\ rune \notin {"q", "b"}
    /\ at' = at + 1
    /\ UNCHANGED <<given, start, inWord, current, words, phase>>
Skip == IF line[at + 2] = "0" THEN 2 ELSE 0
Escape ==
    /\ phase = "quoted" /\ More /\ rune = "b"
    /\ IF at + 1 < Len(line) /\ line[at + 2] \in {"n", "q", "b", "0"}
       THEN at' = (IF at + 2 + Skip < Len(line) THEN at + 2 + Skip ELSE Len(line)) /\ UNCHANGED phase
       ELSE phase' = "invalid" /\ UNCHANGED at
    /\ UNCHANGED <<given, start, inWord, current, words>>
Unterminated ==
    /\ phase = "quoted" /\ ~More
    /\ phase' = "invalid"
    /\ UNCHANGED <<given, at, start, inWord, current, words>>
Literal == SubSeq(line, start + 1, at)
Unquoted ==
    /\ phase = "quoted" /\ More /\ rune = "q"
    /\ at' = at + 1
    /\ IF Unquote(Literal) = Invalid THEN phase' = "invalid" /\ UNCHANGED <<inWord, current>>
       ELSE phase' = "split" /\ inWord' = TRUE /\ current' = current \o Unquote(Literal)
    /\ UNCHANGED <<given, start, words>>

Next == Space \/ Rune \/ EndOfLine \/ Quote \/ QuotedRune \/ Escape \/ Unterminated \/ Unquoted
Spec == Init /\ [][Next]_vars
-----------------------------------------------------------------------------
WordStarts == {i \in DOMAIN line : line[i] # "s" /\ (i > 1 => line[i - 1] = "s")}

\* Words that are quoted, altogether or from some rune on, and joined by spaces split
\* into what they were, also empty ones; a line without quotation marks splits at its
\* spaces (digra.go:389-494).
SplitsBack ==
    /\ list # <<>> => phase # "invalid" /\ (phase = "done" => words = list)
    /\ phase = "done" /\ (\A i \in DOMAIN line : line[i] # "q") => Len(words) = Cardinality(WordStarts)
=============================================================================
