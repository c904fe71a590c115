------------------------------ MODULE MCTools -------------------------------
(* The tools that run by themselves, for TLC.  Those that work on lines of    *)
(* text: comm, uniq, sort, seq, digra and its splitting of a line into words. *)
(* Those that work on files, pictures and bytes: dx with its index, its       *)
(* numbers and its filter, enc | dec, cp, dd, rec, gif, page, pv.             *)
(* One of them is run, on one of its inputs.  Those about which ToolsProofs   *)
(* proves something are extended, with their own variables; the variables of  *)
(* the others are the slots s1, s2, ... in their order.                       *)
EXTENDS Comm, Uniq, Sort, Seq, Copy, Dd, Rec, Gif, Page, Pv, TLC

VARIABLES tool, s1, s2, s3, s4, s5, s6, s7, s8, s9, s10, s11, s12, s13

Upto(S, n) == UNION {[1..k -> S] : k \in 0..n}

\* comm: two sorted files of up to three lines, and what is said of the columns.
SortedFiles == {q \in Upto(0..2, 3) : Increasing(q)}
PairsOfFiles == SortedFiles \X SortedFiles
ColumnFlags == {<<>>, <<1>>, <<2>>, <<3>>, <<1, 2>>, <<1, 1>>, <<4>>}

\* uniq: up to three lines in one or two files, one of them perhaps not to be opened.
A == <<"a">>
B == <<"b">>
UniqLine == {<<>>, <<A>>, <<A, B>>, <<B, A \o B>>}
ReadableFile(ls) == [readable |-> TRUE, lines |-> ls]
UniqFiles == {<<ReadableFile(q)>> : q \in Upto(UniqLine, 3)}
             \cup {<<ReadableFile(<<l>>), [readable |-> FALSE, lines |-> <<>>], ReadableFile(<<k, <<A>>>>)>> : l, k \in UniqLine}
FieldRanges == {<<"all">>, <<"one", 0>>, <<"one", 1>>, <<"both", 0, 1>>, <<"both", 1, 3>>, <<"from", 1>>}
UniqFlags == {{}, {"d"}, {"l"}, {"c", "d"}, {"R"}}

\* sort: three selections with and without a match of -k; texts in the order of their bytes.
SortTexts == <<"", "10", "9", "B", "b">>
Lowered == [t \in ToSet(SortTexts) |-> IF t = "B" THEN "b" ELSE t]
RankOf == [t \in ToSet(SortTexts) |-> CHOOSE k \in 1..5 : SortTexts[k] = t]
Words1 == [t \in ToSet(SortTexts) |-> IF t = "" THEN 0 ELSE 1]
NotANumber == -1
NumberOf == [t \in ToSet(SortTexts) |-> CASE t = "9" -> 9 [] t = "10" -> 10 [] OTHER -> NotANumber]
Selections == {<<>>} \cup {[t \in 1..3 |-> [id |-> t, text |-> ts[t], key |-> ks[t]]] :
                  ts \in [1..3 -> ToSet(SortTexts)], ks \in {<<"none", "none", "none">>, <<"B", "none", "b">>}}
SortFlagSets == SUBSET {"n", "k", "i", "r"}

\* seq: up to three numbers, near the greatest too.
Refused == -100
NumberLists == Upto({Refused} \cup -4..3, 3)

\* digra: graphs with cycles, with several components, with a line that cannot be
\* split, and queries, some of which come before the graph is loaded.
Invalid == <<"\"">>
Loaded(ls) == [readable |-> TRUE, lines |-> ls]
GraphFiles == {
    Loaded(<<<<"p", "a">>, <<"a", "b", "s">>, <<>>, <<"b", "a">>>>),
    Loaded(<<<<"p", "a", "b">>, <<"a", "s">>, <<"b", "s", "p">>, <<"c">>>>),
    Loaded(<<<<"p", "a", "b">>, <<"a", "b", "s">>, <<"b", "s">>>>),
    Loaded(<<<<"p", "p">>, <<"a", "b">>, <<"s", "a">>, <<"b", "s">>, <<"a", "c">>>>),
    Loaded(<<<<"p", "a">>, Invalid>>), [readable |-> FALSE, lines |-> <<>>]}
Sessions ==
    {<<q>> : q \in {<<"node">>, <<"node", "p">>, <<"deg">>, <<"next", "p", "a">>, <<"prev", "s">>, <<"front", "p">>,
                    <<"back", "s", "a">>, <<"walk", "p", "s">>, <<"walkall", "p", "s">>, <<"strongs">>,
                    <<"strong", "a">>, <<"strong", "c">>, <<"beatit">>, <<>>}}
    \cup {<<<<"node">>, <<"walk", "a", "p">>, <<"strong", "s">>>>, <<<<"next", "p">>, Invalid, <<"node">>>>}
Digra == INSTANCE Digra WITH
    Files <- GraphFiles, Sessions <- Sessions, Bad <- Invalid,
    file <- s1, nline <- s2, loaded <- s3, g <- s4, session <- s5, asked <- s6, on <- s7, stack <- s8,
    seen <- s9, order <- s10, comps <- s11, phase <- s12, out <- s13

\* Words: runes that are plain, a space, a quote, a backslash or have a long escape.
WordRunes == {"n", "s", "q", "b", "U", "N"}
WordLists == {<<w>> : w \in Upto(WordRunes, 2)} \cup {<<<<>>, <<"z", "0", "U">>>>, <<<<"n", "N", "q">>, <<>>, <<"b">>>>}
OtherLines == Upto({"n", "0", "q", "b", "s"}, 4) \cup {<<"q">> \o w \o <<"q">> : w \in Upto({"b", "0", "q", "z"}, 4)}
Words == INSTANCE Words WITH
    Lists <- WordLists, Lines <- OtherLines,
    list <- s1, line <- s2, at <- s3, start <- s4, inWord <- s5, current <- s6, words <- s7, phase <- s8

\* dx: an index of two paths that share a beginning or do not, of one long enough to
\* need all the padding, cut anywhere.
IndexNames == Upto({"a", "b"}, 2) \ {<<>>}
IndexPaths == {<<>>} \cup {<<p>> : p \in Upto({"a"}, 3) \ {<<>>}} \cup {<<p, q>> : p, q \in IndexNames}
              \cup {<<<<"a">>, [k \in 1..9 |-> "b"]>>}
Index == INSTANCE DxIndex WITH
    Paths <- IndexPaths, Versions <- {2, 3, 4}, HdrSize <- 6,
    \* Numbers of up to seven bits, two to a byte.
    Base <- 4, Width <- 128, MaxVLen64 <- 4, Numbers <- {0, 1, 3, 4, 15, 16, 27, 63, 64, 77, 126, 127},
    index <- s1, data <- s2, pos <- s3, start <- s4, field <- s5, ent <- s6

\* The repository is r, seen from r, from two directories of which one name starts the
\* other, and from outside; there may be a second one around it, or a file .git.
Lib == <<"r", "lib">>
Library == <<"r", "library">>
RepoFiles == {<<"r", "x">>, <<"r", "z">>, Append(Lib, "x"), Append(Lib, "z"), Append(Library, "x")}
Tracked == <<<<"x">>, <<"lib", "x">>, <<"lib", "y">>, <<"library", "x">>>>
Worlds == {[wd |-> wd, git |-> g, gitfile |-> gf, files |-> rf, index |-> Tracked, differ |-> df] :
              wd \in {<<"r">>, Lib, Library, <<>>}, g \in {{}, {<<"r">>}, {<<>>, <<"r">>}}, gf \in {{}, {Lib}},
              rf \in {RepoFiles, RepoFiles \ {<<"r", "x">>, Append(Lib, "x")}, {Append(Lib, "z"), Append(Library, "x")}},
              df \in {{}, {<<"x">>, <<"lib", "x">>, <<"library", "x">>}, {<<"library", "x">>, <<"lib", "y">>}}}
\* Diffs of up to two files of up to two chunks.
DiffFiles == {f \in [whole : BOOLEAN, chunks : Upto(BOOLEAN, 2)] : (\E i \in DOMAIN f.chunks : f.chunks[i]) => f.whole}
Dx == INSTANCE Dx WITH
    Worlds <- Worlds, Options <- {{"u"}, {"uu"}, {"d"}, {"dd"}, {"u", "d"}, {"uu", "d"}, {"u", "dd"}, {"u", "uu", "d", "dd"}},
    StartsWith <- {<<x, x>> : x \in {"r", "lib", "library"}} \cup {<<"lib", "library">>},
    world <- s1, opts <- s2, todo <- s3, dir <- s4, phase <- s5, n <- s6, found <- s7,
    Diffs <- Upto(DiffFiles, 2), diff <- s8, at <- s9, chunk <- s10, shown <- s11, hits <- s12, status <- s13

\* enc and dec: blocks of two bytes (aes) or three (des), and options that are refused.
Unset == -1
BadOpt == -2
Algorithm(count, std, mode, bits, key, iv, r) ==
    [n |-> count, std |-> std, mode |-> mode, bits |-> bits, key |-> key, iv |-> iv, r |-> r]
KeyGiven(k) == <<k, Unset, Unset>>
CryptOptions ==
    {Algorithm(3, "aes", mode, 16, KeyGiven(2), iv, r) : mode \in {"cbc", "ecb", "ctr"}, iv \in {<<>>, <<1, 3>>}, r \in BOOLEAN}
    \cup {Algorithm(3, "des", mode, 8, <<Unset, Unset, 1>>, <<>>, r) : mode \in {"cbc", "ofb", "cfb"}, r \in BOOLEAN}
    \cup {Algorithm(2, "aes", "cbc", 16, KeyGiven(2), <<>>, FALSE), Algorithm(3, "aes", "cbc", BadOpt, KeyGiven(2), <<>>, FALSE),
          Algorithm(3, "aes", "cbc", 16, <<2, 2, Unset>>, <<>>, FALSE), Algorithm(3, "aes", "cbc", 16, KeyGiven(BadOpt), <<>>, FALSE),
          Algorithm(3, "aes", "cbc", 24, KeyGiven(2), <<>>, FALSE), Algorithm(3, "des", "cbc", 16, KeyGiven(2), <<>>, FALSE),
          Algorithm(3, "rc4", "cbc", 8, KeyGiven(1), <<>>, FALSE), Algorithm(3, "aes", "cbc", 16, KeyGiven(2), <<1>>, FALSE)}
Crypt == INSTANCE Crypt WITH
    Options <- CryptOptions, Bad <- BadOpt,
    Messages <- {<<1>>, <<0, 1>>, <<2, 2>>, <<1, 0, 1>>, <<3, 2, 1, 1>>, <<1, 1, 3, 0, 2>>},
    Noise <- {<<1, 2>>, <<0, 0>>, <<3, 1, 2>>},
    Foreign <- {<<>>, <<1>>, <<1, 2>>, <<3, 1, 2>>, <<2, 3, 1, 0>>, <<2, 0, 2, 1, 1>>},
    Cipher <- [i \in 0..3 |-> <<2, 0, 3, 1>>[i + 1]],
    KeyLengths <- [aes |-> {2, 3}, des |-> {1}], BlockSizes <- [aes |-> 2, des |-> 3, rc4 |-> 1],
    opts <- s1, msg <- s2, whole <- s3, text <- s4, pipe <- s5, got <- s6, phase <- s7, status <- s8,
    args_r <- s9, prev <- s10, off <- s11

\* cp: two tickets; lines that are passed over, that write one file or each other's
\* source, and a file that is copied onto itself.
Line(s, d) == [kind |-> "file", src |-> s, dst |-> d]
Other(k) == [kind |-> k, src |-> "", dst |-> ""]
LinesOfCp == {
    <<Line("a", "d/a"), Line("b", "d/b"), Line("c", "d/c")>>, <<Line("a", "d/x"), Other("empty"), Line("b", "d/x")>>,
    <<Line("a", "a")>>, <<Line("a", "b"), Line("b", "d/b")>>, <<Other("absolute"), Line("a", "u"), Line("b", "d/b")>>,
    <<Line("a", "d/a"), Line("a", "d/a")>>, <<Line("c", "d/x"), Line("a", "d/x"), Line("b", "d/x")>>}
FilePaths == {"a", "b", "c", "d/a", "d/b", "d/c", "d/x", "u"}
NotToBeMade == {"u"}
FilesBefore == {("a" :> <<"1", "2">>) @@ ("b" :> <<"3", "4", "5">>) @@ ("d/x" :> <<"x", "x", "x", "x">>)}

\* dd: up to two blocks and a half, an output shorter and longer than what is written.
DdOptions == {o \in [bs : {0, 3}, ibs : {0, 2}, obs : {4}, seek : {0, 1}, iseek : 0..1, oseek : 0..2,
                     count : {0, 1, 9}, named : SUBSET {"if", "of"}] : o.bs + o.ibs > 0}
FilesRead == {<<>>, <<"a">>, <<"a", "b">>, <<"a", "b", "c", "d", "e">>}
FilesOver == {<<>>, <<"x", "y">>, <<"x", "y", "z", "x", "y", "z", "z", "z">>}

\* rec: channels with room for one, up to six frames.  gif: up to four pictures.
PictureLists == Upto({"image", "missing", "junk"}, 4)

\* page: a ring of three that four names go round, a channel for two pictures, up to three keys.
NameLists == {<<>>, <<"a">>, <<"a", "b", "c", "d">>, <<"a", "b", "x", "c">>}
KeySteps == {0, 1, -1, 10}

\* pv: up to three reads of one or two bytes, and an output that fails at the last.
ReadSizes == {i \in [reads : Upto(1..2, 3), full : BOOLEAN] : i.full => i.reads # <<>>}

ASSUME Index!VarintAssumption

slots == <<s1, s2, s3, s4, s5, s6, s7, s8, s9, s10, s11, s12, s13>>
extended == <<commVars, uniqVars, sortVars, seqVars, copyVars, ddVars, recVars, gifVars, pageVars, pvVars>>
vars == <<tool, slots, extended>>
From7 == <<s7, s8, s9, s10, s11, s12, s13>>
From9 == <<s9, s10, s11, s12, s13>>

Empty13 == s13 = 0
Empty12 == s12 = 0 /\ Empty13
Empty10 == s10 = 0 /\ s11 = 0 /\ Empty12
Empty9 == s9 = 0 /\ Empty10
Empty7 == s7 = 0 /\ s8 = 0 /\ Empty9
AllEmpty == s1 = 0 /\ s2 = 0 /\ s3 = 0 /\ s4 = 0 /\ s5 = 0 /\ s6 = 0 /\ Empty7

\* A tool that is not run keeps the initial state of one input.
NoComm == sorted = <<<<>>, <<>>>> /\ hide = <<>> /\ CommInit
NoUniq == inputs = <<ReadableFile(<<>>)>> /\ range = <<"all">> /\ modes = {} /\ UniqInit
NoSort == came = <<>> /\ flags = {} /\ SortInit
NoSeq == args = <<>> /\ SeqInit
NoCopy == jobs = <<Line("a", "a")>> /\ CopyInit
NoDd == opts = [bs |-> 3, ibs |-> 0, obs |-> 4, seek |-> 0, iseek |-> 0, oseek |-> 0, count |-> 1, named |-> {}] /\ in = <<>> /\ out = <<>> /\ DdInit
NoRec == rate = 0 /\ RecInit
NoGif == pictures = <<>> /\ byName = TRUE /\ delay = 1 /\ GifInit
NoPage == listing = FALSE /\ todo = <<>> /\ PageInit
NoPv == input = [reads |-> <<>>, full |-> FALSE] /\ PvInit

----------------------------------------------------------------------------

Init ==
    \/ /\ NoComm /\ NoUniq /\ NoSort /\ NoSeq /\ NoCopy /\ NoDd /\ NoRec /\ NoGif /\ NoPage /\ NoPv
       /\ \/ tool = "digra" /\ Digra!Init
          \/ tool = "words" /\ Words!Init /\ Empty9
          \/ tool = "index" /\ Index!Init /\ Empty7
          \/ tool = "dx" /\ Dx!Init
          \/ tool = "crypt" /\ Crypt!Init /\ Empty12
    \/ /\ AllEmpty
       /\ \/ tool = "comm" /\ CommInit /\ NoUniq /\ NoSort /\ NoSeq /\ NoCopy /\ NoDd /\ NoRec /\ NoGif /\ NoPage /\ NoPv
          \/ tool = "uniq" /\ UniqInit /\ NoComm /\ NoSort /\ NoSeq /\ NoCopy /\ NoDd /\ NoRec /\ NoGif /\ NoPage /\ NoPv
          \/ tool = "sort" /\ SortInit /\ NoComm /\ NoUniq /\ NoSeq /\ NoCopy /\ NoDd /\ NoRec /\ NoGif /\ NoPage /\ NoPv
          \/ tool = "seq" /\ SeqInit /\ NoComm /\ NoUniq /\ NoSort /\ NoCopy /\ NoDd /\ NoRec /\ NoGif /\ NoPage /\ NoPv
          \/ tool = "cp" /\ CopyInit /\ NoComm /\ NoUniq /\ NoSort /\ NoSeq /\ NoDd /\ NoRec /\ NoGif /\ NoPage /\ NoPv
          \/ tool = "dd" /\ DdInit /\ NoComm /\ NoUniq /\ NoSort /\ NoSeq /\ NoCopy /\ NoRec /\ NoGif /\ NoPage /\ NoPv
          \/ tool = "rec" /\ RecInit /\ NoComm /\ NoUniq /\ NoSort /\ NoSeq /\ NoCopy /\ NoDd /\ NoGif /\ NoPage /\ NoPv
          \/ tool = "gif" /\ GifInit /\ NoComm /\ NoUniq /\ NoSort /\ NoSeq /\ NoCopy /\ NoDd /\ NoRec /\ NoPage /\ NoPv
          \/ tool = "page" /\ PageInit /\ NoComm /\ NoUniq /\ NoSort /\ NoSeq /\ NoCopy /\ NoDd /\ NoRec /\ NoGif /\ NoPv
          \/ tool = "pv" /\ PvInit /\ NoComm /\ NoUniq /\ NoSort /\ NoSeq /\ NoCopy /\ NoDd /\ NoRec /\ NoGif /\ NoPage

Next ==
    \/ tool = "digra" /\ Digra!Next /\ UNCHANGED <<tool, extended>>
    \/ tool = "words" /\ Words!Next /\ UNCHANGED <<tool, extended, From9>>
    \/ tool = "index" /\ Index!Next /\ UNCHANGED <<tool, extended, From7>>
    \/ tool = "dx" /\ Dx!Next /\ UNCHANGED <<tool, extended>>
    \/ tool = "crypt" /\ Crypt!Next /\ UNCHANGED <<tool, extended, s12, s13>>
    \/ tool = "comm" /\ CommNext /\ UNCHANGED <<tool, slots, uniqVars, sortVars, seqVars, copyVars, ddVars, recVars, gifVars, pageVars, pvVars>>
    \/ tool = "uniq" /\ UniqNext /\ UNCHANGED <<tool, slots, commVars, sortVars, seqVars, copyVars, ddVars, recVars, gifVars, pageVars, pvVars>>
    \/ tool = "sort" /\ SortNext /\ UNCHANGED <<tool, slots, commVars, uniqVars, seqVars, copyVars, ddVars, recVars, gifVars, pageVars, pvVars>>
    \/ tool = "seq" /\ SeqNext /\ UNCHANGED <<tool, slots, commVars, uniqVars, sortVars, copyVars, ddVars, recVars, gifVars, pageVars, pvVars>>
    \/ tool = "cp" /\ CopyNext /\ UNCHANGED <<tool, slots, commVars, uniqVars, sortVars, seqVars, ddVars, recVars, gifVars, pageVars, pvVars>>
    \/ tool = "dd" /\ DdNext /\ UNCHANGED <<tool, slots, commVars, uniqVars, sortVars, seqVars, copyVars, recVars, gifVars, pageVars, pvVars>>
    \/ tool = "rec" /\ RecNext /\ UNCHANGED <<tool, slots, commVars, uniqVars, sortVars, seqVars, copyVars, ddVars, gifVars, pageVars, pvVars>>
    \/ tool = "gif" /\ GifNext /\ UNCHANGED <<tool, slots, commVars, uniqVars, sortVars, seqVars, copyVars, ddVars, recVars, pageVars, pvVars>>
    \/ tool = "page" /\ PageNext /\ UNCHANGED <<tool, slots, commVars, uniqVars, sortVars, seqVars, copyVars, ddVars, recVars, gifVars, pvVars>>
    \/ tool = "pv" /\ PvNext /\ UNCHANGED <<tool, slots, commVars, uniqVars, sortVars, seqVars, copyVars, ddVars, recVars, gifVars, pageVars>>

\* A program does not stop while one of its goroutines can run.
Spec == Init /\ [][Next]_vars /\ WF_vars(Next)

----------------------------------------------------------------------------
(* Properties: what each tool has written when it is done. *)

\* comm, uniq and digra: what is written are the first lines of the merge, each in
\* its column; the lines the flags ask for, each with its count; and answers about one
\* graph, the one the query began with.  A line that was written with quoted words is
\* split into those words.  seq counts as far as it is told.
TextsRight ==
    /\ tool = "comm" => CommPrefix
    /\ tool = "uniq" => UniqRight
    /\ tool = "seq" => SeqRight
    /\ tool = "digra" => Digra!AnswersRight
    /\ tool = "words" => Words!SplitsBack

\* dx: an index of version 2 is read back, a shortened one is not taken for whole, and
\* neither is one of version 4 or a number; the lists of -u, -uu, -d and -dd, and what the filter of a diff
\* shows.  dec gives back what enc was given, however the pipe cuts it.
BytesRight ==
    /\ tool = "index" => Index!IndexRead /\ (s5 = "dir" => Index!VarintBack)
    /\ tool = "dx" => Dx!ListsRight /\ Dx!FilterRight
    /\ tool = "crypt" => Crypt!CryptRight

\* "Comm reads two sorted files and outputs three columns: lines exclusively in file1, lines
\* exclusively in file2, and lines present in both files" (comm.go:156-157): all of them.
CommComplete == tool = "comm" => CommWhole

\* No tool waits for itself for ever: cp with fewer tickets than lines, rec with its full
\* channels and enc | dec with either of them gone come to an end.  (rec with a rate goes
\* on until it is killed, here to the frames a run may have.)
Ended ==
    CASE tool = "cp" -> CopyEnded
      [] tool = "crypt" -> Crypt!Both
      [] tool = "rec" -> RecEnded
      [] tool = "gif" -> GifEnded
      [] tool = "pv" -> ~PvRunning
      [] OTHER -> TRUE
ToolsEnd == <>Ended
=============================================================================
