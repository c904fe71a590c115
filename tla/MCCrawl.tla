------------------------------ MODULE MCCrawl -------------------------------
(* Instances of Crawl for TLC: two sites and four command lines. *)
EXTENDS Crawl

\* A small site, 1 to 7: page 1 links to itself and twice to 2; 3 and 5 link
\* back; 4 does not match the expression; 7 has the content of 2; 3 is on a
\* host of its own.  Page 10 has enough links, all of them leading nowhere,
\* to fill the ring when every channel has room for one.
Site == 1..7
Wide == 10..20
MCUrl == Site \cup Wide \cup {9}
MCLinks == [u \in MCUrl |->
              CASE u = 1 -> <<1, 2, 4, 2, 3, 6>>
                [] u = 2 -> <<5, 7>>
                [] u = 3 -> <<1, 5>>
                [] u = 5 -> <<3, 7>>
                [] u = 6 -> <<7>>
                [] u = 10 -> [i \in 1..10 |-> 10 + i]
                [] OTHER -> <<>>]
MCHost == [u \in MCUrl |-> CASE u = 3 -> "h3" [] u \in {2, 5} -> "h2" [] OTHER -> "h1"]
MCContent == [u \in MCUrl |-> IF u = 7 THEN 2 ELSE u]
MCMatching == MCUrl \ {4}
Malformed9 == {9}
Failing == Site \cup {13, 14}

\* Standard input names 2, a malformed url and 2 again.
StdinSeeds == <<2, 9, 2>>

\* -host is empty by default, which whitelists the empty host (line 287).
OneHost == {"", "h1"}

Line(u, dash, l) == [first |-> u, stdin |-> dash, limit |-> l]
Lines == {Line(1, FALSE, -1), Line(1, FALSE, 2), Line(1, TRUE, -1), Line(10, FALSE, -1)}
=============================================================================
