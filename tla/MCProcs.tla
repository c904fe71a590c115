------------------------------ MODULE MCProcs -------------------------------
(* The tools that run processes or clients next to main, for TLC: rewire,     *)
(* the parser of its command line, and hget; one of them in a run of the      *)
(* model.                                                                     *)
(* rewire: up to three redirections, also of one descriptor twice.  Its       *)
(* parser: command lines of up to four arguments.  hget: two clients and two  *)
(* storers, up to four urls, of which two name the same file and one a file   *)
(* that exists.                                                               *)
EXTENDS Rewire, Hget, TLC

VARIABLE tool

Redirections == {<<>>, <<0>>, <<0, 1>>, <<0, 0>>, <<1, 1, 0>>, <<2, 1>>, <<4, 3>>, <<3, 5>>}

Arguments == {<<>>, <<"-">>, <<"-", "h">>, <<"-", "0">>, <<"-", "1", "0", "w">>, <<"c">>, <<" ", "c">>, <<" ">>}
Lines4 == {<<<<"-", "0">>, <<"c">>, p, q>> : p, q \in Arguments} \cup {<<<<"c">>, p, q, <<"c">>>> : p, q \in Arguments}
ArgumentLists == BoundedSeq(Arguments, 3) \cup Lines4

TwoClients == {"c1", "c2"}
TwoStorers == {"s1", "s2"}
Urls == {"a/x", "b/x", "a/y"}
Files == {"x", "y"}
OldFiles == {"y"}
FileNamed == [u \in Urls |-> IF u = "a/y" THEN "y" ELSE "x"]
UrlLists == BoundedSeq(Urls, 2) \cup {<<"a/x", "b/x", "a/y">>, <<"a/x", "a/x", "b/x", "a/x">>}

ASSUME RewireAssumption /\ RewireArgsAssumption /\ HgetAssumption

all == <<tool, vars, parseVars, hgetVars>>

\* A program that is not run keeps the initial state of one input.
RewireUnused == Init /\ redirs = <<>>
ParserUnused == ArgsInit /\ line = <<>>
HgetUnused == HgetInit /\ lines = <<>>

MCInit ==
    \/ tool = "rewire" /\ Init /\ ParserUnused /\ HgetUnused
    \/ tool = "parser" /\ ArgsInit /\ RewireUnused /\ HgetUnused
    \/ tool = "hget" /\ HgetInit /\ RewireUnused /\ ParserUnused

RewireStep(A) == tool = "rewire" /\ A /\ UNCHANGED <<tool, parseVars, hgetVars>>
HgetStep(A) == tool = "hget" /\ A /\ UNCHANGED <<tool, vars, parseVars>>

MCNext ==
    \/ RewireStep(Next)
    \/ tool = "parser" /\ ArgsNext /\ UNCHANGED <<tool, vars, hgetVars>>
    \/ HgetStep(HgetNext)

MainGoes == HgetStep(Scan \/ CloseGetc \/ HgetReturn \/ Results \/ \E c \in Client : Hand(c))
ClientGoes(c) == Do(c) \/ Stop(c) \/ \E s \in Storer : Put(c, s)
StorerGoes(s) == Stat(s) \/ Write(s)

\* The fairness of Rewire's LiveSpec and of HgetLiveSpec: every goroutine that can run is
\* run, commands end (the final one may run on), and requests end by their timeout.
MCSpec ==
    /\ MCInit /\ [][MCNext]_all
    /\ WF_all(RewireStep(Main) \/ MainGoes)
    /\ WF_all(RewireStep(Group) \/ HgetStep(ClientGoes("c1")))
    /\ WF_all(RewireStep(Final) \/ HgetStep(ClientGoes("c2")))
    /\ WF_all(RewireStep(\E i \in Cmd : Exit(i) \/ Reap(i) \/ SendDone(i)) \/ HgetStep(StorerGoes("s1")))
    /\ WF_all(HgetStep(StorerGoes("s2")))
    /\ \A c \in Client : WF_all(HgetStep(ClientErr(c)))
    /\ \A s \in Storer : WF_all(HgetStep(StorerErr(s)))

----------------------------------------------------------------------------
(* Properties. *)

\* rewire ends when the commands do, and the pages of hget all come back: no goroutine
\* waits for ever for another.
ComeBack ==
    /\ <>(~(tool = "rewire" /\ Running))
    /\ <>[](~(tool = "hget" /\ sent # Through))
=============================================================================
