------------------------------- MODULE Crawl --------------------------------
(***************************************************************************)
(* The crawl command (crawl/crawl.go): a ring of goroutines joined by      *)
(* buffered channels.                                                      *)
(*                                                                         *)
(*   feeder --get0--> getter --get1--> pipe --link0--> link --link1--> main*)
(*     ^                 \--get2 (errors)--------> main <--link2--/     |  *)
(*     \-----------------------------in---------------------------------/  *)
(*                                                                         *)
(* main counts in n the urls that are on their way and ends at zero.       *)
(*                                                                         *)
(* Data.  A page, an error and the list of links found on a page are all   *)
(* written as the url of the page; Links[u] is what link extracts from it. *)
(* Only urls that have a page are listed.  The store goroutine is disabled *)
(* in the code (line 301) and so are the channels it would serve.          *)
(***************************************************************************)
EXTENDS Integers, Sequences, FiniteSets, SequencesExt

CONSTANTS Url,
          Links,        \* [Url -> Seq(Url)]: the links of each page
          Host,         \* [Url -> hosts]
          Content,      \* [Url -> contents]: equal when two pages are equal
          Malformed,    \* urls that url.Parse rejects
          MayFail,      \* urls whose request or body may fail
          MayNotParse,  \* urls whose page html.Parse may reject
          Matching,     \* urls the -re expression matches
          Command,      \* command lines: the url, whether it is "-", and -l
          Seeds,        \* with the argument "-": the urls on standard input
          Whitelist,    \* hostallowed before the first request
          DynHost,      \* -dyn
          Cap, InCap    \* 128 and 1024 in the code

ASSUME CrawlAssumption ==
    /\ Links \in [Url -> Seq(Url)]
    /\ Malformed \subseteq Url /\ Matching \subseteq Url
    /\ Command \subseteq [first : Url, stdin : BOOLEAN, limit : Int]
    /\ Seeds \in Seq(Url)
    /\ IsFiniteSet(Whitelist)
    /\ DynHost \in Nat
    /\ Cap \in Nat \ {0} /\ InCap \in Nat \ {0}

VARIABLES cmd,             \* the command line
          get0, get1, get2, link0, link1, link2, in,   \* the channels
          get0Closed, get1Closed, link0Closed, link1Closed, done,
          gpc, gurl,       \* getter: control state and the url it holds
          hostallowed, contents,   \* the getter's host and content filters
          ppc, ppage,      \* the pipe goroutine, lines 302-325
          lpc, lpage,      \* link
          flist,           \* what the feeder has yet to send of its list
          seeds,           \* what the stdin goroutine has yet to send
          mpc, n, limit, urlfilter, mlist,   \* main; mlist is about to go to in
          panic,           \* the run-time panic that ended the program, if any
          asked            \* history: the urls the getter took, in order

channels == <<get0, get1, get2, link0, link1, link2, in>>
closed   == <<get0Closed, get1Closed, link0Closed, link1Closed, done>>
getter   == <<gpc, gurl, hostallowed, contents, asked>>
pipe     == <<ppc, ppage>>
linker   == <<lpc, lpage>>
sched    == <<mpc, n, limit, urlfilter, mlist>>
source   == <<seeds, cmd>>
vars     == <<channels, closed, getter, pipe, linker, flist, source, sched, panic>>

Channel == {c \in Seq(Url) : Len(c) <= Cap}
ListChannel == {c \in Seq(Seq(Url)) : Len(c) <= InCap}

ChannelsTyped ==
    /\ get0 \in Channel /\ get1 \in Channel /\ get2 \in Channel
    /\ link0 \in Channel /\ link1 \in Channel /\ link2 \in Channel
    /\ in \in ListChannel

ClosedTyped ==
    /\ get0Closed \in BOOLEAN /\ get1Closed \in BOOLEAN /\ done \in BOOLEAN
    /\ link0Closed \in BOOLEAN /\ link1Closed \in BOOLEAN

WorkersTyped ==
    /\ gpc \in {"idle", "fetch", "err", "send", "dead"} /\ gurl \in Url
    /\ ppc \in {"idle", "send", "dead"} /\ ppage \in Url
    /\ lpc \in {"idle", "err", "send", "closing", "dead"} /\ lpage \in Url
    /\ flist \in Seq(Url) /\ seeds \in Seq(Url) /\ asked \in Seq(Url)

MainTyped ==
    /\ cmd \in Command
    /\ mpc \in {"first", "mark", "loop", "hand", "close0", "closedone", "return", "exit"}
    /\ n \in Int /\ limit \in Int
    /\ urlfilter \in SUBSET Url /\ mlist \in Seq(Url)
    /\ panic \in {"none", "send on closed get0", "close of closed link1"}

TypeOK == ChannelsTyped /\ ClosedTyped /\ WorkersTyped /\ MainTyped

Init ==
    /\ cmd \in Command
    /\ get0 = <<>> /\ get1 = <<>> /\ get2 = <<>> /\ in = <<>>
    /\ link0 = <<>> /\ link1 = <<>> /\ link2 = <<>>
    /\ get0Closed = FALSE /\ get1Closed = FALSE /\ done = FALSE
    /\ link0Closed = FALSE /\ link1Closed = FALSE
    /\ gpc = "idle" /\ gurl = cmd.first /\ hostallowed = Whitelist /\ contents = {}
    /\ ppc = "idle" /\ ppage = cmd.first
    /\ lpc = "idle" /\ lpage = cmd.first
    /\ flist = <<>> /\ asked = <<>>
    /\ seeds = IF cmd.stdin THEN Seeds ELSE <<>>
    /\ mpc = IF cmd.stdin THEN "loop" ELSE "first"
    /\ n = 1 /\ limit = cmd.limit /\ urlfilter = {} /\ mlist = <<>>
    /\ panic = "none"

Running == mpc # "exit" /\ panic = "none"

----------------------------------------------------------------------------
(* getter.get, crawl.go:190-256 *)

Allow(host) == host \in hostallowed \/ Cardinality(hostallowed) < DynHost

GetRecv ==
    /\ Running /\ gpc = "idle" /\ get0 # <<>>
    /\ get0' = Tail(get0)
    /\ LET u == Head(get0)
           take == u \notin Malformed /\ Allow(Host[u])
       IN  /\ gurl' = u /\ asked' = Append(asked, u)
           /\ gpc' = IF take THEN "fetch" ELSE "err"
           /\ hostallowed' = IF take THEN hostallowed \cup {Host[u]} ELSE hostallowed
    /\ UNCHANGED <<get1, get2, link0, link1, link2, in, closed, contents, pipe, linker, flist, source, sched, panic>>

\* The request or the read of the body fails, or the page arrives; a page
\* whose content was seen before is an error too (line 243).
Fetch ==
    /\ Running /\ gpc = "fetch"
    /\ \/ gurl \in MayFail /\ gpc' = "err" /\ UNCHANGED contents
       \/ /\ gpc' = IF Content[gurl] \in contents THEN "err" ELSE "send"
          /\ contents' = contents \cup {Content[gurl]}
    /\ UNCHANGED <<channels, closed, gurl, hostallowed, asked, pipe, linker, flist, source, sched, panic>>

GetErr ==
    /\ Running /\ gpc = "err" /\ Len(get2) < Cap
    /\ get2' = Append(get2, gurl) /\ gpc' = "idle"
    /\ UNCHANGED <<get0, get1, link0, link1, link2, in, closed, gurl, hostallowed, contents, asked, pipe, linker, flist, source, sched, panic>>

GetSend ==
    /\ Running /\ gpc = "send" /\ Len(get1) < Cap
    /\ get1' = Append(get1, gurl) /\ gpc' = "idle"
    /\ UNCHANGED <<get0, get2, link0, link1, link2, in, closed, gurl, hostallowed, contents, asked, pipe, linker, flist, source, sched, panic>>

NoMoreUrls == get0 = <<>> /\ get0Closed

GetStop ==
    /\ Running /\ gpc = "idle" /\ (done \/ NoMoreUrls)
    /\ gpc' = "dead" /\ get1Closed' = TRUE
    /\ UNCHANGED <<channels, get0Closed, link0Closed, link1Closed, done, gurl, hostallowed, contents, asked, pipe, linker, flist, source, sched, panic>>

Getter == GetRecv \/ Fetch \/ GetErr \/ GetSend \/ GetStop

----------------------------------------------------------------------------
(* The pipe goroutine, crawl.go:302-325 *)

PipeRecv ==
    /\ Running /\ ppc = "idle" /\ get1 # <<>>
    /\ get1' = Tail(get1) /\ ppage' = Head(get1) /\ ppc' = "send"
    /\ UNCHANGED <<get0, get2, link0, link1, link2, in, closed, getter, linker, flist, source, sched, panic>>

PipeSend ==
    /\ Running /\ ppc = "send" /\ Len(link0) < Cap
    /\ link0' = Append(link0, ppage) /\ ppc' = "idle"
    /\ UNCHANGED <<get0, get1, get2, link1, link2, in, closed, getter, ppage, linker, flist, source, sched, panic>>

PipeStop ==
    /\ Running /\ ppc = "idle" /\ (done \/ (get1 = <<>> /\ get1Closed))
    /\ ppc' = "dead" /\ link0Closed' = TRUE
    /\ UNCHANGED <<channels, get0Closed, get1Closed, link1Closed, done, getter, ppage, linker, flist, source, sched, panic>>

Pipe == PipeRecv \/ PipeSend \/ PipeStop

----------------------------------------------------------------------------
(* link, crawl.go:106-165 *)

\* html.Parse or url.Parse of the origin may fail.
LinkRecv ==
    /\ Running /\ lpc = "idle" /\ link0 # <<>>
    /\ link0' = Tail(link0) /\ lpage' = Head(link0)
    /\ lpc' \in {"send"} \cup {p \in {"err"} : Head(link0) \in MayNotParse}
    /\ UNCHANGED <<get0, get1, get2, link1, link2, in, closed, getter, pipe, flist, source, sched, panic>>

LinkErr ==
    /\ Running /\ lpc = "err" /\ Len(link2) < Cap
    /\ link2' = Append(link2, lpage) /\ lpc' = "idle"
    /\ UNCHANGED <<get0, get1, get2, link0, link1, in, closed, getter, pipe, lpage, flist, source, sched, panic>>

LinkSend ==
    /\ Running /\ lpc = "send" /\ Len(link1) < Cap
    /\ link1' = Append(link1, lpage) /\ lpc' = "idle"
    /\ UNCHANGED <<get0, get1, get2, link0, link2, in, closed, getter, pipe, lpage, flist, source, sched, panic>>

\* On done the deferred close runs; when link0 is over, line 141 closes link1
\* before the deferred close does.
LinkStop ==
    /\ Running /\ lpc = "idle"
    /\ \/ done /\ lpc' = "dead"
       \/ link0 = <<>> /\ link0Closed /\ lpc' = "closing"
    /\ link1Closed' = TRUE
    /\ UNCHANGED <<channels, get0Closed, get1Closed, link0Closed, done, getter, pipe, lpage, flist, source, sched, panic>>

LinkStopTwice ==
    /\ Running /\ lpc = "closing"
    /\ lpc' = "dead" /\ panic' = "close of closed link1"
    /\ UNCHANGED <<channels, closed, getter, pipe, lpage, flist, source, sched>>

Link == LinkRecv \/ LinkErr \/ LinkSend \/ LinkStop \/ LinkStopTwice

----------------------------------------------------------------------------
(* The feeder, crawl.go:357-366, and the reader of standard input, 336-346 *)

FeedRecv ==
    /\ Running /\ flist = <<>> /\ in # <<>>
    /\ in' = Tail(in) /\ flist' = Head(in)
    /\ UNCHANGED <<get0, get1, get2, link0, link1, link2, closed, getter, pipe, linker, source, sched, panic>>

\* get0 <- u; a send on a closed channel panics, blocked or not.
SendGet0(u) ==
    IF get0Closed
    THEN panic' = "send on closed get0" /\ UNCHANGED get0
    ELSE Len(get0) < Cap /\ get0' = Append(get0, u) /\ UNCHANGED panic

FeedSend ==
    /\ Running /\ flist # <<>> /\ SendGet0(Head(flist))
    /\ flist' = IF get0Closed THEN flist ELSE Tail(flist)
    /\ UNCHANGED <<get1, get2, link0, link1, link2, in, closed, getter, pipe, linker, source, sched>>

\* Lines that url.Parse rejects are skipped.
SeedSend ==
    /\ Running /\ seeds # <<>>
    /\ IF Head(seeds) \in Malformed THEN UNCHANGED <<get0, panic>> ELSE SendGet0(Head(seeds))
    /\ seeds' = Tail(seeds)
    /\ UNCHANGED <<get1, get2, link0, link1, link2, in, closed, getter, pipe, linker, flist, sched, cmd>>

----------------------------------------------------------------------------
(* main, crawl.go:353-354 and 368-409.  Lines 387-390, for a link1 that is    *)
(* closed, have no action: OpenWhileCrawling shows that main never sees it.   *)

\* Lines 348-351: a first url that does not parse ends the program there.
SendFirst ==
    /\ Running /\ mpc = "first" /\ Len(get0) < Cap
    /\ get0' = Append(get0, cmd.first) /\ mpc' = "mark"
    /\ UNCHANGED <<get1, get2, link0, link1, link2, in, closed, getter, pipe, linker, flist, source, n, limit, urlfilter, mlist, panic>>

MarkFirst ==
    /\ Running /\ mpc = "mark"
    /\ urlfilter' = urlfilter \cup {cmd.first} /\ mpc' = "loop"
    /\ UNCHANGED <<channels, closed, getter, pipe, linker, flist, source, n, limit, mlist, panic>>

OneLeft == n <= 1                           \* mutant: off by one
NoneLeft == n = 0

Leave ==
    /\ Running /\ mpc = "loop"
    /\ NoneLeft
    /\ mpc' = "close0"
    /\ UNCHANGED <<channels, closed, getter, pipe, linker, flist, source, n, limit, urlfilter, mlist, panic>>

NoLinkErrs == <<>>                          \* mutant: link2 is not received
LinkErrs == link2

RecvErr ==
    /\ Running /\ mpc = "loop" /\ n # 0
    /\ n' = n - 1
    /\ \/ LinkErrs # <<>> /\ link2' = Tail(link2) /\ UNCHANGED get2
       \/ get2 # <<>> /\ get2' = Tail(get2) /\ UNCHANGED link2
    /\ UNCHANGED <<get0, get1, link0, link1, in, closed, getter, pipe, linker, flist, source, mpc, limit, urlfilter, mlist, panic>>

FreshUnfiltered(list) ==                    \* mutant: seen is not asked
    SelectSeq(list, LAMBDA u : u \in Matching)

\* Lines 393-400: the urls kept are the new ones that match, in the order of
\* the list; every url of the list enters the filter, and what is not kept
\* becomes nil.
Fresh(list) ==
    LET kept == {i \in 1..Len(list) :
                    /\ list[i] \notin urlfilter /\ list[i] \in Matching
                    /\ \A j \in 1..(i - 1) : list[j] # list[i]}
        place(k) == CHOOSE i \in kept : Cardinality({j \in kept : j <= i}) = k
    IN  [k \in 1..Cardinality(kept) |-> list[place(k)]]

GainedAll(list) == Len(list)                \* mutant: nil urls count too
Gained(list) == Len(Fresh(list))

AtLimit == limit' = 0

RecvLinks ==
    /\ Running /\ mpc = "loop" /\ n # 0 /\ link1 # <<>>
    /\ link1' = Tail(link1)
    /\ limit' = limit - 1
    /\ LET list == Links[Head(link1)]
       IN  /\ n' = n - 1 + Gained(list)
           /\ mlist' = Fresh(list)
           /\ urlfilter' = urlfilter \cup ToSet(list)
    /\ mpc' = IF AtLimit THEN "close0" ELSE "hand"
    /\ UNCHANGED <<get0, get1, get2, link0, link2, in, closed, getter, pipe, linker, flist, source, panic>>

\* in <- url, line 404: main receives nothing while it waits for room.
Hand ==
    /\ Running /\ mpc = "hand" /\ Len(in) < InCap
    /\ in' = Append(in, mlist) /\ mlist' = <<>> /\ mpc' = "loop"
    /\ UNCHANGED <<get0, get1, get2, link0, link1, link2, closed, getter, pipe, linker, flist, source, n, limit, urlfilter, panic>>

CloseGet0 ==
    /\ Running /\ mpc = "close0"
    /\ get0Closed' = TRUE /\ mpc' = "closedone"
    /\ UNCHANGED <<channels, get1Closed, link0Closed, link1Closed, done, getter, pipe, linker, flist, source, n, limit, urlfilter, mlist, panic>>

CloseDone ==
    /\ Running /\ mpc = "closedone"
    /\ done' = TRUE /\ mpc' = "return"
    /\ UNCHANGED <<channels, get0Closed, get1Closed, link0Closed, link1Closed, getter, pipe, linker, flist, source, n, limit, urlfilter, mlist, panic>>

Return ==
    /\ Running /\ mpc = "return" /\ mpc' = "exit"
    /\ UNCHANGED <<channels, closed, getter, pipe, linker, flist, source, n, limit, urlfilter, mlist, panic>>

Main == \/ SendFirst \/ MarkFirst \/ Leave \/ RecvErr \/ RecvLinks
        \/ Hand \/ CloseGet0 \/ CloseDone \/ Return

Next == Getter \/ Pipe \/ Link \/ FeedRecv \/ FeedSend \/ SeedSend \/ Main

Spec == Init /\ [][Next]_vars

\* Every goroutine that can run is run.  The requests have a timeout of five
\* seconds (line 195), so a fetch ends.
LiveSpec ==
    /\ Spec
    /\ WF_vars(Getter) /\ WF_vars(Pipe) /\ WF_vars(Link)
    /\ WF_vars(FeedRecv \/ FeedSend) /\ WF_vars(SeedSend) /\ WF_vars(Main)

----------------------------------------------------------------------------
(* Properties. *)

One(b) == IF b THEN 1 ELSE 0

\* The lines of standard input that have been sent on get0.
SeedsRead == Len(Seeds) - Len(seeds)
SeedsSent == Cardinality({k \in 1..SeedsRead : Seeds[k] \notin Malformed})

\* The urls in a sequence of lists, each by its list and its place there.
Entries(lists) == UNION {{i} \X (1..Len(lists[i])) : i \in 1..Len(lists)}
Members(lists) == UNION {ToSet(lists[i]) : i \in 1..Len(lists)}
Unlike(lists) ==
    /\ \A i \in 1..Len(lists) : IsInjective(lists[i])
    /\ \A i, j \in 1..Len(lists) : i # j => ToSet(lists[i]) \cap ToSet(lists[j]) = {}

\* Every place a url can be between the filter and the verdict on its page.
InChannels == Len(get0) + Len(get1) + Len(get2) + Len(link0) + Len(link1) + Len(link2)
InLists == Cardinality(Entries(in)) + Len(flist) + Len(mlist)
InHands == One(gpc \in {"fetch", "err", "send"}) + One(ppc = "send") + One(lpc \in {"err", "send"})
InFlight == InChannels + InLists + InHands

\* n as the code means it:
\* n is the number of urls on their way (lines 326, 380, 383, 392, 395).  With
\* "-" it is wrong by the number of lines sent less one: line 343 sends a url
\* that nothing counts, and only the first is in the initial 1.
Beyond == One(mpc = "first") + (IF cmd.stdin THEN 1 - SeedsSent ELSE 0)
Outstanding ==
    panic = "none" => n = InFlight + Beyond

\* No url is requested twice: the filter of line 394 is enough although the
\* first url is sent (353) before it enters the filter (354).
AskedOnce == ~cmd.stdin => IsInjective(asked)

\* While main is in its loop no channel is closed and nothing has panicked.
\* The sends on a closed get0 (363, 343) and the second close of link1 (129,
\* 141) can happen only between main's close(get0) and its return.
OpenWhileCrawling ==
    /\ mpc \in {"first", "mark", "loop", "hand", "close0"} =>
          /\ ~get0Closed /\ ~get1Closed /\ ~link0Closed /\ ~link1Closed /\ ~done
          /\ panic = "none"
    /\ lpc = "closing" => link1Closed

\* "limit num pages processed" (line 39): with a positive -l main takes that
\* many link lists at most, and after the last it hands no list on; without
\* one it is never through.
LimitKept ==
    IF cmd.limit > 0
    THEN limit >= 0 /\ (limit = 0 => mpc \notin {"first", "mark", "loop", "hand"})
    ELSE limit <= 0

\* What is left of standard input is the end of it.
SeedsLeft ==
    IF cmd.stdin
    THEN /\ Len(seeds) <= Len(Seeds) /\ mpc \notin {"first", "mark"}
         /\ \A k \in 1..Len(seeds) : seeds[k] = Seeds[SeedsRead + k]
    ELSE seeds = <<>>

\* Where the urls are.
At == [get0 |-> ToSet(get0), get1 |-> ToSet(get1), get2 |-> ToSet(get2),
       link0 |-> ToSet(link0), link1 |-> ToSet(link1), link2 |-> ToSet(link2),
       in |-> Members(in), flist |-> ToSet(flist), mlist |-> ToSet(mlist),
       getter |-> IF gpc \in {"fetch", "err", "send"} THEN {gurl} ELSE {},
       pipe |-> IF ppc = "send" THEN {ppage} ELSE {},
       linker |-> IF lpc \in {"err", "send"} THEN {lpage} ELSE {}]

Apart(places) == \A p, q \in DOMAIN places : p # q => places[p] \cap places[q] = {}
Together(places) == UNION {places[p] : p \in DOMAIN places}
OnTheirWay == Together(At)

\* No channel and no list holds a url twice.
Single ==
    /\ \A c \in {get0, get1, get2, link0, link1, link2, flist, mlist} : IsInjective(c)
    /\ Unlike(in)

\* Where a url waits for the getter, and what the filter knows or will know.
Waiting == {"get0", "in", "flist", "mlist"}
Filtered == CASE mpc = "first" -> {} [] mpc = "mark" -> {cmd.first} [] OTHER -> urlfilter

Placed ==
    /\ Apart(At)
    /\ \A p \in Waiting : ToSet(asked) \cap At[p] = {}
    /\ OnTheirWay \cup ToSet(asked) \subseteq Filtered

\* From a url on the command line each url is in one place at a time, and the
\* filter knows all of them as soon as main receives any.
OnePlace ==
    ~cmd.stdin =>
        /\ Single /\ Placed
        /\ IF mpc \in {"first", "mark"} THEN urlfilter = {} ELSE cmd.first \in urlfilter

\* The type invariant, what n counts, the channels open until the end, the
\* limit, and with them what makes them and AskedOnce inductive.
CrawlInv ==
    /\ TypeOK /\ Outstanding /\ OpenWhileCrawling /\ LimitKept
    /\ SeedsLeft /\ OnePlace /\ AskedOnce
    /\ mpc \in {"first", "mark", "loop"} => mlist = <<>>

\* The ring of channels is full from main to main: main waits for room in
\* `in' while everything it does not receive is blocked behind it.
Full ==
    /\ mpc = "hand" /\ Len(in) = InCap /\ flist # <<>> /\ Len(get0) = Cap
    /\ \/ gpc = "err" /\ Len(get2) = Cap
       \/ /\ gpc = "send" /\ Len(get1) = Cap /\ ppc = "send" /\ Len(link0) = Cap
          /\ \/ lpc = "send" /\ Len(link1) = Cap
             \/ lpc = "err" /\ Len(link2) = Cap

\* A crawl from a url ends, unless its pages have enough links to fill the
\* whole ring of channels, which then stays full.
Terminates == ~cmd.stdin => (<>~Running \/ <>[]Full)

----------------------------------------------------------------------------
(* A crawl from a url on the command line works through a Worklist: an item *)
(* is settled when main receives its link list or its error.                *)

Crawling == mpc \in {"first", "mark", "loop", "hand"}

\* With "-" n does not count what is on its way and nothing is promised: the
\* mapping stands still.
Work == INSTANCE Worklist WITH
            Item <- Url, mayStop <- cmd.limit > 0,
            todo <- IF cmd.stdin \/ mpc = "first" THEN {cmd.first} ELSE OnTheirWay,
            known <- {cmd.first} \cup (IF cmd.stdin THEN {} ELSE urlfilter \cap Matching),
            over <- ~cmd.stdin /\ ~Crawling

\* Each matching url is settled once, new urls come only from settled pages,
\* and main leaves its loop only when every one is settled or -l is reached.
WorksThroughList == Work!Spec
=============================================================================
