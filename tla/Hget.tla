-------------------------------- MODULE Hget --------------------------------
(***************************************************************************)
(* hget with the argument "-" (hget/hget.go: main, client.run, store.run): *)
(* main reads urls from standard input and, in one select, either hands a  *)
(* url to a client or receives a page that is through.  Clients hand the   *)
(* pages they have got to storers; failed pages go back to main from       *)
(* either.  All three channels are unbuffered: a send and its receive are  *)
(* one step.                                                               *)
(*                                                                         *)
(* Data.  A page is the number of its line; FileOf[u] is the file that     *)
(* Safepath makes of the url u.  A file is what was last written to it.    *)
(***************************************************************************)
EXTENDS Integers, Sequences, FiniteSets

CONSTANTS Url, File,
          FileOf,        \* [Url -> File]
          Existing,      \* files that exist before hget starts
          Inputs,        \* the lists of urls considered on standard input
          Client, Storer \* four of each in the code

HgetAssumption ==
    /\ FileOf \in [Url -> File] /\ Existing \subseteq File
    /\ Inputs \subseteq Seq(Url)
    /\ IsFiniteSet(Client) /\ IsFiniteSet(Storer)

VARIABLES lines, read,   \* standard input, and how many lines of it were read
          n, hmpc,
          hcpc, cpage,    \* the clients: control state and page
          spc, spage,    \* the storers
          getcClosed, putcClosed,
          disk,          \* disk[f]: the number of the page in f, or a word
          panic,
          sent, through  \* history: the pages handed to clients, and received

main == <<read, n, hmpc, sent, through>>
clients == <<hcpc, cpage>>
storers == <<spc, spage>>
hgetVars == <<lines, main, clients, storers, getcClosed, putcClosed, disk, panic>>

Line == 1..Len(lines)
None == 0                \* in disk: no such file
Old == -1                \* in disk: what was there before
Part == -2               \* in disk: not one whole page: empty, cut short, or two mixed

HgetTypeOK ==
    /\ lines \in Inputs /\ read \in 0..Len(lines)
    /\ n \in Nat /\ hmpc \in {"scan", "select", "drain", "return", "exit"}
    /\ hcpc \in [Client -> {"idle", "do", "out", "err", "dead"}] /\ cpage \in [Client -> 0..Len(lines)]
    /\ spc \in [Storer -> {"idle", "stat", "write", "err"}] /\ spage \in [Storer -> 0..Len(lines)]
    /\ getcClosed \in BOOLEAN /\ putcClosed \in BOOLEAN /\ panic \in BOOLEAN
    /\ disk \in [File -> Line \cup {None, Old, Part}]
    /\ sent \in SUBSET Line /\ through \in Seq(Line)

HgetInit ==
    /\ lines \in Inputs /\ read = 0
    /\ n = 0 /\ hmpc = "scan"
    /\ hcpc = [c \in Client |-> "idle"] /\ cpage = [c \in Client |-> 0]
    /\ spc = [s \in Storer |-> "idle"] /\ spage = [s \in Storer |-> 0]
    /\ getcClosed = FALSE /\ putcClosed = FALSE /\ panic = FALSE
    /\ disk = [f \in File |-> IF f \in Existing THEN Old ELSE None]
    /\ sent = {} /\ through = <<>>

HgetRunning == hmpc # "exit" /\ ~panic

----------------------------------------------------------------------------
(* main, hget.go:112-127 *)

\* sc.Scan: a line, or the end of the input.
Scan ==
    /\ HgetRunning /\ hmpc = "scan"
    /\ IF read < Len(lines) THEN read' = read + 1 /\ hmpc' = "select"
                            ELSE hmpc' = "drain" /\ UNCHANGED read
    /\ UNCHANGED <<lines, n, sent, through, clients, storers, getcClosed, putcClosed, disk, panic>>

\* getc <- the page of the line.
Hand(c) ==
    /\ HgetRunning /\ hmpc = "select" /\ hcpc[c] = "idle"
    /\ hcpc' = [hcpc EXCEPT ![c] = "do"] /\ cpage' = [cpage EXCEPT ![c] = read]
    /\ n' = n + 1 /\ sent' = sent \cup {read} /\ hmpc' = "scan"
    /\ UNCHANGED <<lines, read, through, storers, getcClosed, putcClosed, disk, panic>>

Counted == n - 1

\* <-finc with page i: the select goes on to the next line, whatever became of
\* this one (line 116); the loop of line 124 does not count.
Receive(i) ==
    /\ HgetRunning
    /\ \/ hmpc = "select" /\ hmpc' = "scan" /\ n' = Counted
       \/ hmpc = "drain" /\ n > 0 /\ UNCHANGED <<hmpc, n>>
    /\ through' = Append(through, i)
    /\ UNCHANGED <<lines, read, sent, getcClosed, putcClosed, disk, panic>>

Drained == n = 0

CloseGetc ==
    /\ HgetRunning /\ hmpc = "drain" /\ Drained
    /\ getcClosed' = TRUE /\ hmpc' = "return"
    /\ UNCHANGED <<lines, read, n, sent, through, clients, storers, putcClosed, disk, panic>>

HgetReturn ==
    /\ HgetRunning /\ hmpc = "return" /\ hmpc' = "exit"
    /\ UNCHANGED <<lines, read, n, sent, through, clients, storers, getcClosed, putcClosed, disk, panic>>

----------------------------------------------------------------------------
(* A client, hget.go:149-209 *)

\* The request is malformed, fails, times out, or its page arrives.
Do(c) ==
    /\ HgetRunning /\ hcpc[c] = "do"
    /\ hcpc' \in {[hcpc EXCEPT ![c] = "out"], [hcpc EXCEPT ![c] = "err"]}
    /\ UNCHANGED <<lines, main, cpage, storers, getcClosed, putcClosed, disk, panic>>

AfterError == "idle"

ClientErr(c) ==
    /\ hcpc[c] = "err" /\ Receive(cpage[c])
    /\ hcpc' = [hcpc EXCEPT ![c] = AfterError]
    /\ UNCHANGED <<cpage, storers>>

\* The rendezvous with a storer on putc.
Put(c, s) ==
    /\ HgetRunning /\ hcpc[c] = "out" /\ spc[s] = "idle" /\ ~putcClosed
    /\ hcpc' = [hcpc EXCEPT ![c] = "idle"]
    /\ spc' = [spc EXCEPT ![s] = "stat"] /\ spage' = [spage EXCEPT ![s] = cpage[c]]
    /\ UNCHANGED <<lines, main, cpage, getcClosed, putcClosed, disk, panic>>

\* Every client closes putc when getc is closed (line 197); storers that see it
\* closed return, which is not told from being idle.
Stop(c) ==
    /\ HgetRunning /\ hcpc[c] = "idle" /\ getcClosed
    /\ hcpc' = [hcpc EXCEPT ![c] = "dead"]
    /\ putcClosed' = TRUE /\ panic' = putcClosed
    /\ UNCHANGED <<lines, main, cpage, storers, getcClosed, disk>>

----------------------------------------------------------------------------
(* A storer, hget.go:217-245 *)

Target(s) == FileOf[lines[spage[s]]]

FreeAlways(f) == TRUE           \* mutant: os.Stat is not asked
Free(f) == disk[f] = None

\* Safepath: an existing file is an error.
Stat(s) ==
    /\ HgetRunning /\ spc[s] = "stat"
    /\ spc' = [spc EXCEPT ![s] = IF Free(Target(s)) THEN "write" ELSE "err"]
    /\ UNCHANGED <<lines, main, clients, spage, getcClosed, putcClosed, disk, panic>>

\* ioutil.WriteFile: the open may fail, or it truncates what has appeared since the Stat;
\* then the page is there, or only part of it, or it is mixed with what another storer has
\* written since.
Write(s) ==
    /\ HgetRunning /\ spc[s] = "write"
    /\ spc' = [spc EXCEPT ![s] = "err"]
    /\ \/ UNCHANGED disk
       \/ \E what \in {spage[s], Part} : disk' = [disk EXCEPT ![Target(s)] = what]
    /\ UNCHANGED <<lines, main, clients, spage, getcClosed, putcClosed, panic>>

StorerErr(s) ==
    /\ spc[s] = "err" /\ Receive(spage[s])
    /\ spc' = [spc EXCEPT ![s] = "idle"]
    /\ UNCHANGED <<clients, spage>>

----------------------------------------------------------------------------

Results == (\E c \in Client : ClientErr(c)) \/ (\E s \in Storer : StorerErr(s))

HgetNext ==
    \/ Scan \/ CloseGetc \/ HgetReturn \/ Results
    \/ \E c \in Client : Hand(c) \/ Do(c) \/ Stop(c) \/ \E s \in Storer : Put(c, s)
    \/ \E s \in Storer : Stat(s) \/ Write(s)

HgetSpec == HgetInit /\ [][HgetNext]_hgetVars

\* Every goroutine that can run is run; a request ends, as it has a timeout of five
\* seconds (line 94).  Go's select may pass over a ready case each time, but a
\* goroutine that waits in a send is served in turn.
HgetLiveSpec ==
    /\ HgetSpec
    /\ WF_hgetVars(Scan \/ CloseGetc \/ HgetReturn \/ Results \/ \E c \in Client : Hand(c))
    /\ \A c \in Client : WF_hgetVars(Do(c) \/ Stop(c) \/ \E s \in Storer : Put(c, s)) /\ WF_hgetVars(ClientErr(c))
    /\ \A s \in Storer : WF_hgetVars(Stat(s) \/ Write(s)) /\ WF_hgetVars(StorerErr(s))

----------------------------------------------------------------------------
(* Properties. *)

Through == {through[k] : k \in 1..Len(through)}
Busy == {c \in Client : hcpc[c] \in {"do", "out", "err"}}
Storing == {s \in Storer : spc[s] # "idle"}
InHand == {cpage[c] : c \in Busy} \cup {spage[s] : s \in Storing}

\* n counts the pages that clients and storers have in their hands, until the input
\* is over; from then on it no longer changes and can only be too high.
Outstanding ==
    LET hands == Cardinality(Busy) + Cardinality(Storing)
    IN  IF hmpc \in {"scan", "select"} THEN n = hands ELSE n >= hands

HgetInv == HgetTypeOK /\ Outstanding

\* A page that was handed to a client is in exactly one client's or storer's hands
\* or has come back to main, once: whatever fails, no page is lost or reported
\* twice between the goroutines.
OnePlace ==
    /\ \A j, k \in 1..Len(through) : through[j] = through[k] => j = k
    /\ sent = InHand \cup Through /\ InHand \cap Through = {}
    /\ Cardinality(InHand) = Cardinality(Busy) + Cardinality(Storing)

\* main returns, and the second close of putc (line 197) ends the program, only
\* when every page that was handed out has come back: no request or half-written
\* file is cut short.
EndsAfterAll == (hmpc \in {"return", "exit"} \/ panic) => sent = Through

\* Files that were there before are not touched (line 222), and no file appears but for a
\* page of that name; a whole page is in no file but its own.
FilesKept ==
    \A f \in File :
        /\ f \in Existing => disk[f] = Old
        /\ disk[f] \in Line => disk[f] \in sent /\ FileOf[lines[disk[f]]] = f
        /\ disk[f] = Part => \E i \in sent : FileOf[lines[i]] = f

\* No page is lost, and no file either (lines 106-125, 228-250).
PagesKept == OnePlace /\ FilesKept

\* n counts the pages that are out, no page is lost or counted twice between main,
\* clients and storers, no file that existed is overwritten, and main ends when every
\* page has come back (hget.go:106-250).
HgetRight == HgetInv /\ PagesKept /\ EndsAfterAll

=============================================================================
