------------------------------ MODULE ArgFile -------------------------------
(***************************************************************************)
(* The list of open files that wc, tar, zip, edit and other tools range    *)
(* over (vendor/github.com/as/argfile/argfile.go).  A goroutine, emit,     *)
(* opens the named files one after the other and hands each to the tool on *)
(* the unbuffered channel `to'.  A ticket bounds how many files are open;  *)
(* File.Close gives it back and, by the capability in the channel cap,     *)
(* works at most once however many callers it has.                         *)
(*                                                                         *)
(* Data.  names is the argument list with every - replaced by the lines it *)
(* stands for; file i is the i-th that emit tries to open.                 *)
(***************************************************************************)
EXTENDS Integers, Sequences, FiniteSets

CONSTANTS Name, Readable,     \* the names that can be opened
          Lists,              \* the argument lists considered
          Stdin,              \* the name given to standard input
          MaxFD,              \* the tickets, 1024
          Caller              \* the callers of Close for each file

ArgFileAssumption ==
    /\ Readable \subseteq Name /\ Stdin \in Readable
    /\ Lists \subseteq Seq(Name) /\ IsFiniteSet(Lists) /\ Lists # {}
    /\ MaxFD \in Nat \ {0}

VARIABLES names,
          epc, epos,      \* emit, and the file it is at
          tickets,        \* the elements of ticket
          ticketClosed, toClosed,
          wg,             \* emit's WaitGroup
          cap,            \* cap[i]: whether the capability is in File i's channel
          fd,             \* fd[i]: its descriptor
          closing         \* closing[i][c]: caller c's call of File.Close

vars == <<names, epc, epos, tickets, ticketClosed, toClosed, wg, cap, fd, closing>>

Given == IF names = <<>> THEN <<Stdin>> ELSE names
Index == 1..Len(Given)

TypeOK ==
    /\ names \in Lists
    /\ epc \in {"ticket", "open", "send", "close", "closeTo", "stop"} /\ epos \in Nat \ {0}
    /\ tickets \in 0..MaxFD /\ ticketClosed \in BOOLEAN /\ toClosed \in BOOLEAN
    /\ wg \in Nat
    /\ cap \in [Index -> BOOLEAN]
    /\ fd \in [Index -> {"none", "open", "closed"}]
    /\ closing \in [Index -> [Caller -> {"none", "call", "closefn", "done", "release", "over"}]]

Init ==
    /\ names \in Lists
    /\ epc = "ticket" /\ epos = 1
    /\ tickets = 0 /\ ticketClosed = FALSE /\ toClosed = FALSE
    /\ wg = 0
    /\ cap = [i \in Index |-> FALSE]
    /\ fd = [i \in Index |-> "none"]
    /\ closing = [i \in Index |-> [c \in Caller |-> "none"]]

----------------------------------------------------------------------------
(* emit, argfile.go:36-75 *)

Ticket ==
    /\ epc = "ticket" /\ epos <= Len(Given) /\ tickets < MaxFD
    /\ tickets' = tickets + 1 /\ wg' = wg + 1
    /\ epc' = "open"
    /\ UNCHANGED <<names, epos, ticketClosed, toClosed, cap, fd, closing>>

OpenWorks ==
    /\ fd' = [fd EXCEPT ![epos] = "open"] /\ cap' = [cap EXCEPT ![epos] = TRUE]
    /\ epc' = "send"
    /\ UNCHANGED <<names, epos, tickets, ticketClosed, toClosed, wg, closing>>

\* The Close of line 54 is that of the nil *os.File: the ticket is not given back
\* and wg keeps its count.
OpenFails ==
    /\ epc' = "ticket" /\ epos' = epos + 1
    /\ UNCHANGED <<names, tickets, ticketClosed, toClosed, wg, cap, fd, closing>>

Open(there) == epc = "open" /\ IF Given[epos] \in there THEN OpenWorks ELSE OpenFails

\* emit's side of the rendezvous on `to', and the receiver's duty to close.
\* Without arguments `to' is closed next, and nobody waits.
Hand(i) ==
    /\ epc = "send" /\ epos = i
    /\ epos' = epos + 1
    /\ epc' = IF names = <<>> THEN "closeTo" ELSE "ticket"
    /\ closing' = [closing EXCEPT ![i] = [c \in Caller |-> "call"]]
    /\ UNCHANGED <<names, tickets, ticketClosed, toClosed, wg, cap, fd>>

Emitted == epos > Len(Given)
AllClosed == Emitted /\ wg = 0

Wait ==
    /\ epc = "ticket" /\ AllClosed
    /\ epc' = "close"
    /\ UNCHANGED <<names, epos, tickets, ticketClosed, toClosed, wg, cap, fd, closing>>

CloseTicket ==
    /\ epc = "close"
    /\ ticketClosed' = TRUE /\ epc' = "closeTo"
    /\ UNCHANGED <<names, epos, tickets, toClosed, wg, cap, fd, closing>>

CloseTo ==
    /\ epc = "closeTo"
    /\ toClosed' = TRUE /\ epc' = "stop"
    /\ UNCHANGED <<names, epos, tickets, ticketClosed, wg, cap, fd, closing>>

EmitWith(there) == Ticket \/ Open(there) \/ Wait \/ CloseTicket \/ CloseTo
Emit == EmitWith(Readable)

----------------------------------------------------------------------------
(* File.Close, argfile.go:24-34 *)

Step(i, c, s) == closing' = [closing EXCEPT ![i][c] = s]

CapLeft(i) == UNCHANGED cap                   \* mutant: the capability is only looked at
CapTaken(i) == cap' = [cap EXCEPT ![i] = FALSE]

CloseTake(i, c) ==
    /\ closing[i][c] = "call"
    /\ IF cap[i] THEN CapTaken(i) /\ Step(i, c, "closefn")
                 ELSE Step(i, c, "over") /\ UNCHANGED cap
    /\ UNCHANGED <<names, epc, epos, tickets, ticketClosed, toClosed, wg, fd>>

Shut(i) == fd' = [fd EXCEPT ![i] = "closed"]

CloseFn(i, c) ==
    /\ closing[i][c] = "closefn"
    /\ Shut(i)
    /\ Step(i, c, "done")
    /\ UNCHANGED <<names, epc, epos, tickets, ticketClosed, toClosed, wg, cap>>

CloseDone(i, c) ==
    /\ closing[i][c] = "done"
    /\ wg' = wg - 1
    /\ Step(i, c, "release")
    /\ UNCHANGED <<names, epc, epos, tickets, ticketClosed, toClosed, cap, fd>>

BackNever == UNCHANGED tickets                \* mutant: the ticket is kept
Back == tickets' = IF tickets > 0 THEN tickets - 1 ELSE 0

\* <-ticket: a closed channel gives what is left in it and then returns at once.
CloseRelease(i, c) ==
    /\ closing[i][c] = "release" /\ (tickets > 0 \/ ticketClosed)
    /\ Back
    /\ Step(i, c, "over")
    /\ UNCHANGED <<names, epc, epos, ticketClosed, toClosed, wg, cap, fd>>

Close(i, c) == CloseTake(i, c) \/ CloseFn(i, c) \/ CloseDone(i, c) \/ CloseRelease(i, c)

----------------------------------------------------------------------------
(* A tool that receives every file and closes each, from every caller. *)

Next == Emit \/ \E i \in Index : Hand(i) \/ \E c \in Caller : Close(i, c)

Spec == Init /\ [][Next]_vars

LiveSpec ==
    /\ Spec /\ WF_vars(Emit) /\ WF_vars(\E i \in Index : Hand(i))
    /\ WF_vars(\E i \in Index, c \in Caller : Close(i, c))

----------------------------------------------------------------------------
(* Properties. *)

Acquired == {i \in Index : i < epos \/ (i = epos /\ epc \in {"open", "send"})}
Past(i, stages) == fd[i] = "closed" /\ \A c \in Caller : closing[i][c] \notin stages

\* Every ticket and every count of wg belongs to one file that emit has begun with
\* and that is not closed yet, though several callers may close it.  A file that
\* could not be opened keeps both for ever.
Accounted ==
    /\ wg = Cardinality({i \in Acquired : ~Past(i, {"done"})})
    /\ ~ticketClosed => tickets = Cardinality({i \in Acquired : ~Past(i, {"done", "release"})})

\* The tool's loop ends only when every file of the list was handed over and
\* closed again; without arguments it ends with standard input still in use.
EndsWhenClosed ==
    (toClosed /\ names # <<>>) => \A i \in Index : fd[i] = "closed"

\* At most MaxFD files are open at any time.
OpenBounded == Cardinality({i \in Index : fd[i] = "open"}) <= MaxFD

\* The type invariant with the three above (argfile.go:24-34, 47-74).
ArgInv == TypeOK /\ Accounted /\ EndsWhenClosed /\ OpenBounded
=============================================================================
