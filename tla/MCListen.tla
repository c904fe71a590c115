------------------------------ MODULE MCListen ------------------------------
(* listen, dial and their mux for TLC, one of them in a run of the model.     *)
(* listen: two calls, one at a time with Accept failing, two at once with a   *)
(* command, and two at once at the terminal.  dial: with a command and at the *)
(* terminal.  The mux: four goroutines, one or three at once.                 *)
EXTENDS Listen, Mux

VARIABLES prog,
          dpc         \* dial's main

TwoCalls == {"c1", "c2"}
Setup(l, c, e, s, w) == [lim |-> l, cmd |-> c, err |-> e, say |-> s, write |-> w]
ListenSetups == {Setup(1, TRUE, TRUE, 1, 2), Setup(2, TRUE, FALSE, 0, 1), Setup(2, FALSE, FALSE, 1, 2)}
DialSetups == {Setup(1, c, FALSE, 2, 2) : c \in BOOLEAN}
AllSetups == ListenSetups \cup DialSetups
AllMuxSetups == [dial : BOOLEAN, lim : {1, 3}, err : {FALSE}] \cup [dial : {FALSE}, lim : {1}, err : {TRUE}]

D == INSTANCE Dial WITH Setups <- DialSetups, fd <- "c1"

ASSUME ListenAssumption /\ D!L!ListenAssumption /\ D!DialAssumption /\ MuxAssumption

all == <<prog, vars, dpc, muxVars>>

\* A program that is not run keeps the initial state of one setup.
ListenUnused == Init /\ setup = Setup(1, TRUE, TRUE, 1, 2) /\ dpc = "exit"
MuxUnused == MuxInit /\ muxing = [dial |-> TRUE, lim |-> 1, err |-> FALSE]

MCInit ==
    \/ prog = "listen" /\ Init /\ setup \in ListenSetups /\ dpc = "exit" /\ MuxUnused
    \/ prog = "dial" /\ D!Init /\ MuxUnused
    \/ prog = "mux" /\ MuxInit /\ ListenUnused

Listening == prog = "listen" /\ UNCHANGED <<prog, dpc, muxVars>>
Dialling == prog = "dial" /\ UNCHANGED <<prog, muxVars>>

MCNext ==
    \/ Listening /\ Next
    \/ Dialling /\ D!Next
    \/ prog = "mux" /\ MuxNext /\ UNCHANGED <<prog, dpc, vars>>

Copying == Listening \/ (Dialling /\ D!InCall)
HandlerGoes(c) == (Listening /\ Handler(c)) \/ (c = "c1" /\ Dialling /\ D!Handler)

\* Every goroutine that can run is run.  A process exits at the latest when its
\* standard input ends, and the user ends the terminal's some time.  Callers owe
\* nothing.
MCSpec ==
    /\ MCInit /\ [][MCNext]_all
    /\ WF_all(Listening /\ (Acquire \/ \E c \in TwoCalls : Accept(c)))
    /\ WF_all((Listening /\ TypeEnd) \/ (Dialling /\ D!TypeEnd))
    /\ \A c \in TwoCalls :
          /\ WF_all(Copying /\ CopyInStep(c)) /\ WF_all(Copying /\ Pump(c)) /\ WF_all(HandlerGoes(c))
          /\ WF_all(Copying /\ ~stdinOpen[c] /\ Exit(c))

\* A call ends after the other side has hung up, and so does dial: also in the middle
\* of the command's output, since closing pw frees whoever waits in the pipe.
EndsAfterHangUp ==
    /\ \A c \in TwoCalls : (prog = "listen" /\ HungUp(c)) ~> (hpc[c] = "over" \/ panic)
    /\ (prog = "dial" /\ D!HungUp) ~> (dpc = "exit")
=============================================================================
