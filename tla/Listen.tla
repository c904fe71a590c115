------------------------------- MODULE Listen -------------------------------
(***************************************************************************)
(* listen (listen/listen.go: stream, run3, term3): main takes a slot of    *)
(* the semaphore `sem', accepts a call and starts a goroutine, which runs  *)
(* the command for it (run3) or, without one, joins it to the terminal     *)
(* (term3).  dial/dial.go has the same run3 and term3 for its one call.    *)
(*                                                                         *)
(*   caller --copyin--> stdin of cmd, stdout --pump--> pw|pr --> caller    *)
(*                                                                         *)
(* copyin is the goroutine of run3, pump the one that os/exec starts       *)
(* because Stdout is no file, and the handler itself copies pr to the net. *)
(*                                                                         *)
(* Data.  What passes is counted in chunks.  The pipes of the operating    *)
(* system and the network always have room; io.Pipe has none, so pump's    *)
(* write and the handler's read are one step.                              *)
(***************************************************************************)
EXTENDS Integers, FiniteSets

CONSTANTS Call,        \* the calls made in the course of a run
          Setups       \* -a, whether there is a command, whether Accept may fail, and
                       \* how many chunks a caller may send and a command may write

ListenAssumption ==
    /\ IsFiniteSet(Call)
    /\ Setups \subseteq [lim : Nat, cmd : BOOLEAN, err : BOOLEAN, say : Nat, write : Nat]

VARIABLES setup,
          mpc, sem,    \* main, and the elements of sem
          peer,        \* the caller of each call
          inbox, said, \* chunks on their way from it, and all it has sent
          hpc,         \* the handler
          cpc,         \* copyin
          pump, pwClosed, \* pump, and whether pw is closed
          proc, stdinOpen, \* the process and its standard input
          wrote, piped,   \* chunks it has written, and those pump has yet to read
          got,         \* chunks the caller was sent
          typed, stdin,\* chunks typed at the terminal, and those not yet read
          stdinEnd, panic

peers == <<peer, inbox, said>>
process == <<proc, stdinOpen, wrote, piped>>
terminal == <<typed, stdin, stdinEnd>>
pipe == <<pump, pwClosed>>
vars == <<setup, mpc, sem, peers, hpc, cpc, pipe, process, got, terminal, panic>>

lim == setup.lim
cmd == setup.cmd
Said == setup.say
Written == setup.write     \* at the terminal: what the user may type

MainTyped == setup \in Setups /\ mpc \in {"sem", "accept"} /\ sem \in 0..lim /\ panic \in BOOLEAN
PeersTyped ==
    /\ peer \in [Call -> {"away", "open", "half", "gone"}]
    /\ inbox \in [Call -> 0..Said] /\ said \in [Call -> 0..Said]
CallsTyped ==
    /\ hpc \in [Call -> {"none", "start", "copy", "term", "fin", "close in", "wait", "close", "release", "over"}]
    /\ cpc \in [Call -> {"none", "copy", "close pw", "fin", "stop"}]
    /\ pump \in [Call -> {"none", "copy", "stop"}] /\ pwClosed \in [Call -> BOOLEAN]
    /\ proc \in [Call -> {"none", "running", "exited", "reaped"}] /\ stdinOpen \in [Call -> BOOLEAN]
ChunksTyped ==
    /\ wrote \in [Call -> 0..Written] /\ piped \in [Call -> 0..Written] /\ got \in [Call -> 0..Written]
    /\ typed \in 0..Written /\ stdin \in 0..Written /\ stdinEnd \in BOOLEAN

TypeOK == MainTyped /\ PeersTyped /\ CallsTyped /\ ChunksTyped

Idle ==
    /\ setup \in Setups
    /\ peer = [c \in Call |-> "away"] /\ inbox = [c \in Call |-> 0] /\ said = inbox
    /\ hpc = [c \in Call |-> "none"] /\ cpc = hpc /\ pump = hpc /\ proc = hpc
    /\ pwClosed = [c \in Call |-> FALSE] /\ stdinOpen = pwClosed
    /\ wrote = inbox /\ piped = inbox /\ got = inbox
    /\ typed = 0 /\ stdin = 0 /\ stdinEnd = FALSE /\ panic = FALSE

Init == Idle /\ mpc = "sem" /\ sem = 0

Running == ~panic
To(c, s) == hpc' = [hpc EXCEPT ![c] = s]
CopyTo(c, s) == cpc' = [cpc EXCEPT ![c] = s]
Less(f, c) == [f EXCEPT ![c] = @ - 1]
More(f, c) == [f EXCEPT ![c] = @ + 1]

----------------------------------------------------------------------------
(* What is outside listen: callers, processes and the user. *)

\* A caller calls, ends what it sends, or hangs up.
Phone(c) ==
    /\ Running /\ \E s \in {"open", "half", "gone"} :
          /\ <<peer[c], s>> \in {<<"away", "open">>, <<"open", "half">>, <<"open", "gone">>, <<"half", "gone">>}
          /\ peer' = [peer EXCEPT ![c] = s]
    /\ UNCHANGED <<setup, mpc, sem, inbox, said, hpc, cpc, pipe, process, got, terminal, panic>>

Say(c) ==
    /\ Running /\ peer[c] = "open" /\ said[c] < Said
    /\ said' = More(said, c) /\ inbox' = More(inbox, c)
    /\ UNCHANGED <<setup, mpc, sem, peer, hpc, cpc, pipe, process, got, terminal, panic>>

\* The process writes when it likes; when pump has stopped nobody reads it.
Output(c) ==
    /\ Running /\ proc[c] = "running" /\ wrote[c] < Written
    /\ wrote' = More(wrote, c)
    /\ piped' = IF pump[c] = "copy" THEN More(piped, c) ELSE piped
    /\ UNCHANGED <<setup, mpc, sem, peers, hpc, cpc, pipe, proc, stdinOpen, got, terminal, panic>>

Exit(c) ==
    /\ Running /\ proc[c] = "running"
    /\ proc' = [proc EXCEPT ![c] = "exited"]
    /\ UNCHANGED <<setup, mpc, sem, peers, hpc, cpc, pipe, stdinOpen, wrote, piped, got, terminal, panic>>

Type ==
    /\ Running /\ ~cmd /\ ~stdinEnd /\ typed < Written
    /\ typed' = typed + 1 /\ stdin' = stdin + 1
    /\ UNCHANGED <<setup, mpc, sem, peers, hpc, cpc, pipe, process, got, stdinEnd, panic>>

TypeEnd ==
    /\ Running /\ ~cmd /\ ~stdinEnd
    /\ stdinEnd' = TRUE
    /\ UNCHANGED <<setup, mpc, sem, peers, hpc, cpc, pipe, process, got, typed, stdin, panic>>

----------------------------------------------------------------------------
(* main, listen.go:73-94 *)

Full == sem >= lim

Acquire ==
    /\ Running /\ mpc = "sem" /\ ~Full
    /\ sem' = sem + 1 /\ mpc' = "accept"
    /\ UNCHANGED <<setup, peers, hpc, cpc, pipe, process, got, terminal, panic>>

Accept(c) ==
    /\ Running /\ mpc = "accept" /\ peer[c] # "away" /\ hpc[c] = "none"
    /\ To(c, "start") /\ mpc' = "sem"
    /\ UNCHANGED <<setup, sem, peers, cpc, pipe, process, got, terminal, panic>>

\* The goroutine of a call that could not be accepted defers cfd.Close on a nil
\* net.Conn (line 79) before it looks at err.
AcceptErr ==
    /\ Running /\ mpc = "accept" /\ setup.err
    /\ panic' = TRUE
    /\ UNCHANGED <<setup, mpc, sem, peers, hpc, cpc, pipe, process, got, terminal>>

----------------------------------------------------------------------------
(* run3, listen.go:186-229 *)

\* c.Start, which may fail; then the deferred calls are run.
Start(c) ==
    /\ Running /\ hpc[c] = "start" /\ cmd
    /\ \/ /\ To(c, "copy") /\ CopyTo(c, "copy")
          /\ pump' = [pump EXCEPT ![c] = "copy"]
          /\ proc' = [proc EXCEPT ![c] = "running"] /\ stdinOpen' = [stdinOpen EXCEPT ![c] = TRUE]
       \/ To(c, "close") /\ UNCHANGED <<cpc, pump, proc, stdinOpen>>
    /\ UNCHANGED <<setup, mpc, sem, peers, pwClosed, wrote, piped, got, terminal, panic>>

\* copyin: a chunk, which fails when the process has exited, or the end.
CopyIn(c) ==
    /\ Running /\ cpc[c] = "copy"
    /\ IF inbox[c] > 0
       THEN /\ inbox' = Less(inbox, c)
            /\ IF cmd /\ proc[c] # "running" THEN CopyTo(c, "close pw") ELSE UNCHANGED cpc
       ELSE /\ peer[c] \in {"half", "gone"} /\ UNCHANGED inbox
            /\ CopyTo(c, IF cmd THEN "close pw" ELSE "fin")
    /\ UNCHANGED <<setup, mpc, sem, peer, said, hpc, pipe, process, got, terminal, panic>>

PwOpen(c) == UNCHANGED pwClosed          \* mutant: only the deferred pw.Close
PwClosed(c) == pwClosed' = [pwClosed EXCEPT ![c] = TRUE]

ClosePw(c) ==
    /\ Running /\ cpc[c] = "close pw"
    /\ PwClosed(c) /\ CopyTo(c, "fin")
    /\ UNCHANGED <<setup, mpc, sem, peers, hpc, pump, process, got, terminal, panic>>

\* The handler writes a chunk to the caller.  When that one is gone, the chunk is lost
\* and the write may fail, which ends the handler's copy.
Deliver(c) ==
    \/ peer[c] # "gone" /\ got' = More(got, c) /\ UNCHANGED hpc
    \/ peer[c] = "gone" /\ UNCHANGED got /\ (To(c, "fin") \/ UNCHANGED hpc)

\* A chunk goes from the process to the caller.
CopyOut(c) ==
    /\ Running /\ pump[c] = "copy" /\ piped[c] > 0 /\ hpc[c] = "copy" /\ ~pwClosed[c]
    /\ piped' = Less(piped, c)
    /\ Deliver(c)
    /\ UNCHANGED <<setup, mpc, sem, peers, cpc, pipe, proc, stdinOpen, wrote, terminal, panic>>

\* pump stops at the end of the process's output, or because pw is closed.
PumpEnd(c) ==
    /\ Running /\ pump[c] = "copy"
    /\ \/ piped[c] = 0 /\ proc[c] = "exited"
       \/ piped[c] > 0 /\ pwClosed[c]
    /\ pump' = [pump EXCEPT ![c] = "stop"] /\ piped' = [piped EXCEPT ![c] = 0]
    /\ UNCHANGED <<setup, mpc, sem, peers, hpc, cpc, pwClosed, proc, stdinOpen, wrote, got, terminal, panic>>

CopyOutEnd(c) ==
    /\ Running /\ hpc[c] = "copy" /\ pwClosed[c]
    /\ To(c, "fin")
    /\ UNCHANGED <<setup, mpc, sem, peers, cpc, pipe, process, got, terminal, panic>>

\* copyin's send on fin and the handler's receive.
Fin(c) ==
    /\ Running /\ hpc[c] = "fin" /\ cpc[c] = "fin"
    /\ CopyTo(c, "stop") /\ To(c, IF cmd THEN "close in" ELSE "close")
    /\ UNCHANGED <<setup, mpc, sem, peers, pipe, process, got, terminal, panic>>

CloseIn(c) ==
    /\ Running /\ hpc[c] = "close in"
    /\ stdinOpen' = [stdinOpen EXCEPT ![c] = FALSE] /\ To(c, "wait")
    /\ UNCHANGED <<setup, mpc, sem, peers, cpc, pipe, proc, wrote, piped, got, terminal, panic>>

WaitedNot(c) == TRUE                  \* mutant: Release instead of Wait
Waited(c) == proc[c] = "exited" /\ pump[c] = "stop"

Wait(c) ==
    /\ Running /\ hpc[c] = "wait" /\ Waited(c)
    /\ proc' = [proc EXCEPT ![c] = "reaped"] /\ To(c, "close")
    /\ UNCHANGED <<setup, mpc, sem, peers, cpc, pipe, stdinOpen, wrote, piped, got, terminal, panic>>

\* The deferred calls: pw.Close and close(fin), then cfd.Close, then <-sem.
Close(c) ==
    /\ Running /\ hpc[c] = "close"
    /\ pwClosed' = [pwClosed EXCEPT ![c] = cmd] /\ To(c, "release")
    /\ UNCHANGED <<setup, mpc, sem, peers, cpc, pump, process, got, terminal, panic>>

SlotKept == sem                       \* mutant: <-sem only on the way out of run3
SlotFreed == sem - 1

Release(c) ==
    /\ Running /\ hpc[c] = "release"
    /\ sem' = SlotFreed /\ To(c, "over")
    /\ UNCHANGED <<setup, mpc, peers, cpc, pipe, process, got, terminal, panic>>

----------------------------------------------------------------------------
(* term3, listen.go:164-184: copyin copies the caller to standard output. *)

StartTerm(c) ==
    /\ Running /\ hpc[c] = "start" /\ ~cmd
    /\ To(c, "term") /\ CopyTo(c, "copy")
    /\ UNCHANGED <<setup, mpc, sem, peers, pipe, process, got, terminal, panic>>

\* All calls read the one standard input: a chunk goes to one of them.
CopyStdin(c) ==
    /\ Running /\ hpc[c] = "term"
    /\ IF stdin > 0
       THEN stdin' = stdin - 1 /\ Deliver(c)
       ELSE stdinEnd /\ To(c, "fin") /\ UNCHANGED <<stdin, got>>
    /\ UNCHANGED <<setup, mpc, sem, peers, cpc, pipe, process, typed, stdinEnd, panic>>

----------------------------------------------------------------------------

Main == Acquire \/ AcceptErr \/ \E c \in Call : Accept(c)
CopyInStep(c) == CopyIn(c) \/ ClosePw(c)
Pump(c) == CopyOut(c) \/ PumpEnd(c)
Handler(c) ==
    \/ Start(c) \/ StartTerm(c) \/ CopyOutEnd(c) \/ CopyStdin(c) \/ Fin(c)
    \/ CloseIn(c) \/ Wait(c) \/ Close(c) \/ Release(c)
Outside(c) == Phone(c) \/ Say(c) \/ Output(c) \/ Exit(c)

Next ==
    \/ Main \/ Type \/ TypeEnd
    \/ \E c \in Call : CopyInStep(c) \/ Pump(c) \/ Handler(c) \/ Outside(c)

Spec == Init /\ [][Next]_vars

\* Every goroutine that can run is run.  A process exits at the latest when its
\* standard input ends, and the user ends the terminal's some time.  Callers owe
\* nothing.
LiveSpec ==
    /\ Spec
    /\ WF_vars(Acquire \/ \E c \in Call : Accept(c))
    /\ WF_vars(TypeEnd)
    /\ \A c \in Call :
          /\ WF_vars(CopyInStep(c)) /\ WF_vars(Pump(c)) /\ WF_vars(Handler(c))
          /\ WF_vars(~stdinOpen[c] /\ Exit(c))

----------------------------------------------------------------------------
(* Properties. *)

Answered == {c \in Call : hpc[c] \notin {"none", "over"}}

\* A slot of sem is held for each call that is answered and not over, and one by
\* main while it waits for a call.
Slots == sem = Cardinality(Answered) + (IF mpc = "accept" THEN 1 ELSE 0)

\* "If lim is reached no more calls are answered until a call ends" (listen.go:348):
\* there are never more than lim calls, and no more than lim processes alive or
\* not yet waited for.
CallsLimited ==
    /\ Cardinality(Answered) <= lim
    /\ Cardinality({c \in Call : proc[c] \in {"running", "exited"}}) <= lim

\* The copying goroutine, the process and its pump, for each stage of the handler.
Alive(c) == proc[c] \in {"running", "exited"}
Stages ==
    \A c \in Call :
        /\ hpc[c] \in {"none", "start"} => proc[c] = "none" /\ cpc[c] = "none" /\ pump[c] = "none"
        /\ hpc[c] \in {"copy", "close in", "wait"} => cmd
        /\ hpc[c] = "term" \/ ~cmd => ~cmd /\ proc[c] = "none" /\ pump[c] = "none"
        /\ hpc[c] \in {"copy", "term", "fin"} => cpc[c] \in {"copy", "close pw", "fin"}
        /\ hpc[c] \in {"close in", "wait"} => cpc[c] = "stop"
        /\ hpc[c] \in {"copy", "fin", "close in", "wait"} /\ cmd => Alive(c)
        /\ hpc[c] \in {"close", "release", "over"} =>
              ~Alive(c) /\ cpc[c] \in {"none", "stop"} /\ pump[c] \in {"none", "stop"}

\* No chunk is made up or given twice: what is on its way was sent, and what a caller
\* got was written for it or typed.
Chunks ==
    /\ \A c \in Call :
          /\ inbox[c] <= said[c]
          /\ IF cmd THEN got[c] + piped[c] <= wrote[c] ELSE got[c] + stdin <= typed
    /\ stdin <= typed

\* Slots, calls, processes, pipes and chunks agree, and no more calls than -a allows are
\* served at once (listen.go:74-94); in dial too, which serves one (dial.go:165-230).
ListenInv == TypeOK /\ Slots /\ CallsLimited /\ Stages /\ Chunks

\* A call that its caller has ended.
HungUp(c) == peer[c] = "gone" /\ hpc[c] # "none"
=============================================================================
