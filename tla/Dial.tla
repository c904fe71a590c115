-------------------------------- MODULE Dial --------------------------------
(***************************************************************************)
(* dial (dial/dial.go: main, stream, run3, term3): one call, made by dial  *)
(* itself, is joined to a command or to the terminal as listen does it for *)
(* the calls it answers, and dial ends with it.                            *)
(*                                                                         *)
(* Data.  The state is Listen's for a single call, which main is about to  *)
(* make: peer is the listener at the other end.                            *)
(***************************************************************************)
EXTENDS Integers, FiniteSets

CONSTANTS Call, Setups,
          fd           \* the one of Call that is made

VARIABLES setup, mpc, sem, peer, inbox, said, hpc, cpc, pump, pwClosed, proc, stdinOpen,
          wrote, piped, got, typed, stdin, stdinEnd, panic,
          dpc          \* main: about to dial, in the call, or at its end

L == INSTANCE Listen

DialAssumption == fd \in Call /\ \A s \in Setups : s.lim = 1

listen == <<setup, mpc, sem, peer, inbox, said, hpc, cpc, pump, pwClosed, proc, stdinOpen,
            wrote, piped, got, typed, stdin, stdinEnd, panic>>
dialVars == <<listen, dpc>>

Init == L!Idle /\ mpc = "accept" /\ sem = 1 /\ dpc = "dial"

----------------------------------------------------------------------------
(* main and stream, dial.go:70-107 *)

Connect ==
    /\ dpc = "dial" /\ peer[fd] # "away"
    /\ L!Accept(fd) /\ dpc' = "call"

Refused ==
    /\ dpc = "dial"
    /\ dpc' = "exit"
    /\ UNCHANGED listen

\* The call is over when run3 or term3 has returned: cfd.Close, and main returns.
HangUp ==
    /\ dpc = "call" /\ L!Close(fd) /\ dpc' = "exit"

InCall == dpc = "call" /\ UNCHANGED dpc

----------------------------------------------------------------------------
(* run3, dial.go:187-230 *)

Reap == L!Wait(fd)

Run3 ==
    /\ InCall /\ L!cmd
    /\ \/ L!Start(fd) \/ L!CopyIn(fd) \/ L!ClosePw(fd)
       \/ L!CopyOut(fd) \/ L!PumpEnd(fd) \/ L!CopyOutEnd(fd)
       \/ L!Fin(fd) \/ L!CloseIn(fd) \/ Reap

----------------------------------------------------------------------------
(* term3, dial.go:165-185 *)

Term3 ==
    /\ InCall /\ ~L!cmd
    /\ L!StartTerm(fd) \/ L!CopyIn(fd) \/ L!CopyStdin(fd) \/ L!Fin(fd)

\* The goroutine of main, for what a scheduler owes it.
Handler ==
    \/ InCall /\ (\/ L!Start(fd) \/ L!StartTerm(fd) \/ L!CopyOutEnd(fd) \/ L!CopyStdin(fd)
                  \/ L!Fin(fd) \/ L!CloseIn(fd) \/ Reap)
    \/ HangUp

Outside == dpc # "exit" /\ UNCHANGED dpc /\ L!Outside(fd)
Type == dpc # "exit" /\ UNCHANGED dpc /\ L!Type
TypeEnd == dpc # "exit" /\ UNCHANGED dpc /\ L!TypeEnd

Next ==
    \/ Refused \/ Type \/ TypeEnd
    \/ Connect \/ HangUp \/ Run3 \/ Term3 \/ Outside

Spec == Init /\ [][Next]_dialVars

----------------------------------------------------------------------------
(* Properties. *)

\* A call that the listener has ended.
HungUp == dpc = "call" /\ peer[fd] = "gone"
=============================================================================
