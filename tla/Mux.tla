-------------------------------- MODULE Mux ---------------------------------
(***************************************************************************)
(* The mux of listen -m and dial -m (listen/listen.go, dial/dial.go:       *)
(* streammux).  A goroutine, the muxer, collects the connections and       *)
(* answers each with all of them so far.  Connections and answers go       *)
(* through the one unbuffered channel pimper, on which every call's        *)
(* goroutine sends and then receives.                                      *)
(*                                                                         *)
(* Data.  listen's call i has connection i; dial starts one goroutine      *)
(* after the other for connection 1.  What a call does with what it was    *)
(* given, run3 or term3, takes any time.                                   *)
(***************************************************************************)
EXTENDS Integers, FiniteSets, SequencesExt

CONSTANTS Calls,      \* how many goroutines a run may start
          MuxSetups   \* [dial, lim, err]: the program, -a, whether Accept may fail

MuxAssumption ==
    /\ Calls \in Nat
    /\ MuxSetups \subseteq [dial : BOOLEAN, lim : Nat, err : BOOLEAN]

VARIABLES muxing,     \* the setup
          muxpc, slots,
          call,       \* call[i]: the goroutine of call i
          mux,        \* the muxer: it receives or sends an answer
          pimped,     \* the connections the muxer has collected
          lol,        \* lol[i]: what call i received, <<>> before
          unmuxed     \* the calls whose connection another call received

muxVars == <<muxing, muxpc, slots, call, mux, pimped, lol, unmuxed>>

CallId == 1..Calls
Stage == {"none", "nil", "send", "receive", "serve", "release", "over"}
Cfd(i) == IF muxing.dial THEN 1 ELSE i
At(stages) == {i \in CallId : call[i] \in stages}

MuxTypeOK ==
    /\ muxing \in MuxSetups
    /\ muxpc \in {"sem", "accept", "panic"} /\ slots \in 0..muxing.lim
    /\ call \in [CallId -> Stage]
    /\ mux \in {"receive", "send"} /\ pimped \in Seq(CallId)
    /\ lol \in [CallId -> Seq(CallId)] /\ unmuxed \subseteq CallId

MuxInit ==
    /\ muxing \in MuxSetups
    /\ muxpc = "sem" /\ slots = 0 /\ call = [i \in CallId |-> "none"]
    /\ mux = "receive" /\ pimped = <<>>
    /\ lol = [i \in CallId |-> <<>>] /\ unmuxed = {}

MuxRunning == muxpc # "panic"
CallTo(i, s) == call' = [call EXCEPT ![i] = s]

----------------------------------------------------------------------------
(* main *)

MuxAcquire ==
    /\ muxpc = "sem" /\ slots < muxing.lim
    /\ slots' = slots + 1 /\ muxpc' = "accept"
    /\ UNCHANGED <<muxing, call, mux, pimped, lol, unmuxed>>

\* The next goroutine is started, whether Accept gave a call or an error and nil.
Go(i) ==
    /\ muxpc = "accept" /\ call[i] = "none" /\ \A j \in 1..(i - 1) : call[j] # "none"
    /\ (CallTo(i, "send") \/ (muxing.err /\ CallTo(i, "nil"))) /\ muxpc' = "sem"
    /\ UNCHANGED <<muxing, slots, mux, pimped, lol, unmuxed>>

----------------------------------------------------------------------------
(* pimper: whoever sends meets whoever receives. *)

Collect(i) ==
    /\ MuxRunning /\ call[i] = "send" /\ mux = "receive"
    /\ pimped' = Append(pimped, Cfd(i)) /\ mux' = "send" /\ CallTo(i, "receive")
    /\ UNCHANGED <<muxing, muxpc, slots, lol, unmuxed>>

GiveAlone == <<pimped[Len(pimped)]>>          \* mutant: only the last connection
GiveAll == pimped

Answer(i) ==
    /\ MuxRunning /\ mux = "send" /\ call[i] = "receive"
    /\ lol' = [lol EXCEPT ![i] = GiveAll] /\ mux' = "receive" /\ CallTo(i, "serve")
    /\ UNCHANGED <<muxing, muxpc, slots, pimped, unmuxed>>

\* A call's connection goes to another call, which waits for the muxer's answer.
Miss(i, j) ==
    /\ MuxRunning /\ call[i] = "send" /\ call[j] = "receive"
    /\ lol' = [lol EXCEPT ![j] = <<Cfd(i)>>] /\ unmuxed' = unmuxed \cup {i}
    /\ call' = [call EXCEPT ![i] = "receive", ![j] = "serve"]
    /\ UNCHANGED <<muxing, muxpc, slots, mux, pimped>>

----------------------------------------------------------------------------
(* The end of the call: run3 or term3 returns, cfd.Close, <-sem. *)

Serve(i) ==
    /\ MuxRunning /\ call[i] = "serve" /\ CallTo(i, "release")
    /\ UNCHANGED <<muxing, muxpc, slots, mux, pimped, lol, unmuxed>>

\* The Close of a nil net.Conn, already as it is deferred.
NilClose(i) ==
    /\ MuxRunning /\ call[i] = "nil" /\ muxpc' = "panic"
    /\ UNCHANGED <<muxing, slots, call, mux, pimped, lol, unmuxed>>

MuxRelease(i) ==
    /\ MuxRunning /\ call[i] = "release"
    /\ slots' = slots - 1 /\ CallTo(i, "over")
    /\ UNCHANGED <<muxing, muxpc, mux, pimped, lol, unmuxed>>

----------------------------------------------------------------------------

MuxMain == MuxAcquire \/ \E i \in CallId : Go(i)
Pimper == \E i \in CallId : Collect(i) \/ Answer(i) \/ \E j \in CallId : Miss(i, j)
Ends == \E i \in CallId : Serve(i) \/ NilClose(i) \/ MuxRelease(i)

ListenMux == ~muxing.dial /\ (MuxMain \/ Pimper \/ Ends)
DialMux == muxing.dial /\ (MuxMain \/ Pimper \/ Ends)

MuxNext == ListenMux \/ DialMux

MuxSpec == MuxInit /\ [][MuxNext]_muxVars

----------------------------------------------------------------------------
(* Properties. *)

\* While the muxer has an answer to give exactly one call waits for one; otherwise
\* none does.  So nobody is left waiting on pimper, though a call may be given
\* another's answer.
OneWaits == Cardinality(At({"receive"})) = (IF mux = "send" THEN 1 ELSE 0)

\* The calls whose connection was sent, and the calls that are not over.
Sent == At({"receive", "serve", "release", "over"})
InProgress == At({"nil", "send", "receive", "serve", "release"})

\* A connection is collected by the muxer or received by another call, and never
\* both or twice; one that missed the muxer is in no answer.
Placed ==
    /\ unmuxed \subseteq Sent
    /\ Len(pimped) + Cardinality(unmuxed) = Cardinality(Sent)
    /\ ~muxing.dial => /\ ToSet(pimped) = Sent \ unmuxed
                       /\ \A j \in CallId : lol[j] # <<>> =>
                              \/ IsPrefix(lol[j], pimped)
                              \/ \E i \in unmuxed : lol[j] = <<i>>

\* Every call in progress holds a slot, and so does main while it accepts one.
Slotted == Cardinality(InProgress) + (IF muxpc = "accept" THEN 1 ELSE 0) <= slots

\* With one call at a time the calls come one after the other, and the muxer has
\* collected them in this order.
InTurn ==
    muxing.lim = 1 =>
        /\ \A i, j \in CallId : j < i /\ call[i] # "none" => call[j] = "over"
        /\ \A i \in CallId : i \in Sent <=> i <= Len(pimped)
        /\ pimped = [k \in 1..Len(pimped) |-> Cfd(k)]

\* With one call at a time every call is answered by the muxer, and with all the
\* connections there have been.
OneByOne ==
    muxing.lim = 1 =>
        /\ unmuxed = {}
        /\ \A i \in At({"serve", "release", "over"}) :
              lol[i] = [k \in 1..i |-> Cfd(k)]

\* Nobody is left waiting on the one channel, every connection is collected or received
\* by another call, once, and one call at a time gets them all (listen.go:95-136).
MuxRight == MuxTypeOK /\ OneWaits /\ Placed /\ Slotted /\ InTurn /\ OneByOne
=============================================================================
