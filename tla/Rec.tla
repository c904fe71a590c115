-------------------------------- MODULE Rec ---------------------------------
(***************************************************************************)
(* rec (rec/rec.go: main): a timer loop captures the screen, one goroutine *)
(* encodes the images and another writes them to standard output.          *)
(*                                                                         *)
(*   main --imgc--> encoder --bytec--> writer --> standard output          *)
(*                                                                         *)
(* Data.  A frame is its number.                                           *)
(***************************************************************************)
EXTENDS Integers, Sequences

CONSTANTS Rates,        \* -f, 0 or frames for each second
          ChanCap,      \* the room of imgc and bytec, 8
          MaxFrames     \* how many frames a run may capture

ASSUME RecAssumption == ChanCap \in Nat \ {0} /\ MaxFrames \in Nat

VARIABLES rate, recmain, frame, imgc, imgClosed,
          enc, img,     \* the encoder and the image it holds
          bytec, byteClosed,
          wrt, wbuf,    \* the writer and the frame it holds
          written       \* to standard output

recVars == <<rate, recmain, frame, imgc, imgClosed, enc, img, bytec, byteClosed, wrt, wbuf, written>>

RecTypeOK ==
    /\ rate \in Rates /\ recmain \in {"tick", "capture", "send", "close", "donec", "exit", "fatal"}
    /\ frame \in 0..MaxFrames /\ Len(imgc) <= ChanCap /\ Len(bytec) <= ChanCap
    /\ enc \in {"receive", "send", "stop"} /\ wrt \in {"receive", "write", "donec", "stop"}
    /\ imgClosed \in BOOLEAN /\ byteClosed \in BOOLEAN

RecInit ==
    /\ rate \in Rates /\ recmain = "tick" /\ frame = 0 /\ imgc = <<>> /\ imgClosed = FALSE
    /\ enc = "receive" /\ img = 0 /\ bytec = <<>> /\ byteClosed = FALSE
    /\ wrt = "receive" /\ wbuf = 0 /\ written = <<>>

RecRunning == recmain \notin {"exit", "fatal"}

\* The timer fires, and is set again if there is a rate; Capture works or is fatal.
Capture ==
    /\ recmain = "tick" /\ frame < MaxFrames
    /\ \/ recmain' = "fatal" /\ UNCHANGED frame
       \/ recmain' = "send" /\ frame' = frame + 1
    /\ UNCHANGED <<rate, imgc, imgClosed, enc, img, bytec, byteClosed, wrt, wbuf, written>>

SendFrame ==
    /\ recmain = "send" /\ Len(imgc) < ChanCap
    /\ imgc' = Append(imgc, frame)
    /\ recmain' = IF rate = 0 THEN "close" ELSE "tick"
    /\ UNCHANGED <<rate, frame, imgClosed, enc, img, bytec, byteClosed, wrt, wbuf, written>>

CloseImgc ==
    /\ recmain = "close"
    /\ imgClosed' = TRUE /\ recmain' = "donec"
    /\ UNCHANGED <<rate, frame, imgc, enc, img, bytec, byteClosed, wrt, wbuf, written>>

Encode ==
    /\ RecRunning /\ enc = "receive" /\ imgc # <<>>
    /\ img' = Head(imgc) /\ imgc' = Tail(imgc) /\ enc' = "send"
    /\ UNCHANGED <<rate, recmain, frame, imgClosed, bytec, byteClosed, wrt, wbuf, written>>

SendBytes ==
    /\ RecRunning /\ enc = "send" /\ Len(bytec) < ChanCap
    /\ bytec' = Append(bytec, img) /\ enc' = "receive"
    /\ UNCHANGED <<rate, recmain, frame, imgc, imgClosed, img, byteClosed, wrt, wbuf, written>>

EncodeEnds ==
    /\ RecRunning /\ enc = "receive" /\ imgc = <<>> /\ imgClosed
    /\ byteClosed' = TRUE /\ enc' = "stop"
    /\ UNCHANGED <<rate, recmain, frame, imgc, imgClosed, img, bytec, wrt, wbuf, written>>

\* The writer takes a frame and then copies it to standard output.
TakeFrame ==
    /\ RecRunning /\ wrt = "receive" /\ bytec # <<>>
    /\ wbuf' = Head(bytec) /\ bytec' = Tail(bytec) /\ wrt' = "write"
    /\ UNCHANGED <<rate, recmain, frame, imgc, imgClosed, enc, img, byteClosed, written>>

WriteFrame ==
    /\ RecRunning /\ wrt = "write"
    /\ written' = Append(written, wbuf) /\ wrt' = "receive"
    /\ UNCHANGED <<rate, recmain, frame, imgc, imgClosed, enc, img, bytec, byteClosed, wbuf>>

WrittenIdle == bytec = <<>>            \* mutant: nothing to write is the end
WrittenAll == bytec = <<>> /\ byteClosed

WriteEnds ==
    /\ RecRunning /\ wrt = "receive" /\ WrittenAll
    /\ wrt' = "donec"
    /\ UNCHANGED <<rate, recmain, frame, imgc, imgClosed, enc, img, bytec, byteClosed, wbuf, written>>

\* The rendezvous on donec.
RecDonec ==
    /\ recmain = "donec" /\ wrt = "donec"
    /\ recmain' = "exit" /\ wrt' = "stop"
    /\ UNCHANGED <<rate, frame, imgc, imgClosed, enc, img, bytec, byteClosed, wbuf, written>>

RecNext ==
    \/ Capture \/ SendFrame \/ CloseImgc \/ Encode \/ SendBytes \/ EncodeEnds
    \/ TakeFrame \/ WriteFrame \/ WriteEnds \/ RecDonec

RecSpec == RecInit /\ [][RecNext]_recVars

----------------------------------------------------------------------------
(* Properties. *)

RecEnded == ~RecRunning \/ frame = MaxFrames

\* The frames are written in the order of their capture.  rec ends by itself only with -f 0
\* and its one frame written.  Never are more frames on their way than the two channels,
\* main, the encoder and the writer hold, which is what a failed capture, the end of the
\* process, can lose (rec.go:86-124); main holds none of them then.
RecRight ==
    /\ RecTypeOK
    /\ written = [k \in 1..Len(written) |-> k]
    /\ recmain = "exit" => rate = 0 /\ written = <<1>>
    /\ Len(written) >= frame - 2 * ChanCap - 3
    /\ recmain = "fatal" => Len(written) >= frame - 2 * ChanCap - 2

=============================================================================
