----------------------------- MODULE ListenProofs -----------------------------
(***************************************************************************)
(* Proofs about Listen for any calls and any setups: slots, calls,         *)
(* processes and pipes agree, no more calls are served than -a allows, and *)
(* a call that is over has left no process and no goroutine.               *)
(*   And about Mux for any number of calls and any -a: nobody is left      *)
(* waiting on the one channel, every connection is collected or received   *)
(* by another call once, and one call at a time gets all connections.      *)
(***************************************************************************)
EXTENDS Listen, Mux, TLAPS, FiniteSetTheorems, SequenceTheorems

\* What a setup gives.
LEMMA SetupTyped ==
  ASSUME ListenAssumption, MainTyped
  PROVE  lim \in Nat /\ cmd \in BOOLEAN /\ Said \in Nat /\ Written \in Nat
  BY DEF ListenAssumption, MainTyped, lim, cmd, Said, Written

\* What becomes of a chunk that is written to the caller.
LEMMA Delivered ==
  ASSUME NEW c \in Call, Deliver(c)
  PROVE  /\ got' = got \/ got' = More(got, c)
         /\ hpc' = hpc \/ To(c, "fin")
  BY DEF Deliver

\* Callers keep their types.
LEMMA PeersStep ==
  ASSUME ListenAssumption, MainTyped, PeersTyped, Chunks, [Next]_vars
  PROVE  PeersTyped'
<1>0. lim \in Nat /\ cmd \in BOOLEAN /\ Said \in Nat /\ Written \in Nat
  BY SetupTyped
<1>1. CASE Acquire
  BY <1>1
     DEF Acquire, Full, peers, process, terminal, pipe, PeersTyped, Said
<1>2. ASSUME NEW c \in Call, Accept(c) PROVE PeersTyped'
  BY <1>2
     DEF Accept, To, peers, process, terminal, pipe, PeersTyped, Said
<1>3. CASE AcceptErr
  BY <1>3
     DEF AcceptErr, peers, process, terminal, pipe, PeersTyped, Said
<1>4. ASSUME NEW c \in Call, Start(c) PROVE PeersTyped'
  BY <1>4
     DEF Start, To, CopyTo, peers, process, terminal, pipe, PeersTyped, Said
<1>5. ASSUME NEW c \in Call, StartTerm(c) PROVE PeersTyped'
  BY <1>5
     DEF StartTerm, To, CopyTo, peers, process, terminal, pipe, PeersTyped, Said
<1>6. ASSUME NEW c \in Call, CopyIn(c) PROVE PeersTyped'
  <2>1. UNCHANGED <<setup, peer, said>> /\ ((inbox[c] > 0 /\ inbox' = [inbox EXCEPT ![c] = inbox[c] - 1]) \/ UNCHANGED inbox)
    BY <1>6 DEF CopyIn, Less
  <2>2. inbox' \in [Call -> 0..Said]
    BY <1>0, <2>1 DEF PeersTyped
  <2> QED
    BY <2>1, <2>2 DEF PeersTyped, Said
<1>7. ASSUME NEW c \in Call, ClosePw(c) PROVE PeersTyped'
  BY <1>7
     DEF ClosePw, CopyTo, PwClosed, peers, process, terminal, pipe, PeersTyped, Said
<1>8. ASSUME NEW c \in Call, CopyOut(c) PROVE PeersTyped'
  BY <1>8
     DEF CopyOut, Less, Deliver, More, To, peers, process, terminal, pipe, PeersTyped, Said
<1>9. ASSUME NEW c \in Call, PumpEnd(c) PROVE PeersTyped'
  BY <1>9
     DEF PumpEnd, peers, process, terminal, pipe, PeersTyped, Said
<1>10. ASSUME NEW c \in Call, CopyOutEnd(c) PROVE PeersTyped'
  BY <1>10
     DEF CopyOutEnd, To, peers, process, terminal, pipe, PeersTyped, Said
<1>11. ASSUME NEW c \in Call, CopyStdin(c) PROVE PeersTyped'
  BY <1>11
     DEF CopyStdin, Deliver, More, To, peers, process, terminal, pipe, PeersTyped, Said
<1>12. ASSUME NEW c \in Call, Fin(c) PROVE PeersTyped'
  BY <1>12
     DEF Fin, To, CopyTo, peers, process, terminal, pipe, PeersTyped, Said
<1>13. ASSUME NEW c \in Call, CloseIn(c) PROVE PeersTyped'
  BY <1>13
     DEF CloseIn, To, peers, process, terminal, pipe, PeersTyped, Said
<1>14. ASSUME NEW c \in Call, Wait(c) PROVE PeersTyped'
  BY <1>14
     DEF Wait, To, Waited, peers, process, terminal, pipe, PeersTyped, Said
<1>15. ASSUME NEW c \in Call, Close(c) PROVE PeersTyped'
  BY <1>15
     DEF Close, To, peers, process, terminal, pipe, PeersTyped, Said
<1>16. ASSUME NEW c \in Call, Release(c) PROVE PeersTyped'
  BY <1>16
     DEF Release, To, SlotFreed, peers, process, terminal, pipe, PeersTyped, Said
<1>17. ASSUME NEW c \in Call, Phone(c) PROVE PeersTyped'
  BY <1>17
     DEF Phone, peers, process, terminal, pipe, PeersTyped, Said
<1>18. ASSUME NEW c \in Call, Say(c) PROVE PeersTyped'
  <2>1. /\ UNCHANGED <<setup, peer>> /\ said[c] < Said
        /\ said' = [said EXCEPT ![c] = said[c] + 1] /\ inbox' = [inbox EXCEPT ![c] = inbox[c] + 1]
    BY <1>18 DEF Say, More
  <2>2. inbox[c] <= said[c]
    BY DEF Chunks
  <2>3. said' \in [Call -> 0..Said] /\ inbox' \in [Call -> 0..Said]
    BY <1>0, <2>1, <2>2 DEF PeersTyped
  <2> QED
    BY <2>1, <2>3 DEF PeersTyped, Said
<1>19. ASSUME NEW c \in Call, Output(c) PROVE PeersTyped'
  BY <1>19
     DEF Output, More, peers, process, terminal, pipe, PeersTyped, Said
<1>20. ASSUME NEW c \in Call, Exit(c) PROVE PeersTyped'
  BY <1>20
     DEF Exit, peers, process, terminal, pipe, PeersTyped, Said
<1>21. CASE Type
  BY <1>21
     DEF Type, peers, process, terminal, pipe, PeersTyped, Said
<1>22. CASE TypeEnd
  BY <1>22
     DEF TypeEnd, peers, process, terminal, pipe, PeersTyped, Said
<1>23. CASE UNCHANGED vars
  BY <1>23
     DEF vars, peers, process, terminal, pipe, PeersTyped, Said
<1> QED
  BY <1>1, <1>2, <1>3, <1>4, <1>5, <1>6, <1>7, <1>8, <1>9, <1>10, <1>11, <1>12,
     <1>13, <1>14, <1>15, <1>16, <1>17, <1>18, <1>19, <1>20, <1>21, <1>22, <1>23
     DEF Next, Main, CopyInStep, Pump, Handler, Outside

\* The goroutines of a call keep their types.
LEMMA CallsStep ==
  ASSUME ListenAssumption, MainTyped, CallsTyped, [Next]_vars
  PROVE  CallsTyped'
<1>0. lim \in Nat /\ cmd \in BOOLEAN /\ Said \in Nat /\ Written \in Nat
  BY SetupTyped
<1>1. CASE Acquire
  BY <1>1
     DEF Acquire, Full, peers, process, terminal, pipe, CallsTyped
<1>2. ASSUME NEW c \in Call, Accept(c) PROVE CallsTyped'
  BY <1>2
     DEF Accept, To, peers, process, terminal, pipe, CallsTyped
<1>3. CASE AcceptErr
  BY <1>3
     DEF AcceptErr, peers, process, terminal, pipe, CallsTyped
<1>4. ASSUME NEW c \in Call, Start(c) PROVE CallsTyped'
  BY <1>4
     DEF Start, To, CopyTo, peers, process, terminal, pipe, CallsTyped
<1>5. ASSUME NEW c \in Call, StartTerm(c) PROVE CallsTyped'
  BY <1>5
     DEF StartTerm, To, CopyTo, peers, process, terminal, pipe, CallsTyped
<1>6. ASSUME NEW c \in Call, CopyIn(c) PROVE CallsTyped'
  BY <1>6
     DEF CopyIn, CopyTo, Less, peers, process, terminal, pipe, CallsTyped
<1>7. ASSUME NEW c \in Call, ClosePw(c) PROVE CallsTyped'
  BY <1>7
     DEF ClosePw, CopyTo, PwClosed, peers, process, terminal, pipe, CallsTyped
<1>8. ASSUME NEW c \in Call, CopyOut(c) PROVE CallsTyped'
  BY <1>8
     DEF CopyOut, Less, Deliver, More, To, peers, process, terminal, pipe, CallsTyped
<1>9. ASSUME NEW c \in Call, PumpEnd(c) PROVE CallsTyped'
  BY <1>9
     DEF PumpEnd, peers, process, terminal, pipe, CallsTyped
<1>10. ASSUME NEW c \in Call, CopyOutEnd(c) PROVE CallsTyped'
  BY <1>10
     DEF CopyOutEnd, To, peers, process, terminal, pipe, CallsTyped
<1>11. ASSUME NEW c \in Call, CopyStdin(c) PROVE CallsTyped'
  BY <1>11
     DEF CopyStdin, Deliver, More, To, peers, process, terminal, pipe, CallsTyped
<1>12. ASSUME NEW c \in Call, Fin(c) PROVE CallsTyped'
  BY <1>12
     DEF Fin, To, CopyTo, peers, process, terminal, pipe, CallsTyped
<1>13. ASSUME NEW c \in Call, CloseIn(c) PROVE CallsTyped'
  BY <1>13
     DEF CloseIn, To, peers, process, terminal, pipe, CallsTyped
<1>14. ASSUME NEW c \in Call, Wait(c) PROVE CallsTyped'
  BY <1>14
     DEF Wait, To, Waited, peers, process, terminal, pipe, CallsTyped
<1>15. ASSUME NEW c \in Call, Close(c) PROVE CallsTyped'
  BY <1>0, <1>15 DEF Close, To, peers, process, terminal, CallsTyped
<1>16. ASSUME NEW c \in Call, Release(c) PROVE CallsTyped'
  BY <1>16
     DEF Release, To, SlotFreed, peers, process, terminal, pipe, CallsTyped
<1>17. ASSUME NEW c \in Call, Phone(c) PROVE CallsTyped'
  BY <1>17
     DEF Phone, peers, process, terminal, pipe, CallsTyped
<1>18. ASSUME NEW c \in Call, Say(c) PROVE CallsTyped'
  BY <1>18
     DEF Say, More, peers, process, terminal, pipe, CallsTyped
<1>19. ASSUME NEW c \in Call, Output(c) PROVE CallsTyped'
  BY <1>19
     DEF Output, More, peers, process, terminal, pipe, CallsTyped
<1>20. ASSUME NEW c \in Call, Exit(c) PROVE CallsTyped'
  BY <1>20
     DEF Exit, peers, process, terminal, pipe, CallsTyped
<1>21. CASE Type
  BY <1>21
     DEF Type, peers, process, terminal, pipe, CallsTyped
<1>22. CASE TypeEnd
  BY <1>22
     DEF TypeEnd, peers, process, terminal, pipe, CallsTyped
<1>23. CASE UNCHANGED vars
  BY <1>23
     DEF vars, peers, process, terminal, pipe, CallsTyped
<1> QED
  BY <1>1, <1>2, <1>3, <1>4, <1>5, <1>6, <1>7, <1>8, <1>9, <1>10, <1>11, <1>12,
     <1>13, <1>14, <1>15, <1>16, <1>17, <1>18, <1>19, <1>20, <1>21, <1>22, <1>23
     DEF Next, Main, CopyInStep, Pump, Handler, Outside

\* Counts of chunks keep their types.
LEMMA CountsStep ==
  ASSUME ListenAssumption, MainTyped, CallsTyped, ChunksTyped, Stages, Chunks, [Next]_vars
  PROVE  ChunksTyped'
<1>0. lim \in Nat /\ cmd \in BOOLEAN /\ Said \in Nat /\ Written \in Nat
  BY SetupTyped
<1>1. CASE Acquire
  BY <1>1
     DEF Acquire, Full, peers, process, terminal, pipe, ChunksTyped, Written
<1>2. ASSUME NEW c \in Call, Accept(c) PROVE ChunksTyped'
  BY <1>2
     DEF Accept, To, peers, process, terminal, pipe, ChunksTyped, Written
<1>3. CASE AcceptErr
  BY <1>3
     DEF AcceptErr, peers, process, terminal, pipe, ChunksTyped, Written
<1>4. ASSUME NEW c \in Call, Start(c) PROVE ChunksTyped'
  BY <1>4
     DEF Start, To, CopyTo, peers, process, terminal, pipe, ChunksTyped, Written
<1>5. ASSUME NEW c \in Call, StartTerm(c) PROVE ChunksTyped'
  BY <1>5
     DEF StartTerm, To, CopyTo, peers, process, terminal, pipe, ChunksTyped, Written
<1>6. ASSUME NEW c \in Call, CopyIn(c) PROVE ChunksTyped'
  BY <1>6
     DEF CopyIn, CopyTo, Less, peers, process, terminal, pipe, ChunksTyped, Written
<1>7. ASSUME NEW c \in Call, ClosePw(c) PROVE ChunksTyped'
  BY <1>7
     DEF ClosePw, CopyTo, PwClosed, peers, process, terminal, pipe, ChunksTyped, Written
<1>8. ASSUME NEW c \in Call, CopyOut(c) PROVE ChunksTyped'
  <2>1. /\ UNCHANGED <<setup, wrote, terminal>> /\ piped[c] > 0 /\ piped' = [piped EXCEPT ![c] = piped[c] - 1]
        /\ hpc[c] = "copy"
    BY <1>8 DEF CopyOut, Less
  <2>2. got' = got \/ got' = [got EXCEPT ![c] = got[c] + 1]
    BY <1>8, Delivered DEF CopyOut, More
  <2>3. got[c] + piped[c] <= wrote[c]
    BY <2>1 DEF Chunks, Stages
  <2>4. piped' \in [Call -> 0..Written]
    BY <1>0, <2>1 DEF ChunksTyped
  <2>5. got' \in [Call -> 0..Written]
    BY <1>0, <2>1, <2>2, <2>3 DEF ChunksTyped
  <2> QED
    BY <2>1, <2>4, <2>5 DEF ChunksTyped, Written, terminal
<1>9. ASSUME NEW c \in Call, PumpEnd(c) PROVE ChunksTyped'
  <2>1. UNCHANGED <<setup, wrote, got, terminal>> /\ piped' = [piped EXCEPT ![c] = 0]
    BY <1>9 DEF PumpEnd
  <2>2. piped' \in [Call -> 0..Written]
    BY <1>0, <2>1 DEF ChunksTyped
  <2> QED
    BY <2>1, <2>2 DEF ChunksTyped, Written, terminal
<1>10. ASSUME NEW c \in Call, CopyOutEnd(c) PROVE ChunksTyped'
  BY <1>10
     DEF CopyOutEnd, To, peers, process, terminal, pipe, ChunksTyped, Written
<1>11. ASSUME NEW c \in Call, CopyStdin(c) PROVE ChunksTyped'
  <2>1. /\ UNCHANGED <<setup, wrote, piped, typed, stdinEnd>> /\ hpc[c] = "term"
        /\ (stdin > 0 /\ stdin' = stdin - 1 /\ Deliver(c)) \/ UNCHANGED <<stdin, got>>
    BY <1>11 DEF CopyStdin, process
  <2>2. got[c] + stdin <= typed
    BY <2>1 DEF Chunks, Stages
  <2>3. ASSUME stdin > 0, stdin' = stdin - 1, Deliver(c) PROVE stdin' \in 0..Written /\ got' \in [Call -> 0..Written]
    <3>1. got' = got \/ got' = [got EXCEPT ![c] = got[c] + 1]
      BY <2>3, Delivered DEF More
    <3>2. got' \in [Call -> 0..Written]
      BY <1>0, <2>2, <2>3, <3>1 DEF ChunksTyped
    <3> QED
      BY <1>0, <2>3, <3>2 DEF ChunksTyped
  <2>4. stdin' \in 0..Written /\ got' \in [Call -> 0..Written]
    BY <2>1, <2>3 DEF ChunksTyped
  <2> QED
    BY <2>1, <2>4 DEF ChunksTyped, Written
<1>12. ASSUME NEW c \in Call, Fin(c) PROVE ChunksTyped'
  BY <1>12
     DEF Fin, To, CopyTo, peers, process, terminal, pipe, ChunksTyped, Written
<1>13. ASSUME NEW c \in Call, CloseIn(c) PROVE ChunksTyped'
  BY <1>13
     DEF CloseIn, To, peers, process, terminal, pipe, ChunksTyped, Written
<1>14. ASSUME NEW c \in Call, Wait(c) PROVE ChunksTyped'
  BY <1>14
     DEF Wait, To, Waited, peers, process, terminal, pipe, ChunksTyped, Written
<1>15. ASSUME NEW c \in Call, Close(c) PROVE ChunksTyped'
  BY <1>15
     DEF Close, To, peers, process, terminal, pipe, ChunksTyped, Written
<1>16. ASSUME NEW c \in Call, Release(c) PROVE ChunksTyped'
  BY <1>16
     DEF Release, To, SlotFreed, peers, process, terminal, pipe, ChunksTyped, Written
<1>17. ASSUME NEW c \in Call, Phone(c) PROVE ChunksTyped'
  BY <1>17
     DEF Phone, peers, process, terminal, pipe, ChunksTyped, Written
<1>18. ASSUME NEW c \in Call, Say(c) PROVE ChunksTyped'
  BY <1>18
     DEF Say, More, peers, process, terminal, pipe, ChunksTyped, Written
<1>19. ASSUME NEW c \in Call, Output(c) PROVE ChunksTyped'
  <2>1. /\ UNCHANGED <<setup, got, terminal>> /\ wrote[c] < Written /\ wrote' = [wrote EXCEPT ![c] = wrote[c] + 1]
        /\ piped' = piped \/ piped' = [piped EXCEPT ![c] = piped[c] + 1]
        /\ proc[c] = "running"
    BY <1>19 DEF Output, More
  <2>2. got[c] + piped[c] <= wrote[c]
    BY <2>1 DEF Chunks, Stages
  <2>3. wrote' \in [Call -> 0..Written]
    BY <1>0, <2>1 DEF ChunksTyped
  <2>4. piped' \in [Call -> 0..Written]
    BY <1>0, <2>1, <2>2 DEF ChunksTyped
  <2> QED
    BY <2>1, <2>3, <2>4 DEF ChunksTyped, Written, terminal
<1>20. ASSUME NEW c \in Call, Exit(c) PROVE ChunksTyped'
  BY <1>20
     DEF Exit, peers, process, terminal, pipe, ChunksTyped, Written
<1>21. CASE Type
  <2>1. /\ UNCHANGED <<setup, wrote, piped, got, stdinEnd>> /\ typed < Written
        /\ typed' = typed + 1 /\ stdin' = stdin + 1 /\ stdin <= typed
    BY <1>21 DEF Type, process, Chunks
  <2>2. typed' \in 0..Written /\ stdin' \in 0..Written
    BY <1>0, <2>1 DEF ChunksTyped
  <2> QED
    BY <2>1, <2>2 DEF ChunksTyped, Written
<1>22. CASE TypeEnd
  BY <1>22
     DEF TypeEnd, peers, process, terminal, pipe, ChunksTyped, Written
<1>23. CASE UNCHANGED vars
  BY <1>23
     DEF vars, peers, process, terminal, pipe, ChunksTyped, Written
<1> QED
  BY <1>1, <1>2, <1>3, <1>4, <1>5, <1>6, <1>7, <1>8, <1>9, <1>10, <1>11, <1>12,
     <1>13, <1>14, <1>15, <1>16, <1>17, <1>18, <1>19, <1>20, <1>21, <1>22, <1>23
     DEF Next, Main, CopyInStep, Pump, Handler, Outside

\* Every step keeps Stages.
LEMMA StagesStep ==
  ASSUME CallsTyped, Stages, [Next]_vars
  PROVE  Stages'
<1>1. CASE Acquire
  BY <1>1
     DEF Acquire, Full, peers, process, terminal, pipe, CallsTyped, Stages, Alive, cmd
<1>2. ASSUME NEW c \in Call, Accept(c) PROVE Stages'
  BY <1>2, ZenonT(60)
     DEF Accept, To, peers, process, terminal, pipe, CallsTyped, Stages, Alive, cmd
<1>3. CASE AcceptErr
  BY <1>3
     DEF AcceptErr, peers, process, terminal, pipe, CallsTyped, Stages, Alive, cmd
<1>4. ASSUME NEW c \in Call, Start(c) PROVE Stages'
  <2>1. /\ hpc[c] = "start" /\ cmd /\ UNCHANGED setup
        /\ \/ To(c, "copy") /\ CopyTo(c, "copy") /\ pump' = [pump EXCEPT ![c] = "copy"] /\ proc' = [proc EXCEPT ![c] = "running"]
           \/ To(c, "close") /\ UNCHANGED <<cpc, pump, proc>>
    BY <1>4 DEF Start
  <2>2. CASE To(c, "copy") /\ CopyTo(c, "copy") /\ pump' = [pump EXCEPT ![c] = "copy"] /\ proc' = [proc EXCEPT ![c] = "running"]
    BY <2>1, <2>2, ZenonT(60) DEF CallsTyped, Stages, Alive, cmd, To, CopyTo
  <2>3. CASE To(c, "close") /\ UNCHANGED <<cpc, pump, proc>>
    BY <2>1, <2>3, ZenonT(60) DEF CallsTyped, Stages, Alive, cmd, To, CopyTo
  <2> QED
    BY <2>1, <2>2, <2>3
<1>5. ASSUME NEW c \in Call, StartTerm(c) PROVE Stages'
  BY <1>5
     DEF StartTerm, To, CopyTo, peers, process, terminal, pipe, CallsTyped, Stages, Alive, cmd
<1>6. ASSUME NEW c \in Call, CopyIn(c) PROVE Stages'
  <2>1. /\ UNCHANGED <<setup, hpc, pump, proc>> /\ cpc[c] = "copy"
        /\ cpc' = cpc \/ (cmd /\ CopyTo(c, "close pw")) \/ (~cmd /\ CopyTo(c, "fin"))
    BY <1>6 DEF CopyIn, pipe, process
  <2>2. \A k \in Call : cpc'[k] = cpc[k] \/ (k = c /\ cpc'[k] \in {"close pw", "fin"})
    BY <2>1 DEF CopyTo, CallsTyped
  <2>3. cmd' = cmd
    BY <2>1 DEF cmd
  <2> QED
    BY <2>1, <2>2, <2>3 DEF Stages, Alive
<1>7. ASSUME NEW c \in Call, ClosePw(c) PROVE Stages'
  BY <1>7
     DEF ClosePw, CopyTo, PwClosed, peers, process, terminal, pipe, CallsTyped, Stages, Alive, cmd
<1>8. ASSUME NEW c \in Call, CopyOut(c) PROVE Stages'
  <2>1. UNCHANGED <<setup, cpc, pump, proc>> /\ hpc[c] = "copy" /\ (hpc' = hpc \/ To(c, "fin"))
    BY <1>8, Delivered DEF CopyOut, pipe
  <2>2. \A k \in Call : hpc'[k] = hpc[k] \/ (k = c /\ hpc'[k] = "fin")
    BY <2>1 DEF To, CallsTyped
  <2>3. cmd' = cmd
    BY <2>1 DEF cmd
  <2> QED
    BY <2>1, <2>2, <2>3 DEF Stages, Alive
<1>9. ASSUME NEW c \in Call, PumpEnd(c) PROVE Stages'
  BY <1>9, ZenonT(60)
     DEF PumpEnd, peers, process, terminal, pipe, CallsTyped, Stages, Alive, cmd
<1>10. ASSUME NEW c \in Call, CopyOutEnd(c) PROVE Stages'
  BY <1>10
     DEF CopyOutEnd, To, peers, process, terminal, pipe, CallsTyped, Stages, Alive, cmd
<1>11. ASSUME NEW c \in Call, CopyStdin(c) PROVE Stages'
  <2>1. UNCHANGED <<setup, cpc, pump, proc>> /\ hpc[c] = "term" /\ (hpc' = hpc \/ To(c, "fin"))
    <3>1. UNCHANGED <<setup, cpc, pump, proc>> /\ hpc[c] = "term" /\ (Deliver(c) \/ To(c, "fin"))
      BY <1>11 DEF CopyStdin, pipe, process
    <3> QED
      BY <3>1, Delivered
  <2>2. \A k \in Call : hpc'[k] = hpc[k] \/ (k = c /\ hpc'[k] = "fin")
    BY <2>1 DEF To, CallsTyped
  <2>3. cmd' = cmd
    BY <2>1 DEF cmd
  <2> QED
    BY <2>1, <2>2, <2>3 DEF Stages, Alive
<1>12. ASSUME NEW c \in Call, Fin(c) PROVE Stages'
  BY <1>12
     DEF Fin, To, CopyTo, peers, process, terminal, pipe, CallsTyped, Stages, Alive, cmd
<1>13. ASSUME NEW c \in Call, CloseIn(c) PROVE Stages'
  BY <1>13
     DEF CloseIn, To, peers, process, terminal, pipe, CallsTyped, Stages, Alive, cmd
<1>14. ASSUME NEW c \in Call, Wait(c) PROVE Stages'
  BY <1>14, ZenonT(60)
     DEF Wait, To, Waited, peers, process, terminal, pipe, CallsTyped, Stages, Alive, cmd
<1>15. ASSUME NEW c \in Call, Close(c) PROVE Stages'
  BY <1>15
     DEF Close, To, peers, process, terminal, pipe, CallsTyped, Stages, Alive, cmd
<1>16. ASSUME NEW c \in Call, Release(c) PROVE Stages'
  BY <1>16
     DEF Release, To, SlotFreed, peers, process, terminal, pipe, CallsTyped, Stages, Alive, cmd
<1>17. ASSUME NEW c \in Call, Phone(c) PROVE Stages'
  BY <1>17
     DEF Phone, peers, process, terminal, pipe, CallsTyped, Stages, Alive, cmd
<1>18. ASSUME NEW c \in Call, Say(c) PROVE Stages'
  BY <1>18
     DEF Say, More, peers, process, terminal, pipe, CallsTyped, Stages, Alive, cmd
<1>19. ASSUME NEW c \in Call, Output(c) PROVE Stages'
  BY <1>19
     DEF Output, More, peers, process, terminal, pipe, CallsTyped, Stages, Alive, cmd
<1>20. ASSUME NEW c \in Call, Exit(c) PROVE Stages'
  BY <1>20
     DEF Exit, peers, process, terminal, pipe, CallsTyped, Stages, Alive, cmd
<1>21. CASE Type
  BY <1>21
     DEF Type, peers, process, terminal, pipe, CallsTyped, Stages, Alive, cmd
<1>22. CASE TypeEnd
  BY <1>22
     DEF TypeEnd, peers, process, terminal, pipe, CallsTyped, Stages, Alive, cmd
<1>23. CASE UNCHANGED vars
  BY <1>23
     DEF vars, peers, process, terminal, pipe, CallsTyped, Stages, Alive, cmd
<1> QED
  BY <1>1, <1>2, <1>3, <1>4, <1>5, <1>6, <1>7, <1>8, <1>9, <1>10, <1>11, <1>12,
     <1>13, <1>14, <1>15, <1>16, <1>17, <1>18, <1>19, <1>20, <1>21, <1>22, <1>23
     DEF Next, Main, CopyInStep, Pump, Handler, Outside

\* Every step keeps Chunks.
LEMMA ChunksStep ==
  ASSUME ListenAssumption, MainTyped, PeersTyped, CallsTyped, ChunksTyped, Stages, Chunks, [Next]_vars
  PROVE  Chunks'
<1>0. lim \in Nat /\ cmd \in BOOLEAN /\ Said \in Nat /\ Written \in Nat
  BY SetupTyped
<1>1. CASE Acquire
  BY <1>1
     DEF Acquire, Full, peers, process, terminal, pipe, PeersTyped, ChunksTyped, Chunks, cmd
<1>2. ASSUME NEW c \in Call, Accept(c) PROVE Chunks'
  BY <1>2
     DEF Accept, To, peers, process, terminal, pipe, PeersTyped, ChunksTyped, Chunks, cmd
<1>3. CASE AcceptErr
  BY <1>3
     DEF AcceptErr, peers, process, terminal, pipe, PeersTyped, ChunksTyped, Chunks, cmd
<1>4. ASSUME NEW c \in Call, Start(c) PROVE Chunks'
  BY <1>4
     DEF Start, To, CopyTo, peers, process, terminal, pipe, PeersTyped, ChunksTyped, Chunks, cmd
<1>5. ASSUME NEW c \in Call, StartTerm(c) PROVE Chunks'
  BY <1>5
     DEF StartTerm, To, CopyTo, peers, process, terminal, pipe, PeersTyped, ChunksTyped, Chunks, cmd
<1>6. ASSUME NEW c \in Call, CopyIn(c) PROVE Chunks'
  <2>1. UNCHANGED <<setup, said, process, got, terminal>> /\ (inbox' = [inbox EXCEPT ![c] = inbox[c] - 1] \/ UNCHANGED inbox)
    BY <1>6 DEF CopyIn, Less
  <2>2. \A k \in Call : inbox'[k] <= inbox[k] /\ inbox'[k] \in Int /\ inbox[k] \in Int /\ said[k] \in Int
    BY <1>0, <2>1 DEF PeersTyped
  <2>3. cmd' = cmd /\ UNCHANGED <<wrote, piped, got, typed, stdin>>
    BY <2>1 DEF cmd, process, terminal
  <2>4. \A k \in Call : inbox'[k] <= said'[k]
    BY <2>1, <2>2 DEF Chunks
  <2> QED
    BY <2>3, <2>4 DEF Chunks
<1>7. ASSUME NEW c \in Call, ClosePw(c) PROVE Chunks'
  BY <1>7
     DEF ClosePw, CopyTo, PwClosed, peers, process, terminal, pipe, PeersTyped, ChunksTyped, Chunks, cmd
<1>8. ASSUME NEW c \in Call, CopyOut(c) PROVE Chunks'
  <2>1. /\ UNCHANGED <<setup, inbox, said, wrote, typed, stdin>> /\ piped' = [piped EXCEPT ![c] = piped[c] - 1]
        /\ hpc[c] = "copy" /\ Deliver(c)
    BY <1>8 DEF CopyOut, Less, peers, terminal
  <2>2. got' = got \/ got' = [got EXCEPT ![c] = got[c] + 1]
    BY <2>1, Delivered DEF More
  <2>3. \A k \in Call : got[k] + piped[k] <= wrote[k]
    BY <2>1 DEF Chunks, Stages
  <2>4. \A k \in Call : got'[k] + piped'[k] <= wrote[k]
    BY <1>0, <2>1, <2>2, <2>3 DEF ChunksTyped
  <2>5. cmd' = cmd /\ cmd
    BY <2>1 DEF cmd, Stages
  <2> QED
    BY <2>1, <2>4, <2>5 DEF Chunks
<1>9. ASSUME NEW c \in Call, PumpEnd(c) PROVE Chunks'
  BY <1>9
     DEF PumpEnd, peers, process, terminal, pipe, PeersTyped, ChunksTyped, Chunks, cmd
<1>10. ASSUME NEW c \in Call, CopyOutEnd(c) PROVE Chunks'
  BY <1>10
     DEF CopyOutEnd, To, peers, process, terminal, pipe, PeersTyped, ChunksTyped, Chunks, cmd
<1>11. ASSUME NEW c \in Call, CopyStdin(c) PROVE Chunks'
  <2>1. /\ UNCHANGED <<setup, inbox, said, wrote, piped, typed>> /\ hpc[c] = "term"
        /\ (stdin > 0 /\ stdin' = stdin - 1 /\ Deliver(c)) \/ UNCHANGED <<stdin, got>>
    BY <1>11 DEF CopyStdin, process, peers
  <2>2. cmd' = cmd /\ ~cmd
    BY <2>1 DEF cmd, Stages
  <2>3. ASSUME stdin > 0, stdin' = stdin - 1, Deliver(c)
        PROVE  stdin' <= typed /\ \A k \in Call : got'[k] + stdin' <= typed
    <3>1. got' = got \/ got' = [got EXCEPT ![c] = got[c] + 1]
      BY <2>3, Delivered DEF More
    <3>2. \A k \in Call : got[k] + stdin <= typed
      BY <2>2 DEF Chunks
    <3>3. \A k \in Call : got'[k] + stdin' <= typed
      BY <1>0, <2>3, <3>1, <3>2 DEF ChunksTyped
    <3> QED
      BY <1>0, <2>3, <3>3 DEF ChunksTyped, Chunks
  <2> QED
    BY <2>1, <2>2, <2>3 DEF Chunks
<1>12. ASSUME NEW c \in Call, Fin(c) PROVE Chunks'
  BY <1>12
     DEF Fin, To, CopyTo, peers, process, terminal, pipe, PeersTyped, ChunksTyped, Chunks, cmd
<1>13. ASSUME NEW c \in Call, CloseIn(c) PROVE Chunks'
  BY <1>13
     DEF CloseIn, To, peers, process, terminal, pipe, PeersTyped, ChunksTyped, Chunks, cmd
<1>14. ASSUME NEW c \in Call, Wait(c) PROVE Chunks'
  BY <1>14
     DEF Wait, To, Waited, peers, process, terminal, pipe, PeersTyped, ChunksTyped, Chunks, cmd
<1>15. ASSUME NEW c \in Call, Close(c) PROVE Chunks'
  BY <1>15
     DEF Close, To, peers, process, terminal, pipe, PeersTyped, ChunksTyped, Chunks, cmd
<1>16. ASSUME NEW c \in Call, Release(c) PROVE Chunks'
  BY <1>16
     DEF Release, To, SlotFreed, peers, process, terminal, pipe, PeersTyped, ChunksTyped, Chunks, cmd
<1>17. ASSUME NEW c \in Call, Phone(c) PROVE Chunks'
  BY <1>17
     DEF Phone, peers, process, terminal, pipe, PeersTyped, ChunksTyped, Chunks, cmd
<1>18. ASSUME NEW c \in Call, Say(c) PROVE Chunks'
  BY <1>18
     DEF Say, More, peers, process, terminal, pipe, PeersTyped, ChunksTyped, Chunks, cmd
<1>19. ASSUME NEW c \in Call, Output(c) PROVE Chunks'
  BY <1>19
     DEF Output, More, peers, process, terminal, pipe, PeersTyped, ChunksTyped, Chunks, cmd
<1>20. ASSUME NEW c \in Call, Exit(c) PROVE Chunks'
  BY <1>20
     DEF Exit, peers, process, terminal, pipe, PeersTyped, ChunksTyped, Chunks, cmd
<1>21. CASE Type
  BY <1>21
     DEF Type, peers, process, terminal, pipe, PeersTyped, ChunksTyped, Chunks, cmd
<1>22. CASE TypeEnd
  BY <1>22
     DEF TypeEnd, peers, process, terminal, pipe, PeersTyped, ChunksTyped, Chunks, cmd
<1>23. CASE UNCHANGED vars
  BY <1>23
     DEF vars, peers, process, terminal, pipe, PeersTyped, ChunksTyped, Chunks, cmd
<1> QED
  BY <1>1, <1>2, <1>3, <1>4, <1>5, <1>6, <1>7, <1>8, <1>9, <1>10, <1>11, <1>12,
     <1>13, <1>14, <1>15, <1>16, <1>17, <1>18, <1>19, <1>20, <1>21, <1>22, <1>23
     DEF Next, Main, CopyInStep, Pump, Handler, Outside

----------------------------------------------------------------------------
(* Slots. *)

\* The calls that are answered are finitely many.
LEMMA AnsweredFinite ==
  ASSUME ListenAssumption
  PROVE  IsFiniteSet(Answered) /\ Cardinality(Answered) \in Nat
<1>1. Answered \subseteq Call
  BY DEF Answered
<1> QED
  BY <1>1, FS_Subset, FS_CardinalityType DEF ListenAssumption

\* A step that takes and gives back no slot.
LEMMA StillSlots ==
  ASSUME MainTyped, Slots, UNCHANGED <<setup, mpc, sem>>, Answered' = Answered, panic' \in BOOLEAN
  PROVE  MainTyped' /\ Slots'
  BY DEF MainTyped, Slots, lim

\* Every step keeps main's types and the slots.
LEMMA SlotsStep ==
  ASSUME ListenAssumption, MainTyped, CallsTyped, Slots, [Next]_vars
  PROVE  MainTyped' /\ Slots'
<1>0. lim \in Nat /\ sem \in Nat /\ IsFiniteSet(Answered) /\ Cardinality(Answered) \in Nat
  BY SetupTyped, AnsweredFinite DEF MainTyped
<1>1. CASE Acquire
  <2>1. /\ sem < lim /\ sem' = sem + 1 /\ mpc = "sem" /\ mpc' = "accept" /\ UNCHANGED <<setup, panic>>
        /\ Answered' = Answered
    BY <1>0, <1>1 DEF Acquire, Full, MainTyped, Answered
  <2>2. sem' \in 0..lim'
    BY <1>0, <2>1 DEF MainTyped, lim
  <2>3. sem' = Cardinality(Answered) + 1
    BY <1>0, <2>1 DEF Slots
  <2> QED
    BY <2>1, <2>2, <2>3 DEF MainTyped, Slots
<1>2. ASSUME NEW c \in Call, Accept(c) PROVE MainTyped' /\ Slots'
  <2>1. /\ mpc = "accept" /\ mpc' = "sem" /\ hpc[c] = "none" /\ To(c, "start") /\ UNCHANGED <<setup, sem, panic>>
    BY <1>2 DEF Accept
  <2>2. Answered' = Answered \cup {c} /\ c \notin Answered
    BY <2>1 DEF Answered, To, CallsTyped
  <2>3. Cardinality(Answered') = Cardinality(Answered) + 1
    BY <1>0, <2>2, FS_AddElement
  <2> QED
    BY <1>0, <2>1, <2>3 DEF MainTyped, Slots, lim
<1>3. CASE AcceptErr
  BY <1>3, StillSlots DEF AcceptErr, MainTyped, Answered
<1>4. ASSUME NEW c \in Call, Start(c) PROVE MainTyped' /\ Slots'
  <2>1. /\ hpc[c] = "start" /\ (To(c, "copy") \/ To(c, "close")) /\ UNCHANGED <<setup, mpc, sem, panic>>
    BY <1>4 DEF Start
  <2>2. Answered' = Answered
    BY <2>1 DEF CallsTyped, To, Answered
  <2> QED
    BY <2>1, <2>2, StillSlots DEF MainTyped
<1>5. ASSUME NEW c \in Call, StartTerm(c) PROVE MainTyped' /\ Slots'
  <2>1. /\ hpc[c] = "start" /\ To(c, "term") /\ UNCHANGED <<setup, mpc, sem, panic>>
    BY <1>5 DEF StartTerm
  <2>2. Answered' = Answered
    BY <2>1 DEF CallsTyped, To, Answered
  <2> QED
    BY <2>1, <2>2, StillSlots DEF MainTyped
<1>6. ASSUME NEW c \in Call, CopyIn(c) PROVE MainTyped' /\ Slots'
  BY <1>6, StillSlots DEF CopyIn, MainTyped, Answered
<1>7. ASSUME NEW c \in Call, ClosePw(c) PROVE MainTyped' /\ Slots'
  BY <1>7, StillSlots DEF ClosePw, MainTyped, Answered
<1>8. ASSUME NEW c \in Call, CopyOut(c) PROVE MainTyped' /\ Slots'
  <2>1. /\ hpc[c] = "copy" /\ (hpc' = hpc \/ To(c, "fin")) /\ UNCHANGED <<setup, mpc, sem, panic>>
    BY <1>8, Delivered DEF CopyOut
  <2>2. Answered' = Answered
    BY <2>1 DEF CallsTyped, To, Answered
  <2> QED
    BY <2>1, <2>2, StillSlots DEF MainTyped
<1>9. ASSUME NEW c \in Call, PumpEnd(c) PROVE MainTyped' /\ Slots'
  BY <1>9, StillSlots DEF PumpEnd, MainTyped, Answered
<1>10. ASSUME NEW c \in Call, CopyOutEnd(c) PROVE MainTyped' /\ Slots'
  <2>1. /\ hpc[c] = "copy" /\ To(c, "fin") /\ UNCHANGED <<setup, mpc, sem, panic>>
    BY <1>10 DEF CopyOutEnd
  <2>2. Answered' = Answered
    BY <2>1 DEF CallsTyped, To, Answered
  <2> QED
    BY <2>1, <2>2, StillSlots DEF MainTyped
<1>11. ASSUME NEW c \in Call, CopyStdin(c) PROVE MainTyped' /\ Slots'
  <2>1. /\ hpc[c] = "term" /\ (Deliver(c) \/ To(c, "fin")) /\ UNCHANGED <<setup, mpc, sem, panic>>
    BY <1>11 DEF CopyStdin
  <2>2. hpc' = hpc \/ To(c, "fin")
    BY <2>1, Delivered
  <2>3. Answered' = Answered
    BY <2>1, <2>2 DEF CallsTyped, To, Answered
  <2> QED
    BY <2>1, <2>3, StillSlots DEF MainTyped
<1>12. ASSUME NEW c \in Call, Fin(c) PROVE MainTyped' /\ Slots'
  <2>1. /\ hpc[c] = "fin" /\ (To(c, "close in") \/ To(c, "close")) /\ UNCHANGED <<setup, mpc, sem, panic>>
    BY <1>12 DEF Fin
  <2>2. Answered' = Answered
    BY <2>1 DEF CallsTyped, To, Answered
  <2> QED
    BY <2>1, <2>2, StillSlots DEF MainTyped
<1>13. ASSUME NEW c \in Call, CloseIn(c) PROVE MainTyped' /\ Slots'
  <2>1. /\ hpc[c] = "close in" /\ To(c, "wait") /\ UNCHANGED <<setup, mpc, sem, panic>>
    BY <1>13 DEF CloseIn
  <2>2. Answered' = Answered
    BY <2>1 DEF CallsTyped, To, Answered
  <2> QED
    BY <2>1, <2>2, StillSlots DEF MainTyped
<1>14. ASSUME NEW c \in Call, Wait(c) PROVE MainTyped' /\ Slots'
  <2>1. /\ hpc[c] = "wait" /\ To(c, "close") /\ UNCHANGED <<setup, mpc, sem, panic>>
    BY <1>14 DEF Wait
  <2>2. Answered' = Answered
    BY <2>1 DEF CallsTyped, To, Answered
  <2> QED
    BY <2>1, <2>2, StillSlots DEF MainTyped
<1>15. ASSUME NEW c \in Call, Close(c) PROVE MainTyped' /\ Slots'
  <2>1. /\ hpc[c] = "close" /\ To(c, "release") /\ UNCHANGED <<setup, mpc, sem, panic>>
    BY <1>15 DEF Close
  <2>2. Answered' = Answered
    BY <2>1 DEF CallsTyped, To, Answered
  <2> QED
    BY <2>1, <2>2, StillSlots DEF MainTyped
<1>16. ASSUME NEW c \in Call, Release(c) PROVE MainTyped' /\ Slots'
  <2>1. /\ hpc[c] = "release" /\ To(c, "over") /\ sem' = sem - 1 /\ UNCHANGED <<setup, mpc, panic>>
    BY <1>16 DEF Release, SlotFreed
  <2>2. Answered' = Answered \ {c} /\ c \in Answered
    BY <2>1 DEF Answered, To, CallsTyped
  <2>3. Cardinality(Answered') = Cardinality(Answered) - 1 /\ Cardinality(Answered') \in Nat
    <3>1. Answered # {} /\ Cardinality(Answered) # 0
      BY <1>0, <2>2, FS_EmptySet
    <3> QED
      BY <1>0, <2>2, <3>1, FS_RemoveElement
  <2>4. sem' = Cardinality(Answered') + (IF mpc' = "accept" THEN 1 ELSE 0)
    BY <1>0, <2>1, <2>3 DEF Slots, MainTyped
  <2>5. sem' \in 0..lim
    BY <1>0, <2>1, <2>3, <2>4 DEF MainTyped
  <2> QED
    BY <2>1, <2>4, <2>5 DEF MainTyped, Slots, lim
<1>17. ASSUME NEW c \in Call, Phone(c) PROVE MainTyped' /\ Slots'
  BY <1>17, StillSlots DEF Phone, MainTyped, Answered
<1>18. ASSUME NEW c \in Call, Say(c) PROVE MainTyped' /\ Slots'
  BY <1>18, StillSlots DEF Say, MainTyped, Answered
<1>19. ASSUME NEW c \in Call, Output(c) PROVE MainTyped' /\ Slots'
  BY <1>19, StillSlots DEF Output, MainTyped, Answered
<1>20. ASSUME NEW c \in Call, Exit(c) PROVE MainTyped' /\ Slots'
  BY <1>20, StillSlots DEF Exit, MainTyped, Answered
<1>21. CASE Type
  BY <1>21, StillSlots DEF Type, MainTyped, Answered
<1>22. CASE TypeEnd
  BY <1>22, StillSlots DEF TypeEnd, MainTyped, Answered
<1>23. CASE UNCHANGED vars
  BY <1>23, StillSlots DEF vars, Answered, MainTyped
<1> QED
  BY <1>1, <1>2, <1>3, <1>4, <1>5, <1>6, <1>7, <1>8, <1>9, <1>10, <1>11, <1>12,
     <1>13, <1>14, <1>15, <1>16, <1>17, <1>18, <1>19, <1>20, <1>21, <1>22, <1>23
     DEF Next, Main, CopyInStep, Pump, Handler, Outside


\* The slots bound the calls, and the calls the processes.
LEMMA Limited ==
  ASSUME ListenAssumption, MainTyped, Slots, Stages, CallsTyped
  PROVE  CallsLimited
<1>1. sem <= lim /\ lim \in Nat /\ sem \in Nat /\ IsFiniteSet(Answered) /\ Cardinality(Answered) \in Nat
  BY SetupTyped, AnsweredFinite DEF MainTyped
<1>2. Cardinality(Answered) <= lim
  BY <1>1 DEF Slots
<1>3. {c \in Call : proc[c] \in {"running", "exited"}} \subseteq Answered
  BY DEF Stages, Alive, Answered, CallsTyped
<1>4. /\ Cardinality({c \in Call : proc[c] \in {"running", "exited"}}) <= Cardinality(Answered)
      /\ Cardinality({c \in Call : proc[c] \in {"running", "exited"}}) \in Nat
  BY <1>1, <1>3, FS_Subset, FS_CardinalityType
<1> QED
  BY <1>1, <1>2, <1>4 DEF CallsLimited

\* Before the first call.
LEMMA IdleTyped ==
  ASSUME ListenAssumption, Idle
  PROVE  PeersTyped /\ CallsTyped /\ ChunksTyped
<1>1. PeersTyped
  BY DEF Idle, PeersTyped, ListenAssumption, Said
<1>2. CallsTyped
  BY DEF Idle, CallsTyped
<1>3. ChunksTyped
  <2>1. /\ setup \in Setups /\ typed = 0 /\ stdin = 0 /\ stdinEnd \in BOOLEAN
        /\ wrote = [c \in Call |-> 0] /\ piped = [c \in Call |-> 0] /\ got = [c \in Call |-> 0]
    BY DEF Idle
  <2>2. Written \in Nat
    BY <2>1 DEF ListenAssumption, Written
  <2> QED
    BY <2>1, <2>2 DEF ChunksTyped
<1> QED
  BY <1>1, <1>2, <1>3

\* Nobody has called yet.
LEMMA InitRight ==
  ASSUME ListenAssumption, Init
  PROVE  ListenInv
<1>1. TypeOK
  <2>1. MainTyped
    <3>1. setup \in Setups /\ sem = 0 /\ mpc = "sem" /\ panic \in BOOLEAN
      BY DEF Init, Idle
    <3>2. lim \in Nat
      BY <3>1 DEF ListenAssumption, lim
    <3> QED
      BY <3>1, <3>2 DEF MainTyped
  <2> QED
    BY <2>1, IdleTyped DEF Init, TypeOK
<1>2. Slots
  <2>1. Answered = {} /\ sem = 0 /\ mpc = "sem"
    BY DEF Init, Idle, Answered
  <2> QED
    BY <2>1, FS_EmptySet DEF Slots
<1>3. Stages
  BY DEF Init, Idle, Stages, Alive
<1>4. Chunks
  BY DEF Init, Idle, Chunks
<1> QED
  BY <1>1, <1>2, <1>3, <1>4, Limited DEF ListenInv, TypeOK

----------------------------------------------------------------------------

\* Slots, calls, processes and pipes agree, and no more calls than -a allows are
\* served at once: the inductive invariant of listen, for any calls and setups.
THEOREM Invariance == ASSUME ListenAssumption PROVE Spec => []ListenInv
<1> DEFINE Kept == TypeOK /\ Slots /\ Stages /\ Chunks
<1>1. Init => Kept
  BY InitRight DEF ListenInv
<1>2. Kept /\ [Next]_vars => Kept'
  <2> SUFFICES ASSUME Kept, [Next]_vars PROVE Kept'
    OBVIOUS
  <2>1. MainTyped' /\ Slots' /\ CallsTyped' /\ Stages'
    BY SlotsStep, CallsStep, StagesStep DEF TypeOK
  <2>2. PeersTyped' /\ ChunksTyped' /\ Chunks'
    BY PeersStep, CountsStep, ChunksStep DEF TypeOK
  <2> QED
    BY <2>1, <2>2 DEF TypeOK
<1>3. Kept => ListenInv
  BY Limited DEF ListenInv, TypeOK
<1> HIDE DEF Kept
<1> QED
  BY <1>1, <1>2, <1>3, PTL DEF Spec

----------------------------------------------------------------------------
(* dial: its one call goes through the steps of listen's. *)

CONSTANT fd
VARIABLE dpc
D == INSTANCE Dial

\* The steps of a call are the same in both programs.
LEMMA SameSteps ==
  ASSUME NEW c
  PROVE  /\ D!L!Accept(c) = Accept(c)
         /\ D!L!Start(c) = Start(c)
         /\ D!L!StartTerm(c) = StartTerm(c)
         /\ D!L!CopyIn(c) = CopyIn(c)
         /\ D!L!ClosePw(c) = ClosePw(c)
         /\ D!L!CopyOut(c) = CopyOut(c)
         /\ D!L!PumpEnd(c) = PumpEnd(c)
         /\ D!L!CopyOutEnd(c) = CopyOutEnd(c)
         /\ D!L!Fin(c) = Fin(c)
         /\ D!L!CloseIn(c) = CloseIn(c)
         /\ D!L!Wait(c) = Wait(c)
         /\ D!L!Close(c) = Close(c)
         /\ D!L!CopyStdin(c) = CopyStdin(c)
         /\ D!L!Outside(c) = Outside(c)
  BY DEF D!L!Accept, Accept, D!L!Start, Start, D!L!StartTerm, StartTerm,
         D!L!CopyIn, CopyIn, D!L!ClosePw, ClosePw, D!L!CopyOut, CopyOut,
         D!L!PumpEnd, PumpEnd, D!L!CopyOutEnd, CopyOutEnd, D!L!Fin, Fin,
         D!L!CloseIn, CloseIn, D!L!Wait, Wait, D!L!Close, Close,
         D!L!CopyStdin, CopyStdin, D!L!Outside, Outside, D!L!Phone, Phone,
         D!L!Say, Say, D!L!Output, Output, D!L!Exit, Exit,
         D!L!Running, Running, D!L!To, To, D!L!CopyTo, CopyTo, D!L!Less, Less,
         D!L!More, More, D!L!peers, peers, D!L!process, process,
         D!L!terminal, terminal, D!L!pipe, pipe, D!L!cmd, cmd, D!L!lim, lim,
         D!L!Said, Said, D!L!Written, Written, D!L!Deliver, Deliver,
         D!L!PwClosed, PwClosed, D!L!Waited, Waited

\* Every step of dial is a step of listen or leaves the call alone.
LEMMA DialSteps ==
  ASSUME D!DialAssumption, [D!Next]_(D!dialVars)
  PROVE  [Next]_vars
<1>1. fd \in Call
  BY DEF D!DialAssumption
<1>2. ASSUME UNCHANGED D!listen PROVE UNCHANGED vars
  BY <1>2 DEF D!listen, vars, peers, process, terminal, pipe
<1>3. CASE D!Connect
  BY <1>1, <1>3, SameSteps DEF D!Connect, Next, Main
<1>4. CASE D!Refused
  BY <1>2, <1>4 DEF D!Refused
<1>5. CASE D!HangUp
  BY <1>1, <1>5, SameSteps DEF D!HangUp, Next, Handler
<1>6. CASE D!Run3
  BY <1>1, <1>6, SameSteps DEF D!Run3, D!Reap, Next, Handler, CopyInStep, Pump
<1>7. CASE D!Term3
  BY <1>1, <1>7, SameSteps DEF D!Term3, Next, Handler, CopyInStep
<1>8. CASE D!Outside
  BY <1>1, <1>8, SameSteps DEF D!Outside, Next
<1>9. CASE D!Type \/ D!TypeEnd
  BY <1>9 DEF D!Type, D!TypeEnd, D!L!Type, D!L!TypeEnd, Type, TypeEnd, Next, D!L!Running,
     Running, D!L!cmd, cmd,
     D!L!Written, Written, D!L!peers, peers, D!L!process, process, D!L!pipe, pipe
<1>10. CASE UNCHANGED D!dialVars
  BY <1>2, <1>10 DEF D!dialVars
<1> QED
  BY <1>3, <1>4, <1>5, <1>6, <1>7, <1>8, <1>9, <1>10 DEF D!Next

\* dial begins where listen is when it has a slot and waits for a call.
LEMMA DialInit ==
  ASSUME ListenAssumption, D!DialAssumption, D!Init
  PROVE  TypeOK /\ Slots /\ Stages /\ Chunks
<1>1. Idle /\ mpc = "accept" /\ sem = 1
  BY DEF D!Init, D!L!Idle, Idle
<1>2. \A s \in Setups : s.lim = 1
  BY DEF D!DialAssumption
<1>3. TypeOK
  <2>1. MainTyped
    <3>1. setup \in Setups /\ lim = 1 /\ panic \in BOOLEAN
      BY <1>1, <1>2 DEF Idle, lim
    <3> QED
      BY <1>1, <3>1 DEF MainTyped
  <2>2. PeersTyped /\ CallsTyped /\ ChunksTyped
    BY <1>1, IdleTyped
  <2> QED
    BY <2>1, <2>2 DEF TypeOK
<1>4. Slots
  <2>1. Answered = {}
    BY <1>1 DEF Idle, Answered
  <2> QED
    BY <1>1, <2>1, FS_EmptySet DEF Slots
<1>5. Stages /\ Chunks
  BY <1>1 DEF Idle, Stages, Alive, Chunks
<1> QED
  BY <1>3, <1>4, <1>5

\* The same holds of dial: its process, goroutines and pipe agree, and when its call is over
\* the command it ran has been waited for, and no goroutine still copies or waits to send
\* on fin, also in the middle of the output (dial.go:165-230).
THEOREM DialInvariance ==
  ASSUME ListenAssumption, D!DialAssumption
  PROVE  D!Spec => []ListenInv
<1> DEFINE Kept == TypeOK /\ Slots /\ Stages /\ Chunks
<1>1. D!Init => Kept
  BY DialInit
<1>2. Kept /\ [D!Next]_(D!dialVars) => Kept'
  <2> SUFFICES ASSUME Kept, [D!Next]_(D!dialVars) PROVE Kept'
    OBVIOUS
  <2>1. [Next]_vars
    BY DialSteps
  <2>2. MainTyped' /\ Slots' /\ CallsTyped' /\ Stages'
    BY <2>1, SlotsStep, CallsStep, StagesStep DEF TypeOK
  <2>3. PeersTyped' /\ ChunksTyped' /\ Chunks'
    BY <2>1, PeersStep, CountsStep, ChunksStep DEF TypeOK
  <2> QED
    BY <2>2, <2>3 DEF TypeOK
<1>3. Kept => ListenInv
  BY Limited DEF ListenInv, TypeOK
<1> HIDE DEF Kept
<1> QED
  BY <1>1, <1>2, <1>3, PTL DEF D!Spec

----------------------------------------------------------------------------
(* The mux. *)

\* The muxer adds a connection at the end.
LEMMA Collected ==
  ASSUME NEW S, NEW t \in Seq(S), NEW x \in S
  PROVE  /\ Append(t, x) \in Seq(S) /\ Len(Append(t, x)) = Len(t) + 1 /\ Len(t) \in Nat
         /\ ToSet(Append(t, x)) = ToSet(t) \cup {x}
         /\ Append(t, x)[Len(t) + 1] = x
         /\ \A i \in 1..Len(t) : Append(t, x)[i] = t[i]
<1>1. /\ Len(t) \in Nat /\ Append(t, x) \in Seq(S) /\ Len(Append(t, x)) = Len(t) + 1
      /\ Append(t, x)[Len(t) + 1] = x
      /\ \A i \in 1..Len(t) : Append(t, x)[i] = t[i]
      /\ DOMAIN t = 1..Len(t) /\ DOMAIN Append(t, x) = 1..(Len(t) + 1)
  BY AppendProperties, LenProperties
<1>2. /\ \A i \in 1..(Len(t) + 1) : i \in 1..Len(t) \/ i = Len(t) + 1
      /\ Len(t) + 1 \in 1..(Len(t) + 1) /\ 1..Len(t) \subseteq 1..(Len(t) + 1)
  BY <1>1
<1>3. ToSet(Append(t, x)) = ToSet(t) \cup {x}
  BY <1>1, <1>2 DEF ToSet
<1> QED
  BY <1>1, <1>3

\* What was a beginning of the connections stays one.
LEMMA StillPrefix ==
  ASSUME NEW S, NEW s \in Seq(S), NEW t \in Seq(S), NEW x \in S, IsPrefix(s, t)
  PROVE  IsPrefix(s, Append(t, x))
<1> DEFINE k == Len(s)
           u == Append(t, x)
<1>1. k \in Nat /\ Len(t) \in Nat /\ Len(u) = Len(t) + 1 /\ k <= Len(t) /\ k <= Len(u)
  BY Collected, LenProperties DEF IsPrefix
<1>2. \A i \in 1..k : t[i] \in S /\ u[i] = t[i] /\ u[i] \in S
  BY <1>1, Collected, ElementOfSeq
<1> HIDE DEF k, u
<1>3. SubSeq(t, 1, k) \in Seq(S) /\ SubSeq(u, 1, k) \in Seq(S)
  BY <1>1, <1>2, SubSeqProperties
<1>4. Len(SubSeq(t, 1, k)) = k /\ Len(SubSeq(u, 1, k)) = k
  <2>1. Len(SubSeq(t, 1, k)) = (IF 1 <= k THEN k - 1 + 1 ELSE 0)
    BY <1>1, <1>2, SubSeqProperties
  <2>2. Len(SubSeq(u, 1, k)) = (IF 1 <= k THEN k - 1 + 1 ELSE 0)
    BY <1>1, <1>2, SubSeqProperties
  <2> QED
    BY <1>1, <2>1, <2>2
<1>5. \A i \in 1..k : SubSeq(t, 1, k)[i] = SubSeq(u, 1, k)[i]
  <2> SUFFICES ASSUME NEW i \in 1..k PROVE SubSeq(t, 1, k)[i] = SubSeq(u, 1, k)[i]
    OBVIOUS
  <2>1. i \in 1..(k - 1 + 1) /\ 1 + i - 1 = i
    BY <1>1
  <2>2. SubSeq(t, 1, k)[i] = t[1 + i - 1] /\ SubSeq(u, 1, k)[i] = u[1 + i - 1]
    BY <1>1, <1>2, <2>1, SubSeqProperties
  <2> QED
    BY <1>2, <2>1, <2>2
<1>6. SubSeq(t, 1, k) = SubSeq(u, 1, k)
  BY <1>3, <1>4, <1>5, SeqEqual
<1> QED
  BY <1>1, <1>6 DEF IsPrefix, k, u

----------------------------------------------------------------------------
(* Calls. *)

\* The calls in some stages are finitely many.
LEMMA AtFinite ==
  ASSUME MuxAssumption, NEW S
  PROVE  IsFiniteSet(At(S)) /\ Cardinality(At(S)) \in Nat /\ At(S) \subseteq CallId
<1>1. IsFiniteSet(CallId)
  BY FS_Interval DEF CallId, MuxAssumption
<1>2. At(S) \subseteq CallId
  BY DEF At
<1> QED
  BY <1>1, <1>2, FS_Subset, FS_CardinalityType

\* A call that goes from one stage to another.
LEMMA CallGoes ==
  ASSUME MuxAssumption, MuxTypeOK, NEW i \in CallId, NEW s \in Stage, CallTo(i, s), NEW S
  PROVE  /\ call[i] \notin S /\ s \in S => /\ At(S)' = At(S) \cup {i} /\ i \notin At(S)
                                           /\ Cardinality(At(S)') = Cardinality(At(S)) + 1
         /\ call[i] \in S /\ s \notin S => /\ At(S)' = At(S) \ {i} /\ i \in At(S)
                                           /\ Cardinality(At(S)') = Cardinality(At(S)) - 1
         /\ (call[i] \in S <=> s \in S) => At(S)' = At(S)
<1>1. \A j \in CallId : call'[j] = IF j = i THEN s ELSE call[j]
  BY DEF MuxTypeOK, CallTo
<1>2. IsFiniteSet(At(S))
  BY AtFinite
<1>3. ASSUME call[i] \notin S, s \in S
      PROVE  /\ At(S)' = At(S) \cup {i} /\ i \notin At(S)
             /\ Cardinality(At(S)') = Cardinality(At(S)) + 1
  <2>1. At(S)' = At(S) \cup {i} /\ i \notin At(S)
    BY <1>1, <1>3 DEF At
  <2> QED
    BY <1>2, <2>1, FS_AddElement
<1>4. ASSUME call[i] \in S, s \notin S
      PROVE  /\ At(S)' = At(S) \ {i} /\ i \in At(S)
             /\ Cardinality(At(S)') = Cardinality(At(S)) - 1
  <2>1. At(S)' = At(S) \ {i} /\ i \in At(S)
    BY <1>1, <1>4 DEF At
  <2> QED
    BY <1>2, <2>1, FS_RemoveElement
<1>5. (call[i] \in S <=> s \in S) => At(S)' = At(S)
  BY <1>1 DEF At
<1> QED
  BY <1>3, <1>4, <1>5

\* A call whose connection goes to another call.
LEMMA CallMisses ==
  ASSUME MuxAssumption, MuxTypeOK, NEW i \in CallId, NEW j \in CallId, Miss(i, j)
  PROVE  /\ i # j /\ At({"receive"})' = (At({"receive"}) \cup {i}) \ {j}
         /\ Cardinality(At({"receive"})') = Cardinality(At({"receive"}))
         /\ Sent' = Sent \cup {i} /\ i \notin Sent /\ Cardinality(Sent') = Cardinality(Sent) + 1
         /\ InProgress' = InProgress
<1>1. /\ call[i] = "send" /\ call[j] = "receive" /\ i # j
      /\ \A k \in CallId : call'[k] = IF k = j THEN "serve" ELSE IF k = i THEN "receive" ELSE call[k]
  BY DEF Miss, MuxTypeOK
<1>2. IsFiniteSet(At({"receive"})) /\ IsFiniteSet(Sent) /\ Cardinality(At({"receive"})) \in Nat
  BY AtFinite DEF Sent
<1>3. /\ At({"receive"})' = (At({"receive"}) \cup {i}) \ {j}
      /\ i \notin At({"receive"}) /\ j \in At({"receive"}) \cup {i}
  BY <1>1 DEF At
<1>4. Cardinality(At({"receive"})') = Cardinality(At({"receive"}))
  <2>1. IsFiniteSet(At({"receive"}) \cup {i}) /\ Cardinality(At({"receive"}) \cup {i}) = Cardinality(At({"receive"})) + 1
    BY <1>2, <1>3, FS_AddElement
  <2>2. Cardinality((At({"receive"}) \cup {i}) \ {j}) = Cardinality(At({"receive"}) \cup {i}) - 1
    BY <1>3, <2>1, FS_RemoveElement
  <2>3. Cardinality(At({"receive"})') = Cardinality((At({"receive"}) \cup {i}) \ {j})
    BY <1>3, Zenon
  <2>4. \A c, d, e : c \in Nat /\ d = c + 1 /\ e = d - 1 => e = c
    OBVIOUS
  <2> QED
    BY <1>2, <2>1, <2>2, <2>3, <2>4
<1>5. Sent' = Sent \cup {i} /\ i \notin Sent
  BY <1>1 DEF At, Sent
<1>6. Cardinality(Sent') = Cardinality(Sent) + 1
  BY <1>2, <1>5, FS_AddElement
<1>7. InProgress' = InProgress
  BY <1>1 DEF At, InProgress
<1> QED
  BY <1>1, <1>3, <1>4, <1>5, <1>6, <1>7

\* Each connection is that of some call.
LEMMA CfdTyped ==
  ASSUME MuxAssumption, NEW i \in CallId
  PROVE  Cfd(i) \in CallId
  BY DEF Cfd, CallId, MuxAssumption

----------------------------------------------------------------------------
(* Types and slots. *)

\* Every step keeps the types and the slots.
LEMMA TypeStep ==
  ASSUME MuxAssumption, MuxTypeOK, Slotted, [MuxNext]_muxVars
  PROVE  MuxTypeOK' /\ Slotted'
<1>0. /\ slots \in Nat /\ slots <= muxing.lim /\ muxing.lim \in Nat /\ Cardinality(InProgress) \in Nat
      /\ Cardinality(InProgress) + (IF muxpc = "accept" THEN 1 ELSE 0) <= slots
  BY AtFinite DEF MuxTypeOK, MuxAssumption, Slotted, InProgress
<1>1. CASE MuxAcquire
  <2>1. /\ slots' = slots + 1 /\ slots < muxing.lim /\ muxpc = "sem" /\ muxpc' = "accept" /\ muxing' = muxing
        /\ InProgress' = InProgress /\ UNCHANGED <<call, mux, pimped, lol, unmuxed>>
    BY <1>1 DEF MuxAcquire, InProgress, At
  <2>2. slots' \in 0..muxing'.lim
    BY <1>0, <2>1
  <2>3. Slotted'
    BY <1>0, <2>1 DEF Slotted
  <2> QED
    BY <2>1, <2>2, <2>3 DEF MuxTypeOK
<1>2. ASSUME NEW i \in CallId, Go(i) PROVE MuxTypeOK' /\ Slotted'
  <2>1. /\ call[i] = "none" /\ muxpc = "accept" /\ muxpc' = "sem"
        /\ UNCHANGED <<muxing, slots, mux, pimped, lol, unmuxed>>
    BY <1>2 DEF Go
  <2>0. PICK s \in {"nil", "send"} : CallTo(i, s)
    BY <1>2 DEF Go
  <2>2. Cardinality(InProgress') = Cardinality(InProgress) + 1
    BY <2>0, <2>1, CallGoes DEF InProgress, Stage
  <2>3. Slotted'
    BY <1>0, <2>1, <2>2 DEF Slotted
  <2> QED
    BY <2>0, <2>1, <2>3 DEF MuxTypeOK, CallTo, Stage
<1>3. ASSUME NEW i \in CallId, Collect(i) PROVE MuxTypeOK' /\ Slotted'
  <2>1. /\ call[i] = "send" /\ CallTo(i, "receive") /\ pimped' = Append(pimped, Cfd(i)) /\ mux' = "send"
        /\ UNCHANGED <<muxing, muxpc, slots, lol, unmuxed>>
    BY <1>3 DEF Collect
  <2>2. InProgress' = InProgress
    BY <2>1, CallGoes DEF InProgress, Stage
  <2>3. pimped' \in Seq(CallId)
    BY <2>1, CfdTyped, Collected DEF MuxTypeOK
  <2>4. Slotted'
    BY <1>0, <2>1, <2>2 DEF Slotted
  <2> QED
    BY <2>1, <2>3, <2>4 DEF MuxTypeOK, CallTo, Stage
<1>4. ASSUME NEW i \in CallId, Answer(i) PROVE MuxTypeOK' /\ Slotted'
  <2>1. /\ call[i] = "receive" /\ CallTo(i, "serve") /\ lol' = [lol EXCEPT ![i] = pimped] /\ mux' = "receive"
        /\ UNCHANGED <<muxing, muxpc, slots, pimped, unmuxed>>
    BY <1>4 DEF Answer, GiveAll
  <2>2. InProgress' = InProgress
    BY <2>1, CallGoes DEF InProgress, Stage
  <2>3. Slotted'
    BY <1>0, <2>1, <2>2 DEF Slotted
  <2> QED
    BY <2>1, <2>3 DEF MuxTypeOK, CallTo, Stage
<1>5. ASSUME NEW i \in CallId, NEW j \in CallId, Miss(i, j) PROVE MuxTypeOK' /\ Slotted'
  <2>1. /\ lol' = [lol EXCEPT ![j] = <<Cfd(i)>>] /\ unmuxed' = unmuxed \cup {i}
        /\ call' = [call EXCEPT ![i] = "receive", ![j] = "serve"]
        /\ UNCHANGED <<muxing, muxpc, slots, mux, pimped>>
    BY <1>5 DEF Miss
  <2>2. InProgress' = InProgress
    BY <1>5, CallMisses
  <2>3. <<Cfd(i)>> \in Seq(CallId)
    BY CfdTyped
  <2>4. Slotted'
    BY <1>0, <2>1, <2>2 DEF Slotted
  <2> QED
    BY <2>1, <2>3, <2>4 DEF MuxTypeOK, Stage
<1>6. ASSUME NEW i \in CallId, Serve(i) PROVE MuxTypeOK' /\ Slotted'
  <2>1. /\ call[i] = "serve" /\ CallTo(i, "release")
        /\ UNCHANGED <<muxing, muxpc, slots, mux, pimped, lol, unmuxed>>
    BY <1>6 DEF Serve
  <2>2. InProgress' = InProgress
    BY <2>1, CallGoes DEF InProgress, Stage
  <2>3. Slotted'
    BY <1>0, <2>1, <2>2 DEF Slotted
  <2> QED
    BY <2>1, <2>3 DEF MuxTypeOK, CallTo, Stage
<1>7. ASSUME NEW i \in CallId, MuxRelease(i) PROVE MuxTypeOK' /\ Slotted'
  <2>1. /\ call[i] = "release" /\ CallTo(i, "over") /\ slots' = slots - 1
        /\ UNCHANGED <<muxing, muxpc, mux, pimped, lol, unmuxed>>
    BY <1>7 DEF MuxRelease
  <2>2. Cardinality(InProgress') = Cardinality(InProgress) - 1 /\ Cardinality(InProgress') \in Nat
    <3>1. Cardinality(InProgress') = Cardinality(InProgress) - 1 /\ i \in InProgress
      BY <2>1, CallGoes DEF InProgress, Stage
    <3>2. IsFiniteSet(InProgress) /\ Cardinality(InProgress) # 0
      BY <3>1, AtFinite, FS_EmptySet DEF InProgress
    <3> QED
      BY <1>0, <3>1, <3>2
  <2>3. slots' \in 0..muxing'.lim
    BY <1>0, <2>1, <2>2
  <2>4. Slotted'
    BY <1>0, <2>1, <2>2 DEF Slotted
  <2> QED
    BY <2>1, <2>3, <2>4 DEF MuxTypeOK, CallTo, Stage
<1>9. ASSUME NEW i \in CallId, NilClose(i) PROVE MuxTypeOK' /\ Slotted'
  <2>1. muxpc' = "panic" /\ UNCHANGED <<muxing, slots, call, mux, pimped, lol, unmuxed>>
    BY <1>9 DEF NilClose
  <2>2. InProgress' = InProgress
    BY <2>1 DEF InProgress, At
  <2>3. Slotted'
    BY <1>0, <2>1, <2>2 DEF Slotted
  <2> QED
    BY <2>1, <2>3 DEF MuxTypeOK
<1>8. CASE UNCHANGED muxVars
  BY <1>8 DEF muxVars, MuxTypeOK, Slotted, InProgress, At
<1> QED
  BY <1>1, <1>2, <1>3, <1>4, <1>5, <1>6, <1>7, <1>8, <1>9 DEF MuxNext, ListenMux, DialMux, MuxMain,
     Pimper, Ends

----------------------------------------------------------------------------
(* Who waits, and where the connections are. *)

\* Every step keeps OneWaits.
LEMMA WaitsStep ==
  ASSUME MuxAssumption, MuxTypeOK, OneWaits, [MuxNext]_muxVars
  PROVE  OneWaits'
<1>0. Cardinality(At({"receive"})) \in Nat
  BY AtFinite
<1>1. CASE MuxAcquire
  BY <1>1 DEF MuxAcquire, OneWaits, At
<1>2. ASSUME NEW i \in CallId, Go(i) PROVE OneWaits'
  <2>0. PICK s \in {"nil", "send"} : CallTo(i, s)
    BY <1>2 DEF Go
  <2>1. At({"receive"})' = At({"receive"}) /\ mux' = mux
    BY <1>2, <2>0, CallGoes DEF Go, Stage
  <2> QED
    BY <2>1 DEF OneWaits
<1>3. ASSUME NEW i \in CallId, Collect(i) PROVE OneWaits'
  <2>1. Cardinality(At({"receive"})') = Cardinality(At({"receive"})) + 1 /\ mux = "receive" /\ mux' = "send"
    BY <1>3, CallGoes DEF Collect, Stage
  <2> QED
    BY <1>0, <2>1 DEF OneWaits
<1>4. ASSUME NEW i \in CallId, Answer(i) PROVE OneWaits'
  <2>1. Cardinality(At({"receive"})') = Cardinality(At({"receive"})) - 1 /\ mux = "send" /\ mux' = "receive"
    BY <1>4, CallGoes DEF Answer, Stage
  <2> QED
    BY <1>0, <2>1 DEF OneWaits
<1>5. ASSUME NEW i \in CallId, NEW j \in CallId, Miss(i, j) PROVE OneWaits'
  <2>1. Cardinality(At({"receive"})') = Cardinality(At({"receive"})) /\ mux' = mux
    BY <1>5, CallMisses DEF Miss
  <2> QED
    BY <2>1 DEF OneWaits
<1>6. ASSUME NEW i \in CallId, Serve(i) PROVE OneWaits'
  <2>1. At({"receive"})' = At({"receive"}) /\ mux' = mux
    BY <1>6, CallGoes DEF Serve, Stage
  <2> QED
    BY <2>1 DEF OneWaits
<1>7. ASSUME NEW i \in CallId, MuxRelease(i) PROVE OneWaits'
  <2>1. At({"receive"})' = At({"receive"}) /\ mux' = mux
    BY <1>7, CallGoes DEF MuxRelease, Stage
  <2> QED
    BY <2>1 DEF OneWaits
<1>9. ASSUME NEW i \in CallId, NilClose(i) PROVE OneWaits'
  BY <1>9 DEF NilClose, OneWaits, At
<1>8. CASE UNCHANGED muxVars
  BY <1>8 DEF muxVars, OneWaits, At
<1> QED
  BY <1>1, <1>2, <1>3, <1>4, <1>5, <1>6, <1>7, <1>8, <1>9 DEF MuxNext, ListenMux, DialMux, MuxMain,
     Pimper, Ends

\* A step in which no connection is sent.
LEMMA StillPlaced ==
  ASSUME MuxAssumption, MuxTypeOK, Placed, Sent' = Sent, UNCHANGED <<muxing, pimped, unmuxed, lol>>
  PROVE  Placed'
  BY DEF Placed

\* Every step keeps Placed.
LEMMA PlacedStep ==
  ASSUME MuxAssumption, MuxTypeOK, Placed, [MuxNext]_muxVars
  PROVE  Placed'
<1>0. /\ Len(pimped) \in Nat /\ IsFiniteSet(unmuxed) /\ Cardinality(unmuxed) \in Nat
      /\ IsFiniteSet(Sent) /\ Cardinality(Sent) \in Nat
  <2>1. IsFiniteSet(Sent) /\ unmuxed \subseteq Sent
    BY AtFinite DEF Placed, Sent
  <2>2. IsFiniteSet(unmuxed)
    BY <2>1, FS_Subset
  <2> QED
    BY <2>1, <2>2, LenProperties, FS_CardinalityType DEF MuxTypeOK
<1>1. CASE MuxAcquire
  BY <1>1, StillPlaced DEF MuxAcquire, Sent, At
<1>2. ASSUME NEW i \in CallId, Go(i) PROVE Placed'
  <2>0. PICK s \in {"nil", "send"} : CallTo(i, s)
    BY <1>2 DEF Go
  <2>1. Sent' = Sent /\ UNCHANGED <<muxing, pimped, unmuxed, lol>>
    BY <1>2, <2>0, CallGoes DEF Go, Stage, Sent
  <2> QED
    BY <2>1, StillPlaced
<1>3. ASSUME NEW i \in CallId, Collect(i) PROVE Placed'
  <2>1. pimped' = Append(pimped, Cfd(i)) /\ UNCHANGED <<muxing, lol, unmuxed>>
    BY <1>3 DEF Collect
  <2>2. Sent' = Sent \cup {i} /\ i \notin Sent /\ Cardinality(Sent') = Cardinality(Sent) + 1
    BY <1>3, CallGoes DEF Collect, Stage, Sent
  <2>3. Len(pimped') = Len(pimped) + 1 /\ ToSet(pimped') = ToSet(pimped) \cup {Cfd(i)}
    BY <2>1, CfdTyped, Collected DEF MuxTypeOK
  <2>4. unmuxed' \subseteq Sent' /\ Len(pimped') + Cardinality(unmuxed') = Cardinality(Sent')
    <3>1. Len(pimped) + Cardinality(unmuxed) = Cardinality(Sent) /\ unmuxed \subseteq Sent
      BY DEF Placed
    <3> QED
      BY <1>0, <2>1, <2>2, <2>3, <3>1
  <2>5. ASSUME ~muxing.dial
        PROVE  /\ ToSet(pimped') = Sent' \ unmuxed'
               /\ \A k \in CallId : lol'[k] # <<>> =>
                     IsPrefix(lol'[k], pimped') \/ \E h \in unmuxed' : lol'[k] = <<h>>
    <3>1. ToSet(pimped') = Sent' \ unmuxed'
      BY <2>1, <2>2, <2>3, <2>5 DEF Placed, Cfd
    <3>2. ASSUME NEW k \in CallId, IsPrefix(lol[k], pimped) PROVE IsPrefix(lol[k], pimped')
      BY <2>1, <3>2, CfdTyped, StillPrefix DEF MuxTypeOK
    <3> QED
      BY <2>1, <2>5, <3>1, <3>2 DEF Placed
  <2> QED
    BY <2>1, <2>4, <2>5 DEF Placed
<1>4. ASSUME NEW i \in CallId, Answer(i) PROVE Placed'
  <2>1. lol' = [lol EXCEPT ![i] = pimped] /\ UNCHANGED <<muxing, pimped, unmuxed>>
    BY <1>4 DEF Answer, GiveAll
  <2>2. Sent' = Sent
    BY <1>4, CallGoes DEF Answer, Stage, Sent
  <2>3. \A k \in CallId : lol'[k] = IF k = i THEN pimped ELSE lol[k]
    BY <2>1 DEF MuxTypeOK
  <2>4. IsPrefix(pimped, pimped)
    BY <1>0 DEF IsPrefix
  <2> QED
    BY <2>1, <2>2, <2>3, <2>4 DEF Placed
<1>5. ASSUME NEW i \in CallId, NEW j \in CallId, Miss(i, j) PROVE Placed'
  <2>1. /\ lol' = [lol EXCEPT ![j] = <<Cfd(i)>>] /\ unmuxed' = unmuxed \cup {i}
        /\ UNCHANGED <<muxing, pimped>>
    BY <1>5 DEF Miss
  <2>2. Sent' = Sent \cup {i} /\ i \notin Sent /\ Cardinality(Sent') = Cardinality(Sent) + 1
    BY <1>5, CallMisses
  <2>3. Len(pimped) + Cardinality(unmuxed) = Cardinality(Sent) /\ unmuxed \subseteq Sent
    BY DEF Placed
  <2>4. Cardinality(unmuxed') = Cardinality(unmuxed) + 1
    BY <1>0, <2>1, <2>2, <2>3, FS_AddElement
  <2>5. \A k \in CallId : lol'[k] = IF k = j THEN <<Cfd(i)>> ELSE lol[k]
    BY <2>1 DEF MuxTypeOK
  <2>6. unmuxed' \subseteq Sent' /\ Len(pimped') + Cardinality(unmuxed') = Cardinality(Sent')
    BY <1>0, <2>1, <2>2, <2>3, <2>4
  <2>7. ASSUME ~muxing.dial
        PROVE  /\ ToSet(pimped') = Sent' \ unmuxed'
               /\ \A k \in CallId : lol'[k] # <<>> =>
                     IsPrefix(lol'[k], pimped') \/ \E h \in unmuxed' : lol'[k] = <<h>>
    <3>1. ToSet(pimped') = Sent' \ unmuxed'
      BY <2>1, <2>2, <2>7 DEF Placed
    <3>2. \A k \in CallId : lol[k] # <<>> =>
             IsPrefix(lol[k], pimped) \/ \E h \in unmuxed : lol[k] = <<h>>
      BY <2>7 DEF Placed
    <3>3. i \in unmuxed' /\ Cfd(i) = i
      BY <2>1, <2>7 DEF Cfd
    <3> QED
      BY <2>1, <2>5, <3>1, <3>2, <3>3
  <2> QED
    BY <2>1, <2>6, <2>7 DEF Placed
<1>6. ASSUME NEW i \in CallId, Serve(i) PROVE Placed'
  <2>1. Sent' = Sent /\ UNCHANGED <<muxing, pimped, unmuxed, lol>>
    BY <1>6, CallGoes DEF Serve, Stage, Sent
  <2> QED
    BY <2>1, StillPlaced
<1>7. ASSUME NEW i \in CallId, MuxRelease(i) PROVE Placed'
  <2>1. Sent' = Sent /\ UNCHANGED <<muxing, pimped, unmuxed, lol>>
    BY <1>7, CallGoes DEF MuxRelease, Stage, Sent
  <2> QED
    BY <2>1, StillPlaced
<1>9. ASSUME NEW i \in CallId, NilClose(i) PROVE Placed'
  BY <1>9, StillPlaced DEF NilClose, Sent, At
<1>8. CASE UNCHANGED muxVars
  BY <1>8, StillPlaced DEF muxVars, Sent, At
<1> QED
  BY <1>1, <1>2, <1>3, <1>4, <1>5, <1>6, <1>7, <1>8, <1>9 DEF MuxNext, ListenMux, DialMux, MuxMain,
     Pimper, Ends

----------------------------------------------------------------------------
(* One call at a time. *)

\* With one slot, InTurn for two calls.
LEMMA Earlier ==
  ASSUME InTurn, muxing.lim = 1, NEW i \in CallId, NEW j \in CallId, j < i, call[i] # "none"
  PROVE  call[j] = "over"
  BY DEF InTurn

\* A step that neither starts a call nor sends a connection.
LEMMA StillInTurn ==
  ASSUME InTurn, UNCHANGED <<muxing, pimped>>, Sent' = Sent,
         \A k \in CallId : /\ call'[k] = "none" <=> call[k] = "none"
                           /\ call[k] = "over" => call'[k] = "over"
  PROVE  InTurn'
  BY DEF InTurn, Cfd

\* When the next call is started the earlier ones are over.
LEMMA GoInTurn ==
  ASSUME MuxAssumption, MuxTypeOK, Slotted, InTurn, NEW i \in CallId, Go(i)
  PROVE  InTurn'
<1> SUFFICES ASSUME muxing.lim = 1 PROVE InTurn'
  BY DEF Go, InTurn
<1>1. /\ call[i] = "none" /\ muxpc = "accept" /\ UNCHANGED <<muxing, pimped>>
      /\ \A k \in 1..(i - 1) : call[k] # "none"
  BY DEF Go
<1>7. PICK s \in {"nil", "send"} : CallTo(i, s)
  BY DEF Go
<1>2. Sent' = Sent
  BY <1>1, <1>7, CallGoes DEF Stage, Sent
<1>3. \A k \in CallId : call'[k] = IF k = i THEN s ELSE call[k]
  BY <1>7 DEF MuxTypeOK, CallTo
<1>4. InProgress = {}
  <2>1. Cardinality(InProgress) \in Nat /\ IsFiniteSet(InProgress)
    BY AtFinite DEF InProgress
  <2>2. Cardinality(InProgress) = 0
    BY <1>1, <2>1 DEF Slotted, MuxTypeOK
  <2> QED
    BY <2>1, <2>2, FS_EmptySet
<1>5. \A k \in CallId : k < i => call[k] = "over"
  <2> SUFFICES ASSUME NEW k \in CallId, k < i PROVE call[k] = "over"
    OBVIOUS
  <2>1. k \in 1..(i - 1)
    BY DEF CallId, MuxAssumption
  <2> QED
    BY <1>1, <1>4, <2>1 DEF InProgress, At, MuxTypeOK, Stage
<1>6. \A k, h \in CallId : h < k /\ call'[k] # "none" => call'[h] = "over"
  BY <1>1, <1>3, <1>5, Earlier
<1> QED
  BY <1>1, <1>2, <1>6 DEF InTurn, Cfd

\* The muxer collects the next connection.
LEMMA CollectInTurn ==
  ASSUME MuxAssumption, MuxTypeOK, InTurn, NEW i \in CallId, Collect(i)
  PROVE  InTurn'
<1> SUFFICES ASSUME muxing.lim = 1 PROVE InTurn'
  BY DEF Collect, InTurn
<1> DEFINE n == Len(pimped)
<1>1. /\ call[i] = "send" /\ CallTo(i, "receive") /\ UNCHANGED muxing /\ pimped' = Append(pimped, Cfd(i))
  BY DEF Collect
<1>2. Sent' = Sent \cup {i} /\ i \notin Sent
  BY <1>1, CallGoes DEF Stage, Sent
<1>3. \A k \in CallId : call'[k] = IF k = i THEN "receive" ELSE call[k]
  BY <1>1 DEF MuxTypeOK, CallTo
<1>4. \A k \in CallId : k \in Sent <=> k <= n
  BY DEF InTurn
<1>5. n \in Nat /\ i \in Nat \ {0} /\ i <= Calls /\ Calls \in Nat
  BY LenProperties DEF MuxTypeOK, CallId, MuxAssumption
<1>6. i = n + 1
  <2>1. ~(i <= n)
    BY <1>2, <1>4
  <2>2. ASSUME i # 1 PROVE i - 1 <= n
    <3>1. i - 1 \in CallId /\ i - 1 < i
      BY <1>5, <2>2 DEF CallId
    <3>2. call[i - 1] = "over"
      BY <1>1, <3>1, Earlier
    <3> QED
      BY <1>4, <3>1, <3>2 DEF Sent, At
  <2> QED
    BY <1>5, <2>1, <2>2
<1>7. Len(pimped') = n + 1 /\ pimped' \in Seq(CallId) /\ pimped'[n + 1] = Cfd(i)
      /\ \A k \in 1..n : pimped'[k] = pimped[k]
  BY <1>1, CfdTyped, Collected DEF MuxTypeOK
<1>8. pimped' = [k \in 1..(n + 1) |-> Cfd(k)]
  <2>1. pimped = [k \in 1..n |-> Cfd(k)]
    BY DEF InTurn
  <2>2. \A k \in 1..n : pimped[k] = Cfd(k)
    BY <2>1
  <2>3. pimped' = [k \in 1..(n + 1) |-> pimped'[k]]
    BY <1>5, <1>7, LenProperties
  <2>4. \A k \in 1..(n + 1) : pimped'[k] = Cfd(k)
    BY <1>5, <1>6, <1>7, <2>2
  <2> QED
    BY <2>3, <2>4
<1>9. \A k \in CallId : k \in Sent' <=> k <= n + 1
  BY <1>2, <1>4, <1>5, <1>6 DEF CallId
<1>10. \A k, h \in CallId : h < k /\ call'[k] # "none" => call'[h] = "over"
  BY <1>1, <1>3, Earlier
<1>11. [k \in 1..(n + 1) |-> Cfd(k)] = [k \in 1..(n + 1) |-> Cfd(k)']
  BY <1>1 DEF Cfd
<1> QED
  BY <1>1, <1>7, <1>8, <1>9, <1>10, <1>11 DEF InTurn

\* Every step keeps InTurn: with one call in progress no connection misses the muxer.
LEMMA TurnStep ==
  ASSUME MuxAssumption, MuxTypeOK, Slotted, InTurn, [MuxNext]_muxVars
  PROVE  InTurn'
<1>1. CASE MuxAcquire
  BY <1>1, StillInTurn DEF MuxAcquire, Sent, At
<1>2. ASSUME NEW i \in CallId, Go(i) PROVE InTurn'
  BY <1>2, GoInTurn
<1>3. ASSUME NEW i \in CallId, Collect(i) PROVE InTurn'
  BY <1>3, CollectInTurn
<1>4. ASSUME NEW i \in CallId, NEW s \in Stage \ {"none"}, call[i] \notin {"none", "over"}, CallTo(i, s),
             Sent' = Sent, UNCHANGED <<muxing, pimped>>
      PROVE  InTurn'
  <2>1. \A k \in CallId : call'[k] = IF k = i THEN s ELSE call[k]
    BY <1>4 DEF MuxTypeOK, CallTo
  <2> QED
    BY <1>4, <2>1, StillInTurn
<1>5. ASSUME NEW i \in CallId, Answer(i) PROVE InTurn'
  <2>1. Sent' = Sent
    BY <1>5, CallGoes DEF Answer, Stage, Sent
  <2> QED
    BY <1>4, <1>5, <2>1 DEF Answer, Stage
<1>6. ASSUME NEW i \in CallId, NEW j \in CallId, Miss(i, j) PROVE InTurn'
  <2>1. i # j /\ call[i] = "send" /\ call[j] = "receive" /\ UNCHANGED muxing
    BY <1>6 DEF Miss
  <2>2. i < j \/ j < i
    BY <2>1 DEF CallId, MuxAssumption
  <2>3. muxing.lim # 1
    BY <2>1, <2>2, Earlier
  <2> QED
    BY <2>1, <2>3 DEF InTurn
<1>7. ASSUME NEW i \in CallId, Serve(i) PROVE InTurn'
  <2>1. Sent' = Sent
    BY <1>7, CallGoes DEF Serve, Stage, Sent
  <2> QED
    BY <1>4, <1>7, <2>1 DEF Serve, Stage
<1>8. ASSUME NEW i \in CallId, MuxRelease(i) PROVE InTurn'
  <2>1. Sent' = Sent
    BY <1>8, CallGoes DEF MuxRelease, Stage, Sent
  <2> QED
    BY <1>4, <1>8, <2>1 DEF MuxRelease, Stage
<1>10. ASSUME NEW i \in CallId, NilClose(i) PROVE InTurn'
  BY <1>10, StillInTurn DEF NilClose, Sent, At
<1>9. CASE UNCHANGED muxVars
  BY <1>9, StillInTurn DEF muxVars, Sent, At
<1> QED
  BY <1>1, <1>2, <1>3, <1>5, <1>6, <1>7, <1>8, <1>9, <1>10 DEF MuxNext, ListenMux, DialMux, MuxMain,
     Pimper, Ends

\* The call that waits is the last one whose connection was collected.
LEMMA WaitsLast ==
  ASSUME MuxAssumption, MuxTypeOK, Placed, InTurn, muxing.lim = 1,
         NEW i \in CallId, call[i] = "receive"
  PROVE  i = Len(pimped)
<1> DEFINE n == Len(pimped)
<1>1. n \in Nat /\ i \in Nat /\ 1 <= i /\ Calls \in Nat
  BY LenProperties DEF MuxTypeOK, CallId, MuxAssumption
<1>2. \A k \in CallId : k \in Sent <=> k <= n
  BY DEF InTurn
<1>3. i <= n
  BY <1>2 DEF Sent, At
<1>4. n <= Calls
  <2>1. Cardinality(CallId) = Calls /\ IsFiniteSet(CallId)
    <3>1. 1 \in Int /\ Calls \in Int
      BY <1>1
    <3>2. IsFiniteSet(1..Calls) /\ Cardinality(1..Calls) = (IF 1 > Calls THEN 0 ELSE Calls - 1 + 1)
      BY <3>1, FS_Interval, Zenon
    <3> QED
      BY <1>1, <3>2 DEF CallId
  <2>2. Sent \subseteq CallId /\ unmuxed \subseteq CallId
    BY DEF Sent, At, MuxTypeOK
  <2>3. /\ Cardinality(Sent) \in Nat /\ Cardinality(unmuxed) \in Nat /\ Cardinality(Sent) <= Calls
    BY <2>1, <2>2, FS_Subset, FS_CardinalityType
  <2> QED
    BY <1>1, <2>3 DEF Placed
<1>5. ~(i + 1 <= n)
  <2> SUFFICES ASSUME i + 1 <= n PROVE FALSE
    OBVIOUS
  <2>1. i + 1 \in CallId /\ i < i + 1
    BY <1>1, <1>4 DEF CallId
  <2>2. call[i + 1] # "none"
    BY <1>2, <2>1 DEF Sent, At
  <2> QED
    BY <2>1, <2>2, Earlier
<1> QED
  BY <1>1, <1>3, <1>5

\* Every step keeps OneByOne.
LEMMA OneByOneStep ==
  ASSUME MuxAssumption, MuxTypeOK, Placed, InTurn, OneByOne, [MuxNext]_muxVars
  PROVE  OneByOne'
<1> DEFINE Served == At({"serve", "release", "over"})
<1>1. ASSUME UNCHANGED <<muxing, unmuxed, lol>>, Served' = Served PROVE OneByOne'
  BY <1>1 DEF OneByOne, Cfd
<1>2. CASE MuxAcquire
  BY <1>1, <1>2 DEF MuxAcquire, At
<1>3. ASSUME NEW i \in CallId, Go(i) PROVE OneByOne'
  <2>0. PICK s \in {"nil", "send"} : CallTo(i, s)
    BY <1>3 DEF Go
  <2>1. Served' = Served
    BY <1>3, <2>0, CallGoes DEF Go, Stage
  <2> QED
    BY <1>1, <1>3, <2>1 DEF Go
<1>4. ASSUME NEW i \in CallId, Collect(i) PROVE OneByOne'
  <2>1. Served' = Served
    BY <1>4, CallGoes DEF Collect, Stage
  <2> QED
    BY <1>1, <1>4, <2>1 DEF Collect
<1>5. ASSUME NEW i \in CallId, Answer(i) PROVE OneByOne'
  <2>1. /\ call[i] = "receive" /\ CallTo(i, "serve") /\ lol' = [lol EXCEPT ![i] = pimped]
        /\ UNCHANGED <<muxing, unmuxed>>
    BY <1>5 DEF Answer, GiveAll
  <2> SUFFICES ASSUME muxing.lim = 1 PROVE OneByOne'
    BY <2>1 DEF OneByOne
  <2>2. Served' = Served \cup {i} /\ i \notin Served
    BY <2>1, CallGoes DEF Stage
  <2>3. \A k \in CallId : lol'[k] = IF k = i THEN pimped ELSE lol[k]
    BY <2>1 DEF MuxTypeOK
  <2>4. pimped = [k \in 1..i |-> Cfd(k)]
    BY <2>1, WaitsLast DEF InTurn
  <2>5. ASSUME NEW h \in Served' PROVE lol'[h] = [k \in 1..h |-> Cfd(k)]
    <3>1. h \in CallId
      BY DEF At
    <3>2. CASE h = i
      BY <2>3, <2>4, <3>1, <3>2
    <3>3. CASE h # i
      BY <2>2, <2>3, <3>1, <3>3 DEF OneByOne
    <3> QED
      BY <3>2, <3>3
  <2>6. \A h \in Served' : lol'[h] = [k \in 1..h |-> Cfd(k)']
    BY <2>1, <2>5 DEF Cfd
  <2> QED
    BY <2>1, <2>6 DEF OneByOne
<1>6. ASSUME NEW i \in CallId, NEW j \in CallId, Miss(i, j) PROVE OneByOne'
  <2>1. i # j /\ call[i] = "send" /\ call[j] = "receive" /\ UNCHANGED muxing
    BY <1>6 DEF Miss
  <2>2. i < j \/ j < i
    BY <2>1 DEF CallId, MuxAssumption
  <2>3. muxing.lim # 1
    BY <2>1, <2>2, Earlier
  <2> QED
    BY <2>1, <2>3 DEF OneByOne
<1>7. ASSUME NEW i \in CallId, Serve(i) PROVE OneByOne'
  <2>1. Served' = Served
    BY <1>7, CallGoes DEF Serve, Stage
  <2> QED
    BY <1>1, <1>7, <2>1 DEF Serve
<1>8. ASSUME NEW i \in CallId, MuxRelease(i) PROVE OneByOne'
  <2>1. Served' = Served
    BY <1>8, CallGoes DEF MuxRelease, Stage
  <2> QED
    BY <1>1, <1>8, <2>1 DEF MuxRelease
<1>10. ASSUME NEW i \in CallId, NilClose(i) PROVE OneByOne'
  BY <1>1, <1>10 DEF NilClose, At
<1>9. CASE UNCHANGED muxVars
  BY <1>1, <1>9 DEF muxVars, At
<1> QED
  BY <1>2, <1>3, <1>4, <1>5, <1>6, <1>7, <1>8, <1>9, <1>10 DEF MuxNext, ListenMux, DialMux, MuxMain,
     Pimper, Ends

----------------------------------------------------------------------------

\* The mux starts with nothing collected.
LEMMA MuxInitRight ==
  ASSUME MuxAssumption, MuxInit
  PROVE  MuxRight
<1>1. MuxTypeOK
  BY EmptySeq DEF MuxInit, MuxTypeOK, Stage, MuxAssumption
<1>2. /\ At({"receive"}) = {} /\ Sent = {} /\ InProgress = {} /\ At({"serve", "release", "over"}) = {}
      /\ mux = "receive" /\ muxpc = "sem" /\ slots = 0 /\ unmuxed = {} /\ pimped = <<>> /\ Len(pimped) = 0
      /\ \A i \in CallId : call[i] = "none" /\ lol[i] = <<>>
  BY EmptySeq DEF MuxInit, Sent, InProgress, At
<1>3. Cardinality({}) = 0
  BY FS_EmptySet
<1>4. OneWaits
  BY <1>2, <1>3 DEF OneWaits
<1>7. Slotted
  BY <1>2, <1>3 DEF Slotted
<1>8. OneByOne
  BY <1>2 DEF OneByOne
<1>5. Placed
  BY <1>2, <1>3 DEF Placed, ToSet
<1>6. InTurn
  <2>1. \A i \in CallId : ~(i <= 0)
    BY DEF CallId, MuxAssumption
  <2>2. pimped = [k \in 1..0 |-> Cfd(k)]
    BY <1>2
  <2> QED
    BY <1>2, <2>1, <2>2 DEF InTurn
<1> QED
  BY <1>1, <1>4, <1>5, <1>6, <1>7, <1>8 DEF MuxRight

\* Nobody is left waiting on pimper, every connection is collected or received by
\* another call and never both or twice, and with one call at a time every call is
\* given all the connections: the mux, for any number of calls and any -a.
THEOREM MuxInvariance == ASSUME MuxAssumption PROVE MuxSpec => []MuxRight
<1>1. MuxInit => MuxRight
  BY MuxInitRight
<1>2. MuxRight /\ [MuxNext]_muxVars => MuxRight'
  BY TypeStep, WaitsStep, PlacedStep, TurnStep, OneByOneStep DEF MuxRight
<1> QED
  BY <1>1, <1>2, PTL DEF MuxSpec
=============================================================================
