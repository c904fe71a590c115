--------------------------------- MODULE Seq ---------------------------------
(* seq: the numbers from i to j by k, with an int that wraps round.            *)
EXTENDS Integers, Sequences

CONSTANTS MaxInt,   \* the greatest int
          SeqArgs,  \* lists of arguments: numbers, or NoNumber for what Atoi refuses
          NoNumber

SeqInt == -MaxInt - 1 .. MaxInt
ASSUME SeqAssumption == MaxInt \in Nat \ {0} /\ SeqArgs \subseteq Seq(SeqInt \cup {NoNumber})

VARIABLES args,
          here, last, by,  \* i, j and k
          printed,
          seqphase         \* "args", "loop", "exit", "usage" or "fatal"
seqVars == <<args, here, last, by, printed, seqphase>>

Wrap(n) == IF n > MaxInt THEN n - 2 * (MaxInt + 1) ELSE IF n < -MaxInt - 1 THEN n + 2 * (MaxInt + 1) ELSE n

SeqInit == args \in SeqArgs /\ here = 0 /\ last = 0 /\ by = 1 /\ printed = <<>> /\ seqphase = "args"

Begin == IF Len(args) > 1 THEN args[1] ELSE 0
SeqParse ==
    /\ seqphase = "args" /\ Len(args) > 0 /\ \A n \in 1..Len(args) : n < 4 => args[n] # NoNumber
    /\ here' = Begin
    /\ last' = IF Len(args) > 1 THEN args[2] ELSE args[1]
    /\ by' = IF Len(args) > 2 THEN args[3] ELSE 1
    /\ seqphase' = "loop" /\ UNCHANGED <<args, printed>>

Refuse ==
    /\ seqphase = "args"
    /\ Len(args) > 0 => \E n \in 1..Len(args) : n < 4 /\ args[n] = NoNumber
    /\ seqphase' = IF args = <<>> THEN "usage" ELSE "fatal"
    /\ UNCHANGED <<args, here, last, by, printed>>

\* MaxOut bounds what is kept of an endless output.
MaxOut == 2 * MaxInt + 3
PrintNumber ==
    /\ seqphase = "loop" /\ here <= last
    /\ printed' = IF Len(printed) < MaxOut THEN Append(printed, here) ELSE printed
    /\ here' = Wrap(here + by)
    /\ UNCHANGED <<args, last, by, seqphase>>

SeqExit ==
    /\ seqphase = "loop" /\ here > last
    /\ seqphase' = "exit" /\ UNCHANGED <<args, here, last, by, printed>>

SeqNext == SeqParse \/ Refuse \/ PrintNumber \/ SeqExit
SeqSpec == SeqInit /\ [][SeqNext]_seqVars
-----------------------------------------------------------------------------
\* The sequence is {i, i+k, ..., j} whenever the number after its last one is an
\* int; when it is not, or k is not positive, the numbers wrap round or stay and seq
\* goes on: it never ends but for an empty sequence or after an overflow that leaps
\* past j (seq.go:53-57).
SeqRight ==
    seqphase = "exit" =>
        /\ by > 0 /\ last + by <= MaxInt =>
             printed = [n \in 1..(IF Begin > last THEN 0 ELSE (last - Begin) \div by + 1) |-> Begin + (n - 1) * by]
        /\ by = 0 => Begin > last
        /\ by > 0 => \A n \in DOMAIN printed : n > 1 => printed[n] = Wrap(printed[n - 1] + by)
=============================================================================
