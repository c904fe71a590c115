--------------------------------- MODULE Dd ----------------------------------
(* dd: whole blocks read from where -iseek says and written where -oseek says. *)
(* A read returns as many bytes as it likes; ReadAtLeast reads on.             *)
EXTENDS Integers, SequencesExt

CONSTANTS DdFlags,    \* [bs, ibs, obs, seek, iseek, oseek, count], 0 for what is not given,
                      \* and named, which of -if and -of are
          DdInputs,   \* sequences of bytes
          DdOutputs,  \* what the output file holds before
          Octet, Hole \* what the files are made of; the byte of a gap

ASSUME DdAssumption ==
    /\ DdFlags \subseteq [bs : Nat, ibs : Nat, obs : Nat, seek : Nat, iseek : Nat, oseek : Nat,
                         count : Nat, named : SUBSET {"if", "of"}]
    /\ DdInputs \cup DdOutputs \subseteq Seq(Octet) /\ Hole \in Octet

VARIABLES opts, in, out,
          was,         \* the output file as it was
          ipos, opos,  \* of the descriptors
          ib,          \* the bytes of the block in hand
          nb,          \* blocks done
          ddphase      \* "open", "read", "write" or "exit"
ddVars == <<opts, in, out, was, ipos, opos, ib, nb, ddphase>>
ddGiven == <<opts, in, was>>

ibs == IF opts.bs > 0 THEN opts.bs ELSE opts.ibs
obs == IF opts.bs > 0 THEN opts.bs ELSE opts.obs
iseek == IF opts.seek > 0 THEN opts.seek ELSE opts.iseek
oseek == IF opts.seek > 0 THEN opts.seek ELSE opts.oseek
\* Standard input and standard output stay where they are.
ifrom == IF "if" \in opts.named THEN iseek ELSE 0
ofrom == IF "of" \in opts.named THEN oseek ELSE 0

DdInit ==
    /\ opts \in DdFlags /\ in \in DdInputs /\ out \in DdOutputs /\ was = out
    /\ ipos = 0 /\ opos = 0 /\ ib = <<>> /\ nb = 0 /\ ddphase = "open"

\* The seeks are to bytes.
DdSeek ==
    /\ ddphase = "open"
    /\ ipos' = ifrom /\ opos' = ofrom /\ ddphase' = "read"
    /\ UNCHANGED <<ddGiven, out, ib, nb>>

DdRead ==
    /\ ddphase = "read" /\ nb < opts.count /\ Len(ib) < ibs /\ ipos < Len(in)
    /\ \E n \in 1..(ibs - Len(ib)) :
        /\ ipos + n <= Len(in)
        /\ ib' = ib \o SubSeq(in, ipos + 1, ipos + n) /\ ipos' = ipos + n
    /\ UNCHANGED <<ddGiven, out, opos, nb, ddphase>>

AnyRead == ib # <<>> \/ ipos >= Len(in)   \* mutant: whatever a read gives is a block
WholeRead == Len(ib) = ibs \/ ipos >= Len(in)

BlockRead ==
    /\ ddphase = "read" /\ nb < opts.count /\ WholeRead
    /\ ddphase' = "write"
    /\ UNCHANGED <<ddGiven, out, ipos, opos, ib, nb>>

\* A write past the end of the file leaves a gap.
ByteAt(n) == IF opos < n /\ n <= opos + Len(ib) THEN ib[n - opos] ELSE IF n <= Len(out) THEN out[n] ELSE Hole
DdWrite ==
    /\ ddphase = "write"
    /\ out' = IF ib = <<>> THEN out
              ELSE [n \in 1..(IF opos + Len(ib) > Len(out) THEN opos + Len(ib) ELSE Len(out)) |-> ByteAt(n)]
    /\ opos' = opos + Len(ib) /\ ib' = <<>> /\ nb' = nb + 1
    /\ ddphase' = IF Len(ib) < ibs THEN "exit" ELSE "read"
    /\ UNCHANGED <<ddGiven, ipos>>

CountReached ==
    /\ ddphase = "read" /\ nb = opts.count
    /\ ddphase' = "exit"
    /\ UNCHANGED <<ddGiven, out, ipos, opos, ib, nb>>

DdNext == DdSeek \/ DdRead \/ BlockRead \/ DdWrite \/ CountReached
DdSpec == DdInit /\ [][DdNext]_ddVars
-----------------------------------------------------------------------------
DdLength(from) == LET left == Len(in) - from  most == opts.count * ibs
                  IN  IF left < 0 THEN 0 ELSE IF left < most THEN left ELSE most

\* The input from one place on, up to count blocks of it, is in the output from another
\* place on, and nothing else of the output has changed.
CopiedFrom(i, o) ==
    LET n == DdLength(i)
    IN  /\ Len(out) = IF n > 0 /\ o + n > Len(was) THEN o + n ELSE Len(was)
        /\ SubSeq(out, o + 1, o + n) = SubSeq(in, i + 1, i + n)
        /\ \A k \in DOMAIN was : k <= o \/ k > o + n => out[k] = was[k]

\* However the reads are cut, dd that is over has copied what it was told to, from the
\* places sought to: "seek forth N blocks" (dd.go:144-146), or N bytes, and that only in
\* files that are named, which is what the code does (dd.go:83-125).
DdRight ==
    ddphase = "exit" => \E i \in {ifrom, iseek * ibs}, o \in {ofrom, oseek * obs} : CopiedFrom(i, o)

\* "-seek n   seek forth N blocks" (dd.go:144).
SeeksBlocks == ddphase = "read" /\ nb = 0 /\ ib = <<>> => ipos = opts.seek * ibs
=============================================================================
