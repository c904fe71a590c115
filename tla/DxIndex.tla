------------------------------- MODULE DxIndex -------------------------------
(* dx reading git's index: the decoder that remembers its first error and the  *)
(* entries of the three versions. A byte is a cell: one of a header, of a flag, *)
(* of a varint or of the padding, or a letter of a path. What git writes is    *)
(* external. The variable-length numbers of an index, a part of their own, are *)
(* functions: how a number is written and read again.                          *)
EXTENDS Integers, SequencesExt

CONSTANTS Paths,    \* lists of paths, sequences of letters, to be in an index
          Versions,
          HdrSize,  \* of an EntHdr: 62 bytes
          Numbers,  \* uint64 values
          Base,     \* 128
          Width,    \* 2^64
          MaxVLen64 \* 10

VarintAssumption ==
    /\ Base \in Nat \ {0, 1} /\ Width \in Nat /\ MaxVLen64 \in Nat
    /\ Numbers \subseteq 0..(Width - 1)

VARIABLES index,    \* [ver, paths, ext]
          data,     \* the cells of the file, as far as they were written
          pos,      \* r.n
          start,    \* r.n where the entry starts
          field,    \* what is decoded next; "done", "failed" or "spins"
          ent       \* the paths decoded
vars == <<index, data, pos, start, field, ent>>

-----------------------------------------------------------------------------
(* What git writes: version 2 and 3 pad an entry with one to eight NULs to a   *)
(* multiple of eight, version 4 says how much of the path before to cut off;   *)
(* the second flag is there when the first says so, never in version 2.        *)
NUL == "0"
Cells(c, k) == [i \in 1..k |-> c]

Written(x, i) ==
    LET p == x.paths[i]
        body == Cells("h", HdrSize) \o (IF x.ext /\ x.ver > 2 THEN Cells("f", 2) ELSE <<>>)
        kept == IF i = 1 THEN 0 ELSE Len(LongestCommonPrefix({x.paths[i - 1], p}))
    IN  IF x.ver = 4 THEN body \o <<"v">> \o SubSeq(p, kept + 1, Len(p)) \o <<NUL>>
        ELSE body \o p \o Cells(NUL, 8 - ((Len(body) + Len(p)) % 8))

File(x) == <<"dir">> \o FlattenSeq([i \in DOMAIN x.paths |-> Written(x, i)])

Init ==
    /\ index \in [ver : Versions, paths : Paths, ext : BOOLEAN]
    /\ \E k \in 0..Len(File(index)) : data = SubSeq(File(index), 1, k)
    /\ pos = 0 /\ start = 0 /\ ent = <<>> /\ field = "dir"

-----------------------------------------------------------------------------
(* Decode of a value of k bytes: an error is remembered, and the function ends *)
(* with it at the next field.                                                  *)
Decode(k, next) ==
    /\ IF pos + k <= Len(data) THEN pos' = pos + k /\ field' = next
       ELSE pos' = Len(data) /\ field' = "failed"
    /\ UNCHANGED <<index, data, ent>>

After(n) == IF n = Len(index.paths) THEN "done" ELSE "entry"

Header == field = "dir" /\ Decode(1, After(0)) /\ UNCHANGED start

\* v2 has no second flag; v3 and v4 take it to be always there.
EntHeader ==
    /\ field = "entry"
    /\ start' = pos
    /\ Decode(HdrSize, IF index.ver = 2 THEN "path" ELSE "flagv3")

FlagV3 == field = "flagv3" /\ Decode(2, IF index.ver = 4 THEN "chop" ELSE "path") /\ UNCHANGED start

\* Whatever Chop says, nothing is put before the path: pre stays empty.
Chop == field = "chop" /\ Decode(1, "path") /\ UNCHANGED start

\* Cstr: up to the next NUL.
Path ==
    /\ field = "path" /\ UNCHANGED <<index, data, start>>
    /\ LET nuls == {k \in (pos + 1)..Len(data) : data[k] = NUL}
       IN  \/ /\ nuls = {} /\ field' = "failed" /\ pos' = Len(data) /\ UNCHANGED ent
           \/ \E k \in nuls :
                /\ \A j \in nuls : k <= j
                /\ pos' = k /\ ent' = Append(ent, SubSeq(data, pos + 1, k - 1))
                /\ field' = IF index.ver = 2 THEN "pad" ELSE After(Len(ent'))

Unaligned == (pos - start) % 8 # 0

\* v2 reads on to a multiple of eight from the start of the entry.
Padding ==
    /\ field = "pad" /\ UNCHANGED <<index, data, start, ent>>
    /\ \/ ~Unaligned /\ field' = After(Len(ent)) /\ UNCHANGED pos
       \/ Unaligned /\ pos < Len(data) /\ pos' = pos + 1 /\ UNCHANGED field

\* At the end of the file Read returns neither a byte nor, from then on, an error:
\* the loop never ends.
PaddingSpins ==
    /\ field = "pad" /\ Unaligned /\ pos = Len(data)
    /\ field' = "spins"
    /\ UNCHANGED <<index, data, pos, start, ent>>

Next == Header \/ EntHeader \/ FlagV3 \/ Chop \/ Path \/ Padding \/ PaddingSpins
Spec == Init /\ [][Next]_vars

-----------------------------------------------------------------------------
(* Varint: seven bits to a byte, the lowest first; the eighth says that more   *)
(* follow.                                                                     *)
WriteBinary(v) ==
    LET write[rest \in 0..v] ==
            LET byte == [low |-> rest % Base, more |-> rest \div Base > 0]
            IN  IF byte.more THEN <<byte>> \o write[rest \div Base] ELSE <<byte>>
    IN  write[v]

\* One turn of the loop.  At the end of the input b is what it was, zero for the first
\* byte: the number is over when that byte is its last, and cut short when it is not.
ReadByte(l, bytes) ==
    LET there == l.read < Len(bytes)
        byte == IF there THEN bytes[l.read + 1]
                ELSE IF l.read = 0 THEN [low |-> 0, more |-> FALSE] ELSE bytes[l.read]
    IN  [read |-> IF there THEN l.read + 1 ELSE l.read,
         sum |-> (l.sum + byte.low * l.m) % Width,
         m |-> (l.m * Base) % Width,
         state |-> IF ~byte.more THEN "done" ELSE IF there THEN "read" ELSE "eof"]

ReadBinary(bytes) ==
    LET loop[n \in 0..MaxVLen64] ==
            IF n = 0 THEN [read |-> 0, sum |-> 0, m |-> 1, state |-> "read"]
            ELSE IF loop[n - 1].state = "read" THEN ReadByte(loop[n - 1], bytes) ELSE loop[n - 1]
        last == loop[MaxVLen64]
    IN  IF last.state = "read" THEN [last EXCEPT !.state = "overflow"] ELSE last
-----------------------------------------------------------------------------
\* Every number is read back, also the ones of ten bytes whose last product leaves
\* 64 bits, no byte too few passes for a number unless none is there, and what
\* another program wrote without an end is refused (dx.go:658-700).
VarintBack ==
    /\ \A v \in Numbers : LET bytes == WriteBinary(v) IN \A given \in 0..Len(bytes) :
          LET l == ReadBinary(SubSeq(bytes, 1, given))
          IN  \/ l.state = "done" /\ given = Len(bytes) /\ l.sum = v /\ l.read = given
              \/ l.state = "done" /\ given = 0 /\ l.sum = 0
              \/ l.state = "eof" /\ given < Len(bytes)
    /\ ReadBinary([i \in 1..(MaxVLen64 + 1) |-> [low |-> 1, more |-> TRUE]]).state = "overflow"

Whole == data = File(index)
\* Where the entries of the file end.
Ends == {1 + Len(FlattenSeq([i \in 1..n |-> Written(index, i)])) : n \in DOMAIN index.paths}

\* An index of version 2 is read back as git wrote it, and one that is cut short
\* never passes for a whole one: dx fails, or, when the cut is in the padding, reads
\* for ever.  With the second flag git writes, one of version 4 is read to its end and no
\* further, each path at least from where it leaves the one before, and the first path of
\* one of version 3 is right (dx.go:573-622, 628-648).
IndexRead ==
    /\ index.ver = 2 =>
        /\ field = "done" => Whole /\ ent = index.paths
        /\ field = "failed" => ~Whole
        /\ field = "spins" => ~Whole /\ Len(data) \notin Ends /\ data[Len(data)] = NUL
        /\ field = "entry" => ent = SubSeq(index.paths, 1, Len(ent))
    /\ index.ver = 4 /\ index.ext =>
        /\ field = "done" => Whole /\ Len(ent) = Len(index.paths)
        /\ field = "failed" => ~Whole
        /\ \A i \in DOMAIN ent : IsSuffix(ent[i], index.paths[i])
    /\ index.ver = 3 /\ index.ext /\ ent # <<>> => ent[1] = index.paths[1]

\* "support [2, 4]" (dx.go:567): an index of those versions is read back.
VersionsSupported == field \in {"done", "failed"} /\ Whole => field = "done" /\ ent = index.paths
=============================================================================
