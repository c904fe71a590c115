-------------------------------- MODULE Copy ---------------------------------
(* cp: a goroutine per line copies a file below the directory given, as many   *)
(* at a time as there are tickets. Every file it opens has an offset of its    *)
(* own; creating a file that is there empties it.                              *)
EXTENDS Integers, FiniteSets, SequencesExt

CONSTANTS CopyJobs,    \* lists of lines [kind, src, dst], dst what clean makes of the directory
                       \* and the source or its last name
          Paths, Uncreatable,  \* those of the files; those that mkdir and Create cannot make
          CopyBefore,  \* the files before: path to content; a path without one is not there
          Tickets,     \* 1024
          Byte, Gap    \* what files are made of; the byte of a gap

CopyLine == [kind : {"empty", "absolute", "file"}, src : Paths \cup {""}, dst : Paths \cup {""}]
ASSUME CopyAssumption ==
    /\ \A q \in CopyJobs : q \in Seq(CopyLine)
    /\ \A b \in CopyBefore : \A p \in DOMAIN b : b[p] \in Seq(Byte)
    /\ Tickets \in Nat /\ Gap \in Byte

VARIABLES jobs, fs, before,
          scanned,   \* lines read
          tickets,
          docp,      \* of the goroutine of a line: "none", "open", "create", "copy", "done", "release", "over"
          off,       \* its offset in both files
          copymain   \* "scan", "ticket", "wait" or "exit"
copyVars == <<jobs, fs, before, scanned, tickets, docp, off, copymain>>
copyGiven == <<jobs, before>>

CopyInit ==
    /\ jobs \in CopyJobs /\ before \in CopyBefore /\ fs = before
    /\ scanned = 0 /\ tickets = 0 /\ copymain = "scan"
    /\ docp = [i \in DOMAIN jobs |-> "none"] /\ off = [i \in DOMAIN jobs |-> 0]
-----------------------------------------------------------------------------
CopyStep(i, s) == docp' = [docp EXCEPT ![i] = s]
CopyRunning == copymain # "exit"

\* An empty line and an absolute path are passed over.
PassOver ==
    /\ copymain = "scan" /\ scanned < Len(jobs) /\ jobs[scanned + 1].kind # "file"
    /\ scanned' = scanned + 1
    /\ UNCHANGED <<copyGiven, fs, tickets, docp, off, copymain>>
\* wg.Add(1); the line is counted before there is a ticket for it.
ScanLine ==
    /\ copymain = "scan" /\ scanned < Len(jobs) /\ jobs[scanned + 1].kind = "file"
    /\ scanned' = scanned + 1 /\ copymain' = "ticket"
    /\ UNCHANGED <<copyGiven, fs, tickets, docp, off>>
StartCopy ==
    /\ copymain = "ticket" /\ tickets < Tickets
    /\ tickets' = tickets + 1 /\ CopyStep(scanned, "open") /\ copymain' = "scan"
    /\ UNCHANGED <<copyGiven, fs, scanned, off>>
AllRead ==
    /\ copymain = "scan" /\ scanned = Len(jobs)
    /\ copymain' = "wait"
    /\ UNCHANGED <<copyGiven, fs, scanned, tickets, docp, off>>
NotCounted == TRUE                    \* mutant: main waits for nobody
Counted == \A i \in 1..scanned : docp[i] \in {"none", "release", "over"}
WaitForAll ==
    /\ copymain = "wait" /\ Counted
    /\ copymain' = "exit"
    /\ UNCHANGED <<copyGiven, fs, scanned, tickets, docp, off>>
-----------------------------------------------------------------------------
(* docp; the deferred calls close both files, count the line off and give the  *)
(* ticket back, in this order.                                                 *)
OpenSource(i) ==
    /\ CopyRunning /\ docp[i] = "open"
    /\ CopyStep(i, IF jobs[i].src \in DOMAIN fs THEN "create" ELSE "done")
    /\ UNCHANGED <<copyGiven, fs, scanned, tickets, off, copymain>>
CreateCopy(i) ==
    /\ CopyRunning /\ docp[i] = "create"
    /\ IF jobs[i].dst \in Uncreatable THEN CopyStep(i, "done") /\ UNCHANGED fs
       ELSE /\ CopyStep(i, "copy")
            /\ fs' = [p \in DOMAIN fs \cup {jobs[i].dst} |-> IF p = jobs[i].dst THEN <<>> ELSE fs[p]]
    /\ UNCHANGED <<copyGiven, scanned, tickets, off, copymain>>

\* A read, of what the source has by then, and the write of it; what comes between the
\* two makes no difference but to a source that is written.
Placed(s, at, b) == [n \in 1..(IF at < Len(s) THEN Len(s) ELSE at + 1) |->
                        IF n = at + 1 THEN b ELSE IF n <= Len(s) THEN s[n] ELSE Gap]
CopySome(i) ==
    /\ CopyRunning /\ docp[i] = "copy" /\ off[i] < Len(fs[jobs[i].src])
    /\ fs' = [fs EXCEPT ![jobs[i].dst] = Placed(@, off[i], fs[jobs[i].src][off[i] + 1])]
    /\ off' = [off EXCEPT ![i] = @ + 1]
    /\ UNCHANGED <<copyGiven, scanned, tickets, docp, copymain>>
SourceEnds(i) ==
    /\ CopyRunning /\ docp[i] = "copy" /\ off[i] >= Len(fs[jobs[i].src])
    /\ CopyStep(i, "done")
    /\ UNCHANGED <<copyGiven, fs, scanned, tickets, off, copymain>>
Closed(i) ==
    /\ CopyRunning /\ docp[i] = "done"
    /\ CopyStep(i, "release")
    /\ UNCHANGED <<copyGiven, fs, scanned, tickets, off, copymain>>
NotGivenBack == tickets                       \* mutant: the ticket is not given back
GivenBack == tickets - 1
ReleaseTicket(i) ==
    /\ CopyRunning /\ docp[i] = "release" /\ tickets > 0
    /\ tickets' = GivenBack /\ CopyStep(i, "over")
    /\ UNCHANGED <<copyGiven, fs, scanned, off, copymain>>

Goroutine(i) == OpenSource(i) \/ CreateCopy(i) \/ CopySome(i) \/ SourceEnds(i) \/ Closed(i) \/ ReleaseTicket(i)
CopyNext == PassOver \/ ScanLine \/ StartCopy \/ AllRead \/ WaitForAll \/ \E i \in DOMAIN jobs : Goroutine(i)
CopySpec == CopyInit /\ [][CopyNext]_copyVars
-----------------------------------------------------------------------------
CopyEnded == copymain = "exit"

CopyLines == {i \in DOMAIN jobs : jobs[i].kind = "file"}
Targets == {jobs[i].dst : i \in CopyLines}
ContentOf(f, p) == IF p \in DOMAIN f THEN f[p] ELSE <<>>
Alone(i) == \A j \in CopyLines : jobs[j].dst = jobs[i].dst => j = i
Copied(i) == jobs[i].src \in DOMAIN before /\ jobs[i].dst \notin Uncreatable

\* When cp is over, a file that one line alone writes is the copy of its source, if no
\* line writes that; several lines that write one file leave in every place a byte that
\* one of them read there, or a gap; a file that is copied onto itself is empty; all
\* others are as they were; and nothing is open (cp.go:56-112).
CopyRight ==
    /\ CopyEnded =>
        /\ \A i \in CopyLines :
            LET s == jobs[i].src  d == jobs[i].dst
            IN  /\ Alone(i) /\ Copied(i) /\ s \notin Targets => fs[d] = before[s]
                /\ Copied(i) /\ s = d /\ Alone(i) => fs[d] = <<>>
                /\ (\A j \in CopyLines : jobs[j].dst = d => jobs[j].src \notin Targets) => \A n \in DOMAIN ContentOf(fs, d) :
                     \/ ~(\E j \in CopyLines : jobs[j].dst = d /\ Copied(j)) /\ fs[d] = ContentOf(before, d)
                     \/ fs[d][n] = Gap
                     \/ \E j \in CopyLines : jobs[j].dst = d /\ n <= Len(ContentOf(before, jobs[j].src))
                                         /\ fs[d][n] = before[jobs[j].src][n]
        /\ \A p \in Paths \ Targets : ContentOf(fs, p) = ContentOf(before, p) /\ (p \in DOMAIN fs <=> p \in DOMAIN before)
        /\ \A i \in DOMAIN jobs : docp[i] \in {"none", "release", "over"}
    /\ tickets = Cardinality({i \in DOMAIN jobs : docp[i] \notin {"none", "over"}}) /\ tickets <= Tickets

=============================================================================
