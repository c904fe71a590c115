--------------------------------- MODULE Pv ---------------------------------
(* pv: a goroutine copies standard input to standard output and sends the size *)
(* of every read over nchan; main adds the sizes up, reports what was added    *)
(* at every tick of a timer, and once more when the goroutine is done.         *)
EXTENDS Integers, SequencesExt

CONSTANTS
    PvInputs,   \* [reads: the sizes of the reads, full: the output fails at the last of them]
    NChanCap    \* the room in nchan, 1

ASSUME PvAssumption ==
    /\ PvInputs \subseteq [reads : Seq(Nat), full : BOOLEAN]
    /\ NChanCap \in Nat /\ NChanCap <= 1

VARIABLES
    input, rpc, made,   \* the copying goroutine, and how many reads it has made
    nchan,
    total, sec,         \* all that was added, and since the last report
    reported,           \* the sum of the reports
    pvmain

pvVars == <<input, rpc, made, nchan, total, sec, reported, pvmain>>
pvReports == <<total, sec, reported, pvmain>>

PvTypeOK ==
    /\ input \in PvInputs /\ rpc \in {"read", "send", "done", "stop"} /\ made \in 0..Len(input.reads) + 1
    /\ nchan \in Seq(Nat) /\ Len(nchan) <= NChanCap
    /\ {total, sec, reported} \subseteq Nat /\ pvmain \in {"loop", "exit"}

PvInit ==
    /\ input \in PvInputs /\ rpc = "read" /\ made = 0 /\ nchan = <<>>
    /\ total = 0 /\ sec = 0 /\ reported = 0 /\ pvmain = "loop"

PvRunning == pvmain = "loop"

\* The last read made gives bytes, which the TeeReader writes on at once, until the end,
\* which gives none.
Bytes == IF made \in DOMAIN input.reads THEN input.reads[made] ELSE 0
Failed == made > Len(input.reads) \/ (input.full /\ made = Len(input.reads))

PvRead ==
    /\ PvRunning /\ rpc = "read"
    /\ made' = made + 1 /\ rpc' = "send"
    /\ UNCHANGED <<input, nchan, pvReports>>

SendSize ==
    /\ PvRunning /\ rpc = "send" /\ Len(nchan) < NChanCap
    /\ nchan' = Append(nchan, Bytes)
    /\ rpc' = IF Failed THEN "done" ELSE "read"
    /\ UNCHANGED <<input, made, pvReports>>

PvTick ==
    /\ PvRunning
    /\ reported' = reported + sec /\ sec' = 0
    /\ UNCHANGED <<input, rpc, made, nchan, total, pvmain>>

Add ==
    /\ PvRunning /\ nchan # <<>>
    /\ total' = total + Head(nchan) /\ sec' = sec + Head(nchan) /\ nchan' = Tail(nchan)
    /\ UNCHANGED <<input, rpc, made, reported, pvmain>>

NoReport == reported                  \* mutant: what came since the last tick is not reported
LastReport == reported + sec

\* The rendezvous on done, the last report and os.Exit; select may prefer it to nchan.
PvDone ==
    /\ PvRunning /\ rpc = "done"
    /\ reported' = LastReport
    /\ rpc' = "stop" /\ pvmain' = "exit"
    /\ UNCHANGED <<input, made, nchan, total, sec>>

PvNext == PvRead \/ SendSize \/ PvTick \/ Add \/ PvDone
PvSpec == PvInit /\ [][PvNext]_pvVars
-----------------------------------------------------------------------------
\* All that the reads gave.
Through ==
    LET sum[n \in 0..Len(input.reads)] == IF n = 0 THEN 0 ELSE sum[n - 1] + input.reads[n]
    IN  sum[Len(input.reads)]

\* When pv ends it has reported every byte that went through, each once; only if the
\* output failed may the size of the last read be left behind in nchan, which has
\* room for no more than that one.
PvRight ==
    /\ PvTypeOK
    /\ pvmain = "exit" =>
        /\ reported = total
        /\ total \in {Through} \cup IF input.full THEN {Through - Bytes} ELSE {}
=============================================================================
