--------------------------------- MODULE Wc ---------------------------------
(***************************************************************************)
(* wc (wc/wc.go: main): one goroutine for each file of the argument list,  *)
(* all of which add to `totals' and report to a printer goroutine.  The    *)
(* files come from ArgFile.                                                *)
(*                                                                         *)
(* Data.  What is counted in a file is one number, Size[name]; a tally on  *)
(* the channel report is the index of its file, or 0 for the totals, which *)
(* the printer reads through the pointer it receives.  count never returns *)
(* an error.                                                               *)
(***************************************************************************)
EXTENDS ArgFile

CONSTANTS Size,         \* [Name -> Nat]
          X             \* the values of -x

VARIABLES x,            \* -x
          gpc,          \* gpc[i]: the goroutine of file i
          read,         \* read[i]: the value of totals it has read
          totals,
          nfiles,
          report, reportClosed,     \* make(chan *tally, 1)
          wpc,          \* main
          rpc,          \* the printer
          shown         \* history: what was printed, <<index, number>>

wcOwn == <<x, gpc, read, totals, nfiles, report, reportClosed, wpc, rpc, shown>>
wcVars == <<vars, wcOwn>>

\* The goroutine of the file closes it, by the caller "now".
WcAssumption ==
    /\ ArgFileAssumption /\ "now" \in Caller
    /\ Size \in [Name -> Nat] /\ X \subseteq BOOLEAN

WcTypeOK ==
    /\ TypeOK /\ x \in X
    /\ gpc \in [Index -> {"none", "count", "close", "store", "report", "done"}]
    /\ read \in [Index -> Nat] /\ totals \in Nat /\ nfiles \in 0..Len(Given)
    /\ report \in Seq(Index \cup {0}) /\ Len(report) <= 1 /\ reportClosed \in BOOLEAN
    /\ wpc \in {"range", "wait", "totals", "close", "donec", "exit"}
    /\ rpc \in {"recv", "donec", "stop"}
    /\ \A k \in 1..Len(shown) : shown[k] \in (Index \cup {0}) \X Nat

WcOwnInit ==
    /\ x \in X
    /\ gpc = [i \in Index |-> "none"] /\ read = [i \in Index |-> 0]
    /\ totals = 0 /\ nfiles = 0
    /\ report = <<>> /\ reportClosed = FALSE
    /\ wpc = "range" /\ rpc = "recv" /\ shown = <<>>

WcInit == Init /\ WcOwnInit

WcRunning == wpc # "exit"

----------------------------------------------------------------------------
(* The goroutine of file i, wc.go:128-139 *)

Count(i) ==
    /\ WcRunning /\ gpc[i] = "count"
    /\ gpc' = [gpc EXCEPT ![i] = "close"]
    /\ UNCHANGED <<vars, x, read, totals, nfiles, report, reportClosed, wpc, rpc, shown>>

CloseFile(i) ==
    /\ WcRunning /\ gpc[i] = "close" /\ closing[i]["now"] # "over"
    /\ Close(i, "now")
    /\ UNCHANGED wcOwn

\* totals.add reads the total and then writes it, and nothing keeps two goroutines
\* apart.
AddRead(i) ==
    /\ WcRunning /\ gpc[i] = "close" /\ closing[i]["now"] = "over"
    /\ read' = [read EXCEPT ![i] = totals]
    /\ gpc' = [gpc EXCEPT ![i] = "store"]
    /\ UNCHANGED <<vars, x, totals, nfiles, report, reportClosed, wpc, rpc, shown>>

Stored(i) == read[i] + Size[Given[i]]

AddWrite(i) ==
    /\ WcRunning /\ gpc[i] = "store"
    /\ totals' = Stored(i)
    /\ gpc' = [gpc EXCEPT ![i] = "report"]
    /\ UNCHANGED <<vars, x, read, nfiles, report, reportClosed, wpc, rpc, shown>>

Room == report = <<>>

Report(i) ==
    /\ WcRunning /\ gpc[i] = "report" /\ Room /\ ~reportClosed
    /\ report' = Append(report, i)
    /\ gpc' = [gpc EXCEPT ![i] = "done"]
    /\ UNCHANGED <<vars, x, read, totals, nfiles, reportClosed, wpc, rpc, shown>>

File(i) == Count(i) \/ CloseFile(i) \/ AddRead(i) \/ AddWrite(i) \/ Report(i)

----------------------------------------------------------------------------
(* The printer, wc.go:102-124.  With -x it returns after the first tally.  *)

Shown(i) == <<i, IF i = 0 THEN totals ELSE Size[Given[i]]>>

Show ==
    /\ WcRunning /\ rpc = "recv" /\ report # <<>>
    /\ shown' = Append(shown, Shown(Head(report)))
    /\ report' = Tail(report)
    /\ rpc' = IF x THEN "stop" ELSE "recv"
    /\ UNCHANGED <<vars, x, gpc, read, totals, nfiles, reportClosed, wpc>>

ReportIdle == report = <<>>               \* mutant: nothing to show is the end
ReportOver == report = <<>> /\ reportClosed

ShowEnd ==
    /\ WcRunning /\ rpc = "recv" /\ ReportOver
    /\ rpc' = "donec"
    /\ UNCHANGED <<vars, x, gpc, read, totals, nfiles, report, reportClosed, wpc, shown>>

----------------------------------------------------------------------------
(* main, wc.go:125-147 *)

\* The rendezvous with emit; wg.Add(1) and the new goroutine.
WcReceive(i) ==
    /\ WcRunning /\ wpc = "range"
    /\ Hand(i)
    /\ nfiles' = nfiles + 1
    /\ gpc' = [gpc EXCEPT ![i] = "count"]
    /\ UNCHANGED <<x, read, totals, report, reportClosed, wpc, rpc, shown>>

WcRangeEnd ==
    /\ WcRunning /\ wpc = "range" /\ toClosed
    /\ wpc' = "wait"
    /\ UNCHANGED <<vars, x, gpc, read, totals, nfiles, report, reportClosed, rpc, shown>>

Counted == \A i \in Index : gpc[i] \in {"none", "done"}

WcWait ==
    /\ WcRunning /\ wpc = "wait" /\ Counted
    /\ wpc' = IF nfiles > 1 THEN "totals" ELSE "close"
    /\ UNCHANGED <<vars, x, gpc, read, totals, nfiles, report, reportClosed, rpc, shown>>

ReportTotals ==
    /\ WcRunning /\ wpc = "totals" /\ Room
    /\ report' = Append(report, 0) /\ wpc' = "close"
    /\ UNCHANGED <<vars, x, gpc, read, totals, nfiles, reportClosed, rpc, shown>>

CloseReport ==
    /\ WcRunning /\ wpc = "close"
    /\ reportClosed' = TRUE /\ wpc' = "donec"
    /\ UNCHANGED <<vars, x, gpc, read, totals, nfiles, report, rpc, shown>>

\* The rendezvous on donec; main returns.
Donec ==
    /\ WcRunning /\ wpc = "donec" /\ rpc = "donec"
    /\ wpc' = "exit" /\ rpc' = "stop"
    /\ UNCHANGED <<vars, x, gpc, read, totals, nfiles, report, reportClosed, shown>>

WcEmit == WcRunning /\ Emit /\ UNCHANGED wcOwn
Printer == Show \/ ShowEnd
WcMain == (\E i \in Index : WcReceive(i)) \/ WcRangeEnd \/ WcWait \/ ReportTotals \/ CloseReport \/ Donec

WcNext == WcEmit \/ Printer \/ WcMain \/ \E i \in Index : File(i)

WcSpec == WcInit /\ [][WcNext]_wcVars

\* Every goroutine that can run is run.
WcLiveSpec ==
    /\ WcSpec /\ WF_wcVars(WcEmit) /\ WF_wcVars(Printer) /\ WF_wcVars(WcMain)
    /\ WF_wcVars(\E i \in Index : File(i))

----------------------------------------------------------------------------
(* Properties. *)

Lines == {k \in 1..Len(shown) : shown[k][1] # 0}
Opened == {i \in Index : fd[i] # "none"}

\* The sum of the counts of the files at the places S of a list.
SumOf(list, S) ==
    LET sum[k \in 0..Len(list)] ==
            IF k = 0 THEN 0 ELSE sum[k - 1] + (IF k \in S THEN Size[list[k]] ELSE 0)
    IN  sum[Len(list)]

\* When wc ends every file it was handed has been shown once, and the totals once,
\* last, and only for more than one file.
EachShown ==
    wpc = "exit" =>
        /\ {shown[k][1] : k \in Lines} = Opened
        /\ Cardinality(Lines) = nfiles
        /\ Len(shown) = nfiles + (IF nfiles > 1 THEN 1 ELSE 0)
        /\ nfiles > 1 => shown[Len(shown)][1] = 0

\* Whatever updates of totals were lost, the total shown is the sum of the counts
\* of some of the files, each taken once, and of one at least.
TotalsOfSome ==
    \A k \in 1..Len(shown) :
        shown[k][1] = 0 => \E S \in (SUBSET Opened) \ {{}} : shown[k][2] = SumOf(Given, S)

\* No goroutine is left to report once main has closed the channel.
ReportOpen ==
    reportClosed => \A i \in Index : gpc[i] \in {"none", "done"}

\* The type invariant with the three above: nobody reports when the channel is closed,
\* every file is shown once and the totals last, and the total is the sum of some of the
\* counts, since updates may be lost (wc.go:101-147).
ShownOnce == WcTypeOK /\ ReportOpen /\ EachShown /\ TotalsOfSome
==============================================================================
