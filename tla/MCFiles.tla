------------------------------ MODULE MCFiles -------------------------------
(* For TLC: argfile and the tools that range over it, one of them in a run of *)
(* the model.                                                                 *)
(* argfile: argument lists of up to four names, of which some cannot be       *)
(* opened, two tickets and two callers of Close for every file.  wc: up to    *)
(* three names, with sizes of which no two sums are the same, with and        *)
(* without -x.  edit: a name given twice, a directory, a file that cannot be  *)
(* written and one that cannot be opened.                                     *)
EXTENDS Wc, Edit, TLC

CONSTANTS a, b, c, sub, ro, missing

VARIABLE tool

AllNames == {a, b, c, sub, ro, missing, Stdin}
AllReadable == AllNames \ {missing}
TwoCallers == {"now", "deferred"}

ArgLists == {<<>>, <<a, b, a, b>>, <<missing, a, b>>, <<a, missing, missing>>}
WcLists == {<<>>, <<a>>, <<a, b>>, <<a, b, c>>, <<a, missing>>}
EditLists == {<<a, b, a>>, <<b, ro>>, <<a, sub, b>>, <<a, missing, b>>}
AllLists == ArgLists \cup WcLists \cup EditLists

\* wc
Sizes == (a :> 1) @@ (b :> 3) @@ (c :> 9) @@ (Stdin :> 5) @@ [n \in {sub, ro, missing} |-> 0]
\* edit
Texts == {"t0", "t1", "t2"}
OnlyOne == {ro}
FlagSets == {{}, {"m", "u"}}
Disk(s, t) == [n \in AllReadable |-> CASE n = a -> s [] n = b -> t [] n = sub -> "directory" [] OTHER -> "t1"]
TwoDisks == {Disk("t0", "t1"), Disk("t1", "t0")}
Result(e, m, t) == [err |-> e, modified |-> m, text |-> t]
TwoCommands ==
    {("t0" :> Result(FALSE, TRUE, "t1")) @@ ("t1" :> Result(FALSE, TRUE, "t2")) @@ ("t2" :> Result(FALSE, FALSE, "t2")),
     ("t0" :> Result(FALSE, TRUE, "t1")) @@ ("t1" :> Result(TRUE, TRUE, "t2")) @@ ("t2" :> Result(FALSE, TRUE, "t2"))}

ASSUME WcAssumption /\ EditAssumption

all == <<tool, vars, wcOwn, editOwn>>

\* A tool that is not run is at its beginning.
WcIdle == WcOwnInit /\ ~x
EditIdle ==
    /\ EditOwnInit /\ flags = {} /\ disk = Disk("t0", "t1")
    /\ command = CHOOSE f \in Commands : TRUE

MCInit ==
    \/ tool = "argfile" /\ Init /\ names \in ArgLists /\ WcIdle /\ EditIdle
    \/ tool = "wc" /\ WcInit /\ names \in WcLists /\ EditIdle
    \/ tool = "edit" /\ EditInit /\ names \in EditLists /\ WcIdle

ArgStep(A) == tool = "argfile" /\ A /\ UNCHANGED <<tool, wcOwn, editOwn>>
WcStep(A) == tool = "wc" /\ A /\ UNCHANGED <<tool, editOwn>>
EditStep(A) == tool = "edit" /\ A /\ UNCHANGED <<tool, wcOwn>>

MCNext == ArgStep(Next) \/ WcStep(WcNext) \/ EditStep(EditNext)

Emits == ArgStep(Emit) \/ WcStep(WcEmit) \/ EditStep(EditEmit)
MainGoes == ArgStep(\E i \in Index : Hand(i)) \/ WcStep(WcMain) \/ EditStep(EditMain)
FileGoes == ArgStep(\E i \in Index, k \in Caller : Close(i, k)) \/ WcStep(\E i \in Index : File(i))

\* Every goroutine that can run is run.
MCSpec ==
    /\ MCInit /\ [][MCNext]_all
    /\ WF_all(Emits) /\ WF_all(MainGoes) /\ WF_all(FileGoes) /\ WF_all(WcStep(Printer))

----------------------------------------------------------------------------
(* Properties. *)

\* The loop over the files ends in every tool, if all can be opened (and are not
\* removed before), though there may be more files than tickets.
LoopsEnd ==
    /\ (tool = "argfile" /\ \A i \in Index : Given[i] \in Readable) => <>toClosed
    /\ (tool = "wc" /\ ~x /\ \A i \in Index : Given[i] \in Readable) => <>(wpc = "exit")
    /\ (tool = "edit" /\ \A i \in Index : Given[i] \in Readable) =>
           <>(dpc \in {"exit 0", "exit 1", "fatal"} \/ once # {})

\* "Wc counts lines, words, runes and characters in the file list provided"
\* (wc.go:209-210): without -x it comes to an end, whatever the list.
AlwaysTerminates == (tool = "wc" /\ ~x) => <>(wpc = "exit")
=============================================================================
