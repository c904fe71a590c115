-------------------------------- MODULE Edit --------------------------------
(***************************************************************************)
(* edit -l (edit/edit.go: main, multiflight): one command is run on each   *)
(* file of the argument list, and a file it modified is written back.  The *)
(* files come from ArgFile, which opens them ahead of their turn.  Each is *)
(* closed by the deferred call, and before that when it is to be written.  *)
(*                                                                         *)
(* Data.  A text is a member of a small set; a command is the function     *)
(* from a text to what Run makes of it.  Another program may remove a      *)
(* file; the open one can still be read.                                   *)
(***************************************************************************)
EXTENDS ArgFile

CONSTANTS Text,         \* what is in a file; a directory has none
          Disks,        \* the functions from Readable to what is in the files
          Directory,    \* what is in a directory
          Commands,     \* functions from Text to [err, modified, text]
          ReadOnly,     \* names that cannot be written
          Flags         \* subsets of {"m", "u"}

VARIABLES command, flags, disk, removed,
          orphans,      \* orphans[i]: what is in the open file i if it was removed since, or nothing
          dpc, at,      \* main, and the file it is at
          buf,          \* what was read, and what Run made of it
          ran,          \* the last Run
          nmodified,
          written,      \* what was printed: <<name, whether it was modified>>
          logged,       \* the files an error was logged for
          disk0, once   \* history: the files at first, and all that were ever removed

editOwn == <<command, flags, disk, removed, orphans, dpc, at, buf, ran, nmodified, written, logged, disk0, once>>
editVars == <<vars, editOwn>>

Outcome == [err : BOOLEAN, modified : BOOLEAN, text : Text]

\* main closes a file before it writes it ("now"), and by a deferred call.
EditAssumption ==
    /\ ArgFileAssumption /\ {"now", "deferred"} \subseteq Caller
    /\ Text # {} /\ Directory \notin Text
    /\ Disks \subseteq [Readable -> Text \cup {Directory}]
    /\ Commands \subseteq [Text -> Outcome]

Named == Given[at]

EditTypeOK ==
    /\ TypeOK /\ command \in Commands /\ flags \in Flags
    /\ disk \in [Readable -> Text \cup {Directory}] /\ removed \subseteq Readable
    /\ orphans \in [Index -> SUBSET (Text \cup {Directory})]
    /\ dpc \in {"range", "read", "run", "close", "stat", "write", "print", "defer", "exit 0", "exit 1", "fatal"}
    /\ at \in Index \cup {0} /\ buf \in Text
    /\ nmodified \in 0..Len(names) /\ logged \subseteq Index

EditOwnInit ==
    /\ command \in Commands /\ flags \in Flags /\ disk \in Disks /\ removed = {}
    /\ orphans = [i \in Index |-> {}]
    /\ dpc = "range" /\ at = 0 /\ buf \in {CHOOSE t \in Text : TRUE}
    /\ ran = [err |-> FALSE, modified |-> FALSE, text |-> buf]
    /\ nmodified = 0 /\ written = <<>> /\ logged = {}
    /\ disk0 = disk /\ once = {}

EditInit == Init /\ names # <<>> /\ EditOwnInit

EditRunning == dpc \notin {"exit 0", "exit 1", "fatal"}

----------------------------------------------------------------------------
(* multiflight, edit.go:57-112 *)

EditReceive(i) ==
    /\ EditRunning /\ dpc = "range"
    /\ Hand(i) /\ at' = i /\ dpc' = "read"
    /\ UNCHANGED <<command, flags, disk, removed, orphans, buf, ran, nmodified, written, logged, disk0, once>>

\* What is in the file that emit opened, which may no longer be the one of that name.
InOpenFile == IF orphans[at] = {} THEN {disk[Named]} ELSE orphans[at]

Read ==
    /\ dpc = "read"
    /\ \E t \in InOpenFile : IF t = Directory THEN dpc' = "fatal" /\ UNCHANGED buf
                                             ELSE dpc' = "run" /\ buf' = t
    /\ UNCHANGED <<vars, command, flags, disk, removed, orphans, at, ran, nmodified, written, logged, disk0, once>>

\* Modified is about the last Run.
Run ==
    /\ dpc = "run"
    /\ ran' = command[buf] /\ buf' = command[buf].text
    /\ logged' = IF command[buf].err THEN logged \cup {at} ELSE logged
    /\ dpc' = IF command[buf].err THEN "defer" ELSE IF command[buf].modified THEN "close" ELSE "print"
    /\ UNCHANGED <<vars, command, flags, disk, removed, orphans, at, nmodified, written, disk0, once>>

CloseNow ==
    /\ dpc = "close"
    /\ IF closing[at]["now"] = "over"
       THEN dpc' = "stat" /\ UNCHANGED vars
       ELSE Close(at, "now") /\ UNCHANGED dpc
    /\ UNCHANGED <<command, flags, disk, removed, orphans, at, buf, ran, nmodified, written, logged, disk0, once>>

FailGoesOn == logged' = logged \cup {at} /\ dpc' = "print"    \* mutant: no return
Fail == logged' = logged \cup {at} /\ dpc' = "defer"

Stat ==
    /\ dpc = "stat"
    /\ IF Named \in removed THEN Fail ELSE dpc' = "write" /\ UNCHANGED logged
    /\ UNCHANGED <<vars, command, flags, disk, removed, orphans, at, buf, ran, nmodified, written, disk0, once>>

\* ioutil.WriteFile creates the file again that was removed meanwhile.
WriteFile ==
    /\ dpc = "write"
    /\ IF Named \in ReadOnly /\ Named \notin removed
       THEN Fail /\ UNCHANGED <<disk, removed, nmodified>>
       ELSE /\ disk' = [disk EXCEPT ![Named] = buf] /\ removed' = removed \ {Named}
            /\ nmodified' = nmodified + 1
            /\ dpc' = "print" /\ UNCHANGED logged
    /\ UNCHANGED <<vars, command, flags, orphans, at, buf, ran, written, disk0, once>>

\* Modified files with -m, the others with -u.
Listed == \/ ran.modified /\ "m" \in flags
          \/ ~ran.modified /\ "u" \in flags

PrintName ==
    /\ dpc = "print"
    /\ written' = IF Listed THEN Append(written, <<Named, ran.modified>>) ELSE written
    /\ dpc' = "defer"
    /\ UNCHANGED <<vars, command, flags, disk, removed, orphans, at, buf, ran, nmodified, logged, disk0, once>>

\* The deferred fd.Close does nothing when the file was closed before.
Deferred ==
    /\ dpc = "defer"
    /\ IF closing[at]["deferred"] = "over"
       THEN dpc' = "range" /\ UNCHANGED vars
       ELSE Close(at, "deferred") /\ UNCHANGED dpc
    /\ UNCHANGED <<command, flags, disk, removed, orphans, at, buf, ran, nmodified, written, logged, disk0, once>>

\* err0 is set only where it was set before (line 108), so no error counts.
Status == IF nmodified = 0 THEN "exit 1" ELSE "exit 0"

EditRangeEnd ==
    /\ dpc = "range" /\ toClosed
    /\ dpc' = Status
    /\ UNCHANGED <<vars, command, flags, disk, removed, orphans, at, buf, ran, nmodified, written, logged, disk0, once>>

EditEmit == EditRunning /\ EmitWith(Readable \ removed) /\ UNCHANGED editOwn

\* Another program removes a file; whoever has it open still can read it.
Remove ==
    /\ EditRunning /\ removed = {}
    /\ \E n \in Readable \ {Stdin} :
          /\ removed' = {n} /\ once' = once \cup {n}
          /\ orphans' = [i \in Index |-> IF fd[i] = "open" /\ Given[i] = n /\ orphans[i] = {}
                                         THEN {disk[n]} ELSE orphans[i]]
    /\ UNCHANGED <<vars, command, flags, disk, dpc, at, buf, ran, nmodified, written, logged, disk0>>

EditMain ==
    \/ \E i \in Index : EditReceive(i)
    \/ Read \/ Run \/ CloseNow \/ Stat \/ WriteFile \/ PrintName \/ Deferred \/ EditRangeEnd

EditNext == EditEmit \/ EditMain \/ Remove

EditSpec == EditInit /\ [][EditNext]_editVars

----------------------------------------------------------------------------
(* Properties. *)

\* What is in the file n after the first k files of a list were edited, each as the
\* ones before it left it.
TextsOf(list, cmd, first, n) ==
    LET f[k \in 0..Len(list)] ==
            IF k = 0 THEN first
            ELSE IF list[k] # n \/ cmd[f[k - 1]].err \/ ~cmd[f[k - 1]].modified \/ n \in ReadOnly
            THEN f[k - 1]
            ELSE cmd[f[k - 1]].text
    IN  f

After(n) == TextsOf(names, command, disk0[n], n)

Edited(k) == LET t == After(names[k])[k - 1] IN ~command[t].err /\ command[t].modified

\* However far ahead emit opens the files: at the end every one is what the command
\* makes of it, once for each time it is named, also when it is named twice; the files
\* counted are the ones written, and the errors logged are the others'.
AsEdited ==
    ~EditRunning /\ dpc # "fatal" /\ once = {} =>
        /\ \A n \in Readable \ {Stdin} : disk[n] = After(n)[Len(names)]
        /\ nmodified = Cardinality({k \in Index : Edited(k) /\ names[k] \notin ReadOnly})
        /\ logged = {k \in Index : \/ command[After(names[k])[k - 1]].err
                                   \/ Edited(k) /\ names[k] \in ReadOnly}

\* With -m one name is printed for each file that was counted.
PrintsCounted ==
    "m" \in flags /\ dpc # "print" =>
        Cardinality({k \in 1..Len(written) : written[k][2]}) = nmodified

\* The type invariant with the two above, and: a file is written only when it was
\* closed (edit.go:62-107).
EditRight ==
    /\ EditTypeOK /\ AsEdited /\ PrintsCounted
    /\ dpc \in {"stat", "write"} => fd[at] = "closed"

\* "The exit status is zero if at least one files was modified and no errors occured"
\* (edit.go:168-169).
StatusTellsErrors == dpc = "exit 0" => nmodified > 0 /\ logged = {}
=============================================================================
