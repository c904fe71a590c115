------------------------------- MODULE Rewire -------------------------------
(***************************************************************************)
(* rewire (rewire/rewire.go: main, Redirect, Start, Waiter): commands that *)
(* filter the standard descriptors of a final command.  A goroutine waits  *)
(* for each command and sends its error on the unbuffered channel `done',  *)
(* which main ranges over; one goroutine closes done when all of them have *)
(* been received and another when the final command has terminated.        *)
(*                                                                         *)
(* Data.  redirs is the list of descriptors parsed from the command line;  *)
(* command i is the i-th.  A standard stream of a process is the terminal  *)
(* (rewire's own), null, or a pipe; the streams through a pipe are left    *)
(* out.  Processes end when they like.                                     *)
(*                                                                         *)
(* The command line (rewire/parser.go; checkarg and CmdParse in rewire.go) *)
(* is the second part: redirections -N cmd, then the final command.  An    *)
(* argument is the sequence of its characters, all spaces being " ", and   *)
(* numbers are taken to fit.                                               *)
(***************************************************************************)
EXTENDS Integers, FiniteSets, SequencesExt

CONSTANT Lists          \* the lists of descriptors considered

RewireAssumption == Lists \subseteq Seq(Nat) /\ Lists # {}

VARIABLES redirs, pos,  \* main's loop
          osIn, osOut,  \* os.Stdin and os.Stdout
          pin, pout,    \* the streams of command i
          cin, cout, cerr, \* those of the final command
          cinFrom,      \* the command whose output is piped to final.Stdin, or 0
          wasset,       \* final.wasset, the set of descriptors
          extra,        \* len(final.ExtraFiles)
          proc,         \* proc[i]: the process; proc[0] is the final command
          waiter,       \* the goroutine of Waiter
          wg, done,     \* done: how often it was closed
          cpc, fpc,     \* the two goroutines that close it
          mpc, outcome

vars == <<redirs, pos, osIn, osOut, pin, pout, cin, cout, cerr, cinFrom, wasset, extra,
          proc, waiter, wg, done, cpc, fpc, mpc, outcome>>
streams == <<osIn, osOut, pin, pout, cin, cout, cerr, cinFrom, wasset, extra>>

Cmd == 1..Len(redirs)
Stream == {"unset", "terminal", "null", "pipe"}

TypeOK ==
    /\ redirs \in Lists /\ pos \in 1..Len(redirs) + 1
    /\ osIn \in {"terminal", "null"} /\ osOut \in {"terminal", "null"}
    /\ pin \in [Cmd -> Stream] /\ pout \in [Cmd -> Stream]
    /\ cin \in Stream /\ cinFrom \in {0} \cup Cmd /\ cout \in Stream /\ cerr \in {"unset", "terminal"}
    /\ wasset \in SUBSET {0, 1, 2} /\ extra \in Nat
    /\ proc \in [Cmd \cup {0} -> {"none", "running", "ended", "reaped"}]
    /\ waiter \in [Cmd -> {"none", "wait", "send", "stop"}]
    /\ wg \in 0..Len(redirs) /\ done \in 0..1
    /\ cpc \in {"none", "wait", "close", "stop"}
    /\ fpc \in {"none", "start", "wait", "close", "stop"}
    /\ mpc \in {"redirect", "range", "over"}
    /\ outcome \in {"none", "return", "fatal", "close of closed channel",
                    "send on closed channel", "makeslice"}

Init ==
    /\ redirs \in Lists /\ pos = 1
    /\ osIn = "terminal" /\ osOut = "terminal"
    /\ pin = [i \in Cmd |-> "unset"] /\ pout = [i \in Cmd |-> "unset"]
    /\ cin = "unset" /\ cout = "unset" /\ cerr = "unset" /\ cinFrom = 0
    /\ wasset = {} /\ extra = 0
    /\ proc = [i \in Cmd \cup {0} |-> "none"]
    /\ waiter = [i \in Cmd |-> "none"]
    /\ wg = 0 /\ done = 0
    /\ cpc = "none" /\ fpc = "none"
    /\ mpc = "redirect" /\ outcome = "none"

Running == outcome = "none"
End(o) == mpc' = "over" /\ outcome' = o

----------------------------------------------------------------------------
(* main's loop over the redirects, rewire.go:131-142 *)

InKept == "terminal"                  \* mutant: os.Stdin = DevNull is missing
InLeft == "null"

\* Redirect(r, 0), lines 50-53.
RedirectIn(i) ==
    /\ redirs[i] = 0
    /\ pin' = [pin EXCEPT ![i] = osIn] /\ osIn' = InLeft
    /\ pout' = [pout EXCEPT ![i] = "pipe"] /\ cin' = "pipe" /\ cinFrom' = i
    /\ UNCHANGED <<osOut, cout, cerr, extra>>

\* Redirect(r, 1), lines 54-57: a second StdoutPipe fails, and the command's stdin
\* stays unset.
RedirectOut(i) ==
    /\ redirs[i] = 1
    /\ pout' = [pout EXCEPT ![i] = osOut] /\ osOut' = "null"
    /\ pin' = [pin EXCEPT ![i] = IF cout = "unset" THEN "pipe" ELSE "unset"]
    /\ cout' = "pipe"
    /\ UNCHANGED <<osIn, cin, cinFrom, cerr, extra>>

\* Redirect(r, 2), line 58.
RedirectErr(i) == redirs[i] = 2 /\ UNCHANGED <<osIn, osOut, pin, pout, cin, cinFrom, cout, cerr, extra>>

Delta(fd) == fd - extra - 2           \* uintptr: a negative number wraps around

\* Redirect(r, n), lines 60-64, when delta does not wrap around.
RedirectExtra(i) ==
    /\ redirs[i] > 2 /\ Delta(redirs[i]) >= 0
    /\ extra' = extra + Delta(redirs[i])
    /\ UNCHANGED <<osIn, osOut, pin, pout, cin, cinFrom, cout, cerr>>

\* The command is started and a Waiter for it; a command that does not start is
\* fatal.
Redirect ==
    /\ Running /\ mpc = "redirect" /\ pos <= Len(redirs)
    /\ RedirectIn(pos) \/ RedirectOut(pos) \/ RedirectErr(pos) \/ RedirectExtra(pos)
    /\ wasset' = wasset \cup ({redirs[pos]} \cap 0..2)
    /\ \/ /\ proc' = [proc EXCEPT ![pos] = "running"]
          /\ waiter' = [waiter EXCEPT ![pos] = "wait"]
          /\ wg' = wg + 1 /\ pos' = pos + 1
          /\ UNCHANGED <<mpc, outcome>>
       \/ End("fatal") /\ UNCHANGED <<proc, waiter, wg, pos>>
    /\ UNCHANGED <<redirs, done, cpc, fpc>>

\* make with a delta that wrapped around panics (line 62).
RedirectPanic ==
    /\ Running /\ mpc = "redirect" /\ pos <= Len(redirs)
    /\ redirs[pos] > 2 /\ Delta(redirs[pos]) < 0
    /\ End("makeslice")
    /\ UNCHANGED <<redirs, pos, streams, proc, waiter, wg, done, cpc, fpc>>

RedirectsOver ==
    /\ Running /\ mpc = "redirect" /\ pos > Len(redirs)
    /\ mpc' = "range" /\ cpc' = "wait" /\ fpc' = "start"
    /\ UNCHANGED <<redirs, pos, streams, proc, waiter, wg, done, outcome>>

----------------------------------------------------------------------------
(* Processes and Waiter, rewire.go:181-186 *)

Exit(i) ==
    /\ Running /\ proc[i] = "running"
    /\ proc' = [proc EXCEPT ![i] = "ended"]
    /\ UNCHANGED <<redirs, pos, streams, waiter, wg, done, cpc, fpc, mpc, outcome>>

\* cmd.Wait returns and has closed rewire's end of the command's stdout pipe.
Reap(i) ==
    /\ Running /\ waiter[i] = "wait" /\ proc[i] = "ended"
    /\ proc' = [proc EXCEPT ![i] = "reaped"]
    /\ waiter' = [waiter EXCEPT ![i] = "send"]
    /\ UNCHANGED <<redirs, pos, streams, wg, done, cpc, fpc, mpc, outcome>>

UncountedDone == wg                   \* mutant: main does not call wg.Done
TwiceDone == wg - 2                   \* mutant: Waiter calls it too
CountedDone == wg - 1

\* The rendezvous with main's range, and main's wg.Done; or a panic.
SendDone(i) ==
    /\ Running /\ waiter[i] = "send"
    /\ IF done > 0
       THEN End("send on closed channel") /\ UNCHANGED <<waiter, wg>>
       ELSE /\ mpc = "range" /\ wg' = CountedDone
            /\ waiter' = [waiter EXCEPT ![i] = "stop"]
            /\ UNCHANGED <<mpc, outcome>>
    /\ UNCHANGED <<redirs, pos, streams, proc, done, cpc, fpc>>

----------------------------------------------------------------------------
(* The two goroutines that close done, rewire.go:146-167 *)

CloseDone ==
    IF done = 0 THEN done' = 1 /\ UNCHANGED <<mpc, outcome>>
                ELSE End("close of closed channel") /\ UNCHANGED done

AnyReceived == wg < Len(redirs) \/ wg = 0     \* mutant: one result is enough
AllReceived == wg = 0

GroupWait ==
    /\ Running /\ cpc = "wait" /\ AllReceived
    /\ cpc' = "close"
    /\ UNCHANGED <<redirs, pos, streams, proc, waiter, wg, done, fpc, mpc, outcome>>

GroupClose ==
    /\ Running /\ cpc = "close"
    /\ CloseDone /\ cpc' = "stop"
    /\ UNCHANGED <<redirs, pos, streams, proc, waiter, wg, fpc>>

\* final.Start: a stream that was not set is rewire's own (os.Stdin, os.Stdout).
FinalStart ==
    /\ Running /\ fpc = "start"
    /\ cin' = IF 0 \in wasset THEN cin ELSE osIn
    /\ cout' = IF 1 \in wasset THEN cout ELSE osOut
    /\ cerr' = IF 2 \in wasset THEN cerr ELSE "terminal"
    /\ \/ proc' = [proc EXCEPT ![0] = "running"] /\ fpc' = "wait" /\ UNCHANGED <<mpc, outcome>>
       \/ End("fatal") /\ UNCHANGED <<proc, fpc>>
    /\ UNCHANGED <<redirs, pos, osIn, osOut, pin, pout, cinFrom, wasset, extra, waiter, wg, done, cpc>>

\* final.Wait: an exit status other than zero is fatal.
FinalWait ==
    /\ Running /\ fpc = "wait" /\ proc[0] = "ended"
    /\ proc' = [proc EXCEPT ![0] = "reaped"]
    /\ \/ fpc' = "close" /\ UNCHANGED <<mpc, outcome>>
       \/ End("fatal") /\ UNCHANGED fpc
    /\ UNCHANGED <<redirs, pos, streams, waiter, wg, done, cpc>>

FinalClose ==
    /\ Running /\ fpc = "close"
    /\ CloseDone /\ fpc' = "stop"
    /\ UNCHANGED <<redirs, pos, streams, proc, waiter, wg, cpc>>

\* The range over done ends, and main with it.
Return ==
    /\ Running /\ mpc = "range" /\ done > 0
    /\ End("return")
    /\ UNCHANGED <<redirs, pos, streams, proc, waiter, wg, done, cpc, fpc>>

Group == GroupWait \/ GroupClose
Final == FinalStart \/ FinalWait \/ FinalClose
Main == Redirect \/ RedirectPanic \/ RedirectsOver \/ Return

Next ==
    \/ Main \/ Group \/ Final \/ Exit(0)
    \/ \E i \in Cmd : Exit(i) \/ Reap(i) \/ SendDone(i)

Spec == Init /\ [][Next]_vars

\* Every goroutine that can run is run, and the commands end; the final command may
\* run on.
LiveSpec ==
    /\ Spec /\ WF_vars(Main) /\ WF_vars(Group) /\ WF_vars(Final)
    /\ WF_vars(\E i \in Cmd : Exit(i) \/ Reap(i) \/ SendDone(i))

----------------------------------------------------------------------------
(* Properties. *)

Started == {i \in Cmd : waiter[i] # "none"}
FinalRan == proc[0] # "none"
One(S) == Cardinality(S) <= 1

\* However often a descriptor is redirected, at most one process reads rewire's
\* standard input and at most one writes its standard output (Redirect's
\* bookkeeping in os.Stdin and os.Stdout, and Start's in wasset).
OneAtTerminal ==
    /\ One({i \in Started : pin[i] = "terminal"} \cup (IF FinalRan /\ cin = "terminal" THEN {0} ELSE {}))
    /\ One({i \in Started : pout[i] = "terminal"} \cup (IF FinalRan /\ cout = "terminal" THEN {0} ELSE {}))

\* The slice of extra files always has room for the descriptor stored in it, and
\* only a descriptor lower than an earlier one makes the program panic there.
ExtraFits ==
    /\ \A i \in Started : redirs[i] > 2 => redirs[i] - 3 < extra
    /\ outcome = "makeslice" => \E i \in Started : redirs[i] > redirs[pos]

\* wg counts the commands whose results main has not received, with goroutines
\* ending in any order.
CountsUnreceived == wg = Cardinality({i \in Started : waiter[i] # "stop"})

\* The type invariant with the two above (rewire.go:60-64, 171-174).
RewireInv == TypeOK /\ ExtraFits /\ CountsUnreceived

\* rewire returns only when the final command has terminated, or every other
\* command has and its result was received.
ReturnsForAReason ==
    outcome = "return" =>
        proc[0] = "reaped" \/ \A i \in Cmd : proc[i] = "reaped" /\ waiter[i] = "stop"

\* "Start the final command and wait for it to terminate" (rewire.go:151): rewire
\* does not return before the final command has terminated.
WaitsForFinal == outcome = "return" => proc[0] = "reaped"

----------------------------------------------------------------------------
(* The command line. *)

CONSTANT CommandLines       \* the argument lists, without the program's name

RewireArgsAssumption == CommandLines \subseteq Seq(Seq(STRING))

VARIABLES line,             \* the command line
          source, tok,      \* what is left of it, and the last argument taken
          ppc,              \* the function of the parser
          dest, mode,       \* descriptor and mode of the redirection
          ops,              \* p.redirs
          finalcmd, started, \* started: the redirections main has started
          parsed            \* what came of it

parseVars == <<line, source, tok, ppc, dest, mode, ops, finalcmd, started, parsed>>

Digits == <<"0", "1", "2", "3", "4", "5", "6", "7", "8", "9">>
Digit(ch) == \E k \in 1..10 : Digits[k] = ch
DigitValue(ch) == (CHOOSE k \in 1..10 : Digits[k] = ch) - 1
Value(s) ==
    LET value[k \in 0..Len(s)] == IF k = 0 THEN 0 ELSE 10 * value[k - 1] + DigitValue(s[k])
    IN  value[Len(s)]

\* The digits after the dash, and what follows them.
NumberLen(token) == CHOOSE k \in 0..(Len(token) - 1) :
    /\ \A j \in 1..k : Digit(token[j + 1])
    /\ k + 2 <= Len(token) => ~Digit(token[k + 2])
Number(token) == SubSeq(token, 2, NumberLen(token) + 1)
ModeOf(token) == SubSeq(token, NumberLen(token) + 2, Len(token))

Flag(token) == token # <<>> /\ token[1] = "-"
Blank(cmd) == \A k \in DOMAIN cmd : cmd[k] = " "

ArgsTypeOK ==
    /\ line \in CommandLines /\ \E k \in 0..Len(line) : source = SubSeq(line, k + 1, Len(line))
    /\ ppc \in {"check", "fd", "cmd", "final", "commands", "start", "over"}
    /\ started \in 0..Len(ops)
    /\ dest \in Nat /\ Len(finalcmd) <= Len(line) + 1 /\ Len(ops) <= Len(line)
    /\ parsed \in {"none", "usage", "help", "just a dash", "no command", "fatal", "run"}

ArgsInit ==
    /\ line \in CommandLines /\ source = line /\ tok = <<>>
    /\ ppc = "check" /\ dest = 0 /\ mode = <<>> /\ ops = <<>> /\ finalcmd = <<>>
    /\ started = 0 /\ parsed = "none"

Over(what) == ppc' = "over" /\ parsed' = what

\* An exhausted source gives the empty argument, and leaves tok alone.
Taken == IF source = <<>> THEN <<>> ELSE Head(source)
Advance == source' = (IF source = <<>> THEN source ELSE Tail(source))

Checkarg ==
    /\ ppc = "check"
    /\ IF line = <<>> THEN Over("usage")
       ELSE IF line[1] = <<"-", "h">> THEN Over("help")
       ELSE ppc' = "fd" /\ UNCHANGED parsed
    /\ UNCHANGED <<line, source, tok, dest, mode, ops, finalcmd, started>>

\* An empty argument is taken for the end of the line.
ParseFd ==
    /\ ppc = "fd"
    /\ Advance /\ tok' = IF source = <<>> THEN tok ELSE Taken
    /\ IF Taken = <<>> THEN ppc' = "commands" /\ UNCHANGED <<dest, mode, parsed>>
       ELSE IF ~Flag(Taken) THEN ppc' = "final" /\ UNCHANGED <<dest, mode, parsed>>
       ELSE IF Number(Taken) = <<>> THEN Over("just a dash") /\ UNCHANGED <<dest, mode>>
       ELSE /\ dest' = Value(Number(Taken))
            /\ mode' = ModeOf(Taken)
            /\ ppc' = "cmd" /\ UNCHANGED parsed
    /\ UNCHANGED <<line, ops, finalcmd, started>>

OpFirst == <<[fd |-> dest, mode |-> mode, cmd |-> Taken]>> \o ops       \* mutant: put in front
OpLast == Append(ops, [fd |-> dest, mode |-> mode, cmd |-> Taken])

ParseCmd ==
    /\ ppc = "cmd"
    /\ Advance /\ tok' = IF source = <<>> THEN tok ELSE Taken
    /\ ops' = OpLast /\ ppc' = "fd"
    /\ UNCHANGED <<line, dest, mode, finalcmd, started, parsed>>

ParseFinal ==
    /\ ppc = "final"
    /\ IF tok = <<>> THEN ppc' = "commands" /\ UNCHANGED <<source, tok, finalcmd>>
       ELSE /\ finalcmd' = Append(finalcmd, tok)
            /\ Advance /\ tok' = Taken
            /\ UNCHANGED ppc
    /\ UNCHANGED <<line, dest, mode, ops, started, parsed>>

Cat == <<<<"c", "a", "t">>>>

\* main: without a final command it is cat, rewire.go:118-126.
Commands ==
    /\ ppc = "commands"
    /\ finalcmd' = IF finalcmd = <<>> THEN Cat ELSE finalcmd
    /\ ppc' = "start"
    /\ UNCHANGED <<line, source, tok, dest, mode, ops, started, parsed>>

\* The loop over the redirections, rewire.go:131-142: CmdParse refuses a command of no
\* words, when those before it run already.  "fatal" is Redirect's panic, or a command
\* that does not start.
StartCommand ==
    /\ ppc = "start" /\ started < Len(ops)
    /\ IF Blank(ops[started + 1].cmd) THEN Over("no command") /\ UNCHANGED started
       ELSE \/ started' = started + 1 /\ UNCHANGED <<ppc, parsed>>
            \/ Over("fatal") /\ UNCHANGED started
    /\ UNCHANGED <<line, source, tok, dest, mode, ops, finalcmd>>

RunFinal ==
    /\ ppc = "start" /\ started = Len(ops)
    /\ Over("run")
    /\ UNCHANGED <<line, source, tok, dest, mode, ops, finalcmd, started>>

ArgsNext ==
    \/ Checkarg \/ ParseFd \/ ParseCmd \/ ParseFinal
    \/ Commands \/ StartCommand \/ RunFinal

ArgsSpec == ArgsInit /\ [][ArgsNext]_parseVars

----------------------------------------------------------------------------
(* Properties. *)

\* The redirections are the flags at the first, third, ... place, up to the first that
\* is none; each has the argument after it for its command.
Pairs(args) == CHOOSE p \in 0..Len(args) :
    /\ \A k \in 1..p : 2 * k - 1 <= Len(args) /\ Flag(args[2 * k - 1])
    /\ 2 * p + 1 <= Len(args) => ~Flag(args[2 * p + 1])
At(args, k) == IF k <= Len(args) THEN args[k] ELSE <<>>
Redirection(args, k) ==
    [fd |-> Value(Number(args[2 * k - 1])), mode |-> ModeOf(args[2 * k - 1]), cmd |-> At(args, 2 * k)]

\* The commands of the first n redirections have words.
Worded(args, n) == \A k \in 1..n : ~Blank(At(args, 2 * k))

\* The final command is what follows, and cat where nothing does.  Nothing is asked of a
\* line with an empty argument there: parseFinal drops it and what comes after it.
FinalMeant(cmd, rest) ==
    (\A k \in DOMAIN rest : rest[k] # <<>>) => cmd = IF rest = <<>> THEN Cat ELSE rest

\* A command line is run as the manual says: every redirection is started, in the order
\* written and with the command that follows it, before the final command with its
\* arguments.  No line is refused but for a flag without a number, before any command is
\* started, or for a redirection without a command, when exactly the ones before it have
\* been started (parser.go; CmdParse and the loop of main in rewire.go).
ParsedAsWritten ==
    parsed \in {"run", "fatal", "no command", "just a dash"} =>
        /\ parsed = "just a dash" <=> (\E k \in 1..Pairs(line) : Number(line[2 * k - 1]) = <<>>)
        /\ Worded(line, started)
        /\ parsed = "just a dash" => started = 0
        /\ parsed \in {"fatal", "no command"} =>
              /\ started < Pairs(line)
              /\ parsed = "no command" <=> Blank(At(line, 2 * (started + 1)))
        /\ parsed = "run" =>
              /\ started = Pairs(line)
              /\ ops = [k \in 1..Pairs(line) |-> Redirection(line, k)]
              /\ FinalMeant(finalcmd, SubSeq(line, 2 * Pairs(line) + 1, Len(line)))

ArgsRight == ArgsTypeOK /\ ParsedAsWritten

\* "Any tokens proceeding it are invalid and trigger an error" (parser.go:86-87): a line is
\* run only when all its arguments are used.  No run checks it: an empty argument ends the
\* line without a word.
NoneDropped == parsed = "run" => source = <<>>

=============================================================================
