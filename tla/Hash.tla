-------------------------------- MODULE Hash --------------------------------
(***************************************************************************)
(* The hash command (hash/hash.go): a feeder goroutine turns the file list *)
(* into work values on the buffered channel `in', csp workers hash them    *)
(* and put the result on the buffered channel `out', and main prints what  *)
(* arrives on `out' and counts on `done' the workers that have stopped.    *)
(*                                                                         *)
(* Data.  A work value is its ordinal in the order of the sends on `in';   *)
(* emitted[i] is the name it carries.  The digest of a named file is that  *)
(* name; the digest of standard input is the lines a worker read from it.  *)
(* Standard input is a sequence of lines, read a chunk of whole lines at a *)
(* time: by the feeder's bufio.Scanner and, for the empty name, by a       *)
(* worker's io.Copy.  Both read the same descriptor.                       *)
(***************************************************************************)
EXTENDS Integers, Sequences, FiniteSets

CONSTANTS Worker,      \* the csp goroutines, hash.go:75-79
          Name,        \* non-empty file names other than "-"
          Readable,    \* the names os.Open opens
          Dash, Blank, \* the argument "-" and the empty string
          FileLists,   \* the values of the command line's file list
          Stdins       \* the contents of standard input

ASSUME HashAssumption ==
    /\ IsFiniteSet(Worker)
    /\ Readable \subseteq Name
    /\ Dash \notin Name /\ Blank \notin Name /\ Dash # Blank
    /\ FileLists \subseteq Seq(Name \cup {Dash, Blank})
    /\ Stdins \subseteq Seq(Name \cup {Blank})

VARIABLES file,     \* the file list, flag.Args()[1:]
          given,    \* what standard input held at the start
          stdin,    \* what nobody has read of it yet
          stdinOpen,\* a worker's fd.Close() closes os.Stdin
          lines,    \* the scanner's buffer
          fpc,      \* the feeder's control state
          fpos,     \* its index in file
          emitted,  \* the names of the work values sent, in order
          in,       \* channel in
          inClosed,
          out,      \* channel out: [id, data]
          wpc,      \* control state of each worker
          job,      \* the work value a worker holds
          data,     \* what a worker has read of standard input
          n,        \* workers main still expects
          mpc,      \* main's control state
          printed   \* the results printed, in order

feeder == <<fpc, fpos, lines, emitted, inClosed>>
worker == <<wpc, job, data>>
vars   == <<file, given, stdin, stdinOpen, feeder, in, out, worker, n, mpc, printed>>

Cap == Cardinality(Worker)     \* make(chan work, n)
FileName == Name \cup {Blank}

Result == [id : Nat, data : Seq(FileName)]

TypeOK ==
    /\ file \in Seq(Name \cup {Dash, Blank})
    /\ given \in Seq(FileName) /\ stdin \in Seq(FileName) /\ lines \in Seq(FileName)
    /\ stdinOpen \in BOOLEAN /\ inClosed \in BOOLEAN
    /\ fpc \in {"default", "next", "scan", "stop"}
    /\ fpos \in Nat \ {0}
    /\ emitted \in Seq(FileName)
    /\ in \in Seq(Nat) /\ out \in Seq(Result)
    /\ wpc \in [Worker -> {"recv", "copy", "send", "done", "stop"}]
    /\ job \in [Worker -> Nat] /\ data \in [Worker -> Seq(FileName)]
    /\ n \in Int
    /\ mpc \in {"select", "exit"}
    /\ printed \in Seq(Result)

Init ==
    /\ file \in FileLists /\ given \in Stdins
    /\ stdin = given /\ stdinOpen = TRUE /\ lines = <<>>
    /\ fpc = IF file = <<>> THEN "default" ELSE "next"
    /\ fpos = 1 /\ emitted = <<>>
    /\ in = <<>> /\ inClosed = FALSE /\ out = <<>>
    /\ wpc = [w \in Worker |-> "recv"]
    /\ job = [w \in Worker |-> 0] /\ data = [w \in Worker |-> <<>>]
    /\ n = Cap /\ mpc = "select" /\ printed = <<>>

Running == mpc # "exit"        \* main's return ends every goroutine
NoInput == stdin = <<>> \/ ~stdinOpen

----------------------------------------------------------------------------
(* The feeder, hash.go:80-96. *)

SendWork(name) ==
    /\ Running /\ Len(in) < Cap
    /\ emitted' = Append(emitted, name)
    /\ in' = Append(in, Len(emitted) + 1)

FeedDefault ==
    /\ fpc = "default" /\ SendWork(Blank)
    /\ fpc' = "next"
    /\ UNCHANGED <<file, given, stdin, stdinOpen, lines, fpos, inClosed, out, worker, n, mpc, printed>>

FeedArg ==
    /\ fpc = "next" /\ fpos <= Len(file) /\ file[fpos] # Dash
    /\ SendWork(file[fpos])
    /\ fpos' = fpos + 1
    /\ UNCHANGED <<file, given, stdin, stdinOpen, lines, fpc, inClosed, out, worker, n, mpc, printed>>

FeedDash ==
    /\ Running /\ fpc = "next" /\ fpos <= Len(file) /\ file[fpos] = Dash
    /\ fpc' = "scan"
    /\ UNCHANGED <<file, given, stdin, stdinOpen, lines, fpos, emitted, in, inClosed, out, worker, n, mpc, printed>>

\* The scanner fills its empty buffer with whatever one read returns.
ScanRead ==
    /\ Running /\ fpc = "scan" /\ lines = <<>> /\ ~NoInput
    /\ \E k \in 1..Len(stdin) :
          /\ lines' = SubSeq(stdin, 1, k)
          /\ stdin' = SubSeq(stdin, k + 1, Len(stdin))
    /\ UNCHANGED <<file, given, stdinOpen, fpc, fpos, emitted, in, inClosed, out, worker, n, mpc, printed>>

FeedLine ==
    /\ fpc = "scan" /\ lines # <<>>
    /\ SendWork(Head(lines))
    /\ lines' = Tail(lines)
    /\ UNCHANGED <<file, given, stdin, stdinOpen, fpc, fpos, inClosed, out, worker, n, mpc, printed>>

ScanEnd ==
    /\ Running /\ fpc = "scan" /\ lines = <<>> /\ NoInput
    /\ fpc' = "next" /\ fpos' = fpos + 1
    /\ UNCHANGED <<file, given, stdin, stdinOpen, lines, emitted, in, inClosed, out, worker, n, mpc, printed>>

CloseIn ==
    /\ Running /\ fpc = "next" /\ fpos > Len(file)
    /\ inClosed' = TRUE /\ fpc' = "stop"
    /\ UNCHANGED <<file, given, stdin, stdinOpen, lines, fpos, emitted, in, out, worker, n, mpc, printed>>

Feeder == FeedDefault \/ FeedArg \/ FeedDash \/ ScanRead \/ FeedLine \/ ScanEnd \/ CloseIn

----------------------------------------------------------------------------
(* A worker, ha.run, hash.go:125-143. *)

OpenedNoReset(w, name) == Append(data[w], name)   \* mutant: h.Reset() is missing
\* What a worker has hashed once it has opened name: h.Reset() and, for a named
\* file, the whole of it.
Opened(w, name) == IF name = Blank THEN <<>> ELSE <<name>>

UnopenedReturns(w) ==                             \* mutant: return, not continue
    wpc' = [wpc EXCEPT ![w] = "done"] /\ UNCHANGED <<job, data>>
\* A name that does not open is dropped (line 135).
Unopened(w) == UNCHANGED worker

Take(w) ==
    /\ Running /\ wpc[w] = "recv" /\ in # <<>>
    /\ in' = Tail(in)
    /\ LET name == emitted[Head(in)]
       IN  IF name = Blank \/ name \in Readable
           THEN /\ wpc' = [wpc EXCEPT ![w] = IF name = Blank THEN "copy" ELSE "send"]
                /\ job' = [job EXCEPT ![w] = Head(in)]
                /\ data' = [data EXCEPT ![w] = Opened(w, name)]
           ELSE Unopened(w)
    /\ UNCHANGED <<file, given, stdin, stdinOpen, feeder, out, n, mpc, printed>>

CopyStdin(w) ==
    /\ Running /\ wpc[w] = "copy" /\ ~NoInput
    /\ \E k \in 1..Len(stdin) :
          /\ data' = [data EXCEPT ![w] = @ \o SubSeq(stdin, 1, k)]
          /\ stdin' = SubSeq(stdin, k + 1, Len(stdin))
    /\ UNCHANGED <<file, given, stdinOpen, feeder, in, out, wpc, job, n, mpc, printed>>

CopyEnd(w) ==
    /\ Running /\ wpc[w] = "copy" /\ NoInput
    /\ stdinOpen' = FALSE
    /\ wpc' = [wpc EXCEPT ![w] = "send"]
    /\ UNCHANGED <<file, given, stdin, feeder, in, out, job, data, n, mpc, printed>>

Sent(w) == [id |-> job[w], data |-> data[w]]

SendResult(w) ==
    /\ Running /\ wpc[w] = "send" /\ Len(out) < Cap
    /\ out' = Append(out, Sent(w))
    /\ wpc' = [wpc EXCEPT ![w] = "recv"]
    /\ UNCHANGED <<file, given, stdin, stdinOpen, feeder, in, job, data, n, mpc, printed>>

DrainedIdle == in = <<>>                   \* mutant: idle is taken for the end
Drained == in = <<>> /\ inClosed

\* The range loop ends; the deferred function is about to send on done.
Quit(w) ==
    /\ Running /\ wpc[w] = "recv" /\ Drained
    /\ wpc' = [wpc EXCEPT ![w] = "done"]
    /\ UNCHANGED <<file, given, stdin, stdinOpen, feeder, in, out, job, data, n, mpc, printed>>

WorkerStep(w) == Take(w) \/ CopyStdin(w) \/ CopyEnd(w) \/ SendResult(w) \/ Quit(w)

----------------------------------------------------------------------------
(* main's loop, hash.go:97-111: a select, then the test of line 108. *)

LeaveOnCount == mpc' = IF n' = 0 THEN "exit" ELSE "select"  \* mutant: out is not looked at
Leave == mpc' = IF n' = 0 /\ out' = <<>> THEN "exit" ELSE "select"

\* done is unbuffered: a worker's send and main's receive are one step.
RecvDone(w) ==
    /\ mpc = "select" /\ wpc[w] = "done"
    /\ wpc' = [wpc EXCEPT ![w] = "stop"]
    /\ n' = n - 1
    /\ UNCHANGED <<file, given, stdin, stdinOpen, feeder, in, out, job, data, printed>>
    /\ Leave

RecvOut ==
    /\ mpc = "select" /\ out # <<>>
    /\ printed' = Append(printed, Head(out))
    /\ out' = Tail(out)
    /\ UNCHANGED <<file, given, stdin, stdinOpen, feeder, in, worker, n>>
    /\ Leave

Next ==
    \/ Feeder
    \/ \E w \in Worker : WorkerStep(w)
    \/ \E w \in Worker : RecvDone(w)
    \/ RecvOut

\* The Go scheduler runs every goroutine that can run, and a channel serves
\* its waiting senders and receivers.
Fairness ==
    /\ WF_vars(Feeder)
    /\ \A w \in Worker : WF_vars(WorkerStep(w)) /\ WF_vars(RecvDone(w))
    /\ WF_vars(RecvOut)

Spec == Init /\ [][Next]_vars
LiveSpec == Spec /\ Fairness

----------------------------------------------------------------------------
(* Properties. *)

Opens(i) == emitted[i] = Blank \/ emitted[i] \in Readable
Hashed == {printed[i].id : i \in 1..Len(printed)}

\* When main returns, every work value whose file opens has been printed: no
\* result is left in a channel or in a worker's hands (hash.go:108, where n
\* counts the workers and len(out) the results that are still to come).
ExitComplete ==
    mpc = "exit" => {i \in 1..Len(emitted) : Opens(i)} \subseteq Hashed

\* main returns only after the feeder has closed `in' and every worker has
\* stopped with nothing queued: the count of line 100 is never early.
ExitQuiescent ==
    mpc = "exit" => /\ inClosed /\ in = <<>> /\ out = <<>>
                    /\ \A w \in Worker : wpc[w] = "stop"

\* No work value is printed twice (run's w is overwritten, never kept).
PrintedOnce ==
    \A i, j \in 1..Len(printed) : printed[i].id = printed[j].id => i = j

\* What makes the above inductive: where each work value is at any moment.
Taken == Len(emitted) - Len(in)      \* work values received from in
Live == {w \in Worker : wpc[w] # "stop"}
Holding(w) == wpc[w] \in {"copy", "send"}

\* n counts the workers that have not yet been received on done.
Counting == n = Cardinality(Live)

\* A worker stops only after in is closed and drained; main returns only after
\* the last worker.
Closing ==
    /\ inClosed <=> fpc = "stop"
    /\ \A w \in Worker : wpc[w] \in {"done", "stop"} => inClosed /\ in = <<>>
    /\ mpc = "exit" => Live = {} /\ out = <<>>
    /\ mpc = "exit" \/ out # <<>> => Worker # {}

\* in holds the latest work values sent, in the order of the sends.
Queue ==
    /\ Len(in) <= Len(emitted)
    /\ \A i \in 1..Len(in) : in[i] = Taken + i

\* Every ordinal in a worker's hands, in out or printed has left in.
Placed ==
    /\ \A w \in Worker : Holding(w) => job[w] \in 1..Taken
    /\ \A k \in 1..Len(out) : out[k].id \in 1..Taken
    /\ \A k \in 1..Len(printed) : printed[k].id \in 1..Taken

\* A work value that has left in and opens is still in one of those places.
NoLoss ==
    \A i \in 1..Taken : Opens(i) =>
        \/ \E w \in Worker : Holding(w) /\ job[w] = i
        \/ \E k \in 1..Len(out) : out[k].id = i
        \/ \E k \in 1..Len(printed) : printed[k].id = i

\* ... and in one only.
Apart ==
    /\ \A v, w \in Worker : Holding(v) /\ Holding(w) /\ job[v] = job[w] => v = w
    /\ \A j, k \in 1..Len(out) : out[j].id = out[k].id => j = k
    /\ PrintedOnce
    /\ \A w \in Worker, k \in 1..Len(out) : Holding(w) => job[w] # out[k].id
    /\ \A w \in Worker, k \in 1..Len(printed) : Holding(w) => job[w] # printed[k].id
    /\ \A j \in 1..Len(out), k \in 1..Len(printed) : out[j].id # printed[k].id

----------------------------------------------------------------------------
(* The promise of Batch: the jobs are the ordinals of the names that the    *)
(* file list and standard input list.                                       *)

\* The feeder is the only reader of standard input, or there are no operands: an
\* empty name would make a worker read it too.
Plain ==
    /\ \A p \in 1..Len(file) : file[p] # Blank
    /\ \A l \in 1..Len(given) : given[l] # Blank

\* The ordinal of operand p.  The first "-" stands for the lines of standard
\* input, a later one for none.
Before(p) == {q \in 1..(p - 1) : file[q] # Dash}
Scanned(p) == \E q \in 1..(p - 1) : file[q] = Dash
Ordinal(p) == 1 + Cardinality(Before(p)) + (IF Scanned(p) THEN Len(given) ELSE 0)

\* The names listed, each with its ordinal.
Listed ==
    IF file = <<>> THEN {<<1, Blank>>}
    ELSE {<<Ordinal(p), file[p]>> : p \in {q \in 1..Len(file) : file[q] # Dash}}
         \cup {<<Ordinal(p) - 1 + l, given[l]>> :
                  p \in {q \in 1..Len(file) : file[q] = Dash /\ ~Scanned(q)}, l \in 1..Len(given)}

Promised == {entry[1] : entry \in {e \in Listed : e[2] \in Readable \cup {Blank}}}

\* What has been sent on in are the names listed before the feeder's place in file.
Listing ==
    /\ \A i \in 1..Len(emitted) : <<i, emitted[i]>> \in Listed
    /\ fpos <= Len(file) + 1 /\ (fpc = "stop" => fpos = Len(file) + 1)
    /\ fpc = "default" => file = <<>> /\ emitted = <<>>
    /\ file = <<>> /\ fpc # "default" => Len(emitted) = 1
    /\ fpc = "scan" => fpos <= Len(file) /\ file[fpos] = Dash
    /\ file # <<>> =>
          Len(emitted) = IF fpc = "scan" /\ ~Scanned(fpos)
                         THEN Ordinal(fpos) - 1 + Len(given) - Len(lines) - Len(stdin)
                         ELSE Ordinal(fpos) - 1

\* With operands, what the feeder has not sent of standard input is the end of it.
Unread ==
    file # <<>> =>
        /\ stdinOpen
        /\ Len(lines) + Len(stdin) <= Len(given)
        /\ \A k \in 1..Len(lines) : lines[k] = given[Len(given) - Len(lines) - Len(stdin) + k]
        /\ \A k \in 1..Len(stdin) : stdin[k] = given[Len(given) - Len(stdin) + k]
        /\ Scanned(fpos) => lines = <<>> /\ stdin = <<>>
        /\ fpc # "scan" => lines = <<>> /\ (~Scanned(fpos) => Len(stdin) = Len(given))

\* What a worker has in its hands when it is through with name.
Digest(name) == IF name = Blank THEN given ELSE <<name>>

\* The work values taken open, and with each goes the digest of its own name.  The
\* one worker that copies standard input has read all of it that is gone.
Digesting ==
    /\ \A w \in Worker : Holding(w) => Opens(job[w])
    /\ \A w \in Worker : wpc[w] = "send" => data[w] = Digest(emitted[job[w]])
    /\ \A w \in Worker : wpc[w] = "copy" =>
          emitted[job[w]] = Blank /\ stdinOpen /\ data[w] \o stdin = given
    /\ \A k \in 1..Len(out) : Opens(out[k].id) /\ out[k].data = Digest(emitted[out[k].id])
    /\ \A k \in 1..Len(printed) : Opens(printed[k].id) /\ printed[k].data = Digest(emitted[printed[k].id])
    /\ file = <<>> /\ Taken = 0 => stdinOpen /\ stdin = given

IInv ==
    /\ TypeOK /\ Counting /\ Closing /\ Queue /\ Placed /\ NoLoss /\ Apart
    /\ Plain => Listing /\ Unread /\ Digesting

\* The digest printed beside the i-th name listed is that of the file so named and
\* of nothing else; "Compute one md5 for the entire stdin" (hash.go:183): without
\* operands the one digest covers all of it.  (Each worker has one hash state for
\* all its files, and standard input comes in as many reads as it likes.)
RightDigest ==
    Plain => \A k \in 1..Len(printed) : \E entry \in Listed :
                 /\ printed[k].id = entry[1]
                 /\ printed[k].data = IF entry[2] = Blank THEN given ELSE <<entry[2]>>

\* Every name listed whose file opens is hashed and printed exactly once, in
\* some order, and main returns after the last of them and does return.  (Of
\* behaviours that begin with Plain.)
Promise == INSTANCE Batch WITH Job <- Nat,
                               todo <- Promised \ Hashed,
                               handled <- Hashed,
                               over <- mpc = "exit"
KeepsPromise == Promise!Spec
=============================================================================
