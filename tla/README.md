# TLA+ models of torgo

torgo is a collection of some fifty command-line tools written in Go, most of
them one `main` package of one or a few files. They share no state and no code
beyond the vendored libraries (`argfile`, `mute`); what they have in common is a
style: goroutines joined by small channels, a counter or a `WaitGroup` that
decides when the program is over, and a ticket channel that bounds how much
happens at once. That style is where the tools can go wrong in ways a test
hardly reaches, and it is what this project models: which result may be lost,
what may be printed twice, when a tool returns too early, and when it never
returns.

The source is cited as `tool/file.go:line`, relative to the repository.

## Inventory

### Concurrent tools

| tool | state | operations and goroutines | hard part | what makes it correct |
|---|---|---|---|---|
| hash | channels `in`, `out`, `done`, counter `n`, the standard input shared by readers | feeder, `csp` workers, main's printer | main leaves when `n == 0` and `out` is empty; a file may fail to open; the feeder and a worker can read one descriptor | every file that opens is printed once, none is lost at the end |
| crawl | seven channels in a ring, the counter `n`, the filters `seen`, `hostallowed` and content | feeder, getter, pipe, link, main, and for `-` a reader of urls | every hop changes `n` by the right amount on every error path; a ring of bounded channels can fill; the channels are closed along the ring | each url asked once, end only when nothing is on its way, `-l` kept, no url left |
| walk | one channel and one WaitGroup for each operand, the map `visit` shared by all; for `-b` `list`, `fnx` and a WaitGroup | one goroutine per directory (dft), printer and dispatcher (bft) | `Add` before or after the goroutine, close after the last send, map read without the lock, bounded channels in a circle | each name printed, in level order with `-b`, limit kept, the walk returns |
| argfile (vendored, used by wc, tar, zip, edit, xo, xml2json) | `to`, `ticket`, WaitGroup, the capability of each file | emit, File.Close from any number of callers | Close called twice, files that do not open, a tool that leaves the loop | never more than 1024 open, every file closed once, the loop of the tool ends |
| wc | argfile, `totals`, `report`, `donec`, WaitGroup | a goroutine per file, the printer, main | unsynchronised totals, the last report against the close | each file shown once, the total last, the program ends |
| rewire | the standard descriptors, `done`, WaitGroup, one process for each redirect and the final one | main, a waiter per process, two goroutines that close `done` | two closers of one channel, a sender behind a closed one, processes that end in any order | one process per descriptor, return only for a reason, an end |
| hget | `getc`, `putc`, `finc`, counter `n`, files on disk | main's select, four clients, four storers | select that takes a result instead of handing out a line, error paths that send to the channel main is not receiving on, stat before write | no page lost or reported twice, existing files kept, everything comes back |
| listen, dial | semaphore `sem`, the pipe between a command and its connection, with `-m` the channel `pimper` and the list of connections | accept loop, muxer, a goroutine per call, its copiers | request and reply on one channel, limit counted before Accept, last output against the close of the pipe | limit kept, nothing left of a call that is over, nobody left waiting on the muxer |
| x | lexer goroutine, parser, file buffers, dot | lexer states, parser, address evaluation, edits | how the lexer and the parser tell each other that the program is over; offsets after an edit | every token parsed, edits in order, an end for every program |
| edit `-l` | argfile's files, the command, the files on disk, two counters for the exit status | the loop over the files, argfile's emitter | files opened ahead of their turn, named twice, renamed or removed meanwhile; closed twice | each file edited once for each time it is named, the loop ends |
| cp | tickets, WaitGroup, the files on disk | scanner, a goroutine per line | lines that write one file or each other's source; a ticket for every path out of `docp` | the copy is the source, nothing else changes, cp ends |
| pv | `nchan` with room for one, `done`, the sums | copier, main with a ticker | the last size against `done` in one select | the last report counts every byte |
| rec, gif | two channels and a `donec`, or one | timer, encoder, writer; decoder, converter | closes along the pipeline, early failures | pictures in order, an end |
| page | ring of names, its index `hi`, channel of pictures | reader, event loop | more names than slots, ring read while it is filled | the last names are in the ring, only a picture that has come is shown |
| digra | a global graph, its nodes | loader of the file, loop over questions | questions answered before the graph is there | an answer is about one graph |
| dx | repository, index, diffs | search, walk, decoder, filter | padding and truncation of the index, paths compared as text | lists as the options say, nothing cut short taken for whole |
| enc \| dec | block and stream modes over a pipe, padding, the random block | one process each | a pipe cuts the text anywhere | dec gives back what enc was given |
| alarm | timer, child process | wait, timeout | the timeout and the exit | the child does not outlive it |

### Sequential tools with an algorithm

comm (merge of two sorted files), digra (reachability, components, splitting of
a line into quoted words), sort (the order its options make), uniq (selection),
dd (blocks, skip, short reads), seq (direction and step, wrap-around), rewire's
parser, dx's numbers of variable length, xc (alignment of hex), ffs (a state
machine over XML tokens), cab (tables). Their state is local and their inputs are
small; what is hard is the boundary: end of file, empty input, zero, short read.

### Wrappers

The remaining tools (tee, cat, z, time, loop, fi, clean, tr, tar, zip, ...)
copy, print or call the standard library, one step after the other.
`PROJECT.json` lists each with the reason it is not modelled.

Interaction between tools is limited to pipes between processes; within a tool
it is by channels. Nothing is persisted but the files the user names, and no
tool recovers anything, so crash recovery and message loss are not hazards
here; interleaving, ordering, termination and counters are.

## Modules

| module | models | built on |
|---|---|---|
| `Batch` | what a command that handles its operands concurrently promises (abstract) | |
| `Hash` | hash/hash.go:70-143; implements `Batch` | `Batch` (INSTANCE, refinement) |
| `Worklist` | what a crawl promises (abstract) | |
| `Crawl` | crawl/crawl.go; implements `Worklist` | `Worklist` (INSTANCE, refinement) |
| `Walk` | walk/walk.go, depth first, `-t`, `-m` | |
| `WalkBft` | walk/walk.go, `-b`, `-t` | |
| `ArgFile` | the vendored argfile library | |
| `Wc` | wc/wc.go | `ArgFile` (EXTENDS) |
| `Edit` | edit/edit.go, `-l` | `ArgFile` (EXTENDS) |
| `Rewire` | rewire/rewire.go, util.go; and, as a second specification (`ArgsSpec`), rewire/parser.go with `checkarg`, `CmdParse` and main's loop over the redirections | |
| `Hget` | hget/hget.go with the argument `-` | |
| `Listen` | listen/listen.go: stream, run3, term3 | |
| `Dial` | dial/dial.go: main, stream, run3, term3 | `Listen` (INSTANCE: its call is one of Listen's) |
| `Mux` | streammux of listen and of dial | |
| `X` | x: lexer, parser, addresses, file, commands and main | |
| `Comm`, `Uniq`, `Sort`, `Seq` | comm/comm.go, uniq/uniq.go, sort/sort.go, seq/seq.go | |
| `Digra`, `Words` | digra/digra.go: the graph and the questions; `split` | |
| `Dx`, `DxIndex` | dx/dx.go: the lists and the filter of a diff; the index and the numbers in it | |
| `Crypt` | enc/enc.go and dec/dec.go, at the ends of a pipe | |
| `Copy`, `Dd`, `Pv`, `Rec`, `Gif`, `Page` | cp/cp.go, dd/dd.go, pv/pv.go, rec/rec.go, gif/gif.go, page/page.go | |
| `MCHash`, `MCCrawl`, `MCWalk`, `MCX` | the instances for TLC of one tool | |
| `MCFiles`, `MCProcs`, `MCListen`, `MCTools` | instances for several tools: argfile, wc, edit; rewire, its parser, hget; listen, dial, their mux; comm, uniq, sort, seq, digra, words, dx, index, crypt, cp, dd, rec, gif, page, pv | |
| `HashProofs`, `CrawlProofs`, `WalkProofs`, `ListenProofs`, `XProofs` | the theorems about each and their proofs; `WalkProofs` also about `WalkBft`, `ListenProofs` about `Dial` and `Mux` | the module and TLAPS |
| `FilesProofs`, `ProcsProofs`, `ToolsProofs` | the same about `ArgFile`, `Wc` and `Edit`; about `Rewire`, its parser and `Hget`; about `Seq`, `Sort`, `Copy`, `Dd`, `Rec`, `Gif`, `Page`, `Pv`, `Comm` and `Uniq` | the modules and TLAPS |

In an instance for several tools the initial state picks the tool (`tool`, `prog`)
and every step is one of that tool. The variables of the others do not change: they
have values in which their tool has ended or not begun. `MCProcs` and `MCTools`
extend the tools about which something is proved, so that a run checks the very
definitions of the theorems; each of these tools has variables of its own, and one that is not run keeps
one initial state (`NoSort`, `NoSeq`, ...). The other five of `MCTools` (digra, words, index,
dx, crypt) share the variables `s1`, `s2`, ..., which each `INSTANCE`
names its own way. `MCFiles` has argfile's variables once: in each run they are
those of the tool that ranges over the files. A property of such a run is a conjunction of implications,
one for each tool it is about, or holds of the initial state of a tool that is not run.

### Conventions

Each goroutine has a control-state variable (or a function of one per goroutine)
and one action for each stretch of code between two places where another
goroutine could matter: a channel operation, a lock, a read or write of
something shared. A buffered channel is a sequence with a capacity in the guard
of the send; an unbuffered one is a joint step of sender and receiver. A close is
a Boolean; a send on or a second close of a closed channel ends the program, as
the run-time panic does (`panic`, `outcome`). `Running` is a conjunct of every
action because main's return ends every goroutine.

A file, a page, a digest or an error is the name or ordinal it stands for.
History variables (`printed`, `asked`, `through`, `sent`, `shown`) record what
was output or accepted and are read by no action except where the module says so.
What the command line decides is a variable that never changes (`args`, `cmd`,
`limit`, `x`, `redirs`, `file`, `setup`, `opts`), so that one run covers several command lines.
An operator commented `mutant:` is no part of the model: it is a plausible
mistake in the definition after it, and each property has one that breaks it.

### Correspondence with the code

**Hash.** `file` is `flag.Args()[1:]`; the feeder (80-96) is `FeedDefault`,
`FeedArg`, `FeedDash`, `ScanRead`, `FeedLine`, `ScanEnd`, `CloseIn`; a worker
(125-143) is `Take`, `CopyStdin`, `CopyEnd`, `SendResult`, `Quit`; main's select
(97-111) is `RecvDone` and `RecvOut`, both followed by the test of line 108
(`Leave`). `Take` includes the `continue` for a file that does not open. Standard
input is a sequence of lines of which one read returns any non-empty prefix. A
worker's `fd.Close()` closes `os.Stdin` (`stdinOpen`). A worker's digest of
standard input is the lines it happened to read.

**Crawl.** `get0`, `get1`, `get2`, `link0`, `link1`, `link2`, `in` are the
channels of main; `GetRecv`..`GetStop` is the getter with the host and content
filters, `PipeRecv`.. the goroutine that stands in for the disabled store,
`LinkRecv`.. the extractor, `FeedRecv`/`FeedSend` the feeder of `get0`,
`SeedSend` the goroutine for `-`. Main is `SendFirst`, `MarkFirst`, then a loop
of `RecvErr`, `RecvLinks`, `Hand`, left by `Leave` (n is zero) or by `-l`, then
`CloseGet0`, `CloseDone`, `Return`. The select's tick case only logs.

**Walk.** `ReadDir`, `Ask` (the unlocked read of `visit`), `AskDuringWrite` (the
run-time's "concurrent map read and map write", which ends the program), `Lock`,
`Write`, `Go` (wg.Add, then the goroutine of the subdirectory), `Send`, `Leave`
(wg.Done) are `dft1`; `Close`, `Show`, `Return` are `dft` and the loop that prints.

**WalkBft.** `Begin`, `KidPrint`, `KidSend`, `FinishBatch` are the printer and its
goroutines; `Dispatch`, `DispatchEnd`, `Add`, `PassOn` the dispatcher; `Wait`,
`Woken`, `CloseList`, `Exit` are main.

**ArgFile.** `Ticket`, `Open`, `Wait`, `CloseTicket`, `CloseTo` are emit; `Hand`
is the rendezvous on `to`; `CloseTake`, `CloseFn`, `CloseDone`, `CloseRelease` are
the four steps of one call of File.Close: taking the capability, the
descriptor's Close, `wg.Done`, and the non-blocking receive of a ticket.

**Wc.** `WcReceive`, `WcRangeEnd`, `WcWait`, `ReportTotals`, `CloseReport`, `Donec`
are main; `Count`, `CloseFile`, `AddRead`, `AddWrite`, `Report` a file's
goroutine; `Show`, `ShowEnd` the printer. `totals.add` is a read and a write.
`WcReceive`, `CloseFile` and `WcEmit` are argfile's `Hand`, `Close` and `Emit` with
what wc does besides.

**Rewire.** `Redirect` (with `RedirectIn`, `RedirectOut`, `RedirectErr`,
`RedirectExtra`) is one turn of main's loop with the process it starts;
`RedirectPanic` the slice whose length wraps around; `Exit` and `Reap` a process;
`SendDone` the rendezvous on `done`; `GroupWait`, `GroupClose`, `FinalStart`,
`FinalWait`, `FinalClose` the two closers; `Return` the end of main's range.

**Hget.** `Scan`, `Hand`, `Receive`, `CloseGetc`, `HgetReturn` are main (112-127);
`Do`, `ClientErr`, `Put`, `Stop` a client; `Stat`, `Write`, `StorerErr` a storer.
`Write` is ioutil.WriteFile: the file may not open, or be left empty, cut short or mixed
with what the other storer writes (`Part`), or be whole.

**Listen.** `Acquire`, `Accept`, `AcceptErr` are the loop of `stream`; the
goroutine of a call is `Start`, `CopyOut`, `CopyOutEnd`, `Fin`, `CloseIn`, `Wait`
(run3) or `StartTerm`, `CopyStdin`, `Fin` (term3), then `Close` and `Release`,
the deferred calls. `CopyIn` and `ClosePw` are run3's goroutine, `PumpEnd` (with
`CopyOut`, in which it hands the handler a chunk through the io.Pipe) the one
that os/exec starts because `c.Stdout` is no file. Callers, commands and the
user (`Phone`, `Say`, `Output`, `Exit`, `Type`, `TypeEnd`) are not part of the
program.

**Dial.** `Connect` or `Refused` is main's dial, `Run3`, `Term3`, `HangUp` and `Reap`
the end of its one call; dial repeats run3 and term3 word for word, and what happens
inside the call are Listen's actions.

**Mux.** `Acquire` and `Go` are the loop of `streammux` (`NilClose` is the panic of a goroutine
that was started with the nil connection of a failed Accept, whose deferred Close is evaluated at once), `Collect` and `Answer` the
muxer's two meetings on `pimper`, `Miss` the meeting of two calls there, `Serve` and
`Release` the end of a call. What a call does with its connections, run3 or term3
again, takes any time.

**Edit.** `EditReceive`, `Read`, `Run`, `CloseNow`, `Stat`, `WriteFile`, `PrintName`,
`Fail` and `Deferred` are one flight of `multiflight`, `EditRangeEnd` the exit.
`EditEmit` is argfile's; `Remove` is another program. What a flight reads is what is in the file
that emit has opened (`InOpenFile`): the file of that name with what was written to it since, or,
if it was removed, what it held then (`orphans`).

**Rewire, the command line.** `Checkarg`, then `ParseFd` and `ParseCmd` in turn, `ParseFinal`, are
checkarg and the parser; `Commands` is the `cat` of a line without a final command, `StartCommand` one
turn of main's loop, which starts a command or refuses one of no words when those before it
run already, `RunFinal` the loop's end.

**X.** `Lex` is one turn of `lexer.run` (`LexAny`, `LexAddr`, `LexOp`, `LexCmd` are
the state functions, lexRegexp, lexArg and lexArg2 are in `Delimited` and
`LexCmd`); `CmdParse` is `cmdparse` with what the parser goroutine does (`Parse`,
`ParseAddr`, `ParseCmds`); `Read` is one turn of main's loop: `SetDot` (addr.go) and
`Do` (the functions that parseCmd makes), on the file `Win` (`Insert`, `Delete`,
`Select`). What r reads and what the command of | writes are constants (`Readable`, `Output`); r of a
file that cannot be read leaves the text alone, and | without a word panics. Lexer and parser talk to nobody but each other and main waits for
both, so no interleaving of the two can be told from another, and the parser's
part is one step.

**Texts, in `MCTools`.** In `Comm`, `Both`, `First`, `Second` are the three branches of the merge and
`FirstOver`, `SecondOver` the ends of file. In `Uniq`, `NextFile` and `ReadToken` are the
walker with the counting pass, `PrintFirst` and `PrintDuplicate` the two printing passes.
`Sort`'s `Less` is the comparison (51-104), `Swap` and `NextDot` the stable sort, which is
the standard library's. `Seq` is `SeqParse`, `Refuse`, `PrintNumber`, `SeqExit`, in integers that wrap
around at `MaxInt`. In `Digra`, `LoadLine`, `LoadFails`, `Publish` are the goroutine that reads the file;
a question is `Ask` and, for those that search, `Enter`, `Revisit`, `Found`, `Return` with
the stack of calls, and `PassOver`, `Pop` and `Components` for the components. `Words` is
`split`, rune by rune.

**Data, in `MCTools`.** `Dx` climbs to the repository (`Climb`), then walks (`Untracked`) and compares
(`DirtyEntry`), or filters a diff as `xoxo` and `chunk1` do; `DxIndex` decodes a file of cells field by field with the decoder that
remembers its first error, and has the functions that write and read numbers of
variable length. `Crypt` has the two programs and the pipe: `Encrypt` and `EncStream` are one
read and write of enc, `Decrypt`, `Short`, `Panic` and `DecStream` one of dec, whose reads
take what is there. `Copy` has `PassOver`, `ScanLine`, `StartCopy`, `AllRead`, `WaitForAll`
for main and `OpenSource`, `CreateCopy`, `CopySome`, `SourceEnds`, `Closed`, `ReleaseTicket` for `docp` with its
deferred calls. `Dd`, `Pv`, `Rec`, `Gif` and `Page` have one action for each
step of the loops and goroutines of their `main`: `DdSeek`, then `DdRead`, `BlockRead`, `DdWrite`
in turn and `CountReached`; `PvRead`, `SendSize` of the copying goroutine and `Add`, `PvTick`,
`PvDone` of main's select; `Capture` to `CloseImgc` and `RecDonec` of rec's main, `Encode` to
`EncodeEnds` and `TakeFrame`, `WriteFrame`, `WriteEnds` of its two goroutines; `GifDecode`, `Convert`,
`RangeEnd`, `EncodeAll`; the reader of page (`CountName`, `StoreName`, `PageDecode`, `SendDoit`)
and its window (`Press`, `Space`, `Again`, `Dead`).

**Walk's instance.** main walks either depth first or breadth first
(walk.go:177-193); `MCWalk` extends `Walk` and `WalkBft`, whose names differ, lets the
initial state decide between them and gives the other one's variables the values of a walk that is over.

## Runs

Every property of a passing run is broken by at least one mutant.

| run | question | instance |
|---|---|---|
| `hash` | is every file that opens printed once with its own digest before main returns, whatever the list and the input (`IInv`, `ExitComplete`, `RightDigest`)? does hash implement `Batch`, and end (`KeepsPromise`)? | 2 workers, channels of 2; every list of up to 3 operands from a name that opens, one that does not and `-`; every input of up to 2 lines |
| `crawl` | is `n` the number of urls on their way, `-l` kept, no channel closed while a crawl goes on, and each url in one place and asked once (`CrawlInv`)? does crawl implement `Worklist` (`WorksThroughList`)? does it end or jam (`Terminates`)? | a site of 7 pages on 3 hosts with self, double and back links, equal contents and failures; a page with ten links; `-l 2`; urls from standard input; channels of capacity 1 |
| `walk` | depth first: does each WaitGroup count the goroutines, and is no name printed twice (`WalkInv`), is each one of the first `-t` levels printed, and none below the level more that the code enters (`WalkComplete`), does `-m` lose nothing between overlapping operands (`MemoryLosesNothing`)? breadth first: are directories counted, is the order by level, and nothing within the limit left by the dispatcher (`BreadthFirst`)? does every walk return, with `-b` unless its channels are full for good (`WalkReturns`)? | a tree of depth 3 with an unreadable directory, two overlapping operands, `-t 0`, `-t 1`, `-m`; a tree of depth 4, `-t 2` and `-t 3`, the root or a leaf unreadable; capacity 1 |
| `files` | are argfile's tickets and counts accounted for and the open files bounded (`ArgInv`), and in wc and edit too? does wc show each file once, the total last and of some of the counts (`ShownOnce`)? does edit leave in each file what the command makes of it, once for each time it is named (`EditRight`)? do the loops end (`LoopsEnd`)? | lists of 0 to 4 names with missing ones and two callers of Close; 0 to 3 files with and without `-x`; lists for edit with a name twice, a directory, a file that cannot be written, one removed by another program; 2 tickets |
| `procs` | does rewire's count agree with the results that are missing, and is there room for each extra file (`RewireInv`)? is a terminal never shared by two readers or writers (`OneAtTerminal`)? why may main return (`ReturnsForAReason`)? is a command line run as it is written (`ArgsRight`)? are the pages of hget counted, each in one place, a file that appears written by a page of its name, existing ones kept, and is none in flight at the end (`HgetRight`)? does all come back (`ComeBack`)? | eight lists of up to three descriptors, among them repeated ones and ones above 2; command lines of up to 4 arguments of 8 kinds, among them empty ones; 2 clients, 2 storers, up to 4 lines, two urls with one file name, one existing file |
| `listen` | do slots, calls, processes, goroutines and pipes agree and stay within `-a`, until a call that is over has left nothing (`ListenInv`)? is nobody left waiting on the muxer, and each connection in one place (`MuxRight`)? does a call end after the other side hangs up, in the middle of the output too (`EndsAfterHangUp`)? | listen: two calls, one at a time with Accept failing, two at once with a command, two at the terminal; dial with either; the mux: 4 calls, one or three at once |
| `x` | does the parser always answer (`XInv`)? does a program come through lexer and parser as it was written (`ProgramKept`)? do commands that work with offsets do what they say of the text (`EditsAsWritten`)? | every text of up to 3 of 13 characters as a program; ten addresses, chains of up to two of five loops and conditions, four changes; buffers of up to 3 characters and longer ones with several lines and matches; a program given two buffers |
| `tools` | do comm's columns hold what belongs in them, up to the end of one file, are uniq's lines and counts those of a definition over all the input, seq's list right up to the greatest integer, digra's answers about the whole graph or the empty one, and is a line that was quoted split into its words (`TextsRight`)? is what dx reads from an index, or a number, what was written, never a part of it, are the lists and the filtered diffs those of the options, does dec give back what enc was given (`BytesRight`)? is sort's comparison an order and its result stable (`SortRight`)? do cp and dd leave the bytes where they belong and the others alone (`CopyRight`, `DdRight`)? does pv report each byte that passed (`PvRight`)? do rec and gif keep the order of pictures, with no more lost than is on its way, and page the last names, and make none up (`RecRight`, `GifRight`, `PageRight`)? do cp, enc \| dec, rec, gif and pv end (`ToolsEnd`)? | all pairs of sorted files of up to 3 lines, 7 lists of columns; up to 3 lines in up to 3 files, 6 selections, 5 modes; none or 3 selections of 5 texts under all 16 sets of options; up to 3 numbers from -4..3; 6 graphs, 16 sessions; words of up to 3 runes, lines of up to 6; indexes of up to 2 paths, cut anywhere; numbers around the borders of 1 to 4 bytes; 5 files in a repository seen from 4 places; diffs of 2 files of 2 chunks; 26 sets of options for enc and dec, messages of up to 5 bytes with blocks of 2 or 3; 7 job lists with 2 tickets; up to 5 bytes in blocks of 2 or 3, with files named or not; 6 frames, channels of 1; 4 pictures; a ring of 3, 4 names and 3 keys; 3 reads |
| `walk_bft_early` | violation: return against work in hand | the tree of depth 4, `-t 3` |
| `wc_missing` | violation: a file that does not open | the lists of `files` |
| `rewire_early` | violation: does main wait for the final command | the lists of `procs` |
| `comm_lost` | violation: are all lines of both files in a column | the files of `tools` |

The smallest run (`walk`) has 16,000 distinct states, the largest (`listen`) 176,000;
each ends within two minutes.

### Why the bounds are enough

The tools count and move; they never compare how many. Two workers, clients,
storers or callers are enough for every race between two of a kind, since no
action of these tools involves three. Channel capacities of one or two make
"full" and "empty" both common; the code's 128, 1024 and 16384 differ only in how
much work is needed to fill them, and the wide page of the crawl instance does
fill the ring. Three operands let one be finished, one in a worker's hands and
one waiting. The trees and the site have the shapes the code distinguishes: a
repeated name, a cycle, an unreadable directory, an empty one, one at the limit
and one behind it. Wc's sizes have distinct sums so that a lost addition shows.

The algorithms compare neighbours, or what was read last with what comes next; two
files of three lines, three selections, blocks of two and three bytes with messages
that end before, at and after a block, a width of a few bits and a ring of three have
every such neighbourhood, the wrap-around and the end of one input before the other.
That a comparison is an order is a statement about any three elements. The pipe of
enc | dec may be cut at any byte, the index of dx at any cell.

### Fairness

Weak fairness of each goroutine: the Go scheduler is preemptive and runs every
goroutine that can run. Where a channel has several waiting senders, its queue is
first in, first out, hence weak fairness of each sender's step (RecvDone of each
worker in `Hash`, ClientErr and StorerErr in `Hget`). Go's select chooses at
random, which is *not* assumed to be fair: in `Hget` main may for ever prefer one
case, and `ComeBack` holds because the lines run out. Requests end because the
client has a timeout (hget/hget.go:94); processes of `Rewire` are assumed to end
(WF of Exit), as the run asks what rewire does then. In `Listen` a command
ends at the latest some time after its standard input, which `Wait` waits for,
and the user ends standard input; callers need not do anything. In the instances for
several tools the fairness conditions of the tools are joined where their goroutines
play the same part: since the tool never changes, each joined condition is that of the
tool that runs. `MCTools` has weak fairness of the next-state relation only: the program
does not stop while something can run, which is enough where every step brings the end
nearer (cp, enc | dec, rec, gif, pv). Nothing is said of the end of the others: seq
need not end.

No liveness property is stated where the code can stop for good by design of
its bounded channels: `Terminates` and `WalkReturns` allow the
state in which the channels are full and stay so, which TLC reaches in both.
CHECK_DEADLOCK is off in every run because each of these programs is
supposed to end; that it ends, and not somewhere else, is the liveness property.

## Proofs

TLAPS checks the theorems for every value of the constants that the module's
assumption allows: any number of workers, urls, files, calls, clients, any channel
capacity. Each component has one inductive invariant (`IInv`, `Kept`, `WcKept`,
`EditKept`, `RewireKept`, `ListenInv`, `SortKept`, ...), which TLC checked on the run's instance before it was proved, a lemma for
each of its parts, with a step for each action, and lemmas about sequences and sets
where the parts need them.

| module | theorems | assumption |
|---|---|---|
| `HashProofs` | `TypeCorrect`, `Invariance` (`IInv`), `AtMostOnce`, `Quiescent`, `Complete` (`ExitComplete`), `DigestsRight` (`RightDigest`), `Implements` (`Batch`) | finitely many workers; `-` and the empty name are no file that opens |
| `CrawlProofs` | `Invariance` (`CrawlInv`), `WorksThrough` (`Worklist`) | a finite whitelist, capacities of at least one |
| `WalkProofs` | `Invariance`, `WalkSound` (`WalkInv`), `CInvariance`, `CompleteWalk` (`WalkComplete`), `NothingLost` (`MemoryLosesNothing`), `BftInvariance`, `LevelByLevel` (`BreadthFirst`) | finitely many directories; a path is listed by one directory, once, and has more elements than that; with `-b` a file lies in one directory, one level below it; `NothingLost`: no more directories than the default limit, 1<<30 |
| `FilesProofs` | argfile: `Invariance`, `TicketsRight` (`ArgInv`) | at least one ticket; standard input can be read |
| | `WcInvariance`, `WcShowsOnce` (`ShownOnce`), `EditInvariance`, `EditsRight` (`EditRight`) | argfile's; the caller "now" closes files, in edit also "deferred"; counts are numbers; a command is defined on every text, a directory has none |
| `ProcsProofs` | rewire: `RewireInvariance`, `RewireSound` (`RewireInv`), `OneReaderOneWriter` (`OneAtTerminal`), `ReturnsRight` (`ReturnsForAReason`) | descriptors are numbers |
| | its parser: `ArgsInvariance`, `ParserRight` (`ArgsRight`) | an argument is any sequence of characters, digits among them |
| | hget: `HgetInvariance`, `HgetSound` (`HgetInv`), `NoPageLost` (`PagesKept`), `EndsRight` (`EndsAfterAll`), and all three at once `HgetAllRight` (`HgetRight`) | finitely many clients and storers; each url has a file name |
| `ToolsProofs` | seq: `SeqInvariance`, `NumbersRight` (`SeqRight`, a part of `TextsRight`) | the greatest integer is at least 1 |
| | sort: `SortInvariance`, `SortsStably` (`SortRight`) | bytes and numbers are ordered as integers; ids grow as the selections come |
| | cp: `CopyInvariance`, `CopiesWhole` (`CopyRight`) | finite files; any number of lines and tickets |
| | dd: `DdInvariance`, `DdCopies` (`DdRight`) | sizes, seeks and counts are natural numbers |
| | rec: `RecInvariance`, `FramesInOrder` (`RecRight`); gif: `GifInvariance`, `ImagesInOrder` (`GifRight`); page: `PageInvariance`, `PicturesShown` (`PageRight`) | rec: channels of any capacity but 0; page: a ring of at least one slot |
| | pv: `PvInvariance`, `EveryByteReported` (`PvRight`) | `nchan` has room for one at most |
| | comm: `CommInvariance`, `ColumnsRight` (`CommPrefix`, a part of `TextsRight`) | two sorted files; lines are ordered as numbers are |
| | uniq: `UniqInvariance`, `LinesShown` (`UniqRight`, a part of `TextsRight`) | any files, readable or not, whose lines are sequences of fields |
| `XProofs` | `XInvariance`, `MainNeverWaits` (`XInv`) | a program is a sequence of characters |
| `ListenProofs` | `Invariance` (`ListenInv`), `DialInvariance` (the same of dial's call), `MuxInvariance` (`MuxRight`) | finitely many calls; for the mux, their number is a number |

### Why the invariants are what they are

**Hash.** `ExitComplete` says nothing of where a result may be while main still runs.
`IInv` does: `Counting` (`n` is the number of workers not yet received on `done`),
`Closing` (`in` is closed exactly when the feeder has stopped, a worker stops only when
`in` is closed and empty, main returns only when no worker is live and `out` is empty),
`Queue` (`in` holds the last work values sent, so what has left it is an initial segment),
and `Placed`, `NoLoss`, `Apart` (each of those is in a worker's hands, in `out` or
printed, if its file opens, and in one of these places only). At the exit `Closing`
leaves `printed` as the only place. `DigestsRight` adds `Read`: what a worker has copied
since its `Reset` is a beginning of its own file. `Implements` maps Batch's set of names
that are left to those not printed; every step is one of Batch's or a stutter.

**Crawl.** `n` counts urls in seven channels and six goroutines, of which some hold
several. The invariant gives every url on its way a place and a number among those of
the place (`Entries`), so that moving a list from one channel to the next is a bijection
and `n` changes by the cardinality of what is added or taken off. A url that was marked is
in exactly one place or was settled, and only what has a place is requested, once: `AskedOnce`
is a part of `CrawlInv`. `WorksThrough` maps Worklist's set of urls that are left to those places.

**Walk.** A directory is entered by the goroutine of its parent, and only when that
goes past it; since a path is listed once (`WalkAssumption`), a goroutine that does not
exist yet cannot have been started, and what is sent was not sent before. `Depth`
excludes that a root is listed below itself. With this the set of goroutines that live
and the WaitGroup change together, which gives the close after the last send; and the
names on their way and printed, all of them behind the index of some goroutine, stay
distinct. Two walks may print the same name, also with `-m` (see below).

**Walk, complete.** `WalkComplete` needs a second invariant, `CInv`: no goroutine ends
before its listing does (`ReadOut`); what it goes past is on its way or printed and, if it
is a directory, has a goroutine or, with `-m`, is in `visit` and passed on by some walk that
marked it (`Marked`, `PassedOn`); each directory is entered one level below its parent
(`Levels`, `OverRight`), so that the limit cuts off what is beyond it and nothing else. The
property leaves open whether the level after the first `-t` ones belongs to the walk, as the usage and the code
disagree on it; the invariant says that the code prints it. At
the end this makes the printed names closed under listing. That they contain the whole tree
down to the limit is an induction over the levels: the reference definition is a
recursive function, `Below`, and the lemma `AllNat` (a set of numbers with zero and the
successor of each of its elements has all of them) takes the place of the library's
induction theorem, whose operator parameter the provers cannot instantiate. The
assumption of `NothingLost` is that nothing lies deeper than walk's limit when none is given.

**Walk with -b.** `BreadthFirst` speaks of the names printed; `BftIInv` says why they come
in that order: the directories at the printer, in `fnx`, in the dispatcher's hands and in
`list` follow each other by level (`SeqOrder`, `SetOrder`), and no two of them are more
than one level apart, so that the files of the batch may join `list` in any order. Each
name printed has a parent that has left the way and is on no lower level (`Parents`), and a
directory is read once since its files are new (`Kids`). When the dispatcher stops at a
directory beyond the limit everything else on its way is at the limit at least, hence
nothing within it is lost in `list` (`Limited`, `Left`). `ReturnsWhenDone`, by contrast,
is false: main may return before the rest of the way is gone (see below).

**ArgFile.** One caller of Close takes the capability and goes through three stages;
`Accounted` is inductive together with `OneCloser` (no second caller is in those stages,
and the descriptor is open before and closed after the first) and `Stages` (where emit
is). A step changes `wg` and `tickets` exactly as it changes the sets of files that hold a
count and a ticket. The lemmas are about a step with any set of names that can be opened
at the moment (`AnyStep`), because in edit another program removes files meanwhile.

**Wc.** `FilesProofs` takes argfile's invariant over: a step of wc is one of argfile's or
leaves it alone. The files handed over are those whose goroutine was started (`EachStarted`);
what was shown followed by what is in `report` is each file whose goroutine is done, once,
and at the end the totals (`SaidOnce`), since a goroutine is done when it has sent, main
sends the totals when all are, and closes after that (`MainAt`). The total is not the sum of
what was added, as additions get lost; `SomeSums` says what is kept: it is the sum of the
counts of *some* files that were added, and of one at least when any was; and what a
goroutine read and has still to write back is such a sum without its own file. That one more
file adds its count (`SumStep`) is an induction over the list, with `AllNat` as for `Walk`.

**Edit.** Main is at the last file it was handed (`AtLast`), because it finishes each before
it takes the next, whatever emit has opened ahead. Its first Close takes the capability, so
that nobody but it closes the file before it is written (`ClosedFirst`; `CapOrCloser` is what
argfile's invariant has to give for it). `Progress` says that after k files the disk holds in
each name what the command has made of it in the first k places, that the files counted and
the errors logged are those of these places; it needs `Clean`: nothing was ever removed
and each file up to here was opened. At the end `toClosed` means that all were.

**Rewire.** `wg` is the number of commands started whose result is missing (`Unreceived`);
when `Wait` returns, all of them are received, which is what `Ends` records for the group's
goroutine. `Terminals` says who holds each end of the terminal: rewire itself, or one
command; the final command is given what rewire was left with. `ExtraFrom` keeps where the
length of the slice of extra files comes from.

**Hget.** `Apart` (no two goroutines hold the same page) and `Fresh` (the line main is about
to hand out is new) make `OnePlace` inductive: a page passes from hand to hand, and comes
back once. `n` counts the hands while main selects, and `getc` is closed only when it is
zero (`Closed`), hence `EndsAfterAll`.

**Rewire's command line.** `ParsedAsWritten` compares the parser, which takes one argument after the
other, and the loop that starts what it found, with a definition over the whole line. The invariant says where
in the line the parser is: each descriptor parsed so far is the one written at twice its index
(`OpsRight`), what is left is a tail of the line (`AtFd`, `AtCmd`), no flag follows the last of
them (`OpsOver`), and the words of the final command are the arguments after it up to an
empty one (`Words`). That the number of pairs the definition speaks of is the one
that was parsed takes the least number that ends them; that a flag's value is a number
is an induction over its digits.

**Listen and Dial.** `ListenInv` has the slots (each call that is served, and the one
being set up, holds one), the stages of a call (its handler, the goroutine of run3,
os/exec's goroutine, the process and the pipe go through them together) and the chunks.
A call that is over has gone through the last of them and has left nothing, which is the last part of
`Stages`. Each step of dial's call is one of listen's with one slot (`DialInvariance`).

**Mux.** `MuxRight` is inductive as it stands: one call waits for an answer exactly while
the muxer has one to give, a connection was collected by the muxer or received by another
call, never both or twice, each call in progress holds a slot, and with `-a 1` the calls
come in turn, which is why each is then given all the connections.

**Seq.** Where nothing overflows the n-th number is begin + (n-1)·by (`Regular`); where
something does, each is the wrapped successor of the one before (`Follows`). The length of the list that
`SeqRight` gives, a quotient, follows from the first number beyond the end; that the cap on
the numbers of the model is not what ended the list, from `MaxOut` numbers not fitting between
begin and the end.

**Sort.** That `Less` is an order, for each of the sixteen sets of options, is a lemma about three
selections, from the order of bytes and that of numbers (`Ncmp` compares fields first, then
the number in them). The sort is then by insertion: all up to `upto`
but the one in hand are in order, by id where they are level (`Ordered`); what is after it is as it came
(`NotYet`), hence came later than all before (`Inserting`), which is what makes it stable.

**Copy.** `tickets` is the number of goroutines that live (`TicketsHeld`), hence within the limit.
The content of each target depends on who else writes it. A goroutine that writes alone what nobody
writes has its first bytes there (`AloneCopies`); a file copied onto itself is empty, since Create
truncates it before the first read (`OntoItself`); several that write one file each leave there
a byte of one of their sources or a gap (`SharedPlaces`); all else is as it was
(`OthersKept`). Main waits for all whose goroutine has begun (`Started`).

**Dd.** A seek is done only in a file that was named (`ifrom`, `ofrom`). `DdRight` allows for the places that the code
seeks to, in bytes, and for those the usage gives, in blocks, as it is about what is copied; the
invariant knows only the former. `Passed`, the bytes written, ties the two descriptors: the block in hand is
what follows them in the input (`InHand`), they are whole blocks until the last (`WholeBlocks`), and the
output has them at its offset and around them what it had (`OutputIs`), with a hole if the offset is
beyond its end.

**Rec, Gif, Page, Pv.** Rec's frames have consecutive numbers from the standard output back through both
channels and both goroutines, each of which has at most one in hand, to main (`InOrder`); the goroutines end one after the
other (`Closing`). Gif's frames are the images before the piece being decoded, in order (`Converted`), and
a stream has nothing but images before it (`Streamed`). In page the names that have come are in the slots of their
numbers, each in the place of the one a ring before it (`Stored`), and where the reader is in the input follows from
`hi` (`Reading`). Pv's sizes come in the order of the reads through `nchan` (`Sizes`), and what was reported
with what has yet to be is the total (`Reports`); that the sum of the reads is the recursive function
of the model is an induction over numbers.

**Comm.** What `CommPrefix` says of each line, how often it is in each column, depends on how
often it is in both files. The invariant says it of what was taken of each file (`Shared3`), and that
a line taken more often from one file than from the other is in nothing that is left of the
other (`Uneven`), since the files are sorted and the smaller of the two lines in hand is
the one taken. What was printed ascends and is before what is left (`Ascending`). When
a file ends the code prints the line in hand of the other, or an empty one, which is counted
apart (`LastLine`).

**Uniq.** Up to the line read, the lines in memory are those of the files before followed by part
of the file in hand (`ReadOut`), with the selection of each and how often it occurs
(`Remembered`). The second pass has looked at the lines up to some place: those written are the
ones among them that the options name (`Written`), because the lines of the same selection that
were passed over are counted (`PassedOver`); this count is what tells the pass which line of a
selection is the last. `UniqRight` allows for the selection of the usage, which counts fields from one, beside the
code's, which the invariant is about; either must be the same for all lines. With `-R` there is one pass, and what it wrote is what it remembers (`Tokens`).

**X.** The parser returns without a signal if the first item is the end. The state functions
of the lexer move on without an item in one place only, from lexAny to lexAddr, at a character which
begins an address; there each way sends something, if only an error. So between two turns the lexer
has sent an item that is not the end, or it is at its start or at such a character
(`LexerKept`), and when it stops it has sent one (`TurnRight`).

### Only model-checked

- Liveness, everywhere: `KeepsPromise` beyond the safety half, `Terminates`,
  `WalkReturns`, `LoopsEnd`, `ComeBack`, `EndsAfterHangUp`, `ToolsEnd`.
- What x's program and commands mean (`ProgramKept`, `EditsAsWritten`).
- `Digra`, `Words`, `Dx`, `DxIndex` and `Crypt` (their parts of `TextsRight`, and `BytesRight`). Each of
  these and of x's properties is compared with a definition over the whole input by recursion or by a
  fold; what a recursive definition computes for every input has to be proved by an
  induction made by hand, as it was for `Walk`, `Wc`, `Edit`, `Rewire`, `Sort`,
  `Pv` and `Uniq`. TLC compares them
  for all inputs up to the bound.

## Disagreements between code and documentation

With a run each (`findings` in `PROJECT.json`):

- walk `-b` returns while directories are still to be printed (`walk_bft_early`);
- wc with a file that does not open never returns: the WaitGroup of emit has
  been increased for a file nobody will close (`wc_missing`);
- rewire without redirects returns before the final command has ended
  (`rewire_early`);
- comm, when one file is over, prints of the other only the line in hand: `flush` is given
  the number of the file that is over and scans that one (comm.go:71-94); "three columns:
  lines exclusively in file1, lines exclusively in file2, and lines present in both
  files" (comm.go:156-157). `CommPrefix` of the `tools` run says what is right up to there, also
  where both files end together and an empty line follows (`comm_lost`).

The next ones are in the models too, and a definition states what the text says; TLC
finds each violated by the instance named. They have no run of their own:

- `NoMoreLevels` (`walk`): "Walk the first four levels down the directory tree ... walk -d -t 4"
  (walk.go:307-311); depth first the code walks five (221 starts at 0 and asks before it
  adds), breadth first four. `WalkComplete` leaves this open.
- `NoneDropped` (`procs`): "Any tokens proceeding it are invalid and trigger an error"
  (parser.go:86-87, of the final command); an empty argument ends the command line without a word, and
  those after it are dropped (92). `ParsedAsWritten` asks nothing of such a line.
- `ChunksReversed` (`tools`): "-v, Reverse. Match items only if they dont match", with "-c,
  Apply regexp to each chunk" (dx.go:413-415); with both dx looks into the files that do not match, for
  chunks that do, and so prints nothing. `FilterRight` only says that no chunk that matches is printed.
- `RangesDocumented` (`tools`): "-s n:" and "-s :m" (uniq.go:361-362) end uniq with an
  error, because the empty half is given to Atoi (130-144).
- `WalkallWhole` (`tools`): on a cycle walkall leaves out nodes that are on a path,
  depending on the order of a map (digra.go:323-339).
- `PaddedAtEnd` (`tools`): enc pads every read, not the end (enc.go:292-296), so a
  pipe that delivers a part of a block puts padding in the middle; dec takes off one
  padding for each of its reads, of up to two blocks, and with `-r` throws away all of the
  first read (dec.go:316-319). With a file as input and both blocks read at once it comes
  out, which is `CryptRight` (a part of `BytesRight`).
- `SeeksBlocks` (`tools`): "-seek n   seek forth N blocks" (dd.go:144); dd seeks bytes (94-97), and
  only in files that are named. `DdRight` holds of either.
- `DirtyUnderWd` (`tools`): "under the working directory" (dx.go:417); paths are compared
  as text, and library is listed from lib.
- `VersionsSupported` (`tools`): "support [2, 4]" (dx.go:567); version 3 and 4 are read as
  if each entry had the second flag, and version 4 forgets what entries share. `IndexRead`
  says what is right of them.
- `StatusTellsErrors` (`files`): "The exit status is zero if at least one files was modified and
  no errors occured" (edit.go:168-169); `err0` is assigned only if it is set
  already (108-110), so it never is.

Seen while modelling, in the models or beside them, without a definition:

- hash: a blank line on standard input names the empty file (hash.go:133), which
  a worker reads as standard input; lines are lost as file names (155-157 says
  they name files). The `hash` run has no blank lines.
- walk `-m` prints a name twice when two walks ask before either writes
  (walk.go:96 against 302, "Memorize and ignore visited files"); this is why no
  property says otherwise.
- wc: an addition to the totals can be lost (wc.go:136 calls 44-48 without a
  lock); `TotalsOfSome` says what is left to promise. With `-x` the printer stops
  and the files' goroutines wait for it (107, 146).
- rewire: `-2` has an empty case (rewire.go:58; util.go:41 has one for it); a
  pipe's reader may be closed by the wait before the final command starts (183
  against 40-41); `done` may be closed twice or sent on when closed (166, 184
  against 116, 144-145); a redirection without a command is refused when the ones before it
  run already (132).
- crawl `-dyn`: "allow up d encountered hosts (first come first serve)"
  (crawl.go:45), but `Allow` (225) compares d with a map that also holds the
  whitelist, an empty host when `-host` is empty (287-289) and the host of the
  first url (349), so d encountered hosts are never admitted.
- crawl `-`: `n` starts as one whatever the number of lines (326, 343), so the
  crawl ends early or, for an empty input, never; the ring can jam; `link` closes
  `link1` in a deferred call and in its loop (129, 141).
- hget `-`: a line read is lost when the select takes a result (112-123); the
  drain loop does not decrease `n`, so main returns only if the last thing it did
  left `n` at zero (124-126); each client closes `putc` (197), so the second one
  panics; two storers can find one name free (217-239), and one page, or a mixture, takes the
  place of the other; a write that fails leaves a file that is empty or cut short (239).
- listen: when Accept fails the goroutine defers `cfd.Close` on a nil connection
  before it tests the error (79, 80), and the program panics; a caller that
  half-closes its connection loses output the command has yet to write, because
  the end of its input closes the pipe before the command's input (211, 226);
  one that does neither keeps its call, and its slot, after the command has
  ended; at a terminal a call keeps its slot until the user types or ends
  standard input (179), also when its caller has gone.
- listen `-m`: when Accept fails the deferred Close of the nil connection panics as well (118).
- listen `-m` and dial `-m`: connections and the muxer's answers go through one
  channel, `pimper`, so that a call can be given another's connection (`Miss`); the
  muxer's answer writes through a `bufio.Writer` that nobody flushes, so less than 4096
  bytes never arrive; with `-a 1` the second caller's command reads the first connection,
  which is closed by then; dial starts its call again and again on the one connection, which
  the first call closed (dial.go:128-149).
- uniq: the usage counts the fields from 1 and takes both ends of a range (uniq.go:358-378), the code
  from 0 and without the end; `UniqRight` holds of either.
- dec loses what follows a block that a pipe has cut (dec.go:309, 312): `CryptRight` speaks of
  whole blocks in the modes of blocks, of any cuts in those of streams.
- edit `-l`: a file that is removed after emit has opened it is read and edited all the same; then
  the Stat of its name fails, and the edit is lost with a message (73-84).
- page: the loop that handles keys declares its own `hi` (page.go:136), so that whatever
  is pressed slot 0 of the ring is read, the last one to be filled; nothing receives from `doit`, so
  pictures given on standard input are never shown and the reader stops at the
  hundred and first; at the end of that input it spins (114-121).
- gif: the delay is divided by a hundred seconds instead of a hundredth (gif.go:115).
- dd `-trunc` is never registered as a flag; the mode cfb of enc and dec is accepted
  and does nothing; digra's "beatit" (digra.go:507) is no question it knows.
- seq with a step that is not positive or an end near the greatest integer does not end.
- dx: an index that is cut in the padding of an entry is read for ever (dx.go:582-584).
- xc `-r`: `ModReader` keeps a remainder for a reader that `io.MultiReader` has dropped by
  then (xc.go:115-127), so an odd digit at the end of a read is lost. Not modelled.
- x: an insertion before the last byte loses that byte (`q0 < nr-1`,
  win.go:22), so `c` before the last byte does as well; `EditsAsWritten` excludes
  just this. m and t parse their address at the command itself (parse.go:222,
  233), find none, and main then dereferences a nil command (main.go:26), as it does
  after g, v, x or y without a command behind them (parse.go:128). A line address
  misses the first byte of the last line, and of line 2 after an empty
  first line (find.go:61, 69-71); a relative one changes its own count each time
  it is used (addr.go:88, 97); `Compound.Set` treats every operator as a comma. A
  `d` that is not the last command takes the character behind it for a
  delimiter (lex.go:272). x and y never end for an expression that matches the empty
  text (parse.go:329-350). By `MainNeverWaits` the parser's return without a
  signal (418-421) is never reached: the first item is never the end.

## Not modelled

Contents of files, digests, formatting, flags that change only formatting, and log
messages. In walk the conditions `-d` and `-f`, absolute paths, and operands from
standard input; in rewire the data in the pipes and the messages of `-d`; in hget the
single request without `-`, which is sequential; in edit the single file without `-l` and
the command language, a vendored library, of which the model has a function from text to
text; in listen the udp code, which main does not reach, and what the mux's connections
carry; in x regular expressions that are not literals, quotes and backslashes in
programs, and the files that w and > write; in sort and digra the reading of flags; in dx
the computation of hashes and the diffs of `git`; in page, rec and gif the drawing and the
codecs. Functions of the operating system appear by what the code sees of
them: a name opens or does not, a directory can be read or not, a process ends when
it likes. The tools listed as `not_modelled` in `PROJECT.json` are wrappers around the standard
library, one loop after another, or third-party; each has its reason there.

Some hazards have no property, because no text of the repository says what should
happen; the code's behaviour is in the models and described above: crawl's ring that jams
and its count with `-` (crawl.go:404, 326), walk's dispatcher at the limit with a full `list`
(walk.go:261), the lost byte of x's insertion (win.go:22), wc's lost additions
(wc.go:136), hget's drain loop and its two storers with one name (hget.go:124, 222), and
dx's padding at the end of a file (dx.go:582). The data in the pipe that rewire's Wait closes
(rewire.go:183) is not modelled.

## Plan

1. Done: all tools with goroutines of their own (hash, crawl, walk, argfile, wc, edit,
   rewire, hget, listen, dial, cp, pv, rec, gif, page, x) and the sequential ones
   with an algorithm of their own (comm, uniq, sort, seq, digra, dx, enc, dec, dd); the
   proofs about all of the former, and about comm, uniq, sort, seq and dd.
2. Next, theorems: `AnswersRight` and `ListsRight`, by inductions as in `ToolsProofs`;
   `ProgramKept`, for which an induction over the items of a program is missing.
3. What may still be modelled: alarm's timer, xc's ModReader, ffs's tokens, the data
   in rewire's pipes, hget without `-`.
