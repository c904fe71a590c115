--------------------------------- MODULE Dx ----------------------------------
(* dx: -u and -uu list what the repository does not track, -d and -dd what      *)
(* differs from its index. The repository is found by climbing from the        *)
(* working directory. A path is the sequence of its names from the root of the *)
(* file system. Without these options dx stands between git diff and a reader: *)
(* it shows the files of a diff, or with -c the chunks of a file, that match.  *)
(* What matches a chunk of a file matches the file.                            *)
EXTENDS Integers, SequencesExt

CONSTANTS Worlds,     \* [wd, git, gitfile: the directories with a directory, or a file, .git,
                      \*  files, index: paths below the repository, differ: the changed ones]
          Options,    \* subsets of {"u", "uu", "d", "dd"}, not empty
          Diffs,      \* sequences of [whole |-> BOOLEAN, chunks |-> sequence of BOOLEAN]
          StartsWith  \* pairs of names of which the second starts with the first

VARIABLES world, opts,
          todo,   \* the calls main still makes
          dir,    \* where .git is looked for, then the root of the repository
          phase,  \* "grub", "untracked", "dirty", "exit" or "fatal"; "filter" for a diff
          n,      \* entries of the index dirty has gone through
          found,  \* [by, path] for every path printed
          diff,   \* the files of the diff
          at, chunk,   \* the file and the chunk looked at
          shown,       \* <<file, 0>> a whole file or a label, <<file, k>> its chunk k
          hits, status \* n of xoxo and what it exits with; -1 before
listVars == <<todo, dir, phase, n, found>>
filterVars == <<at, chunk, shown, hits, status>>
vars == <<world, opts, diff, listVars, filterVars>>

Below(d, p) == IsStrictPrefix(d, p)
FromRoot(d, p) == SubSeq(p, Len(d) + 1, Len(p))
\* strings.HasPrefix of one path and another, as text.
TextPrefix(p, q) ==
    \/ p = <<>>
    \/ /\ Len(p) <= Len(q) /\ Front(p) = SubSeq(q, 1, Len(p) - 1)
       /\ <<Last(p), q[Len(p)]>> \in StartsWith

Calls(o) == (IF o \cap {"u", "uu"} # {} THEN <<"untracked">> ELSE <<>>)
            \o (IF o \cap {"d", "dd"} # {} THEN <<"dirty">> ELSE <<>>)

\* Where a diff is filtered does not matter.
Init ==
    /\ \/ world \in Worlds /\ opts \in Options /\ diff = <<>> /\ phase = "grub"
       \/ world = (CHOOSE w \in Worlds : TRUE) /\ opts \in SUBSET {"c", "v"} /\ diff \in Diffs /\ phase = "filter"
    /\ todo = Calls(opts) /\ dir = world.wd /\ n = 0 /\ found = {}
    /\ at = 1 /\ chunk = 0 /\ shown = <<>> /\ hits = 0 /\ status = -1

Git == dir \in world.git

\* grubber: a .git that is missing, or not a directory, is passed over.
Climb ==
    /\ phase = "grub" /\ ~Git /\ dir # <<>>
    /\ dir' = Front(dir)
    /\ UNCHANGED <<world, opts, diff, filterVars, todo, phase, n, found>>

NoRepository ==
    /\ phase = "grub" /\ ~Git /\ dir = <<>>
    /\ phase' = "fatal"
    /\ UNCHANGED <<world, opts, diff, filterVars, todo, dir, n, found>>

Attach ==
    /\ phase = "grub" /\ Git
    /\ phase' = Head(todo)
    /\ UNCHANGED <<world, opts, diff, filterVars, todo, dir, n, found>>

prefix == FromRoot(dir, world.wd)

\* Either call ends; the next one looks for the repository again.
Over(paths) ==
    /\ todo' = Tail(todo) /\ dir' = world.wd /\ n' = 0
    /\ phase' = IF todo' = <<>> THEN "exit" ELSE "grub"
    /\ found' = found \cup paths
    /\ UNCHANGED <<world, opts, diff, filterVars>>

\* The walk leaves a directory at its file .git: SkipDir of a file skips what follows, and
\* all names here come after it.
Visited(from, f) ==
    Below(from, f) /\ \A d \in world.gitfile : ~(Below(d, f) /\ (d = from \/ Below(from, d)))

Untracked ==
    /\ phase = "untracked"
    /\ LET all == "uu" \in opts
           from == IF all THEN dir ELSE world.wd
           known == {p \in ToSet(world.index) : all \/ TextPrefix(prefix, p)}
       IN  Over({[by |-> "u", path |-> f] : f \in {p \in world.files :
                    Visited(from, p) /\ FromRoot(dir, p) \notin known}})

\* One entry: a file that cannot be read is passed over.
DirtyEntry ==
    /\ phase = "dirty" /\ n < Len(world.index)
    /\ n' = n + 1
    /\ LET p == world.index[n']
           listed == /\ "dd" \in opts \/ TextPrefix(prefix, p)
                     /\ dir \o p \in world.files /\ p \in world.differ
       IN  found' = found \cup (IF listed THEN {[by |-> "d", path |-> dir \o p]} ELSE {})
    /\ UNCHANGED <<world, opts, diff, filterVars, todo, dir, phase>>

DirtyOver == phase = "dirty" /\ n = Len(world.index) /\ Over({})

-----------------------------------------------------------------------------
file == diff[at]
Wanted(f) == f.whole # ("v" \in opts)

\* The match counts, with -v too.
Whole ==
    /\ phase = "filter" /\ status = -1 /\ at <= Len(diff) /\ chunk = 0
    /\ hits' = IF file.whole THEN hits + 1 ELSE hits
    /\ \/ "c" \in opts /\ Wanted(file) /\ file.chunks # <<>> /\ chunk' = 1 /\ UNCHANGED <<at, shown>>
       \/ /\ ~("c" \in opts /\ Wanted(file) /\ file.chunks # <<>>)
          /\ at' = at + 1 /\ UNCHANGED chunk
          /\ shown' = IF "c" \notin opts /\ Wanted(file) THEN Append(shown, <<at, 0>>) ELSE shown
    /\ UNCHANGED <<world, opts, diff, listVars, status>>

\* chunk1 matches every chunk against the expression whatever -v says, and writes
\* the label before the first it writes.
Chunk ==
    /\ phase = "filter" /\ status = -1 /\ chunk > 0
    /\ LET label == IF \E i \in DOMAIN shown : shown[i] = <<at, 0>> THEN <<>> ELSE <<<<at, 0>>>>
       IN  shown' = IF file.chunks[chunk] THEN shown \o label \o <<<<at, chunk>>>> ELSE shown
    /\ IF chunk = Len(file.chunks) THEN chunk' = 0 /\ at' = at + 1 ELSE chunk' = chunk + 1 /\ UNCHANGED at
    /\ UNCHANGED <<world, opts, diff, listVars, hits, status>>

Exit ==
    /\ phase = "filter" /\ status = -1 /\ at > Len(diff)
    /\ status' = IF hits = 0 /\ diff # <<>> THEN 1 ELSE 0
    /\ UNCHANGED <<world, opts, diff, listVars, at, chunk, shown, hits>>

Next == Climb \/ NoRepository \/ Attach \/ Untracked \/ DirtyEntry \/ DirtyOver \/ Whole \/ Chunk \/ Exit
Spec == Init /\ [][Next]_vars
-----------------------------------------------------------------------------
Listed(by) == {x.path : x \in {y \in found : y.by = by}}
\* The repository the working directory is in.
Around == {d \in world.git : d = world.wd \/ Below(d, world.wd)}
Root == CHOOSE d \in Around : \A e \in Around : Len(e) <= Len(d)
Tracked == {Root \o p : p \in ToSet(world.index)}
Changed == {Root \o p : p \in world.differ} \cap world.files
Under(S, d) == {p \in S : Below(d, p)}

\* When dx is over -u and -uu have listed the files under the working directory, or
\* the whole repository, that the index has not, as far as no file .git stops the
\* walk, -dd has listed the changed files, and -d those under the working directory
\* and never one of another than a directory whose name starts the same
\* (dx.go:109-260).
ListsRight ==
    phase = "exit" =>
        /\ Around # {}
        /\ LET from == IF "uu" \in opts THEN Root ELSE world.wd
           IN  /\ opts \cap {"u", "uu"} # {} =>
                    /\ Listed("u") \subseteq Under(world.files, from) \ Tracked
                    /\ world.gitfile = {} => Listed("u") = Under(world.files, from) \ Tracked
               /\ "dd" \in opts => Listed("d") = Changed
               /\ opts \cap {"d", "dd"} = {"d"} =>
                    /\ Under(Changed, world.wd) \subseteq Listed("d")
                    /\ \A p \in Listed("d") : p \in Changed /\ TextPrefix(world.wd, p)

\* "-d, List dirty (modified) files under the working directory" (dx.go:417).
DirtyUnderWd == phase = "exit" /\ "dd" \notin opts => \A p \in Listed("d") : Below(world.wd, p)

\* Whole files are those that match or, with -v, do not; with -c a label is followed
\* by the matching chunks of its file, all of them, and with -c -v no chunk that matches
\* is shown; the order is the diff's, and the status without -v says whether a file
\* matches (dx.go:284-360).
FilterRight ==
    status # -1 =>
        LET c == "c" \in opts
            v == "v" \in opts
            Earlier(a, b) == a[1] < b[1] \/ (a[1] = b[1] /\ a[2] < b[2])
            is == {shown[i] : i \in DOMAIN shown}
        IN  /\ \A i, j \in DOMAIN shown : i < j => Earlier(shown[i], shown[j])
            /\ ~c => is = {<<f, 0>> : f \in {g \in DOMAIN diff : diff[g].whole # v}}
            /\ c /\ ~v => is = UNION {{<<f, 0>>, <<f, k>>} : <<f, k>> \in
                               {<<g, l>> \in (DOMAIN diff) \X (1..10) : l \in DOMAIN diff[g].chunks /\ diff[g].chunks[l]}}
            /\ c /\ v => \A f \in DOMAIN diff : \A k \in DOMAIN diff[f].chunks : diff[f].chunks[k] => <<f, k>> \notin is
            /\ ~v => ((status = 1) <=> (diff # <<>> /\ \A f \in DOMAIN diff : ~diff[f].whole))

\* "-v, Reverse. Match items only if they dont match" with "-c, Apply regexp to each chunk"
\* (dx.go:413-415): the chunks that do not match are shown.
ChunksReversed ==
    status # -1 /\ opts = {"c", "v"} =>
        \A f \in DOMAIN diff : \A k \in DOMAIN diff[f].chunks : ~diff[f].chunks[k] => \E i \in DOMAIN shown : shown[i] = <<f, k>>
=============================================================================
