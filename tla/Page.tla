-------------------------------- MODULE Page --------------------------------
(***************************************************************************)
(* page (page/page.go: main): a goroutine puts the names read from         *)
(* standard input into a ring, or decodes pictures from it and queues      *)
(* them, while the window's events ask for the next and previous picture.  *)
(*                                                                         *)
(* Data.  A name is a member of a small set.                               *)
(***************************************************************************)
EXTENDS Integers, Sequences, FiniteSets

CONSTANTS RingSize,     \* N
          Tries, DoitCap,
          Listings,     \* lists of names read, or of pictures decoded
          Pictures,     \* the names that readimage can read
          Keys,         \* what a key adds to cur; 0 for the other keys, "space" apart
          MaxKeys       \* how many keys are pressed

NoName == ""          \* the name in an empty slot

ASSUME PageAssumption ==
    /\ RingSize \in Nat \ {0} /\ Tries \in Nat /\ DoitCap \in Nat /\ MaxKeys \in Nat
    /\ NoName \in STRING \ Pictures /\ "black" \notin Pictures /\ Keys \subseteq Int
    /\ \A q \in Listings : q \in Seq(STRING)

VARIABLES listing,      \* whether the argument is -
          names,        \* the input
          todo,         \* the rest of it
          ring, hi,
          reader,       \* the goroutine: it counts, or stores in the slot it counted
          doit,         \* the pictures in the channel
          wpc, di, tries, cur, \* the event loop
          shown, pressed

pageVars == <<listing, names, todo, ring, hi, reader, doit, wpc, di, tries, cur, shown, pressed>>

PageTypeOK ==
    /\ listing \in BOOLEAN /\ hi \in Nat /\ cur \in Int
    /\ DOMAIN ring = 0..(RingSize - 1) /\ doit \in 0..DoitCap
    /\ reader \in {"count", "store", "decode", "send", "spin", "stop"}
    /\ wpc \in {"event", "again", "dead"} /\ tries \in 0..Tries /\ pressed \in 0..MaxKeys

PageInit ==
    /\ listing \in BOOLEAN /\ names \in Listings /\ todo = names
    /\ ring = [k \in 0..(RingSize - 1) |-> NoName] /\ hi = 0
    /\ reader = (IF listing THEN "count" ELSE "decode") /\ doit = 0
    /\ wpc = "event" /\ di = 0 /\ tries = 0 /\ cur = 0
    /\ shown = "black" /\ pressed = 0

PageAlive == wpc # "dead"

----------------------------------------------------------------------------
(* The reader, page.go:103-129 *)

\* hi is raised before the name is in its slot.
CountName ==
    /\ PageAlive /\ reader = "count"
    /\ IF todo = <<>> THEN reader' = "stop" /\ UNCHANGED hi ELSE reader' = "store" /\ hi' = hi + 1
    /\ UNCHANGED <<listing, names, todo, ring, doit, wpc, di, tries, cur, shown, pressed>>

LastSlot(i) == IF i < RingSize THEN i ELSE RingSize - 1   \* mutant: nothing goes round
Turned(i) == i % RingSize

StoreName ==
    /\ PageAlive /\ reader = "store"
    /\ ring' = [ring EXCEPT ![Turned(hi)] = Head(todo)]
    /\ todo' = Tail(todo) /\ reader' = "count"
    /\ UNCHANGED <<listing, names, hi, doit, wpc, di, tries, cur, shown, pressed>>

\* At the end of the input PageDecode gives no image for ever.
PageDecode ==
    /\ PageAlive /\ reader = "decode"
    /\ reader' = IF todo = <<>> THEN "spin" ELSE "send"
    /\ UNCHANGED <<listing, names, todo, ring, hi, doit, wpc, di, tries, cur, shown, pressed>>

\* Nothing receives from doit.
SendDoit ==
    /\ PageAlive /\ reader = "send" /\ doit < DoitCap
    /\ doit' = doit + 1 /\ todo' = Tail(todo) /\ reader' = "decode"
    /\ UNCHANGED <<listing, names, ring, hi, wpc, di, tries, cur, shown, pressed>>

----------------------------------------------------------------------------
(* The event loop, page.go:130-208 *)

Press ==
    /\ wpc = "event" /\ pressed < MaxKeys
    /\ pressed' = pressed + 1
    /\ \E k \in Keys : IF k = 0 THEN UNCHANGED <<wpc, di, tries>> ELSE wpc' = "again" /\ di' = k /\ tries' = Tries
    /\ UNCHANGED <<listing, names, todo, ring, hi, reader, doit, cur, shown>>

Space ==
    /\ wpc = "event" /\ pressed < MaxKeys
    /\ pressed' = pressed + 1 /\ shown' = "black"
    /\ UNCHANGED <<listing, names, todo, ring, hi, reader, doit, wpc, di, tries, cur>>

\* The loop declares its own hi (line 136), which is 0, so that slot 0 is read whatever
\* cur is.
Slot(i) == 0

Again ==
    /\ wpc = "again"
    /\ cur' = cur + di
    /\ IF ring[Slot(cur + di)] \in Pictures
       THEN shown' = ring[Slot(cur + di)] /\ wpc' = "event" /\ UNCHANGED tries
       ELSE /\ UNCHANGED shown
            /\ IF tries = 0 THEN wpc' = "event" /\ UNCHANGED tries ELSE tries' = tries - 1 /\ UNCHANGED wpc
    /\ UNCHANGED <<listing, names, todo, ring, hi, reader, doit, di, pressed>>

Dead ==
    /\ wpc = "event"
    /\ wpc' = "dead"
    /\ UNCHANGED <<listing, names, todo, ring, hi, reader, doit, di, tries, cur, shown, pressed>>

PageNext == CountName \/ StoreName \/ PageDecode \/ SendDoit \/ Press \/ Space \/ Again \/ Dead

PageSpec == PageInit /\ [][PageNext]_pageVars

----------------------------------------------------------------------------
(* Properties. *)

\* What the reader has taken: names that are stored, or pictures that are queued.
Taken == Len(names) - Len(todo)
NamesRead == {names[k] : k \in 1..Taken}

\* However the names arrive while keys are pressed, and however often they go round the
\* ring, the last RingSize of them are all in it and nothing else than names that were
\* read; and what is in the window is a picture of the input that can be read and has
\* come by then (page.go:103-129, 157-183).
PageRight ==
    /\ PageTypeOK
    /\ listing => \A k \in 1..Taken : k > Taken - RingSize => \E i \in DOMAIN ring : ring[i] = names[k]
    /\ \A i \in DOMAIN ring : ring[i] = NoName \/ ring[i] \in NamesRead
    /\ shown # "black" => shown \in Pictures \cap NamesRead
=============================================================================
