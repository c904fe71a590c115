------------------------------ MODULE Worklist ------------------------------
(***************************************************************************)
(* What a crawl promises: starting from one item, each item is settled     *)
(* once, settling it may bring new items, and the crawl is over only when  *)
(* none is left, unless it may stop early.                                 *)
(***************************************************************************)
CONSTANT Item
VARIABLES todo, known, over, mayStop

vars == <<todo, known, over, mayStop>>

Init ==
    /\ \E i \in Item : todo = {i} /\ known = {i}
    /\ over = FALSE /\ mayStop \in BOOLEAN

Settle(i) ==
    /\ ~over
    /\ known \subseteq known' /\ known' \subseteq Item
    /\ todo' = (todo \ {i}) \cup (known' \ known)
    /\ over' \in {FALSE, mayStop}
    /\ UNCHANGED mayStop

End ==
    /\ ~over /\ todo = {}
    /\ over' = TRUE
    /\ UNCHANGED <<todo, known, mayStop>>

Next == (\E i \in todo : Settle(i)) \/ End

Spec == Init /\ [][Next]_vars
=============================================================================
