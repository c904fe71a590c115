------------------------------- MODULE Batch --------------------------------
(***************************************************************************)
(* What a command that handles its operands concurrently promises: every   *)
(* operand is handled exactly once, in any order, and the command is over  *)
(* only when none is left.                                                 *)
(***************************************************************************)
CONSTANT Job
VARIABLES todo, handled, over

vars == <<todo, handled, over>>

TypeOK == todo \subseteq Job /\ handled \subseteq Job /\ over \in BOOLEAN

Init == todo \subseteq Job /\ handled = {} /\ over = FALSE

\* Handling the last operand may end the command in the same step.
Handle(j) ==
    /\ ~over
    /\ todo' = todo \ {j}
    /\ handled' = handled \cup {j}
    /\ over' \in BOOLEAN /\ (over' => todo' = {})

End ==
    /\ ~over /\ todo = {}
    /\ over' = TRUE
    /\ UNCHANGED <<todo, handled>>

Next == (\E j \in todo : Handle(j)) \/ End

SafeSpec == Init /\ [][Next]_vars
Spec == SafeSpec /\ WF_vars(Next)

Complete == over => todo = {}
=============================================================================
