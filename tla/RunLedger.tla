----------------------------- MODULE RunLedger -----------------------------
(***************************************************************************)
(* What the multi-run trainer promises each run: its steps are trained one *)
(* after the other, none twice and none skipped, and a step's weights are  *)
(* announced only once the step is trained.                                *)
(***************************************************************************)
EXTENDS Naturals

CONSTANTS Ids           \* run identifiers

VARIABLES done,         \* the last step an optimizer step was taken for
          published     \* the last step announced by a STABLE marker

vars == <<done, published>>

Init == /\ done = [r \in Ids |-> 0]
        /\ published = [r \in Ids |-> 0]

(* One optimizer step: every run of R has its next step trained. *)
Train(R) == /\ done' = [r \in Ids |-> IF r \in R THEN done[r] + 1 ELSE done[r]]
            /\ UNCHANGED published

(* The weights of the runs of R are announced. *)
Publish(R) ==
    /\ published' = [r \in Ids |-> IF r \in R THEN done[r] ELSE published[r]]
    /\ UNCHANGED done

Next == \E R \in (SUBSET Ids) \ {{}} : Train(R) \/ Publish(R)

Spec == Init /\ [][Next]_vars
=============================================================================
