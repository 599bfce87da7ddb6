---------------------------- MODULE MCRolloutSinks ----------------------------
(* Two groups of two, or three; every rollout weighs one, or the second of a   *)
(* group weighs two.                                                           *)
EXTENDS RolloutSinks, TLC

CONSTANTS g1, g2, g3, e1, e2, e3

Two == {g1, g2}
Three == {g1, g2, g3}
JustG1 == {g1}
OneEach == [r \in Groups \X (1 .. GroupSize) |-> 1]
Uneven == [r \in Groups \X (1 .. GroupSize) |-> r[2]]
TwoEpochs == (e1 :> 1) @@ (e2 :> 1) @@ (e3 :> 2)
NoEval == [g \in {} |-> 1]
FirstEpoch == Permutations({e1, e2})

\* Between them the groups meet every outcome: of g1, scored as one, any member may
\* fail or be filtered before the queue, g2, whose algorithm needs both, loses members
\* for want of samples, and g3 is filtered after the queue.
EachItsOwn == (g1 :> {"failed", "prefiltered", "good"}) @@ (g2 :> {"bare", "good"})
              @@ (g3 :> {"postfiltered"})
G2NeedsTwo == (g1 :> 1) @@ (g2 :> 2) @@ (g3 :> 1)
One == [g \in Groups |-> 1]
FailedOrGood == [g \in Groups |-> {"failed", "good"}]
AllGood == [g \in Groups |-> {"good"}]
=============================================================================
