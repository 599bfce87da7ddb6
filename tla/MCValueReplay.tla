---------------------------- MODULE MCValueReplay ----------------------------
(* Two rollouts of different sizes, a batch of two in a buffer of four that   *)
(* refills to three, two updates per rollout.                                 *)
EXTENDS ValueReplay
CONSTANTS small, large

MCRollouts == {small, large}
MCNumSamples == [r \in MCRollouts |-> IF r = small THEN 1 ELSE 2]
MCNumTokens == [r \in MCRollouts |-> IF r = small THEN 2 ELSE 5]
=============================================================================
