--------------------------- MODULE MCValueTrainer ---------------------------
(* Every rollout has one sample of one token. *)
EXTENDS ValueTrainer

OneEach == [r \in Rollouts |-> 1]
=============================================================================
