---------------------------- MODULE MCDispatcher ----------------------------
(***************************************************************************)
(* Two live train environments, one of them scored by group, and an eval   *)
(* environment, with groups of two.                                        *)
(***************************************************************************)
EXTENDS Dispatcher

CONSTANTS single, scored, eval

MCTrainEnvs == {single, scored}
\* A run on which evals and the drain must go on behind a closed gate has this one alone.
JustScored == {scored}
MCGroupSize == [e \in Envs |-> 2]
=============================================================================
