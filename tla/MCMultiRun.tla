---------------------------- MODULE MCMultiRun ----------------------------
(* Instances of MultiRun for TLC. *)
EXTENDS MultiRun

\* A batch that needs two packs, and one with an invalid sample after a valid
\* one; a batch that fits, and one that needs two packs.
MixedBatches == {<<1, 1, 1>>, <<1, 3>>}
GoodBatches  == {<<1>>, <<2, 1>>}
=============================================================================
