-------------------------- MODULE MCValueTransport --------------------------
(* A queue of three, pulls of one to three, seven rollouts: the queue can     *)
(* overflow behind a full reply whose send then fails, and a reply can exceed *)
(* the limit of the call that takes it.                                       *)
EXTENDS ValueTransport
=============================================================================
