--------------------------- MODULE MCValueService ---------------------------
(***************************************************************************)
(* Three clients: c2 and c3 together are too many tokens for the request   *)
(* plane, c1 with either of them fills it and makes a full batch.  A pair  *)
(* of them for liveness.                                                   *)
(***************************************************************************)
EXTENDS ValueService

CONSTANTS c1, c2, c3

MCClients == {c1, c2, c3}
MCTokens == (c1 :> 1) @@ (c2 :> 2) @@ (c3 :> 2)

MCPair == {c1, c3}
MCPairTokens == (c1 :> 1) @@ (c3 :> 2)

\* c2 and c3 make the same request.
MCSymmetry == Permutations({c2, c3})
=============================================================================
