---------------------------- MODULE MCPolicyLoop ----------------------------
(* Instances of PolicyLoop for TLC. *)
EXTENDS PolicyLoop

\* Weights through the filesystem, with nothing in flight behind the gate; by
\* collective, with a batch in flight.
BothTransports == {[nccl |-> FALSE, surplus |-> 0], [nccl |-> TRUE, surplus |-> 1]}
Files          == {[nccl |-> FALSE, surplus |-> 0]}
FilesInFlight  == {[nccl |-> FALSE, surplus |-> 1]}
=============================================================================
