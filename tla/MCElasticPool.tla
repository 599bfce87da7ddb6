---------------------------- MODULE MCElasticPool ----------------------------
(* Instances of ElasticPool for TLC. *)
EXTENDS ElasticPool
=============================================================================
