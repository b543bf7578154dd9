---------------------------- MODULE MCReplication ----------------------------
(* Instances of Replication for TLC.                                         *)
EXTENDS Replication

CONSTANTS empty, rules, direct, conditional, default, saved

=============================================================================
