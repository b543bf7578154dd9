--------------------------- MODULE MCLogConsumers ---------------------------
(* Instances of LogConsumers for TLC.                                        *)
EXTENDS LogConsumers

CONSTANTS h1, h2
=============================================================================
