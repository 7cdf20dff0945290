-------------------------- MODULE MCOrderExecution --------------------------
(* Instances of OrderExecution for TLC.                                    *)
EXTENDS OrderExecution

CONSTANTS o1, w1, w2, monitor, cli
=============================================================================
