---------------------------- MODULE MCQueueCalls ----------------------------
(* Instances of QueueCalls for TLC.                                        *)
EXTENDS QueueCalls, TLC

CONSTANTS c1, c2, daemon, web

(* The calls are interchangeable; used by the runs without liveness.       *)
MCSymmetry == Permutations(Calls)
=============================================================================
