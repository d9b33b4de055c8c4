--------------------------- MODULE MCQueueLogSync ---------------------------
(* Instances of QueueLogSync for TLC.                                      *)
EXTENDS QueueLogSync

CONSTANTS c1, c2, daemon, web
=============================================================================
