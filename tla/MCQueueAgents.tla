---------------------------- MODULE MCQueueAgents ----------------------------
(* Values for TLC.  One agent: the calls of one agent do not look at the    *)
(* rows of another, and a reconciliation treats each by itself.             *)
EXTENDS QueueAgents

Day(s, m, f, e) == [seconds |-> s, moves |-> m, faults |-> f, edits |-> e]

AllDays == {Day(2, 2, 0, 0), Day(1, 2, 1, 0), Day(1, 1, 0, 3)}
=============================================================================
