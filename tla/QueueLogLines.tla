---------------------------- MODULE QueueLogLines ----------------------------
(***************************************************************************)
(* The lines of queue_log about calls, and what importing them one by one  *)
(* does to the table queue_calls.                                          *)
(***************************************************************************)
EXTENDS QueueRows, Sequences

CONSTANTS
  Calls,        (* uniqueids *)
  Kinds         (* the kinds of lines the exchange writes *)

(* The story of every call begins with its entry.                          *)
ASSUME KindsAssumption ==
  Kinds \subseteq LogLines \cup {"RINGNOANSWER"} /\ "ENTERQUEUE" \in Kinds

Line == [call : Calls, kind : Kinds]

(* A kind that changes no column of the call leaves its row alone.         *)
LineRow(r, kind) ==
  CASE kind = "ENTERQUEUE" -> LogEnterRow(r)
    [] kind = "CONNECT"    -> AnswerRow(r)
    [] kind \in LogExits   -> LogExitRow(r, kind)
    [] OTHER               -> r

LinesEffect(table, lines) ==
  LET after[i \in 0..Len(lines)] ==
        IF i = 0 THEN table
        ELSE LET l == lines[i]
             IN  [after[i - 1] EXCEPT ![l.call] = LineRow(@, l.kind)]
  IN  after[Len(lines)]

(* The order in which the exchange tells the story of a call; a caller may *)
(* join a queue again afterwards.                                          *)
Follows(kind, earlier) ==
  CASE earlier = "none"     -> kind = "ENTERQUEUE"
    [] earlier \in {"ENTERQUEUE", "RINGNOANSWER"}
                            -> kind \in {"RINGNOANSWER", "CONNECT"} \cup (LogExits \ {"COMPLETE"})
    [] earlier = "CONNECT"  -> kind = "COMPLETE"
    [] earlier \in LogExits -> kind = "ENTERQUEUE"

(* The kind of the last line about a call.                                 *)
Latest(c, lines) ==
  LET of == {i \in 1..Len(lines) : lines[i].call = c}
  IN  IF of = {} THEN "none"
      ELSE lines[CHOOSE i \in of : \A j \in of : j <= i].kind
=============================================================================
