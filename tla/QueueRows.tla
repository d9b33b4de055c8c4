------------------------------ MODULE QueueRows ------------------------------
(***************************************************************************)
(* The two tables of rcm_queue.db that describe a caller in a queue, and   *)
(* what each writer of rcm_queue_db.py does to one row of them:            *)
(*                                                                         *)
(*   queue_calls   the permanent record of the call (status, times, who    *)
(*                 ended it), keyed by the channel's uniqueid              *)
(*   queue_live    the wallboard: one row per call that is in a queue or   *)
(*                 is talking to an agent, deleted when the call ends      *)
(*                                                                         *)
(* A row that does not exist has status (or state) "none".  The columns    *)
(* that only store text are left out; a time column is kept as the fact    *)
(* that it was set (answered is answer_time, hung is hangup_time, talk is  *)
(* a talk_time measured from the answer).                                  *)
(***************************************************************************)
EXTENDS Naturals

OpenStatus     == {"ENTERED", "RINGING"}
TerminalStatus == {"ANSWERED", "ABANDONED", "CANCELLED", "NO ANSWER", "TIMEOUT"}

Row == [status   : {"none"} \cup OpenStatus \cup TerminalStatus,
        answered : BOOLEAN,
        hung     : BOOLEAN,
        talk     : BOOLEAN,
        reason   : {"none", "ami", "ghost", "log"}]

LiveRow == [state : {"none", "WAITING", "RINGING", "TALKING"},
            pos   : Nat,
            start : Nat,
            agent : BOOLEAN]

NoRow  == [status |-> "none", answered |-> FALSE, hung |-> FALSE,
           talk |-> FALSE, reason |-> "none"]
NoLive == [state |-> "none", pos |-> 0, start |-> 0, agent |-> FALSE]

Exists(r)   == r.status # "none"
OnBoard(l)  == l.state # "none"
Terminal(r) == r.status \in TerminalStatus

(* The early return of db_call_hangup: the outcome is already recorded.    *)
Settled(r) == Terminal(r) /\ r.hung

(* What reconciliation calls an uncompleted call.                          *)
Uncompleted(r) == Exists(r) /\ (~Terminal(r) \/ ~r.hung)

-----------------------------------------------------------------------------
(* Writers driven by manager events.                                       *)

EnterRow(r) ==
  IF Exists(r) THEN [r EXCEPT !.status = IF Terminal(r) THEN @ ELSE "ENTERED"]
               ELSE [NoRow EXCEPT !.status = "ENTERED"]

(* The upsert keeps the agent of a row that is already there.              *)
EnterLive(l, pos, at) ==
  [state |-> "WAITING", pos |-> pos, start |-> at, agent |-> l.agent]

(* Mutant: ringing reopens a call that is over.                            *)
RingReopens(r) == IF Exists(r) THEN [r EXCEPT !.status = "RINGING"] ELSE r

RingRow(r) ==
  IF Exists(r) THEN [r EXCEPT !.status = IF Terminal(r) THEN @ ELSE "RINGING"]
               ELSE r

RingLive(l) ==
  IF OnBoard(l) THEN [l EXCEPT !.state = "RINGING", !.agent = TRUE] ELSE l

(* Mutant: the record takes the state the wallboard shows.                 *)
AnswerCopiesState(r) ==
  IF Exists(r) THEN [r EXCEPT !.status = "TALKING", !.answered = TRUE] ELSE r

AnswerRow(r) ==
  IF Exists(r) THEN [r EXCEPT !.status = "ANSWERED", !.answered = TRUE] ELSE r

AnswerLive(l) ==
  IF OnBoard(l) THEN [l EXCEPT !.state = "TALKING", !.pos = 0, !.agent = TRUE]
                ELSE l

AbandonRow(r) ==
  IF Exists(r) THEN [r EXCEPT !.status = "ABANDONED", !.hung = TRUE] ELSE r

(***************************************************************************)
(* db_call_hangup decides from the row it has read; cause is "no answer"   *)
(* or "other", the two outcomes the texts sent by the manager lead to.     *)
(***************************************************************************)
HangupStatus(seen, cause) ==
  IF Terminal(seen) THEN seen.status
  ELSE IF seen.answered THEN "ANSWERED"
  ELSE IF cause = "no answer" THEN "NO ANSWER" ELSE "ABANDONED"

HangupRow(r, seen, cause, reason) ==
  [r EXCEPT !.status = HangupStatus(seen, cause),
            !.hung   = TRUE,
            !.talk   = seen.answered /\ reason # "ghost",
            !.reason = reason]

-----------------------------------------------------------------------------
(***************************************************************************)
(* The import of queue_log, one operator per kind of line.  A line about a *)
(* call that has no row is an UPDATE that matches nothing.                 *)
(***************************************************************************)
LogExits == {"COMPLETE", "ABANDON", "EXITWITHTIMEOUT", "EXITEMPTY", "EXITWITHKEY"}
LogLines == {"ENTERQUEUE", "CONNECT"} \cup LogExits

ExitStatus(line) ==
  CASE line = "COMPLETE"        -> "ANSWERED"
    [] line = "ABANDON"         -> "ABANDONED"
    [] line = "EXITWITHTIMEOUT" -> "TIMEOUT"
    [] line = "EXITEMPTY"       -> "NO ANSWER"
    [] line = "EXITWITHKEY"     -> "CANCELLED"

LogEnterRow(r) ==
  IF Exists(r) THEN [r EXCEPT !.status = "ENTERED"]
               ELSE [NoRow EXCEPT !.status = "ENTERED"]

(* Mutant: the import respects an outcome that is already recorded.        *)
LogExitRespects(r, line) ==
  IF Exists(r) /\ ~Terminal(r)
    THEN [r EXCEPT !.status = ExitStatus(line), !.hung = TRUE, !.reason = "log"]
    ELSE r

LogExitRow(r, line) ==
  IF Exists(r)
    THEN [r EXCEPT !.status   = ExitStatus(line),
                   !.hung     = TRUE,
                   !.answered = @ \/ line = "COMPLETE",
                   !.talk     = @ \/ line = "COMPLETE",
                   !.reason   = "log"]
    ELSE r

(***************************************************************************)
(* The lines of one call come in a fixed order (entered, connected, left), *)
(* so what an import does to its row is these three in turn, each taken    *)
(* when the import finds its line.                                         *)
(***************************************************************************)
ImportRow(r, lines) ==
  LET entered == IF "ENTERQUEUE" \in lines THEN LogEnterRow(r) ELSE r
      taken   == IF "CONNECT" \in lines THEN AnswerRow(entered) ELSE entered
  IN  IF lines \cap LogExits = {} THEN taken
      ELSE LogExitRow(taken, CHOOSE e \in LogExits : e \in lines)

ImportLive(l, lines) ==
  IF lines \cap LogExits # {} THEN NoLive
  ELSE IF "CONNECT" \in lines THEN AnswerLive(l) ELSE l
=============================================================================
