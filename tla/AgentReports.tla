----------------------------- MODULE AgentReports -----------------------------
(***************************************************************************)
(* The reports rcm_queue_db.py computes from queue_agent_events: who was    *)
(* logged in to a queue, for how long, and how much of it on a pause.       *)
(* Several pages show the same facts and each has a reader of its own:      *)
(*                                                                          *)
(*   get_queue_sessions       the sessions of one queue, with their pauses  *)
(*   get_all_agent_sessions   the sessions report                           *)
(*   get_agent_analytics      the totals per agent                          *)
(*   get_queue_pauses         the pauses of one queue                       *)
(*   get_all_agent_pauses     the pauses report                             *)
(*                                                                          *)
(* A reader takes the events of one agent in one queue, ordered by their    *)
(* timestamp, and runs over them once.  A time is a positive number, 0 is   *)
(* "not set"; a report covers a window [from, to], 0 for an end that is     *)
(* not given.  type is what the row of the agent says when the report is    *)
(* made, "STATIC" or "DYNAMIC", and "none" for an agent without a row.      *)
(***************************************************************************)
EXTENDS Naturals, SequencesExt

EventKinds == {"LOGIN", "LOGOUT", "PAUSE", "UNPAUSE"}

Whole == [from |-> 0, to |-> 0]

(* What a report prints of a static agent instead of his times.            *)
NotTold == "-"

(* max(0, b - a)                                                           *)
Span(a, b) == IF b > a THEN b - a ELSE 0

Earlier(a, b) == IF a < b THEN a ELSE b
Later(a, b)   == IF a > b THEN a ELSE b

(* Where a report that ends at w.to stops counting what is still running.  *)
EndOf(w, now) == IF w.to = 0 THEN now ELSE Earlier(w.to, now)

InWindow(e, w) == e.at >= w.from /\ (w.to = 0 \/ e.at <= w.to)

Picked(kept, e, w) == IF InWindow(e, w) THEN Append(kept, e) ELSE kept

Within(evs, w) == FoldLeft(LAMBDA kept, e : Picked(kept, e, w), <<>>, evs)

(* The kind of the last event before the window, "none" without one.       *)
StateBefore(evs, w) ==
  FoldLeft(LAMBDA last, e : IF e.at < w.from THEN e.kind ELSE last, "none", evs)

Inside(kind) == kind \in {"LOGIN", "PAUSE", "UNPAUSE"}

SumOf(s, Op(_)) == FoldLeft(LAMBDA total, x : total + Op(x), 0, s)

-----------------------------------------------------------------------------
(***************************************************************************)
(* get_queue_sessions.  In the accumulator, in is the login of the session  *)
(* that is open (0: none), since the start of the pause that runs.          *)
(***************************************************************************)
NoSession == [done |-> <<>>, in |-> 0, since |-> 0, paused |-> 0]

Closed(acc, at) ==
  Append(acc.done, [in |-> acc.in, out |-> at, paused |-> acc.paused])

(* Mutant: a pause that is still running survives the next login.          *)
SessionLoginKeepsPause(acc, e) ==
  [done |-> IF acc.in # 0 THEN Closed(acc, e.at) ELSE acc.done,
   in |-> e.at, since |-> acc.since, paused |-> 0]

(* A login over an open session closes it and drops the pause that runs.   *)
SessionLogin(acc, e) ==
  [done |-> IF acc.in # 0 THEN Closed(acc, e.at) ELSE acc.done,
   in |-> e.at, since |-> 0, paused |-> 0]

(* A logout counts it.                                                     *)
SessionLogout(acc, e) ==
  LET ran == IF acc.since # 0 THEN Span(acc.since, e.at) ELSE 0
  IN  [NoSession EXCEPT
         !.done = Closed([acc EXCEPT !.paused = @ + ran], e.at)]

SessionStep(acc, e) ==
  IF e.kind = "LOGIN" THEN SessionLogin(acc, e)
  ELSE IF e.kind = "LOGOUT" /\ acc.in # 0 THEN SessionLogout(acc, e)
  ELSE IF e.kind = "PAUSE" /\ acc.in # 0 /\ acc.since = 0
    THEN [acc EXCEPT !.since = e.at]
  ELSE IF e.kind = "UNPAUSE" /\ acc.in # 0 /\ acc.since # 0
    THEN [acc EXCEPT !.since = 0, !.paused = @ + Span(acc.since, e.at)]
  ELSE acc

(* A session that is still open is counted up to now; its out stays 0.     *)
QueueSessionsWhole(evs, now) ==
  LET acc   == FoldLeft(SessionStep, NoSession, evs)
      spent == IF acc.since # 0 THEN Span(acc.since, now) ELSE 0
      All(s) == [in |-> s.in, out |-> s.out, online |-> Span(s.in, s.out),
                 paused |-> s.paused]
      done  == [i \in DOMAIN acc.done |-> All(acc.done[i])]
  IN  IF acc.in = 0 THEN done
      ELSE Append(done, [in |-> acc.in, out |-> 0,
                         online |-> Span(acc.in, now),
                         paused |-> acc.paused + spent])

(* A window cuts the sessions; the pause is only bounded by what is left.  *)
ClipSession(s, w, now) ==
  LET out == IF s.out = 0 THEN now ELSE s.out
      a   == Later(s.in, w.from)
      b   == Earlier(out, w.to)
  IN  [in |-> a, out |-> IF s.out = 0 THEN 0 ELSE b, online |-> Span(a, b),
       paused |-> Earlier(s.paused, Span(a, b))]

Overlaps(s, w, now) ==
  (IF s.out = 0 THEN now ELSE s.out) >= w.from /\ s.in <= w.to

Clipped(clipped, s, w, now) ==
  IF Overlaps(s, w, now) THEN Append(clipped, ClipSession(s, w, now)) ELSE clipped

get_queue_sessions(evs, w, now) ==
  LET all == QueueSessionsWhole(evs, now)
  IN  IF w = Whole THEN all
      ELSE FoldLeft(LAMBDA clipped, s : Clipped(clipped, s, w, now), <<>>, all)

-----------------------------------------------------------------------------
(***************************************************************************)
(* get_all_agent_sessions.  A window that starts inside a session opens one *)
(* at its start, for an agent who has a row as DYNAMIC.  The total leaves    *)
(* out a session that a login closed.  A static agent has neither.          *)
(***************************************************************************)
AllStep(acc, e) ==
  IF e.kind = "LOGIN"
    THEN [acc EXCEPT !.in = e.at,
                     !.done = IF acc.in # 0
                                THEN Append(@, [in |-> acc.in, out |-> e.at])
                                ELSE @]
  ELSE IF e.kind = "LOGOUT" /\ acc.in # 0
    THEN [done |-> Append(acc.done, [in |-> acc.in, out |-> e.at]),
          in |-> 0, total |-> acc.total + Span(acc.in, e.at)]
  ELSE acc

get_all_agent_sessions(evs, w, type, now) ==
  LET opens == w.from # 0 /\ type = "DYNAMIC" /\ Inside(StateBefore(evs, w))
      start == IF opens THEN <<[kind |-> "LOGIN", at |-> w.from]>> ELSE <<>>
      acc   == FoldLeft(AllStep, [done |-> <<>>, in |-> 0, total |-> 0],
                        start \o Within(evs, w))
      end   == EndOf(w, now)
  IN  IF type = "STATIC" THEN [sessions |-> <<>>, total |-> NotTold]
      ELSE IF acc.in = 0 THEN [sessions |-> acc.done, total |-> acc.total]
      ELSE [sessions |-> Append(acc.done, [in |-> acc.in, out |-> 0]),
            total    |-> acc.total + Span(acc.in, end)]

-----------------------------------------------------------------------------
(***************************************************************************)
(* get_agent_analytics: online and paused are the totals it prints.  login  *)
(* and since are the open session and the pause that counts.                *)
(***************************************************************************)
(* Mutant: an unclosed session is forgotten when the next one starts.      *)
AnalyticsLoginForgets(acc, e) ==
  [acc EXCEPT !.login = e.at, !.since = 0]

AnalyticsLogin(acc, e) ==
  IF acc.login = 0 THEN [acc EXCEPT !.login = e.at]
  ELSE [login |-> e.at, since |-> 0,
        online |-> acc.online + Span(acc.login, e.at),
        paused |-> acc.paused + IF acc.since # 0 THEN Span(acc.since, e.at) ELSE 0]

AnalyticsStep(acc, e) ==
  LET ran == IF acc.since # 0 THEN Span(acc.since, e.at) ELSE 0 IN
  CASE e.kind = "LOGIN"   -> AnalyticsLogin(acc, e)
    [] e.kind = "LOGOUT"  ->
         [login |-> 0, since |-> 0, paused |-> acc.paused + ran,
          online |-> acc.online + IF acc.login # 0 THEN Span(acc.login, e.at) ELSE 0]
    [] e.kind = "PAUSE"   ->
         [acc EXCEPT !.paused = @ + ran,
                     !.since  = IF acc.login # 0 THEN e.at ELSE @]
    [] e.kind = "UNPAUSE" -> [acc EXCEPT !.paused = @ + ran, !.since = 0]

(* The last event before the window says whether the agent is in at its    *)
(* start, and on a pause.                                                  *)
AnalyticsStart(evs, w) ==
  LET state == IF w.from = 0 THEN "none" ELSE StateBefore(evs, w)
  IN  [online |-> 0, paused |-> 0,
       login  |-> IF Inside(state) THEN w.from ELSE 0,
       since  |-> IF state = "PAUSE" THEN w.from ELSE 0]

get_agent_analytics(evs, w, type, now) ==
  LET acc == FoldLeft(AnalyticsStep, AnalyticsStart(evs, w), Within(evs, w))
      end == EndOf(w, now)
      online == acc.online + IF acc.login # 0 THEN Span(acc.login, end) ELSE 0
      paused == acc.paused + IF acc.since # 0 THEN Span(acc.since, end) ELSE 0
  IN  IF type = "STATIC"
        THEN [online |-> NotTold, paused |-> NotTold, available |-> NotTold]
        ELSE [online |-> online, paused |-> paused, available |-> Span(paused, online)]

-----------------------------------------------------------------------------
(***************************************************************************)
(* The pause reports.  A second pause closes the first in both; a logout    *)
(* ends a pause only in get_all_agent_pauses.  A window cuts the pauses of   *)
(* a queue; the report reads the events in it.                              *)
(***************************************************************************)
PauseStep(acc, e, ends) ==
  IF e.kind = "PAUSE"
    THEN [since |-> e.at,
          done  |-> IF acc.since # 0
                      THEN Append(acc.done, [from |-> acc.since, to |-> e.at])
                      ELSE acc.done]
  ELSE IF e.kind \in ends /\ acc.since # 0
    THEN [since |-> 0, done |-> Append(acc.done, [from |-> acc.since, to |-> e.at])]
  ELSE acc

Pauses(evs, ends) ==
  FoldLeft(LAMBDA acc, e : PauseStep(acc, e, ends), [done |-> <<>>, since |-> 0], evs)

ClipPause(p, w) ==
  [from |-> Later(p.from, w.from), to |-> IF p.to = 0 THEN 0 ELSE Earlier(p.to, w.to)]

get_queue_pauses(evs, w, now) ==
  LET acc == Pauses(evs, {"UNPAUSE"})
      all == IF acc.since = 0 THEN acc.done
             ELSE Append(acc.done, [from |-> acc.since, to |-> 0])
      Meets(p) == Overlaps([in |-> p.from, out |-> p.to], w, now)
      kept == SelectSeq(all, Meets)
  IN  IF w = Whole THEN all ELSE [i \in DOMAIN kept |-> ClipPause(kept[i], w)]

get_all_agent_pauses(evs, w, type, now) ==
  LET runs  == w.from # 0 /\ type = "DYNAMIC" /\ StateBefore(evs, w) = "PAUSE"
      start == IF runs THEN <<[kind |-> "PAUSE", at |-> w.from]>> ELSE <<>>
      acc   == Pauses(start \o Within(evs, w), {"UNPAUSE", "LOGOUT"})
      Length(p) == Span(p.from, p.to)
  IN  IF acc.since = 0
        THEN [pauses |-> acc.done, total |-> SumOf(acc.done, Length)]
        ELSE [pauses |-> Append(acc.done, [from |-> acc.since, to |-> 0]),
              total  |-> SumOf(acc.done, Length) + Span(acc.since, EndOf(w, now))]
=============================================================================
