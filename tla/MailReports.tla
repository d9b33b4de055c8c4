----------------------------- MODULE MailReports ------------------------------
(***************************************************************************)
(* The scheduler thread of the web process.  Every minute it counts the      *)
(* calls each extension missed since it was last told and mails those over    *)
(* the threshold, then sends the report of the calls when one is due: it      *)
(* imports the CDRs, mails the report, and mails every extension a copy of     *)
(* its own calls.  What was sent is known from the successes in mail_logs.     *)
(*                                                                          *)
(* process_mail_queue, the first thing of every minute, does nothing: no      *)
(* code puts a mail into mail_queue.                                         *)
(*                                                                          *)
(* Time is counted in slots of a day, so a report's time is a slot.          *)
(***************************************************************************)
EXTENDS CdrImport

CONSTANTS
  DayLen,       (* slots of a day *)
  FirstDay,     (* the day each month begins: the calendar *)
  UtcOffset,    (* slots local time is ahead of the times in Master.csv *)
  Recipients,   (* addresses the report may be sent to *)
  MailOf(_),    (* the address of an extension *)
  Forms         (* settings the mail form accepts *)

ASSUME CalendarAssumption ==
  /\ DayLen \in Nat \ {0} /\ UtcOffset \in Nat
  /\ FirstDay \in Seq(Nat) /\ Len(FirstDay) > 1
  /\ \A m, n \in DOMAIN FirstDay : m < n => FirstDay[m] < FirstDay[n]
ASSUME FormAssumption ==
  \A f \in Forms :
    /\ f.schedule \in {"daily", "weekly", "monthly"} /\ f.time \in 0 .. DayLen - 1
    /\ f.weekday \in 0 .. 6 /\ f.monthday \in Nat \ {0} /\ f.email \in Recipients
ASSUME StartAssumption ==
  /\ Recipients \cap Exts = {}
  /\ \A q \in Plans :
       /\ q.settings \in Forms /\ q.last \in Int /\ -1 <= q.last /\ q.last <= q.start
       (* a month before it begins to the last one of the calendar *)
       /\ q.start \in Nat /\ FirstDay[2] * DayLen <= q.start
       /\ q.start + q.slots < FirstDay[Len(FirstDay)] * DayLen

VARIABLES
  settings,     (* mail_settings: one row *)
  up,           (* external: does the mail server accept mails? *)
  rings,        (* external: RINGNOANSWER events of queue_log *)
  sched,        (* the scheduler thread *)
  lastCdr,      (* mail_logs: the last success of feature CDR, per recipient *)
  lastAlert,    (* mail_logs: the last success of feature Missed Call *)
  got,          (* history: the last report everybody received *)
  told,         (* history: calls an extension was told it missed *)
  again,        (* history: kinds of mail somebody received twice *)
  trouble       (* history: what went wrong *)

mailVars == <<settings, up, rings, sched, lastCdr, lastAlert, got, told, again, trouble>>
vars     == <<importVars, now, left, mailVars>>

Never     == -1
Addresses == { MailOf(e) : e \in Exts }
Waiting   == [pc |-> "alerts", at |-> 0, form |-> <<>>, todo |-> {}]

-----------------------------------------------------------------------------
(* When a report is due.                                                   *)

DayOf(t)    == t \div DayLen
MonthOf(d)  == CHOOSE m \in 1 .. Len(FirstDay) - 1 : d \in FirstDay[m] .. FirstDay[m + 1] - 1
MonthLen(m) == FirstDay[m + 1] - FirstDay[m]
Shorter(a, b) == IF a < b THEN a ELSE b

(* Mutant: a month without the day has its report when the next one begins.  *)
UnclampedDay(m, form) == FirstDay[m] + form.monthday - 1

MonthDay(m, form) == FirstDay[m] + Shorter(form.monthday, MonthLen(m)) - 1

scheduled_report_occurrence(t, form) ==
  LET at(d) == d * DayLen + form.time
      today == DayOf(t)
      last(d, before) == at(IF at(d) <= t THEN d ELSE before)
      weekday == today - ((today - form.weekday) % 7)
      month   == MonthOf(today)
  IN CASE form.schedule = "daily"   -> last(today, today - 1)
       [] form.schedule = "weekly"  -> last(weekday, weekday - 7)
       [] form.schedule = "monthly" -> last(MonthDay(month, form), MonthDay(month - 1, form))

(* Mutant: one report a day.                                                *)
DueByDay(t, last, form) ==
  LET occurrence == scheduled_report_occurrence(t, form)
  IN IF last = Never THEN DayOf(occurrence) = DayOf(t) ELSE DayOf(last) < DayOf(t)

(* A recipient nothing was sent to waits for the next occurrence.            *)
is_cdr_report_due(t, last, form) ==
  LET occurrence == scheduled_report_occurrence(t, form)
  IN IF last = Never THEN DayOf(occurrence) = DayOf(t) ELSE last < occurrence

Period(form) == DayLen * (CASE form.schedule = "daily"   -> 1
                            [] form.schedule = "weekly"  -> 7
                            [] form.schedule = "monthly" -> 30)

-----------------------------------------------------------------------------
(* monitor_missed_calls.                                                   *)

(* Mutant: the alerts of the last day do not count.                         *)
SinceYesterday(e) == now - DayLen

LastAlert(e) ==
  IF lastAlert[MailOf(e)] = Never THEN now - DayLen ELSE lastAlert[MailOf(e)]

(* Direct calls are those of Master.csv, if all of it can be read, at the     *)
(* time it gives them; the rings of one caller within a minute are one.       *)
Missed(e) ==
  { [uid |-> l.uid, leg |-> l.leg, at |-> l.start] :
      l \in { k \in Lines(csv) : /\ k.missed = e /\ k.start - UtcOffset > LastAlert(e)
                                 /\ ~\E n \in DOMAIN csv : csv[n].bad } }
  \cup { [uid |-> r.uid, leg |-> Nobody, at |-> r.at] :
           r \in { k \in rings : k.ext = e /\ k.at > LastAlert(e) } }

monitor_missed_calls ==
  /\ sched.pc = "alerts"
  /\ LET over == IF settings.alerts
                 THEN { [ext |-> e, calls |-> Missed(e)] : e \in
                          { x \in Exts : /\ Missed(x) # {}
                                         /\ Cardinality(Missed(x)) >= settings.threshold } }
                 ELSE {}
     IN sched' = [sched EXCEPT !.pc = IF over = {} THEN "report" ELSE "alerting", !.todo = over]
  /\ UNCHANGED <<importVars, now, left, settings, up, rings, lastCdr, lastAlert, got, told, again, trouble>>

-----------------------------------------------------------------------------
(* send_email: accepted and logged, accepted but not logged (the insert      *)
(* fails, and perhaps also that of the failure, which ends the minute), or    *)
(* refused.                                                                 *)

(* Mutant: a refused mail is logged as sent.                                *)
LogAnyway(log, to) == [log EXCEPT ![to] = now]

log_email(log, to) == IF up THEN [log EXCEPT ![to] = now] ELSE log

Sent == up /\ UNCHANGED <<left, trouble>>
Unlogged == up /\ Spend("faults") /\ trouble' = trouble \cup {"unlogged"}
Refused == ~up /\ trouble' = trouble \cup {"refused"} /\ UNCHANGED left

DropFirst(m) == LET rest == sched.todo \ {m}
                IN IF rest = {} THEN [sched EXCEPT !.pc = IF @ = "alerting" THEN "report" ELSE "alerts",
                                                   !.todo = {}]
                   ELSE [sched EXCEPT !.todo = rest]

AlertsExtension ==
  /\ sched.pc = "alerting"
  /\ \E m \in sched.todo :
       /\ \/ /\ Sent \/ Refused
             /\ lastAlert' = log_email(lastAlert, MailOf(m.ext)) /\ sched' = DropFirst(m)
          \/ Unlogged /\ sched' \in {DropFirst(m), [Waiting EXCEPT !.pc = "report"]}
             /\ UNCHANGED lastAlert
       /\ IF up
          THEN /\ told' = told \cup ({m.ext} \X m.calls)
               /\ again' = IF told \cap ({m.ext} \X m.calls) = {} THEN again
                           ELSE again \cup {"alert"}
          ELSE UNCHANGED <<told, again>>
  /\ UNCHANGED <<importVars, now, settings, up, rings, lastCdr, got>>

-----------------------------------------------------------------------------
(* check_and_send_cdr_reports.                                             *)

check_and_send_cdr_reports ==
  /\ sched.pc = "report"
  /\ sched' = IF settings.enabled /\ is_cdr_report_due(now, lastCdr[settings.email], settings)
              THEN [pc |-> "sync", at |-> now, form |-> settings, todo |-> {}]
              ELSE Waiting
  /\ UNCHANGED <<importVars, now, left, settings, up, rings, lastCdr, lastAlert, got, told, again, trouble>>

(* It imports under the lock, if there is a file.                           *)
ReportSyncs ==
  /\ sched.pc = "sync"
  /\ \/ sync_reads("scheduler") /\ sched' = [sched EXCEPT !.pc = "syncing"]
     \/ csv = <<>> /\ sched' = [sched EXCEPT !.pc = "mail"] /\ UNCHANGED <<importVars, now, left>>
  /\ UNCHANGED <<settings, up, rings, lastCdr, lastAlert, got, told, again, trouble>>

ReportSynced ==
  /\ sched.pc = "syncing" /\ imp.by # "scheduler"
  /\ sched' = [sched EXCEPT !.pc = "mail"]
  /\ UNCHANGED <<importVars, now, left, settings, up, rings, lastCdr, lastAlert, got, told, again, trouble>>

Occurrence == scheduled_report_occurrence(sched.at, sched.form)
Receives(who, kind) ==
  /\ got' = [got EXCEPT ![who] = [occ |-> Occurrence, at |-> now]]
  /\ again' = IF got[who].occ = Occurrence THEN again \cup {kind} ELSE again

(* The rows are read, the workbook is written, or cannot be, and mailed; the  *)
(* copies follow whatever became of it.                                     *)
MailsReport ==
  /\ sched.pc = "mail"
  /\ LET mine == { e \in Exts : \E r \in rows :
                     r.line.missed = e /\ r.line.start >= sched.at - Period(sched.form) }
         next == IF mine = {} THEN Waiting ELSE [sched EXCEPT !.pc = "copies", !.todo = mine]
     IN \/ /\ Sent \/ Refused
           /\ lastCdr' = log_email(lastCdr, sched.form.email) /\ sched' = next
        \/ Unlogged /\ sched' \in {next, Waiting} /\ UNCHANGED lastCdr
  /\ IF up THEN Receives(sched.form.email, "report") ELSE UNCHANGED <<got, again>>
  /\ UNCHANGED <<importVars, now, settings, up, rings, lastAlert, told>>

NoWorkbook ==
  /\ sched.pc = "mail" /\ Spend("faults") /\ sched' = Waiting
  /\ UNCHANGED <<importVars, now, settings, up, rings, lastCdr, lastAlert, got, told, again, trouble>>

MailsCopy ==
  /\ sched.pc = "copies"
  /\ \E e \in sched.todo :
       /\ sched' = DropFirst(e)
       /\ IF up THEN Receives(e, "copy") ELSE UNCHANGED <<got, again>>
  /\ UNCHANGED <<importVars, now, left, settings, up, rings, lastCdr, lastAlert, told, trouble>>

-----------------------------------------------------------------------------
(* Everybody else.                                                         *)

(* A page about calls imports; a commit that fails ends the request, or the   *)
(* minute of the scheduler.                                                 *)
PageImports == sync_reads("page") /\ UNCHANGED mailVars

ImportCommits ==
  /\ sync_commits
  /\ sched' = IF imp.by = "scheduler" /\ imp' = Resting THEN Waiting ELSE sched
  /\ UNCHANGED <<settings, up, rings, lastCdr, lastAlert, got, told, again, trouble>>

ImportSaves == sync_saves /\ UNCHANGED mailVars

save_mail_settings(form) == settings' = form

mail_settings ==
  /\ Spend("edits")
  /\ \E f \in Forms \ {settings} :
       /\ save_mail_settings(f)
       /\ trouble' = IF f.email = settings.email THEN trouble ELSE trouble \cup {"recipient"}
  /\ UNCHANGED <<importVars, now, up, rings, sched, lastCdr, lastAlert, got, told, again>>

ProcessDies ==
  /\ Spend("faults") /\ Interrupted /\ sched' = Waiting
  /\ UNCHANGED <<now, settings, up, rings, lastCdr, lastAlert, got, told, again, trouble>>

CallEnds   == Asterisk_writes /\ UNCHANGED mailVars
LogRotates == Rotates /\ UNCHANGED mailVars

QueueRings ==
  /\ Spend("rings")
  /\ \E e \in left.missing, u \in Calls :
       LET r == [ext |-> e, uid |-> u, at |-> now] IN r \notin rings /\ rings' = rings \cup {r}
  /\ UNCHANGED <<importVars, now, settings, up, sched, lastCdr, lastAlert, got, told, again, trouble>>

TimePasses ==
  /\ Spend("slots") /\ now' = now + 1
  /\ UNCHANGED <<importVars, mailVars>>

ServerStops ==
  /\ up /\ Spend("outages") /\ up' = FALSE
  /\ UNCHANGED <<importVars, now, settings, rings, sched, lastCdr, lastAlert, got, told, again, trouble>>

ServerRecovers ==
  /\ ~up /\ up' = TRUE
  /\ UNCHANGED <<importVars, now, left, settings, rings, sched, lastCdr, lastAlert, got, told, again, trouble>>

-----------------------------------------------------------------------------

Init ==
  \E q \in Plans :
    /\ csv = <<>> /\ rotated = {} /\ rows = {} /\ place = NoPlace /\ imp = Resting
    /\ unsaved = FALSE /\ passed = {} /\ now = q.start /\ left = q
    /\ settings = q.settings /\ up = TRUE /\ rings = {} /\ sched = Waiting
    /\ lastCdr = [m \in Recipients |-> IF m = q.settings.email THEN q.last ELSE Never]
    /\ lastAlert = [a \in Addresses |-> Never]
    /\ got = [w \in Recipients \cup Exts |->
                 [occ |-> Never, at |-> IF w = q.settings.email THEN q.last ELSE Never]]
    /\ told = {} /\ again = {} /\ trouble = {}

Thread == monitor_missed_calls \/ AlertsExtension \/ check_and_send_cdr_reports
          \/ ReportSynced \/ MailsReport \/ NoWorkbook \/ MailsCopy

Next ==
  \/ monitor_missed_calls \/ AlertsExtension
  \/ check_and_send_cdr_reports \/ ReportSyncs \/ ReportSynced
  \/ MailsReport \/ NoWorkbook \/ MailsCopy
  \/ PageImports \/ ImportCommits \/ ImportSaves
  \/ mail_settings \/ ProcessDies
  \/ CallEnds \/ LogRotates \/ QueueRings \/ TimePasses \/ ServerStops \/ ServerRecovers

(* The thread goes on and gets the import's lock some time, a page about     *)
(* calls is opened again and again, an import ends, the server comes back.    *)
Fairness ==
  /\ WF_vars(Thread) /\ SF_vars(ReportSyncs)
  /\ WF_vars(PageImports) /\ WF_vars(ImportCommits) /\ WF_vars(ImportSaves)
  /\ WF_vars(ServerRecovers)

Spec == Init /\ [][Next]_vars /\ Fairness

-----------------------------------------------------------------------------
(* Properties.                                                             *)

(* The rows are lines Asterisk wrote; every mail is for a time that came.    *)
TypeOK ==
  /\ ImportTypeOK
  /\ settings \in Forms
  /\ sched.pc \in {"alerts", "alerting", "report", "sync", "syncing", "mail", "copies"}
  /\ \A w \in DOMAIN got : got[w].occ <= got[w].at /\ got[w].at <= now
  /\ \A m \in Recipients : lastCdr[m] <= now
  /\ \A p \in told : p[1] \in Exts /\ p[2].at <= now

(* scheduled_report_occurrence gives the last time at or before now that      *)
(* fits the schedule, a month without the day having it on its last one.      *)
Occurs(t, form) ==
  LET d == DayOf(t)  m == MonthOf(d)  inMonth == d - FirstDay[m] + 1
  IN /\ t % DayLen = form.time
     /\ form.schedule = "weekly" => d % 7 = form.weekday
     /\ form.schedule = "monthly" =>
          \/ inMonth = form.monthday
          \/ inMonth = MonthLen(m) /\ form.monthday > MonthLen(m)

OccurrenceIsLatest ==
  \A f \in Forms : LET o == scheduled_report_occurrence(now, f) IN
    o <= now /\ Occurs(o, f) /\ \A t \in o + 1 .. now : ~Occurs(t, f)

(* Whatever is edited, interrupted or refused, a recipient gets one report    *)
(* of an occurrence unless a success was not logged; an extension gets one     *)
(* copy unless the report was also refused or sent to somebody else.          *)
OneCopyEach ==
  /\ "report" \in again => "unlogged" \in trouble
  /\ "copy" \in again => trouble # {}

(* No call is told twice to an extension unless a success was not logged.     *)
NotAlertedTwice == "alert" \in again => "unlogged" \in trouble

(* A report is not owed for ever: the one who had the last one receives it,   *)
(* however often the server was down, or the settings change.                *)
Owed ==
  LET occurrence == scheduled_report_occurrence(now, settings)
      to == settings.email
  IN settings.enabled /\ lastCdr[to] # Never /\ got[to].at < occurrence

NoOccurrenceForgotten == []<>~Owed
=============================================================================
