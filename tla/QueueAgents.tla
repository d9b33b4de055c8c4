----------------------------- MODULE QueueAgents ------------------------------
(***************************************************************************)
(* The agents of a queue: the rows of queue_agents (who is in the queue and *)
(* in which state), the log queue_agent_events the reports are made from,   *)
(* and everybody who writes them: the collector daemon, the web requests    *)
(* that log an agent in or out or pause him, the import of queue_log, and   *)
(* the reconciliation that the daemon and the dashboards run.               *)
(*                                                                          *)
(* The truth is the exchange's member list.  It changes by phone and by the *)
(* commands of the web requests, tells the collector by manager events      *)
(* (lost while nobody is connected), and writes a line to queue_log.        *)
(*                                                                          *)
(* A handler of rcm_queue_db.py reads the row before its transaction opens  *)
(* and writes by what it read.  So a process works through a list of calls  *)
(* (todo), each in two steps: Read, then the write.                         *)
(***************************************************************************)
EXTENDS AgentReports

CONSTANTS
  Agents,
  Collector,
  Web,
  Days          (* bound: the days that are explored: how many seconds they
                   have, how often the exchange's member list changes, how
                   many commands and connections fail, and whether the
                   static agents of the queue are edited *)

ASSUME AgentProcessAssumption == Collector \notin Web
ASSUME AgentBoundAssumption ==
  \A d \in Days : /\ d.seconds \in Nat /\ d.moves \in Nat /\ d.faults \in Nat
                  /\ d.edits \in Nat

VARIABLES
  member,    (* the exchange: "no", "DYNAMIC" or "STATIC" for each agent *)
  paused, busy,
  static,    (* static_agents of rcm_queues.json *)
  disabled,  (* disabled_agents of rcm_queues.json *)
  amiq,      (* manager events on the way to the collector *)
  linked,    (* is the collector connected? *)
  unread,    (* lines of queue_log that are not imported yet *)
  clock, moves,
  edits,     (* requests about the static agents, so far *)
  faults,    (* failures that are still to come *)
  day,       (* the day of Days this is *)
  row,       (* queue_agents *)
  events,    (* queue_agent_events, in the order of their timestamps *)
  todo,      (* the calls a process still has to make *)
  seen       (* what it has read for the first of them *)

exchange == <<member, paused, busy, amiq, unread, clock, moves>>
forms    == <<static, disabled, edits, day>>
tables   == <<row, events>>
procs    == <<todo, seen, linked>>
vars == <<exchange, forms, tables, procs, faults>>

Procs == {Collector} \cup Web

Online == {"AVAILABLE", "PAUSED", "BUSY", "NOT IN USE", "IN USE"}

NoAgent == [status |-> "none", type |-> "DYNAMIC", since |-> FALSE]
Gone    == {"none", "OFFLINE"}
Nothing == [a \in Agents |-> NoAgent]

(* What queue show and QueueStatus say of a member.                        *)
Shown(a) ==
  IF member[a] = "no" THEN "none"
  ELSE IF paused[a] THEN "PAUSED"
  ELSE IF busy[a] THEN "IN USE" ELSE "NOT IN USE"

(* Mutant: the "(paused" of a line of queue show is not read.               *)
MembersUnpaused == [a \in Agents |-> [NoAgent EXCEPT
    !.status = IF member[a] = "no" THEN "none"
               ELSE IF busy[a] THEN "IN USE" ELSE "NOT IN USE",
    !.type   = IF member[a] = "STATIC" THEN "STATIC" ELSE "DYNAMIC"]]

MembersShown == [a \in Agents |-> [NoAgent EXCEPT !.status = Shown(a),
                   !.type = IF member[a] = "STATIC" THEN "STATIC" ELSE "DYNAMIC"]]

(* A call of todo: what, for whom, with which argument.                    *)
Call(do, a, arg) == [do |-> do, agent |-> a, arg |-> arg]
Anybody          == CHOOSE a \in Agents : TRUE
Reconciling      == << Call("import", Anybody, <<>>), Call("show", Anybody, Nothing) >>

Init ==
  /\ member = [a \in Agents |-> "no"]
  /\ paused = [a \in Agents |-> FALSE] /\ busy = [a \in Agents |-> FALSE]
  /\ static = {} /\ disabled = {} /\ edits = 0
  /\ amiq = <<>> /\ unread = <<>> /\ clock = 1 /\ moves = 0
  /\ day \in Days /\ faults = day.faults
  /\ row = Nothing
  /\ events = [a \in Agents |-> <<>>]
  /\ todo = [p \in Procs |-> <<>>]
  /\ seen = [p \in Procs |-> <<>>]
  /\ linked = FALSE

-----------------------------------------------------------------------------
(* The exchange.                                                           *)

Event(kind, a) == [kind |-> kind, agent |-> a, status |-> Shown(a)']
Tell(evs)  == amiq' = IF linked THEN amiq \o evs ELSE amiq
Line(kind, a) == unread' = Append(unread, [kind |-> kind, agent |-> a, at |-> clock])

Moves == moves < day.moves /\ moves' = moves + 1 /\ UNCHANGED clock

Edits == edits < day.edits /\ edits' = edits + 1

Adds(a) ==
  /\ Moves /\ member[a] = "no"
  /\ member' = [member EXCEPT ![a] = "DYNAMIC"]
  /\ UNCHANGED <<paused, busy>>
  /\ Tell(<<Event("Added", a)>>) /\ Line("ADDMEMBER", a)

Removes(a) ==
  /\ Moves /\ member[a] = "DYNAMIC"
  /\ member' = [member EXCEPT ![a] = "no"]
  /\ paused' = [paused EXCEPT ![a] = FALSE] /\ UNCHANGED busy
  /\ Tell(<<Event("Removed", a)>>) /\ Line("REMOVEMEMBER", a)

Pauses_(a, on) ==
  /\ Moves /\ member[a] # "no" /\ paused[a] # on
  /\ paused' = [paused EXCEPT ![a] = on]
  /\ UNCHANGED <<member, busy>>
  /\ Tell(<<Event("Paused", a)>>) /\ Line(IF on THEN "PAUSE" ELSE "UNPAUSE", a)

(* A queue call rings an agent who is free, and ends.                      *)
Rings(a) ==
  /\ Moves /\ member[a] # "no" /\ ~paused[a] /\ ~busy[a]
  /\ busy' = [busy EXCEPT ![a] = TRUE]
  /\ UNCHANGED <<member, paused, unread>>
  /\ Tell(<<Event("Called", a), Event("Status", a)>>)

Hangs(a) ==
  /\ busy[a] /\ UNCHANGED <<moves, clock>>
  /\ busy' = [busy EXCEPT ![a] = FALSE]
  /\ UNCHANGED <<member, paused, unread>>
  /\ Tell(<<Event("Complete", a)>>
          \o IF member[a] = "no" THEN <<>> ELSE <<Event("Status", a)>>)

(* By phone, by the supervisor's manager command, or by a call.            *)
ByPhone ==
  /\ \E a \in Agents : \/ Adds(a) \/ Removes(a) \/ Rings(a) \/ Hangs(a)
                       \/ \E on \in BOOLEAN : Pauses_(a, on)
  /\ UNCHANGED <<forms, tables, procs, faults>>

Tick ==
  /\ clock < day.seconds /\ clock' = clock + 1
  /\ UNCHANGED <<member, paused, busy, amiq, unread, moves, forms, tables, procs, faults>>

-----------------------------------------------------------------------------
(* What one call writes: the row and the kind of event it logs.            *)

(* The reports read the events by their timestamp: e comes after those that *)
(* are not later, the others move up by one.                               *)
InsertEvent(s, e) ==
  LET stays(i) == i \in DOMAIN s /\ s[i].at <= e.at
  IN  [i \in 1..Len(s) + 1 |-> IF stays(i) THEN s[i]
                              ELSE IF i = 1 \/ stays(i - 1) THEN e ELSE s[i - 1]]

(* A change of status that is none of the four kinds is not reported.       *)
Logged(s, kind) ==
  IF kind \in EventKinds THEN InsertEvent(s, [kind |-> kind, at |-> clock]) ELSE s

LoginRow(r, type) ==
  [status |-> "AVAILABLE", type |-> type, since |-> r.since \/ r.status \in Gone]

LoginLog(s) == IF s.status \in Gone THEN "LOGIN" ELSE "none"

LogoutRow(r, s) ==
  IF s.status \in Gone \/ r.status = "none" THEN r
  ELSE [r EXCEPT !.status = "OFFLINE", !.since = FALSE]

LogoutLog(s) == IF s.status \in Gone THEN "none" ELSE "LOGOUT"

PauseStatus(on) == IF on THEN "PAUSED" ELSE "AVAILABLE"

PauseRow(r, s, on) ==
  IF s.status = PauseStatus(on) \/ r.status = "none" THEN r
  ELSE [r EXCEPT !.status = PauseStatus(on)]

PauseLog(s, on) ==
  IF s.status = PauseStatus(on) THEN "none"
  ELSE IF on THEN "PAUSE" ELSE "UNPAUSE"

(* The name of a change: the pause comes before the login.                 *)
ChangeLog(from, to) ==
  IF to = "PAUSED" THEN "PAUSE"
  ELSE IF from = "PAUSED" THEN "UNPAUSE"
  ELSE IF from = "OFFLINE" THEN "LOGIN" ELSE "STATUS_CHANGE"

StatusRow(r, s, to) ==
  IF s.status = "none"
    THEN [status |-> to, type |-> "DYNAMIC", since |-> TRUE]
  ELSE IF r.status = "none" \/ s.status = to THEN r
  ELSE [r EXCEPT !.status = to, !.since = s.since \/ s.status = "OFFLINE"]

StatusLog(s, to) ==
  IF s.status = "none" THEN "LOGIN"
  ELSE IF s.status = to THEN "none" ELSE ChangeLog(s.status, to)

(* db_agent_call_event: the statement looks at the row itself.             *)
RingRow(r) == IF r.status = "none" THEN r ELSE [r EXCEPT !.status = "BUSY"]
CompleteRow(r) ==
  IF r.status \in {"BUSY", "IN USE"} THEN [r EXCEPT !.status = "AVAILABLE"] ELSE r

-----------------------------------------------------------------------------
(***************************************************************************)
(* The import: each line updates the row as it stands and logs its event    *)
(* at the time of the line, unless that event is there for that second.     *)
(***************************************************************************)
LineEvent == [ADDMEMBER |-> "LOGIN", REMOVEMEMBER |-> "LOGOUT",
              PAUSE |-> "PAUSE", UNPAUSE |-> "UNPAUSE"]

LineRow(r, kind) ==
  IF kind = "ADDMEMBER" THEN [r EXCEPT !.status = "AVAILABLE", !.since = TRUE]
  ELSE IF r.status = "none" THEN r
  ELSE CASE kind = "REMOVEMEMBER" -> [r EXCEPT !.status = "OFFLINE"]
         [] kind = "PAUSE"        -> [r EXCEPT !.status = "PAUSED"]
         [] kind = "UNPAUSE"      -> [r EXCEPT !.status = "AVAILABLE"]

LineEvents(s, line) ==
  LET e == [kind |-> LineEvent[line.kind], at |-> line.at]
  IN  IF e \in {s[i] : i \in DOMAIN s} THEN s ELSE InsertEvent(s, e)

ImportLine(t, l) ==
  [row    |-> [t.row EXCEPT ![l.agent] = LineRow(@, l.kind)],
   events |-> [t.events EXCEPT ![l.agent] = LineEvents(@, l)]]

Imported(lines) == FoldLeft(ImportLine, [row |-> row, events |-> events], lines)

-----------------------------------------------------------------------------
(***************************************************************************)
(* The reconciliation of one agent: shown is what queue show said, s the    *)
(* row as it was read, r the row as it is, valid whether he is shown or     *)
(* configured.                                                              *)
(***************************************************************************)
SyncRow(r, s, shown, valid) ==
  IF s.status = "none"
    THEN IF ~valid THEN r
         ELSE IF shown.status = "none"
           THEN [status |-> "OFFLINE", type |-> "STATIC", since |-> FALSE]
           ELSE [shown EXCEPT !.since = TRUE]
  ELSE IF ~valid THEN NoAgent
  ELSE IF r.status = "none" THEN r
  ELSE IF shown.status = "none"
    THEN IF s.status = "OFFLINE" THEN r
         ELSE [r EXCEPT !.status = "OFFLINE", !.since = FALSE]
  ELSE [status |-> shown.status, type |-> shown.type,
        since  |-> r.since \/ s.status = "OFFLINE"]

SyncLog(s, shown, valid) ==
  IF s.status = "none"
    THEN IF ~valid THEN "none"
         ELSE IF shown.status = "none" THEN "LOGOUT" ELSE "LOGIN"
  ELSE IF shown.status = "none" THEN LogoutLog(s)
  ELSE IF shown.status = s.status /\ shown.type = s.type THEN "none"
  ELSE IF s.status = "PAUSED" /\ shown.status # "NOT IN USE"
    THEN IF shown.status = "PAUSED" THEN "PAUSE" ELSE "STATUS_CHANGE"
  ELSE ChangeLog(s.status, shown.status)

Valid(a, shown, configured) == shown[a].status # "none" \/ a \in configured

(* An insert of a row that somebody has inserted meanwhile fails, and with *)
(* it the whole transaction.                                               *)
SyncFails(shown, was) ==
  \E a \in Agents : /\ was.row[a].status = "none" /\ row[a].status # "none"
                    /\ Valid(a, shown, was.static)

-----------------------------------------------------------------------------
(* A process makes its next call.                                          *)

Next_(p)  == Head(todo[p])
Reads     == {"login", "logout", "pause", "status", "sync"}

Read(p) ==
  /\ todo[p] # <<>> /\ seen[p] = <<>> /\ Next_(p).do \in Reads
  /\ seen' = [seen EXCEPT ![p] =
        IF Next_(p).do = "sync" THEN <<[row |-> row, static |-> static]>>
                                ELSE <<row[Next_(p).agent]>>]
  /\ UNCHANGED <<exchange, forms, tables, faults, todo, linked>>

Return(p) == /\ todo' = [todo EXCEPT ![p] = Tail(@)]
             /\ seen' = [seen EXCEPT ![p] = <<>>]

Puts(a, r, kind) ==
  /\ row' = [row EXCEPT ![a] = r]
  /\ events' = [events EXCEPT ![a] = Logged(@, kind)]

Ready(p, do) == /\ todo[p] # <<>> /\ Next_(p).do = do
                /\ do \in Reads => seen[p] # <<>>

db_agent_login(p) ==
  /\ Ready(p, "login")
  /\ LET c == Next_(p) IN
     Puts(c.agent, LoginRow(row[c.agent], c.arg), LoginLog(seen[p][1]))
  /\ Return(p) /\ UNCHANGED <<exchange, forms, faults, linked>>

db_agent_logout(p) ==
  /\ Ready(p, "logout")
  /\ LET a == Next_(p).agent IN
     Puts(a, LogoutRow(row[a], seen[p][1]), LogoutLog(seen[p][1]))
  /\ Return(p) /\ UNCHANGED <<exchange, forms, faults, linked>>

db_agent_pause(p) ==
  /\ Ready(p, "pause")
  /\ LET c == Next_(p) IN
     Puts(c.agent, PauseRow(row[c.agent], seen[p][1], c.arg), PauseLog(seen[p][1], c.arg))
  /\ Return(p) /\ UNCHANGED <<exchange, forms, faults, linked>>

(* An insert that fails ends the collector's connection.                   *)
db_agent_status_update ==
  /\ Ready(Collector, "status")
  /\ LET c == Next_(Collector)  s == seen[Collector][1] IN
     IF s.status = "none" /\ row[c.agent].status # "none"
     THEN /\ linked' = FALSE /\ amiq' = <<>>
          /\ todo' = [todo EXCEPT ![Collector] = Reconciling]
          /\ seen' = [seen EXCEPT ![Collector] = <<>>]
          /\ UNCHANGED tables
     ELSE /\ Puts(c.agent, StatusRow(row[c.agent], s, c.arg), StatusLog(s, c.arg))
          /\ Return(Collector) /\ UNCHANGED <<linked, amiq>>
  /\ UNCHANGED <<member, paused, busy, unread, clock, moves, forms, faults>>

db_agent_call_event ==
  /\ \E do \in {"ring", "complete"} :
        /\ Ready(Collector, do)
        /\ LET a == Next_(Collector).agent IN
           Puts(a, IF do = "ring" THEN RingRow(row[a]) ELSE CompleteRow(row[a]), "none")
  /\ Return(Collector) /\ UNCHANGED <<exchange, forms, faults, linked>>

(* The import holds a lock; QueueLogSync has its steps.                    *)
sync_queue_log(p) ==
  /\ Ready(p, "import")
  /\ LET t == Imported(unread) IN row' = t.row /\ events' = t.events
  /\ unread' = <<>>
  /\ Return(p)
  /\ UNCHANGED <<member, paused, busy, amiq, clock, moves, forms, faults, linked>>

(* The answer of queue show; a command that fails shows nobody.            *)
QueueShow(p) ==
  /\ Ready(p, "show")
  /\ \E ok \in BOOLEAN :
       /\ ok \/ faults > 0
       /\ faults' = IF ok THEN faults ELSE faults - 1
       /\ todo' = [todo EXCEPT ![p] =
             <<Call("sync", Anybody, IF ok THEN MembersShown ELSE Nothing)>> \o Tail(@)]
  /\ UNCHANGED <<exchange, forms, tables, seen, linked>>

reconcile_agents(p) ==
  /\ Ready(p, "sync")
  /\ LET shown == Next_(p).arg
         was   == seen[p][1]
         ok(a) == Valid(a, shown, was.static)
     IN IF SyncFails(shown, was) THEN UNCHANGED tables
        ELSE /\ row' = [a \in Agents |-> SyncRow(row[a], was.row[a], shown[a], ok(a))]
             /\ events' = [a \in Agents |->
                   Logged(events[a], SyncLog(was.row[a], shown[a], ok(a)))]
  /\ Return(p) /\ UNCHANGED <<exchange, forms, faults, linked>>

-----------------------------------------------------------------------------
(* The collector.                                                          *)

Collector_connects ==
  /\ ~linked /\ todo[Collector] = <<>>
  /\ linked' = TRUE
  /\ LET here == SetToSeq({a \in Agents : member[a] # "no"})
         Sync(a) == << Call("login", a, MembersShown[a].type),
                       Call("status", a, Shown(a)) >>
     IN todo' = [todo EXCEPT ![Collector] =
                   FoldLeft(LAMBDA t, a : t \o Sync(a), <<>>, here)]
  /\ UNCHANGED <<exchange, forms, tables, seen, faults>>

(* Connection lost: what was on the way is lost, and it reconciles.        *)
Collector_cut ==
  /\ linked /\ todo[Collector] = <<>> /\ faults > 0
  /\ linked' = FALSE /\ amiq' = <<>> /\ faults' = faults - 1
  /\ todo' = [todo EXCEPT ![Collector] = Reconciling]
  /\ UNCHANGED <<member, paused, busy, unread, clock, moves, forms, tables, seen>>

(* The periodic sync reads the socket and drops the events it meets.       *)
Collector_drops ==
  /\ linked /\ todo[Collector] = <<>> /\ amiq # <<>> /\ faults > 0
  /\ amiq' = <<>> /\ faults' = faults - 1
  /\ UNCHANGED <<member, paused, busy, unread, clock, moves, forms, tables, procs>>

handle_event ==
  /\ linked /\ todo[Collector] = <<>> /\ amiq # <<>>
  /\ LET e == Head(amiq) IN
     todo' = [todo EXCEPT ![Collector] =
       << CASE e.kind = "Added"    -> Call("login", e.agent, "DYNAMIC")
            [] e.kind = "Removed"  -> Call("logout", e.agent, <<>>)
            [] e.kind = "Paused"   -> Call("pause", e.agent, e.status = "PAUSED")
            [] e.kind = "Status"   -> Call("status", e.agent, e.status)
            [] e.kind = "Called"   -> Call("ring", e.agent, <<>>)
            [] e.kind = "Complete" -> Call("complete", e.agent, <<>>) >>]
  /\ amiq' = Tail(amiq)
  /\ UNCHANGED <<member, paused, busy, unread, clock, moves, forms, tables, seen, linked, faults>>

-----------------------------------------------------------------------------
(* Web requests: the exchange's command first, then the tables.            *)

Starts(w, calls) == todo[w] = <<>> /\ todo' = [todo EXCEPT ![w] = calls]

queue_agent_join(w, a) ==
  /\ Starts(w, <<Call("login", a, "DYNAMIC")>> \o Reconciling)
  /\ Adds(a)
  /\ UNCHANGED <<forms, tables, seen, linked, faults>>

queue_agent_leave(w, a) ==
  /\ Starts(w, <<Call("logout", a, <<>>)>> \o Reconciling)
  /\ Removes(a)
  /\ UNCHANGED <<forms, tables, seen, linked, faults>>

(* Pause and unpause: the page of the agent leaves the configuration.      *)
queue_agent_pause(w, a, on) ==
  /\ Starts(w, <<Call("pause", a, on)>> \o Reconciling)
  /\ Pauses_(a, on)
  /\ UNCHANGED <<forms, tables, seen, linked, faults>>

(* queue_agent_disable and queue_agent_enable also write disabled_agents.  *)
queue_agent_set(w, a, on) ==
  /\ Edits /\ a \in static
  /\ on => a \notin disabled
  /\ disabled' = IF on THEN disabled \cup {a} ELSE disabled \ {a}
  /\ Starts(w, <<Call("pause", a, on)>> \o Reconciling)
  /\ Pauses_(a, on)
  /\ UNCHANGED <<static, day, tables, seen, linked, faults>>

(* The agent is not in the exchange: its command fails after the save.     *)
queue_agent_set_fails(w, a, on) ==
  /\ Edits /\ a \in static /\ member[a] = "no" /\ (on <=> a \notin disabled)
  /\ todo[w] = <<>>
  /\ disabled' = IF on THEN disabled \cup {a} ELSE disabled \ {a}
  /\ UNCHANGED <<exchange, static, day, tables, procs, faults>>

queue_agent_add(w, a) ==
  /\ Edits /\ a \notin static
  /\ static' = static \cup {a}
  /\ Starts(w, << Call("login", a, "STATIC"), Call("offline", a, <<>>) >>)
  /\ UNCHANGED <<exchange, disabled, day, tables, seen, linked, faults>>

queue_agent_remove(w, a) ==
  /\ Edits /\ a \in static
  /\ static' = static \ {a} /\ disabled' = disabled \ {a}
  /\ Starts(w, << Call("delete", a, <<>>) >>)
  /\ UNCHANGED <<exchange, day, tables, seen, linked, faults>>

(* The statements these two run on the row themselves.                     *)
AgentForm(w) ==
  /\ \E do \in {"offline", "delete"} :
        /\ Ready(w, do)
        /\ LET a == Next_(w).agent IN
           row' = [row EXCEPT ![a] =
                     IF do = "delete" THEN NoAgent
                     ELSE IF @.status = "none" THEN @
                     ELSE [@ EXCEPT !.status = "OFFLINE"]]
  /\ Return(w) /\ UNCHANGED <<exchange, forms, events, faults, linked>>

(* The reload that both ask for is deferred: static members come and go,   *)
(* without an event, when somebody applies the pending changes.            *)
api_apply_changes(w) ==
  /\ Edits /\ todo[w] = <<>>
  /\ \E a \in Agents : (a \in static) # (member[a] = "STATIC")
  /\ member' = [a \in Agents |-> IF a \in static THEN "STATIC"
                                 ELSE IF member[a] = "STATIC" THEN "no" ELSE member[a]]
  /\ paused' = [a \in Agents |-> IF member[a] = "no" THEN a \in static \cap disabled
                                 ELSE paused[a] /\ member'[a] # "no"]
  /\ UNCHANGED <<busy, amiq, unread, clock, moves, static, disabled, day, tables, procs, faults>>

(* The dashboard gives static agents a row and reconciles.                 *)
get_live_dashboard_status(w) ==
  /\ Starts(w, Reconciling)
  /\ row' = [a \in Agents |->
        IF a \in static /\ row[a].status = "none"
          THEN [status |-> "OFFLINE", type |-> "STATIC", since |-> FALSE] ELSE row[a]]
  /\ UNCHANGED <<exchange, forms, events, seen, linked, faults>>

CollectorStep ==
  \/ Collector_connects \/ handle_event
  \/ db_agent_status_update \/ db_agent_call_event

CallStep(p) ==
  \/ Read(p) \/ db_agent_login(p) \/ db_agent_logout(p) \/ db_agent_pause(p)
  \/ sync_queue_log(p) \/ QueueShow(p) \/ reconcile_agents(p)

Request(w, a) ==
  \/ queue_agent_join(w, a) \/ queue_agent_leave(w, a)
  \/ queue_agent_add(w, a) \/ queue_agent_remove(w, a)
  \/ \E on \in BOOLEAN : \/ queue_agent_pause(w, a, on) \/ queue_agent_set(w, a, on)
                         \/ queue_agent_set_fails(w, a, on)

Dashboard == \E w \in Web : get_live_dashboard_status(w)

WebStep(w) == AgentForm(w) \/ CallStep(w)

Next ==
  \/ ByPhone \/ Tick
  \/ CollectorStep \/ CallStep(Collector) \/ Collector_cut \/ Collector_drops
  \/ \E w \in Web : WebStep(w) \/ api_apply_changes(w) \/ \E a \in Agents : Request(w, a)
  \/ Dashboard

(***************************************************************************)
(* The collector and every request go on; somebody has a dashboard open,    *)
(* which asks again and again.                                              *)
(***************************************************************************)
Fairness ==
  /\ WF_vars(CollectorStep \/ CallStep(Collector))
  /\ \A w \in Web : WF_vars(WebStep(w))
  /\ WF_vars(Dashboard)

Spec == Init /\ [][Next]_vars /\ Fairness

-----------------------------------------------------------------------------
(* Properties.                                                             *)

Fits(r, a) ==
  CASE Shown(a) = "none"       -> r.status \in Gone
    [] Shown(a) = "PAUSED"     -> r.status = "PAUSED"
    [] Shown(a) = "IN USE"     -> r.status \in {"BUSY", "IN USE"}
    [] Shown(a) = "NOT IN USE" -> r.status \in {"AVAILABLE", "NOT IN USE"}

(* TypeOK: the tables hold the values the columns can have.                *)
TypeOK ==
  /\ \A a \in Agents :
       /\ member[a] \in {"no", "DYNAMIC", "STATIC"}
       /\ row[a].status \in Gone \cup Online
       /\ row[a].type \in {"DYNAMIC", "STATIC"} /\ row[a].since \in BOOLEAN
       /\ row[a].status = "none" => row[a] = NoAgent
       /\ \A i \in DOMAIN events[a] :
            /\ events[a][i].kind \in EventKinds /\ events[a][i].at \in 1..clock
            /\ i > 1 => events[a][i - 1].at <= events[a][i].at
  /\ disabled \subseteq static
  /\ linked \in BOOLEAN /\ faults \in 0..day.faults /\ moves \in 0..day.moves
  /\ edits \in 0..day.edits

(* BoardSettles: once the exchange is quiet, the rows come to agree with   *)
(* its member list and stay so, whatever was lost or crossed before.       *)
BoardSettles == <>[](\A a \in Agents : Fits(row[a], a))

Windows == {Whole} \cup [from : 1..clock, to : 1..clock]

(* PauseFits: no session has a longer pause than itself, so that the       *)
(* available time the reports print is the online time less the pause.     *)
PauseFits ==
  \A a \in Agents : \A w \in Windows :
    LET s == get_queue_sessions(events[a], w, clock)
    IN  \A i \in DOMAIN s : s[i].paused <= s[i].online

(* The type a report finds for an agent.                                   *)
TypeFound(a) == IF row[a].status = "none" THEN "none" ELSE row[a].type

(* ReportsAgree: of an agent who is not static now, the sessions of a      *)
(* queue, the sessions report and the totals per agent tell the same       *)
(* sessions and the same online time, whatever he was when they began, and *)
(* no total counts more pause than the pause report.  Of a static agent    *)
(* the two reports tell no times, whereas his queue still lists his        *)
(* sessions.  The pause reports list as many pauses of either.             *)
ReportsAgree ==
  \A a \in Agents :
    LET q == get_queue_sessions(events[a], Whole, clock)
        s == get_all_agent_sessions(events[a], Whole, TypeFound(a), clock)
        t == get_agent_analytics(events[a], Whole, TypeFound(a), clock)
        p == get_all_agent_pauses(events[a], Whole, TypeFound(a), clock)
        SpentOnline(x) == x.online
        SpentPaused(x) == x.paused
    IN  /\ TypeFound(a) # "STATIC" =>
             /\ [i \in DOMAIN q |-> <<q[i].in, q[i].out>>]
                  = [i \in DOMAIN s.sessions |-> <<s.sessions[i].in, s.sessions[i].out>>]
             /\ s.total <= t.online
             /\ t.online = SumOf(q, SpentOnline)
             /\ SumOf(q, SpentPaused) <= t.paused /\ t.paused <= p.total
        /\ SumOf(q, SpentPaused) <= p.total
        /\ Len(get_queue_pauses(events[a], Whole, clock)) = Len(p.pauses)
=============================================================================
