------------------------------ MODULE QueueCalls ------------------------------
(***************************************************************************)
(* The queue calls of rcm_queue.db and the processes that write them: the  *)
(* collector daemon (rcm_queue_collector.py), one event after the other,   *)
(* and the web requests, which import queue_log and reconcile the tables   *)
(* with what the exchange reports.                                         *)
(*                                                                         *)
(* A step is what one process does between two points where another can    *)
(* run: SQLite transactions are atomic, but rcm_queue_db.py reads before   *)
(* its first write (when no transaction is open yet) and spreads a handler *)
(* over several transactions.  So a hangup decides on a row it read        *)
(* earlier, renumbering writes positions it computed earlier, and a        *)
(* reconciliation works on lists it took from the exchange earlier.        *)
(***************************************************************************)
EXTENDS AsteriskQueue

CONSTANTS
  Collector,    (* the daemon *)
  Web,          (* web requests and jobs that may reconcile *)
  NoCall,       (* no hangup is in progress *)
  AgentsLeave   (* may an agent leave the queue while on a call? *)

ASSUME ProcessAssumption == Collector \notin Web
ASSUME NoCallAssumption  == NoCall \notin Calls
ASSUME SwitchAssumption  == AgentsLeave \in BOOLEAN

Procs == {Collector} \cup Web

VARIABLES
  rows,      (* queue_calls *)
  live,      (* queue_live *)
  pc,        (* where each process is *)
  job,       (* the hangup in progress: call, row as read, why *)
  places,    (* the renumbering in progress: positions as computed *)
  snap,      (* what a reconciliation has read so far *)
  resync     (* queue entries the collector still has to enter after connecting *)

dbVars   == <<rows, live>>
procVars == <<pc, job, places, snap, resync>>
vars     == <<asteriskVars, dbVars, procVars>>

NoPlaces == [c \in Calls |-> 0]
NoJob  == [call |-> NoCall, seen |-> NoRow, cause |-> "other", reason |-> "ami"]
NoSnap == [on |-> FALSE, active |-> {}, waiting |-> {}, ghosts |-> {}, missing |-> {}]

Init ==
  /\ AstInit
  /\ rows   = [c \in Calls |-> NoRow]
  /\ live   = [c \in Calls |-> NoLive]
  /\ pc     = [p \in Procs |-> "idle"]
  /\ job    = [p \in Procs |-> NoJob]
  /\ places = [p \in Procs |-> NoPlaces]
  /\ snap   = [p \in Procs |-> NoSnap]
  /\ resync = {}

Goes(p, from, to) ==
  /\ pc[p] = from
  /\ pc' = [pc EXCEPT ![p] = to]

SetRow(c, r)  == rows' = [rows EXCEPT ![c] = r]
SetLive(c, l) == live' = [live EXCEPT ![c] = l]

Board == {c \in Calls : OnBoard(live[c])}

-----------------------------------------------------------------------------
(* The collector handles the oldest event.                                 *)

(* A handler starts on the event at the head of the socket.                *)
Handles(kind, next) ==
  /\ amiq # <<>>
  /\ Head(amiq).kind = kind
  /\ amiq' = Tail(amiq)
  /\ Goes(Collector, "idle", next)
  /\ UNCHANGED <<phase, joined, clock, conn, drops, unread, outcome>>

HandleJoin ==
  LET e == Head(amiq) IN
  /\ Handles("Join", "idle")
  /\ SetRow(e.call, EnterRow(rows[e.call]))
  /\ SetLive(e.call, EnterLive(live[e.call], e.pos, e.at))
  /\ UNCHANGED <<job, places, snap, resync>>

HandleCalled ==
  LET c == Head(amiq).call IN
  /\ Handles("Called", "idle")
  /\ SetRow(c, RingRow(rows[c]))
  /\ SetLive(c, RingLive(live[c]))
  /\ UNCHANGED <<job, places, snap, resync>>

(* Mutant: nobody renumbers the queue.                                     *)
NoRenumbering(c) == "idle"

(* The queue is renumbered, in another transaction, if the call is known.  *)
AfterWrite(c) == IF Exists(rows[c]) THEN "renumber" ELSE "idle"

HandleConnect ==
  LET c == Head(amiq).call IN
  /\ Handles("Connect", AfterWrite(c))
  /\ SetRow(c, AnswerRow(rows[c]))
  /\ SetLive(c, AnswerLive(live[c]))
  /\ UNCHANGED <<job, places, snap, resync>>

HandleAbandon ==
  LET c == Head(amiq).call IN
  /\ Handles("Abandon", AfterWrite(c))
  /\ SetRow(c, AbandonRow(rows[c]))
  /\ SetLive(c, NoLive)
  /\ UNCHANGED <<job, places, snap, resync>>

(* db_call_hangup, first half: read the row it will decide on.             *)
HandleHangup ==
  LET e == Head(amiq) IN
  /\ Handles("Hangup", "hangup")
  /\ job' = [job EXCEPT ![Collector] =
               [call |-> e.call, seen |-> rows[e.call],
                cause |-> e.cause, reason |-> "ami"]]
  /\ UNCHANGED <<rows, live, places, snap, resync>>

-----------------------------------------------------------------------------
(* Steps of any process.                                                   *)

(* A process goes back to where the hangup or renumbering was called from. *)
Resume(p) == IF snap[p].on THEN "purge" ELSE "idle"

(***************************************************************************)
(* db_call_hangup, second half: one transaction decided by the row as it   *)
(* was read.  A call whose outcome was recorded keeps its row and only     *)
(* leaves the wallboard; an unknown call has nothing to renumber.          *)
(***************************************************************************)
HangupWrite(p) ==
  LET j == job[p] IN
  /\ Goes(p, "hangup", IF Exists(j.seen) THEN "renumber" ELSE Resume(p))
  /\ IF Exists(j.seen) /\ ~Settled(j.seen)
       THEN SetRow(j.call, HangupRow(rows[j.call], j.seen, j.cause, j.reason))
       ELSE UNCHANGED rows
  /\ SetLive(j.call, NoLive)
  /\ job' = [job EXCEPT ![p] = NoJob]
  /\ UNCHANGED <<asteriskVars, places, snap, resync>>

(* db_reindex_queue_positions, first half: SELECT ... ORDER BY start_time. *)
(* Rows of the same second come in either order; 0 is a row not selected.  *)
Numberings ==
  LET S == {c \in Calls : live[c].state \in {"WAITING", "RINGING"}} IN
  {n \in [Calls -> 0..Cardinality(S)] :
     /\ \A c \in Calls : n[c] = 0 <=> c \notin S
     /\ \A c, d \in S : /\ c # d => n[c] # n[d]
                        /\ live[c].start < live[d].start => n[c] < n[d]}

RenumberRead(p) ==
  /\ Goes(p, "renumber", "positions")
  /\ \E n \in Numberings : places' = [places EXCEPT ![p] = n]
  /\ UNCHANGED <<asteriskVars, dbVars, job, snap, resync>>

(* Second half: UPDATE each row that was read, whatever it is by now.      *)
RenumberWrite(p) ==
  /\ Goes(p, "positions", Resume(p))
  /\ live' = [c \in Calls |->
                IF places[p][c] > 0 /\ OnBoard(live[c])
                  THEN [live[c] EXCEPT !.pos = places[p][c]] ELSE live[c]]
  /\ places' = [places EXCEPT ![p] = NoPlaces]
  /\ UNCHANGED <<asteriskVars, rows, job, snap, resync>>

(* sync_queue_log_to_db: every complete line, in one transaction.          *)
ImportTables ==
  /\ rows' = [c \in Calls |-> ImportRow(rows[c], unread[c])]
  /\ live' = [c \in Calls |-> ImportLive(live[c], unread[c])]
  /\ unread' = [c \in Calls |-> {}]

ImportLog ==
  /\ ImportTables
  /\ UNCHANGED <<phase, joined, clock, amiq, conn, drops, outcome>>

-----------------------------------------------------------------------------
(* reconcile_with_asterisk_state, by the collector or a web request.       *)

(* What fails is swallowed; it counts as one of the losses.                *)
Fails ==
  /\ drops < MaxDrops
  /\ drops' = drops + 1
  /\ UNCHANGED <<phase, joined, clock, amiq, conn, unread, outcome>>

(* It imports the log, or does not, then asks the exchange for its         *)
(* channels ...                                                            *)
ReconcileStart(p) ==
  /\ Goes(p, "idle", "channels")
  /\ \/ ImportLog
     \/ Fails /\ UNCHANGED dbVars
  /\ snap' = [snap EXCEPT ![p].on = TRUE]
  /\ UNCHANGED <<job, places, resync>>

(* The collector's periodic sync reads the socket on its own: an event of  *)
(* which only the first bytes had been read before is lost.                *)
PeriodicSyncTearsEvent ==
  /\ Goes(Collector, "idle", "channels")
  /\ amiq # <<>> /\ drops < MaxDrops
  /\ amiq' = Tail(amiq)
  /\ drops' = drops + 1
  /\ ImportTables
  /\ snap' = [snap EXCEPT ![Collector].on = TRUE]
  /\ UNCHANGED <<phase, joined, clock, conn, outcome, job, places, resync>>

(* ... unless the exchange does not answer "core show version" ...         *)
ReconcileGivesUp(p) ==
  /\ Goes(p, "channels", "idle")
  /\ snap' = [snap EXCEPT ![p] = NoSnap]
  /\ UNCHANGED <<asteriskVars, dbVars, job, places, resync>>

(* A command that fails or takes too long lists nobody.                    *)
Lists(them, seen) ==
  \/ seen = them /\ UNCHANGED asteriskVars
  \/ seen = {} /\ Fails

ReconcileChannels(p) ==
  /\ Goes(p, "channels", "queue show")
  /\ \E seen \in {Alive, {}} :
       Lists(Alive, seen) /\ snap' = [snap EXCEPT ![p].active = seen]
  /\ UNCHANGED <<dbVars, job, places, resync>>

(* ... and then, in another call, for the callers of its queues.           *)
ReconcileQueueShow(p) ==
  /\ Goes(p, "queue show", "scan")
  /\ \E seen \in {Queued, {}} :
       Lists(Queued, seen) /\ snap' = [snap EXCEPT ![p].waiting = seen]
  /\ UNCHANGED <<dbVars, job, places, resync>>

(* Mutant: the wallboard is not looked at.                                 *)
GhostsOfRecords(s, board) ==
  IF s.waiting # {} THEN {} ELSE {d \in Calls \ s.active : Uncompleted(rows[d])}

(***************************************************************************)
(* It reads the tables.  A call that is on the wallboard or uncompleted is *)
(* a ghost when the exchange did not list it, unless the queue had callers *)
(* waiting.  A waiting caller with a known channel that is not on the      *)
(* wallboard is missing there.  Calls of agents that are no longer members *)
(* lose their wallboard row here; a "queue show" that failed lists neither *)
(* callers nor members.                                                    *)
(***************************************************************************)
Ghosts(s, board) ==
  IF s.waiting # {} THEN {}
  ELSE {c \in board \cup {d \in Calls : Uncompleted(rows[d])} : c \notin s.active}

ReconcileScan(p) ==
  /\ Goes(p, "scan", "purge")
  /\ \E left \in SUBSET {c \in Board : live[c].agent} :
       /\ ~AgentsLeave /\ (drops = 0 \/ snap[p].waiting # {}) => left = {}
       /\ live' = [c \in Calls |-> IF c \in left THEN NoLive ELSE live[c]]
       /\ snap' = [snap EXCEPT
                     ![p] = [NoSnap EXCEPT
                       !.on      = TRUE,
                       !.ghosts  = Ghosts(snap[p], Board \ left),
                       !.missing = (snap[p].waiting \cap snap[p].active)
                                     \ (Board \ left)]]
  /\ UNCHANGED <<asteriskVars, rows, job, places, resync>>

(* Each ghost is hung up, by the same two halves as any other hangup.      *)
ReconcilePurge(p) ==
  /\ Goes(p, "purge", "hangup")
  /\ \E c \in snap[p].ghosts :
       /\ snap' = [snap EXCEPT ![p].ghosts = @ \ {c}]
       /\ job' = [job EXCEPT ![p] = [call |-> c, seen |-> rows[c],
                                     cause |-> "other", reason |-> "ghost"]]
  /\ UNCHANGED <<asteriskVars, dbVars, places, resync>>

(***************************************************************************)
(* Callers found missing from the wallboard are put there, whatever        *)
(* happened to them since.  Then the queue is renumbered.                  *)
(***************************************************************************)
ReconcileRecover(p) ==
  LET missing == snap[p].missing IN
  /\ snap[p].ghosts = {}
  /\ Goes(p, "purge", "renumber")
  /\ rows' = [c \in Calls |-> IF c \in missing /\ ~Exists(rows[c])
                                THEN EnterRow(rows[c]) ELSE rows[c]]
  /\ live' = [c \in Calls |-> IF c \in missing
                                THEN EnterLive(NoLive, 1, clock) ELSE live[c]]
  /\ snap' = [snap EXCEPT ![p] = NoSnap]
  /\ UNCHANGED <<asteriskVars, job, places, resync>>

-----------------------------------------------------------------------------
(***************************************************************************)
(* The collector's loop around its connection.  When the connection is     *)
(* gone it reconciles (which may give up or fail, so that the next step    *)
(* does not depend on it), connects again and asks for the queue status.   *)
(* Events that arrive before or together with the answer are dropped; then *)
(* every caller listed is entered.                                         *)
(***************************************************************************)
QueueStatus ==
  /\ ~conn
  /\ amiq = <<>>
  /\ Goes(Collector, "idle", "listed")
  /\ resync' = Queued
  /\ UNCHANGED <<asteriskVars, dbVars, job, places, snap>>

Reconnect ==
  /\ Goes(Collector, "listed", "resync")
  /\ conn' = TRUE
  /\ UNCHANGED <<phase, joined, clock, amiq, drops, unread, outcome,
                 dbVars, job, places, snap, resync>>

(* QueueEntry, in the order of the queue; no position, the time is now.    *)
ResyncEntry ==
  /\ pc[Collector] = "resync"
  /\ \E c \in resync :
       /\ \A d \in resync : joined[c] <= joined[d]
       /\ SetRow(c, EnterRow(rows[c]))
       /\ SetLive(c, EnterLive(live[c], Cardinality(Board) + 1, clock))
       /\ resync' = resync \ {c}
  /\ UNCHANGED <<asteriskVars, pc, job, places, snap>>

ResyncDone ==
  /\ Goes(Collector, "resync", "idle")
  /\ resync = {}
  /\ UNCHANGED <<asteriskVars, dbVars, job, places, snap, resync>>

(* The collector is killed between two transactions and started again by   *)
(* the service manager.  All it knew is gone; the tables are not.          *)
CollectorRestarts ==
  /\ drops < MaxDrops
  /\ drops' = drops + 1
  /\ conn' = FALSE
  /\ amiq' = <<>>
  /\ pc' = [pc EXCEPT ![Collector] = "idle"]
  /\ job' = [job EXCEPT ![Collector] = NoJob]
  /\ places' = [places EXCEPT ![Collector] = NoPlaces]
  /\ snap' = [snap EXCEPT ![Collector] = NoSnap]
  /\ resync' = {}
  /\ UNCHANGED <<phase, joined, clock, unread, outcome, dbVars>>

(* A report page imports the log and reconciles nothing.                   *)
WebImport(p) ==
  /\ pc[p] = "idle"
  /\ ImportLog
  /\ UNCHANGED procVars

-----------------------------------------------------------------------------
Handle ==
  HandleJoin \/ HandleCalled \/ HandleConnect \/ HandleAbandon \/ HandleHangup

Reconcile(p) ==
  \/ ReconcileStart(p) \/ ReconcileGivesUp(p)
  \/ ReconcileChannels(p) \/ ReconcileQueueShow(p)
  \/ ReconcileScan(p) \/ ReconcilePurge(p) \/ ReconcileRecover(p)

Continue(p) == HangupWrite(p) \/ RenumberRead(p) \/ RenumberWrite(p)

AsteriskStep ==
  /\ \/ \E c \in Calls : CallStep(c)
     \/ ConnectionBreaks
  /\ UNCHANGED <<dbVars, procVars>>

Next ==
  \/ AsteriskStep
  \/ Handle
  \/ QueueStatus \/ Reconnect \/ ResyncEntry \/ ResyncDone
  \/ CollectorRestarts \/ PeriodicSyncTearsEvent
  \/ \E p \in Procs : Reconcile(p) \/ Continue(p)
  \/ \E p \in Web : WebImport(p)

Spec == Init /\ [][Next]_vars

(***************************************************************************)
(* Fairness.  The collector is one loop: it reads the socket with a time   *)
(* limit and reconciles every 30 seconds, so neither of the two keeps it   *)
(* from the other for ever.  A process that began a handler or a           *)
(* reconciliation carries it through (every wait in it has a time limit),  *)
(* and the exchange does not for ever refuse to answer.  Nothing is        *)
(* assumed of the calls, of the connection or of who opens a page.         *)
(***************************************************************************)
Advance(p) ==
  \/ Continue(p)
  \/ ReconcileQueueShow(p) \/ ReconcileScan(p)
  \/ ReconcilePurge(p) \/ ReconcileRecover(p)
  \/ p = Collector /\ (Reconnect \/ ResyncEntry \/ ResyncDone)

Fairness ==
  /\ SF_vars(Handle)
  /\ SF_vars(ReconcileStart(Collector))
  /\ \A p \in Procs : WF_vars(Advance(p)) /\ SF_vars(ReconcileChannels(p))

FairSpec == Spec /\ Fairness

-----------------------------------------------------------------------------
(***************************************************************************)
(* Properties.                                                             *)
(***************************************************************************)
PcValues == {"idle", "hangup", "renumber", "positions", "channels",
             "queue show", "scan", "purge", "listed", "resync"}

Job  == [call : Calls \cup {NoCall}, seen : Row, cause : Causes, reason : {"ami", "ghost"}]
Snap == [on : BOOLEAN, active : SUBSET Calls, waiting : SUBSET Calls,
         ghosts : SUBSET Calls, missing : SUBSET Calls]

(* Every variable keeps its shape.                                         *)
TypeOK ==
  /\ AstTypeOK
  /\ rows \in [Calls -> Row]
  /\ live \in [Calls -> LiveRow]
  /\ pc \in [Procs -> PcValues]
  /\ job \in [Procs -> Job]
  /\ places \in [Procs -> [Calls -> Nat]]
  /\ snap \in [Procs -> Snap]
  /\ resync \in SUBSET Calls

(* Nothing that could still change the record of the call is under way.    *)
Done(c) ==
  /\ phase[c] = "gone"
  /\ unread[c] = {}
  /\ \A i \in 1..Len(amiq) : amiq[i].call # c
  /\ \A p \in Procs : job[p].call # c

(* When all is said about a call, its record tells what happened: the      *)
(* outcome queue_log reports, closed, and with a talk time exactly when    *)
(* the caller talked to an agent.  However late, early, duplicated or lost *)
(* the manager events are, they do not spoil what the log says; nor does a *)
(* reconciliation that took a living call for a ghost, because a command   *)
(* of the exchange failed.                                                 *)
OutcomeFromLog ==
  \A c \in Calls : Done(c) =>
    /\ rows[c].status = outcome[c] /\ rows[c].hung
    /\ rows[c].talk <=> outcome[c] = "ANSWERED"

(* A call that was answered never shows a status of a call still waiting:  *)
(* neither a late event nor a re-read of the log reopens it.               *)
AnsweredIsFinal ==
  \A c \in Calls : rows[c].answered => Terminal(rows[c])

NothingPending ==
  /\ conn /\ amiq = <<>>
  /\ \A c \in Calls : unread[c] = {}
  /\ \A p \in Procs : pc[p] = "idle"

LeftByLimit == {c \in Calls : outcome[c] \in {"TIMEOUT", "NO ANSWER", "CANCELLED"}}

(* As long as no event was lost and no step failed, the wallboard that     *)
(* every event updated shows exactly the callers who are in the queue or   *)
(* talking, in the right state, and counts their places as the exchange    *)
(* does.  (Callers the queue turned away may linger until they hang up,    *)
(* and disturb the count.)                                                 *)
BoardMirrors ==
  NothingPending /\ drops = 0 =>
    /\ Board \ LeftByLimit = Queued \cup {c \in Calls : phase[c] = "talking"}
    /\ Board \cap LeftByLimit \subseteq Alive
    /\ \A c \in Board \ LeftByLimit : live[c].state = "TALKING" <=> phase[c] = "talking"
    /\ LeftByLimit = {} => \A c \in Queued : live[c].pos = Place(c)

Cleaned == \A c \in Calls : ~OnBoard(live[c]) /\ ~Uncompleted(rows[c])

(* Once every caller is gone, the wallboard becomes empty and every record *)
(* is closed, although reconciliations of several processes may have put   *)
(* back rows from what they read earlier.                                  *)
EventuallyClean == (\A c \in Calls : phase[c] = "gone") ~> Cleaned
=============================================================================
