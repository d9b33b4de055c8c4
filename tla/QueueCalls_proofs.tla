-------------------------- MODULE QueueCalls_proofs --------------------------
(***************************************************************************)
(* Theorems about QueueCalls, for any set of calls, any number of web      *)
(* processes and any bounds.                                               *)
(***************************************************************************)
EXTENDS QueueCalls, FiniteSetTheorems, TLAPS

-----------------------------------------------------------------------------
(* The writers keep the shape of a row.                                    *)

LEMMA EventRowType ==
  ASSUME NEW r \in Row
  PROVE  /\ EnterRow(r) \in Row
         /\ RingRow(r) \in Row
         /\ AnswerRow(r) \in Row
         /\ AbandonRow(r) \in Row
BY DEF Row, EnterRow, RingRow, AnswerRow, AbandonRow, Exists, Terminal,
       NoRow, OpenStatus, TerminalStatus

LEMMA EventLiveType ==
  ASSUME NEW l \in LiveRow, NEW pos \in Nat, NEW at \in Nat
  PROVE  /\ EnterLive(l, pos, at) \in LiveRow
         /\ RingLive(l) \in LiveRow
         /\ AnswerLive(l) \in LiveRow
         /\ [l EXCEPT !.pos = pos] \in LiveRow
BY DEF LiveRow, EnterLive, RingLive, AnswerLive, OnBoard

LEMMA BlankType == NoRow \in Row /\ NoLive \in LiveRow
BY DEF Row, LiveRow, NoLive, NoRow

LEMMA HangupRowType ==
  ASSUME NEW r \in Row, NEW seen \in Row, NEW cause \in Causes,
         NEW reason \in {"ami", "ghost"}
  PROVE  HangupRow(r, seen, cause, reason) \in Row
<1>1. HangupStatus(seen, cause) \in TerminalStatus
  BY DEF HangupStatus, Terminal, Row, TerminalStatus
<1>2. QED
  BY <1>1 DEF HangupRow, Row

LEMMA ExitStatusTerminal ==
  ASSUME NEW line \in LogExits
  PROVE  ExitStatus(line) \in TerminalStatus
BY DEF LogExits, ExitStatus, TerminalStatus

LEMMA LogExitRowType ==
  ASSUME NEW r \in Row, NEW line \in LogExits
  PROVE  LogExitRow(r, line) \in Row
<1>1. /\ (r.answered \/ line = "COMPLETE") \in BOOLEAN
      /\ (r.talk \/ line = "COMPLETE") \in BOOLEAN
  BY DEF Row
<1>2. ExitStatus(line) \in {"none"} \cup OpenStatus \cup TerminalStatus
  BY ExitStatusTerminal
<1>3. QED
  BY <1>1, <1>2 DEF LogExitRow, Row

LEMMA ImportType ==
  ASSUME NEW r \in Row, NEW l \in LiveRow, NEW lines \in SUBSET LogLines
  PROVE  /\ ImportRow(r, lines) \in Row
         /\ ImportLive(l, lines) \in LiveRow
<1> DEFINE entered == IF "ENTERQUEUE" \in lines THEN LogEnterRow(r) ELSE r
           taken   == IF "CONNECT" \in lines THEN AnswerRow(entered) ELSE entered
<1>1. entered \in Row
  BY DEF Row, LogEnterRow, NoRow, OpenStatus
<1>2. taken \in Row
  BY <1>1, EventRowType
<1>3. ASSUME NEW e \in LogExits PROVE LogExitRow(taken, e) \in Row
  BY <1>2, LogExitRowType
<1>4. lines \cap LogExits # {} =>
        (CHOOSE e \in LogExits : e \in lines) \in LogExits
  OBVIOUS
<1>5. ImportRow(r, lines) \in Row
  BY <1>2, <1>3, <1>4 DEF ImportRow
<1>6. ImportLive(l, lines) \in LiveRow
  BY BlankType DEF ImportLive, AnswerLive, OnBoard, LiveRow
<1>7. QED
  BY <1>5, <1>6

-----------------------------------------------------------------------------
(* The exchange's own variables.                                           *)

LEMMA EventType ==
  ASSUME NEW c \in Calls
  PROVE  /\ Ev("Called", c) \in Event
         /\ Ev("Connect", c) \in Event
         /\ Ev("Abandon", c) \in Event
         /\ HangupEv(c, "other") \in Event
         /\ HangupEv(c, "no answer") \in Event
BY DEF Ev, HangupEv, Event, EventKinds, Causes

LEMMA CountIsNat ==
  ASSUME NEW S \in SUBSET Calls
  PROVE  Cardinality(S) \in Nat
BY CallsAssumption, FS_Subset, FS_CardinalityType

LEMMA AsteriskType ==
  ASSUME AstTypeOK, (\E c \in Calls : CallStep(c)) \/ ConnectionBreaks
  PROVE  AstTypeOK'
<1> USE DEF AstTypeOK
<1>1. ASSUME NEW c \in Calls, CallStep(c) PROVE AstTypeOK'
  <2>1. CASE Join(c)
    <3>1. Cardinality(Queued) + 1 \in Nat
      BY CountIsNat DEF Queued
    <3>2. clock' \in Nat
      BY <2>1 DEF Join
    <3>3. [Ev("Join", c) EXCEPT !.pos = Cardinality(Queued) + 1, !.at = clock'] \in Event
      BY <3>1, <3>2 DEF Ev, Event, EventKinds, Causes
    <3>4. amiq' \in Seq(Event)
      BY <2>1, <3>3 DEF Join, Emit
    <3>5. unread' \in [Calls -> SUBSET LogLines]
      BY <2>1 DEF Join, Log, LogLines
    <3>6. QED
      BY <2>1, <3>2, <3>4, <3>5 DEF Join, Moves, Phases
  <2>2. CASE CallAgent(c)
    <3>1. amiq' \in Seq(Event)
      <4>1. Ev("Called", c) \in Event
        BY EventType
      <4>2. QED
        BY <2>2, <4>1 DEF CallAgent, Emit
    <3>2. QED
      BY <2>2, <3>1 DEF CallAgent, Moves, Phases
  <2>3. CASE AgentRingsOut(c)
    BY <2>3 DEF AgentRingsOut, Moves, Phases
  <2>4. CASE Connect(c)
    <3>1. amiq' \in Seq(Event)
      <4>1. Ev("Connect", c) \in Event
        BY EventType
      <4>2. QED
        BY <2>4, <4>1 DEF Connect, Emit
    <3>2. unread' \in [Calls -> SUBSET LogLines]
      BY <2>4 DEF Connect, Log, LogLines
    <3>3. QED
      BY <2>4, <3>1, <3>2 DEF Connect, Moves, Phases
  <2>5. CASE Abandon(c)
    <3>1. amiq' \in Seq(Event)
      <4>1. Ev("Abandon", c) \in Event /\ HangupEv(c, "other") \in Event
        BY EventType
      <4>2. QED
        BY <2>5, <4>1 DEF Abandon, Emit
    <3>2. unread' \in [Calls -> SUBSET LogLines]
      BY <2>5 DEF Abandon, Log, LogLines, LogExits
    <3>3. QED
      BY <2>5, <3>1, <3>2 DEF Abandon, Moves, Phases, TerminalStatus
  <2>6. CASE LeaveQueue(c)
    <3>1. PICK line \in QueueExits :
            /\ Log(c, line)
            /\ outcome' = [outcome EXCEPT ![c] = ExitStatus(line)]
      BY <2>6 DEF LeaveQueue
    <3>2. line \in LogExits
      BY ExitsAssumption DEF LogExits
    <3>3. ExitStatus(line) \in TerminalStatus
      BY <3>2, ExitStatusTerminal
    <3>4. unread' \in [Calls -> SUBSET LogLines]
      BY <3>1, <3>2 DEF Log, LogLines
    <3>5. QED
      BY <2>6, <3>1, <3>3, <3>4 DEF LeaveQueue, Moves, Phases
  <2>7. CASE Complete(c)
    <3>1. amiq' \in Seq(Event)
      <4>1. HangupEv(c, "other") \in Event
        BY EventType
      <4>2. QED
        BY <2>7, <4>1 DEF Complete, Emit
    <3>2. unread' \in [Calls -> SUBSET LogLines]
      BY <2>7 DEF Complete, Log, LogLines, LogExits
    <3>3. QED
      BY <2>7, <3>1, <3>2 DEF Complete, Moves, Phases, TerminalStatus
  <2>8. CASE HangupOutside(c)
    <3>1. PICK why \in Causes : Emit(<<HangupEv(c, why)>>)
      BY <2>8 DEF HangupOutside
    <3>2. HangupEv(c, why) \in Event
      BY EventType DEF Causes
    <3>3. amiq' \in Seq(Event)
      BY <3>1, <3>2 DEF Emit
    <3>4. QED
      BY <2>8, <3>3 DEF HangupOutside, Moves, Phases
  <2>9. QED
    BY <1>1, <2>1, <2>2, <2>3, <2>4, <2>5, <2>6, <2>7, <2>8 DEF CallStep
<1>2. CASE ConnectionBreaks
  <2>1. PICK n \in 0..Len(amiq) : amiq' = SubSeq(amiq, 1, n)
    BY <1>2 DEF ConnectionBreaks
  <2>2. amiq' \in Seq(Event)
    BY <2>1
  <2>3. /\ conn' \in BOOLEAN /\ drops' = drops + 1
        /\ UNCHANGED <<phase, joined, clock, unread, outcome>>
    BY <1>2 DEF ConnectionBreaks
  <2>4. QED
    BY <2>2, <2>3
<1>3. QED
  BY <1>1, <1>2

-----------------------------------------------------------------------------
(* The collector's and the web processes' steps.                           *)

(* The types of what the two groups of processes write.                    *)
DbTypeOK   == rows \in [Calls -> Row] /\ live \in [Calls -> LiveRow]
ProcTypeOK ==
  /\ pc \in [Procs -> PcValues]
  /\ job \in [Procs -> Job]
  /\ places \in [Procs -> [Calls -> Nat]]
  /\ snap \in [Procs -> Snap]
  /\ resync \in SUBSET Calls

LEMMA TypeParts == TypeOK <=> AstTypeOK /\ DbTypeOK /\ ProcTypeOK
BY DEF TypeOK, DbTypeOK, ProcTypeOK

LEMMA HeadType ==
  ASSUME amiq \in Seq(Event), amiq # <<>>
  PROVE  Head(amiq) \in Event /\ Tail(amiq) \in Seq(Event)
OBVIOUS

(* The part of a handler that takes the event from the socket.             *)
LEMMA HandlesType ==
  ASSUME TypeOK, NEW kind, NEW next \in PcValues, Handles(kind, next)
  PROVE  /\ AstTypeOK'
         /\ pc' \in [Procs -> PcValues]
         /\ Head(amiq) \in Event
<1>1. Head(amiq) \in Event /\ Tail(amiq) \in Seq(Event)
  BY HeadType DEF Handles, TypeOK, AstTypeOK
<1>2. AstTypeOK'
  <2>1. amiq' \in Seq(Event)
    BY <1>1 DEF Handles
  <2>2. QED
    BY <2>1 DEF Handles, TypeOK, AstTypeOK
<1>3. pc' \in [Procs -> PcValues]
  BY DEF Handles, Goes, TypeOK
<1>4. QED
  BY <1>1, <1>2, <1>3

LEMMA EventFields ==
  ASSUME NEW e \in Event
  PROVE  e.call \in Calls /\ e.pos \in Nat /\ e.at \in Nat /\ e.cause \in Causes
BY DEF Event

LEMMA HandleType ==
  ASSUME TypeOK, Handle
  PROVE  TypeOK'
<1> DEFINE e == Head(amiq)
           c == Head(amiq).call
<1> USE DEF DbTypeOK, ProcTypeOK
<1>1. "idle" \in PcValues /\ "renumber" \in PcValues /\ "hangup" \in PcValues
  BY DEF PcValues
<1>2. CASE HandleJoin
  <2>1. AstTypeOK' /\ pc' \in [Procs -> PcValues] /\ e \in Event
    BY <1>1, <1>2, HandlesType DEF HandleJoin
  <2>2. c \in Calls /\ e.pos \in Nat /\ e.at \in Nat
    BY <2>1, EventFields
  <2>3. EnterRow(rows[c]) \in Row /\ EnterLive(live[c], e.pos, e.at) \in LiveRow
    BY <2>2, EventRowType, EventLiveType, TypeParts
  <2>4. QED
    BY <1>2, <2>1, <2>3, TypeParts DEF HandleJoin, SetRow, SetLive, TypeOK
<1>3. CASE HandleCalled
  <2>1. AstTypeOK' /\ pc' \in [Procs -> PcValues] /\ e \in Event
    BY <1>1, <1>3, HandlesType DEF HandleCalled
  <2>2. c \in Calls
    BY <2>1, EventFields
  <2>3. RingRow(rows[c]) \in Row /\ RingLive(live[c]) \in LiveRow
    BY <2>2, EventRowType, EventLiveType, TypeParts
  <2>4. QED
    BY <1>3, <2>1, <2>3, TypeParts DEF HandleCalled, SetRow, SetLive, TypeOK
<1>4. AfterWrite(c) \in PcValues
  BY <1>1 DEF AfterWrite
<1>5. CASE HandleConnect
  <2>1. AstTypeOK' /\ pc' \in [Procs -> PcValues] /\ e \in Event
    BY <1>4, <1>5, HandlesType DEF HandleConnect
  <2>2. c \in Calls
    BY <2>1, EventFields
  <2>3. AnswerRow(rows[c]) \in Row /\ AnswerLive(live[c]) \in LiveRow
    BY <2>2, EventRowType, EventLiveType, TypeParts
  <2>4. QED
    BY <1>5, <2>1, <2>3, TypeParts DEF HandleConnect, SetRow, SetLive, TypeOK
<1>6. CASE HandleAbandon
  <2>1. AstTypeOK' /\ pc' \in [Procs -> PcValues] /\ e \in Event
    BY <1>4, <1>6, HandlesType DEF HandleAbandon
  <2>2. c \in Calls
    BY <2>1, EventFields
  <2>3. AbandonRow(rows[c]) \in Row /\ NoLive \in LiveRow
    BY <2>2, EventRowType, BlankType, TypeParts
  <2>4. QED
    BY <1>6, <2>1, <2>3, TypeParts DEF HandleAbandon, SetRow, SetLive, TypeOK
<1>7. CASE HandleHangup
  <2>1. AstTypeOK' /\ pc' \in [Procs -> PcValues] /\ e \in Event
    BY <1>1, <1>7, HandlesType DEF HandleHangup
  <2>2. c \in Calls /\ e.cause \in Causes
    BY <2>1, EventFields
  <2>3. rows[c] \in Row
    BY <2>2, TypeParts
  <2>4. [call |-> c, seen |-> rows[c], cause |-> e.cause, reason |-> "ami"] \in Job
    BY <2>2, <2>3 DEF Job
  <2>5. QED
    BY <1>7, <2>1, <2>4, TypeParts DEF HandleHangup, TypeOK
<1>8. QED
  BY <1>2, <1>3, <1>5, <1>6, <1>7 DEF Handle

LEMMA ContinueType ==
  ASSUME TypeOK, NEW p \in Procs, Continue(p)
  PROVE  TypeOK'
<1> USE DEF DbTypeOK, ProcTypeOK
<1>1. CASE HangupWrite(p)
  <2> DEFINE j == job[p]
  <2>1. j \in Job /\ NoJob \in Job
    <3>1. j \in Job
      BY TypeParts
    <3>2. NoJob \in Job
      BY BlankType DEF NoJob, Job, Causes
    <3>3. QED
      BY <3>1, <3>2
  <2>2. j.call \in Calls => HangupRow(rows[j.call], j.seen, j.cause, j.reason) \in Row
    BY <2>1, HangupRowType, TypeParts DEF Job
  <2>3. rows' \in [Calls -> Row]
    <3>1. CASE UNCHANGED rows
      BY <3>1, TypeParts
    <3>2. CASE SetRow(j.call, HangupRow(rows[j.call], j.seen, j.cause, j.reason))
      BY <2>2, <3>2, TypeParts DEF SetRow
    <3>3. QED
      BY <1>1, <3>1, <3>2 DEF HangupWrite
  <2>4. live' \in [Calls -> LiveRow]
    BY <1>1, BlankType, TypeParts DEF HangupWrite, SetLive
  <2>5. pc' \in [Procs -> PcValues]
    BY <1>1, TypeParts DEF HangupWrite, Goes, Resume, PcValues
  <2>6. job' \in [Procs -> Job]
    BY <1>1, <2>1, TypeParts DEF HangupWrite
  <2>7. QED
    BY <1>1, <2>3, <2>4, <2>5, <2>6, TypeParts
    DEF HangupWrite, TypeOK, AstTypeOK, asteriskVars
<1>2. CASE RenumberRead(p)
  <2>1. PICK n \in Numberings : places' = [places EXCEPT ![p] = n]
    BY <1>2 DEF RenumberRead
  <2>2. n \in [Calls -> Nat]
    <3> DEFINE S == {c \in Calls : live[c].state \in {"WAITING", "RINGING"}}
    <3>1. Cardinality(S) \in Nat
      BY CountIsNat
    <3>2. n \in [Calls -> 0..Cardinality(S)]
      BY DEF Numberings
    <3>3. QED
      BY <3>1, <3>2
  <2>3. pc' \in [Procs -> PcValues]
    BY <1>2, TypeParts DEF RenumberRead, Goes, PcValues
  <2>4. QED
    BY <1>2, <2>1, <2>2, <2>3, TypeParts
    DEF RenumberRead, TypeOK, AstTypeOK, asteriskVars, dbVars
<1>3. CASE RenumberWrite(p)
  <2>1. live' \in [Calls -> LiveRow]
    <3>1. ASSUME NEW c \in Calls
          PROVE  /\ live[c] \in LiveRow
                 /\ [live[c] EXCEPT !.pos = places[p][c]] \in LiveRow
      <4>1. live[c] \in LiveRow /\ places[p][c] \in Nat
        BY TypeParts
      <4>2. QED
        BY <4>1, EventLiveType
    <3>2. QED
      BY <1>3, <3>1 DEF RenumberWrite
  <2>2. NoPlaces \in [Calls -> Nat]
    BY DEF NoPlaces
  <2>3. pc' \in [Procs -> PcValues]
    BY <1>3, TypeParts DEF RenumberWrite, Goes, Resume, PcValues
  <2>4. QED
    BY <1>3, <2>1, <2>2, <2>3, TypeParts
    DEF RenumberWrite, TypeOK, AstTypeOK, asteriskVars
<1>4. QED
  BY <1>1, <1>2, <1>3 DEF Continue

LEMMA ImportTablesType ==
  ASSUME TypeOK, ImportTables
  PROVE  DbTypeOK' /\ unread' \in [Calls -> SUBSET LogLines]
<1>1. ASSUME NEW c \in Calls
      PROVE  /\ ImportRow(rows[c], unread[c]) \in Row
             /\ ImportLive(live[c], unread[c]) \in LiveRow
  BY ImportType DEF TypeOK, AstTypeOK
<1>2. QED
  BY <1>1 DEF ImportTables, DbTypeOK

LEMMA NoSnapType == NoSnap \in Snap
BY DEF NoSnap, Snap

(* A command lists what there is, or fails, which is a loss.               *)
LEMMA ListsParts ==
  ASSUME TypeOK, NEW them, NEW seen, Lists(them, seen)
  PROVE  /\ UNCHANGED <<phase, joined, clock, amiq, conn, unread, outcome>>
         /\ drops' \in Nat
         /\ drops' = 0 => drops = 0 /\ seen = them
<1>1. drops \in Nat
  BY DEF TypeOK, AstTypeOK
<1>2. QED
  BY <1>1 DEF Lists, Fails, asteriskVars

(* A reconciliation imports the log, or fails to, which is a loss.         *)
LEMMA StartParts ==
  ASSUME TypeOK, NEW p \in Procs, ReconcileStart(p)
  PROVE  /\ UNCHANGED <<phase, joined, clock, amiq, conn, outcome, job, places, resync>>
         /\ snap' = [snap EXCEPT ![p].on = TRUE] /\ Goes(p, "idle", "channels")
         /\ drops' \in Nat
         /\ ImportTables \/ UNCHANGED <<rows, live, unread>>
         /\ drops' = 0 => drops = 0 /\ ImportTables
<1>1. drops \in Nat
  BY DEF TypeOK, AstTypeOK
<1>2. QED
  BY <1>1 DEF ReconcileStart, ImportLog, Fails, dbVars

LEMMA ReconcileType ==
  ASSUME TypeOK, NEW p \in Procs, Reconcile(p)
  PROVE  TypeOK'
<1> USE DEF DbTypeOK, ProcTypeOK
<1>1. CASE ReconcileStart(p)
  <2>1. DbTypeOK' /\ unread' \in [Calls -> SUBSET LogLines]
    <3>1. CASE ImportTables
      BY <3>1, ImportTablesType
    <3>2. CASE UNCHANGED <<rows, live, unread>>
      BY <3>2 DEF TypeOK, AstTypeOK
    <3>3. QED
      BY <1>1, <3>1, <3>2, StartParts
  <2>2. pc' \in [Procs -> PcValues]
    BY <1>1, TypeParts DEF ReconcileStart, Goes, PcValues
  <2>3. snap' \in [Procs -> Snap]
    BY <1>1, TypeParts DEF ReconcileStart, Snap
  <2>4. QED
    BY <1>1, <2>1, <2>2, <2>3, StartParts, TypeParts
    DEF TypeOK, AstTypeOK
<1>2. CASE ReconcileGivesUp(p)
  <2>1. pc' \in [Procs -> PcValues]
    BY <1>2, TypeParts DEF ReconcileGivesUp, Goes, PcValues
  <2>2. QED
    BY <1>2, <2>1, NoSnapType, TypeParts
    DEF ReconcileGivesUp, TypeOK, AstTypeOK, asteriskVars, dbVars
<1>3. CASE ReconcileChannels(p)
  <2>1. pc' \in [Procs -> PcValues]
    BY <1>3, TypeParts DEF ReconcileChannels, Goes, PcValues
  <2>2. snap' \in [Procs -> Snap]
    <3>1. PICK seen \in {Alive, {}} : snap' = [snap EXCEPT ![p].active = seen]
      BY <1>3 DEF ReconcileChannels
    <3>2. seen \in SUBSET Calls
      BY DEF Alive
    <3>3. QED
      BY <3>1, <3>2, TypeParts DEF Snap
  <2>3. /\ UNCHANGED <<phase, joined, clock, amiq, conn, unread, outcome>>
        /\ drops' \in Nat /\ UNCHANGED <<rows, live, job, places, resync>>
    BY <1>3, ListsParts DEF ReconcileChannels, dbVars
  <2>4. QED
    BY <2>1, <2>2, <2>3, TypeParts DEF TypeOK, AstTypeOK
<1>4. CASE ReconcileQueueShow(p)
  <2>1. pc' \in [Procs -> PcValues]
    BY <1>4, TypeParts DEF ReconcileQueueShow, Goes, PcValues
  <2>2. snap' \in [Procs -> Snap]
    <3>1. PICK seen \in {Queued, {}} : snap' = [snap EXCEPT ![p].waiting = seen]
      BY <1>4 DEF ReconcileQueueShow
    <3>2. seen \in SUBSET Calls
      BY DEF Queued
    <3>3. QED
      BY <3>1, <3>2, TypeParts DEF Snap
  <2>3. /\ UNCHANGED <<phase, joined, clock, amiq, conn, unread, outcome>>
        /\ drops' \in Nat /\ UNCHANGED <<rows, live, job, places, resync>>
    BY <1>4, ListsParts DEF ReconcileQueueShow, dbVars
  <2>4. QED
    BY <2>1, <2>2, <2>3, TypeParts DEF TypeOK, AstTypeOK
<1>5. CASE ReconcileScan(p)
  <2>1. PICK left \in SUBSET {c \in Board : live[c].agent} :
          /\ live' = [c \in Calls |-> IF c \in left THEN NoLive ELSE live[c]]
          /\ snap' = [snap EXCEPT
                       ![p] = [NoSnap EXCEPT
                         !.on      = TRUE,
                         !.ghosts  = Ghosts(snap[p], Board \ left),
                         !.missing = (snap[p].waiting \cap snap[p].active)
                                       \ (Board \ left)]]
    BY <1>5 DEF ReconcileScan
  <2>2. live' \in [Calls -> LiveRow]
    BY <2>1, BlankType, TypeParts
  <2>3. Ghosts(snap[p], Board \ left) \in SUBSET Calls
    BY DEF Ghosts, Board
  <2>4. (snap[p].waiting \cap snap[p].active) \ (Board \ left) \in SUBSET Calls
    BY TypeParts DEF Snap
  <2>5. snap' \in [Procs -> Snap]
    BY <2>1, <2>3, <2>4, TypeParts DEF NoSnap, Snap
  <2>6. pc' \in [Procs -> PcValues]
    BY <1>5, TypeParts DEF ReconcileScan, Goes, PcValues
  <2>7. QED
    BY <1>5, <2>2, <2>5, <2>6, TypeParts
    DEF ReconcileScan, TypeOK, AstTypeOK, asteriskVars
<1>6. CASE ReconcilePurge(p)
  <2>1. PICK c \in snap[p].ghosts :
          /\ snap' = [snap EXCEPT ![p].ghosts = @ \ {c}]
          /\ job' = [job EXCEPT ![p] = [call |-> c, seen |-> rows[c],
                                        cause |-> "other", reason |-> "ghost"]]
    BY <1>6 DEF ReconcilePurge
  <2>2. c \in Calls
    BY <2>1, TypeParts DEF Snap
  <2>3. [call |-> c, seen |-> rows[c], cause |-> "other", reason |-> "ghost"] \in Job
    BY <2>2, TypeParts DEF Job, Causes
  <2>4. job' \in [Procs -> Job]
    BY <2>1, <2>3, TypeParts
  <2>5. snap' \in [Procs -> Snap]
    BY <2>1, TypeParts DEF Snap
  <2>6. pc' \in [Procs -> PcValues]
    BY <1>6, TypeParts DEF ReconcilePurge, Goes, PcValues
  <2>7. QED
    BY <1>6, <2>4, <2>5, <2>6, TypeParts
    DEF ReconcilePurge, TypeOK, AstTypeOK, asteriskVars, dbVars
<1>7. CASE ReconcileRecover(p)
  <2>1. rows' \in [Calls -> Row]
    BY <1>7, EventRowType, BlankType, TypeParts DEF ReconcileRecover
  <2>2. clock \in Nat
    BY DEF TypeOK, AstTypeOK
  <2>3. live' \in [Calls -> LiveRow]
    BY <1>7, <2>2, EventLiveType, BlankType, TypeParts DEF ReconcileRecover
  <2>4. snap' \in [Procs -> Snap]
    BY <1>7, NoSnapType, TypeParts DEF ReconcileRecover
  <2>5. pc' \in [Procs -> PcValues]
    BY <1>7, TypeParts DEF ReconcileRecover, Goes, PcValues
  <2>6. QED
    BY <1>7, <2>1, <2>3, <2>4, <2>5, TypeParts
    DEF ReconcileRecover, TypeOK, AstTypeOK, asteriskVars
<1>8. QED
  BY <1>1, <1>2, <1>3, <1>4, <1>5, <1>6, <1>7 DEF Reconcile

LEMMA InitType == Init => TypeOK
<1> SUFFICES ASSUME Init PROVE TypeOK
  OBVIOUS
<1>1. AstTypeOK
  BY DEF Init, AstInit, AstTypeOK, Phases, LogLines
<1>2. DbTypeOK
  BY BlankType DEF Init, DbTypeOK
<1>3. NoJob \in Job
  BY BlankType DEF NoJob, Job, Causes
<1>4. ProcTypeOK
  BY <1>3, NoSnapType DEF Init, ProcTypeOK, PcValues, NoPlaces
<1>5. QED
  BY <1>1, <1>2, <1>4, TypeParts

LEMMA StepType ==
  ASSUME TypeOK, [Next]_vars
  PROVE  TypeOK'
<1> USE DEF DbTypeOK, ProcTypeOK
<1>1. CASE AsteriskStep
  <2>1. AstTypeOK'
    BY <1>1, AsteriskType, TypeParts DEF AsteriskStep
  <2>2. QED
    BY <1>1, <2>1, TypeParts DEF AsteriskStep, dbVars, procVars, TypeOK
<1>2. CASE Handle
  BY <1>2, HandleType
<1>3. CASE QueueStatus
  <2>1. pc' \in [Procs -> PcValues]
    BY <1>3, TypeParts DEF QueueStatus, Goes, PcValues
  <2>2. QED
    BY <1>3, <2>1, TypeParts
    DEF QueueStatus, Queued, TypeOK, AstTypeOK, asteriskVars, dbVars
<1>4. CASE Reconnect
  <2>1. pc' \in [Procs -> PcValues]
    BY <1>4, TypeParts DEF Reconnect, Goes, PcValues
  <2>2. conn' \in BOOLEAN
    BY <1>4 DEF Reconnect
  <2>3. QED
    BY <1>4, <2>1, <2>2, TypeParts DEF Reconnect, TypeOK, AstTypeOK, dbVars
<1>5. CASE ResyncEntry
  <2>1. PICK c \in resync :
          /\ rows' = [rows EXCEPT ![c] = EnterRow(rows[c])]
          /\ live' = [live EXCEPT ![c] =
                        EnterLive(live[c], Cardinality(Board) + 1, clock)]
          /\ resync' = resync \ {c}
    BY <1>5 DEF ResyncEntry, SetRow, SetLive
  <2>2. c \in Calls
    BY <2>1, TypeParts
  <2>3. Cardinality(Board) + 1 \in Nat /\ clock \in Nat
    <3>1. Board \in SUBSET Calls
      BY DEF Board
    <3>2. Cardinality(Board) \in Nat
      BY <3>1, CountIsNat
    <3>3. QED
      BY <3>2 DEF TypeOK, AstTypeOK
  <2>4. /\ EnterRow(rows[c]) \in Row
        /\ EnterLive(live[c], Cardinality(Board) + 1, clock) \in LiveRow
    BY <2>2, <2>3, EventRowType, EventLiveType, TypeParts
  <2>5. DbTypeOK' /\ resync' \in SUBSET Calls
    BY <2>1, <2>4, TypeParts
  <2>6. QED
    BY <1>5, <2>5, TypeParts DEF ResyncEntry, TypeOK, AstTypeOK, asteriskVars
<1>6. CASE ResyncDone
  <2>1. pc' \in [Procs -> PcValues]
    BY <1>6, TypeParts DEF ResyncDone, Goes, PcValues
  <2>2. QED
    BY <1>6, <2>1, TypeParts
    DEF ResyncDone, TypeOK, AstTypeOK, asteriskVars, dbVars
<1>7. CASE CollectorRestarts
  <2>1. conn' \in BOOLEAN
    BY <1>7 DEF CollectorRestarts
  <2>2. drops' \in Nat
    BY <1>7 DEF CollectorRestarts, TypeOK, AstTypeOK
  <2>3. amiq' \in Seq(Event)
    BY <1>7 DEF CollectorRestarts
  <2>4. AstTypeOK'
    BY <1>7, <2>1, <2>2, <2>3 DEF CollectorRestarts, TypeOK, AstTypeOK
  <2>5. NoJob \in Job /\ NoPlaces \in [Calls -> Nat]
    BY BlankType DEF NoJob, Job, Causes, NoPlaces
  <2>6. ProcTypeOK'
    BY <1>7, <2>5, NoSnapType, TypeParts DEF CollectorRestarts, PcValues
  <2>7. QED
    BY <1>7, <2>4, <2>6, TypeParts DEF CollectorRestarts, dbVars, TypeOK
<1>8. CASE PeriodicSyncTearsEvent
  <2>1. DbTypeOK' /\ unread' \in [Calls -> SUBSET LogLines]
    BY <1>8, ImportTablesType DEF PeriodicSyncTearsEvent
  <2>2. amiq' \in Seq(Event) /\ drops' \in Nat
    BY <1>8, HeadType DEF PeriodicSyncTearsEvent, TypeOK, AstTypeOK
  <2>3. pc' \in [Procs -> PcValues]
    BY <1>8, TypeParts DEF PeriodicSyncTearsEvent, Goes, PcValues
  <2>4. snap' \in [Procs -> Snap]
    BY <1>8, TypeParts DEF PeriodicSyncTearsEvent, Snap
  <2>5. QED
    BY <1>8, <2>1, <2>2, <2>3, <2>4, TypeParts
    DEF PeriodicSyncTearsEvent, TypeOK, AstTypeOK
<1>9. ASSUME NEW p \in Procs, Reconcile(p) \/ Continue(p) PROVE TypeOK'
  BY <1>9, ReconcileType, ContinueType
<1>10. ASSUME NEW p \in Web, WebImport(p) PROVE TypeOK'
  <2>1. DbTypeOK' /\ unread' \in [Calls -> SUBSET LogLines]
    BY <1>10, ImportTablesType DEF WebImport, ImportLog
  <2>2. QED
    BY <1>10, <2>1, TypeParts
    DEF WebImport, ImportLog, procVars, TypeOK, AstTypeOK
<1>11. CASE UNCHANGED vars
  BY <1>11 DEF vars, asteriskVars, dbVars, procVars, TypeOK, AstTypeOK
<1>12. QED
  BY <1>1, <1>2, <1>3, <1>4, <1>5, <1>6, <1>7, <1>8, <1>9, <1>10, <1>11 DEF Next

(* Every variable keeps its shape, for any calls, web processes and bounds *)
(* (the tables of rcm_queue_db.py and the state of its writers).           *)
THEOREM TypeCorrect == Spec => []TypeOK
BY InitType, StepType, PTL DEF Spec

-----------------------------------------------------------------------------
(***************************************************************************)
(* An answered call never goes back to a status of a call that waits.      *)
(*                                                                         *)
(* The danger is the line ENTERQUEUE: its import sets the status to        *)
(* ENTERED whatever the row says.  It does no harm because an answered row *)
(* implies that the caller was connected, and when a connected caller's    *)
(* ENTERQUEUE is still to be imported so is his CONNECT, which the same    *)
(* transaction imports after it.                                           *)
(***************************************************************************)

Connected(c) == phase[c] = "talking" \/ outcome[c] = "ANSWERED"

HonestEvents == {e \in Event : e.kind = "Connect" => Connected(e.call)}

(* What the exchange has told, in lines and in events.                     *)
ToldInv ==
  /\ amiq \in Seq(HonestEvents)
  /\ \A c \in Calls :
       /\ phase[c] \in {"new", "waiting", "ringing"} => outcome[c] = "none"
       /\ "CONNECT" \in unread[c] \/ "COMPLETE" \in unread[c] => Connected(c)
       /\ Connected(c) /\ "ENTERQUEUE" \in unread[c] => "CONNECT" \in unread[c]

AnsweredRow(c) == rows[c].answered => Terminal(rows[c]) /\ Connected(c)

FinalInv == ToldInv /\ \A c \in Calls : AnsweredRow(c)

-----------------------------------------------------------------------------
(* The writers.                                                            *)

LEMMA EventRowFinal ==
  ASSUME NEW r \in Row, r.answered => Terminal(r)
  PROVE  /\ EnterRow(r).answered => r.answered /\ Terminal(EnterRow(r))
         /\ RingRow(r).answered => r.answered /\ Terminal(RingRow(r))
         /\ AbandonRow(r).answered => r.answered /\ Terminal(AbandonRow(r))
         /\ AnswerRow(r).answered => Terminal(AnswerRow(r))
BY DEF Row, EnterRow, RingRow, AnswerRow, AbandonRow, Exists, Terminal,
       NoRow, OpenStatus, TerminalStatus

LEMMA HangupRowFinal ==
  ASSUME NEW r \in Row, NEW seen \in Row, NEW cause \in Causes,
         NEW reason \in {"ami", "ghost"}
  PROVE  /\ HangupRow(r, seen, cause, reason).answered => r.answered
         /\ Terminal(HangupRow(r, seen, cause, reason))
<1>1. HangupStatus(seen, cause) \in TerminalStatus
  BY DEF HangupStatus, Terminal, Row, TerminalStatus
<1>2. QED
  BY <1>1 DEF HangupRow, Row, Terminal

LEMMA ImportRowFinal ==
  ASSUME NEW r \in Row, NEW lines \in SUBSET LogLines,
         r.answered => Terminal(r),
         r.answered /\ "ENTERQUEUE" \in lines => "CONNECT" \in lines,
         ImportRow(r, lines).answered
  PROVE  /\ Terminal(ImportRow(r, lines))
         /\ r.answered \/ "CONNECT" \in lines \/ "COMPLETE" \in lines
<1> DEFINE entered == IF "ENTERQUEUE" \in lines THEN LogEnterRow(r) ELSE r
           taken   == IF "CONNECT" \in lines THEN AnswerRow(entered) ELSE entered
           exit    == CHOOSE e \in LogExits : e \in lines
<1>1. entered \in Row /\ (entered.answered => r.answered)
  BY DEF Row, LogEnterRow, NoRow, OpenStatus, Exists
<1>2. taken \in Row
  BY <1>1, EventRowType
<1>3. taken.answered => r.answered \/ "CONNECT" \in lines
  BY <1>1
<1>4. taken.answered => Terminal(taken)
  <2>1. CASE "CONNECT" \in lines
    <3>1. CASE Exists(entered)
      BY <1>1, <2>1, <3>1 DEF AnswerRow, Terminal, TerminalStatus, Row
    <3>2. CASE ~Exists(entered)
      <4>1. Exists(LogEnterRow(r))
        BY DEF LogEnterRow, Exists, NoRow, Row
      <4>2. entered = r
        BY <3>2, <4>1
      <4>3. taken = r
        BY <2>1, <3>2, <4>2 DEF AnswerRow
      <4>4. QED
        BY <4>3
    <3>3. QED
      BY <3>1, <3>2
  <2>2. CASE "CONNECT" \notin lines
    BY <1>1, <2>2
  <2>3. QED
    BY <2>1, <2>2
<1>5. CASE lines \cap LogExits = {}
  BY <1>3, <1>4, <1>5 DEF ImportRow
<1>6. CASE lines \cap LogExits # {}
  <2>1. exit \in LogExits /\ exit \in lines
    BY <1>6
  <2>2. ImportRow(r, lines) = LogExitRow(taken, exit)
    BY <1>6 DEF ImportRow
  <2>3. ExitStatus(exit) \in TerminalStatus
    BY <2>1, ExitStatusTerminal
  <2>4. CASE Exists(taken)
    <3>1. Terminal(LogExitRow(taken, exit))
      BY <1>2, <2>3, <2>4 DEF LogExitRow, Terminal, Row
    <3>2. LogExitRow(taken, exit).answered = (taken.answered \/ exit = "COMPLETE")
      BY <1>2, <2>4 DEF LogExitRow, Row
    <3>3. QED
      BY <1>3, <2>1, <2>2, <3>1, <3>2
  <2>5. CASE ~Exists(taken)
    BY <1>3, <1>4, <2>2, <2>5 DEF LogExitRow
  <2>6. QED
    BY <2>4, <2>5
<1>7. QED
  BY <1>5, <1>6

-----------------------------------------------------------------------------
(* The exchange.                                                           *)

LEMMA SeqMonotone ==
  ASSUME NEW S, NEW T, S \subseteq T, NEW s \in Seq(S)
  PROVE  s \in Seq(T)
OBVIOUS

(* Once connected, a caller stays so: what is told does not become false.  *)
LEMMA ConnectedStable ==
  ASSUME TypeOK, ToldInv, NEW c \in Calls, CallStep(c)
  PROVE  \A d \in Calls : Connected(d) => Connected(d)'
<1> SUFFICES ASSUME NEW d \in Calls, Connected(d) PROVE Connected(d)'
  OBVIOUS
<1> USE DEF Connected, TypeOK, AstTypeOK, ToldInv, Moves
<1>1. CASE Join(c)           BY <1>1 DEF Join
<1>2. CASE CallAgent(c)      BY <1>2 DEF CallAgent
<1>3. CASE AgentRingsOut(c)  BY <1>3 DEF AgentRingsOut
<1>4. CASE Connect(c)        BY <1>4 DEF Connect
<1>5. CASE Abandon(c)        BY <1>5 DEF Abandon
<1>6. CASE LeaveQueue(c)
  <2>1. d # c
    BY <1>6 DEF LeaveQueue
  <2>2. phase'[d] = phase[d] /\ outcome'[d] = outcome[d]
    BY <1>6, <2>1 DEF LeaveQueue
  <2>3. QED
    BY <2>2
<1>7. CASE Complete(c)       BY <1>7 DEF Complete
<1>8. CASE HangupOutside(c)  BY <1>8 DEF HangupOutside
<1>9. QED
  BY <1>1, <1>2, <1>3, <1>4, <1>5, <1>6, <1>7, <1>8 DEF CallStep

LEMMA HonestGrows ==
  ASSUME TypeOK, ToldInv, NEW c \in Calls, CallStep(c)
  PROVE  amiq \in Seq(HonestEvents')
<1>1. HonestEvents \subseteq HonestEvents'
  BY ConnectedStable, EventFields DEF HonestEvents
<1>2. QED
  BY <1>1, SeqMonotone DEF ToldInv

LEMMA CallStepTold ==
  ASSUME TypeOK, ToldInv, NEW c \in Calls, CallStep(c)
  PROVE  ToldInv'
<1> DEFINE Lines(d) ==
      /\ phase[d] \in {"new", "waiting", "ringing"} => outcome[d] = "none"
      /\ "CONNECT" \in unread[d] \/ "COMPLETE" \in unread[d] => Connected(d)
      /\ Connected(d) /\ "ENTERQUEUE" \in unread[d] => "CONNECT" \in unread[d]
<1>1. amiq \in Seq(HonestEvents')
  BY HonestGrows
<1>2. ASSUME NEW d \in Calls PROVE Lines(d)
  BY DEF ToldInv
<1>3. /\ phase \in [Calls -> Phases] /\ outcome \in [Calls -> {"none"} \cup TerminalStatus]
      /\ unread \in [Calls -> SUBSET LogLines]
  BY DEF TypeOK, AstTypeOK
<1>4. ASSUME NEW d \in Calls, d # c,
             phase'[d] = phase[d], outcome'[d] = outcome[d], unread'[d] = unread[d]
      PROVE  Lines(d)'
  BY <1>2, <1>4 DEF Connected
<1>5. ASSUME amiq' \in Seq(HonestEvents'), \A d \in Calls : Lines(d)'
      PROVE  ToldInv'
  BY <1>5 DEF ToldInv
<1>6. CASE Join(c)
  <2>1. Lines(c)'
    BY <1>2, <1>3, <1>6 DEF Join, Moves, Log, Connected
  <2>2. \A d \in Calls : Lines(d)'
    BY <1>3, <1>4, <1>6, <2>1 DEF Join, Moves, Log
  <2>3. [Ev("Join", c) EXCEPT !.pos = Cardinality(Queued) + 1, !.at = clock'] \in HonestEvents'
    <3>1. Cardinality(Queued) + 1 \in Nat
      BY CountIsNat DEF Queued
    <3>2. clock' \in Nat
      BY <1>6 DEF Join, TypeOK, AstTypeOK
    <3>3. QED
      BY <3>1, <3>2 DEF HonestEvents, Ev, Event, EventKinds, Causes
  <2>4. amiq' \in Seq(HonestEvents')
    BY <1>1, <1>6, <2>3 DEF Join, Emit
  <2>5. QED
    BY <1>5, <2>2, <2>4
<1>7. CASE CallAgent(c)
  <2>1. \A d \in Calls : Lines(d)'
    BY <1>2, <1>3, <1>4, <1>7 DEF CallAgent, Moves, Connected
  <2>2. Ev("Called", c) \in HonestEvents'
    BY EventType DEF HonestEvents, Ev
  <2>3. amiq' \in Seq(HonestEvents')
    BY <1>1, <1>7, <2>2 DEF CallAgent, Emit
  <2>4. QED
    BY <1>5, <2>1, <2>3
<1>8. CASE AgentRingsOut(c)
  <2>1. \A d \in Calls : Lines(d)'
    BY <1>2, <1>3, <1>4, <1>8 DEF AgentRingsOut, Moves, Connected
  <2>2. QED
    BY <1>1, <1>5, <1>8, <2>1 DEF AgentRingsOut
<1>9. CASE Connect(c)
  <2>1. Lines(c)'
    BY <1>2, <1>3, <1>9 DEF Connect, Moves, Log, Connected
  <2>2. \A d \in Calls : Lines(d)'
    BY <1>3, <1>4, <1>9, <2>1 DEF Connect, Moves, Log
  <2>3. Ev("Connect", c) \in HonestEvents'
    <3>1. Connected(c)'
      BY <1>3, <1>9 DEF Connect, Moves, Connected
    <3>2. Ev("Connect", c) \in Event
      BY EventType
    <3>3. QED
      BY <3>1, <3>2 DEF HonestEvents, Ev
  <2>4. amiq' \in Seq(HonestEvents')
    BY <1>1, <1>9, <2>3 DEF Connect, Emit
  <2>5. QED
    BY <1>5, <2>2, <2>4
<1>10. CASE Abandon(c)
  <2>1. Lines(c)'
    BY <1>2, <1>3, <1>10 DEF Abandon, Moves, Log, Connected
  <2>2. \A d \in Calls : Lines(d)'
    BY <1>3, <1>4, <1>10, <2>1 DEF Abandon, Moves, Log
  <2>3. Ev("Abandon", c) \in HonestEvents' /\ HangupEv(c, "other") \in HonestEvents'
    BY EventType DEF HonestEvents, Ev, HangupEv
  <2>4. amiq' \in Seq(HonestEvents')
    BY <1>1, <1>10, <2>3 DEF Abandon, Emit
  <2>5. QED
    BY <1>5, <2>2, <2>4
<1>11. CASE LeaveQueue(c)
  <2>1. PICK line \in QueueExits :
          /\ Log(c, line)
          /\ outcome' = [outcome EXCEPT ![c] = ExitStatus(line)]
    BY <1>11 DEF LeaveQueue
  <2>2. line \in {"EXITWITHTIMEOUT", "EXITEMPTY", "EXITWITHKEY"}
    BY ExitsAssumption
  <2>3. ExitStatus(line) # "ANSWERED"
    BY <2>2 DEF ExitStatus
  <2>4. Lines(c)'
    BY <1>2, <1>3, <1>11, <2>1, <2>2, <2>3 DEF LeaveQueue, Moves, Log, Connected
  <2>5. \A d \in Calls : Lines(d)'
    BY <1>3, <1>4, <1>11, <2>1, <2>4 DEF LeaveQueue, Moves, Log
  <2>6. QED
    BY <1>1, <1>5, <1>11, <2>5 DEF LeaveQueue
<1>12. CASE Complete(c)
  <2>1. Lines(c)'
    BY <1>2, <1>3, <1>12 DEF Complete, Moves, Log, Connected
  <2>2. \A d \in Calls : Lines(d)'
    BY <1>3, <1>4, <1>12, <2>1 DEF Complete, Moves, Log
  <2>3. HangupEv(c, "other") \in HonestEvents'
    BY EventType DEF HonestEvents, Ev, HangupEv
  <2>4. amiq' \in Seq(HonestEvents')
    BY <1>1, <1>12, <2>3 DEF Complete, Emit
  <2>5. QED
    BY <1>5, <2>2, <2>4
<1>13. CASE HangupOutside(c)
  <2>1. \A d \in Calls : Lines(d)'
    BY <1>2, <1>3, <1>4, <1>13 DEF HangupOutside, Moves, Connected
  <2>2. PICK why \in Causes : Emit(<<HangupEv(c, why)>>)
    BY <1>13 DEF HangupOutside
  <2>3. HangupEv(c, why) \in HonestEvents'
    BY EventType DEF HonestEvents, Ev, HangupEv, Causes
  <2>4. amiq' \in Seq(HonestEvents')
    BY <1>1, <2>2, <2>3 DEF Emit
  <2>5. QED
    BY <1>5, <2>1, <2>4
<1>14. QED
  BY <1>6, <1>7, <1>8, <1>9, <1>10, <1>11, <1>12, <1>13 DEF CallStep

LEMMA ExchangeFinal ==
  ASSUME TypeOK, FinalInv, AsteriskStep
  PROVE  FinalInv'
<1>1. CASE \E c \in Calls : CallStep(c)
  <2>1. PICK c \in Calls : CallStep(c)
    BY <1>1
  <2>2. ToldInv'
    BY <2>1, CallStepTold DEF FinalInv
  <2>3. ASSUME NEW d \in Calls PROVE AnsweredRow(d)'
    <3>1. Connected(d) => Connected(d)'
      BY <2>1, ConnectedStable DEF FinalInv
    <3>2. rows' = rows
      BY DEF AsteriskStep, dbVars
    <3>3. QED
      BY <3>1, <3>2 DEF FinalInv, AnsweredRow, Terminal
  <2>4. QED
    BY <2>2, <2>3 DEF FinalInv
<1>2. CASE ConnectionBreaks
  <2>1. UNCHANGED <<phase, outcome, unread, rows>>
    BY <1>2 DEF ConnectionBreaks, AsteriskStep, dbVars
  <2>2. PICK n \in 0..Len(amiq) : amiq' = SubSeq(amiq, 1, n)
    BY <1>2 DEF ConnectionBreaks
  <2>3. amiq' \in Seq(HonestEvents)
    BY <2>2 DEF FinalInv, ToldInv
  <2>4. HonestEvents' = HonestEvents
    BY <2>1 DEF HonestEvents, Connected
  <2>5. QED
    BY <2>1, <2>3, <2>4 DEF FinalInv, ToldInv, AnsweredRow, Terminal, Connected
<1>3. QED
  BY <1>1, <1>2 DEF AsteriskStep

-----------------------------------------------------------------------------
(* The collector and the web processes.  They read the socket and empty    *)
(* the log; what is left of either stays honest.                           *)

LEMMA TailOfSeq ==
  ASSUME NEW S, NEW s \in Seq(S), s # <<>>
  PROVE  Tail(s) \in Seq(S)
OBVIOUS

LEMMA ReadersTold ==
  ASSUME FinalInv, UNCHANGED <<phase, outcome>>,
         \/ amiq' = amiq
         \/ amiq # <<>> /\ amiq' = Tail(amiq)
         \/ amiq' = <<>>,
         unread' = unread \/ unread' = [c \in Calls |-> {}]
  PROVE  ToldInv'
<1>1. HonestEvents' = HonestEvents
  BY DEF HonestEvents, Connected
<1>2. amiq \in Seq(HonestEvents)
  BY DEF FinalInv, ToldInv
<1>3. amiq' \in Seq(HonestEvents)
  <2>1. CASE amiq' = amiq
    BY <1>2, <2>1
  <2>2. CASE amiq # <<>> /\ amiq' = Tail(amiq)
    BY <1>2, <2>2, TailOfSeq
  <2>3. CASE amiq' = <<>>
    BY <2>3
  <2>4. QED
    BY <2>1, <2>2, <2>3
<1>4. QED
  BY <1>1, <1>3 DEF FinalInv, ToldInv, Connected

LEMMA RowsKept ==
  ASSUME FinalInv, UNCHANGED <<phase, outcome, rows>>
  PROVE  \A c \in Calls : AnsweredRow(c)'
BY DEF FinalInv, AnsweredRow, Terminal, Connected

(* A writer of one row.                                                    *)
LEMMA OneRow ==
  ASSUME TypeOK, FinalInv, UNCHANGED <<phase, outcome>>, NEW c \in Calls,
         NEW r \in Row, rows' = [rows EXCEPT ![c] = r],
         r.answered => Terminal(r) /\ Connected(c)
  PROVE  \A d \in Calls : AnsweredRow(d)'
BY DEF TypeOK, FinalInv, AnsweredRow, Terminal, Connected

LEMMA ImportFinal ==
  ASSUME TypeOK, FinalInv, UNCHANGED <<phase, outcome>>, ImportTables
  PROVE  \A c \in Calls : AnsweredRow(c)'
<1> SUFFICES ASSUME NEW c \in Calls PROVE AnsweredRow(c)'
  OBVIOUS
<1>1. rows[c] \in Row /\ unread[c] \in SUBSET LogLines
  BY DEF TypeOK, AstTypeOK
<1>2. rows'[c] = ImportRow(rows[c], unread[c])
  BY DEF ImportTables
<1>3. /\ rows[c].answered => Terminal(rows[c])
      /\ rows[c].answered /\ "ENTERQUEUE" \in unread[c] => "CONNECT" \in unread[c]
      /\ (\/ rows[c].answered
          \/ "CONNECT" \in unread[c]
          \/ "COMPLETE" \in unread[c]) => Connected(c)
  BY DEF FinalInv, ToldInv, AnsweredRow
<1>4. ImportRow(rows[c], unread[c]).answered =>
        /\ Terminal(ImportRow(rows[c], unread[c]))
        /\ Connected(c)
  <2>1. SUFFICES ASSUME ImportRow(rows[c], unread[c]).answered
                 PROVE  /\ Terminal(ImportRow(rows[c], unread[c]))
                        /\ \/ rows[c].answered
                           \/ "CONNECT" \in unread[c]
                           \/ "COMPLETE" \in unread[c]
    BY <1>3
  <2>2. QED
    BY <1>1, <1>3, <2>1, ImportRowFinal
<1>5. Connected(c)' <=> Connected(c)
  BY DEF Connected
<1>6. QED
  BY <1>2, <1>4, <1>5 DEF AnsweredRow, Terminal

LEMMA HandleFinal ==
  ASSUME TypeOK, FinalInv, Handle
  PROVE  FinalInv'
<1> DEFINE c == Head(amiq).call
<1>1. /\ amiq # <<>> /\ amiq' = Tail(amiq)
      /\ UNCHANGED <<phase, outcome, unread>>
  BY DEF Handle, HandleJoin, HandleCalled, HandleConnect, HandleAbandon,
         HandleHangup, Handles
<1>2. ToldInv'
  BY <1>1, ReadersTold
<1>3. Head(amiq) \in HonestEvents
  BY <1>1 DEF FinalInv, ToldInv
<1>4. c \in Calls
  BY <1>3, EventFields DEF HonestEvents
<1>5. rows[c] \in Row /\ (rows[c].answered => Terminal(rows[c]) /\ Connected(c))
  BY <1>4 DEF TypeOK, FinalInv, AnsweredRow
<1>6. \A d \in Calls : AnsweredRow(d)'
  <2>1. CASE HandleJoin
    <3>1. /\ EnterRow(rows[c]) \in Row
          /\ EnterRow(rows[c]).answered => Terminal(EnterRow(rows[c])) /\ Connected(c)
      BY <1>5, EventRowType, EventRowFinal
    <3>2. rows' = [rows EXCEPT ![c] = EnterRow(rows[c])]
      BY <2>1 DEF HandleJoin, SetRow
    <3>3. QED
      BY <1>1, <1>4, <3>1, <3>2, OneRow
  <2>2. CASE HandleCalled
    <3>1. /\ RingRow(rows[c]) \in Row
          /\ RingRow(rows[c]).answered => Terminal(RingRow(rows[c])) /\ Connected(c)
      BY <1>5, EventRowType, EventRowFinal
    <3>2. rows' = [rows EXCEPT ![c] = RingRow(rows[c])]
      BY <2>2 DEF HandleCalled, SetRow
    <3>3. QED
      BY <1>1, <1>4, <3>1, <3>2, OneRow
  <2>3. CASE HandleConnect
    <3>1. Connected(c)
      BY <1>3, <2>3 DEF HonestEvents, HandleConnect, Handles
    <3>2. /\ AnswerRow(rows[c]) \in Row
          /\ AnswerRow(rows[c]).answered => Terminal(AnswerRow(rows[c]))
      BY <1>5, EventRowType, EventRowFinal
    <3>3. rows' = [rows EXCEPT ![c] = AnswerRow(rows[c])]
      BY <2>3 DEF HandleConnect, SetRow
    <3>4. QED
      BY <1>1, <1>4, <3>1, <3>2, <3>3, OneRow
  <2>4. CASE HandleAbandon
    <3>1. /\ AbandonRow(rows[c]) \in Row
          /\ AbandonRow(rows[c]).answered => Terminal(AbandonRow(rows[c])) /\ Connected(c)
      BY <1>5, EventRowType, EventRowFinal
    <3>2. rows' = [rows EXCEPT ![c] = AbandonRow(rows[c])]
      BY <2>4 DEF HandleAbandon, SetRow
    <3>3. QED
      BY <1>1, <1>4, <3>1, <3>2, OneRow
  <2>5. CASE HandleHangup
    BY <1>1, <2>5, RowsKept DEF HandleHangup
  <2>6. QED
    BY <2>1, <2>2, <2>3, <2>4, <2>5 DEF Handle
<1>7. QED
  BY <1>2, <1>6 DEF FinalInv

LEMMA HangupWriteFinal ==
  ASSUME TypeOK, FinalInv, NEW p \in Procs, HangupWrite(p)
  PROVE  FinalInv'
<1> DEFINE j == job[p]
           r == HangupRow(rows[j.call], j.seen, j.cause, j.reason)
<1>1. UNCHANGED <<phase, outcome, amiq, unread>>
  BY DEF HangupWrite, asteriskVars
<1>2. ToldInv'
  BY <1>1, ReadersTold
<1>3. j.seen \in Row /\ j.cause \in Causes /\ j.reason \in {"ami", "ghost"}
  BY DEF TypeOK, Job
<1>4. CASE UNCHANGED rows
  BY <1>1, <1>2, <1>4, RowsKept DEF FinalInv
<1>5. CASE rows' = [rows EXCEPT ![j.call] = r] /\ j.call \in Calls
  <2>1. rows[j.call] \in Row /\ (rows[j.call].answered => Connected(j.call))
    BY <1>5 DEF TypeOK, FinalInv, AnsweredRow
  <2>2. r \in Row /\ Terminal(r) /\ (r.answered => Connected(j.call))
    BY <1>3, <2>1, HangupRowType, HangupRowFinal
  <2>3. QED
    BY <1>1, <1>2, <1>5, <2>2, OneRow DEF FinalInv
<1>6. CASE rows' = [rows EXCEPT ![j.call] = r] /\ j.call \notin Calls
  <2>1. rows' = rows
    BY <1>6 DEF TypeOK
  <2>2. QED
    BY <1>4, <2>1
<1>7. QED
  BY <1>4, <1>5, <1>6 DEF HangupWrite, SetRow

-----------------------------------------------------------------------------
LEMMA InitFinal == Init => FinalInv
<1> SUFFICES ASSUME Init PROVE FinalInv
  OBVIOUS
<1>1. ToldInv
  BY DEF Init, AstInit, ToldInv, Connected
<1>2. QED
  BY <1>1 DEF Init, NoRow, FinalInv, AnsweredRow

LEMMA StepFinal ==
  ASSUME TypeOK, FinalInv, [Next]_vars
  PROVE  FinalInv'
<1>1. CASE AsteriskStep
  BY <1>1, ExchangeFinal
<1>2. CASE Handle
  BY <1>2, HandleFinal
<1>3. CASE QueueStatus \/ Reconnect \/ ResyncDone
  <2>1. UNCHANGED <<phase, outcome, amiq, unread, rows>>
    BY <1>3 DEF QueueStatus, Reconnect, ResyncDone, asteriskVars, dbVars
  <2>2. QED
    BY <2>1, ReadersTold, RowsKept DEF FinalInv
<1>4. CASE ResyncEntry
  <2>1. UNCHANGED <<phase, outcome, amiq, unread>>
    BY <1>4 DEF ResyncEntry, asteriskVars
  <2>2. PICK c \in resync : rows' = [rows EXCEPT ![c] = EnterRow(rows[c])]
    BY <1>4 DEF ResyncEntry, SetRow
  <2>3. c \in Calls /\ rows[c] \in Row /\ AnsweredRow(c)
    BY <2>2 DEF TypeOK, FinalInv
  <2>4. EnterRow(rows[c]) \in Row
    BY <2>3, EventRowType
  <2>5. EnterRow(rows[c]).answered => Terminal(EnterRow(rows[c])) /\ Connected(c)
    BY <2>3, EventRowFinal DEF AnsweredRow
  <2>6. QED
    BY <2>1, <2>2, <2>3, <2>4, <2>5, ReadersTold, OneRow DEF FinalInv
<1>5. CASE CollectorRestarts
  <2>1. UNCHANGED <<phase, outcome, unread, rows>> /\ amiq' = <<>>
    BY <1>5 DEF CollectorRestarts, dbVars
  <2>2. QED
    BY <2>1, ReadersTold, RowsKept DEF FinalInv
<1>6. CASE PeriodicSyncTearsEvent
  <2>1. /\ UNCHANGED <<phase, outcome>>
        /\ amiq # <<>> /\ amiq' = Tail(amiq)
        /\ unread' = [c \in Calls |-> {}]
        /\ ImportTables
    BY <1>6 DEF PeriodicSyncTearsEvent, ImportTables
  <2>2. QED
    BY <2>1, ReadersTold, ImportFinal DEF FinalInv
<1>7. ASSUME UNCHANGED <<phase, outcome, amiq>>, ImportTables PROVE FinalInv'
  <2>1. unread' = [c \in Calls |-> {}]
    BY <1>7 DEF ImportTables
  <2>2. QED
    BY <1>7, <2>1, ReadersTold, ImportFinal DEF FinalInv
<1>8. ASSUME NEW p \in Procs, Reconcile(p) PROVE FinalInv'
  <2>1. CASE ReconcileStart(p)
    <3>1. CASE ImportTables
      BY <1>7, <2>1, <3>1, StartParts
    <3>2. CASE UNCHANGED <<rows, live, unread>>
      BY <2>1, <3>2, StartParts, ReadersTold, RowsKept DEF FinalInv
    <3>3. QED
      BY <2>1, <3>1, <3>2, StartParts
  <2>2. CASE \/ ReconcileGivesUp(p) \/ ReconcileChannels(p)
             \/ ReconcileQueueShow(p) \/ ReconcileScan(p) \/ ReconcilePurge(p)
    <3>1. UNCHANGED <<phase, outcome, amiq, unread, rows>>
      BY <2>2, ListsParts DEF ReconcileGivesUp, ReconcileChannels, ReconcileQueueShow,
                  ReconcileScan, ReconcilePurge, asteriskVars, dbVars
    <3>2. QED
      BY <3>1, ReadersTold, RowsKept DEF FinalInv
  <2>3. CASE ReconcileRecover(p)
    <3>1. UNCHANGED <<phase, outcome, amiq, unread>>
      BY <2>3 DEF ReconcileRecover, asteriskVars
    <3>2. ASSUME NEW c \in Calls PROVE AnsweredRow(c)'
      <4>1. rows'[c] = rows[c] \/ rows'[c] = EnterRow(rows[c])
        BY <2>3 DEF ReconcileRecover
      <4>2. rows[c] \in Row /\ AnsweredRow(c)
        BY DEF TypeOK, FinalInv
      <4>3. EnterRow(rows[c]).answered => Terminal(EnterRow(rows[c])) /\ Connected(c)
        BY <4>2, EventRowFinal DEF AnsweredRow
      <4>4. Connected(c)' <=> Connected(c)
        BY <3>1 DEF Connected
      <4>5. QED
        BY <4>1, <4>2, <4>3, <4>4 DEF AnsweredRow, Terminal
    <3>3. QED
      BY <3>1, <3>2, ReadersTold DEF FinalInv
  <2>4. QED
    BY <1>8, <2>1, <2>2, <2>3 DEF Reconcile
<1>9. ASSUME NEW p \in Procs, Continue(p) PROVE FinalInv'
  <2>1. CASE HangupWrite(p)
    BY <2>1, HangupWriteFinal
  <2>2. CASE RenumberRead(p) \/ RenumberWrite(p)
    <3>1. UNCHANGED <<phase, outcome, amiq, unread, rows>>
      BY <2>2 DEF RenumberRead, RenumberWrite, asteriskVars, dbVars
    <3>2. QED
      BY <3>1, ReadersTold, RowsKept DEF FinalInv
  <2>3. QED
    BY <1>9, <2>1, <2>2 DEF Continue
<1>10. ASSUME NEW p \in Web, WebImport(p) PROVE FinalInv'
  BY <1>7, <1>10 DEF WebImport, ImportLog
<1>11. CASE UNCHANGED vars
  <2>1. UNCHANGED <<phase, outcome, amiq, unread, rows>>
    BY <1>11 DEF vars, asteriskVars, dbVars
  <2>2. QED
    BY <2>1, ReadersTold, RowsKept DEF FinalInv
<1>12. QED
  BY <1>1, <1>2, <1>3, <1>4, <1>5, <1>6, <1>8, <1>9, <1>10, <1>11 DEF Next

(* A call that was answered never shows a status of a call still waiting,  *)
(* whatever events are lost or late, however the collector and any number  *)
(* of web processes interleave, and even if the exchange's command line    *)
(* fails (db_call_*, _sync_queue_log_to_db_locked, reconciliation).        *)
THEOREM AnsweredStaysFinal == Spec => []AnsweredIsFinal
<1>1. FinalInv => AnsweredIsFinal
  BY DEF FinalInv, AnsweredRow, AnsweredIsFinal
<1>2. TypeOK /\ FinalInv /\ [Next]_vars => FinalInv'
  BY StepFinal
<1>3. QED
  BY <1>1, <1>2, InitFinal, TypeCorrect, PTL DEF Spec

-----------------------------------------------------------------------------
(***************************************************************************)
(* Nothing is known of a call before it joins: every event, line, row,     *)
(* list and hangup is about a call that has joined.                        *)
(***************************************************************************)
Joined == {c \in Calls : phase[c] # "new"}

JoinedEvents == {e \in Event : e.call \in Joined}

Unheard(c) == unread[c] = {} /\ rows[c] = NoRow /\ live[c] = NoLive

AboutJoined(p) ==
  /\ job[p].call \in Joined \cup {NoCall}
  /\ snap[p].waiting \subseteq Joined
  /\ snap[p].ghosts \subseteq Joined
  /\ snap[p].missing \subseteq Joined

JoinedInv ==
  /\ amiq \in Seq(JoinedEvents)
  /\ \A c \in Calls \ Joined : Unheard(c)
  /\ resync \subseteq Joined
  /\ \A p \in Procs : AboutJoined(p)

(* A step of the exchange moves one call, which is no more new afterwards. *)
LEMMA CallMoves ==
  ASSUME TypeOK, NEW c \in Calls, CallStep(c)
  PROVE  /\ phase' = [phase EXCEPT ![c] = phase'[c]] /\ phase'[c] # "new"
         /\ unread' = [unread EXCEPT ![c] = unread'[c]]
         /\ phase[c] # "gone"
<1> USE DEF TypeOK, AstTypeOK, Moves, Log
<1>1. CASE Join(c)           BY <1>1 DEF Join
<1>2. CASE CallAgent(c)      BY <1>2 DEF CallAgent
<1>3. CASE AgentRingsOut(c)  BY <1>3 DEF AgentRingsOut
<1>4. CASE Connect(c)        BY <1>4 DEF Connect
<1>5. CASE Abandon(c)        BY <1>5 DEF Abandon
<1>6. CASE LeaveQueue(c)
  <2>1. PICK line \in QueueExits : Log(c, line)
    BY <1>6 DEF LeaveQueue
  <2>2. phase[c] \in {"waiting", "ringing"} /\ phase' = [phase EXCEPT ![c] = "out"]
    BY <1>6 DEF LeaveQueue
  <2>3. QED
    BY <2>1, <2>2
<1>7. CASE Complete(c)       BY <1>7 DEF Complete
<1>8. CASE HangupOutside(c)  BY <1>8 DEF HangupOutside
<1>9. QED
  BY <1>1, <1>2, <1>3, <1>4, <1>5, <1>6, <1>7, <1>8 DEF CallStep

(* What a step of the exchange emits is about its call.                    *)
LEMMA CallEmits ==
  ASSUME TypeOK, NEW c \in Calls, CallStep(c)
  PROVE  \/ amiq' = amiq
         \/ \E e \in Event : e.call = c /\ e.kind # "Abandon"
              /\ (e.kind = "Connect" => Connect(c)) /\ amiq' = Append(amiq, e)
         \/ \E e, f \in Event : /\ e.call = c /\ f.call = c
              /\ e.kind # "Connect" /\ f.kind = "Hangup"
              /\ (e.kind = "Abandon" => Abandon(c))
              /\ amiq' = Append(Append(amiq, e), f)
<1> USE DEF Emit
<1>0. amiq \in Seq(Event)
  BY DEF TypeOK, AstTypeOK
<1>1. CASE Join(c)
  <2> DEFINE e == [Ev("Join", c) EXCEPT !.pos = Cardinality(Queued) + 1, !.at = clock']
  <2>1. e \in Event /\ e.call = c /\ e.kind = "Join"
    <3>1. Cardinality(Queued) + 1 \in Nat
      BY CountIsNat DEF Queued
    <3>2. clock' \in Nat
      BY <1>1 DEF Join, TypeOK, AstTypeOK
    <3>3. QED
      BY <3>1, <3>2 DEF Ev, Event, EventKinds, Causes
  <2>2. amiq' = amiq \/ amiq' = amiq \o <<e>>
    BY <1>1 DEF Join
  <2> HIDE DEF e
  <2>3. amiq \o <<e>> = Append(amiq, e)
    BY <1>0, <2>1
  <2>4. QED
    BY <2>1, <2>2, <2>3
<1>2. CASE CallAgent(c)
  <2> DEFINE e == Ev("Called", c)
  <2>1. e \in Event /\ e.call = c /\ e.kind = "Called"
    BY EventType DEF Ev
  <2>2. amiq' = amiq \/ amiq' = amiq \o <<e>>
    BY <1>2 DEF CallAgent
  <2> HIDE DEF e
  <2>3. QED
    BY <1>0, <2>1, <2>2
<1>3. CASE AgentRingsOut(c) \/ LeaveQueue(c)
  BY <1>3 DEF AgentRingsOut, LeaveQueue
<1>4. CASE Connect(c)
  <2> DEFINE e == Ev("Connect", c)
  <2>1. e \in Event /\ e.call = c /\ e.kind = "Connect"
    BY EventType DEF Ev
  <2>2. amiq' = amiq \/ amiq' = amiq \o <<e>>
    BY <1>4 DEF Connect
  <2> HIDE DEF e
  <2>3. QED
    BY <1>0, <1>4, <2>1, <2>2
<1>5. CASE Abandon(c)
  <2> DEFINE e == Ev("Abandon", c)  f == HangupEv(c, "other")
  <2>1. /\ e \in Event /\ e.call = c /\ e.kind = "Abandon"
        /\ f \in Event /\ f.call = c /\ f.kind = "Hangup"
    BY EventType DEF Ev, HangupEv
  <2>2. amiq' = amiq \/ amiq' = amiq \o <<e, f>>
    BY <1>5 DEF Abandon
  <2> HIDE DEF e, f
  <2>3. amiq \o <<e, f>> = Append(Append(amiq, e), f)
    BY <1>0, <2>1
  <2>4. QED
    BY <1>5, <2>1, <2>2, <2>3
<1>6. CASE Complete(c)
  <2> DEFINE f == HangupEv(c, "other")
  <2>1. f \in Event /\ f.call = c /\ f.kind = "Hangup"
    BY EventType DEF Ev, HangupEv
  <2>2. amiq' = amiq \/ amiq' = amiq \o <<f, f>>
    BY <1>6 DEF Complete
  <2> HIDE DEF f
  <2>3. amiq \o <<f, f>> = Append(Append(amiq, f), f)
    BY <1>0, <2>1
  <2>4. QED
    BY <2>1, <2>2, <2>3
<1>7. CASE HangupOutside(c)
  <2>1. PICK why \in Causes : Emit(<<HangupEv(c, why)>>)
    BY <1>7 DEF HangupOutside
  <2> DEFINE e == HangupEv(c, why)
  <2>2. e \in Event /\ e.call = c /\ e.kind = "Hangup"
    BY EventType DEF Ev, HangupEv, Causes
  <2>3. amiq' = amiq \/ amiq' = amiq \o <<e>>
    BY <2>1
  <2> HIDE DEF e
  <2>4. QED
    BY <1>0, <2>2, <2>3
<1>8. QED
  BY <1>1, <1>2, <1>3, <1>4, <1>5, <1>6, <1>7 DEF CallStep

LEMMA JoinedMonotone ==
  ASSUME TypeOK, NEW c \in Calls, CallStep(c)
  PROVE  /\ Joined' = Joined \cup {c}
         /\ JoinedEvents \subseteq JoinedEvents'
<1>1. phase' = [phase EXCEPT ![c] = phase'[c]] /\ phase'[c] # "new"
  BY CallMoves
<1>2. \A d \in Calls : d # c => phase'[d] = phase[d]
  BY <1>1 DEF TypeOK, AstTypeOK
<1>3. Joined' = Joined \cup {c}
  BY <1>1, <1>2 DEF Joined
<1>4. QED
  BY <1>3 DEF JoinedEvents

LEMMA CallJoined ==
  ASSUME TypeOK, JoinedInv, AsteriskStep
  PROVE  JoinedInv'
<1>0. UNCHANGED <<rows, live, job, snap, resync>>
  BY DEF AsteriskStep, dbVars, procVars
<1>1. ASSUME NEW c \in Calls, CallStep(c) PROVE JoinedInv'
  <2>1. /\ Joined' = Joined \cup {c} /\ JoinedEvents \subseteq JoinedEvents'
        /\ unread' = [unread EXCEPT ![c] = unread'[c]]
    BY <1>1, JoinedMonotone, CallMoves
  <2>2. amiq \in Seq(JoinedEvents')
    BY <2>1, SeqMonotone DEF JoinedInv
  <2>3. ASSUME NEW e \in Event, e.call = c PROVE e \in JoinedEvents'
    BY <2>1, <2>3 DEF JoinedEvents
  <2>4. amiq' \in Seq(JoinedEvents')
    BY <1>1, <2>2, <2>3, CallEmits
  <2>5. ASSUME NEW d \in Calls \ Joined' PROVE Unheard(d)'
    <3>1. d \in Calls \ Joined /\ d # c
      BY <2>1
    <3>2. unread'[d] = unread[d]
      BY <2>1, <3>1 DEF TypeOK, AstTypeOK
    <3>3. QED
      BY <1>0, <3>1, <3>2 DEF JoinedInv, Unheard
  <2>6. ASSUME NEW p \in Procs PROVE AboutJoined(p)'
    BY <1>0, <2>1 DEF JoinedInv, AboutJoined
  <2>7. resync' \subseteq Joined'
    BY <1>0, <2>1 DEF JoinedInv
  <2>8. QED
    BY <2>4, <2>5, <2>6, <2>7 DEF JoinedInv
<1>2. CASE ConnectionBreaks
  <2>1. UNCHANGED <<phase, unread>>
    BY <1>2 DEF ConnectionBreaks
  <2>2. PICK n \in 0..Len(amiq) : amiq' = SubSeq(amiq, 1, n)
    BY <1>2 DEF ConnectionBreaks
  <2>3. Joined' = Joined /\ JoinedEvents' = JoinedEvents
    BY <2>1 DEF Joined, JoinedEvents
  <2>4. amiq' \in Seq(JoinedEvents)
    BY <2>2 DEF JoinedInv
  <2>5. QED
    BY <1>0, <2>1, <2>3, <2>4 DEF JoinedInv, Unheard, AboutJoined
<1>3. QED
  BY <1>1, <1>2 DEF AsteriskStep

LEMMA EventsJoined ==
  ASSUME JoinedInv, phase' = phase,
         \/ amiq' = amiq
         \/ amiq # <<>> /\ amiq' = Tail(amiq)
         \/ amiq' = <<>>
  PROVE  Joined' = Joined /\ amiq' \in Seq(JoinedEvents')
<1>1. Joined' = Joined /\ JoinedEvents' = JoinedEvents
  BY DEF Joined, JoinedEvents
<1>2. amiq \in Seq(JoinedEvents)
  BY DEF JoinedInv
<1>3. CASE amiq' = amiq
  BY <1>1, <1>2, <1>3
<1>4. CASE amiq # <<>> /\ amiq' = Tail(amiq)
  BY <1>1, <1>2, <1>4, TailOfSeq
<1>5. CASE amiq' = <<>>
  BY <1>1, <1>5
<1>6. QED
  BY <1>1, <1>3, <1>4, <1>5

(* Importing no line leaves a row as it is.                                *)
LEMMA ImportNothing == \A r, l : ImportRow(r, {}) = r /\ ImportLive(l, {}) = l
BY DEF ImportRow, ImportLive

LEMMA ImportJoined ==
  ASSUME TypeOK, JoinedInv, phase' = phase, ImportTables,
         NEW c \in Calls \ Joined
  PROVE  Unheard(c)'
<1>1. /\ rows'[c] = ImportRow(rows[c], unread[c])
      /\ live'[c] = ImportLive(live[c], unread[c])
      /\ unread'[c] = {}
  BY DEF ImportTables
<1>2. Unheard(c)
  BY DEF JoinedInv
<1>3. QED
  BY <1>1, <1>2, ImportNothing DEF Unheard

LEMMA HandleJoined ==
  ASSUME TypeOK, JoinedInv, Handle
  PROVE  JoinedInv'
<1> DEFINE c == Head(amiq).call
<1>1. /\ amiq # <<>> /\ amiq' = Tail(amiq)
      /\ UNCHANGED <<phase, unread, snap, resync>>
  BY DEF Handle, HandleJoin, HandleCalled, HandleConnect, HandleAbandon,
         HandleHangup, Handles
<1>2. Joined' = Joined /\ amiq' \in Seq(JoinedEvents')
  BY <1>1, EventsJoined
<1>3. c \in Joined
  BY <1>1 DEF JoinedInv, JoinedEvents
<1>4. \/ rows' = rows
      \/ \E r : rows' = [rows EXCEPT ![c] = r]
  BY DEF Handle, HandleJoin, HandleCalled, HandleConnect, HandleAbandon,
         HandleHangup, SetRow
<1>5. \/ live' = live
      \/ \E l : live' = [live EXCEPT ![c] = l]
  BY DEF Handle, HandleJoin, HandleCalled, HandleConnect, HandleAbandon,
         HandleHangup, SetLive
<1>6. \/ job' = job
      \/ \E j : job' = [job EXCEPT ![Collector] = j] /\ j.call = c
  BY DEF Handle, HandleJoin, HandleCalled, HandleConnect, HandleAbandon,
         HandleHangup
<1>7. \A d \in Calls \ Joined : rows'[d] = rows[d] /\ live'[d] = live[d]
  <2>1. rows \in [Calls -> Row] /\ live \in [Calls -> LiveRow]
    BY DEF TypeOK
  <2>2. QED
    BY <1>3, <1>4, <1>5, <2>1
<1>8. \A p \in Procs : job'[p].call \in Joined \cup {NoCall}
  <2>1. job \in [Procs -> Job]
    BY DEF TypeOK
  <2>2. QED
    BY <1>3, <1>6, <2>1 DEF JoinedInv, AboutJoined
<1>9. QED
  BY <1>1, <1>2, <1>7, <1>8 DEF JoinedInv, Unheard, AboutJoined

(* A process that does not touch the log: what it writes is about calls    *)
(* that have joined.                                                       *)
LEMMA OthersJoined ==
  ASSUME TypeOK, JoinedInv, UNCHANGED <<phase, unread>>,
         amiq' = amiq \/ amiq' = <<>>,
         \A d \in Calls \ Joined : rows'[d] = rows[d] /\ live'[d] = live[d],
         resync' \subseteq Joined,
         \A p \in Procs :
           /\ job'[p].call \in Joined \cup {NoCall}
           /\ snap'[p].waiting \subseteq Joined
           /\ snap'[p].ghosts \subseteq Joined
           /\ snap'[p].missing \subseteq Joined
  PROVE  JoinedInv'
<1>1. Joined' = Joined /\ amiq' \in Seq(JoinedEvents')
  BY EventsJoined
<1>2. QED
  BY <1>1 DEF JoinedInv, Unheard, AboutJoined

LEMMA ContinueJoined ==
  ASSUME TypeOK, JoinedInv, NEW p \in Procs, Continue(p)
  PROVE  JoinedInv'
<1>1. /\ rows \in [Calls -> Row] /\ live \in [Calls -> LiveRow]
      /\ job \in [Procs -> Job] /\ snap \in [Procs -> Snap]
  BY DEF TypeOK
<1>2. UNCHANGED <<phase, unread, amiq, snap, resync>>
  BY DEF Continue, HangupWrite, RenumberRead, RenumberWrite, asteriskVars
<1>3. \A q \in Procs : AboutJoined(q)
  BY DEF JoinedInv
<1>4. CASE HangupWrite(p)
  <2> DEFINE j == job[p]
  <2>1. j.call \in Joined \cup {NoCall} /\ NoCall \notin Calls
    BY <1>3, NoCallAssumption DEF AboutJoined
  <2>2. rows' = rows \/ \E r : rows' = [rows EXCEPT ![j.call] = r]
    BY <1>4 DEF HangupWrite, SetRow
  <2>3. live' = [live EXCEPT ![j.call] = NoLive]
    BY <1>4 DEF HangupWrite, SetLive
  <2>4. \A d \in Calls \ Joined : rows'[d] = rows[d] /\ live'[d] = live[d]
    BY <1>1, <2>1, <2>2, <2>3
  <2>5. \A q \in Procs : job'[q].call \in Joined \cup {NoCall}
    BY <1>1, <1>3, <1>4 DEF HangupWrite, NoJob, AboutJoined
  <2>6. QED
    BY <1>2, <1>3, <2>4, <2>5, OthersJoined DEF AboutJoined, JoinedInv
<1>5. CASE RenumberRead(p)
  <2>1. UNCHANGED <<rows, live, job>>
    BY <1>5 DEF RenumberRead, dbVars
  <2>2. QED
    BY <1>2, <1>3, <2>1, OthersJoined DEF AboutJoined, JoinedInv
<1>6. CASE RenumberWrite(p)
  <2>1. UNCHANGED <<rows, job>>
    BY <1>6 DEF RenumberWrite
  <2>2. \A d \in Calls \ Joined : live'[d] = live[d]
    <3>1. \A d \in Calls \ Joined : ~OnBoard(live[d])
      BY DEF JoinedInv, Unheard, OnBoard, NoLive
    <3>2. QED
      BY <1>6, <3>1 DEF RenumberWrite
  <2>3. QED
    BY <1>2, <1>3, <2>1, <2>2, OthersJoined DEF AboutJoined, JoinedInv
<1>7. QED
  BY <1>4, <1>5, <1>6 DEF Continue

LEMMA QueuedJoined == Queued \subseteq Joined /\ Alive \subseteq Joined
BY DEF Queued, Alive, Joined

LEMMA NoSnapJoined ==
  NoSnap.waiting = {} /\ NoSnap.ghosts = {} /\ NoSnap.missing = {}
BY DEF NoSnap

LEMMA ReconcileJoined ==
  ASSUME TypeOK, JoinedInv, NEW p \in Procs, Reconcile(p)
  PROVE  JoinedInv'
<1>1. /\ rows \in [Calls -> Row] /\ live \in [Calls -> LiveRow]
      /\ job \in [Procs -> Job] /\ snap \in [Procs -> Snap]
  BY DEF TypeOK
<1>2. \A q \in Procs : AboutJoined(q)
  BY DEF JoinedInv
<1>3. CASE ReconcileStart(p)
  <2>1. /\ UNCHANGED <<phase, amiq, job, resync>>
        /\ ImportTables \/ UNCHANGED <<rows, live, unread>>
        /\ snap' = [snap EXCEPT ![p].on = TRUE]
    BY <1>3, StartParts
  <2>2. Joined' = Joined /\ amiq' \in Seq(JoinedEvents')
    BY <2>1, EventsJoined
  <2>3. \A c \in Calls \ Joined : Unheard(c)'
    <3>1. CASE ImportTables
      BY <2>1, <3>1, ImportJoined
    <3>2. CASE UNCHANGED <<rows, live, unread>>
      BY <3>2 DEF JoinedInv, Unheard
    <3>3. QED
      BY <2>1, <3>1, <3>2
  <2>4. \A q \in Procs : /\ snap'[q].waiting = snap[q].waiting
                         /\ snap'[q].ghosts = snap[q].ghosts
                         /\ snap'[q].missing = snap[q].missing
    BY <1>1, <2>1 DEF Snap
  <2>5. QED
    BY <1>2, <2>1, <2>2, <2>3, <2>4 DEF JoinedInv, AboutJoined
<1>4. CASE ReconcileGivesUp(p)
  <2>1. UNCHANGED <<phase, unread, amiq, rows, live, job, resync>>
    BY <1>4 DEF ReconcileGivesUp, asteriskVars, dbVars
  <2>2. snap' = [snap EXCEPT ![p] = NoSnap]
    BY <1>4 DEF ReconcileGivesUp
  <2>3. \A q \in Procs : snap'[q] = snap[q] \/ snap'[q] = NoSnap
    BY <1>1, <2>2
  <2>4. QED
    BY <1>2, <2>1, <2>3, NoSnapJoined, OthersJoined DEF AboutJoined, JoinedInv
<1>5. CASE ReconcileChannels(p)
  <2>1. UNCHANGED <<phase, unread, amiq, rows, live, job, resync>>
    BY <1>5, ListsParts DEF ReconcileChannels, dbVars
  <2>2. PICK seen : snap' = [snap EXCEPT ![p].active = seen]
    BY <1>5 DEF ReconcileChannels
  <2>3. \A q \in Procs : /\ snap'[q].waiting = snap[q].waiting
                         /\ snap'[q].ghosts = snap[q].ghosts
                         /\ snap'[q].missing = snap[q].missing
    BY <1>1, <2>2 DEF Snap
  <2>4. QED
    BY <1>2, <2>1, <2>3, OthersJoined DEF AboutJoined, JoinedInv
<1>6. CASE ReconcileQueueShow(p)
  <2>1. UNCHANGED <<phase, unread, amiq, rows, live, job, resync>>
    BY <1>6, ListsParts DEF ReconcileQueueShow, dbVars
  <2>2. PICK seen \in {Queued, {}} : snap' = [snap EXCEPT ![p].waiting = seen]
    BY <1>6 DEF ReconcileQueueShow
  <2>3. seen \subseteq Joined
    BY QueuedJoined
  <2>4. \A q \in Procs : /\ snap'[q].waiting = snap[q].waiting \/ snap'[q].waiting = seen
                         /\ snap'[q].ghosts = snap[q].ghosts
                         /\ snap'[q].missing = snap[q].missing
    BY <1>1, <2>2 DEF Snap
  <2>5. QED
    BY <1>2, <2>1, <2>3, <2>4, OthersJoined DEF AboutJoined, JoinedInv
<1>7. CASE ReconcileScan(p)
  <2>1. UNCHANGED <<phase, unread, amiq, rows, job, resync>>
    BY <1>7 DEF ReconcileScan, asteriskVars
  <2>2. PICK left \in SUBSET {c \in Board : live[c].agent} :
          /\ live' = [c \in Calls |-> IF c \in left THEN NoLive ELSE live[c]]
          /\ snap' = [snap EXCEPT
                        ![p] = [NoSnap EXCEPT
                          !.on      = TRUE,
                          !.ghosts  = Ghosts(snap[p], Board \ left),
                          !.missing = (snap[p].waiting \cap snap[p].active)
                                        \ (Board \ left)]]
    BY <1>7 DEF ReconcileScan
  <2>3. Board \subseteq Joined /\ {d \in Calls : Uncompleted(rows[d])} \subseteq Joined
    BY DEF JoinedInv, Unheard, Board, OnBoard, NoLive, Uncompleted, Exists, NoRow
  <2>4. Ghosts(snap[p], Board \ left) \subseteq Joined
    BY <2>3 DEF Ghosts
  <2>5. \A d \in Calls \ Joined : live'[d] = live[d]
    BY <2>2, <2>3
  <2>6. /\ snap'[p].waiting = {} /\ snap'[p].ghosts = Ghosts(snap[p], Board \ left)
        /\ snap'[p].missing \subseteq snap[p].waiting
        /\ \A q \in Procs : q # p => snap'[q] = snap[q]
    BY <1>1, <2>2 DEF NoSnap
  <2>7. \A q \in Procs : /\ snap'[q].waiting \subseteq Joined
                         /\ snap'[q].ghosts \subseteq Joined
                         /\ snap'[q].missing \subseteq Joined
    BY <1>2, <2>4, <2>6 DEF AboutJoined
  <2>8. QED
    BY <1>2, <2>1, <2>5, <2>7, OthersJoined DEF AboutJoined, JoinedInv
<1>8. CASE ReconcilePurge(p)
  <2>1. UNCHANGED <<phase, unread, amiq, rows, live, resync>>
    BY <1>8 DEF ReconcilePurge, asteriskVars, dbVars
  <2>2. PICK c \in snap[p].ghosts :
          /\ snap' = [snap EXCEPT ![p].ghosts = @ \ {c}]
          /\ job' = [job EXCEPT ![p] = [call |-> c, seen |-> rows[c],
                                        cause |-> "other", reason |-> "ghost"]]
    BY <1>8 DEF ReconcilePurge
  <2>3. \A q \in Procs : /\ snap'[q].waiting = snap[q].waiting
                         /\ snap'[q].ghosts \subseteq snap[q].ghosts
                         /\ snap'[q].missing = snap[q].missing
    BY <1>1, <2>2 DEF Snap
  <2>4. \A q \in Procs : job'[q].call \in Joined \cup {NoCall}
    BY <1>1, <1>2, <2>2 DEF AboutJoined
  <2>5. QED
    BY <1>2, <2>1, <2>3, <2>4, OthersJoined DEF AboutJoined, JoinedInv
<1>9. CASE ReconcileRecover(p)
  <2>1. UNCHANGED <<phase, unread, amiq, job, resync>>
    BY <1>9 DEF ReconcileRecover, asteriskVars
  <2>2. snap' = [snap EXCEPT ![p] = NoSnap]
    BY <1>9 DEF ReconcileRecover
  <2>3. \A q \in Procs : snap'[q] = snap[q] \/ snap'[q] = NoSnap
    BY <1>1, <2>2
  <2>4. \A d \in Calls \ Joined : rows'[d] = rows[d] /\ live'[d] = live[d]
    BY <1>2, <1>9 DEF ReconcileRecover, AboutJoined
  <2>5. QED
    BY <1>2, <2>1, <2>3, <2>4, NoSnapJoined, OthersJoined DEF AboutJoined, JoinedInv
<1>10. QED
  BY <1>3, <1>4, <1>5, <1>6, <1>7, <1>8, <1>9 DEF Reconcile

LEMMA InitJoined == Init => JoinedInv
<1> SUFFICES ASSUME Init PROVE JoinedInv
  OBVIOUS
<1>1. /\ amiq = <<>> /\ resync = {}
      /\ \A c \in Calls : unread[c] = {} /\ rows[c] = NoRow /\ live[c] = NoLive
      /\ \A p \in Procs : job[p] = NoJob /\ snap[p] = NoSnap
  BY DEF Init, AstInit
<1>2. QED
  BY <1>1 DEF JoinedInv, Unheard, AboutJoined, NoJob, NoSnap

LEMMA StepJoined ==
  ASSUME TypeOK, JoinedInv, [Next]_vars
  PROVE  JoinedInv'
<1>1. \A q \in Procs : AboutJoined(q)
  BY DEF JoinedInv
<1>2. /\ rows \in [Calls -> Row] /\ live \in [Calls -> LiveRow]
      /\ job \in [Procs -> Job] /\ snap \in [Procs -> Snap]
  BY DEF TypeOK
<1>3. CASE QueueStatus \/ Reconnect \/ ResyncDone \/ UNCHANGED vars
  <2>1. UNCHANGED <<phase, unread, amiq, rows, live, job, snap>>
    BY <1>3 DEF QueueStatus, Reconnect, ResyncDone, vars, procVars, asteriskVars, dbVars
  <2>2. resync' \subseteq Joined
    BY <1>3, QueuedJoined DEF QueueStatus, Reconnect, ResyncDone, vars, procVars, JoinedInv
  <2>3. QED
    BY <1>1, <2>1, <2>2, OthersJoined DEF AboutJoined
<1>4. CASE ResyncEntry
  <2>1. UNCHANGED <<phase, unread, amiq, job, snap>>
    BY <1>4 DEF ResyncEntry, asteriskVars
  <2>2. PICK c \in resync :
          /\ rows' = [rows EXCEPT ![c] = EnterRow(rows[c])]
          /\ live' = [live EXCEPT ![c] = EnterLive(live[c], Cardinality(Board) + 1, clock)]
          /\ resync' = resync \ {c}
    BY <1>4 DEF ResyncEntry, SetRow, SetLive
  <2>3. \A d \in Calls \ Joined : rows'[d] = rows[d] /\ live'[d] = live[d]
    BY <1>2, <2>2 DEF JoinedInv
  <2>4. QED
    BY <1>1, <2>1, <2>2, <2>3, OthersJoined DEF AboutJoined, JoinedInv
<1>5. CASE CollectorRestarts
  <2>1. UNCHANGED <<phase, unread, rows, live>> /\ amiq' = <<>> /\ resync' = {}
    BY <1>5 DEF CollectorRestarts, dbVars
  <2>2. /\ \A q \in Procs : job'[q] = job[q] \/ job'[q] = NoJob
        /\ \A q \in Procs : snap'[q] = snap[q] \/ snap'[q] = NoSnap
    BY <1>2, <1>5 DEF CollectorRestarts
  <2>3. QED
    BY <1>1, <2>1, <2>2, NoSnapJoined, OthersJoined DEF AboutJoined, NoJob
<1>6. ASSUME UNCHANGED <<phase, job, resync>>, ImportTables,
             \/ amiq' = amiq
             \/ amiq # <<>> /\ amiq' = Tail(amiq),
             \/ snap' = snap
             \/ snap' = [snap EXCEPT ![Collector].on = TRUE]
      PROVE  JoinedInv'
  <2>1. Joined' = Joined /\ amiq' \in Seq(JoinedEvents')
    BY <1>6, EventsJoined
  <2>2. \A c \in Calls \ Joined : Unheard(c)'
    BY <1>6, ImportJoined
  <2>3. \A q \in Procs : /\ snap'[q].waiting = snap[q].waiting
                         /\ snap'[q].ghosts = snap[q].ghosts
                         /\ snap'[q].missing = snap[q].missing
    BY <1>2, <1>6 DEF Snap
  <2>4. QED
    BY <1>1, <1>6, <2>1, <2>2, <2>3 DEF JoinedInv, AboutJoined
<1>7. CASE PeriodicSyncTearsEvent
  BY <1>6, <1>7 DEF PeriodicSyncTearsEvent
<1>8. ASSUME NEW p \in Web, WebImport(p) PROVE JoinedInv'
  BY <1>6, <1>8 DEF WebImport, ImportLog, procVars
<1>9. QED
  BY <1>3, <1>4, <1>5, <1>7, <1>8, CallJoined, HandleJoined, ContinueJoined,
     ReconcileJoined DEF Next

LEMMA JoinedFirst == Spec => []JoinedInv
<1>1. TypeOK /\ JoinedInv /\ [Next]_vars => JoinedInv'
  BY StepJoined
<1>2. QED
  BY <1>1, InitJoined, TypeCorrect, PTL DEF Spec

-----------------------------------------------------------------------------
(***************************************************************************)
(* A reconciliation takes for a ghost a call that the tables have and the  *)
(* exchange's list of channels has not.  When only the collector writes    *)
(* the tables, they hold at the scan what they held when it asked for the  *)
(* channels, and only calls that had joined by then: what the list did not *)
(* show had ended.  (A web process reconciling next to it breaks this, for *)
(* a call that joins between the two; so does a command that failed, hence *)
(* GhostsGone.)                                                            *)
(***************************************************************************)
Gone == {c \in Calls : phase[c] = "gone"}

InTables == {c \in Calls : Exists(rows[c]) \/ OnBoard(live[c])}

(* job[Collector] and snap[Collector], as far as ghosts are concerned.     *)
GhostJob == job[Collector].reason = "ghost" => job[Collector].call \in Gone
Listing  == pc[Collector] \in {"queue show", "scan"}

GhostInv ==
  /\ \A c \in Calls : rows[c].reason = "ghost" => c \in Gone
  /\ GhostJob
  /\ snap[Collector].ghosts \subseteq Gone
  /\ Listing => InTables \subseteq snap[Collector].active \cup Gone

(* The exchange never takes back the end of a call.                        *)
LEMMA GoneStays ==
  ASSUME TypeOK, AsteriskStep
  PROVE  Gone \subseteq Gone'
<1>1. ASSUME NEW c \in Calls, CallStep(c) PROVE Gone \subseteq Gone'
  <2>1. phase' = [phase EXCEPT ![c] = phase'[c]] /\ phase[c] # "gone"
    BY <1>1, CallMoves
  <2>2. QED
    BY <2>1 DEF Gone, TypeOK, AstTypeOK
<1>2. CASE ConnectionBreaks
  BY <1>2 DEF ConnectionBreaks, Gone
<1>3. QED
  BY <1>1, <1>2 DEF AsteriskStep

(* Only a hangup writes that it closed the record of a ghost.              *)
LEMMA EventReason ==
  ASSUME NEW r \in Row
  PROVE  /\ EnterRow(r).reason = "ghost" => r.reason = "ghost"
         /\ RingRow(r).reason = "ghost" => r.reason = "ghost"
         /\ AnswerRow(r).reason = "ghost" => r.reason = "ghost"
         /\ AbandonRow(r).reason = "ghost" => r.reason = "ghost"
         /\ LogEnterRow(r).reason = "ghost" => r.reason = "ghost"
BY DEF Row, EnterRow, RingRow, AnswerRow, AbandonRow, LogEnterRow, Exists,
       Terminal, NoRow

LEMMA ImportReason ==
  ASSUME NEW r \in Row, NEW lines \in SUBSET LogLines,
         ImportRow(r, lines).reason = "ghost"
  PROVE  r.reason = "ghost"
<1> DEFINE entered == IF "ENTERQUEUE" \in lines THEN LogEnterRow(r) ELSE r
           taken   == IF "CONNECT" \in lines THEN AnswerRow(entered) ELSE entered
<1>1. entered \in Row /\ (entered.reason = "ghost" => r.reason = "ghost")
  BY EventReason DEF Row, LogEnterRow, NoRow, OpenStatus
<1>2. taken \in Row /\ (taken.reason = "ghost" => r.reason = "ghost")
  BY <1>1, EventRowType, EventReason
<1>3. CASE lines \cap LogExits = {}
  BY <1>2, <1>3 DEF ImportRow
<1>4. CASE lines \cap LogExits # {}
  <2> DEFINE x == CHOOSE e \in LogExits : e \in lines
  <2>1. ImportRow(r, lines) = LogExitRow(taken, x)
    BY <1>4 DEF ImportRow
  <2> HIDE DEF taken, x
  <2>2. LogExitRow(taken, x).reason = "ghost" => taken.reason = "ghost"
    BY <1>2 DEF LogExitRow, Row
  <2>3. QED
    BY <1>2, <2>1, <2>2
<1>5. QED
  BY <1>3, <1>4

LEMMA HangupReason ==
  ASSUME NEW r \in Row, NEW seen, NEW cause, NEW reason
  PROVE  HangupRow(r, seen, cause, reason).reason = reason
BY DEF HangupRow, Row

LEMMA CallGhosts ==
  ASSUME TypeOK, GhostInv, AsteriskStep
  PROVE  GhostInv'
<1>1. Gone \subseteq Gone'
  BY GoneStays
<1>2. UNCHANGED <<rows, live, pc, job, snap>>
  BY DEF AsteriskStep, dbVars, procVars
<1>3. InTables' = InTables
  BY <1>2 DEF InTables, Exists, OnBoard
<1>4. QED
  BY <1>1, <1>2, <1>3 DEF GhostInv, GhostJob, Listing

(* The steps that the collector takes outside of a listing.                *)
LEMMA IdleGhosts ==
  ASSUME TypeOK, GhostInv, phase' = phase,
         \A c \in Calls : rows'[c].reason = "ghost" => rows[c].reason = "ghost",
         job'[Collector].reason = "ghost" => job'[Collector] = job[Collector],
         snap'[Collector].ghosts \subseteq snap[Collector].ghosts,
         ~Listing'
  PROVE  GhostInv'
<1>1. Gone' = Gone
  BY DEF Gone
<1>2. QED
  BY <1>1 DEF GhostInv, GhostJob

LEMMA HandleGhosts ==
  ASSUME TypeOK, GhostInv, Handle
  PROVE  GhostInv'
<1> DEFINE c == Head(amiq).call
<1>1. amiq # <<>> /\ UNCHANGED <<phase, snap>> /\ Collector \in Procs
  BY DEF Handle, HandleJoin, HandleCalled, HandleConnect, HandleAbandon,
         HandleHangup, Handles, Procs
<1>2. c \in Calls /\ rows[c] \in Row
  BY <1>1, HeadType, EventFields DEF TypeOK, AstTypeOK
<1>3. pc'[Collector] \in {"idle", "renumber", "hangup"}
  BY <1>1 DEF Handle, HandleJoin, HandleCalled, HandleConnect, HandleAbandon,
         HandleHangup, Handles, AfterWrite, Goes, TypeOK
<1>4. \/ UNCHANGED rows
      \/ \E r \in {EnterRow(rows[c]), RingRow(rows[c]), AnswerRow(rows[c]),
                   AbandonRow(rows[c])} : rows' = [rows EXCEPT ![c] = r]
  BY DEF Handle, HandleJoin, HandleCalled, HandleConnect, HandleAbandon,
         HandleHangup, SetRow
<1>5. \A d \in Calls : rows'[d].reason = "ghost" => rows[d].reason = "ghost"
  BY <1>2, <1>4, EventReason DEF TypeOK
<1>6. job'[Collector] = job[Collector] \/ job'[Collector].reason = "ami"
  BY <1>1 DEF Handle, HandleJoin, HandleCalled, HandleConnect, HandleAbandon,
              HandleHangup, TypeOK
<1>7. QED
  BY <1>1, <1>3, <1>5, <1>6, IdleGhosts DEF Listing

LEMMA ContinueGhosts ==
  ASSUME TypeOK, GhostInv, Continue(Collector)
  PROVE  GhostInv'
<1>1. /\ rows \in [Calls -> Row] /\ pc \in [Procs -> PcValues] /\ job \in [Procs -> Job]
      /\ Collector \in Procs
  BY DEF TypeOK, Procs
<1>2. UNCHANGED <<phase, snap>>
  BY DEF Continue, HangupWrite, RenumberRead, RenumberWrite, asteriskVars
<1>3. pc'[Collector] \in {"idle", "purge", "renumber", "positions"}
  BY <1>1 DEF Continue, HangupWrite, RenumberRead, RenumberWrite, Goes, Resume
<1>4. CASE HangupWrite(Collector)
  <2> DEFINE j == job[Collector]
             r == HangupRow(rows[j.call], j.seen, j.cause, j.reason)
  <2>1. Gone' = Gone
    BY <1>2 DEF Gone
  <2>2. rows' = rows \/ rows' = [rows EXCEPT ![j.call] = r]
    BY <1>4 DEF HangupWrite, SetRow
  <2>3. j.call \in Calls => r.reason = j.reason
    BY <1>1, HangupReason
  <2> HIDE DEF r
  <2>4. ASSUME NEW c \in Calls, rows'[c].reason = "ghost" PROVE c \in Gone
    <3>1. CASE rows'[c] = rows[c]
      BY <2>4, <3>1 DEF GhostInv
    <3>2. CASE c = j.call /\ rows'[c] = r
      BY <2>3, <2>4, <3>2 DEF GhostInv, GhostJob
    <3>3. QED
      BY <1>1, <2>2, <3>1, <3>2
  <2>5. job'[Collector] = NoJob
    BY <1>1, <1>4 DEF HangupWrite
  <2>6. job'[Collector].reason # "ghost" /\ ~Listing'
    <3>1. NoJob.reason = "ami"
      BY DEF NoJob
    <3>2. job'[Collector].reason # "ghost"
      BY <2>5, <3>1
    <3>3. ~Listing'
      BY <1>3 DEF Listing
    <3>4. QED
      BY <3>2, <3>3
  <2>7. QED
    BY <1>2, <2>1, <2>4, <2>6 DEF GhostInv, GhostJob
<1>5. CASE RenumberRead(Collector) \/ RenumberWrite(Collector)
  <2>1. UNCHANGED <<rows, job>>
    BY <1>5 DEF RenumberRead, RenumberWrite, dbVars
  <2>2. QED
    BY <1>2, <1>3, <2>1, IdleGhosts DEF Listing
<1>6. QED
  BY <1>4, <1>5 DEF Continue

LEMMA ReconcileGhosts ==
  ASSUME TypeOK, JoinedInv, GhostInv, Reconcile(Collector), drops' = 0
  PROVE  GhostInv'
<1> DEFINE s == snap[Collector]
<1>1. /\ rows \in [Calls -> Row] /\ pc \in [Procs -> PcValues] /\ job \in [Procs -> Job]
      /\ snap \in [Procs -> Snap] /\ s \in Snap /\ Collector \in Procs
      /\ unread \in [Calls -> SUBSET LogLines]
  BY DEF TypeOK, AstTypeOK, Procs
<1>2. phase' = phase /\ Gone' = Gone
  BY <1>1, StartParts, ListsParts
  DEF Reconcile, ReconcileGivesUp, ReconcileChannels, ReconcileQueueShow,
      ReconcileScan, ReconcilePurge, ReconcileRecover, asteriskVars, Gone
<1>3. CASE ReconcileStart(Collector)
  <2>1. ASSUME NEW c \in Calls, rows'[c].reason = "ghost" PROVE rows[c].reason = "ghost"
    <3>1. rows'[c] = ImportRow(rows[c], unread[c])
      BY <1>1, <1>3, StartParts DEF ImportTables
    <3>2. QED
      BY <1>1, <2>1, <3>1, ImportReason
  <2>2. /\ job' = job /\ snap' = [snap EXCEPT ![Collector].on = TRUE]
        /\ pc'[Collector] = "channels"
    BY <1>1, <1>3 DEF ReconcileStart, Goes
  <2>3. snap'[Collector].ghosts = s.ghosts
    BY <1>1, <2>2 DEF Snap
  <2>4. QED
    BY <1>2, <2>1, <2>2, <2>3, IdleGhosts DEF Listing
<1>4. CASE ReconcileGivesUp(Collector)
  <2>1. /\ UNCHANGED <<rows, job>> /\ snap' = [snap EXCEPT ![Collector] = NoSnap]
        /\ pc'[Collector] = "idle"
    BY <1>1, <1>4 DEF ReconcileGivesUp, Goes, dbVars
  <2>2. snap'[Collector].ghosts = {}
    BY <1>1, <2>1 DEF NoSnap
  <2>3. QED
    BY <1>2, <2>1, <2>2, IdleGhosts DEF Listing
<1>5. CASE ReconcileChannels(Collector)
  <2>0. PICK seen \in {Alive, {}} :
          Lists(Alive, seen) /\ snap' = [snap EXCEPT ![Collector].active = seen]
    BY <1>5 DEF ReconcileChannels
  <2>1. UNCHANGED <<rows, live, job>> /\ snap' = [snap EXCEPT ![Collector].active = Alive]
    <3>1. drops \in Nat
      BY DEF TypeOK, AstTypeOK
    <3>2. seen = Alive
      BY <2>0, <3>1 DEF Lists, Fails
    <3>3. QED
      BY <1>5, <2>0, <3>2 DEF ReconcileChannels, dbVars
  <2>2. snap'[Collector].ghosts = s.ghosts /\ snap'[Collector].active = Alive
    BY <1>1, <2>1 DEF Snap
  <2>3. InTables \subseteq Alive \cup Gone
    BY DEF JoinedInv, Unheard, Joined, InTables, Exists, OnBoard, NoRow, NoLive, Alive, Gone
  <2>4. InTables' = InTables
    BY <2>1 DEF InTables, Exists, OnBoard
  <2>5. QED
    BY <1>2, <2>1, <2>2, <2>3, <2>4 DEF GhostInv, GhostJob
<1>6. CASE ReconcileQueueShow(Collector)
  <2>0. PICK seen \in {Queued, {}} :
          Lists(Queued, seen) /\ snap' = [snap EXCEPT ![Collector].waiting = seen]
    BY <1>6 DEF ReconcileQueueShow
  <2>1. /\ UNCHANGED <<rows, live, job>> /\ snap' = [snap EXCEPT ![Collector].waiting = Queued]
        /\ Listing
    <3>1. drops \in Nat
      BY DEF TypeOK, AstTypeOK
    <3>2. seen = Queued
      BY <2>0, <3>1 DEF Lists, Fails
    <3>3. QED
      BY <1>6, <2>0, <3>2 DEF ReconcileQueueShow, dbVars, Goes, Listing
  <2>2. snap'[Collector].ghosts = s.ghosts /\ snap'[Collector].active = s.active
    BY <1>1, <2>1 DEF Snap
  <2>3. InTables' = InTables
    BY <2>1 DEF InTables, Exists, OnBoard
  <2>4. QED
    BY <1>2, <2>1, <2>2, <2>3 DEF GhostInv, GhostJob
<1>7. CASE ReconcileScan(Collector)
  <2>1. UNCHANGED <<rows, job>> /\ Listing /\ ~Listing'
    BY <1>1, <1>7 DEF ReconcileScan, Goes, Listing
  <2>2. PICK left : snap'[Collector].ghosts = Ghosts(s, Board \ left)
    <3>1. PICK left, lost :
            snap' = [snap EXCEPT ![Collector] = [NoSnap EXCEPT !.on = TRUE,
                       !.ghosts = Ghosts(s, Board \ left), !.missing = lost]]
      BY <1>7 DEF ReconcileScan
    <3>2. snap'[Collector].ghosts = Ghosts(s, Board \ left)
      BY <1>1, <3>1 DEF NoSnap
    <3>3. QED
      BY <3>2
  <2>3. Ghosts(s, Board \ left) \subseteq InTables \ s.active
    BY DEF Ghosts, Board, InTables, Uncompleted
  <2>4. Ghosts(s, Board \ left) \subseteq Gone
    BY <2>1, <2>3 DEF GhostInv
  <2>5. QED
    BY <1>2, <2>1, <2>2, <2>4 DEF GhostInv, GhostJob
<1>8. CASE ReconcilePurge(Collector)
  <2>1. UNCHANGED rows /\ pc'[Collector] = "hangup"
    BY <1>1, <1>8 DEF ReconcilePurge, Goes, dbVars
  <2>2. PICK c \in s.ghosts :
          /\ snap' = [snap EXCEPT ![Collector].ghosts = @ \ {c}]
          /\ job' = [job EXCEPT ![Collector] = [call |-> c, seen |-> rows[c],
                                        cause |-> "other", reason |-> "ghost"]]
    BY <1>8 DEF ReconcilePurge
  <2>3. snap'[Collector].ghosts \subseteq s.ghosts /\ job'[Collector].call = c
    BY <1>1, <2>2 DEF Snap
  <2>4. QED
    BY <1>2, <2>1, <2>2, <2>3 DEF GhostInv, GhostJob, Listing
<1>9. CASE ReconcileRecover(Collector)
  <2>1. /\ UNCHANGED job /\ snap' = [snap EXCEPT ![Collector] = NoSnap]
        /\ pc'[Collector] = "renumber"
    BY <1>1, <1>9 DEF ReconcileRecover, Goes
  <2>2. snap'[Collector].ghosts = {}
    BY <1>1, <2>1 DEF NoSnap
  <2>3. ASSUME NEW c \in Calls, rows'[c].reason = "ghost" PROVE rows[c].reason = "ghost"
    <3>1. rows'[c] \in {rows[c], EnterRow(rows[c])}
      BY <1>9 DEF ReconcileRecover
    <3>2. QED
      BY <1>1, <2>3, <3>1, EventReason
  <2>4. QED
    BY <1>2, <2>1, <2>2, <2>3, IdleGhosts DEF Listing
<1>10. QED
  BY <1>3, <1>4, <1>5, <1>6, <1>7, <1>8, <1>9 DEF Reconcile

LEMMA InitGhosts == Init => GhostInv
<1> SUFFICES ASSUME Init PROVE GhostInv
  OBVIOUS
<1>1. /\ \A c \in Calls : rows[c].reason = "none"
      /\ pc[Collector] = "idle" /\ job[Collector] = NoJob /\ snap[Collector] = NoSnap
  BY DEF Init, NoRow, Procs
<1>2. QED
  BY <1>1 DEF GhostInv, GhostJob, Listing, NoJob, NoSnap

LEMMA StepGhosts ==
  ASSUME Web = {}, TypeOK, JoinedInv, GhostInv, [Next]_vars, drops' = 0
  PROVE  GhostInv'
<1>1. /\ rows \in [Calls -> Row] /\ pc \in [Procs -> PcValues] /\ job \in [Procs -> Job]
      /\ snap \in [Procs -> Snap] /\ Collector \in Procs /\ Procs = {Collector}
      /\ unread \in [Calls -> SUBSET LogLines]
  BY DEF TypeOK, AstTypeOK, Procs
<1>2. CASE QueueStatus \/ Reconnect \/ ResyncDone
  <2>1. UNCHANGED <<phase, rows, job, snap>>
    BY <1>2 DEF QueueStatus, Reconnect, ResyncDone, asteriskVars, dbVars
  <2>2. pc'[Collector] \in {"listed", "resync", "idle"}
    BY <1>1, <1>2 DEF QueueStatus, Reconnect, ResyncDone, Goes
  <2>3. QED
    BY <2>1, <2>2, IdleGhosts DEF Listing
<1>3. CASE ResyncEntry
  <2>1. UNCHANGED <<phase, job, snap, pc>> /\ pc[Collector] = "resync"
    BY <1>3 DEF ResyncEntry, asteriskVars
  <2>2. PICK c \in resync : rows' = [rows EXCEPT ![c] = EnterRow(rows[c])]
    BY <1>3 DEF ResyncEntry, SetRow
  <2>3. \A d \in Calls : rows'[d].reason = "ghost" => rows[d].reason = "ghost"
    BY <1>1, <2>2, EventReason
  <2>4. QED
    BY <2>1, <2>3, IdleGhosts DEF Listing
<1>4. CASE CollectorRestarts
  <2>1. /\ UNCHANGED <<phase, rows>> /\ job'[Collector] = NoJob
        /\ snap'[Collector] = NoSnap /\ pc'[Collector] = "idle"
    BY <1>1, <1>4 DEF CollectorRestarts, dbVars
  <2>2. QED
    BY <2>1, IdleGhosts DEF NoJob, NoSnap, Listing
<1>5. CASE PeriodicSyncTearsEvent
  <2>1. ASSUME NEW c \in Calls, rows'[c].reason = "ghost" PROVE rows[c].reason = "ghost"
    <3>1. rows'[c] = ImportRow(rows[c], unread[c])
      BY <1>5 DEF PeriodicSyncTearsEvent, ImportTables
    <3>2. QED
      BY <1>1, <2>1, <3>1, ImportReason
  <2>2. /\ UNCHANGED <<phase, job>> /\ snap' = [snap EXCEPT ![Collector].on = TRUE]
        /\ pc'[Collector] = "channels"
    BY <1>1, <1>5 DEF PeriodicSyncTearsEvent, Goes
  <2>3. snap'[Collector].ghosts = snap[Collector].ghosts
    BY <1>1, <2>2 DEF Snap
  <2>4. QED
    BY <2>1, <2>2, <2>3, IdleGhosts DEF Listing
<1>6. CASE UNCHANGED vars
  BY <1>6 DEF vars, asteriskVars, dbVars, procVars, GhostInv, GhostJob, Listing, InTables,
              Gone, Exists, OnBoard
<1>7. QED
  BY <1>1, <1>2, <1>3, <1>4, <1>5, <1>6, CallGhosts, HandleGhosts, ContinueGhosts,
     ReconcileGhosts DEF Next

(* A loss is not forgotten.                                                *)
LEMMA NoLossBefore ==
  ASSUME TypeOK, [Next]_vars, drops' = 0
  PROVE  drops = 0
<1>1. drops \in Nat
  BY DEF TypeOK, AstTypeOK
<1>2. CASE AsteriskStep
  <2>1. ASSUME NEW c \in Calls, CallStep(c) PROVE drops' = drops
    BY <2>1 DEF CallStep, Join, CallAgent, AgentRingsOut, Connect, Abandon, LeaveQueue,
                Complete, HangupOutside
  <2>2. CASE ConnectionBreaks
    BY <1>1, <2>2 DEF ConnectionBreaks
  <2>3. QED
    BY <1>2, <2>1, <2>2 DEF AsteriskStep
<1>3. CASE Handle
  BY <1>3 DEF Handle, HandleJoin, HandleCalled, HandleConnect, HandleAbandon, HandleHangup,
              Handles
<1>4. CASE QueueStatus \/ Reconnect \/ ResyncEntry \/ ResyncDone
  BY <1>4 DEF QueueStatus, Reconnect, ResyncEntry, ResyncDone, asteriskVars
<1>5. CASE CollectorRestarts \/ PeriodicSyncTearsEvent
  BY <1>1, <1>5 DEF CollectorRestarts, PeriodicSyncTearsEvent
<1>6. ASSUME NEW p \in Procs, Reconcile(p) PROVE drops = 0
  <2>1. CASE ReconcileStart(p)
    BY <2>1, StartParts
  <2>2. CASE ReconcileChannels(p)
    <3>1. PICK seen \in {Alive, {}} : Lists(Alive, seen)
      BY <2>2 DEF ReconcileChannels
    <3>2. QED
      BY <1>1, <3>1 DEF Lists, Fails, asteriskVars
  <2>3. CASE ReconcileQueueShow(p)
    <3>1. PICK seen \in {Queued, {}} : Lists(Queued, seen)
      BY <2>3 DEF ReconcileQueueShow
    <3>2. QED
      BY <1>1, <3>1 DEF Lists, Fails, asteriskVars
  <2>4. CASE ReconcileGivesUp(p) \/ ReconcileScan(p) \/ ReconcilePurge(p) \/ ReconcileRecover(p)
    BY <2>4 DEF ReconcileGivesUp, ReconcileScan, ReconcilePurge, ReconcileRecover, asteriskVars
  <2>5. QED
    BY <1>6, <2>1, <2>2, <2>3, <2>4 DEF Reconcile
<1>7. ASSUME NEW p \in Procs, Continue(p) PROVE drops = 0
  BY <1>7 DEF Continue, HangupWrite, RenumberRead, RenumberWrite, asteriskVars
<1>8. ASSUME NEW p \in Web, WebImport(p) PROVE drops = 0
  BY <1>8 DEF WebImport, ImportLog
<1>9. CASE UNCHANGED vars
  BY <1>9 DEF vars, asteriskVars
<1>10. QED
  BY <1>2, <1>3, <1>4, <1>5, <1>6, <1>7, <1>8, <1>9 DEF Next

GhostsGone == drops = 0 => GhostInv

LEMMA GhostsStayGone == Web = {} => (Spec => []GhostsGone)
<1> SUFFICES ASSUME Web = {} PROVE Spec => []GhostsGone
  OBVIOUS
<1>1. TypeOK /\ JoinedInv /\ GhostsGone /\ [Next]_vars => GhostsGone'
  BY StepGhosts, NoLossBefore DEF GhostsGone
<1>2. Init => GhostsGone
  BY InitGhosts DEF GhostsGone
<1>3. QED
  BY <1>1, <1>2, JoinedFirst, TypeCorrect, PTL DEF Spec

-----------------------------------------------------------------------------
(***************************************************************************)
(* Once the line that ends a call is imported, its record says what the    *)
(* line said, and nothing changes that any more: a late event finds a      *)
(* status that is final, or repeats what it says; a hangup decides on the  *)
(* row as it still is (the collector alone writes), and leaves a settled   *)
(* one alone.  Until then anything may be in the record but a talk time of *)
(* a caller who never talked.                                              *)
(***************************************************************************)
TrueEvents == {e \in Event : e.kind = "Abandon" => outcome[e.call] = "ABANDONED"}

LinesTrue(c) ==
  /\ phase[c] \in {"new", "waiting", "ringing", "talking"} <=> outcome[c] = "none"
  /\ \A line \in unread[c] \cap LogExits : outcome[c] = ExitStatus(line)
  /\ outcome[c] # "none" /\ unread[c] \cap LogExits = {} => unread[c] = {}

(* What is asked of the record r of the call.                              *)
RowTrue(c, r) ==
  /\ phase[c] # "new" => "ENTERQUEUE" \in unread[c] \/ Exists(r)
  /\ r.talk => Connected(c)
  /\ outcome[c] # "none" /\ unread[c] = {} =>
       /\ r.status = outcome[c] /\ r.hung
       /\ outcome[c] = "ANSWERED" => r.talk

HangupTrue ==
  pc[Collector] = "hangup" =>
    /\ job[Collector].call \in Calls
    /\ job[Collector].seen = rows[job[Collector].call]

RecordInv ==
  /\ amiq \in Seq(TrueEvents)
  /\ \A c \in Calls : LinesTrue(c) /\ RowTrue(c, rows[c])
  /\ HangupTrue

LEMMA EventRowTrue ==
  ASSUME TypeOK, NEW c \in Calls, NEW r \in Row, LinesTrue(c), RowTrue(c, r)
  PROVE  /\ RowTrue(c, EnterRow(r))
         /\ RowTrue(c, RingRow(r))
         /\ Connected(c) => RowTrue(c, AnswerRow(r))
         /\ outcome[c] = "ABANDONED" => RowTrue(c, AbandonRow(r))
<1>1. outcome[c] \in {"none"} \cup TerminalStatus
  BY DEF TypeOK, AstTypeOK
<1>2. Connected(c) => outcome[c] \in {"none", "ANSWERED"}
  BY DEF LinesTrue, Connected
<1>3. RowTrue(c, EnterRow(r))
  <2>1. /\ Exists(EnterRow(r)) /\ (EnterRow(r).talk => r.talk)
        /\ Terminal(r) => EnterRow(r) = r
    BY DEF EnterRow, Exists, Row, Terminal, NoRow, TerminalStatus
  <2>2. outcome[c] # "none" /\ unread[c] = {} => Terminal(r)
    BY <1>1 DEF RowTrue, Terminal
  <2>3. QED
    BY <2>1, <2>2 DEF RowTrue
<1>4. RowTrue(c, RingRow(r))
  <2>1. /\ (Exists(r) <=> Exists(RingRow(r))) /\ (RingRow(r).talk => r.talk)
        /\ Terminal(r) => RingRow(r) = r
    BY DEF RingRow, Exists, Row, Terminal, TerminalStatus
  <2>2. outcome[c] # "none" /\ unread[c] = {} => Terminal(r)
    BY <1>1 DEF RowTrue, Terminal
  <2>3. QED
    BY <2>1, <2>2 DEF RowTrue
<1>5. ASSUME Connected(c) PROVE RowTrue(c, AnswerRow(r))
  <2>1. /\ Exists(r) <=> Exists(AnswerRow(r))
        /\ AnswerRow(r).talk = r.talk /\ AnswerRow(r).hung = r.hung
        /\ Exists(r) => AnswerRow(r).status = "ANSWERED"
        /\ ~Exists(r) => AnswerRow(r) = r
    BY DEF AnswerRow, Exists, Row
  <2>2. QED
    BY <1>2, <1>5, <2>1 DEF RowTrue
<1>6. ASSUME outcome[c] = "ABANDONED" PROVE RowTrue(c, AbandonRow(r))
  <2>1. /\ Exists(r) <=> Exists(AbandonRow(r))
        /\ AbandonRow(r).talk = r.talk
        /\ Exists(r) => AbandonRow(r).status = "ABANDONED" /\ AbandonRow(r).hung
        /\ ~Exists(r) => AbandonRow(r) = r
    BY DEF AbandonRow, Exists, Row
  <2>2. QED
    BY <1>6, <2>1 DEF RowTrue
<1>7. QED
  BY <1>3, <1>4, <1>5, <1>6

LEMMA HangupRowTrue ==
  ASSUME TypeOK, NEW c \in Calls, NEW r \in Row, RowTrue(c, r), ~Settled(r),
         r.answered => Connected(c), Exists(r),
         NEW cause \in Causes, NEW reason \in {"ami", "ghost"}
  PROVE  RowTrue(c, HangupRow(r, r, cause, reason))
<1> DEFINE h == HangupRow(r, r, cause, reason)
<1>1. HangupStatus(r, cause) \in TerminalStatus
  BY DEF HangupStatus, Terminal, Row, TerminalStatus
<1>2. h.status \in TerminalStatus /\ (h.talk => r.answered)
  BY <1>1 DEF HangupRow, Row
<1>3. ~(outcome[c] # "none" /\ unread[c] = {})
  BY DEF RowTrue, Settled, Terminal, TypeOK, AstTypeOK
<1>4. Exists(h)
  BY <1>2 DEF Exists, TerminalStatus
<1> HIDE DEF h
<1>5. RowTrue(c, h)
  BY <1>2, <1>3, <1>4 DEF RowTrue
<1>6. QED
  BY <1>5 DEF h

(* The import settles the record of a call that has ended.                 *)
LEMMA ImportRowTrue ==
  ASSUME NEW r \in Row, NEW lines \in SUBSET LogLines,
         "ENTERQUEUE" \in lines \/ Exists(r),
         NEW x \in LogExits, \A line \in lines \cap LogExits : line = x
  PROVE  /\ Exists(ImportRow(r, lines))
         /\ ImportRow(r, lines).talk => r.talk \/ "COMPLETE" \in lines
         /\ lines \cap LogExits # {} =>
              /\ ImportRow(r, lines).status = ExitStatus(x)
              /\ ImportRow(r, lines).hung
              /\ x = "COMPLETE" => ImportRow(r, lines).talk
<1> DEFINE entered == IF "ENTERQUEUE" \in lines THEN LogEnterRow(r) ELSE r
           taken   == IF "CONNECT" \in lines THEN AnswerRow(entered) ELSE entered
<1>1. entered \in Row /\ Exists(entered) /\ (entered.talk => r.talk)
  BY DEF Row, LogEnterRow, NoRow, OpenStatus, Exists
<1> HIDE DEF entered
<1>2. taken \in Row
  BY <1>1, EventRowType
<1>3. Exists(taken) /\ (taken.talk => r.talk)
  BY <1>1 DEF AnswerRow, Exists, Row
<1>4. CASE lines \cap LogExits = {}
  BY <1>3, <1>4 DEF ImportRow, entered
<1>5. CASE lines \cap LogExits # {}
  <2>1. (CHOOSE e \in LogExits : e \in lines) = x /\ x \in lines
    BY <1>5
  <2>2. ImportRow(r, lines) = LogExitRow(taken, x)
    BY <1>5, <2>1 DEF ImportRow, entered
  <2> HIDE DEF taken
  <2>3. ExitStatus(x) \in TerminalStatus
    BY ExitStatusTerminal
  <2>4. /\ LogExitRow(taken, x).status = ExitStatus(x) /\ LogExitRow(taken, x).hung
        /\ LogExitRow(taken, x).talk = (taken.talk \/ x = "COMPLETE")
    BY <1>2, <1>3 DEF LogExitRow, Row
  <2>5. Exists(LogExitRow(taken, x))
    BY <2>3, <2>4 DEF Exists, TerminalStatus
  <2>6. QED
    BY <1>3, <2>1, <2>2, <2>4, <2>5
<1>6. QED
  BY <1>4, <1>5

LEMMA ExitsDiffer ==
  ASSUME NEW x \in LogExits, NEW y \in LogExits, ExitStatus(x) = ExitStatus(y)
  PROVE  x = y /\ (ExitStatus(x) = "ANSWERED" <=> x = "COMPLETE")
BY DEF LogExits, ExitStatus

LEMMA ImportRecord ==
  ASSUME TypeOK, FinalInv, JoinedInv, RecordInv, UNCHANGED <<phase, outcome>>, ImportTables,
         NEW c \in Calls
  PROVE  LinesTrue(c)' /\ RowTrue(c, rows[c])'
<1> DEFINE lines == unread[c]
<1>1. /\ rows'[c] = ImportRow(rows[c], lines) /\ unread'[c] = {}
      /\ phase'[c] = phase[c] /\ outcome'[c] = outcome[c]
      /\ rows[c] \in Row /\ lines \in SUBSET LogLines
  BY DEF ImportTables, TypeOK, AstTypeOK
<1>2. LinesTrue(c) /\ RowTrue(c, rows[c])
  BY DEF RecordInv
<1>3. LinesTrue(c)'
  BY <1>1, <1>2 DEF LinesTrue
<1>4. Connected(c)' <=> Connected(c)
  BY DEF Connected
<1>5. CASE phase[c] = "new"
  <2>1. rows'[c] = rows[c] /\ outcome[c] = "none" /\ rows[c] = NoRow
    BY <1>1, <1>2, <1>5, ImportNothing DEF JoinedInv, Joined, Unheard, LinesTrue
  <2>2. QED
    BY <1>1, <1>3, <1>5, <2>1 DEF RowTrue, NoRow
<1>6. CASE phase[c] # "new"
  <2>1. PICK x \in LogExits : \A line \in lines \cap LogExits : line = x
    <3>1. CASE lines \cap LogExits = {}
      BY <3>1 DEF LogExits
    <3>2. CASE lines \cap LogExits # {}
      <4>1. PICK x \in lines \cap LogExits : TRUE
        BY <3>2
      <4>2. \A line \in lines \cap LogExits : line = x
        BY <1>2, <4>1, ExitsDiffer DEF LinesTrue
      <4>3. QED
        BY <4>1, <4>2
    <3>3. QED
      BY <3>1, <3>2
  <2>2. "ENTERQUEUE" \in lines \/ Exists(rows[c])
    BY <1>2, <1>6 DEF RowTrue
  <2> DEFINE r == ImportRow(rows[c], lines)
  <2>3. /\ Exists(r) /\ (r.talk => rows[c].talk \/ "COMPLETE" \in lines)
        /\ lines \cap LogExits # {} =>
             r.status = ExitStatus(x) /\ r.hung /\ (x = "COMPLETE" => r.talk)
    BY <1>1, <2>1, <2>2, ImportRowTrue
  <2>4. lines = {} => r = rows[c]
    BY ImportNothing
  <2> HIDE DEF r
  <2>5. r.talk => Connected(c)
    BY <1>2, <2>3 DEF RowTrue, FinalInv, ToldInv
  <2>6. ASSUME outcome[c] # "none"
        PROVE  r.status = outcome[c] /\ r.hung /\ (outcome[c] = "ANSWERED" => r.talk)
    <3>1. CASE lines \cap LogExits = {}
      <4>1. lines = {}
        BY <1>2, <2>6, <3>1 DEF LinesTrue
      <4>2. QED
        BY <1>2, <2>4, <2>6, <4>1 DEF RowTrue
    <3>2. CASE lines \cap LogExits # {}
      <4>1. x \in lines
        BY <2>1, <3>2
      <4>2. outcome[c] = ExitStatus(x)
        BY <1>2, <4>1 DEF LinesTrue
      <4>3. QED
        BY <2>3, <3>2, <4>2, ExitsDiffer
    <3>3. QED
      BY <3>1, <3>2
  <2>7. rows'[c] = r
    BY <1>1 DEF r
  <2>8. RowTrue(c, rows[c])'
    BY <1>1, <1>4, <2>3, <2>5, <2>6, <2>7 DEF RowTrue, Exists
  <2>9. QED
    BY <1>3, <2>8
<1>7. QED
  BY <1>5, <1>6

(* A step of the exchange logs what the call comes to, and says in its     *)
(* events what is so.                                                      *)
LEMMA CallRecord ==
  ASSUME TypeOK, FinalInv, RecordInv, NEW c \in Calls, CallStep(c),
         UNCHANGED <<rows, pc, job>>
  PROVE  RecordInv'
<1>1. /\ phase \in [Calls -> Phases] /\ outcome \in [Calls -> {"none"} \cup TerminalStatus]
      /\ unread \in [Calls -> SUBSET LogLines] /\ amiq \in Seq(TrueEvents)
  BY DEF TypeOK, AstTypeOK, RecordInv
<1>2. LinesTrue(c) /\ RowTrue(c, rows[c])
  BY DEF RecordInv
<1>3. /\ \A d \in Calls : d # c => /\ phase'[d] = phase[d] /\ outcome'[d] = outcome[d]
                                   /\ unread'[d] = unread[d]
      /\ outcome[c] \in {"none", outcome'[c]}
      /\ LinesTrue(c)' /\ RowTrue(c, rows[c])'
  <2>1. CASE Join(c)
    <3>1. /\ outcome' = outcome /\ phase[c] = "new" /\ phase' = [phase EXCEPT ![c] = "waiting"]
          /\ unread' = [unread EXCEPT ![c] = @ \cup {"ENTERQUEUE"}]
      BY <2>1 DEF Join, Moves, Log
    <3>2. /\ phase'[c] = "waiting" /\ unread'[c] = unread[c] \cup {"ENTERQUEUE"}
          /\ outcome'[c] = "none" /\ outcome[c] = "none"
      BY <1>1, <1>2, <3>1 DEF LinesTrue
    <3>3. LinesTrue(c)'
      BY <1>2, <3>2 DEF LinesTrue, LogExits
    <3>4. RowTrue(c, rows[c])'
      BY <1>2, <3>1, <3>2 DEF RowTrue, Connected
    <3>5. QED
      BY <1>1, <3>1, <3>2, <3>3, <3>4
  <2>2. CASE CallAgent(c) \/ AgentRingsOut(c)
    <3>1. /\ outcome' = outcome /\ unread' = unread
          /\ phase[c] \in {"waiting", "ringing"}
          /\ phase' = [phase EXCEPT ![c] = phase'[c]] /\ phase'[c] \in {"waiting", "ringing"}
      BY <1>1, <2>2 DEF CallAgent, AgentRingsOut, Moves
    <3>2. LinesTrue(c)'
      BY <1>2, <3>1 DEF LinesTrue
    <3>3. RowTrue(c, rows[c])'
      BY <1>2, <3>1 DEF RowTrue, Connected, Exists
    <3>4. QED
      BY <1>1, <3>1, <3>2, <3>3
  <2>3. CASE Connect(c)
    <3>1. /\ outcome' = outcome /\ phase[c] = "ringing" /\ phase' = [phase EXCEPT ![c] = "talking"]
          /\ unread' = [unread EXCEPT ![c] = @ \cup {"CONNECT"}]
      BY <2>3 DEF Connect, Moves, Log
    <3>2. /\ phase'[c] = "talking" /\ unread'[c] = unread[c] \cup {"CONNECT"}
          /\ outcome'[c] = "none" /\ outcome[c] = "none"
      BY <1>1, <1>2, <3>1 DEF LinesTrue
    <3>3. LinesTrue(c)'
      BY <1>2, <3>2 DEF LinesTrue, LogExits
    <3>4. RowTrue(c, rows[c])'
      BY <1>2, <3>1, <3>2 DEF RowTrue, Connected, Exists
    <3>5. QED
      BY <1>1, <3>1, <3>2, <3>3, <3>4
  <2>4. ASSUME NEW line \in LogExits, NEW to \in {"out", "gone"},
               Log(c, line), outcome' = [outcome EXCEPT ![c] = ExitStatus(line)],
               phase' = [phase EXCEPT ![c] = to], outcome[c] = "none", phase[c] # "new",
               phase[c] = "talking" => line = "COMPLETE"
        PROVE  /\ \A d \in Calls : d # c => /\ phase'[d] = phase[d] /\ outcome'[d] = outcome[d]
                                            /\ unread'[d] = unread[d]
               /\ outcome[c] \in {"none", outcome'[c]}
               /\ LinesTrue(c)' /\ RowTrue(c, rows[c])'
    <3>1. /\ phase'[c] = to /\ unread'[c] = unread[c] \cup {line}
          /\ outcome'[c] = ExitStatus(line) /\ ExitStatus(line) \in TerminalStatus
      BY <1>1, <2>4, ExitStatusTerminal DEF Log
    <3>2. unread[c] \cap LogExits = {}
      <4>1. \A x \in LogExits : ExitStatus(x) # "none"
        BY ExitStatusTerminal DEF TerminalStatus
      <4>2. QED
        BY <1>2, <2>4, <4>1 DEF LinesTrue
    <3>3. LinesTrue(c)'
      <4>1. outcome'[c] # "none" /\ line \in unread'[c] \cap LogExits
        BY <2>4, <3>1 DEF TerminalStatus
      <4>2. \A x \in unread'[c] \cap LogExits : x = line
        BY <3>1, <3>2
      <4>3. QED
        BY <2>4, <3>1, <4>1, <4>2 DEF LinesTrue
    <3>4. RowTrue(c, rows[c])'
      <4>1. rows[c].talk => Connected(c)'
        <5>1. SUFFICES ASSUME rows[c].talk PROVE Connected(c)'
          OBVIOUS
        <5>2. phase[c] = "talking"
          BY <1>2, <2>4, <5>1 DEF RowTrue, Connected
        <5>3. outcome'[c] = "ANSWERED"
          BY <2>4, <3>1, <5>2 DEF ExitStatus
        <5>4. QED
          BY <5>3 DEF Connected
      <4>2. line \in unread'[c] /\ ("ENTERQUEUE" \in unread'[c] \/ Exists(rows[c]))
        BY <1>2, <2>4, <3>1 DEF RowTrue
      <4>3. QED
        BY <4>1, <4>2 DEF RowTrue, Exists
    <3>5. QED
      BY <1>1, <2>4, <3>3, <3>4 DEF Log
  <2>5. CASE Abandon(c)
    <3>1. outcome[c] = "none"
      BY <1>2, <2>5 DEF Abandon, Moves, LinesTrue
    <3>2. ExitStatus("ABANDON") = "ABANDONED" /\ "ABANDON" \in LogExits
      BY DEF ExitStatus, LogExits
    <3>3. QED
      BY <2>4, <2>5, <3>1, <3>2 DEF Abandon, Moves
  <2>6. CASE LeaveQueue(c)
    <3>1. outcome[c] = "none"
      BY <1>2, <2>6 DEF LeaveQueue, Moves, LinesTrue
    <3>2. PICK line \in QueueExits :
            Log(c, line) /\ outcome' = [outcome EXCEPT ![c] = ExitStatus(line)]
      BY <2>6 DEF LeaveQueue
    <3>3. line \in LogExits
      BY ExitsAssumption DEF LogExits
    <3>4. QED
      BY <2>4, <2>6, <3>1, <3>2, <3>3 DEF LeaveQueue, Moves
  <2>7. CASE Complete(c)
    <3>1. outcome[c] = "none"
      BY <1>2, <2>7 DEF Complete, Moves, LinesTrue
    <3>2. ExitStatus("COMPLETE") = "ANSWERED" /\ "COMPLETE" \in LogExits
      BY DEF ExitStatus, LogExits
    <3>3. QED
      BY <2>4, <2>7, <3>1, <3>2 DEF Complete, Moves
  <2>8. CASE HangupOutside(c)
    <3>1. /\ outcome' = outcome /\ unread' = unread /\ phase[c] = "out"
          /\ phase' = [phase EXCEPT ![c] = "gone"]
      BY <2>8 DEF HangupOutside, Moves
    <3>2. phase'[c] = "gone"
      BY <1>1, <3>1
    <3>3. LinesTrue(c)'
      BY <1>2, <3>1, <3>2 DEF LinesTrue
    <3>4. RowTrue(c, rows[c])'
      BY <1>2, <3>1, <3>2 DEF RowTrue, Connected, Exists
    <3>5. QED
      BY <1>1, <3>1, <3>3, <3>4
  <2>9. QED
    BY <2>1, <2>2, <2>3, <2>5, <2>6, <2>7, <2>8 DEF CallStep
<1>4. \A d \in Calls : LinesTrue(d)' /\ RowTrue(d, rows[d])'
  <2>1. SUFFICES ASSUME NEW d \in Calls, d # c PROVE LinesTrue(d)' /\ RowTrue(d, rows[d])'
    BY <1>3
  <2>2. LinesTrue(d) /\ RowTrue(d, rows[d])
    BY DEF RecordInv
  <2>3. /\ phase'[d] = phase[d] /\ outcome'[d] = outcome[d] /\ unread'[d] = unread[d]
        /\ rows' = rows
    BY <1>3, <2>1
  <2>4. LinesTrue(d)'
    BY <2>2, <2>3 DEF LinesTrue
  <2>5. RowTrue(d, rows[d])'
    BY <2>2, <2>3 DEF RowTrue, Connected, Exists
  <2>6. QED
    BY <2>4, <2>5
<1>5. amiq' \in Seq(TrueEvents')
  <2>1. TrueEvents \subseteq TrueEvents'
    <3>1. \A e \in Event : outcome[e.call] \in {"none", outcome'[e.call]}
      BY <1>3, EventFields
    <3>2. QED
      BY <3>1 DEF TrueEvents
  <2>2. amiq \in Seq(TrueEvents')
    BY <1>1, <2>1, SeqMonotone
  <2>3. ASSUME NEW e \in Event, e.call = c, e.kind = "Abandon" => Abandon(c)
        PROVE  e \in TrueEvents'
    BY <1>1, <2>3 DEF TrueEvents, Abandon
  <2>4. QED
    BY <2>2, <2>3, CallEmits
<1>6. HangupTrue'
  BY DEF RecordInv, HangupTrue
<1>7. QED
  BY <1>4, <1>5, <1>6 DEF RecordInv

(* What the processes of the manager read or empty stays true.             *)
LEMMA ReadersTrue ==
  ASSUME RecordInv, UNCHANGED <<phase, outcome>>,
         \/ amiq' = amiq
         \/ amiq # <<>> /\ amiq' = Tail(amiq)
         \/ amiq' = <<>>
  PROVE  amiq' \in Seq(TrueEvents')
<1>1. TrueEvents' = TrueEvents
  BY DEF TrueEvents
<1>2. amiq \in Seq(TrueEvents)
  BY DEF RecordInv
<1>3. CASE amiq' = amiq
  BY <1>1, <1>2, <1>3
<1>4. CASE amiq # <<>> /\ amiq' = Tail(amiq)
  BY <1>1, <1>2, <1>4, TailOfSeq
<1>5. CASE amiq' = <<>>
  BY <1>1, <1>5
<1>6. QED
  BY <1>3, <1>4, <1>5

(* A writer of rows that is told nothing new about the calls.              *)
LEMMA WritersTrue ==
  ASSUME RecordInv, UNCHANGED <<phase, outcome, unread>>,
         \/ amiq' = amiq
         \/ amiq # <<>> /\ amiq' = Tail(amiq)
         \/ amiq' = <<>>,
         \A c \in Calls : RowTrue(c, rows'[c]),
         HangupTrue'
  PROVE  RecordInv'
<1>1. amiq' \in Seq(TrueEvents')
  BY ReadersTrue
<1>2. ASSUME NEW c \in Calls PROVE LinesTrue(c)' /\ RowTrue(c, rows[c])'
  <2>1. LinesTrue(c)' <=> LinesTrue(c)
    BY DEF LinesTrue
  <2>2. RowTrue(c, rows[c])' <=> RowTrue(c, rows'[c])
    BY DEF RowTrue, Connected, Exists
  <2>3. QED
    BY <2>1, <2>2 DEF RecordInv
<1>3. QED
  BY <1>1, <1>2 DEF RecordInv

LEMMA ImportTrue ==
  ASSUME TypeOK, FinalInv, JoinedInv, RecordInv, UNCHANGED <<phase, outcome>>, ImportTables,
         \/ amiq' = amiq
         \/ amiq # <<>> /\ amiq' = Tail(amiq),
         HangupTrue'
  PROVE  RecordInv'
BY ReadersTrue, ImportRecord DEF RecordInv

LEMMA HandleRecord ==
  ASSUME TypeOK, RecordInv, FinalInv, Handle
  PROVE  RecordInv'
<1> DEFINE e == Head(amiq)
           c == Head(amiq).call
<1>1. /\ amiq # <<>> /\ amiq' = Tail(amiq)
      /\ UNCHANGED <<phase, outcome, unread>>
      /\ pc \in [Procs -> PcValues] /\ job \in [Procs -> Job] /\ rows \in [Calls -> Row]
      /\ Collector \in Procs
  BY DEF Handle, HandleJoin, HandleCalled, HandleConnect, HandleAbandon,
         HandleHangup, Handles, Procs, TypeOK
<1>2. e \in TrueEvents /\ e \in HonestEvents
  BY <1>1 DEF RecordInv, FinalInv, ToldInv
<1>3. c \in Calls
  BY <1>2, EventFields DEF HonestEvents
<1>4. rows[c] \in Row /\ LinesTrue(c) /\ RowTrue(c, rows[c])
  BY <1>1, <1>3 DEF RecordInv
<1>5. ASSUME NEW r, rows' = [rows EXCEPT ![c] = r], RowTrue(c, r),
             pc'[Collector] # "hangup"
      PROVE  RecordInv'
  <2>1. \A d \in Calls : RowTrue(d, rows'[d])
    BY <1>1, <1>3, <1>5 DEF RecordInv
  <2>2. HangupTrue'
    BY <1>5 DEF HangupTrue
  <2>3. QED
    BY <1>1, <2>1, <2>2, WritersTrue
<1>6. CASE HandleJoin
  BY <1>1, <1>4, <1>5, <1>6, EventRowTrue DEF HandleJoin, Handles, Goes, SetRow
<1>7. CASE HandleCalled
  BY <1>1, <1>4, <1>5, <1>7, EventRowTrue DEF HandleCalled, Handles, Goes, SetRow
<1>8. CASE HandleConnect
  <2>1. Connected(c)
    BY <1>2, <1>8 DEF HonestEvents, HandleConnect, Handles
  <2>2. pc'[Collector] # "hangup"
    BY <1>1, <1>8 DEF HandleConnect, Handles, Goes, AfterWrite
  <2>3. QED
    BY <1>4, <1>5, <1>8, <2>1, <2>2, <1>3, EventRowTrue DEF HandleConnect, SetRow
<1>9. CASE HandleAbandon
  <2>1. outcome[c] = "ABANDONED"
    BY <1>2, <1>9 DEF TrueEvents, HandleAbandon, Handles
  <2>2. pc'[Collector] # "hangup"
    BY <1>1, <1>9 DEF HandleAbandon, Handles, Goes, AfterWrite
  <2>3. QED
    BY <1>4, <1>5, <1>9, <2>1, <2>2, <1>3, EventRowTrue DEF HandleAbandon, SetRow
<1>10. CASE HandleHangup
  <2>1. /\ rows' = rows
        /\ job'[Collector] = [call |-> c, seen |-> rows[c], cause |-> e.cause, reason |-> "ami"]
    BY <1>1, <1>10 DEF HandleHangup
  <2>2. job'[Collector].call = c /\ job'[Collector].seen = rows[c]
    BY <2>1
  <2>3. HangupTrue'
    BY <1>3, <2>1, <2>2 DEF HangupTrue
  <2>4. QED
    BY <1>1, <2>1, <2>3, WritersTrue DEF RecordInv
<1>11. QED
  BY <1>6, <1>7, <1>8, <1>9, <1>10 DEF Handle

LEMMA ContinueRecord ==
  ASSUME TypeOK, FinalInv, RecordInv, Continue(Collector)
  PROVE  RecordInv'
<1> DEFINE j == job[Collector]
<1>1. /\ UNCHANGED <<phase, outcome, unread, amiq>>
      /\ pc \in [Procs -> PcValues] /\ job \in [Procs -> Job] /\ rows \in [Calls -> Row]
      /\ Collector \in Procs
  BY DEF Continue, HangupWrite, RenumberRead, RenumberWrite, asteriskVars, Procs, TypeOK
<1>2. pc'[Collector] # "hangup"
  BY <1>1 DEF Continue, HangupWrite, RenumberRead, RenumberWrite, Goes, Resume
<1>3. HangupTrue'
  BY <1>2 DEF HangupTrue
<1>4. CASE HangupWrite(Collector)
  <2>1. j.call \in Calls /\ j.seen = rows[j.call]
    BY <1>4 DEF HangupWrite, Goes, RecordInv, HangupTrue
  <2>2. j.cause \in Causes /\ j.reason \in {"ami", "ghost"} /\ rows[j.call] \in Row
    BY <1>1, <2>1 DEF Job
  <2> DEFINE c == j.call  r == rows[j.call]
  <2>3. RowTrue(c, r) /\ (r.answered => Connected(c))
    BY <2>1 DEF RecordInv, FinalInv, AnsweredRow
  <2>4. CASE Exists(r) /\ ~Settled(r)
    <3> DEFINE h == HangupRow(r, r, j.cause, j.reason)
    <3>1. RowTrue(c, h)
      BY <2>1, <2>2, <2>3, <2>4, HangupRowTrue
    <3>2. rows' = [rows EXCEPT ![c] = h]
      BY <1>4, <2>1, <2>4 DEF HangupWrite, SetRow
    <3> HIDE DEF h
    <3>3. \A d \in Calls : RowTrue(d, rows'[d])
      BY <1>1, <2>1, <3>1, <3>2 DEF RecordInv
    <3>4. QED
      BY <1>1, <1>3, <3>3, WritersTrue
  <2>5. CASE ~(Exists(r) /\ ~Settled(r))
    <3>1. rows' = rows
      BY <1>4, <2>1, <2>5 DEF HangupWrite
    <3>2. QED
      BY <1>1, <1>3, <3>1, WritersTrue DEF RecordInv
  <2>6. QED
    BY <2>4, <2>5
<1>5. CASE RenumberRead(Collector) \/ RenumberWrite(Collector)
  <2>1. rows' = rows
    BY <1>5 DEF RenumberRead, RenumberWrite, dbVars
  <2>2. QED
    BY <1>1, <1>3, <2>1, WritersTrue DEF RecordInv
<1>6. QED
  BY <1>4, <1>5 DEF Continue

LEMMA ReconcileRecord ==
  ASSUME TypeOK, FinalInv, JoinedInv, RecordInv, Reconcile(Collector)
  PROVE  RecordInv'
<1>1. /\ UNCHANGED <<phase, outcome, amiq>>
      /\ pc \in [Procs -> PcValues] /\ job \in [Procs -> Job] /\ snap \in [Procs -> Snap]
      /\ rows \in [Calls -> Row] /\ Collector \in Procs
  <2>1. Collector \in Procs
    BY DEF Procs
  <2>2. UNCHANGED <<phase, outcome, amiq>>
    BY <2>1, StartParts, ListsParts
    DEF Reconcile, ReconcileGivesUp, ReconcileChannels, ReconcileQueueShow,
        ReconcileScan, ReconcilePurge, ReconcileRecover, asteriskVars
  <2>3. QED
    BY <2>1, <2>2 DEF TypeOK
<1>2. CASE ReconcileStart(Collector)
  <2>1. HangupTrue'
    BY <1>1, <1>2 DEF ReconcileStart, Goes, HangupTrue
  <2>2. CASE ImportTables
    BY <1>1, <2>1, <2>2, ImportTrue
  <2>3. CASE UNCHANGED <<rows, live, unread>>
    BY <1>1, <2>1, <2>3, WritersTrue DEF RecordInv
  <2>4. QED
    BY <1>1, <1>2, <2>2, <2>3, StartParts
<1>3. CASE \/ ReconcileGivesUp(Collector) \/ ReconcileChannels(Collector)
           \/ ReconcileQueueShow(Collector) \/ ReconcileScan(Collector)
  <2>1. UNCHANGED <<unread, rows>> /\ pc'[Collector] # "hangup"
    BY <1>1, <1>3, ListsParts
    DEF ReconcileGivesUp, ReconcileChannels, ReconcileQueueShow, ReconcileScan, Goes,
        asteriskVars, dbVars
  <2>2. QED
    BY <1>1, <2>1, WritersTrue DEF RecordInv, HangupTrue
<1>4. CASE ReconcilePurge(Collector)
  <2>1. UNCHANGED <<unread, rows>>
    BY <1>4 DEF ReconcilePurge, asteriskVars, dbVars
  <2>2. PICK c \in snap[Collector].ghosts :
          job' = [job EXCEPT ![Collector] = [call |-> c, seen |-> rows[c],
                                             cause |-> "other", reason |-> "ghost"]]
    BY <1>4 DEF ReconcilePurge
  <2>3. job'[Collector].call = c /\ job'[Collector].seen = rows[c] /\ c \in Calls
    BY <1>1, <2>2 DEF Snap
  <2>4. HangupTrue'
    BY <2>1, <2>3 DEF HangupTrue
  <2>5. QED
    BY <1>1, <2>1, <2>4, WritersTrue DEF RecordInv
<1>5. CASE ReconcileRecover(Collector)
  <2>1. UNCHANGED unread /\ pc'[Collector] # "hangup"
    BY <1>1, <1>5 DEF ReconcileRecover, Goes, asteriskVars
  <2>2. ASSUME NEW c \in Calls PROVE RowTrue(c, rows'[c])
    <3>1. rows'[c] \in {rows[c], EnterRow(rows[c])}
      BY <1>5 DEF ReconcileRecover
    <3>2. rows[c] \in Row /\ LinesTrue(c) /\ RowTrue(c, rows[c])
      BY <1>1 DEF RecordInv
    <3>3. QED
      BY <3>1, <3>2, EventRowTrue
  <2>3. QED
    BY <1>1, <2>1, <2>2, WritersTrue DEF HangupTrue
<1>6. QED
  BY <1>2, <1>3, <1>4, <1>5 DEF Reconcile

LEMMA InitRecord == Init => RecordInv
<1> SUFFICES ASSUME Init PROVE RecordInv
  OBVIOUS
<1>1. /\ amiq = <<>> /\ pc[Collector] = "idle"
      /\ \A c \in Calls : /\ phase[c] = "new" /\ outcome[c] = "none" /\ unread[c] = {}
                          /\ rows[c] = NoRow
  BY DEF Init, AstInit, Procs
<1>2. \A c \in Calls : LinesTrue(c) /\ RowTrue(c, rows[c])
  BY <1>1 DEF LinesTrue, RowTrue, NoRow
<1>3. QED
  BY <1>1, <1>2 DEF RecordInv, HangupTrue

LEMMA StepRecord ==
  ASSUME Web = {}, TypeOK, FinalInv, JoinedInv, RecordInv, [Next]_vars
  PROVE  RecordInv'
<1>1. /\ rows \in [Calls -> Row] /\ pc \in [Procs -> PcValues]
      /\ Collector \in Procs /\ Procs = {Collector}
  BY DEF TypeOK, Procs
<1>2. CASE AsteriskStep
  <2>1. UNCHANGED <<rows, pc, job>>
    BY <1>2 DEF AsteriskStep, dbVars, procVars
  <2>2. CASE \E c \in Calls : CallStep(c)
    BY <2>1, <2>2, CallRecord
  <2>3. CASE ConnectionBreaks
    <3>1. UNCHANGED <<phase, outcome, unread>>
      BY <2>3 DEF ConnectionBreaks
    <3>2. PICK n \in 0..Len(amiq) : amiq' = SubSeq(amiq, 1, n)
      BY <2>3 DEF ConnectionBreaks
    <3>3. TrueEvents' = TrueEvents /\ amiq' \in Seq(TrueEvents)
      BY <3>1, <3>2 DEF RecordInv, TrueEvents
    <3>4. QED
      BY <2>1, <3>1, <3>3 DEF RecordInv, LinesTrue, RowTrue, Connected, Exists, HangupTrue
  <2>4. QED
    BY <1>2, <2>2, <2>3 DEF AsteriskStep
<1>3. CASE QueueStatus \/ Reconnect \/ ResyncDone \/ CollectorRestarts
  <2>1. /\ UNCHANGED <<phase, outcome, unread, rows>>
        /\ amiq' = amiq \/ amiq' = <<>>
    BY <1>3 DEF QueueStatus, Reconnect, ResyncDone, CollectorRestarts, asteriskVars, dbVars
  <2>2. pc'[Collector] # "hangup"
    BY <1>1, <1>3 DEF QueueStatus, Reconnect, ResyncDone, CollectorRestarts, Goes
  <2>3. QED
    BY <2>1, <2>2, WritersTrue DEF RecordInv, HangupTrue
<1>4. CASE ResyncEntry
  <2>1. UNCHANGED <<phase, outcome, unread, amiq, pc>> /\ pc[Collector] = "resync"
    BY <1>4 DEF ResyncEntry, asteriskVars
  <2>2. PICK c \in resync : rows' = [rows EXCEPT ![c] = EnterRow(rows[c])]
    BY <1>4 DEF ResyncEntry, SetRow
  <2>3. c \in Calls /\ rows[c] \in Row
    BY <1>1, <2>2 DEF TypeOK
  <2>4. RowTrue(c, EnterRow(rows[c]))
    BY <2>3, EventRowTrue DEF RecordInv
  <2>5. \A d \in Calls : RowTrue(d, rows'[d])
    BY <1>1, <2>2, <2>3, <2>4 DEF RecordInv
  <2>6. QED
    BY <2>1, <2>5, WritersTrue DEF HangupTrue
<1>5. CASE PeriodicSyncTearsEvent
  <2>1. /\ UNCHANGED <<phase, outcome>> /\ ImportTables
        /\ amiq # <<>> /\ amiq' = Tail(amiq) /\ pc'[Collector] # "hangup"
    BY <1>1, <1>5 DEF PeriodicSyncTearsEvent, Goes
  <2>2. QED
    BY <2>1, ImportTrue DEF HangupTrue
<1>6. CASE UNCHANGED vars
  BY <1>6 DEF vars, asteriskVars, dbVars, procVars, RecordInv, TrueEvents, LinesTrue,
              RowTrue, Connected, Exists, HangupTrue
<1>7. QED
  BY <1>1, <1>2, <1>3, <1>4, <1>5, <1>6, HandleRecord, ContinueRecord, ReconcileRecord
  DEF Next

(* When nothing is under way about a call any more, its record tells how   *)
(* it ended, as queue_log has it, if the collector is the one process that *)
(* writes: whatever events were lost, late or torn, however often it died, *)
(* and whatever a list of the exchange left out (db_call_*,                *)
(* _sync_queue_log_to_db_locked, reconcile_with_asterisk_state).           *)
THEOREM RecordTellsOutcome ==
  ASSUME Web = {}
  PROVE  Spec => []OutcomeFromLog
<1>1. TypeOK /\ RecordInv => OutcomeFromLog
  <2>1. SUFFICES ASSUME TypeOK, RecordInv, NEW c \in Calls, Done(c)
                 PROVE  /\ rows[c].status = outcome[c] /\ rows[c].hung
                        /\ rows[c].talk <=> outcome[c] = "ANSWERED"
    BY DEF OutcomeFromLog
  <2>2. phase[c] = "gone" /\ unread[c] = {} /\ rows[c] \in Row
    BY <2>1 DEF Done, TypeOK
  <2>3. LinesTrue(c) /\ RowTrue(c, rows[c])
    BY <2>1 DEF RecordInv
  <2>4. outcome[c] # "none"
    BY <2>2, <2>3 DEF LinesTrue
  <2>5. rows[c].talk => outcome[c] = "ANSWERED"
    BY <2>2, <2>3 DEF RowTrue, Connected
  <2>6. rows[c].talk \in BOOLEAN
    BY <2>2 DEF Row
  <2>7. QED
    BY <2>2, <2>3, <2>4, <2>5, <2>6 DEF RowTrue
<1>2. TypeOK /\ FinalInv /\ JoinedInv /\ RecordInv /\ [Next]_vars => RecordInv'
  BY StepRecord
<1>3. Spec => []FinalInv
  <2>1. TypeOK /\ FinalInv /\ [Next]_vars => FinalInv'
    BY StepFinal
  <2>2. QED
    BY <2>1, InitFinal, TypeCorrect, PTL DEF Spec
<1>4. QED
  BY <1>1, <1>2, <1>3, InitRecord, JoinedFirst, TypeCorrect, PTL DEF Spec

-----------------------------------------------------------------------------
(***************************************************************************)
(* The wallboard follows the exchange at the distance of the events that   *)
(* are on the socket.  While none was lost, what a call's row shows and    *)
(* what is still to be handled about the call add up to what the exchange  *)
(* has; and the places are right when no event on the socket takes a       *)
(* caller off the queue and nobody is about to renumber it.                *)
(***************************************************************************)
Exits == {"Connect", "Abandon"}

(* The calls that events of these kinds, from the i-th on, are about.      *)
Due(s, i, kinds) ==
  {c \in Calls : \E j \in i..Len(s) : s[j].call = c /\ s[j].kind \in kinds}

(* What cannot come after an event of the same call.                       *)
NotAfter(kind) ==
  IF kind \in {"Join", "Called"} THEN {"Join"} ELSE EventKinds \ {"Hangup"}

(* What may be on the socket about a call.                                 *)
EventsIn(ph) ==
  IF ph = "new" THEN {}
  ELSE IF ph = "gone" THEN EventKinds
  ELSE IF ph = "talking" THEN {"Join", "Called", "Connect"} ELSE {"Join", "Called"}

(* The callers in the queue when the i-th event was emitted.               *)
QueuedAt(s, i) ==
  {c \in Joined \ Due(s, i, {"Join"}) : c \in Queued \cup Due(s, i, Exits)}

Told(s, i) ==
  LET e == s[i] IN
  /\ e.kind \in EventsIn(phase[e.call])
  /\ e.call \notin Due(s, i + 1, NotAfter(e.kind))
  /\ e.kind \in {"Join", "Called"} /\ e.call \notin Queued \cup LeftByLimit =>
       e.call \in Due(s, i + 1, Exits)
  /\ phase[e.call] = "gone" => e.call \in Due(s, i, {"Hangup"})
  /\ e.kind = "Join" =>
       /\ e.at = joined[e.call]
       /\ \A c \in Calls : joined[c] > joined[e.call] => c \in Due(s, i + 1, {"Join"})
       /\ LeftByLimit = {} => e.pos = Cardinality(QueuedAt(s, i)) + 1

Stream == \A i \in 1..Len(amiq) : Told(amiq, i)

Unjoined == Due(amiq, 1, {"Join"})
Exiting  == Due(amiq, 1, Exits)
Ending   == Due(amiq, 1, {"Hangup"})
Talking  == {c \in Calls : phase[c] = "talking"}

InTurn(l) == l.state \in {"WAITING", "RINGING"}

Shown(c) ==
  /\ c \in Joined \ Unjoined => Exists(rows[c])
  /\ c \in (Queued \cup Talking) \ Unjoined => OnBoard(live[c])
  /\ c \in Queued \ Unjoined => InTurn(live[c]) /\ live[c].start = joined[c]
  /\ c \in Talking \ Exiting => live[c].state = "TALKING"
  /\ c \in Joined \ (Unjoined \cup Exiting \cup Queued \cup LeftByLimit) => ~InTurn(live[c])
  /\ phase[c] = "gone" /\ c \notin Ending
       /\ ~(pc[Collector] = "hangup" /\ job[Collector].call = c) => ~OnBoard(live[c])
  /\ c \in Unjoined /\ OnBoard(live[c]) => joined[c] <= live[c].start

(* Times of joining tell callers apart.                                    *)
TimesInv ==
  /\ \A c \in Calls : joined[c] <= clock /\ (phase[c] = "out" => c \in LeftByLimit)
  /\ \A c, d \in Joined : joined[c] = joined[d] => c = d

AtWork ==
  LET s == snap[Collector] IN
  /\ pc[Collector] \notin {"listed", "resync"}
  /\ pc[Collector] = "idle" => ~s.on
  /\ ~s.on => s.missing = {}
  /\ s.missing \subseteq Unjoined
  /\ pc[Collector] = "scan" => s.waiting \ Unjoined \subseteq Board
  /\ pc[Collector] = "hangup" => job[Collector].call \in {c \in Calls : phase[c] = "gone"}
  /\ pc[Collector] = "positions" => places[Collector] \in Numberings

InPlace ==
  LeftByLimit = {} /\ Exiting = {} /\ pc[Collector] \notin {"renumber", "positions"} =>
    LET known == Queued \ Unjoined IN
    \A c \in known : live[c].pos = Cardinality({d \in known : joined[d] <= joined[c]})

Mirrors == conn /\ Stream /\ TimesInv /\ (\A c \in Calls : Shown(c)) /\ AtWork /\ InPlace

MirrorInv == drops = 0 => Mirrors

-----------------------------------------------------------------------------
(* What is due, when an event is sent and when one is taken.               *)

LEMMA EventAt ==
  ASSUME NEW s \in Seq(Event), NEW i \in 1..Len(s)
  PROVE  s[i] \in Event /\ s[i].call \in Calls /\ s[i].kind \in EventKinds
<1>1. s[i] \in Event
  OBVIOUS
<1>2. QED
  BY <1>1 DEF Event

LEMMA DueEnd ==
  ASSUME NEW s \in Seq(Event), NEW kinds
  PROVE  Due(s, Len(s) + 1, kinds) = {}
<1>1. \A j \in Len(s) + 1..Len(s) : FALSE
  OBVIOUS
<1>2. QED
  BY <1>1 DEF Due

LEMMA DueTail ==
  ASSUME NEW s \in Seq(Event), s # <<>>, NEW i \in Nat \ {0}, NEW kinds
  PROVE  Due(Tail(s), i, kinds) = Due(s, i + 1, kinds)
<1>1. Len(Tail(s)) = Len(s) - 1 /\ Len(s) \in Nat /\ Len(s) > 0
  OBVIOUS
<1>2. \A j \in 1..Len(s) - 1 : Tail(s)[j] = s[j + 1]
  OBVIOUS
<1>3. ASSUME NEW c \in Calls, NEW j \in i..Len(s) - 1, s[j + 1].call = c, s[j + 1].kind \in kinds
      PROVE  \E k \in i + 1..Len(s) : s[k].call = c /\ s[k].kind \in kinds
  <2>1. j + 1 \in i + 1..Len(s)
    BY <1>1
  <2>2. QED
    BY <1>3, <2>1
<1>4. ASSUME NEW c \in Calls, NEW k \in i + 1..Len(s), s[k].call = c, s[k].kind \in kinds
      PROVE  \E j \in i..Len(s) - 1 : s[j + 1].call = c /\ s[j + 1].kind \in kinds
  <2>1. k - 1 \in i..Len(s) - 1 /\ (k - 1) + 1 = k
    BY <1>1
  <2>2. QED
    BY <1>4, <2>1
<1>5. \A j \in i..Len(s) - 1 : Tail(s)[j] = s[j + 1]
  BY <1>1, <1>2
<1>6. QED
  BY <1>1, <1>3, <1>4, <1>5 DEF Due

LEMMA DueFrom ==
  ASSUME NEW s \in Seq(Event), NEW i \in 1..Len(s), NEW kinds
  PROVE  Due(s, i, kinds) =
           Due(s, i + 1, kinds) \cup (IF s[i].kind \in kinds THEN {s[i].call} ELSE {})
<1>1. s[i].call \in Calls
  BY EventAt
<1>2. Len(s) \in Nat /\ i \in i..Len(s)
  OBVIOUS
<1>3. i + 1..Len(s) \subseteq i..Len(s)
  BY <1>2
<1>4. \A j \in i..Len(s) : j = i \/ j \in i + 1..Len(s)
  BY <1>2
<1>5. QED
  BY <1>1, <1>2, <1>3, <1>4 DEF Due

LEMMA DueAppend ==
  ASSUME NEW s \in Seq(Event), NEW e \in Event, NEW i \in 1..Len(s) + 1, NEW kinds
  PROVE  Due(Append(s, e), i, kinds) =
           Due(s, i, kinds) \cup (IF e.kind \in kinds THEN {e.call} ELSE {})
<1> DEFINE t == Append(s, e)  n == Len(s) + 1
<1>1. t \in Seq(Event) /\ Len(t) = n /\ t[n] = e /\ n \in Nat
  OBVIOUS
<1>2. \A j \in 1..Len(s) : t[j] = s[j]
  OBVIOUS
<1>3. e.call \in Calls
  BY DEF Event
<1>4. \A j \in i..n : j = n \/ j \in i..Len(s)
  OBVIOUS
<1>5. i..Len(s) \subseteq 1..Len(s) /\ i..Len(s) \subseteq i..n /\ n \in i..n
  OBVIOUS
<1> HIDE DEF t, n
<1>6. QED
  BY <1>1, <1>2, <1>3, <1>4, <1>5 DEF Due, t

-----------------------------------------------------------------------------
(***************************************************************************)
(* What a step of the exchange does about call c, when somebody is         *)
(* connected: it moves the call and sends events of some kinds.            *)
(***************************************************************************)
Sends(c, kinds) ==
  /\ amiq' \in Seq(Event) /\ Len(amiq') >= Len(amiq)
  /\ \A i \in 1..Len(amiq) : amiq'[i] = amiq[i]
  /\ \A i \in 1..Len(amiq) + 1 : \A ks :
       /\ ks \cap kinds = {} => Due(amiq', i, ks) = Due(amiq, i, ks)
       /\ ks \cap kinds # {} => Due(amiq', i, ks) = Due(amiq, i, ks) \cup {c}

LEMMA SendsNothing ==
  ASSUME TypeOK, NEW c \in Calls, amiq' = amiq
  PROVE  Sends(c, {})
BY DEF Sends, TypeOK, AstTypeOK

LEMMA SendsOne ==
  ASSUME TypeOK, NEW c \in Calls, NEW e \in Event, e.call = c, amiq' = Append(amiq, e)
  PROVE  Sends(c, {e.kind})
<1>1. amiq \in Seq(Event)
  BY DEF TypeOK, AstTypeOK
<1>2. amiq' \in Seq(Event) /\ Len(amiq') >= Len(amiq) /\ \A i \in 1..Len(amiq) : amiq'[i] = amiq[i]
  BY <1>1
<1>3. ASSUME NEW i \in 1..Len(amiq) + 1, NEW ks
      PROVE  /\ ks \cap {e.kind} = {} => Due(amiq', i, ks) = Due(amiq, i, ks)
             /\ ks \cap {e.kind} # {} => Due(amiq', i, ks) = Due(amiq, i, ks) \cup {c}
  <2>1. Due(amiq', i, ks) = Due(amiq, i, ks) \cup (IF e.kind \in ks THEN {e.call} ELSE {})
    BY <1>1, DueAppend
  <2>2. QED
    BY <2>1
<1>4. QED
  BY <1>2, <1>3 DEF Sends

LEMMA SendsTwo ==
  ASSUME TypeOK, NEW c \in Calls, NEW e \in Event, NEW f \in Event, e.call = c, f.call = c,
         amiq' = Append(Append(amiq, e), f)
  PROVE  Sends(c, {e.kind, f.kind})
<1> DEFINE t == Append(amiq, e)
<1>1. amiq \in Seq(Event)
  BY DEF TypeOK, AstTypeOK
<1>2. t \in Seq(Event) /\ Len(t) = Len(amiq) + 1 /\ \A i \in 1..Len(amiq) : t[i] = amiq[i]
  BY <1>1
<1> HIDE DEF t
<1>3. amiq' = Append(t, f)
  BY DEF t
<1>4. amiq' \in Seq(Event) /\ Len(amiq') >= Len(amiq) /\ \A i \in 1..Len(amiq) : amiq'[i] = t[i]
  BY <1>1, <1>2, <1>3
<1>5. ASSUME NEW i \in 1..Len(amiq) + 1, NEW ks
      PROVE  /\ ks \cap {e.kind, f.kind} = {} => Due(amiq', i, ks) = Due(amiq, i, ks)
             /\ ks \cap {e.kind, f.kind} # {} => Due(amiq', i, ks) = Due(amiq, i, ks) \cup {c}
  <2>1. Due(t, i, ks) = Due(amiq, i, ks) \cup (IF e.kind \in ks THEN {c} ELSE {})
    BY <1>1, DueAppend DEF t
  <2>2. i \in 1..Len(t) + 1
    BY <1>1, <1>2
  <2>3. Due(amiq', i, ks) = Due(t, i, ks) \cup (IF f.kind \in ks THEN {c} ELSE {})
    BY <1>2, <1>3, <2>2, DueAppend
  <2>4. QED
    BY <2>1, <2>3
<1>6. QED
  BY <1>2, <1>4, <1>5 DEF Sends

(* The limits of a queue are told as these outcomes.                       *)
Limits == {"TIMEOUT", "NO ANSWER", "CANCELLED"}

LEMMA ExitLimits ==
  ASSUME NEW line \in QueueExits
  PROVE  ExitStatus(line) \in Limits /\ ExitStatus(line) # "ABANDONED"
BY ExitsAssumption DEF ExitStatus, Limits

(* The moves of a call, with what they send when somebody is connected.     *)
Stays(c) == joined' = joined /\ clock' = clock

Joins(c) ==
  /\ phase[c] = "new" /\ phase' = [phase EXCEPT ![c] = "waiting"]
  /\ clock' = clock + 1 /\ joined' = [joined EXCEPT ![c] = clock + 1] /\ outcome' = outcome
  /\ \E e \in Event : /\ e.kind = "Join" /\ e.call = c /\ e.at = clock + 1
                      /\ e.pos = Cardinality(Queued) + 1
                      /\ amiq' = Append(amiq, e)

Emits(c, kind) == \E e \in Event : e.kind = kind /\ e.call = c /\ amiq' = Append(amiq, e)

EmitsTwo(c, first) ==
  \E e, f \in Event : /\ e.kind = first /\ e.call = c /\ f.kind = "Hangup" /\ f.call = c
                      /\ amiq' = Append(Append(amiq, e), f)

Rings(c) ==
  /\ phase[c] = "waiting" /\ phase' = [phase EXCEPT ![c] = "ringing"]
  /\ Stays(c) /\ outcome' = outcome /\ Emits(c, "Called")

RingsOut(c) ==
  /\ phase[c] = "ringing" /\ phase' = [phase EXCEPT ![c] = "waiting"]
  /\ Stays(c) /\ outcome' = outcome /\ amiq' = amiq

Talks(c) ==
  /\ phase[c] = "ringing" /\ phase' = [phase EXCEPT ![c] = "talking"]
  /\ Stays(c) /\ outcome' = outcome /\ Emits(c, "Connect")

GivesUp(c) ==
  /\ phase[c] \in {"waiting", "ringing"} /\ phase' = [phase EXCEPT ![c] = "gone"]
  /\ Stays(c) /\ outcome' = [outcome EXCEPT ![c] = "ABANDONED"] /\ EmitsTwo(c, "Abandon")

TurnedAway(c) ==
  /\ phase[c] \in {"waiting", "ringing"} /\ phase' = [phase EXCEPT ![c] = "out"]
  /\ Stays(c) /\ amiq' = amiq
  /\ \E o \in Limits : outcome' = [outcome EXCEPT ![c] = o]

EndsTalk(c) ==
  /\ phase[c] = "talking" /\ phase' = [phase EXCEPT ![c] = "gone"]
  /\ Stays(c) /\ outcome' = [outcome EXCEPT ![c] = "ANSWERED"] /\ EmitsTwo(c, "Hangup")

HangsUp(c) ==
  /\ phase[c] = "out" /\ phase' = [phase EXCEPT ![c] = "gone"]
  /\ Stays(c) /\ outcome' = outcome /\ Emits(c, "Hangup")

CallMove(c) ==
  \/ Joins(c) \/ Rings(c) \/ RingsOut(c) \/ Talks(c)
  \/ GivesUp(c) \/ TurnedAway(c) \/ EndsTalk(c) \/ HangsUp(c)

LEMMA CallTells ==
  ASSUME TypeOK, conn, NEW c \in Calls, CallStep(c)
  PROVE  CallMove(c)
<1> USE DEF Stays
<1>0. amiq \in Seq(Event)
  BY DEF TypeOK, AstTypeOK
<1>1. CASE Join(c)
  <2> DEFINE e == [Ev("Join", c) EXCEPT !.pos = Cardinality(Queued) + 1, !.at = clock']
  <2>0. clock \in Nat /\ clock' = clock + 1
    BY <1>1 DEF Join, TypeOK, AstTypeOK
  <2>1. e \in Event /\ e.call = c /\ e.kind = "Join" /\ e.at = clock + 1
           /\ e.pos = Cardinality(Queued) + 1
    <3> DEFINE n == Cardinality(Queued) + 1
    <3>1. n \in Nat /\ clock' \in Nat
      BY <2>0, CountIsNat DEF Queued
    <3> HIDE DEF n
    <3>2. e = [Ev("Join", c) EXCEPT !.pos = n, !.at = clock']
      BY DEF n
    <3>3. e \in Event /\ e.call = c /\ e.kind = "Join" /\ e.at = clock' /\ e.pos = n
      BY <3>1, <3>2 DEF Ev, Event, EventKinds, Causes
    <3>4. QED
      BY <2>0, <3>3 DEF n
  <2>2. amiq' = amiq \o <<e>>
    BY <1>1 DEF Join, Emit
  <2> HIDE DEF e
  <2>3. amiq' = Append(amiq, e)
    BY <1>0, <2>1, <2>2
  <2>4. QED
    BY <1>1, <2>0, <2>1, <2>3 DEF Join, Moves, Joins, CallMove
<1>2. CASE CallAgent(c)
  <2> DEFINE e == Ev("Called", c)
  <2>1. e \in Event /\ e.call = c /\ e.kind = "Called"
    BY EventType DEF Ev
  <2>2. amiq' = amiq \o <<e>>
    BY <1>2 DEF CallAgent, Emit
  <2> HIDE DEF e
  <2>3. amiq' = Append(amiq, e)
    BY <1>0, <2>1, <2>2
  <2>4. QED
    BY <1>2, <2>1, <2>3 DEF CallAgent, Moves, Rings, Emits, CallMove
<1>3. CASE AgentRingsOut(c)
  BY <1>3 DEF AgentRingsOut, Moves, RingsOut, CallMove
<1>4. CASE Connect(c)
  <2> DEFINE e == Ev("Connect", c)
  <2>1. e \in Event /\ e.call = c /\ e.kind = "Connect"
    BY EventType DEF Ev
  <2>2. amiq' = amiq \o <<e>>
    BY <1>4 DEF Connect, Emit
  <2> HIDE DEF e
  <2>3. amiq' = Append(amiq, e)
    BY <1>0, <2>1, <2>2
  <2>4. QED
    BY <1>4, <2>1, <2>3 DEF Connect, Moves, Talks, Emits, CallMove
<1>5. CASE Abandon(c)
  <2> DEFINE e == Ev("Abandon", c)  f == HangupEv(c, "other")
  <2>1. /\ e \in Event /\ e.call = c /\ e.kind = "Abandon"
        /\ f \in Event /\ f.call = c /\ f.kind = "Hangup"
    BY EventType DEF Ev, HangupEv
  <2>2. amiq' = amiq \o <<e, f>>
    BY <1>5 DEF Abandon, Emit
  <2> HIDE DEF e, f
  <2>3. amiq' = Append(Append(amiq, e), f)
    BY <1>0, <2>1, <2>2
  <2>4. QED
    BY <1>5, <2>1, <2>3 DEF Abandon, Moves, GivesUp, EmitsTwo, CallMove
<1>6. CASE LeaveQueue(c)
  <2>1. PICK line \in QueueExits : outcome' = [outcome EXCEPT ![c] = ExitStatus(line)]
    BY <1>6 DEF LeaveQueue
  <2>2. ExitStatus(line) \in Limits
    BY ExitLimits
  <2>3. QED
    BY <1>6, <2>1, <2>2 DEF LeaveQueue, Moves, TurnedAway, CallMove
<1>7. CASE Complete(c)
  <2> DEFINE f == HangupEv(c, "other")
  <2>1. f \in Event /\ f.call = c /\ f.kind = "Hangup"
    BY EventType DEF Ev, HangupEv
  <2>2. amiq' = amiq \o <<f, f>>
    BY <1>7 DEF Complete, Emit
  <2> HIDE DEF f
  <2>3. amiq' = Append(Append(amiq, f), f)
    BY <1>0, <2>1, <2>2
  <2>4. QED
    BY <1>7, <2>1, <2>3 DEF Complete, Moves, EndsTalk, EmitsTwo, CallMove
<1>8. CASE HangupOutside(c)
  <2>1. PICK why \in Causes : Emit(<<HangupEv(c, why)>>)
    BY <1>8 DEF HangupOutside
  <2> DEFINE e == HangupEv(c, why)
  <2>2. e \in Event /\ e.call = c /\ e.kind = "Hangup"
    BY EventType DEF Ev, HangupEv, Causes
  <2>3. amiq' = amiq \o <<e>>
    BY <2>1 DEF Emit
  <2> HIDE DEF e
  <2>4. amiq' = Append(amiq, e)
    BY <1>0, <2>2, <2>3
  <2>5. QED
    BY <1>8, <2>2, <2>4 DEF HangupOutside, Moves, HangsUp, Emits, CallMove
<1>9. QED
  BY <1>1, <1>2, <1>3, <1>4, <1>5, <1>6, <1>7, <1>8 DEF CallStep

(* The kinds of events that a move of the call sends.                      *)
LEMMA CallSends ==
  ASSUME TypeOK, NEW c \in Calls, CallMove(c)
  PROVE  \/ (RingsOut(c) \/ TurnedAway(c)) /\ Sends(c, {})
         \/ Joins(c) /\ Sends(c, {"Join"})
         \/ Rings(c) /\ Sends(c, {"Called"})
         \/ Talks(c) /\ Sends(c, {"Connect"})
         \/ GivesUp(c) /\ Sends(c, {"Abandon", "Hangup"})
         \/ (EndsTalk(c) \/ HangsUp(c)) /\ Sends(c, {"Hangup"})
<1>1. CASE RingsOut(c) \/ TurnedAway(c)
  BY <1>1, SendsNothing DEF RingsOut, TurnedAway
<1>2. CASE Joins(c)
  BY <1>2, SendsOne DEF Joins
<1>3. CASE Rings(c) \/ Talks(c) \/ HangsUp(c)
  BY <1>3, SendsOne DEF Rings, Talks, HangsUp, Emits
<1>4. CASE GivesUp(c)
  BY <1>4, SendsTwo DEF GivesUp, EmitsTwo
<1>5. CASE EndsTalk(c)
  <2>1. Sends(c, {"Hangup", "Hangup"})
    BY <1>5, SendsTwo DEF EndsTalk, EmitsTwo
  <2>2. {"Hangup", "Hangup"} = {"Hangup"}
    OBVIOUS
  <2>3. QED
    BY <1>5, <2>1, <2>2
<1>6. QED
  BY <1>1, <1>2, <1>3, <1>4, <1>5 DEF CallMove

-----------------------------------------------------------------------------
(* A move of one call, as the others see it.                               *)

LEMMA LeftMeans == LeftByLimit = {c \in Calls : outcome[c] \in Limits}
BY DEF LeftByLimit, Limits

LEMMA CallElse ==
  ASSUME TypeOK, NEW c \in Calls, CallMove(c)
  PROVE  /\ Joined' = Joined \cup {c} /\ LeftByLimit \subseteq LeftByLimit' \cup {c}
         /\ \A d \in Calls \ {c} :
              /\ phase'[d] = phase[d] /\ joined'[d] = joined[d] /\ outcome'[d] = outcome[d]
              /\ d \in Joined' <=> d \in Joined
              /\ d \in Queued' <=> d \in Queued
              /\ d \in Talking' <=> d \in Talking
              /\ d \in LeftByLimit' <=> d \in LeftByLimit
<1>1. /\ phase \in [Calls -> Phases] /\ joined \in [Calls -> Nat]
      /\ outcome \in [Calls -> {"none"} \cup TerminalStatus]
  BY DEF TypeOK, AstTypeOK
<1>2. /\ \E p : phase' = [phase EXCEPT ![c] = p] /\ p # "new"
      /\ joined' = joined \/ \E t : joined' = [joined EXCEPT ![c] = t]
      /\ outcome' = outcome \/ \E o : outcome' = [outcome EXCEPT ![c] = o]
  <2>1. /\ \E p : phase' = [phase EXCEPT ![c] = p] /\ p # "new"
        /\ joined' = joined \/ \E t : joined' = [joined EXCEPT ![c] = t]
    BY DEF CallMove, Joins, Rings, RingsOut, Talks, GivesUp, TurnedAway, EndsTalk, HangsUp, Stays
  <2>2. outcome' = outcome \/ \E o : outcome' = [outcome EXCEPT ![c] = o]
    <3>1. CASE TurnedAway(c)
      BY <3>1 DEF TurnedAway
    <3>2. CASE ~TurnedAway(c)
      BY <3>2 DEF CallMove, Joins, Rings, RingsOut, Talks, GivesUp, EndsTalk, HangsUp
    <3>3. QED
      BY <3>1, <3>2
  <2>3. QED
    BY <2>1, <2>2
<1>3. \A d \in Calls \ {c} :
         phase'[d] = phase[d] /\ joined'[d] = joined[d] /\ outcome'[d] = outcome[d]
  BY <1>1, <1>2
<1>4. phase'[c] # "new"
  BY <1>1, <1>2
<1>5. QED
  BY <1>3, <1>4 DEF Joined, Queued, Talking, LeftByLimit

(* Which kinds of events are among which.                                  *)
LEMMA KindSets ==
  /\ \A ks : ks \cap {} = {}
  /\ Exits \cap {"Called"} = {} /\ Exits \cap {"Join"} = {} /\ Exits \cap {"Hangup"} = {}
  /\ Exits \cap {"Connect"} # {} /\ Exits \cap {"Abandon", "Hangup"} # {}
  /\ {"Join"} \cap {"Called"} = {} /\ {"Join"} \cap {"Connect"} = {}
  /\ {"Join"} \cap {"Hangup"} = {}
  /\ {"Join"} \cap {"Join"} # {} /\ {"Join"} \cap {"Abandon", "Hangup"} = {}
  /\ {"Hangup"} \cap {"Called"} = {} /\ {"Hangup"} \cap {"Connect"} = {}
  /\ {"Hangup"} \cap {"Join"} = {}
  /\ {"Hangup"} \cap {"Hangup"} # {} /\ {"Hangup"} \cap {"Abandon", "Hangup"} # {}
BY DEF Exits

(* Nobody is counted in or out of an earlier queue.                        *)
LEMMA QueuedAtKept ==
  ASSUME TypeOK, NEW c \in Calls, CallMove(c), NEW i \in 1..Len(amiq) + 1,
         phase[c] = "out" => c \in LeftByLimit, LeftByLimit' = {}
  PROVE  QueuedAt(amiq, i)' = QueuedAt(amiq, i)
<1> DEFINE J == Due(amiq, i, {"Join"})   X == Due(amiq, i, Exits)
<1>1. /\ Joined' = Joined \cup {c}
      /\ \A d \in Calls \ {c} : (d \in Joined' <=> d \in Joined) /\ (d \in Queued' <=> d \in Queued)
  BY CallElse
<1>2. phase \in [Calls -> Phases] /\ outcome \in [Calls -> {"none"} \cup TerminalStatus]
  BY DEF TypeOK, AstTypeOK
<1>3. ~TurnedAway(c)
  <2>1. ASSUME TurnedAway(c) PROVE FALSE
    <3>1. PICK o \in Limits : outcome' = [outcome EXCEPT ![c] = o]
      BY <2>1 DEF TurnedAway
    <3>2. c \in LeftByLimit'
      BY <1>2, <3>1 DEF LeftByLimit, Limits
    <3>3. QED
      BY <3>2
  <2>2. QED
    BY <2>1
<1>4. ~HangsUp(c)
  BY DEF HangsUp, LeftByLimit
<1>5. ASSUME NEW ks, Sends(c, ks)
      PROVE  /\ {"Join"} \cap ks = {} => J' = J
             /\ {"Join"} \cap ks # {} => J' = J \cup {c}
             /\ Exits \cap ks = {} => X' = X
             /\ Exits \cap ks # {} => X' = X \cup {c}
  BY <1>5 DEF Sends
<1>6. QueuedAt(amiq, i)' = {d \in Joined' \ J' : d \in Queued' \cup X'}
  BY DEF QueuedAt
<1>7. QueuedAt(amiq, i) = {d \in Joined \ J : d \in Queued \cup X}
  BY DEF QueuedAt
<1>8. Joined \subseteq Calls
  BY DEF Joined
<1>9. CASE \/ RingsOut(c) /\ Sends(c, {})
           \/ Rings(c) /\ Sends(c, {"Called"})
  <2>1. c \in Queued /\ c \in Queued' /\ c \in Joined
    BY <1>2, <1>9 DEF RingsOut, Rings, Queued, Joined
  <2>2. J' = J /\ X' = X
    BY <1>5, <1>9, KindSets
  <2> HIDE DEF J, X
  <2>3. QED
    BY <1>1, <1>6, <1>7, <1>8, <2>1, <2>2
<1>10. CASE Joins(c) /\ Sends(c, {"Join"})
  <2>1. c \notin Joined
    BY <1>10 DEF Joins, Joined
  <2>2. J' = J \cup {c} /\ X' = X
    BY <1>5, <1>10, KindSets
  <2> HIDE DEF J, X
  <2>3. QED
    BY <1>1, <1>6, <1>7, <1>8, <2>1, <2>2
<1>11. CASE \/ Talks(c) /\ Sends(c, {"Connect"})
            \/ GivesUp(c) /\ Sends(c, {"Abandon", "Hangup"})
  <2>1. c \in Queued /\ c \in Joined
    BY <1>2, <1>11 DEF Talks, GivesUp, Queued, Joined
  <2>2. J' = J /\ X' = X \cup {c}
    BY <1>5, <1>11, KindSets
  <2> HIDE DEF J, X
  <2>3. QED
    BY <1>1, <1>6, <1>7, <1>8, <2>1, <2>2
<1>12. CASE EndsTalk(c) /\ Sends(c, {"Hangup"})
  <2>1. c \notin Queued /\ c \notin Queued' /\ c \in Joined
    BY <1>2, <1>12 DEF EndsTalk, Queued, Joined
  <2>2. J' = J /\ X' = X
    BY <1>5, <1>12, KindSets
  <2> HIDE DEF J, X
  <2>3. QED
    BY <1>1, <1>6, <1>7, <1>8, <2>1, <2>2
<1>13. QED
  BY <1>3, <1>4, <1>9, <1>10, <1>11, <1>12, CallSends

(* What the outcome tells of a call that is not over.                      *)
OutcomeFits(c) ==
  /\ phase[c] = "out" => c \in LeftByLimit
  /\ phase[c] \in {"new", "waiting", "ringing", "talking"} => outcome[c] = "none"

(* What was told of the call that moves stays true.                        *)
LEMMA ToldOfMover ==
  ASSUME TypeOK, NEW c \in Calls, CallMove(c), OutcomeFits(c),
         NEW i \in 1..Len(amiq), amiq[i].call = c, Told(amiq, i)
  PROVE  /\ amiq[i].kind \in EventsIn(phase'[c])
         /\ c \notin Due(amiq', i + 1, NotAfter(amiq[i].kind))
         /\ amiq[i].kind \in {"Join", "Called"} /\ c \notin Queued' \cup LeftByLimit' =>
              c \in Due(amiq', i + 1, Exits)
         /\ phase'[c] = "gone" => c \in Due(amiq', i, {"Hangup"})
<1> DEFINE k == amiq[i].kind
<1>1. /\ k \in EventsIn(phase[c]) /\ c \notin Due(amiq, i + 1, NotAfter(k))
      /\ k \in {"Join", "Called"} /\ c \notin Queued \cup LeftByLimit =>
           c \in Due(amiq, i + 1, Exits)
      /\ phase[c] = "gone" => c \in Due(amiq, i, {"Hangup"})
  BY DEF Told
<1>2. /\ phase \in [Calls -> Phases] /\ outcome \in [Calls -> {"none"} \cup TerminalStatus]
  BY DEF TypeOK, AstTypeOK
<1>3. i \in 1..Len(amiq) + 1 /\ i + 1 \in 1..Len(amiq) + 1
  BY DEF TypeOK, AstTypeOK
<1>4. ASSUME NEW ks, Sends(c, ks)
      PROVE  \A kinds :
        \A j \in {i, i + 1} :
          /\ kinds \cap ks = {} => Due(amiq', j, kinds) = Due(amiq, j, kinds)
          /\ kinds \cap ks # {} => Due(amiq', j, kinds) = Due(amiq, j, kinds) \cup {c}
  BY <1>3, <1>4 DEF Sends
<1> HIDE DEF k
<1>5. CASE (RingsOut(c) \/ TurnedAway(c)) /\ Sends(c, {})
  <2>1. phase[c] \in {"waiting", "ringing"} /\ phase'[c] \in {"waiting", "out"}
    BY <1>2, <1>5 DEF RingsOut, TurnedAway
  <2>2. c \in Queued' \cup LeftByLimit'
    <3>1. CASE RingsOut(c)
      BY <1>2, <3>1 DEF RingsOut, Queued
    <3>2. CASE TurnedAway(c)
      <4>1. PICK o \in Limits : outcome' = [outcome EXCEPT ![c] = o]
        BY <3>2 DEF TurnedAway
      <4>2. QED
        BY <1>2, <4>1 DEF LeftByLimit, Limits
    <3>3. QED
      BY <1>5, <3>1, <3>2
  <2>3. k \in EventsIn(phase'[c])
    BY <1>1, <2>1 DEF EventsIn
  <2>4. QED
    BY <1>1, <1>4, <1>5, <2>1, <2>2, <2>3 DEF k
<1>6. CASE Joins(c)
  BY <1>1, <1>6 DEF Joins, EventsIn
<1>7. CASE Rings(c) /\ Sends(c, {"Called"})
  <2>1. phase[c] = "waiting" /\ phase'[c] = "ringing" /\ c \in Queued'
    BY <1>2, <1>7 DEF Rings, Queued
  <2>2. k \in {"Join", "Called"} /\ k \in EventsIn(phase'[c]) /\ NotAfter(k) = {"Join"}
    BY <1>1, <2>1 DEF EventsIn, NotAfter
  <2>3. c \notin Due(amiq', i + 1, NotAfter(k))
    BY <1>1, <1>4, <1>7, <2>2
  <2>4. QED
    BY <2>1, <2>2, <2>3 DEF k
<1>8. CASE \/ Talks(c) /\ Sends(c, {"Connect"})
           \/ GivesUp(c) /\ Sends(c, {"Abandon", "Hangup"})
  <2>1. phase[c] \in {"waiting", "ringing"} /\ phase'[c] \in {"talking", "gone"}
    BY <1>2, <1>8 DEF Talks, GivesUp
  <2>2. k \in {"Join", "Called"} /\ k \in EventsIn(phase'[c]) /\ NotAfter(k) = {"Join"}
    BY <1>1, <2>1 DEF EventsIn, NotAfter, EventKinds
  <2>3. c \notin Due(amiq', i + 1, NotAfter(k))
    BY <1>1, <1>4, <1>8, <2>2
  <2>4. c \in Due(amiq', i + 1, Exits)
    BY <1>4, <1>8, KindSets
  <2>5. phase'[c] = "gone" => c \in Due(amiq', i, {"Hangup"})
    <3>1. CASE Talks(c)
      BY <1>2, <3>1 DEF Talks
    <3>2. CASE GivesUp(c) /\ Sends(c, {"Abandon", "Hangup"})
      BY <1>4, <3>2, KindSets
    <3>3. QED
      BY <1>8, <3>1, <3>2
  <2>6. QED
    BY <2>2, <2>3, <2>4, <2>5 DEF k
<1>9. CASE (EndsTalk(c) \/ HangsUp(c)) /\ Sends(c, {"Hangup"})
  <2>1. phase[c] \in {"talking", "out"} /\ phase'[c] = "gone"
    BY <1>2, <1>9 DEF EndsTalk, HangsUp
  <2>2. k \in EventsIn(phase'[c])
    BY <1>1, <2>1 DEF EventsIn, EventKinds
  <2>3. "Hangup" \notin NotAfter(k)
    BY DEF NotAfter
  <2>4. c \notin Due(amiq', i + 1, NotAfter(k))
    BY <1>1, <1>4, <1>9, <2>3
  <2>5. c \in Due(amiq', i, {"Hangup"})
    BY <1>4, <1>9
  <2>6. c \notin Queued /\ (c \in LeftByLimit => c \in LeftByLimit')
    BY <1>2, <1>9, <2>1 DEF EndsTalk, HangsUp, Queued, LeftByLimit, OutcomeFits
  <2>7. c \in Due(amiq, i + 1, Exits) => c \in Due(amiq', i + 1, Exits)
    BY <1>4, <1>9
  <2>8. QED
    BY <1>1, <2>2, <2>4, <2>5, <2>6, <2>7 DEF k
<1>10. QED
  BY <1>5, <1>6, <1>7, <1>8, <1>9, CallSends

(* ... as does what was told of the others.                                *)
LEMMA ToldKept ==
  ASSUME TypeOK, TimesInv, NEW c \in Calls, CallMove(c), OutcomeFits(c),
         NEW i \in 1..Len(amiq), Told(amiq, i)
  PROVE  Told(amiq, i)'
<1> DEFINE e == amiq[i]  d == amiq[i].call
<1>1. amiq \in Seq(Event) /\ d \in Calls
  BY EventAt DEF TypeOK, AstTypeOK
<1>2. PICK ks : Sends(c, ks) /\ (Joins(c) => ks = {"Join"})
  <2>1. Joins(c) => Sends(c, {"Join"})
    BY SendsOne DEF Joins
  <2>2. QED
    BY <2>1, CallSends
<1>3. /\ amiq'[i] = e /\ i \in 1..Len(amiq) + 1 /\ i + 1 \in 1..Len(amiq) + 1
  BY <1>1, <1>2 DEF Sends
<1>4. \A kinds :
        \A j \in {i, i + 1} :
          /\ kinds \cap ks = {} => Due(amiq', j, kinds) = Due(amiq, j, kinds)
          /\ kinds \cap ks # {} => Due(amiq', j, kinds) = Due(amiq, j, kinds) \cup {c}
  BY <1>2, <1>3 DEF Sends
<1>5. /\ d # c => /\ phase'[d] = phase[d] /\ joined'[d] = joined[d]
                  /\ d \in Queued' <=> d \in Queued
                  /\ d \in LeftByLimit' <=> d \in LeftByLimit
      /\ LeftByLimit \subseteq LeftByLimit' \cup {c}
  BY <1>1, CallElse
<1>6. /\ e.kind \in EventsIn(phase[d]) /\ d \notin Due(amiq, i + 1, NotAfter(e.kind))
      /\ e.kind \in {"Join", "Called"} /\ d \notin Queued \cup LeftByLimit =>
           d \in Due(amiq, i + 1, Exits)
      /\ phase[d] = "gone" => d \in Due(amiq, i, {"Hangup"})
      /\ e.kind = "Join" =>
           /\ e.at = joined[d]
           /\ \A x \in Calls : joined[x] > joined[d] => x \in Due(amiq, i + 1, {"Join"})
           /\ LeftByLimit = {} => e.pos = Cardinality(QueuedAt(amiq, i)) + 1
  BY DEF Told
<1>7. /\ e.kind \in EventsIn(phase'[d])
      /\ d \notin Due(amiq', i + 1, NotAfter(e.kind))
      /\ e.kind \in {"Join", "Called"} /\ d \notin Queued' \cup LeftByLimit' =>
           d \in Due(amiq', i + 1, Exits)
      /\ phase'[d] = "gone" => d \in Due(amiq', i, {"Hangup"})
  <2>1. CASE d = c
    BY <2>1, ToldOfMover
  <2>2. CASE d # c
    BY <1>4, <1>5, <1>6, <2>2
  <2>3. QED
    BY <2>1, <2>2
<1>8. ASSUME e.kind = "Join"
      PROVE  /\ e.at = joined'[d]
             /\ \A x \in Calls : joined'[x] > joined'[d] => x \in Due(amiq', i + 1, {"Join"})
             /\ LeftByLimit' = {} => e.pos = Cardinality(QueuedAt(amiq, i)') + 1
  <2>1. phase[d] # "new"
    BY <1>6, <1>8 DEF EventsIn
  <2>2. joined'[d] = joined[d]
    <3>1. CASE Joins(c)
      BY <1>5, <2>1, <3>1 DEF Joins
    <3>2. CASE ~Joins(c)
      BY <3>2 DEF CallMove, Rings, RingsOut, Talks, GivesUp, TurnedAway, EndsTalk, HangsUp, Stays
    <3>3. QED
      BY <3>1, <3>2
  <2>3. ASSUME NEW x \in Calls, joined'[x] > joined'[d] PROVE x \in Due(amiq', i + 1, {"Join"})
    <3>1. CASE Joins(c) /\ x = c
      BY <1>2, <1>4, <3>1
    <3>2. CASE ~(Joins(c) /\ x = c)
      <4>1. joined'[x] = joined[x]
        <5>1. CASE Joins(c)
          BY <3>2, <5>1, CallElse
        <5>2. CASE ~Joins(c)
          BY <5>2 DEF CallMove, Rings, RingsOut, Talks, GivesUp, TurnedAway, EndsTalk, HangsUp,
                      Stays
        <5>3. QED
          BY <5>1, <5>2
      <4>2. x \in Due(amiq, i + 1, {"Join"})
        BY <1>6, <1>8, <2>2, <2>3, <4>1
      <4>3. QED
        BY <1>4, <4>2
    <3>3. QED
      BY <3>1, <3>2
  <2>4. ASSUME LeftByLimit' = {} PROVE e.pos = Cardinality(QueuedAt(amiq, i)') + 1
    <3>1. QueuedAt(amiq, i)' = QueuedAt(amiq, i)
      BY <1>3, <2>4, QueuedAtKept DEF OutcomeFits
    <3>2. LeftByLimit = {}
      <4>1. LeftByLimit \subseteq {c}
        BY <1>5, <2>4
      <4>2. c \in LeftByLimit => c \in LeftByLimit'
        BY DEF CallMove, Joins, Rings, RingsOut, Talks, GivesUp, TurnedAway, EndsTalk, HangsUp,
               LeftByLimit, OutcomeFits
      <4>3. QED
        BY <2>4, <4>1, <4>2
    <3>3. QED
      BY <1>6, <1>8, <3>1, <3>2
  <2>5. QED
    BY <1>6, <1>8, <2>2, <2>3, <2>4
<1>9. QED
  BY <1>3, <1>7, <1>8 DEF Told

-----------------------------------------------------------------------------
(* What the move itself sends is told as it should be.                     *)

LEMMA ToldOne ==
  ASSUME TypeOK, NEW e \in Event, amiq' = Append(amiq, e), e.kind # "Join",
         NEW n, n = Len(amiq) + 1,
         e.kind \in EventsIn(phase'[e.call]),
         e.kind = "Called" => e.call \in Queued',
         phase'[e.call] = "gone" => e.kind = "Hangup"
  PROVE  Told(amiq, n)'
<1>1. amiq \in Seq(Event)
  BY DEF TypeOK, AstTypeOK
<1>2. amiq' \in Seq(Event) /\ Len(amiq') = n /\ amiq'[n] = e /\ n \in Nat
  BY <1>1
<1>3. \A kinds : Due(amiq', n + 1, kinds) = {}
  BY <1>2, DueEnd
<1>4. e.call \in Calls /\ (e.kind = "Hangup" => e.call \in Due(amiq', n, {"Hangup"}))
  BY <1>2 DEF Due, Event
<1>5. e.kind \in {"Called", "Connect", "Abandon", "Hangup"}
  BY DEF Event, EventKinds
<1>6. QED
  BY <1>2, <1>3, <1>4, <1>5 DEF Told

LEMMA ToldTwo ==
  ASSUME TypeOK, NEW e \in Event, NEW f \in Event, amiq' = Append(Append(amiq, e), f),
         NEW n, n = Len(amiq) + 1,
         e.call = f.call, e.kind \in {"Abandon", "Hangup"}, f.kind = "Hangup",
         phase'[e.call] = "gone"
  PROVE  Told(amiq, n)' /\ Told(amiq, n + 1)'
<1>1. amiq \in Seq(Event)
  BY DEF TypeOK, AstTypeOK
<1>2. /\ amiq' \in Seq(Event) /\ Len(amiq') = n + 1 /\ n \in Nat /\ n > 0
      /\ amiq'[n] = e /\ amiq'[n + 1] = f
  BY <1>1
<1>3. \A kinds : Due(amiq', n + 2, kinds) = {}
  <2>1. n + 2 = Len(amiq') + 1
    BY <1>2
  <2>2. QED
    BY <1>2, <2>1, DueEnd
<1>4. \A kinds : Due(amiq', n + 1, kinds) = IF "Hangup" \in kinds THEN {e.call} ELSE {}
  <2>1. n + 1 \in 1..Len(amiq') /\ (n + 1) + 1 = n + 2
    BY <1>2
  <2> DEFINE s == amiq'
  <2>0. s \in Seq(Event) /\ n + 1 \in 1..Len(s)
    BY <1>2, <2>1
  <2> HIDE DEF s
  <2>2. TAKE kinds
  <2>3. Due(s, n + 1, kinds) = Due(s, (n + 1) + 1, kinds)
          \cup (IF s[n + 1].kind \in kinds THEN {s[n + 1].call} ELSE {})
    BY <2>0, DueFrom
  <2>4. Due(amiq', (n + 1) + 1, kinds) = {}
    BY <1>3, <2>1
  <2>5. QED
    BY <1>2, <2>3, <2>4 DEF s
<1>5. e.call \in Calls /\ e.call \in Due(amiq', n, {"Hangup"})
  <2>1. n + 1 \in n..Len(amiq')
    BY <1>2
  <2>2. QED
    BY <1>2, <2>1 DEF Due, Event
<1>6. "Hangup" \notin NotAfter(e.kind) /\ "Hangup" \notin NotAfter("Hangup")
  BY DEF NotAfter
<1>7. Told(amiq, n)'
  BY <1>2, <1>4, <1>5, <1>6 DEF Told, EventsIn, EventKinds
<1>8. Told(amiq, n + 1)'
  <2>1. (n + 1) + 1 = n + 2
    BY <1>2
  <2>2. QED
    BY <1>2, <1>3, <1>4, <1>5, <1>6, <2>1 DEF Told, EventsIn, EventKinds
<1>9. QED
  BY <1>7, <1>8

LEMMA ToldOfJoin ==
  ASSUME TypeOK, TimesInv, NEW c \in Calls, Joins(c), NEW n, n = Len(amiq) + 1
  PROVE  Len(amiq') = n /\ Told(amiq, n)'
<1>1. /\ amiq \in Seq(Event) /\ clock \in Nat
      /\ joined \in [Calls -> Nat] /\ phase \in [Calls -> Phases]
  BY DEF TypeOK, AstTypeOK
<1>2. PICK e \in Event : /\ e.kind = "Join" /\ e.call = c /\ e.at = clock + 1
                         /\ e.pos = Cardinality(Queued) + 1 /\ amiq' = Append(amiq, e)
  BY DEF Joins
<1>3. amiq' \in Seq(Event) /\ Len(amiq') = n /\ amiq'[n] = e /\ n \in Nat /\ n > 0
  BY <1>1, <1>2
<1>4. \A kinds : Due(amiq', n + 1, kinds) = {}
  BY <1>3, DueEnd
<1>5. phase'[c] = "waiting" /\ c \in Queued' /\ joined'[c] = clock + 1
  BY <1>1 DEF Joins, Queued
<1>6. \A x \in Calls : ~(joined'[x] > joined'[c])
  BY <1>1, <1>5 DEF Joins, TimesInv
<1>7. QueuedAt(amiq, n)' = Queued
  <2>1. Due(amiq', n, {"Join"}) = {c} /\ Due(amiq', n, Exits) = {}
    <3>1. \A j \in n..Len(amiq') : j = n
      BY <1>3
    <3>2. n \in n..Len(amiq')
      BY <1>3
    <3>3. QED
      BY <1>2, <1>3, <3>1, <3>2 DEF Due, Exits
  <2>2. /\ Joined' = Joined \cup {c} /\ c \notin Queued
        /\ Queued \subseteq Joined /\ Joined \subseteq Calls
        /\ \A d \in Calls \ {c} : d \in Queued' <=> d \in Queued
    BY <1>1, CallElse DEF CallMove, Joins, Queued, Joined
  <2>3. QueuedAt(amiq, n)' = {d \in Joined' \ {c} : d \in Queued' \cup {}}
    BY <2>1 DEF QueuedAt
  <2>4. QED
    BY <2>2, <2>3
<1>8. Told(amiq, n)'
  BY <1>2, <1>3, <1>4, <1>5, <1>6, <1>7 DEF Told, EventsIn, NotAfter
<1>9. QED
  BY <1>3, <1>8

(* The stream stays truthful when the exchange speaks.                     *)
LEMMA CallStream ==
  ASSUME TypeOK, TimesInv, Stream, NEW c \in Calls, CallMove(c), OutcomeFits(c)
  PROVE  Stream'
<1>1. amiq \in Seq(Event) /\ phase \in [Calls -> Phases]
  BY DEF TypeOK, AstTypeOK
<1>2. PICK m \in Nat : m = Len(amiq)
  BY <1>1
<1>3. \A i \in 1..m : Told(amiq, i)'
  BY <1>2, ToldKept DEF Stream
<1>4. SUFFICES ASSUME NEW i \in 1..Len(amiq'), i \notin 1..m PROVE Told(amiq, i)'
  BY <1>3 DEF Stream
<1>5. m + 1 = Len(amiq) + 1
  BY <1>2
<1>6. ASSUME NEW e \in Event, e.call = c, amiq' = Append(amiq, e)
      PROVE  i = m + 1
  <2>1. Len(amiq') = m + 1
    BY <1>1, <1>2, <1>6
  <2>2. QED
    BY <1>4, <2>1
<1>7. CASE Joins(c)
  <2>1. Len(amiq') = m + 1 /\ Told(amiq, m + 1)'
    BY <1>5, <1>7, ToldOfJoin
  <2>2. i = m + 1
    BY <1>4, <2>1
  <2>3. QED
    BY <2>1, <2>2
<1>8. CASE RingsOut(c) \/ TurnedAway(c)
  BY <1>2, <1>4, <1>8 DEF RingsOut, TurnedAway
<1>9. CASE Rings(c)
  <2>1. PICK e \in Event : e.kind = "Called" /\ e.call = c /\ amiq' = Append(amiq, e)
    BY <1>9 DEF Rings, Emits
  <2>2. phase'[c] = "ringing" /\ c \in Queued'
    BY <1>1, <1>9 DEF Rings, Queued
  <2>3. Told(amiq, m + 1)'
    BY <1>5, <2>1, <2>2, ToldOne DEF EventsIn
  <2>4. QED
    BY <1>6, <2>1, <2>3
<1>10. CASE Talks(c)
  <2>1. PICK e \in Event : e.kind = "Connect" /\ e.call = c /\ amiq' = Append(amiq, e)
    BY <1>10 DEF Talks, Emits
  <2>2. phase'[c] = "talking"
    BY <1>1, <1>10 DEF Talks
  <2>3. Told(amiq, m + 1)'
    BY <1>5, <2>1, <2>2, ToldOne DEF EventsIn
  <2>4. QED
    BY <1>6, <2>1, <2>3
<1>11. CASE HangsUp(c)
  <2>1. PICK e \in Event : e.kind = "Hangup" /\ e.call = c /\ amiq' = Append(amiq, e)
    BY <1>11 DEF HangsUp, Emits
  <2>2. phase'[c] = "gone"
    BY <1>1, <1>11 DEF HangsUp
  <2>3. Told(amiq, m + 1)'
    BY <1>5, <2>1, <2>2, ToldOne DEF EventsIn, EventKinds
  <2>4. QED
    BY <1>6, <2>1, <2>3
<1>12. CASE GivesUp(c) \/ EndsTalk(c)
  <2>1. PICK e \in Event, f \in Event :
          /\ e.kind \in {"Abandon", "Hangup"} /\ e.call = c /\ f.kind = "Hangup" /\ f.call = c
          /\ amiq' = Append(Append(amiq, e), f)
    BY <1>12 DEF GivesUp, EndsTalk, EmitsTwo
  <2>2. phase'[c] = "gone"
    BY <1>1, <1>12 DEF GivesUp, EndsTalk
  <2>3. Told(amiq, m + 1)' /\ Told(amiq, (m + 1) + 1)'
    BY <1>5, <2>1, <2>2, ToldTwo
  <2>4. Len(amiq') = m + 2
    BY <1>1, <1>2, <2>1
  <2>5. i = m + 1 \/ i = (m + 1) + 1
    BY <1>4, <2>4
  <2>6. QED
    BY <2>3, <2>5
<1>13. QED
  BY <1>7, <1>8, <1>9, <1>10, <1>11, <1>12 DEF CallMove

-----------------------------------------------------------------------------
(* The wallboard and a move of a call that is not yet heard of.            *)

(* What the socket has to tell, after the move.                            *)
LEMMA CallDue ==
  ASSUME TypeOK, NEW c \in Calls, CallMove(c)
  PROVE  /\ Unjoined' = Unjoined \cup (IF Joins(c) THEN {c} ELSE {})
         /\ Exiting' = Exiting \cup (IF Talks(c) \/ GivesUp(c) THEN {c} ELSE {})
         /\ Ending' = Ending \cup (IF GivesUp(c) \/ EndsTalk(c) \/ HangsUp(c) THEN {c} ELSE {})
<1>1. 1 \in 1..Len(amiq) + 1
  BY DEF TypeOK, AstTypeOK
<1>2. ASSUME NEW ks, Sends(c, ks)
      PROVE  /\ {"Join"} \cap ks = {} => Unjoined' = Unjoined
             /\ {"Join"} \cap ks # {} => Unjoined' = Unjoined \cup {c}
             /\ Exits \cap ks = {} => Exiting' = Exiting
             /\ Exits \cap ks # {} => Exiting' = Exiting \cup {c}
             /\ {"Hangup"} \cap ks = {} => Ending' = Ending
             /\ {"Hangup"} \cap ks # {} => Ending' = Ending \cup {c}
  BY <1>1, <1>2 DEF Sends, Unjoined, Exiting, Ending
<1>3. CASE (RingsOut(c) \/ TurnedAway(c)) /\ Sends(c, {})
  <2>1. ~Joins(c) /\ ~Talks(c) /\ ~GivesUp(c) /\ ~EndsTalk(c) /\ ~HangsUp(c)
    BY <1>3 DEF Joins, Talks, GivesUp, EndsTalk, HangsUp, RingsOut, TurnedAway, TypeOK, AstTypeOK
  <2>2. QED
    BY <1>2, <1>3, <2>1, KindSets
<1>4. CASE Joins(c) /\ Sends(c, {"Join"})
  <2>1. ~Talks(c) /\ ~GivesUp(c) /\ ~EndsTalk(c) /\ ~HangsUp(c)
    BY <1>4 DEF Joins, Talks, GivesUp, EndsTalk, HangsUp
  <2>2. QED
    BY <1>2, <1>4, <2>1, KindSets
<1>5. CASE Rings(c) /\ Sends(c, {"Called"})
  <2>1. ~Joins(c) /\ ~Talks(c) /\ ~GivesUp(c) /\ ~EndsTalk(c) /\ ~HangsUp(c)
    BY <1>5 DEF Joins, Talks, GivesUp, EndsTalk, HangsUp, Rings, TypeOK, AstTypeOK
  <2>2. QED
    BY <1>2, <1>5, <2>1, KindSets
<1>6. CASE Talks(c) /\ Sends(c, {"Connect"})
  <2>1. ~Joins(c) /\ ~GivesUp(c) /\ ~EndsTalk(c) /\ ~HangsUp(c)
    BY <1>6 DEF Joins, Talks, GivesUp, EndsTalk, HangsUp, TypeOK, AstTypeOK
  <2>2. QED
    BY <1>2, <1>6, <2>1, KindSets
<1>7. CASE GivesUp(c) /\ Sends(c, {"Abandon", "Hangup"})
  <2>1. ~Joins(c)
    BY <1>7 DEF Joins, GivesUp
  <2>2. QED
    BY <1>2, <1>7, <2>1, KindSets
<1>8. CASE (EndsTalk(c) \/ HangsUp(c)) /\ Sends(c, {"Hangup"})
  <2>1. ~Joins(c) /\ ~Talks(c) /\ ~GivesUp(c)
    BY <1>8 DEF Joins, Talks, GivesUp, EndsTalk, HangsUp
  <2>2. QED
    BY <1>2, <1>8, <2>1, KindSets
<1>9. QED
  BY <1>3, <1>4, <1>5, <1>6, <1>7, <1>8, CallSends

LEMMA CallTimes ==
  ASSUME TypeOK, TimesInv, NEW c \in Calls, CallMove(c), OutcomeFits(c)
  PROVE  TimesInv'
<1>1. /\ phase \in [Calls -> Phases] /\ joined \in [Calls -> Nat] /\ clock \in Nat
      /\ outcome \in [Calls -> {"none"} \cup TerminalStatus]
  BY DEF TypeOK, AstTypeOK
<1>2. Joined' = Joined \cup {c} /\ Joined \subseteq Calls
  BY CallElse DEF Joined
<1>3. CASE Joins(c)
  <2>1. /\ c \notin Joined /\ clock' = clock + 1 /\ joined'[c] = clock + 1
        /\ phase'[c] = "waiting" /\ LeftByLimit' = LeftByLimit
        /\ \A d \in Calls \ {c} : joined'[d] = joined[d] /\ phase'[d] = phase[d]
    BY <1>1, <1>3 DEF Joins, Joined, LeftByLimit
  <2>2. \A d \in Calls : joined[d] <= clock /\ (phase[d] = "out" => d \in LeftByLimit)
    BY DEF TimesInv
  <2>3. ASSUME NEW d \in Calls
        PROVE  joined'[d] <= clock' /\ (phase'[d] = "out" => d \in LeftByLimit')
    <3>1. CASE d = c
      BY <1>1, <2>1, <3>1
    <3>2. CASE d # c
      BY <1>1, <2>1, <2>2, <3>2
    <3>3. QED
      BY <3>1, <3>2
  <2>4. ASSUME NEW d \in Joined', NEW x \in Joined', joined'[d] = joined'[x]
        PROVE  d = x
    <3>1. \A y \in Joined : y # c /\ y \in Calls /\ joined'[y] = joined[y] /\ joined[y] <= clock
      BY <1>2, <2>1, <2>2
    <3>2. \A y \in Joined : joined'[y] # clock + 1
      BY <1>1, <1>2, <3>1
    <3>3. CASE d = c \/ x = c
      BY <1>2, <2>1, <2>4, <3>2, <3>3
    <3>4. CASE d # c /\ x # c
      BY <1>2, <2>4, <3>1, <3>4 DEF TimesInv
    <3>5. QED
      BY <3>3, <3>4
  <2>5. QED
    BY <2>3, <2>4 DEF TimesInv
<1>4. CASE ~Joins(c)
  <2>1. joined' = joined /\ clock' = clock /\ phase[c] # "new"
    BY <1>4 DEF CallMove, Rings, RingsOut, Talks, GivesUp, TurnedAway, EndsTalk, HangsUp, Stays
  <2>2. Joined' = Joined
    BY <1>2, <2>1 DEF Joined
  <2>3. phase'[c] = "out" => c \in LeftByLimit'
    <3>1. CASE TurnedAway(c)
      <4>1. PICK o \in Limits : outcome' = [outcome EXCEPT ![c] = o]
        BY <3>1 DEF TurnedAway
      <4>2. QED
        BY <1>1, <4>1 DEF LeftByLimit, Limits
    <3>2. CASE ~TurnedAway(c)
      BY <1>1, <1>4, <3>2 DEF CallMove, Rings, RingsOut, Talks, GivesUp, EndsTalk, HangsUp
    <3>3. QED
      BY <3>1, <3>2
  <2>4. \A d \in Calls \ {c} : phase'[d] = "out" => d \in LeftByLimit'
    BY CallElse DEF TimesInv
  <2>5. QED
    BY <2>1, <2>2, <2>3, <2>4 DEF TimesInv
<1>5. QED
  BY <1>3, <1>4

LEMMA CallShown ==
  ASSUME TypeOK, JoinedInv, TimesInv, NEW c \in Calls, CallMove(c), OutcomeFits(c),
         NEW d \in Calls, Shown(d), UNCHANGED <<rows, live, pc, job>>
  PROVE  Shown(d)'
<1>1. /\ phase \in [Calls -> Phases] /\ joined \in [Calls -> Nat]
      /\ outcome \in [Calls -> {"none"} \cup TerminalStatus]
  BY DEF TypeOK, AstTypeOK
<1>2. CASE d # c
  <2>1. /\ phase'[d] = phase[d] /\ joined'[d] = joined[d]
        /\ d \in Joined' <=> d \in Joined
        /\ d \in Queued' <=> d \in Queued
        /\ d \in Talking' <=> d \in Talking
        /\ d \in LeftByLimit' <=> d \in LeftByLimit
    BY <1>2, CallElse
  <2>2. /\ d \in Unjoined' <=> d \in Unjoined
        /\ d \in Exiting' <=> d \in Exiting
        /\ d \in Ending' <=> d \in Ending
    BY <1>2, CallDue
  <2>3. QED
    BY <2>1, <2>2 DEF Shown
<1>3. CASE d = c /\ Joins(c)
  <2>1. c \in Unjoined' /\ c \in Queued' /\ phase'[c] = "waiting" /\ c \notin Talking'
    BY <1>1, <1>3, CallDue DEF Joins, Queued, Talking
  <2>2. ~OnBoard(live[c])
    BY <1>3 DEF Joins, JoinedInv, Joined, Unheard, OnBoard, NoLive
  <2>3. QED
    BY <1>3, <2>1, <2>2 DEF Shown
<1>4. CASE d = c /\ ~Joins(c)
  <2>1. joined' = joined /\ c \in Joined /\ Unjoined' = Unjoined
    BY <1>4, CallDue DEF CallMove, Rings, RingsOut, Talks, GivesUp, TurnedAway, EndsTalk, HangsUp,
                         Stays, Joined
  <2>2. CASE Rings(c) \/ RingsOut(c)
    <3>1. c \in Queued /\ c \in Queued' /\ c \notin Talking' /\ phase'[c] # "gone"
      BY <1>1, <2>2 DEF Rings, RingsOut, Queued, Talking
    <3>2. QED
      BY <1>4, <2>1, <3>1 DEF Shown
  <2>3. CASE Talks(c) \/ GivesUp(c)
    <3>1. /\ c \in Queued /\ c \in Exiting' /\ c \notin Queued'
          /\ phase'[c] = "gone" => c \in Ending'
      BY <1>1, <2>3, CallDue DEF Talks, GivesUp, Queued
    <3>2. QED
      BY <1>4, <2>1, <3>1 DEF Shown
  <2>4. CASE TurnedAway(c)
    <3>1. PICK o \in Limits : outcome' = [outcome EXCEPT ![c] = o]
      BY <2>4 DEF TurnedAway
    <3>2. c \in LeftByLimit' /\ c \notin Queued' /\ c \notin Talking' /\ phase'[c] # "gone"
      BY <1>1, <2>4, <3>1 DEF TurnedAway, Queued, Talking, LeftByLimit, Limits
    <3>3. QED
      BY <1>4, <2>1, <3>2 DEF Shown
  <2>5. CASE EndsTalk(c)
    <3>1. /\ c \in Talking /\ c \in Ending' /\ c \notin Queued' /\ c \notin Talking'
          /\ Exiting \subseteq Exiting'
      BY <1>1, <2>5, CallDue DEF EndsTalk, Queued, Talking
    <3>2. c \notin Exiting' => ~InTurn(live[c])
      BY <1>4, <3>1 DEF Shown, InTurn
    <3>3. QED
      BY <1>4, <2>1, <3>1, <3>2 DEF Shown
  <2>6. CASE HangsUp(c)
    <3>1. c \in Ending' /\ c \notin Queued' /\ c \notin Talking' /\ c \in LeftByLimit'
      BY <1>1, <2>6, CallDue DEF HangsUp, Queued, Talking, LeftByLimit, OutcomeFits
    <3>2. QED
      BY <1>4, <2>1, <3>1 DEF Shown
  <2>7. QED
    BY <1>4, <2>2, <2>3, <2>4, <2>5, <2>6 DEF CallMove
<1>5. QED
  BY <1>2, <1>3, <1>4

LEMMA CallInPlace ==
  ASSUME TypeOK, TimesInv, InPlace, NEW c \in Calls, CallMove(c), OutcomeFits(c),
         UNCHANGED <<live, pc>>
  PROVE  InPlace'
<1> DEFINE known == Queued \ Unjoined
<1>1. /\ phase \in [Calls -> Phases] /\ joined \in [Calls -> Nat]
      /\ outcome \in [Calls -> {"none"} \cup TerminalStatus]
  BY DEF TypeOK, AstTypeOK
<1>2. SUFFICES ASSUME LeftByLimit' = {}, Exiting' = {},
                      pc[Collector] \notin {"renumber", "positions"},
                      NEW x \in known'
               PROVE  live[x].pos = Cardinality({d \in known' : joined'[d] <= joined'[x]})
  BY DEF InPlace
<1>3. Joins(c) \/ Rings(c) \/ RingsOut(c) \/ EndsTalk(c)
  <2>1. ~Talks(c) /\ ~GivesUp(c)
    BY <1>2, CallDue
  <2>2. ~TurnedAway(c)
    <3>1. ASSUME NEW o \in Limits, outcome' = [outcome EXCEPT ![c] = o] PROVE FALSE
      BY <1>1, <1>2, <3>1 DEF LeftByLimit, Limits
    <3>2. QED
      BY <3>1 DEF TurnedAway
  <2>3. ~HangsUp(c)
    BY <1>1, <1>2 DEF HangsUp, LeftByLimit, OutcomeFits
  <2>4. QED
    BY <2>1, <2>2, <2>3 DEF CallMove
<1>4. Queued' \ {c} = Queued \ {c} /\ Queued \subseteq Calls
  BY CallElse DEF Queued
<1>5. known' = known /\ \A d \in known : joined'[d] = joined[d] /\ d \in Calls
  <2>1. CASE Joins(c)
    <3>1. c \notin Queued /\ c \in Unjoined' /\ Unjoined' = Unjoined \cup {c}
      BY <2>1, CallDue DEF Joins, Queued
    <3>2. \A d \in Calls \ {c} : joined'[d] = joined[d]
      BY <1>1, <2>1 DEF Joins
    <3>3. QED
      BY <1>4, <3>1, <3>2
  <2>2. CASE Rings(c) \/ RingsOut(c) \/ EndsTalk(c)
    <3>1. joined' = joined /\ ~Joins(c)
      BY <2>2 DEF Rings, RingsOut, EndsTalk, Stays, Joins
    <3>2. Unjoined' = Unjoined
      BY <3>1, CallDue
    <3>3. c \in Queued' <=> c \in Queued
      BY <1>1, <2>2 DEF Rings, RingsOut, EndsTalk, Queued
    <3>4. QED
      BY <1>4, <3>1, <3>2, <3>3
  <2>3. QED
    BY <1>3, <2>1, <2>2
<1>6. LeftByLimit = {} /\ Exiting = {}
  <2>1. Exiting = {}
    BY <1>2, CallDue
  <2>2. LeftByLimit \subseteq {c}
    BY <1>2, CallElse
  <2>3. c \in LeftByLimit => c \in LeftByLimit'
    BY <1>1, <1>3 DEF Joins, Rings, RingsOut, EndsTalk, LeftByLimit, OutcomeFits
  <2>4. QED
    BY <1>2, <2>1, <2>2, <2>3
<1>7. live[x].pos = Cardinality({d \in known : joined[d] <= joined[x]})
  BY <1>2, <1>5, <1>6 DEF InPlace
<1>8. {d \in known' : joined'[d] <= joined'[x]} = {d \in known : joined[d] <= joined[x]}
  BY <1>5
<1>9. QED
  BY <1>7, <1>8

LEMMA CallMirrors ==
  ASSUME TypeOK, JoinedInv, RecordInv, Mirrors, NEW c \in Calls, CallStep(c),
         UNCHANGED <<dbVars, procVars>>
  PROVE  Mirrors'
<1>1. UNCHANGED <<rows, live, pc, job, places, snap>>
  BY DEF dbVars, procVars
<1>2. conn' = conn
  BY DEF CallStep, Join, CallAgent, AgentRingsOut, Connect, Abandon, LeaveQueue, Complete,
         HangupOutside
<1>3. CallMove(c)
  BY CallTells DEF Mirrors
<1>4. OutcomeFits(c)
  BY DEF OutcomeFits, Mirrors, TimesInv, RecordInv, LinesTrue
<1>5. Stream' /\ TimesInv' /\ InPlace' /\ \A d \in Calls : Shown(d)'
  BY <1>1, <1>3, <1>4, CallStream, CallTimes, CallShown, CallInPlace DEF Mirrors
<1>6. AtWork'
  <2>1. Unjoined \subseteq Unjoined'
    BY <1>3, CallDue
  <2>2. Gone \subseteq Gone'
    <3>1. AsteriskStep
      BY DEF AsteriskStep
    <3>2. QED
      BY <3>1, GoneStays
  <2>3. Board' = Board /\ Numberings' = Numberings
    BY <1>1 DEF Board, Numberings
  <2>4. QED
    BY <1>1, <2>1, <2>2, <2>3 DEF AtWork, Mirrors, Gone
<1>7. QED
  BY <1>2, <1>5, <1>6 DEF Mirrors

-----------------------------------------------------------------------------
(* The collector takes an event.                                           *)

Takes(e) ==
  /\ e \in Event /\ e = amiq[1] /\ amiq \in Seq(Event) /\ Len(amiq) > 0
  /\ amiq' = Tail(amiq)
  /\ UNCHANGED <<phase, joined, clock, conn, outcome>>

LEMMA HandleTakes ==
  ASSUME TypeOK, NEW kind, NEW next, Handles(kind, next)
  PROVE  /\ Takes(Head(amiq)) /\ Head(amiq).kind = kind /\ Head(amiq).call \in Calls
         /\ pc[Collector] = "idle" /\ pc' = [pc EXCEPT ![Collector] = next]
<1>1. amiq \in Seq(Event) /\ amiq # <<>>
  BY DEF TypeOK, AstTypeOK, Handles
<1>2. Head(amiq) = amiq[1] /\ Len(amiq) > 0 /\ Head(amiq) \in Event
  BY <1>1
<1>3. QED
  BY <1>1, <1>2 DEF Takes, Handles, Goes, Event

LEMMA TakenStream ==
  ASSUME Stream, NEW e, Takes(e)
  PROVE  Stream'
<1>1. amiq \in Seq(Event) /\ amiq # <<>> /\ amiq' = Tail(amiq) /\ Len(amiq) \in Nat
  BY DEF Takes
<1>2. SUFFICES ASSUME NEW i \in 1..Len(amiq') PROVE Told(amiq, i)'
  BY DEF Stream
<1>3. i + 1 \in 1..Len(amiq) /\ amiq'[i] = amiq[i + 1] /\ i \in Nat \ {0} /\ i + 1 \in Nat \ {0}
  BY <1>1
<1>4. \A ks : Due(amiq', i, ks) = Due(amiq, i + 1, ks)
              /\ Due(amiq', i + 1, ks) = Due(amiq, (i + 1) + 1, ks)
  BY <1>1, <1>3, DueTail
<1>5. Joined' = Joined /\ Queued' = Queued /\ LeftByLimit' = LeftByLimit
  BY DEF Takes, Joined, Queued, LeftByLimit
<1>6. QueuedAt(amiq, i)' = QueuedAt(amiq, i + 1)
  BY <1>4, <1>5 DEF QueuedAt
<1>7. Told(amiq, i + 1) /\ phase' = phase /\ joined' = joined
  BY <1>3 DEF Stream, Takes
<1>8. QED
  BY <1>3, <1>4, <1>5, <1>6, <1>7 DEF Told

LEMMA TakenDue ==
  ASSUME NEW e, Takes(e), NEW ks
  PROVE  /\ Due(amiq', 1, ks) = Due(amiq, 2, ks)
         /\ Due(amiq, 1, ks) = Due(amiq, 2, ks) \cup (IF e.kind \in ks THEN {e.call} ELSE {})
<1>1. amiq \in Seq(Event) /\ amiq # <<>> /\ 1 \in 1..Len(amiq)
  BY DEF Takes
<1>2. Due(amiq', 1, ks) = Due(amiq, 1 + 1, ks)
  BY <1>1, DueTail DEF Takes
<1>3. Due(amiq, 1, ks) =
        Due(amiq, 1 + 1, ks) \cup (IF amiq[1].kind \in ks THEN {amiq[1].call} ELSE {})
  BY <1>1, DueFrom
<1>4. QED
  BY <1>2, <1>3 DEF Takes

(* What an event that is taken says about its call, and what is then due.  *)
LEMMA TakenTells ==
  ASSUME TypeOK, RecordInv, Stream, NEW e, Takes(e)
  PROVE  /\ Unjoined = Unjoined' \cup (IF e.kind = "Join" THEN {e.call} ELSE {})
         /\ Exiting = Exiting' \cup (IF e.kind \in Exits THEN {e.call} ELSE {})
         /\ Ending = Ending' \cup (IF e.kind = "Hangup" THEN {e.call} ELSE {})
         /\ e.call \notin Unjoined' /\ (e.kind \notin {"Join", "Called"} => e.call \notin Exiting')
         /\ e.kind \in {"Join", "Called"} =>
              e.call \in Queued \cup LeftByLimit \cup Exiting' /\ e.call \notin Talking \ Exiting'
         /\ phase[e.call] = "gone" => e.call \in Ending
         /\ e.kind \in {"Connect", "Abandon", "Hangup"} => phase[e.call] \in {"talking", "gone"}
         /\ e.kind \in {"Abandon", "Hangup"} => phase[e.call] = "gone"
         /\ phase[e.call] # "new" /\ e.call \in Calls
<1> DEFINE c == e.call
<1>1. Told(amiq, 1) /\ amiq[1] = e /\ c \in Calls /\ e.kind \in EventKinds
  BY DEF Stream, Takes, Event
<1>2. \A ks : /\ Due(amiq', 1, ks) = Due(amiq, 2, ks)
              /\ Due(amiq, 1, ks) = Due(amiq, 2, ks) \cup (IF e.kind \in ks THEN {c} ELSE {})
  BY TakenDue
<1>3. /\ Unjoined = Unjoined' \cup (IF e.kind = "Join" THEN {c} ELSE {})
      /\ Exiting = Exiting' \cup (IF e.kind \in Exits THEN {c} ELSE {})
      /\ Ending = Ending' \cup (IF e.kind = "Hangup" THEN {c} ELSE {})
  <2>1. Unjoined' = Due(amiq, 2, {"Join"}) /\ Exiting' = Due(amiq, 2, Exits)
        /\ Ending' = Due(amiq, 2, {"Hangup"})
    BY <1>2 DEF Unjoined, Exiting, Ending
  <2>2. QED
    BY <1>2, <2>1 DEF Unjoined, Exiting, Ending
<1>4. /\ e.kind \in EventsIn(phase[c])
      /\ c \notin Due(amiq, 2, NotAfter(e.kind))
      /\ e.kind \in {"Join", "Called"} /\ c \notin Queued \cup LeftByLimit =>
           c \in Due(amiq, 2, Exits)
      /\ phase[c] = "gone" => c \in Due(amiq, 1, {"Hangup"})
  <2>1. 1 + 1 = 2
    OBVIOUS
  <2>2. QED
    BY <1>1, <2>1 DEF Told
<1>5. /\ "Join" \in NotAfter(e.kind)
      /\ e.kind \notin {"Join", "Called"} => Exits \subseteq NotAfter(e.kind)
  BY DEF NotAfter, Exits, EventKinds
<1>6. \A ks : ks \subseteq NotAfter(e.kind) => c \notin Due(amiq, 2, ks)
  BY <1>4 DEF Due
<1>7. c \notin Unjoined' /\ (e.kind \notin {"Join", "Called"} => c \notin Exiting')
  <2>1. {"Join"} \subseteq NotAfter(e.kind)
    BY <1>5
  <2>2. c \notin Due(amiq, 2, {"Join"})
    BY <1>6, <2>1
  <2>3. QED
    BY <1>2, <1>5, <1>6, <2>2 DEF Unjoined, Exiting
<1>8. c \in Talking => c \notin Queued /\ c \notin LeftByLimit
  BY DEF Talking, Queued, LeftByLimit, RecordInv, LinesTrue
<1>9. /\ e.kind \in {"Join", "Called"} => c \in Queued \cup LeftByLimit \cup Exiting'
      /\ phase[c] = "gone" => c \in Ending
  BY <1>2, <1>4 DEF Exiting, Ending
<1>10. /\ e.kind \in {"Connect", "Abandon", "Hangup"} => phase[c] \in {"talking", "gone"}
       /\ e.kind \in {"Abandon", "Hangup"} => phase[c] = "gone"
       /\ phase[c] # "new"
  BY <1>1, <1>4 DEF EventsIn
<1>11. QED
  BY <1>1, <1>3, <1>7, <1>8, <1>9, <1>10

(* The other calls are shown as before.                                    *)
LEMMA TakenOthers ==
  ASSUME TypeOK, RecordInv, Stream, NEW e, Takes(e), pc[Collector] = "idle",
         NEW d \in Calls, Shown(d), d # e.call, rows'[d] = rows[d], live'[d] = live[d],
         pc'[Collector] = "hangup" => job'[Collector].call = e.call
  PROVE  Shown(d)'
<1>1. Joined' = Joined /\ Queued' = Queued /\ Talking' = Talking /\ LeftByLimit' = LeftByLimit
  BY DEF Takes, Joined, Queued, Talking, LeftByLimit
<1>2. /\ d \in Unjoined' <=> d \in Unjoined
      /\ d \in Exiting' <=> d \in Exiting
      /\ d \in Ending' <=> d \in Ending
  BY TakenTells
<1>3. phase' = phase /\ joined' = joined
  BY DEF Takes
<1>4. QED
  BY <1>1, <1>2, <1>3 DEF Shown

LEMMA TakenRest ==
  ASSUME TypeOK, RecordInv, Mirrors, NEW e, Takes(e), pc[Collector] = "idle",
         NEW next \in {"idle", "renumber", "hangup"}, pc' = [pc EXCEPT ![Collector] = next],
         next = "hangup" => job'[Collector].call \in Gone,
         UNCHANGED snap
  PROVE  conn' /\ Stream' /\ TimesInv' /\ AtWork'
<1>1. pc'[Collector] = next
  BY DEF TypeOK, Procs
<1>2. AtWork'
  BY <1>1 DEF Mirrors, AtWork, Takes, Gone
<1>3. conn' /\ TimesInv'
  BY DEF Mirrors, TimesInv, Takes, Joined, LeftByLimit
<1>4. QED
  BY <1>2, <1>3, TakenStream DEF Mirrors

(* Nobody's place changes while no place does and nobody becomes known.    *)
LEMMA PlacesKept ==
  ASSUME TypeOK, RecordInv, Stream, NEW e, Takes(e), InPlace, e.kind # "Join",
         e.kind \notin Exits, pc[Collector] = "idle",
         \A d \in Calls : live'[d].pos = live[d].pos
  PROVE  InPlace'
<1>1. /\ LeftByLimit' = LeftByLimit /\ Queued' = Queued /\ joined' = joined
      /\ Queued \subseteq Calls
  BY DEF Takes, LeftByLimit, Queued
<1>2. Exiting' = Exiting /\ Unjoined' = Unjoined
  BY TakenTells
<1>3. QED
  BY <1>1, <1>2 DEF InPlace

LEMMA JoinPlaced ==
  ASSUME TypeOK, RecordInv, Mirrors, NEW e, Takes(e), e.kind = "Join", pc[Collector] = "idle",
         live' = [live EXCEPT ![e.call] = EnterLive(live[e.call], e.pos, e.at)]
  PROVE  InPlace' /\ e.at = joined[e.call]
<1> DEFINE known == Queued \ Unjoined  c == e.call
<1>1. /\ Unjoined = Unjoined' \cup {c} /\ Exiting = Exiting' /\ c \notin Unjoined'
      /\ c \in Queued \cup LeftByLimit \cup Exiting' /\ c \in Calls
  <2>1. e.kind \notin Exits
    BY DEF Exits
  <2>2. QED
    BY <2>1, TakenTells DEF Mirrors
<1>2. LeftByLimit' = LeftByLimit /\ Queued' = Queued /\ joined' = joined /\ Queued \subseteq Calls
  BY DEF Takes, LeftByLimit, Queued
<1>3. /\ e.at = joined[c]
      /\ \A d \in Calls : joined[d] > joined[c] => d \in Unjoined'
      /\ LeftByLimit = {} => e.pos = Cardinality(QueuedAt(amiq, 1)) + 1
  <2>1. Told(amiq, 1) /\ amiq[1] = e /\ 1 + 1 = 2
    BY DEF Mirrors, Stream, Takes
  <2>2. Due(amiq, 2, {"Join"}) = Unjoined'
    BY TakenDue DEF Unjoined
  <2>3. QED
    BY <2>1, <2>2 DEF Told
<1>4. SUFFICES ASSUME LeftByLimit = {}, Exiting = {}, NEW x \in known'
               PROVE  live'[x].pos = Cardinality({d \in known' : joined[d] <= joined[x]})
  BY <1>1, <1>2, <1>3 DEF InPlace
<1>5. c \in Queued /\ c \notin known /\ known' = known \cup {c} /\ known \subseteq Calls
  BY <1>1, <1>2, <1>4
<1>6. \A d \in known : joined[d] <= joined[c] /\ joined[d] # joined[c] /\ d # c
  <2>1. joined \in [Calls -> Nat] /\ known \subseteq Joined /\ c \in Joined
    BY <1>5 DEF TypeOK, AstTypeOK, Queued, Joined
  <2>2. \A d \in known : d # c /\ d \notin Unjoined'
    BY <1>1, <1>5
  <2>3. \A d, b \in Joined : joined[d] = joined[b] => d = b
    BY DEF Mirrors, TimesInv
  <2>4. QED
    BY <1>1, <1>3, <1>5, <2>1, <2>2, <2>3
<1>7. IsFiniteSet(known)
  BY <1>5, CallsAssumption, FS_Subset
<1>8. CASE x = c
  <2>1. live'[c].pos = Cardinality(QueuedAt(amiq, 1)) + 1
    BY <1>1, <1>3, <1>4 DEF EnterLive, TypeOK
  <2>2. QueuedAt(amiq, 1) = known
    BY <1>4, <1>5 DEF QueuedAt, Unjoined, Exiting, Queued, Joined
  <2>3. {d \in known' : joined[d] <= joined[c]} = known \cup {c}
    <3>1. joined[c] <= joined[c]
      BY <1>1 DEF TypeOK, AstTypeOK
    <3>2. QED
      BY <1>5, <1>6, <3>1
  <2>4. Cardinality(known \cup {c}) = Cardinality(known) + 1
    BY <1>5, <1>7, FS_AddElement
  <2>5. QED
    BY <1>8, <2>1, <2>2, <2>3, <2>4
<1>9. CASE x # c
  <2>1. x \in known
    BY <1>4, <1>5, <1>9
  <2>2. live'[x] = live[x]
    BY <1>5, <1>9, <2>1 DEF TypeOK
  <2>3. live[x].pos = Cardinality({d \in known : joined[d] <= joined[x]})
    BY <1>4, <2>1 DEF Mirrors, InPlace
  <2>4. ~(joined[c] <= joined[x])
    BY <1>1, <1>5, <1>6, <2>1 DEF TypeOK, AstTypeOK
  <2>5. {d \in known' : joined[d] <= joined[x]} = {d \in known : joined[d] <= joined[x]}
    BY <1>5, <2>4
  <2>6. QED
    BY <2>2, <2>3, <2>5
<1>10. QED
  BY <1>8, <1>9

LEMMA HandleMirrors ==
  ASSUME TypeOK, RecordInv, Mirrors, Handle
  PROVE  Mirrors'
<1>0. PICK e : e = Head(amiq)
  OBVIOUS
<1> DEFINE c == e.call
<1>1. rows \in [Calls -> Row] /\ live \in [Calls -> LiveRow] /\ pc \in [Procs -> PcValues]
      /\ job \in [Procs -> Job] /\ Collector \in Procs
  BY DEF TypeOK, Procs
<1>2. Stream /\ InPlace /\ \A d \in Calls : Shown(d)
  BY DEF Mirrors
<1>3. ASSUME Takes(e)
      PROVE  /\ Joined' = Joined /\ Queued' = Queued /\ Talking' = Talking
             /\ LeftByLimit' = LeftByLimit /\ phase' = phase /\ joined' = joined
             /\ c \in Talking => c \notin Queued /\ phase[c] # "gone"
             /\ c \in Queued => phase[c] \notin {"talking", "gone"}
             /\ c \in Joined
  <2>1. phase[c] # "new" /\ c \in Calls
    BY <1>2, <1>3, TakenTells
  <2>2. QED
    BY <1>3, <2>1 DEF Takes, Joined, Queued, Talking, LeftByLimit
<1>4. CASE HandleJoin
  <2>1. /\ Takes(e) /\ e.kind = "Join" /\ c \in Calls /\ pc[Collector] = "idle"
        /\ pc' = [pc EXCEPT ![Collector] = "idle"]
    BY <1>0, <1>4, HandleTakes DEF HandleJoin
  <2>2. /\ rows' = [rows EXCEPT ![c] = EnterRow(rows[c])]
        /\ live' = [live EXCEPT ![c] = EnterLive(live[c], e.pos, e.at)] /\ snap' = snap
    BY <1>0, <1>4 DEF HandleJoin, SetRow, SetLive
  <2>3. conn' /\ Stream' /\ TimesInv' /\ AtWork'
    BY <2>1, <2>2, TakenRest
  <2>4. InPlace' /\ e.at = joined[c]
    BY <2>1, <2>2, JoinPlaced
  <2>5. Shown(c)'
    <3>1. Exists(rows'[c]) /\ live'[c].state = "WAITING" /\ live'[c].start = joined[c]
      BY <1>1, <2>1, <2>2, <2>4 DEF EnterRow, EnterLive, Exists, Row, NoRow, Terminal,
                                    TerminalStatus
    <3>2. /\ c \notin Unjoined' /\ c \in Queued \cup LeftByLimit \cup Exiting'
          /\ c \notin Talking \ Exiting' /\ (phase[c] = "gone" => c \in Ending')
      BY <1>2, <2>1, TakenTells
    <3>3. QED
      BY <1>3, <2>1, <3>1, <3>2 DEF Shown, OnBoard, InTurn
  <2>6. \A d \in Calls \ {c} : Shown(d)'
    <3>1. pc'[Collector] # "hangup"
      BY <1>1, <2>1
    <3>2. \A d \in Calls \ {c} : rows'[d] = rows[d] /\ live'[d] = live[d]
      BY <1>1, <2>2
    <3>3. QED
      BY <1>2, <2>1, <3>1, <3>2, TakenOthers
  <2>7. QED
    BY <2>3, <2>4, <2>5, <2>6 DEF Mirrors
<1>5. CASE HandleCalled
  <2>1. /\ Takes(e) /\ e.kind = "Called" /\ c \in Calls /\ pc[Collector] = "idle"
        /\ pc' = [pc EXCEPT ![Collector] = "idle"]
    BY <1>0, <1>5, HandleTakes DEF HandleCalled
  <2>2. /\ rows' = [rows EXCEPT ![c] = RingRow(rows[c])]
        /\ live' = [live EXCEPT ![c] = RingLive(live[c])] /\ snap' = snap
    BY <1>0, <1>5 DEF HandleCalled, SetRow, SetLive
  <2>3. conn' /\ Stream' /\ TimesInv' /\ AtWork'
    BY <2>1, <2>2, TakenRest
  <2>4. InPlace'
    <3>1. \A d \in Calls : live'[d].pos = live[d].pos
      BY <1>1, <2>1, <2>2 DEF RingLive, LiveRow
    <3>2. "Called" \notin Exits
      BY DEF Exits
    <3>3. QED
      BY <1>2, <2>1, <3>1, <3>2, PlacesKept
  <2>5. Shown(c)'
    <3>1. /\ Exists(rows[c]) => Exists(rows'[c])
          /\ OnBoard(live[c]) => live'[c].state = "RINGING" /\ live'[c].start = live[c].start
      BY <1>1, <2>1, <2>2 DEF RingRow, RingLive, Exists, OnBoard, Row, LiveRow, Terminal,
                              TerminalStatus
    <3>2. /\ c \notin Unjoined' /\ c \in Queued \cup LeftByLimit \cup Exiting'
          /\ Unjoined = Unjoined' /\ c \notin Talking \ Exiting'
          /\ phase[c] = "gone" => c \in Ending'
      BY <1>2, <2>1, TakenTells
    <3>3. QED
      BY <1>2, <1>3, <2>1, <3>1, <3>2 DEF Shown, OnBoard, InTurn
  <2>6. \A d \in Calls \ {c} : Shown(d)'
    <3>1. pc'[Collector] # "hangup"
      BY <1>1, <2>1
    <3>2. \A d \in Calls \ {c} : rows'[d] = rows[d] /\ live'[d] = live[d]
      BY <1>1, <2>2
    <3>3. QED
      BY <1>2, <2>1, <3>1, <3>2, TakenOthers
  <2>7. QED
    BY <2>3, <2>4, <2>5, <2>6 DEF Mirrors
<1>6. CASE HandleConnect \/ HandleAbandon
  <2>1. /\ Takes(e) /\ e.kind \in Exits /\ c \in Calls /\ pc[Collector] = "idle"
        /\ pc' = [pc EXCEPT ![Collector] = AfterWrite(c)]
        /\ (HandleAbandon => e.kind = "Abandon")
    BY <1>0, <1>6, HandleTakes DEF HandleConnect, HandleAbandon, Exits
  <2>2. /\ rows' = [rows EXCEPT ![c] = AnswerRow(rows[c])]
           \/ rows' = [rows EXCEPT ![c] = AbandonRow(rows[c])]
        /\ snap' = snap
        /\ \/ HandleAbandon /\ live' = [live EXCEPT ![c] = NoLive]
           \/ live' = [live EXCEPT ![c] = AnswerLive(live[c])]
    BY <1>0, <1>6 DEF HandleConnect, HandleAbandon, SetRow, SetLive
  <2>3. /\ c \notin Unjoined /\ c \notin Unjoined' /\ c \notin Exiting' /\ c \notin Queued
        /\ (phase[c] = "gone" => c \in Ending') /\ phase[c] \in {"talking", "gone"}
        /\ (HandleAbandon => phase[c] = "gone")
    <3>1. e.kind \in {"Connect", "Abandon"}
      BY <2>1 DEF Exits
    <3>2. QED
      BY <1>2, <1>3, <2>1, <3>1, TakenTells
  <2>4. Exists(rows[c]) /\ AfterWrite(c) = "renumber"
    BY <1>2, <1>3, <2>1, <2>3 DEF Shown, AfterWrite
  <2>5. pc'[Collector] = "renumber"
    BY <1>1, <2>1, <2>4
  <2>6. conn' /\ Stream' /\ TimesInv' /\ AtWork'
    BY <2>1, <2>2, <2>4, TakenRest
  <2>7. InPlace'
    BY <2>5 DEF InPlace
  <2>8. Shown(c)'
    <3>1. Exists(rows'[c])
      <4>1. Exists(AnswerRow(rows[c])) /\ Exists(AbandonRow(rows[c]))
        BY <1>1, <2>1, <2>4 DEF AnswerRow, AbandonRow, Exists, Row
      <4>2. QED
        BY <1>1, <2>1, <2>2, <4>1
    <3>2. \/ phase[c] = "gone" /\ ~OnBoard(live'[c])
          \/ OnBoard(live[c]) /\ live'[c].state = "TALKING"
          \/ ~OnBoard(live[c]) /\ ~OnBoard(live'[c])
      <4>1. /\ ~OnBoard(NoLive)
            /\ OnBoard(live[c]) => AnswerLive(live[c]).state = "TALKING"
            /\ ~OnBoard(live[c]) => ~OnBoard(AnswerLive(live[c]))
        BY <1>1, <2>1 DEF AnswerLive, OnBoard, NoLive, LiveRow
      <4>2. QED
        BY <1>1, <2>1, <2>2, <2>3, <4>1
    <3>3. QED
      BY <1>2, <1>3, <2>1, <2>3, <3>1, <3>2 DEF Shown, OnBoard, InTurn, Talking
  <2>9. \A d \in Calls \ {c} : Shown(d)'
    <3>1. \A d \in Calls \ {c} : rows'[d] = rows[d] /\ live'[d] = live[d]
      BY <1>1, <2>2
    <3>2. QED
      BY <1>2, <2>1, <2>5, <3>1, TakenOthers
  <2>10. QED
    BY <2>6, <2>7, <2>8, <2>9 DEF Mirrors
<1>7. CASE HandleHangup
  <2>1. /\ Takes(e) /\ e.kind = "Hangup" /\ c \in Calls /\ pc[Collector] = "idle"
        /\ pc' = [pc EXCEPT ![Collector] = "hangup"]
    BY <1>0, <1>7, HandleTakes DEF HandleHangup
  <2>2. UNCHANGED <<rows, live, snap>> /\ job'[Collector].call = c /\ pc'[Collector] = "hangup"
    BY <1>0, <1>1, <1>7, <2>1 DEF HandleHangup
  <2>3. phase[c] = "gone" /\ c \notin Unjoined' /\ c \notin Exiting' /\ Unjoined = Unjoined'
        /\ Exiting = Exiting'
    <3>1. "Hangup" \notin Exits
      BY DEF Exits
    <3>2. QED
      BY <1>2, <2>1, <3>1, TakenTells
  <2>4. conn' /\ Stream' /\ TimesInv' /\ AtWork'
    BY <2>1, <2>2, <2>3, TakenRest DEF Gone
  <2>5. InPlace'
    <3>1. "Hangup" \notin Exits
      BY DEF Exits
    <3>2. QED
      BY <1>2, <2>1, <2>2, <3>1, PlacesKept
  <2>6. Shown(c)'
    BY <1>2, <1>3, <2>1, <2>2, <2>3 DEF Shown
  <2>7. \A d \in Calls \ {c} : Shown(d)'
    BY <1>2, <2>1, <2>2, TakenOthers
  <2>8. QED
    BY <2>4, <2>5, <2>6, <2>7 DEF Mirrors
<1>8. QED
  BY <1>4, <1>5, <1>6, <1>7 DEF Handle

-----------------------------------------------------------------------------
(* The collector carries on with a hangup or a renumbering.                *)

LEMMA HangupMirrors ==
  ASSUME TypeOK, RecordInv, Mirrors, HangupWrite(Collector)
  PROVE  Mirrors'
<1>1. /\ rows \in [Calls -> Row] /\ live \in [Calls -> LiveRow] /\ pc \in [Procs -> PcValues]
      /\ snap \in [Procs -> Snap] /\ Collector \in Procs
  BY DEF TypeOK, Procs
<1>2. PICK c : c = job[Collector].call
  OBVIOUS
<1>3. /\ pc[Collector] = "hangup" /\ c \in Calls /\ phase[c] = "gone"
  BY <1>2 DEF HangupWrite, Goes, Mirrors, AtWork
<1>4. PICK r \in Row : r = job[Collector].seen
  BY <1>2, <1>3 DEF RecordInv, HangupTrue, TypeOK
<1>5. /\ pc' = [pc EXCEPT ![Collector] = IF Exists(r) THEN "renumber" ELSE Resume(Collector)]
      /\ rows' = rows
           \/ \E cause, why : rows' = [rows EXCEPT ![c] = HangupRow(rows[c], r, cause, why)]
      /\ live' = [live EXCEPT ![c] = NoLive]
      /\ UNCHANGED <<phase, joined, clock, amiq, conn, outcome, places, snap>>
  BY <1>2, <1>4 DEF HangupWrite, Goes, SetRow, SetLive, asteriskVars
<1>6. pc'[Collector] \in {"renumber", "purge", "idle"}
      /\ (pc'[Collector] = "idle" => ~snap[Collector].on)
  BY <1>1, <1>5 DEF Resume
<1>7. /\ Joined' = Joined /\ Queued' = Queued /\ Talking' = Talking /\ LeftByLimit' = LeftByLimit
      /\ Unjoined' = Unjoined /\ Exiting' = Exiting /\ Ending' = Ending
      /\ Stream' = Stream /\ TimesInv' = TimesInv
  BY <1>5 DEF Joined, Queued, Talking, LeftByLimit, Unjoined, Exiting, Ending, Stream, TimesInv,
              Told, QueuedAt
<1>8. ASSUME NEW d \in Calls PROVE Shown(d)'
  <2>1. Shown(d)
    BY DEF Mirrors
  <2>2. CASE d = c
    <3>1. Exists(rows[c]) => Exists(rows'[c])
      <4>1. \A cause, why : Exists(HangupRow(rows[c], r, cause, why))
        BY <1>1, <1>3 DEF HangupRow, HangupStatus, Exists, Terminal, TerminalStatus, Row
      <4>2. QED
        BY <1>1, <1>3, <1>5, <4>1
    <3>2. ~OnBoard(live'[c]) /\ ~InTurn(live'[c])
      BY <1>1, <1>3, <1>5 DEF OnBoard, NoLive, InTurn
    <3>3. c \notin Queued /\ c \notin Talking
      BY <1>3 DEF Queued, Talking
    <3>4. QED
      BY <1>5, <1>7, <2>1, <2>2, <3>1, <3>2, <3>3 DEF Shown
  <2>3. CASE d # c
    <3>1. rows'[d] = rows[d] /\ live'[d] = live[d] /\ pc'[Collector] # "hangup"
      BY <1>1, <1>5, <1>6, <2>3
    <3>2. QED
      BY <1>2, <1>5, <1>7, <2>1, <2>3, <3>1 DEF Shown
  <2>4. QED
    BY <2>2, <2>3
<1>9. AtWork'
  BY <1>5, <1>6, <1>7 DEF Mirrors, AtWork
<1>10. InPlace'
  <2>1. \A d \in Queued : live'[d] = live[d]
    BY <1>1, <1>3, <1>5 DEF Queued
  <2>2. QED
    BY <1>3, <1>5, <1>7, <2>1 DEF Mirrors, InPlace
<1>11. QED
  BY <1>5, <1>7, <1>8, <1>9, <1>10 DEF Mirrors

LEMMA RenumberReadMirrors ==
  ASSUME TypeOK, Mirrors, RenumberRead(Collector)
  PROVE  Mirrors'
<1>1. /\ pc[Collector] = "renumber" /\ pc'[Collector] = "positions"
      /\ places'[Collector] \in Numberings
      /\ UNCHANGED <<phase, joined, clock, amiq, conn, outcome, rows, live, job, snap>>
  <2>1. pc \in [Procs -> PcValues] /\ Collector \in Procs /\ places \in [Procs -> [Calls -> Nat]]
    BY DEF TypeOK, Procs
  <2>2. QED
    BY <2>1 DEF RenumberRead, Goes, asteriskVars, dbVars
<1>2. /\ Joined' = Joined /\ Queued' = Queued /\ Talking' = Talking /\ LeftByLimit' = LeftByLimit
      /\ Unjoined' = Unjoined /\ Exiting' = Exiting /\ Ending' = Ending
      /\ Stream' = Stream /\ TimesInv' = TimesInv /\ Numberings' = Numberings
  BY <1>1 DEF Joined, Queued, Talking, LeftByLimit, Unjoined, Exiting, Ending, Stream, TimesInv,
              Told, QueuedAt, Numberings
<1>3. \A d \in Calls : Shown(d)'
  BY <1>1, <1>2 DEF Mirrors, Shown
<1>4. AtWork' /\ InPlace'
  BY <1>1, <1>2 DEF Mirrors, AtWork, InPlace
<1>5. QED
  BY <1>1, <1>2, <1>3, <1>4 DEF Mirrors

(* Who is numbered from 1 on without a gap is numbered by his place.       *)
LEMMA NumberIsPlace ==
  ASSUME NEW S, IsFiniteSet(S), NEW n \in [S -> 1..Cardinality(S)],
         \A c, d \in S : n[c] = n[d] => c = d, NEW c \in S
  PROVE  n[c] = Cardinality({d \in S : n[d] <= n[c]})
<1> DEFINE k == Cardinality(S)  D == {d \in S : n[d] <= n[c]}
<1>1. k \in Nat /\ IsFiniteSet(1..k) /\ Cardinality(1..k) = k
  <2>1. k \in Nat
    BY FS_CardinalityType
  <2>2. QED
    BY <2>1, FS_Interval
<1>2. n \in Injection(S, 1..k)
  BY DEF Injection, IsInjective
<1>3. n \in Surjection(S, 1..k)
  BY <1>1, <1>2, FS_Injection
<1>4. n[c] \in 1..k
  OBVIOUS
<1> DEFINE f == [d \in D |-> n[d]]
<1>5. f \in Bijection(D, 1..n[c])
  <2>1. \A d \in D : d \in S /\ n[d] \in 1..n[c]
    BY <1>1
  <2>2. \A t \in 1..n[c] : \E d \in D : n[d] = t
    <3>1. \A t \in 1..n[c] : t \in 1..k /\ t <= n[c]
      BY <1>1, <1>4
    <3>2. \A t \in 1..k : \E d \in S : n[d] = t
      BY <1>3 DEF Surjection
    <3>3. QED
      BY <3>1, <3>2
  <2>3. f \in [D -> 1..n[c]]
    BY <2>1
  <2>4. f \in Injection(D, 1..n[c])
    BY <2>1, <2>3 DEF Injection, IsInjective
  <2>5. f \in Surjection(D, 1..n[c])
    BY <2>2, <2>3 DEF Surjection
  <2>6. QED
    BY <2>4, <2>5 DEF Bijection
<1>6. Cardinality(1..n[c]) = n[c]
  BY <1>1, <1>4, FS_Interval
<1>7. IsFiniteSet(D)
  BY FS_Subset
<1>8. Cardinality(1..n[c]) = Cardinality(D)
  BY <1>5, <1>7, FS_Bijection DEF ExistsBijection
<1>9. QED
  BY <1>6, <1>8

(* Whoever's joining is still on the socket came after the known callers.  *)
LEMMA KnownBefore ==
  ASSUME TypeOK, Mirrors, NEW c \in Queued \ Unjoined, NEW d \in Unjoined
  PROVE  joined[c] < joined[d]
<1>1. amiq \in Seq(Event) /\ joined \in [Calls -> Nat] /\ c \in Calls /\ d \in Calls
  BY DEF TypeOK, AstTypeOK, Queued, Unjoined, Due
<1>2. PICK j \in 1..Len(amiq) : amiq[j].call = d /\ amiq[j].kind \in {"Join"}
  BY DEF Unjoined, Due
<1>3. Told(amiq, j)
  BY DEF Mirrors, Stream
<1>4. joined[c] > joined[d] => c \in Due(amiq, j + 1, {"Join"})
  BY <1>1, <1>2, <1>3 DEF Told
<1>5. Due(amiq, j + 1, {"Join"}) \subseteq Unjoined
  <2>1. j + 1..Len(amiq) \subseteq 1..Len(amiq)
    BY <1>1
  <2>2. QED
    BY <2>1 DEF Due, Unjoined
<1>6. d \in Joined /\ c \in Joined
  BY <1>1, <1>2, <1>3 DEF Told, EventsIn, Joined, Queued
<1>7. joined[c] # joined[d]
  BY <1>6 DEF Mirrors, TimesInv
<1>8. QED
  BY <1>1, <1>4, <1>5, <1>7

(* When nobody on the board is about to leave the queue, numbering the     *)
(* rows by their time gives every known caller his place.                  *)
LEMMA NumberedInPlace ==
  ASSUME TypeOK, JoinedInv, Mirrors, LeftByLimit = {}, Exiting = {}, NEW m \in Numberings,
         NEW c \in Queued \ Unjoined
  PROVE  m[c] > 0 /\ m[c] = Cardinality({d \in Queued \ Unjoined : joined[d] <= joined[c]})
<1> DEFINE S == {d \in Calls : InTurn(live[d])}  known == Queued \ Unjoined
<1>1. /\ m \in [Calls -> 0..Cardinality(S)]
      /\ \A d \in Calls : m[d] = 0 <=> d \notin S
      /\ \A d, b \in S : /\ d # b => m[d] # m[b]
                         /\ live[d].start < live[b].start => m[d] < m[b]
  BY DEF Numberings, InTurn
<1>2. IsFiniteSet(S) /\ Cardinality(S) \in Nat
  BY CallsAssumption, FS_Subset, FS_CardinalityType
<1>3. live \in [Calls -> LiveRow] /\ joined \in [Calls -> Nat] /\ known \subseteq Calls
  BY DEF TypeOK, AstTypeOK, Queued
<1>4. \A d \in known : d \in S /\ live[d].start = joined[d] /\ d \in Joined
  BY <1>3 DEF Mirrors, Shown, Queued, Joined
<1>5. \A d \in S \ known : d \in Unjoined
  <2>1. SUFFICES ASSUME NEW d \in S, d \notin Unjoined PROVE d \in Queued
    OBVIOUS
  <2>2. d \in Joined
    BY DEF JoinedInv, Unheard, InTurn, NoLive
  <2>3. QED
    BY <2>1, <2>2 DEF Mirrors, Shown
<1>6. \A d \in S \ known : joined[d] <= live[d].start /\ joined[c] < joined[d]
  BY <1>5, KnownBefore DEF Mirrors, Shown, OnBoard, InTurn
<1>7. \A d \in S : m[d] \in 1..Cardinality(S)
  BY <1>1, <1>2
<1>8. {d \in S : m[d] <= m[c]} = {d \in known : joined[d] <= joined[c]}
  <2>1. ASSUME NEW d \in known PROVE m[d] <= m[c] <=> joined[d] <= joined[c]
    <3>1. joined[d] = joined[c] => d = c
      BY <1>4 DEF Mirrors, TimesInv
    <3>2. /\ joined[d] < joined[c] => m[d] < m[c]
          /\ joined[c] < joined[d] => m[c] < m[d]
      BY <1>1, <1>4
    <3>3. m[d] \in Nat /\ m[c] \in Nat /\ joined[d] \in Nat /\ joined[c] \in Nat
      BY <1>2, <1>3, <1>4, <1>7
    <3>4. QED
      BY <3>1, <3>2, <3>3
  <2>2. ASSUME NEW d \in S \ known PROVE ~(m[d] <= m[c])
    <3>1. live[c].start < live[d].start
      <4>1. live[d].start \in Nat /\ joined[d] \in Nat /\ joined[c] \in Nat
        BY <1>3 DEF LiveRow
      <4>2. QED
        BY <1>4, <1>6, <4>1
    <3>2. m[c] < m[d]
      BY <1>1, <1>4, <3>1
    <3>3. QED
      BY <1>2, <1>4, <1>7, <3>2
  <2>3. QED
    BY <1>4, <2>1, <2>2
<1> DEFINE n == [d \in S |-> m[d]]
<1>9. n[c] = Cardinality({d \in S : n[d] <= n[c]})
  <2>1. n \in [S -> 1..Cardinality(S)] /\ c \in S /\ \A d, b \in S : n[d] = n[b] => d = b
    BY <1>1, <1>4, <1>7
  <2> HIDE DEF n, S
  <2>2. QED
    BY <1>2, <2>1, NumberIsPlace
<1>10. {d \in S : n[d] <= n[c]} = {d \in S : m[d] <= m[c]} /\ n[c] = m[c] /\ c \in S
  BY <1>4
<1>11. m[c] > 0
  BY <1>2, <1>7, <1>10
<1>12. n[c] = Cardinality({d \in known : joined[d] <= joined[c]})
  <2> HIDE DEF n, S, known
  <2>1. QED
    BY <1>8, <1>9, <1>10
<1>13. QED
  <2> HIDE DEF n, S
  <2>1. QED
    BY <1>10, <1>11, <1>12

LEMMA RenumberWriteMirrors ==
  ASSUME TypeOK, JoinedInv, Mirrors, RenumberWrite(Collector)
  PROVE  Mirrors'
<1>1. /\ live \in [Calls -> LiveRow] /\ pc \in [Procs -> PcValues] /\ snap \in [Procs -> Snap]
      /\ Collector \in Procs
  BY DEF TypeOK, Procs
<1>2. PICK m : m = places[Collector]
  OBVIOUS
<1>3. /\ pc[Collector] = "positions" /\ pc'[Collector] \in {"purge", "idle"}
      /\ (pc'[Collector] = "idle" => ~snap[Collector].on)
      /\ m \in Numberings
      /\ live' = [c \in Calls |-> IF m[c] > 0 /\ OnBoard(live[c])
                                    THEN [live[c] EXCEPT !.pos = m[c]] ELSE live[c]]
      /\ UNCHANGED <<phase, joined, clock, amiq, conn, outcome, rows, job, snap>>
  BY <1>1, <1>2 DEF RenumberWrite, Goes, Resume, asteriskVars, Mirrors, AtWork
<1>4. \A c \in Calls : live'[c].state = live[c].state /\ live'[c].start = live[c].start
  BY <1>1, <1>3 DEF LiveRow
<1>5. /\ Joined' = Joined /\ Queued' = Queued /\ Talking' = Talking /\ LeftByLimit' = LeftByLimit
      /\ Unjoined' = Unjoined /\ Exiting' = Exiting /\ Ending' = Ending
      /\ Stream' = Stream /\ TimesInv' = TimesInv
  BY <1>3 DEF Joined, Queued, Talking, LeftByLimit, Unjoined, Exiting, Ending, Stream, TimesInv,
              Told, QueuedAt
<1>6. \A d \in Calls : Shown(d)'
  BY <1>3, <1>4, <1>5 DEF Mirrors, Shown, OnBoard, InTurn
<1>7. AtWork'
  BY <1>3, <1>5 DEF Mirrors, AtWork
<1>8. InPlace'
  <2>1. SUFFICES ASSUME LeftByLimit = {}, Exiting = {}, NEW c \in Queued \ Unjoined
                 PROVE  live'[c].pos
                          = Cardinality({d \in Queued \ Unjoined : joined[d] <= joined[c]})
    BY <1>3, <1>5 DEF InPlace
  <2>2. m[c] > 0 /\ m[c] = Cardinality({d \in Queued \ Unjoined : joined[d] <= joined[c]})
    BY <1>3, <2>1, NumberedInPlace
  <2>3. c \in Calls /\ OnBoard(live[c])
    BY DEF Queued, Mirrors, Shown
  <2>4. live'[c].pos = m[c]
    BY <1>1, <1>3, <2>2, <2>3 DEF LiveRow
  <2>5. QED
    BY <2>2, <2>4
<1>9. QED
  BY <1>3, <1>5, <1>6, <1>7, <1>8 DEF Mirrors

-----------------------------------------------------------------------------
(* The collector reconciles.                                               *)

(* What is known of a caller whose joining is still on the socket.         *)
LEMMA UnjoinedTells ==
  ASSUME TypeOK, RecordInv, Stream, NEW d \in Unjoined
  PROVE  (d \in Talking => d \in Exiting) /\ (phase[d] = "gone" => d \in Ending)
<1>1. amiq \in Seq(Event) /\ d \in Calls
  BY DEF TypeOK, AstTypeOK, Unjoined, Due
<1>2. PICK j \in 1..Len(amiq) : amiq[j].call = d /\ amiq[j].kind = "Join"
  BY DEF Unjoined, Due
<1>3. Told(amiq, j)
  BY DEF Stream
<1>4. \A ks : /\ Due(amiq, j + 1, ks) \subseteq Due(amiq, 1, ks)
              /\ Due(amiq, j, ks) \subseteq Due(amiq, 1, ks)
  <2>1. j + 1..Len(amiq) \subseteq 1..Len(amiq) /\ j..Len(amiq) \subseteq 1..Len(amiq)
    BY <1>1
  <2>2. QED
    BY <2>1 DEF Due
<1>5. d \in Talking => d \notin Queued /\ d \notin LeftByLimit
  BY DEF Talking, Queued, LeftByLimit, RecordInv, LinesTrue
<1>6. QED
  BY <1>2, <1>3, <1>4, <1>5 DEF Told, Exiting, Ending

(* A transaction of the collector, as the exchange and the socket see it.  *)
Apart == UNCHANGED <<phase, joined, clock, amiq, conn, outcome>>

LEMMA ApartKeeps ==
  ASSUME Apart
  PROVE  /\ Joined' = Joined /\ Queued' = Queued /\ Talking' = Talking /\ LeftByLimit' = LeftByLimit
         /\ Unjoined' = Unjoined /\ Exiting' = Exiting /\ Ending' = Ending
         /\ Stream' = Stream /\ TimesInv' = TimesInv /\ conn' = conn
BY DEF Apart, Joined, Queued, Talking, LeftByLimit, Unjoined, Exiting, Ending, Stream, TimesInv,
       Told, QueuedAt

LEMMA StartMirrors ==
  ASSUME TypeOK, FinalInv, RecordInv, Mirrors, ReconcileStart(Collector), drops' = 0
  PROVE  Mirrors'
<1>1. /\ rows \in [Calls -> Row] /\ live \in [Calls -> LiveRow] /\ pc \in [Procs -> PcValues]
      /\ snap \in [Procs -> Snap] /\ Collector \in Procs /\ unread \in [Calls -> SUBSET LogLines]
      /\ phase \in [Calls -> Phases]
  BY DEF TypeOK, AstTypeOK, Procs
<1>2. /\ pc[Collector] = "idle" /\ pc'[Collector] = "channels" /\ Apart
      /\ snap'[Collector] = [snap[Collector] EXCEPT !.on = TRUE]
      /\ \A c \in Calls : rows'[c] = ImportRow(rows[c], unread[c])
                          /\ live'[c] = ImportLive(live[c], unread[c])
  BY <1>1, StartParts DEF Goes, ImportTables, Apart
<1>3. /\ Joined' = Joined /\ Queued' = Queued /\ Talking' = Talking /\ LeftByLimit' = LeftByLimit
      /\ Unjoined' = Unjoined /\ Exiting' = Exiting /\ Ending' = Ending
      /\ Stream' = Stream /\ TimesInv' = TimesInv /\ conn' = conn
  BY <1>2, ApartKeeps
<1>4. ASSUME NEW c \in Calls
      PROVE  /\ Exists(rows[c]) => Exists(rows'[c])
             /\ \/ live'[c] = NoLive /\ phase[c] \in {"out", "gone"}
                \/ live'[c] = AnswerLive(live[c]) /\ phase[c] = "talking"
                \/ live'[c] = live[c]
  <2>1. rows[c] \in Row /\ unread[c] \subseteq LogLines
    BY <1>1
  <2>2. Exists(rows[c]) => Exists(rows'[c])
    <3>1. Exists(rows[c]) => Exists(LogEnterRow(rows[c])) /\ LogEnterRow(rows[c]) \in Row
      BY <2>1 DEF Exists, LogEnterRow, Row, OpenStatus
    <3>2. \A r \in Row : Exists(r) => Exists(AnswerRow(r)) /\ AnswerRow(r) \in Row
      BY DEF Exists, AnswerRow, Row, TerminalStatus
    <3>3. \A r \in Row, line \in LogExits : Exists(r) => Exists(LogExitRow(r, line))
      <4>1. ASSUME NEW r \in Row, NEW line \in LogExits, Exists(r) PROVE Exists(LogExitRow(r, line))
        <5>1. ExitStatus(line) \in TerminalStatus
          BY ExitStatusTerminal
        <5>2. QED
          BY <4>1, <5>1 DEF Exists, LogExitRow, Row, TerminalStatus
      <4>2. QED
        BY <4>1
    <3> DEFINE entered == IF "ENTERQUEUE" \in unread[c] THEN LogEnterRow(rows[c]) ELSE rows[c]
               taken   == IF "CONNECT" \in unread[c] THEN AnswerRow(entered) ELSE entered
               line    == CHOOSE e \in LogExits : e \in unread[c]
    <3>4. Exists(rows[c]) => Exists(entered) /\ entered \in Row
      BY <2>1, <3>1
    <3>5. Exists(rows[c]) => Exists(taken) /\ taken \in Row
      BY <3>2, <3>4
    <3>6. unread[c] \cap LogExits # {} => line \in LogExits
      OBVIOUS
    <3>7. rows'[c] = IF unread[c] \cap LogExits = {} THEN taken ELSE LogExitRow(taken, line)
      BY <1>2 DEF ImportRow
    <3> HIDE DEF entered, taken, line
    <3>8. QED
      BY <3>3, <3>5, <3>6, <3>7
  <2>3. LinesTrue(c)
    BY DEF RecordInv
  <2>4. CASE unread[c] \cap LogExits # {}
    <3>1. PICK line \in LogExits : line \in unread[c]
      BY <2>4
    <3>2. outcome[c] = ExitStatus(line) /\ ExitStatus(line) \in TerminalStatus
      BY <2>3, <3>1, ExitStatusTerminal DEF LinesTrue
    <3>3. outcome[c] # "none"
      BY <3>2 DEF TerminalStatus
    <3>4. phase[c] \in {"out", "gone"}
      BY <1>1, <2>3, <3>3 DEF LinesTrue, Phases
    <3>5. live'[c] = NoLive
      BY <1>2, <2>4 DEF ImportLive
    <3>6. QED
      BY <2>2, <3>4, <3>5
  <2>5. CASE unread[c] \cap LogExits = {} /\ "CONNECT" \in unread[c]
    <3>1. Connected(c) /\ outcome[c] = "none"
      BY <2>3, <2>5 DEF FinalInv, ToldInv, LinesTrue
    <3>2. phase[c] = "talking"
      BY <3>1 DEF Connected
    <3>3. live'[c] = AnswerLive(live[c])
      BY <1>2, <2>5 DEF ImportLive
    <3>4. QED
      BY <2>2, <3>2, <3>3
  <2>6. CASE unread[c] \cap LogExits = {} /\ "CONNECT" \notin unread[c]
    BY <1>2, <2>2, <2>6 DEF ImportLive
  <2>7. QED
    BY <2>4, <2>5, <2>6
<1>5. ASSUME NEW c \in Calls PROVE Shown(c)'
  <2>1. Shown(c) /\ phase' = phase /\ joined' = joined
    BY <1>2 DEF Mirrors, Apart
  <2>2. /\ c \in Queued <=> phase[c] \in {"waiting", "ringing"}
        /\ c \in Talking <=> phase[c] = "talking"
    BY DEF Queued, Talking
  <2>3. CASE live'[c] = NoLive /\ phase[c] \in {"out", "gone"}
    BY <1>3, <1>4, <2>1, <2>2, <2>3 DEF Shown, OnBoard, InTurn, NoLive
  <2>4. CASE live'[c] = AnswerLive(live[c]) /\ phase[c] = "talking"
    <3>1. /\ OnBoard(live[c]) => live'[c].state = "TALKING" /\ live'[c].start = live[c].start
          /\ ~OnBoard(live[c]) => live'[c] = live[c]
      BY <1>1, <2>4 DEF AnswerLive, OnBoard, LiveRow
    <3>2. QED
      BY <1>3, <1>4, <2>1, <2>2, <2>4, <3>1 DEF Shown, OnBoard, InTurn
  <2>5. CASE live'[c] = live[c]
    BY <1>2, <1>3, <1>4, <2>1, <2>5 DEF Shown
  <2>6. QED
    BY <1>4, <2>3, <2>4, <2>5
<1>6. AtWork'
  <2>1. /\ snap'[Collector].missing = snap[Collector].missing
        /\ snap'[Collector].on
    BY <1>1, <1>2 DEF Snap
  <2>2. QED
    BY <1>2, <1>3, <2>1 DEF Mirrors, AtWork
<1>7. InPlace'
  <2>1. \A c \in Queued : live'[c] = live[c]
    BY <1>4 DEF Queued
  <2>2. joined' = joined
    BY <1>2 DEF Apart
  <2>3. QED
    BY <1>2, <1>3, <2>1, <2>2 DEF Mirrors, InPlace
<1>8. QED
  BY <1>3, <1>5, <1>6, <1>7 DEF Mirrors

(* The steps that only look.                                               *)
LEMMA LooksMirrors ==
  ASSUME TypeOK, Mirrors, Apart, UNCHANGED <<rows, live>>, AtWork',
         pc[Collector] \notin {"hangup", "renumber", "positions"},
         pc'[Collector] \in {"idle", "queue show", "scan", "purge", "hangup"},
         pc'[Collector] = "hangup" => job'[Collector].call \in Gone
  PROVE  Mirrors'
<1>1. /\ Joined' = Joined /\ Queued' = Queued /\ Talking' = Talking /\ LeftByLimit' = LeftByLimit
      /\ Unjoined' = Unjoined /\ Exiting' = Exiting /\ Ending' = Ending
      /\ Stream' = Stream /\ TimesInv' = TimesInv /\ conn' = conn
      /\ joined' = joined /\ phase' = phase
  BY ApartKeeps DEF Apart
<1>2. \A c \in Calls : Shown(c)'
  BY <1>1 DEF Mirrors, Shown
<1>3. InPlace'
  BY <1>1 DEF Mirrors, InPlace
<1>4. QED
  BY <1>1, <1>2, <1>3 DEF Mirrors

LEMMA RecoverMirrors ==
  ASSUME TypeOK, JoinedInv, RecordInv, Mirrors, ReconcileRecover(Collector)
  PROVE  Mirrors'
<1>1. /\ rows \in [Calls -> Row] /\ live \in [Calls -> LiveRow] /\ pc \in [Procs -> PcValues]
      /\ snap \in [Procs -> Snap] /\ Collector \in Procs
  BY DEF TypeOK, Procs
<1>2. PICK missing : missing = snap[Collector].missing
  OBVIOUS
<1>3. /\ pc'[Collector] = "renumber" /\ Apart /\ snap'[Collector] = NoSnap
      /\ pc[Collector] = "purge"
      /\ \A c \in Calls : /\ c \in missing => live'[c] = EnterLive(NoLive, 1, clock)
                          /\ c \notin missing => rows'[c] = rows[c] /\ live'[c] = live[c]
  BY <1>1, <1>2 DEF ReconcileRecover, Goes, asteriskVars, Apart
<1>4. /\ Joined' = Joined /\ Queued' = Queued /\ Talking' = Talking /\ LeftByLimit' = LeftByLimit
      /\ Unjoined' = Unjoined /\ Exiting' = Exiting /\ Ending' = Ending
      /\ Stream' = Stream /\ TimesInv' = TimesInv /\ conn' = conn
      /\ joined' = joined /\ phase' = phase
  BY <1>3, ApartKeeps DEF Apart
<1>5. missing \subseteq Unjoined
  BY <1>2 DEF Mirrors, AtWork
<1>6. ASSUME NEW c \in Calls PROVE Shown(c)'
  <2>1. CASE c \in missing
    <3>1. c \in Unjoined /\ (c \in Talking => c \in Exiting) /\ (phase[c] = "gone" => c \in Ending)
      BY <1>5, <2>1, UnjoinedTells DEF Mirrors
    <3>2. live'[c].start = clock /\ joined[c] <= clock
      BY <1>3, <2>1 DEF EnterLive, Mirrors, TimesInv
    <3>3. QED
      BY <1>4, <3>1, <3>2 DEF Shown
  <2>2. CASE c \notin missing
    BY <1>3, <1>4, <2>2 DEF Mirrors, Shown
  <2>3. QED
    BY <2>1, <2>2
<1>7. AtWork' /\ InPlace'
  BY <1>3, <1>4 DEF AtWork, InPlace, NoSnap
<1>8. QED
  BY <1>4, <1>6, <1>7 DEF Mirrors

LEMMA ReconcileMirrors ==
  ASSUME ~AgentsLeave, TypeOK, FinalInv, JoinedInv, GhostInv, RecordInv, Mirrors,
         Reconcile(Collector), drops = 0, drops' = 0
  PROVE  Mirrors'
<1>1. /\ live \in [Calls -> LiveRow] /\ pc \in [Procs -> PcValues] /\ snap \in [Procs -> Snap]
      /\ job \in [Procs -> Job] /\ Collector \in Procs
  BY DEF TypeOK, Procs
<1>2. AtWork
  BY DEF Mirrors
<1>3. CASE ReconcileGivesUp(Collector)
  <2>1. /\ pc[Collector] = "channels" /\ pc'[Collector] = "idle" /\ Apart
        /\ UNCHANGED <<rows, live>> /\ snap'[Collector] = NoSnap
    BY <1>1, <1>3 DEF ReconcileGivesUp, Goes, asteriskVars, dbVars, Apart
  <2>2. AtWork'
    BY <2>1 DEF AtWork, NoSnap
  <2>3. QED
    BY <2>1, <2>2, LooksMirrors
<1>4. CASE ReconcileChannels(Collector)
  <2>1. PICK seen : snap' = [snap EXCEPT ![Collector].active = seen]
    BY <1>4 DEF ReconcileChannels
  <2>2. /\ pc[Collector] = "channels" /\ pc'[Collector] = "queue show" /\ Apart
        /\ UNCHANGED <<rows, live>>
    BY <1>1, <1>4, ListsParts DEF ReconcileChannels, Goes, dbVars, Apart
  <2>3. /\ snap'[Collector].on = snap[Collector].on
        /\ snap'[Collector].missing = snap[Collector].missing
    BY <1>1, <2>1 DEF Snap
  <2>4. AtWork'
    BY <1>2, <2>2, <2>3, ApartKeeps DEF AtWork
  <2>5. QED
    BY <2>2, <2>4, LooksMirrors
<1>5. CASE ReconcileQueueShow(Collector)
  <2>0. PICK seen \in {Queued, {}} :
          Lists(Queued, seen) /\ snap' = [snap EXCEPT ![Collector].waiting = seen]
    BY <1>5 DEF ReconcileQueueShow
  <2>1. /\ snap' = [snap EXCEPT ![Collector].waiting = Queued]
        /\ UNCHANGED asteriskVars
    BY <2>0 DEF Lists, Fails
  <2>2. /\ pc[Collector] = "queue show" /\ pc'[Collector] = "scan" /\ Apart
        /\ UNCHANGED <<rows, live>>
        /\ snap'[Collector].on = snap[Collector].on
        /\ snap'[Collector].missing = snap[Collector].missing
        /\ snap'[Collector].waiting = Queued
    BY <1>1, <1>5, <2>1 DEF ReconcileQueueShow, Goes, dbVars, Apart, Snap, asteriskVars
  <2>3. Queued \ Unjoined \subseteq Board /\ Board' = Board
    BY <2>2 DEF Mirrors, Shown, Board, Queued
  <2>4. AtWork'
    BY <1>2, <2>2, <2>3, ApartKeeps DEF AtWork
  <2>5. QED
    BY <2>2, <2>4, LooksMirrors
<1>6. CASE ReconcileScan(Collector)
  <2>1. /\ live' = [c \in Calls |-> live[c]]
        /\ snap'[Collector].on
        /\ snap'[Collector].missing =
             (snap[Collector].waiting \cap snap[Collector].active) \ Board
    BY <1>1, <1>6 DEF ReconcileScan, NoSnap
  <2>2. live' = live
    BY <1>1, <2>1
  <2>3. /\ pc[Collector] = "scan" /\ pc'[Collector] = "purge" /\ Apart /\ rows' = rows
    BY <1>1, <1>6 DEF ReconcileScan, Goes, asteriskVars, Apart
  <2>4. snap'[Collector].missing \subseteq Unjoined
    BY <1>2, <2>1, <2>3 DEF AtWork
  <2>5. AtWork'
    BY <2>1, <2>3, <2>4, ApartKeeps DEF AtWork
  <2>6. QED
    BY <2>2, <2>3, <2>5, LooksMirrors
<1>7. CASE ReconcilePurge(Collector)
  <2>1. PICK c \in snap[Collector].ghosts :
          /\ snap' = [snap EXCEPT ![Collector].ghosts = @ \ {c}]
          /\ job' = [job EXCEPT ![Collector] = [call |-> c, seen |-> rows[c],
                                                cause |-> "other", reason |-> "ghost"]]
    BY <1>7 DEF ReconcilePurge
  <2>2. /\ pc[Collector] = "purge" /\ pc'[Collector] = "hangup" /\ Apart
        /\ UNCHANGED <<rows, live>>
        /\ snap'[Collector].on = snap[Collector].on
        /\ snap'[Collector].missing = snap[Collector].missing
        /\ job'[Collector].call = c
    BY <1>1, <1>7, <2>1 DEF ReconcilePurge, Goes, asteriskVars, dbVars, Apart, Snap
  <2>3. c \in Gone /\ Gone' = Gone
    BY <2>1, <2>2 DEF GhostInv, Gone, Apart
  <2>4. AtWork'
    BY <1>2, <2>2, <2>3, ApartKeeps DEF AtWork, Gone
  <2>5. QED
    BY <2>2, <2>3, <2>4, LooksMirrors
<1>8. QED
  BY <1>3, <1>4, <1>5, <1>6, <1>7, StartMirrors, RecoverMirrors DEF Reconcile

-----------------------------------------------------------------------------
(* Every step, as long as no event is lost.                                *)

LEMMA InitMirrors == Init => MirrorInv
<1> SUFFICES ASSUME Init PROVE Mirrors
  BY DEF MirrorInv
<1>1. /\ amiq = <<>> /\ conn /\ clock = 0 /\ pc[Collector] = "idle" /\ snap[Collector] = NoSnap
      /\ \A c \in Calls : /\ phase[c] = "new" /\ joined[c] = 0
                          /\ rows[c] = NoRow /\ live[c] = NoLive
  BY DEF Init, AstInit, Procs
<1>2. Joined = {} /\ Queued = {} /\ Talking = {}
  BY <1>1 DEF Joined, Queued, Talking
<1>3. Stream /\ \A ks : Due(amiq, 1, ks) = {}
  BY <1>1 DEF Stream, Due
<1>4. TimesInv
  BY <1>1, <1>2 DEF TimesInv
<1>5. \A c \in Calls : Shown(c)
  BY <1>1, <1>2, <1>3 DEF Shown, Unjoined, OnBoard, NoLive
<1>6. AtWork /\ InPlace
  BY <1>1, <1>2 DEF AtWork, InPlace, NoSnap
<1>7. QED
  BY <1>1, <1>3, <1>4, <1>5, <1>6 DEF Mirrors

LEMMA StepMirrors ==
  ASSUME Web = {}, ~AgentsLeave, TypeOK, FinalInv, JoinedInv, GhostsGone, RecordInv,
         MirrorInv, [Next]_vars
  PROVE  MirrorInv'
<1>1. SUFFICES ASSUME drops' = 0 PROVE Mirrors'
  BY DEF MirrorInv
<1>2. drops \in Nat /\ Procs = {Collector}
  BY DEF TypeOK, AstTypeOK, Procs
<1>3. ~(ConnectionBreaks \/ CollectorRestarts \/ PeriodicSyncTearsEvent)
  BY <1>1, <1>2 DEF ConnectionBreaks, CollectorRestarts, PeriodicSyncTearsEvent
<1>4. drops = 0 /\ GhostInv
  BY <1>1, NoLossBefore DEF GhostsGone
<1>5. Mirrors
  BY <1>4 DEF MirrorInv
<1>6. CASE AsteriskStep
  BY <1>3, <1>5, <1>6, CallMirrors DEF AsteriskStep
<1>7. CASE Handle
  BY <1>5, <1>7, HandleMirrors
<1>8. ~(QueueStatus \/ Reconnect \/ ResyncEntry \/ ResyncDone)
  BY <1>5 DEF QueueStatus, Reconnect, ResyncEntry, ResyncDone, Goes, Mirrors, AtWork
<1>9. CASE Reconcile(Collector)
  BY <1>1, <1>4, <1>5, <1>9, ReconcileMirrors
<1>10. CASE Continue(Collector)
  BY <1>4, <1>5, <1>10, HangupMirrors, RenumberReadMirrors, RenumberWriteMirrors DEF Continue
<1>11. CASE UNCHANGED vars
  <2>1. /\ Apart /\ UNCHANGED <<rows, live, pc, job, places, snap>>
    BY <1>11 DEF vars, asteriskVars, dbVars, procVars, Apart
  <2>2. Board' = Board /\ Numberings' = Numberings
    BY <2>1 DEF Board, Numberings
  <2>3. QED
    BY <1>5, <2>1, <2>2, ApartKeeps DEF Mirrors, Shown, AtWork, InPlace, Apart
<1>12. QED
  BY <1>2, <1>3, <1>6, <1>7, <1>8, <1>9, <1>10, <1>11 DEF Next

(* Nothing is on the socket: the board is what the exchange has.           *)
LEMMA QuietMirrors ==
  ASSUME TypeOK, JoinedInv, RecordInv, MirrorInv
  PROVE  BoardMirrors
<1>1. SUFFICES ASSUME NothingPending, drops = 0
      PROVE  /\ Board \ LeftByLimit = Queued \cup Talking
             /\ Board \cap LeftByLimit \subseteq Alive
             /\ \A c \in Board \ LeftByLimit : live[c].state = "TALKING" <=> phase[c] = "talking"
             /\ LeftByLimit = {} => \A c \in Queued : live[c].pos = Place(c)
  BY DEF BoardMirrors, Talking
<1>2. Mirrors /\ pc[Collector] = "idle"
  BY <1>1 DEF MirrorInv, NothingPending, Procs
<1>3. Unjoined = {} /\ Exiting = {} /\ Ending = {}
  BY <1>1 DEF NothingPending, Unjoined, Exiting, Ending, Due
<1>4. /\ phase \in [Calls -> Phases] /\ live \in [Calls -> LiveRow]
      /\ Queued \subseteq Joined /\ Talking \subseteq Joined /\ Joined \subseteq Calls
  BY DEF TypeOK, AstTypeOK, Queued, Talking, Joined
<1>5. \A c \in Queued \cup Talking : c \in Calls /\ c \notin LeftByLimit
  BY DEF Queued, Talking, LeftByLimit, RecordInv, LinesTrue
<1>6. \A c \in Calls : OnBoard(live[c]) => c \in Joined /\ phase[c] # "gone"
  BY <1>2, <1>3 DEF Mirrors, Shown, JoinedInv, Unheard, OnBoard, NoLive
<1>7. ASSUME NEW c \in Calls, OnBoard(live[c]), c \notin LeftByLimit
      PROVE  c \in Queued \cup Talking
  <2>1. phase[c] \in {"waiting", "ringing", "talking", "out"}
    BY <1>4, <1>6, <1>7 DEF Phases, Joined
  <2>2. phase[c] # "out"
    BY <1>2, <1>7 DEF Mirrors, TimesInv
  <2>3. QED
    BY <2>1, <2>2 DEF Queued, Talking
<1>8. \A c \in Queued \cup Talking : OnBoard(live[c])
  BY <1>2, <1>3, <1>5 DEF Mirrors, Shown
<1>9. Board \ LeftByLimit = Queued \cup Talking
  BY <1>5, <1>7, <1>8 DEF Board
<1>10. Board \cap LeftByLimit \subseteq Alive
  BY <1>6 DEF Board, Alive, Joined
<1>11. ASSUME NEW c \in Board \ LeftByLimit
       PROVE  live[c].state = "TALKING" <=> phase[c] = "talking"
  <2>1. c \in Queued \/ c \in Talking
    BY <1>9
  <2>2. c \in Queued => InTurn(live[c]) /\ phase[c] # "talking"
    BY <1>2, <1>3 DEF Mirrors, Shown, Queued
  <2>3. c \in Talking => live[c].state = "TALKING" /\ phase[c] = "talking"
    BY <1>2, <1>3 DEF Mirrors, Shown, Talking
  <2>4. QED
    BY <2>1, <2>2, <2>3 DEF InTurn
<1>12. ASSUME LeftByLimit = {}, NEW c \in Queued PROVE live[c].pos = Place(c)
  <2>1. Queued \ Unjoined = Queued
    BY <1>3
  <2>2. QED
    BY <1>2, <1>3, <1>12, <2>1 DEF Mirrors, InPlace, Place
<1>13. QED
  BY <1>9, <1>10, <1>11, <1>12

(* As long as the collector lost no event and no import and no command of  *)
(* the exchange failed, whenever everything told has been handled the wallboard shows    *)
(* exactly the callers who are in the queue or talking, each in his state  *)
(* and in his place (the handlers of rcm_queue_collector.py, db_call_* and *)
(* db_reindex_queue_positions, next to the reconciliations that run on     *)
(* lists and rows read earlier).                                           *)
THEOREM BoardShowsQueue ==
  ASSUME Web = {}, ~AgentsLeave
  PROVE  Spec => []BoardMirrors
<1>1. TypeOK /\ FinalInv /\ JoinedInv /\ GhostsGone /\ RecordInv /\ MirrorInv /\ [Next]_vars
        => MirrorInv'
  BY StepMirrors
<1>2. TypeOK /\ JoinedInv /\ RecordInv /\ MirrorInv => BoardMirrors
  BY QuietMirrors
<1>3. Spec => []FinalInv
  <2>1. TypeOK /\ FinalInv /\ [Next]_vars => FinalInv'
    BY StepFinal
  <2>2. QED
    BY <2>1, InitFinal, TypeCorrect, PTL DEF Spec
<1>4. Spec => []GhostsGone
  BY GhostsStayGone
<1>5. Spec => []RecordInv
  <2>1. TypeOK /\ FinalInv /\ JoinedInv /\ RecordInv /\ [Next]_vars => RecordInv'
    BY StepRecord
  <2>2. QED
    BY <1>3, <2>1, InitRecord, JoinedFirst, TypeCorrect, PTL DEF Spec
<1>6. QED
  BY <1>1, <1>2, <1>3, <1>4, <1>5, InitMirrors, JoinedFirst, TypeCorrect, PTL DEF Spec
=============================================================================
