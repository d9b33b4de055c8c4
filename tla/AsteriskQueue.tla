---------------------------- MODULE AsteriskQueue ----------------------------
(***************************************************************************)
(* External: the telephone exchange, as far as the code in src/ depends on *)
(* it.  Callers join one queue, ring an agent, talk, give up, run into the *)
(* queue's time limit and hang up.  Each step is told to this system in    *)
(* two ways that are not synchronised with each other: as manager (AMI)    *)
(* events on a socket, and as lines of the file queue_log.                 *)
(*                                                                         *)
(* The socket is a FIFO that may break.  What is emitted while nobody is   *)
(* connected is lost; a break may also lose a suffix of what was sent.     *)
(***************************************************************************)
EXTENDS Naturals, Sequences, FiniteSets, QueueRows

CONSTANTS
  Calls,        (* uniqueids of the caller channels *)
  QueueExits,   (* how the queue is configured to end a wait *)
  MaxStream,    (* bound: events waiting on the socket *)
  MaxDrops      (* bound: how often events are lost, or a step fails *)

ASSUME CallsAssumption == IsFiniteSet(Calls)
ASSUME ExitsAssumption ==
  QueueExits \subseteq {"EXITWITHTIMEOUT", "EXITEMPTY", "EXITWITHKEY"}
ASSUME MaxStreamAssumption == MaxStream \in Nat \ {0}
ASSUME MaxDropsAssumption  == MaxDrops \in Nat

VARIABLES
  phase,     (* what the exchange is doing with the call *)
  joined,    (* when the call joined the queue: the order of the queue *)
  clock,     (* the time of the latest join *)
  amiq,      (* events sent and not yet read by the collector *)
  conn,      (* is the collector connected? *)
  drops,     (* how often events were lost, or a step failed *)
  unread,    (* lines of queue_log not yet imported, per call *)
  outcome    (* how the call really left the queue *)

asteriskVars == <<phase, joined, clock, amiq, conn, drops, unread, outcome>>

Phases  == {"new", "waiting", "ringing", "talking", "out", "gone"}
Queued  == {c \in Calls : phase[c] \in {"waiting", "ringing"}}
Alive   == {c \in Calls : phase[c] \notin {"new", "gone"}}

(* Place of a queued call, counted from 1 at the front.                    *)
Place(c) == Cardinality({d \in Queued : joined[d] <= joined[c]})

EventKinds == {"Join", "Called", "Connect", "Abandon", "Hangup"}
Causes     == {"other", "no answer"}
Event == [kind : EventKinds, call : Calls, pos : Nat, at : Nat, cause : Causes]

Ev(kind, c)      == [kind |-> kind, call |-> c, pos |-> 0, at |-> 0, cause |-> "other"]
HangupEv(c, why) == [Ev("Hangup", c) EXCEPT !.cause = why]

(* Everything is emitted at once, or lost when nobody is connected.        *)
Emit(evs) ==
  /\ Len(amiq) + Len(evs) <= MaxStream
  /\ amiq' = IF conn THEN amiq \o evs ELSE amiq

Log(c, line) == unread' = [unread EXCEPT ![c] = @ \cup {line}]

Moves(c, from, to) ==
  /\ phase[c] \in from
  /\ phase' = [phase EXCEPT ![c] = to]

AstInit ==
  /\ phase   = [c \in Calls |-> "new"]
  /\ joined  = [c \in Calls |-> 0]
  /\ clock   = 0
  /\ amiq    = <<>>
  /\ conn    = TRUE
  /\ drops   = 0
  /\ unread  = [c \in Calls |-> {}]
  /\ outcome = [c \in Calls |-> "none"]

Join(c) ==
  /\ Moves(c, {"new"}, "waiting")
  /\ clock' = clock + 1
  /\ joined' = [joined EXCEPT ![c] = clock']
  /\ Emit(<<[Ev("Join", c) EXCEPT !.pos = Cardinality(Queued) + 1, !.at = clock']>>)
  /\ Log(c, "ENTERQUEUE")
  /\ UNCHANGED <<conn, drops, outcome>>

CallAgent(c) ==
  /\ Moves(c, {"waiting"}, "ringing")
  /\ Emit(<<Ev("Called", c)>>)
  /\ UNCHANGED <<joined, clock, conn, drops, unread, outcome>>

(* The attempt ends; the line it writes is the subject of QueueLogSync.    *)
AgentRingsOut(c) ==
  /\ Moves(c, {"ringing"}, "waiting")
  /\ UNCHANGED <<joined, clock, amiq, conn, drops, unread, outcome>>

Connect(c) ==
  /\ Moves(c, {"ringing"}, "talking")
  /\ Emit(<<Ev("Connect", c)>>)
  /\ Log(c, "CONNECT")
  /\ UNCHANGED <<joined, clock, conn, drops, outcome>>

(* The caller gives up: an abandon event, then the channel's hangup.       *)
Abandon(c) ==
  /\ Moves(c, {"waiting", "ringing"}, "gone")
  /\ Emit(<<Ev("Abandon", c), HangupEv(c, "other")>>)
  /\ Log(c, "ABANDON")
  /\ outcome' = [outcome EXCEPT ![c] = "ABANDONED"]
  /\ UNCHANGED <<joined, clock, conn, drops>>

(* The queue gives the call back to the dial plan.  The collector has no   *)
(* handler for the event that announces it.                                *)
LeaveQueue(c) ==
  /\ Moves(c, {"waiting", "ringing"}, "out")
  /\ \E line \in QueueExits :
       /\ Log(c, line)
       /\ outcome' = [outcome EXCEPT ![c] = ExitStatus(line)]
  /\ UNCHANGED <<joined, clock, amiq, conn, drops>>

(* AgentComplete (or BridgeLeave) and Hangup are all handled by            *)
(* db_call_hangup: two of them stand for the series.                       *)
Complete(c) ==
  /\ Moves(c, {"talking"}, "gone")
  /\ Emit(<<HangupEv(c, "other"), HangupEv(c, "other")>>)
  /\ Log(c, "COMPLETE")
  /\ outcome' = [outcome EXCEPT ![c] = "ANSWERED"]
  /\ UNCHANGED <<joined, clock, conn, drops>>

HangupOutside(c) ==
  /\ Moves(c, {"out"}, "gone")
  /\ \E why \in Causes : Emit(<<HangupEv(c, why)>>)
  /\ UNCHANGED <<joined, clock, conn, drops, unread, outcome>>

(* The connection breaks and a suffix of what was sent never arrives.      *)
ConnectionBreaks ==
  /\ conn
  /\ drops < MaxDrops
  /\ conn' = FALSE
  /\ drops' = drops + 1
  /\ \E n \in 0..Len(amiq) : amiq' = SubSeq(amiq, 1, n)
  /\ UNCHANGED <<phase, joined, clock, unread, outcome>>

CallStep(c) ==
  \/ Join(c) \/ CallAgent(c) \/ AgentRingsOut(c) \/ Connect(c)
  \/ Abandon(c) \/ LeaveQueue(c) \/ Complete(c) \/ HangupOutside(c)

AstTypeOK ==
  /\ phase \in [Calls -> Phases]
  /\ joined \in [Calls -> Nat]
  /\ clock \in Nat
  /\ amiq \in Seq(Event)
  /\ conn \in BOOLEAN
  /\ drops \in Nat
  /\ unread \in [Calls -> SUBSET LogLines]
  /\ outcome \in [Calls -> {"none"} \cup TerminalStatus]
=============================================================================
