---------------------------- MODULE QueueLogSync ----------------------------
(***************************************************************************)
(* sync_queue_log_to_db: processes import the lines of queue_log into      *)
(* rcm_queue.db.  The place reached is kept in two small files beside the  *)
(* database, the offset and the "state" (a hash of the first 512 bytes of  *)
(* the log, to notice a rotation), written one after the other when the    *)
(* transaction is committed.  The process may die between any two of these *)
(* steps, and the log may be rotated at any time.                          *)
(*                                                                         *)
(* Offsets count lines.  A line that has been written in part counts when  *)
(* the import takes it for a line, that is from its fourth separator on.   *)
(***************************************************************************)
EXTENDS QueueLogLines, FiniteSets

CONSTANTS
  Collector,     (* the daemon, which imports again and again *)
  Web,           (* web requests and jobs that import *)
  HeadLines,     (* how many lines fit in 512 bytes *)
  Fronts,        (* how far a line may be written when it is read *)
  LockOpens,     (* can every importer open the lock file? *)
  FilesTear,     (* may a crash leave an offset or state file empty? *)
  MaxLines,      (* bound: lines written *)
  MaxRotations,  (* bound: rotations *)
  MaxCrashes     (* bound: importers that die at work *)

ASSUME ProcessAssumption == Collector \notin Web
ASSUME HeadAssumption   == HeadLines \in Nat \ {0}
ASSUME FrontsAssumption == Fronts \subseteq {"short", "long"}
ASSUME BoundsAssumption ==
  MaxLines \in Nat /\ MaxRotations \in Nat /\ MaxCrashes \in Nat

Importers == {Collector} \cup Web

VARIABLES
  history,    (* external: every line written so far *)
  base,       (* external: how many of them are in files rotated away *)
  front,      (* external: the part of the next line that is written *)
  table,      (* queue_calls *)
  offset,     (* the offset file *)
  head,       (* the state file: hash of the first bytes *)
  pc,         (* where each importer is *)
  work,       (* what it has in hand *)
  upto,       (* history: lines dealt with by a committed import *)
  rotations, crashes

logVars  == <<history, base, front, rotations>>
fileVars == <<offset, head>>
vars     == <<logVars, fileVars, table, pc, work, upto, crashes>>

NoWork == [from |-> 0, to |-> 0, head |-> <<>>, start |-> 0, lines |-> <<>>]

Written  == Len(history) - base
Poison   == "RINGNOANSWER"

(* The size of the file, in lines as the import counts them.               *)
LogSize == Written + (IF front = "long" THEN 1 ELSE 0)

(* The first 512 bytes change until they are full; every file begins with  *)
(* another time, but all empty files are alike.                            *)
LogHead ==
  IF LogSize = 0 THEN <<"empty">>
  ELSE <<base, IF LogSize < HeadLines THEN LogSize ELSE HeadLines>>

(* A system in use: a first import is complete, so the state file exists.  *)
Init ==
  /\ \E c \in Calls : history = <<[call |-> c, kind |-> "ENTERQUEUE"]>>
  /\ base = 0 /\ front = "none" /\ rotations = 0
  /\ table = LinesEffect([c \in Calls |-> NoRow], history)
  /\ offset = 1 /\ head = LogHead /\ upto = 1
  /\ pc = [p \in Importers |-> "idle"]
  /\ work = [p \in Importers |-> NoWork]
  /\ crashes = 0

-----------------------------------------------------------------------------
(* External: the exchange writes the log.                                  *)

Write(c, kind) ==
  /\ Len(history) < MaxLines
  /\ Follows(kind, Latest(c, history))
  /\ history' = Append(history, [call |-> c, kind |-> kind])
  /\ front' = "none"
  /\ UNCHANGED <<base, rotations, fileVars, table, pc, work, upto, crashes>>

(* The front of the next line reaches the file before the rest of it.      *)
WriteFront ==
  /\ front = "none" /\ Len(history) < MaxLines
  /\ front' \in Fronts
  /\ UNCHANGED <<history, base, rotations, fileVars, table, pc, work, upto, crashes>>

Rotate ==
  /\ front = "none" /\ rotations < MaxRotations
  /\ base' = Len(history)
  /\ rotations' = rotations + 1
  /\ UNCHANGED <<history, front, fileVars, table, pc, work, upto, crashes>>

-----------------------------------------------------------------------------
(* One import.                                                             *)

Goes(p, from, to) ==
  /\ pc[p] = from
  /\ pc' = [pc EXCEPT ![p] = to]

Idle(p) == pc[p] = "idle"

(* The thread lock and the file lock; without the lock file the import     *)
(* goes on unlocked.                                                       *)
Lock(p) ==
  /\ LockOpens => \A q \in Importers : Idle(q)
  /\ Goes(p, "idle", "locked")
  /\ UNCHANGED <<logVars, fileVars, table, work, upto, crashes>>

(* Mutant: a rotation is noticed by the size of the file only.             *)
TruncatedOnly == offset > LogSize

(* Truncated, or the first bytes are not those seen before.                *)
SourceChanged == offset > LogSize \/ (head # <<>> /\ head # LogHead)

ReadPlace(p) ==
  LET from == IF SourceChanged THEN 0 ELSE offset IN
  /\ Goes(p, "locked", "placed")
  /\ offset' = from
  /\ work' = [work EXCEPT ![p].from = from, ![p].head = LogHead]
  /\ UNCHANGED <<logVars, head, table, upto, crashes>>

(* Mutant: the place is saved before the lines are committed.              *)
ReadAndSavePlace(p) ==
  /\ work[p].from < LogSize
  /\ Goes(p, "placed", "read")
  /\ work' = [work EXCEPT ![p].to    = LogSize,
                          ![p].start = base,
                          ![p].lines = SubSeq(history, base + work[p].from + 1,
                                              Len(history))]
  /\ offset' = LogSize
  /\ UNCHANGED <<logVars, head, table, upto, crashes>>

(* Everything from there on up to the last line that counts.               *)
ReadLines(p) ==
  /\ work[p].from < LogSize
  /\ Goes(p, "placed", "read")
  /\ work' = [work EXCEPT ![p].to    = LogSize,
                          ![p].start = base,
                          ![p].lines = SubSeq(history, base + work[p].from + 1,
                                              Len(history))]
  /\ UNCHANGED <<logVars, fileVars, table, upto, crashes>>

Stop(p, from) ==
  /\ Goes(p, from, "idle")
  /\ work' = [work EXCEPT ![p] = NoWork]

ReadNothing(p) ==
  /\ work[p].from >= LogSize
  /\ Stop(p, "placed")
  /\ UNCHANGED <<logVars, fileVars, table, upto, crashes>>

HoldsPoison(lines) == \E i \in 1..Len(lines) : lines[i].kind = Poison

(* All lines in one transaction.  When the log was rotated after the place *)
(* was read, lines at the start of the new file are passed over.           *)
Commit(p) ==
  LET w == work[p]
      first == w.start + w.from
      last  == first + Len(w.lines)
      passedOver == w.from > 0 /\ first > upto
  IN
  /\ ~HoldsPoison(w.lines)
  /\ Goes(p, "read", "committed")
  /\ table' = LinesEffect(table, w.lines)
  /\ upto' = IF last > upto /\ ~passedOver THEN last ELSE upto
  /\ UNCHANGED <<logVars, fileVars, work, crashes>>

(* The INSERT for RINGNOANSWER names a column that the table has not: the  *)
(* exception ends the import, nothing is committed and nothing is saved.   *)
CommitFails(p) ==
  /\ HoldsPoison(work[p].lines)
  /\ Stop(p, "read")
  /\ UNCHANGED <<logVars, fileVars, table, upto, crashes>>

SaveOffset(p) ==
  /\ Goes(p, "committed", "saved")
  /\ offset' = work[p].to
  /\ UNCHANGED <<logVars, head, table, work, upto, crashes>>

SaveState(p) ==
  /\ Stop(p, "saved")
  /\ head' = work[p].head
  /\ UNCHANGED <<logVars, offset, table, upto, crashes>>

(* The importer dies; the operating system lets go of its lock.  A file it *)
(* was writing may be left empty, which reads as 0 or as no state.         *)
Crash(p) ==
  /\ ~Idle(p) /\ crashes < MaxCrashes
  /\ crashes' = crashes + 1
  /\ Stop(p, pc[p])
  /\ offset' \in {offset} \cup (IF FilesTear /\ pc[p] = "committed" THEN {0} ELSE {})
  /\ head' \in {head} \cup (IF FilesTear /\ pc[p] = "saved" THEN {<<>>} ELSE {})
  /\ UNCHANGED <<logVars, table, upto>>

-----------------------------------------------------------------------------
Carry(p) ==
  \/ ReadPlace(p) \/ ReadLines(p) \/ ReadNothing(p)
  \/ Commit(p) \/ CommitFails(p) \/ SaveOffset(p) \/ SaveState(p)

Next ==
  \/ \E c \in Calls, kind \in Kinds : Write(c, kind)
  \/ WriteFront
  \/ Rotate
  \/ \E p \in Importers : Lock(p) \/ Carry(p) \/ Crash(p)

Spec == Init /\ [][Next]_vars

(* The collector imports every 30 seconds and waits its turn for the lock, *)
(* which the system hands on; an import that has begun is carried through  *)
(* or dies.  Nobody has to open a web page.                                *)
Fairness ==
  /\ SF_vars(Lock(Collector))
  /\ \A p \in Importers : WF_vars(Carry(p))

FairSpec == Spec /\ Fairness

-----------------------------------------------------------------------------
Work == [from : Nat, to : Nat, head : Seq(Nat) \cup {<<"empty">>},
         start : Nat, lines : Seq(Line)]

(* Every variable keeps its shape, and the file is part of the history.    *)
TypeOK ==
  /\ history \in Seq(Line)
  /\ base \in 0..Len(history)
  /\ front \in {"none", "short", "long"}
  /\ table \in [Calls -> Row]
  /\ offset \in Nat
  /\ head \in Seq(Nat) \cup {<<"empty">>}
  /\ pc \in [Importers -> {"idle", "locked", "placed", "read", "committed", "saved"}]
  /\ work \in [Importers -> Work]
  /\ upto \in Nat
  /\ rotations \in Nat /\ crashes \in Nat

(* The place that is kept never runs ahead of the table: if the next       *)
(* import would go on from the offset, every line of the file before it    *)
(* has been committed, whatever crashed and whenever the log was rotated.  *)
PlaceIsHonest == ~SourceChanged => base + offset <= upto \/ offset = 0

(* The import keeps the contract: each line takes effect exactly once and  *)
(* in order, although files are read again from the start.                 *)
Promise == INSTANCE QueueLogContract WITH status <- [c \in Calls |-> table[c].status]
KeepsContract == Promise!Contract

Poisoned == \E i \in base + 1..Len(history) : history[i].kind = Poison
UpToDate == Len(history) <= upto \/ Len(history) = base

(* Sooner or later the table has caught up with the log, unless the log    *)
(* holds a line that no import survives.                                   *)
CatchesUpOrPoisoned == []<>(UpToDate \/ Poisoned)
=============================================================================
