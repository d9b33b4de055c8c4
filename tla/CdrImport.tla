------------------------------ MODULE CdrImport -------------------------------
(***************************************************************************)
(* sync_cdr_records: the import of Asterisk's Master.csv into cdr_records.   *)
(* Every page about calls, and the scheduled report, imports what was        *)
(* appended since the place saved beside the database: an offset and a hash  *)
(* of the file's first 512 characters.  When the place does not fit the file *)
(* it is read from its start, and its lines are matched with the rows there  *)
(* are.                                                                      *)
(*                                                                          *)
(* A call has one uniqueid and may have several legs, each a line.  The      *)
(* first one imported is stored under the uniqueid, another under the        *)
(* uniqueid and a digest of its channels and times, which is the leg.        *)
(*                                                                          *)
(* Offsets count lines, which Asterisk writes whole.                         *)
(***************************************************************************)
EXTENDS Integers, FiniteSets, SequencesExt

CONSTANTS
  Calls,        (* uniqueids *)
  Legs,         (* what the digest tells apart *)
  HeadLines,    (* how many lines fit in 512 characters *)
  Exts,         (* extensions *)
  Plans         (* bounds: what may happen how often in one behaviour *)

ASSUME HeadAssumption == HeadLines \in Nat \ {0}
ASSUME LegsAssumption == "none" \notin Legs   (* no digest is the mark of a key without one *)
ASSUME PlanAssumption ==
  \A q \in Plans :
    /\ "missing" \in DOMAIN q /\ q.missing \subseteq Exts   (* the extensions that may miss calls *)
    /\ \A k \in {"lines", "rings", "rotations", "faults", "outages", "edits", "slots"} :
         k \in DOMAIN q /\ q[k] \in Nat

VARIABLES
  csv,       (* external: Master.csv *)
  rotated,   (* external: the files rotated away *)
  rows,      (* cdr_records: keys and what they hold *)
  place,     (* the file .cdr-sync.json *)
  imp,       (* the import under way: _CDR_SYNC_LOCK lets in one *)
  unsaved,   (* history: was a place ever not saved after its commit? *)
  passed,    (* history: lines a place was put past that were not stored *)
  now,       (* the clock *)
  left       (* what the plan still allows *)

importVars == <<csv, rotated, rows, place, imp, unsaved, passed>>

NoPlace == [offset |-> 0, head |-> <<>>]
Resting == [pc |-> "idle", by |-> "none", out |-> <<>>, place |-> NoPlace, lost |-> {}]
Nobody  == "none"

Spend(k) == left[k] > 0 /\ left' = [left EXCEPT ![k] = @ - 1]

Lines(f) == { f[n] : n \in DOMAIN f }
Head512  == SubSeq(csv, 1, IF Len(csv) < HeadLines THEN Len(csv) ELSE HeadLines)

-----------------------------------------------------------------------------
(* What one import does with the lines it has read.                        *)

BaseKey(u)      == [uid |-> u, leg |-> Nobody, serial |-> 0]
LegKey(l, n)    == [uid |-> l.uid, leg |-> l.leg, serial |-> n]
Keys(table)     == { r.key : r \in table }

(* Mutant: a file that is longer than the place is the file of the place.   *)
ResetWhenShorter == place = NoPlace \/ place.offset > Len(csv)

reset_source == place = NoPlace \/ place.offset > Len(csv) \/ place.head # Head512

source_offset == IF reset_source THEN 0 ELSE place.offset

(* Text that is not UTF-8 cannot be read: not the head, nor what follows the *)
(* place.                                                                   *)
Unreadable == \E n \in DOMAIN csv : csv[n].bad /\ (n <= HeadLines \/ n > source_offset)

(* Mutant: the keys of the table count as taken also when the file is read  *)
(* from its start.                                                          *)
TakenAlways == Keys(rows)

Taken == IF reset_source THEN {} ELSE Keys(rows)

(* The row stored under the uniqueid itself is what a line read again is     *)
(* compared with; it serves once.  A line it does not equal takes its key    *)
(* all the same when nothing in this file has.                              *)
Candidates == IF reset_source THEN { r \in rows : r.key.serial = 0 } ELSE {}

(* Mutant: the key of a line is not remembered while the next ones are read. *)
ForgetKey(acc, l, key) ==
  [acc EXCEPT !.out = Append(@, [key |-> key, line |-> l])]

Store(acc, l, key) ==
  [acc EXCEPT !.out = Append(@, [key |-> key, line |-> l]), !.seen = @ \cup {key}]

FirstFree(l, seen) ==
  CHOOSE n \in 1 .. Cardinality(seen) + 1 :
    /\ LegKey(l, n) \notin seen
    /\ \A k \in 1 .. n - 1 : LegKey(l, k) \in seen

StoreLine(l, acc) ==
  LET base  == BaseKey(l.uid)
      mine  == { r \in acc.free : r.key = base }
      used  == IF mine # {} /\ ((\E r \in mine : r.line = l) \/ base \notin acc.seen)
               THEN [acc EXCEPT !.free = @ \ mine] ELSE acc
  IN Store(used, l, IF base \in acc.seen THEN LegKey(l, FirstFree(l, acc.seen)) ELSE base)

new_records(last) ==
  FoldLeft(LAMBDA acc, l : StoreLine(l, acc),
           [seen |-> Taken, free |-> Candidates, out |-> <<>>],
           SubSeq(csv, source_offset + 1, last)).out

(* ON CONFLICT(uniqueid) DO UPDATE.                                         *)
Upsert(table, new) ==
  { r \in table : r.key \notin Keys(Lines(new)) } \cup Lines(new)

-----------------------------------------------------------------------------
(* The steps of an import.                                                 *)

Imports == UNCHANGED <<csv, rotated, now>>

(* Nothing is read of a file that cannot be decoded; the saved place is      *)
(* emptied all the same: it is opened for writing before the offset that was *)
(* never assigned is asked for.  After that offset every error is swallowed   *)
(* (the table is locked, a line is no CSV, no recording can be chosen): the   *)
(* lines before it are stored, and the place is saved past all of them.       *)
(* After a rotation there is no file until Asterisk writes the next line.     *)
sync_reads(who) ==
  /\ imp.pc = "idle" /\ csv # <<>>
  /\ \/ /\ Unreadable /\ UNCHANGED left
        /\ imp' = [pc |-> "save", by |-> who, out |-> <<>>, place |-> NoPlace, lost |-> {}]
     \/ \E last \in source_offset .. Len(csv) :
          /\ ~Unreadable
          /\ IF last < Len(csv) THEN Spend("faults") ELSE UNCHANGED left
          /\ imp' = [pc |-> IF last = source_offset THEN "save" ELSE "commit",
                     by |-> who, out |-> new_records(last),
                     place |-> [offset |-> Len(csv), head |-> Head512],
                     lost |-> Lines(SubSeq(csv, last + 1, Len(csv)))]
  /\ UNCHANGED <<rows, place, unsaved, passed>> /\ Imports

(* All rows or none ("database is locked"): the error is not caught here, and *)
(* then no place is saved.                                                  *)
sync_commits ==
  /\ imp.pc = "commit"
  /\ \/ rows' = Upsert(rows, imp.out) /\ imp' = [imp EXCEPT !.pc = "save"] /\ UNCHANGED left
     \/ Spend("faults") /\ imp' = Resting /\ UNCHANGED rows
  /\ UNCHANGED <<place, unsaved, passed>> /\ Imports

(* A place that stays behind its rows and still fits the file.              *)
Stale == unsaved \/ (imp.out # <<>> /\ place # NoPlace)

sync_saves ==
  /\ imp.pc = "save" /\ imp' = Resting
  /\ \/ place' = imp.place /\ passed' = passed \cup imp.lost /\ UNCHANGED <<unsaved, left>>
     \/ Spend("faults") /\ unsaved' = Stale /\ UNCHANGED <<place, passed>>   (* OSError *)
  /\ UNCHANGED rows /\ Imports

(* The process ends; in the middle of saving it leaves an empty file.       *)
Interrupted ==
  /\ imp' = Resting
  /\ place' \in IF imp.pc = "save" THEN {place, NoPlace} ELSE {place}
  /\ unsaved' = IF imp.pc = "save" /\ place' # NoPlace THEN Stale ELSE unsaved
  /\ UNCHANGED <<rows, csv, rotated, passed>>

-----------------------------------------------------------------------------
(* Asterisk.                                                               *)

Files   == {csv} \cup rotated
Written == UNION { Lines(f) : f \in Files }

(* A leg ends; missed names the extension that did not answer it.           *)
Asterisk_writes ==
  \E u \in Calls, k \in Legs, e \in left.missing \cup {Nobody}, bad \in BOOLEAN :
    /\ \A l \in Written : <<l.uid, l.leg>> # <<u, k>>
    /\ IF bad THEN Spend("faults") ELSE Spend("lines")
    /\ csv' = Append(csv, [uid |-> u, leg |-> k, start |-> now, missed |-> e, bad |-> bad])
    /\ UNCHANGED <<rotated, rows, place, imp, unsaved, passed, now>>

Rotates ==
  /\ Spend("rotations") /\ csv # <<>>
  /\ rotated' = rotated \cup {csv} /\ csv' = <<>>
  /\ UNCHANGED <<rows, place, imp, unsaved, passed, now>>

-----------------------------------------------------------------------------
(* Properties of the import.                                               *)

ImportTypeOK ==
  /\ place.offset \in 0 .. Cardinality(Written)
  /\ \A r \in rows : r.line \in Written /\ r.line.uid = r.key.uid /\ ~r.line.bad
  /\ Cardinality(Keys(rows)) = Cardinality(rows)
  /\ imp.pc = "idle" <=> imp = Resting

(* A call that has legs in two files, with a rotation between them.          *)
Split(u) ==
  \E f, g \in Files : \E l \in Lines(f), k \in Lines(g) : f # g /\ l.uid = u /\ k.uid = u

(* However often the import runs, from whatever place, a leg has one row:    *)
(* also when the head of a short file changes, after a rotation and when     *)
(* there is no place left.  Only a commit that left the place before it in    *)
(* the state file doubles rows, and a loss of the place after a rotation      *)
(* between two legs of one call.                                            *)
EachLegOnce ==
  ~unsaved => \A r, s \in rows : r.line = s.line /\ ~Split(r.line.uid) => r = s

(* A row is never taken over by another leg, unless the file was rotated     *)
(* between two legs of the call, or a leg of it was once read past without    *)
(* being stored: the first of them then gets the row when the file is read   *)
(* from its start.                                                          *)
KeepsLegs ==
  [][\A r \in rows : (\E s \in rows' : s.key = r.key /\ s.line # r.line)
        => Split(r.key.uid) \/ \E l \in passed : l.uid = r.key.uid]_<<importVars, now, left>>

(* While every line of the file can be read, every line gets a row or goes   *)
(* away with the file, but for those an import that was refused half-way      *)
(* read past: nothing imports these until the place is lost.                  *)
Imported == \A l \in Lines(csv) \ passed : \E r \in rows : r.line = l

ImportCatchesUp == []<>(Imported \/ \E l \in Lines(csv) : l.bad)
=============================================================================
