-------------------------- MODULE RecordingStorage --------------------------
(***************************************************************************)
(* The recordings of calls leave the PBX in two ways.  The spooler, a cron *)
(* job, uploads every new recording to the first provider that takes it    *)
(* and notes in recording_locations where it went.  The export worker,     *)
(* run from a page, uploads by policy what a provider does not have yet.   *)
(* Either may then delete the local file, and the cleanup engine deletes   *)
(* what is old.  Playback finds a file by its row in recording_locations.  *)
(*                                                                         *)
(* The database has one write lock.  The export worker keeps its rows in   *)
(* an open transaction while it works, and every connect() to a provider   *)
(* writes that provider's status on a connection of its own.               *)
(***************************************************************************)
EXTENDS Naturals, Sequences, FiniteSets

CONSTANTS
  Recs,          (* recordings, by the uniqueid of their call *)
  Providers,     (* rows of external_storage_providers *)
  Nas,           (* those of type nas; the others are google_drive *)
  Spoolers,      (* runs of the cron job; several when they overlap *)
  Exporters,     (* web workers that serve "run now" *)
  Order,         (* storage_strategy: the providers to try *)
  KeepLocal,     (* storage_strategy.keep_local *)
  Policies,      (* storage_policies: [provider, removes], by id *)
  CleanDirs,     (* the directories of the cleanup, "local" first *)
  Limit,         (* rows the spooler takes at a time, 100 in the code *)
  CommitEvery,   (* files between two commits of a policy, 50 in the code *)
  MountsDrop,    (* may a share be unmounted under a copy? *)
  MaxCrashes     (* bound: processes that die at work *)

ASSUME ProviderAssumption ==
  /\ Nas \subseteq Providers
  /\ Order \in Seq(Providers)
  /\ Policies \in Seq([provider : Providers, removes : BOOLEAN])
  /\ {"untracked", "local"} \cap Providers = {}
ASSUME MoverAssumption ==
  /\ Spoolers \cap Exporters = {}
  /\ {"nobody", "cleaner"} \cap (Spoolers \cup Exporters) = {}
ASSUME NoRecAssumption == "no recording" \notin Recs
ASSUME SwitchAssumption == KeepLocal \in BOOLEAN /\ MountsDrop \in BOOLEAN
ASSUME CleanAssumption ==
  CleanDirs \in Seq({"local"} \cup Providers) /\ CleanDirs # <<>>
ASSUME BoundsAssumption ==
  Limit \in Nat \ {0} /\ CommitEvery \in Nat \ {0} /\ MaxCrashes \in Nat

Movers == Spoolers \cup Exporters

VARIABLES
  cdr,      (* recordings named by a row of cdr_records *)
  local,    (* those whose file is in the monitor directory *)
  copy,     (* the file of a recording at a provider *)
  loc,      (* recording_locations, as committed *)
  pend,     (* rows an exporter has written and not committed *)
  job,      (* does an exporter have a row 'Running' in export_jobs? *)
  deadJob,  (* is there such a row of a worker that died? *)
  pc,       (* where each mover is *)
  todo,     (* the rows it has selected and not dealt with *)
  rec,      (* the recording in hand *)
  left,     (* spooler: providers still to try *)
  at,       (* exporter: the policy in hand *)
  count,    (* exporter: files dealt with in this policy *)
  by,       (* history: who deleted the recording's file *)
  met,      (* history: movers whose upload somebody else has met *)
  crashes

disk == <<cdr, local, copy, by, met>>
rows == <<loc, pend, job, deadJob>>
mind == <<pc, todo, rec, left, at, count>>
vars == <<disk, rows, mind, crashes>>

NoRec == "no recording"

(* A copy that landed "beneath" is on the local disk, under the mount      *)
(* point of a share that was not there; a "torn" one has its full length   *)
(* and holes that another writer of the same file has still to fill.       *)
File == {"none", "partial", "torn", "beneath", "whole"}

Init ==
  /\ cdr = {} /\ local = {}
  /\ copy = [r \in Recs |-> [p \in Providers |-> "none"]]
  /\ loc = [r \in Recs |-> "untracked"]
  /\ pend = [e \in Exporters |-> {}]
  /\ job = [e \in Exporters |-> FALSE]
  /\ deadJob = FALSE
  /\ pc = [m \in Movers |-> "idle"]
  /\ todo = [m \in Movers |-> {}]
  /\ rec = [m \in Movers |-> NoRec]
  /\ left = [s \in Spoolers |-> <<>>]
  /\ at = [e \in Exporters |-> 1]
  /\ count = [e \in Exporters |-> 0]
  /\ by = [r \in Recs |-> "nobody"] /\ met = {}
  /\ crashes = 0

Goto(m, place) == pc' = [pc EXCEPT ![m] = place]

-----------------------------------------------------------------------------
(* The database's lock, and the end of a process.                          *)

(* Another process has written and not committed: a write has to wait.     *)
Locked(m) == \E e \in Exporters \ {m} : pend[e] # {}

(* A process ends where it stands: its transaction is rolled back, and the *)
(* job it had announced stays 'Running'.                                   *)
Dies(m) ==
  /\ Goto(m, "idle")
  /\ todo' = [todo EXCEPT ![m] = {}] /\ rec' = [rec EXCEPT ![m] = NoRec]
  /\ pend' = [e \in Exporters |-> IF e = m THEN {} ELSE pend[e]]
  /\ job' = [e \in Exporters |-> e # m /\ job[e]]
  /\ deadJob' = (deadJob \/ \E e \in Exporters : e = m /\ job[e])
  /\ left' = [s \in Spoolers |-> IF s = m THEN <<>> ELSE left[s]]
  /\ at' = [e \in Exporters |-> IF e = m THEN 1 ELSE at[e]]
  /\ count' = [e \in Exporters |-> IF e = m THEN 0 ELSE count[e]]
  /\ UNCHANGED <<disk, loc>>

Crash(m) ==
  /\ pc[m] # "idle" /\ crashes < MaxCrashes
  /\ crashes' = crashes + 1
  /\ Dies(m)

(* What a mover is about to write to the database.                         *)
AboutToWrite(m) ==
  \/ pc[m] \in {"connect", "record"}
  \/ m \in Exporters /\ pc[m] = "policy" /\ at[m] <= Len(Policies)
  \/ m \in Exporters /\ pc[m] = "next" /\ todo[m] = {}

(* "database is locked" after five seconds; nothing catches it.            *)
LockTimeout(m) ==
  /\ Locked(m) /\ AboutToWrite(m)
  /\ Dies(m)
  /\ UNCHANGED crashes

(* The rows an exporter has written become visible.                        *)
Commit(e) ==
  /\ loc' = [r \in Recs |-> IF r \in pend[e] THEN Policies[at[e]].provider
                                           ELSE loc[r]]
  /\ pend' = [pend EXCEPT ![e] = {}]

-----------------------------------------------------------------------------
(* The environment.                                                        *)

(* External: a call ends.  Its row in cdr_records names a recording, and   *)
(* the file is there.                                                      *)
CallEnds(r) ==
  /\ r \notin cdr
  /\ cdr' = cdr \cup {r}
  /\ local' = local \cup {r}
  /\ UNCHANGED <<copy, by, met, rows, mind, crashes>>

(* The movers that are at the upload of a recording to a provider.         *)
Target(m) == IF m \in Spoolers THEN Head(left[m]) ELSE Policies[at[m]].provider
Stages == {"copy", "verify", "record", "unlink"}
At(r, p) == {m \in Movers : pc[m] \in Stages /\ rec[m] = r /\ Target(m) = p}

(* _delete_files_batch.  Only the last of the directories is walked.       *)
Walked == CleanDirs[Len(CleanDirs)]

Clean(r) ==
  /\ \/ Walked = "local" /\ r \in local
        /\ local' = local \ {r} /\ UNCHANGED <<copy, met>>
     \/ Walked # "local" /\ copy[r][Walked] # "none"
        /\ copy' = [copy EXCEPT ![r][Walked] = "none"] /\ UNCHANGED local
        /\ met' = met \cup At(r, Walked)
  /\ by' = [by EXCEPT ![r] = "cleaner"]
  /\ UNCHANGED <<cdr, rows, mind, crashes>>

-----------------------------------------------------------------------------
(* What both movers do with a row.                                         *)

(* The next row: a recording whose file is not there is skipped, and the   *)
(* export worker counts it without a look at the number.                   *)
Take(m) ==
  /\ pc[m] = "next"
  /\ \E r \in todo[m] :
       /\ todo' = [todo EXCEPT ![m] = @ \ {r}]
       /\ IF r \in local
          THEN /\ Goto(m, "connect")
               /\ rec' = [rec EXCEPT ![m] = r]
               /\ left' = [s \in Spoolers |-> IF s = m THEN Order ELSE left[s]]
               /\ UNCHANGED count
          ELSE /\ count' = [e \in Exporters |-> IF e = m THEN count[e] + 1
                                                         ELSE count[e]]
               /\ UNCHANGED <<pc, rec, left>>
  /\ UNCHANGED <<disk, rows, at, crashes>>

HasTarget(m) == m \in Spoolers => left[m] # <<>>
Removes(m) == IF m \in Spoolers THEN ~KeepLocal ELSE Policies[at[m]].removes

(* The end of the loop over rows.  When the rows dealt with, the skipped   *)
(* ones too, are a multiple of CommitEvery the export worker commits.      *)
RowDone(m) ==
  /\ Goto(m, "next")
  /\ rec' = [rec EXCEPT ![m] = NoRec]
  /\ IF m \in Exporters
     THEN /\ count' = [count EXCEPT ![m] = @ + 1]
          /\ IF (count[m] + 1) % CommitEvery = 0
             THEN Commit(m)
             ELSE UNCHANGED <<loc, pend>>
     ELSE UNCHANGED <<count, loc, pend>>
  /\ left' = [s \in Spoolers |-> IF s = m THEN <<>> ELSE left[s]]

(* The upload has failed: the spooler tries the next provider, the export  *)
(* worker counts the failure.                                              *)
UploadFailed(m) ==
  IF m \in Spoolers
  THEN /\ Goto(m, "connect")
       /\ left' = [left EXCEPT ![m] = Tail(@)]
       /\ UNCHANGED <<rec, count, loc, pend>>
  ELSE RowDone(m)

(* connect() has succeeded, and copyfile opens the source, which may be    *)
(* gone, and truncates the destination, whoever is at it.                  *)
Open(m) ==
  /\ pc[m] = "connect" /\ HasTarget(m) /\ ~Locked(m)
  /\ m \in Exporters => pend[m] = {}
  /\ IF rec[m] \in local
     THEN /\ copy' = [copy EXCEPT ![rec[m]][Target(m)] = "partial"]
          /\ LET others == At(rec[m], Target(m))
             IN  met' = (met \ {m}) \cup others
                          \cup {o \in {m} : \E w \in others : pc[w] = "copy"}
          /\ Goto(m, "copy")
          /\ UNCHANGED <<rec, left, count, loc, pend>>
     ELSE UploadFailed(m) /\ UNCHANGED <<copy, met>>
  /\ UNCHANGED <<cdr, local, by, job, deadJob, todo, at, crashes>>

ConnectFails(m) ==
  /\ pc[m] = "connect" /\ HasTarget(m) /\ ~Locked(m)
  /\ m \in Exporters => pend[m] = {}
  /\ UploadFailed(m)
  /\ UNCHANGED <<disk, job, deadJob, todo, at, crashes>>

(* connect() writes the provider's status on a second connection.  When    *)
(* this worker's own transaction is open it waits for itself, in vain.     *)
LockedOut(e) ==
  /\ pc[e] = "connect" /\ pend[e] # {}
  /\ Dies(e)
  /\ UNCHANGED crashes

(* The last byte is written: into a file that was unlinked meanwhile, into *)
(* one that another mover has truncated, beneath the mount point, or       *)
(* where it should be.                                                     *)
Landing(m) ==
  LET others == {o \in At(rec[m], Target(m)) \ {m} : pc[o] = "copy"}
  IN  IF copy[rec[m]][Target(m)] = "none" THEN {"none"}
      ELSE {IF others = {} THEN "whole" ELSE "torn"}
             \cup (IF MountsDrop THEN {"beneath"} ELSE {})

CopyEnds(m) ==
  /\ pc[m] = "copy"
  /\ \E f \in Landing(m) :
       /\ copy' = [copy EXCEPT ![rec[m]][Target(m)] = f]
       /\ met' = met \cup {o \in {m} : f = "beneath"}
  /\ Goto(m, "verify")
  /\ UNCHANGED <<cdr, local, by, rows, todo, rec, left, at, count, crashes>>

(* Mutant: the failure of the copy is not noticed.                         *)
CopyFailureIgnored(m) ==
  /\ pc[m] = "copy"
  /\ Goto(m, "record")
  /\ UNCHANGED <<disk, rows, todo, rec, left, at, count, crashes>>

(* A write fails; what was written stays.                                  *)
CopyFails(m) ==
  /\ pc[m] = "copy"
  /\ UploadFailed(m)
  /\ UNCHANGED <<disk, job, deadJob, todo, at, crashes>>

(* The sizes are compared.  Either file may be gone, which is a failure; a *)
(* copy that is too short is deleted.                                      *)
Verify(m) ==
  LET r == rec[m]  p == Target(m)
  IN  /\ pc[m] = "verify"
      /\ \/ /\ r \in local /\ copy[r][p] \in {"torn", "beneath", "whole"}
            /\ Goto(m, "record")
            /\ UNCHANGED <<copy, met, rec, left, count, loc, pend>>
         \/ /\ r \in local /\ copy[r][p] = "partial"
            /\ copy' = [copy EXCEPT ![r][p] = "none"]
            /\ met' = met \cup At(r, p)
            /\ UploadFailed(m)
         \/ /\ r \notin local \/ copy[r][p] = "none"
            /\ UploadFailed(m) /\ UNCHANGED <<copy, met>>
      /\ UNCHANGED <<cdr, local, by, job, deadJob, todo, at, crashes>>

(* The local file is deleted, if it is to be and is there.                 *)
Unlink(m) ==
  /\ pc[m] = "unlink"
  /\ IF Removes(m) /\ rec[m] \in local
     THEN local' = local \ {rec[m]} /\ by' = [by EXCEPT ![rec[m]] = m]
     ELSE UNCHANGED <<local, by>>
  /\ RowDone(m)
  /\ UNCHANGED <<cdr, copy, met, job, deadJob, todo, at, crashes>>

-----------------------------------------------------------------------------
(* process_new_recordings.  All calls are of the last seven days.          *)

NewRecordings == {r \in cdr : loc[r] = "untracked"}

(* At most Limit of the rows, in no stated order.                          *)
SpoolerStarts(s) ==
  /\ pc[s] = "idle" /\ Order # <<>>
  /\ \E some \in SUBSET NewRecordings :
       /\ some # {}
       /\ Cardinality(some) <= Limit
       /\ Cardinality(some) = Limit \/ some = NewRecordings
       /\ todo' = [todo EXCEPT ![s] = some]
  /\ Goto(s, "next")
  /\ UNCHANGED <<disk, rows, rec, left, at, count, crashes>>

(* Mutant: the commit after the INSERT is forgotten.                       *)
InsertNoCommit(s, place) ==
  ~Locked(s) /\ loc[rec[s]] = "untracked" /\ UNCHANGED loc

(* INSERT INTO recording_locations and commit.  The call may have a row by *)
(* now, and its uniqueness ends the process.                               *)
Insert(s, place) ==
  /\ ~Locked(s)
  /\ loc[rec[s]] = "untracked"
  /\ loc' = [loc EXCEPT ![rec[s]] = place]

NotUnique(s) ==
  /\ ~Locked(s)
  /\ pc[s] = "record" \/ (pc[s] = "connect" /\ ~HasTarget(s))
  /\ loc[rec[s]] # "untracked"
  /\ Dies(s)
  /\ UNCHANGED crashes

RecordUpload(s) ==
  /\ pc[s] = "record"
  /\ Insert(s, Target(s))
  /\ Goto(s, "unlink")
  /\ UNCHANGED <<disk, pend, job, deadJob, todo, rec, left, at, count, crashes>>

(* Mutant: a failed upload leaves no row.                                  *)
LeaveUnmarked(s) ==
  /\ pc[s] = "connect" /\ ~HasTarget(s) /\ ~Locked(s)
  /\ Goto(s, "next") /\ rec' = [rec EXCEPT ![s] = NoRec]
  /\ UNCHANGED <<disk, rows, todo, left, at, count, crashes>>

(* No provider took it: it is marked, and never selected again.            *)
MarkLocal(s) ==
  /\ pc[s] = "connect" /\ ~HasTarget(s)
  /\ Insert(s, "local")
  /\ Goto(s, "next") /\ rec' = [rec EXCEPT ![s] = NoRec]
  /\ UNCHANGED <<disk, pend, job, deadJob, todo, left, at, count, crashes>>

SpoolerEnds(s) ==
  /\ pc[s] = "next" /\ todo[s] = {}
  /\ Goto(s, "idle")
  /\ UNCHANGED <<disk, rows, todo, rec, left, at, count, crashes>>

-----------------------------------------------------------------------------
(* execute_scheduled_policies and run_policy.                              *)

Busy == deadJob \/ \E e \in Exporters : job[e]

ExporterStarts(e) ==
  /\ pc[e] = "idle" /\ ~Busy /\ Policies # <<>>
  /\ Goto(e, "policy")
  /\ UNCHANGED <<disk, rows, todo, rec, left, at, count, crashes>>

(* What the provider of the policy does not have, as the rows say.  All    *)
(* recordings are old enough.                                              *)
Eligible(e) == {r \in cdr : loc[r] # Policies[at[e]].provider}

BeginPolicy(e) ==
  /\ pc[e] = "policy" /\ at[e] <= Len(Policies) /\ ~Locked(e)
  /\ Eligible(e) # {}
  /\ todo' = [todo EXCEPT ![e] = Eligible(e)]
  /\ job' = [job EXCEPT ![e] = TRUE]
  /\ Goto(e, "next")
  /\ UNCHANGED <<disk, loc, pend, deadJob, rec, left, at, count, crashes>>

(* Mutant: the loop over the policies has no end.                          *)
SkipPastEnd(e) ==
  /\ pc[e] = "policy" /\ ~Locked(e)
  /\ at' = [at EXCEPT ![e] = @ + 1]
  /\ UNCHANGED <<disk, rows, pc, todo, rec, left, count, crashes>>

(* The provider cannot be reached, or has everything already.              *)
SkipPolicy(e) ==
  /\ pc[e] = "policy" /\ at[e] <= Len(Policies) /\ ~Locked(e)
  /\ at' = [at EXCEPT ![e] = @ + 1]
  /\ UNCHANGED <<disk, rows, pc, todo, rec, left, count, crashes>>

(* INSERT ... ON CONFLICT DO UPDATE, without a commit.                     *)
RecordExport(e) ==
  /\ pc[e] = "record" /\ ~Locked(e)
  /\ pend' = [pend EXCEPT ![e] = @ \cup {rec[e]}]
  /\ Goto(e, "unlink")
  /\ UNCHANGED <<disk, loc, job, deadJob, todo, rec, left, at, count, crashes>>

EndPolicy(e) ==
  /\ pc[e] = "next" /\ todo[e] = {} /\ ~Locked(e)
  /\ job' = [job EXCEPT ![e] = FALSE]
  /\ Commit(e)
  /\ at' = [at EXCEPT ![e] = @ + 1]
  /\ count' = [count EXCEPT ![e] = 0]
  /\ Goto(e, "policy")
  /\ UNCHANGED <<disk, deadJob, todo, rec, left, crashes>>

ExporterEnds(e) ==
  /\ pc[e] = "policy" /\ at[e] > Len(Policies)
  /\ Goto(e, "idle")
  /\ at' = [at EXCEPT ![e] = 1]
  /\ UNCHANGED <<disk, rows, todo, rec, left, count, crashes>>

-----------------------------------------------------------------------------
Uploads(m) ==
  \/ Take(m) \/ Open(m) \/ ConnectFails(m) \/ CopyEnds(m) \/ CopyFails(m)
  \/ Verify(m) \/ Unlink(m)

SpoolerSteps(s) ==
  \/ SpoolerStarts(s) \/ Uploads(s) \/ RecordUpload(s) \/ MarkLocal(s)
  \/ NotUnique(s) \/ SpoolerEnds(s)

ExporterSteps(e) ==
  \/ Uploads(e) \/ LockedOut(e) \/ BeginPolicy(e) \/ SkipPolicy(e)
  \/ RecordExport(e) \/ EndPolicy(e) \/ ExporterEnds(e)

Next ==
  \/ \E r \in Recs : CallEnds(r) \/ Clean(r)
  \/ \E s \in Spoolers : SpoolerSteps(s)
  \/ \E e \in Exporters : ExporterStarts(e) \/ ExporterSteps(e)
  \/ \E m \in Movers : Crash(m) \/ LockTimeout(m)

Spec == Init /\ [][Next]_vars

(* cron starts the spooler again and again, and a process that has begun   *)
(* goes on; a page is opened or not, and a call ends when it ends.         *)
Fairness ==
  /\ \A s \in Spoolers : WF_vars(SpoolerSteps(s))
  /\ \A e \in Exporters : WF_vars(ExporterSteps(e))

FairSpec == Spec /\ Fairness

-----------------------------------------------------------------------------
(* Every variable has its type.                                            *)
TypeOK ==
  /\ cdr \subseteq Recs /\ local \subseteq Recs
  /\ copy \in [Recs -> [Providers -> File]]
  /\ loc \in [Recs -> Providers \cup {"untracked", "local"}]
  /\ pend \in [Exporters -> SUBSET Recs]
  /\ job \in [Exporters -> BOOLEAN] /\ deadJob \in BOOLEAN
  /\ pc \in [Movers -> {"idle", "policy", "next", "connect", "copy", "verify",
                        "record", "unlink"}]
  /\ todo \in [Movers -> SUBSET Recs]
  /\ rec \in [Movers -> Recs \cup {NoRec}]
  /\ left \in [Spoolers -> Seq(Providers)]
  /\ at \in [Exporters -> 1 .. Len(Policies) + 1]
  /\ count \in [Exporters -> Nat]
  /\ by \in [Recs -> Movers \cup {"nobody", "cleaner"}]
  /\ met \subseteq Movers
  /\ crashes \in 0 .. MaxCrashes

(* What playback streams: the file the row points to, when its provider is *)
(* of a type it knows and the path exists; otherwise the local file.       *)
Played(r) ==
  IF loc[r] \in Nas /\ copy[r][loc[r]] \notin {"none", "beneath"}
  THEN copy[r][loc[r]]
  ELSE IF r \in local THEN "whole" ELSE "none"

(* A recording whose local file the spooler has deleted is played whole,   *)
(* whatever crashes, fails or exports come before, between or after.       *)
SpooledIsFindable ==
  \A r \in Recs : by[r] \in Spoolers => Played(r) = "whole"

(* A recording whose local file the export worker has deleted is played    *)
(* whole, once the worker has no row of it in hand.                        *)
LinksMaintained ==
  \A r \in Recs :
    (by[r] \in Exporters /\ r \notin pend[by[r]]) => Played(r) = "whole"

(* A mover deletes a local file only while a whole copy of it is with a    *)
(* provider, whatever fails or dies in between.  Only somebody else can    *)
(* spoil the copy between its opening and the deletion: a mover that       *)
(* opens, cuts short or removes the same path, the cleanup that deletes    *)
(* it, or a share that is unmounted under it.                              *)
SafeDelete ==
  [][\A r \in Recs :
       (r \in local /\ r \notin local' /\ by'[r] \in Movers \ met)
         => \E p \in Providers : copy'[r][p] = "whole"]_vars

(* The spooler gets to every recording that is there: it is uploaded, or   *)
(* marked as one to leave alone, or deleted.                               *)
EventuallyTracked ==
  \A r \in Recs : (r \in cdr /\ r \in local)
                    ~> (loc[r] # "untracked" \/ r \notin local)
=============================================================================
