----------------------- MODULE RecordingStorage_proofs -----------------------
(***************************************************************************)
(* Theorems about RecordingStorage, for any recordings, providers,         *)
(* policies and processes.                                                 *)
(***************************************************************************)
EXTENDS RecordingStorage, SequenceTheorems, TLAPS

Uploading == {"connect", "copy", "verify", "record", "unlink"}

(* What a mover has in hand where it stands: types alone are not           *)
(* inductive, for the head of an empty list of providers and the policy    *)
(* after the last have none.                                               *)
InHand(m) ==
  /\ pc[m] \in Uploading => rec[m] \in Recs
  /\ pc[m] \in Uploading \ {"connect"} => HasTarget(m)
  /\ m \in Exporters /\ pc[m] \notin {"idle", "policy"} => at[m] <= Len(Policies)

TypeInv == TypeOK /\ \A m \in Movers : InHand(m)

-----------------------------------------------------------------------------
(* Facts about the state.                                                  *)

LEMMA PolicyType ==
  ASSUME NEW i \in 1 .. Len(Policies)
  PROVE  Policies[i] \in [provider : Providers, removes : BOOLEAN]
<1> DEFINE P == [provider : Providers, removes : BOOLEAN]
<1>1. Policies \in Seq(P)
  BY ProviderAssumption
<1> HIDE DEF P
<1>2. Policies[i] \in P
  BY <1>1, ElementOfSeq
<1>3. QED
  BY <1>2 DEF P

LEMMA TargetType ==
  ASSUME TypeInv, NEW m \in Movers,
         pc[m] \notin {"idle", "policy"}, HasTarget(m)
  PROVE  Target(m) \in Providers
<1>1. CASE m \in Spoolers
  <2>1. left[m] \in Seq(Providers) /\ left[m] # <<>>
    BY <1>1 DEF TypeInv, TypeOK, HasTarget
  <2>2. Head(left[m]) \in Providers
    BY <2>1
  <2>3. QED
    BY <1>1, <2>2 DEF Target
<1>2. CASE m \in Exporters /\ m \notin Spoolers
  <2>1. at[m] \in 1 .. Len(Policies)
    BY <1>2, ProviderAssumption DEF TypeInv, TypeOK, InHand
  <2>2. Policies[at[m]] \in [provider : Providers, removes : BOOLEAN]
    BY <2>1, PolicyType
  <2>3. QED
    BY <1>2, <2>2 DEF Target
<1>3. QED
  BY <1>1, <1>2 DEF Movers

LEMMA CommitType ==
  ASSUME TypeInv, NEW e \in Exporters, at[e] <= Len(Policies), Commit(e)
  PROVE  /\ loc' \in [Recs -> Providers \cup {"untracked", "local"}]
         /\ pend' \in [Exporters -> SUBSET Recs]
<1>1. at[e] \in 1 .. Len(Policies)
  BY ProviderAssumption DEF TypeInv, TypeOK
<1>2. Policies[at[e]].provider \in Providers
  BY <1>1, PolicyType
<1>3. QED
  BY <1>2 DEF Commit, TypeInv, TypeOK

(* What RowDone and UploadFailed write has its type, and the mover that    *)
(* goes on with a row still has it in hand.                                *)
RowParts(m) ==
  /\ pc' \in [Movers -> {"idle", "policy", "next", "connect", "copy", "verify",
                         "record", "unlink"}]
  /\ rec' \in [Movers -> Recs \cup {NoRec}]
  /\ left' \in [Spoolers -> Seq(Providers)]
  /\ count' \in [Exporters -> Nat]
  /\ loc' \in [Recs -> Providers \cup {"untracked", "local"}]
  /\ pend' \in [Exporters -> SUBSET Recs]
  /\ pc'[m] \in {"next", "connect"}
  /\ pc'[m] = "connect" => rec'[m] = rec[m]
  /\ \A o \in Movers \ {m} : pc'[o] = pc[o] /\ rec'[o] = rec[o]
  /\ \A s \in Spoolers \ {m} : left'[s] = left[s]

LEMMA RowDoneParts ==
  ASSUME TypeInv, NEW m \in Movers, pc[m] \notin {"idle", "policy"}, RowDone(m)
  PROVE  RowParts(m)
<1>1. /\ loc' \in [Recs -> Providers \cup {"untracked", "local"}]
      /\ pend' \in [Exporters -> SUBSET Recs]
      /\ count' \in [Exporters -> Nat]
  <2>1. CASE m \in Exporters
    <3>1. at[m] <= Len(Policies)
      BY <2>1 DEF TypeInv, InHand
    <3>2. count' \in [Exporters -> Nat]
      BY <2>1 DEF RowDone, TypeInv, TypeOK
    <3>3. CASE Commit(m)
      BY <2>1, <3>1, <3>2, <3>3, CommitType
    <3>4. CASE UNCHANGED <<loc, pend>>
      BY <3>2, <3>4 DEF TypeInv, TypeOK
    <3>5. QED
      BY <2>1, <3>3, <3>4 DEF RowDone
  <2>2. CASE m \notin Exporters
    BY <2>2 DEF RowDone, TypeInv, TypeOK
  <2>3. QED
    BY <2>1, <2>2
<1>2. left' \in [Spoolers -> Seq(Providers)]
  BY DEF RowDone, TypeInv, TypeOK
<1>3. QED
  BY <1>1, <1>2 DEF RowDone, RowParts, Goto, TypeInv, TypeOK

LEMMA UploadFailedParts ==
  ASSUME TypeInv, NEW m \in Movers, pc[m] \notin {"idle", "policy"},
         HasTarget(m), UploadFailed(m)
  PROVE  RowParts(m)
<1>1. CASE m \in Spoolers
  <2>1. left[m] \in Seq(Providers) /\ left[m] # <<>>
    BY <1>1 DEF TypeInv, TypeOK, HasTarget
  <2>2. Tail(left[m]) \in Seq(Providers)
    BY <2>1
  <2>3. left' \in [Spoolers -> Seq(Providers)]
    BY <1>1, <2>2 DEF UploadFailed, TypeInv, TypeOK
  <2>4. QED
    BY <1>1, <2>3 DEF UploadFailed, RowParts, Goto, TypeInv, TypeOK
<1>2. CASE m \notin Spoolers
  BY <1>2, RowDoneParts DEF UploadFailed
<1>3. QED
  BY <1>1, <1>2

(* With these parts, and the rest of the state in its types, TypeInv holds *)
(* again.                                                                  *)
LEMMA RowPartsSuffice ==
  ASSUME TypeInv, NEW m \in Movers, RowParts(m), pc[m] \in Uploading,
         cdr' \subseteq Recs, local' \subseteq Recs,
         copy' \in [Recs -> [Providers -> File]],
         by' \in [Recs -> Movers \cup {"nobody", "cleaner"}], met' \subseteq Movers,
         UNCHANGED <<job, deadJob, todo, at, crashes>>
  PROVE  TypeInv'
<1>1. TypeOK'
  BY DEF TypeInv, TypeOK, RowParts
<1>2. ASSUME NEW o \in Movers PROVE InHand(o)'
  <2>1. CASE o = m
    BY <2>1 DEF TypeInv, InHand, RowParts, Uploading, HasTarget
  <2>2. CASE o # m
    <3>1. o \in Spoolers => left'[o] = left[o]
      BY <2>2 DEF RowParts
    <3>2. pc'[o] = pc[o] /\ rec'[o] = rec[o] /\ at'[o] = at[o]
      BY <2>2 DEF RowParts
    <3>3. QED
      BY <3>1, <3>2 DEF TypeInv, InHand, HasTarget
  <2>3. QED
    BY <2>1, <2>2
<1>3. QED
  BY <1>1, <1>2 DEF TypeInv

(* A step that moves one mover and keeps what the others have in hand.     *)
OthersKept(m) ==
  /\ \A o \in Movers \ {m} : pc'[o] = pc[o] /\ rec'[o] = rec[o]
  /\ \A s \in Spoolers \ {m} : left'[s] = left[s]
  /\ \A e \in Exporters \ {m} : at'[e] = at[e]

LEMMA InHandKept ==
  ASSUME TypeInv, NEW m \in Movers, OthersKept(m), InHand(m)'
  PROVE  \A o \in Movers : InHand(o)'
<1>1. ASSUME NEW o \in Movers, o # m PROVE InHand(o)'
  <2>1. InHand(o)
    BY DEF TypeInv
  <2>2. QED
    BY <1>1, <2>1 DEF OthersKept, InHand, HasTarget
<1>2. QED
  BY <1>1

-----------------------------------------------------------------------------
(* The steps keep the types.                                               *)

LEMMA DiesType ==
  ASSUME TypeInv, NEW m \in Movers, Dies(m), crashes' \in 0 .. MaxCrashes
  PROVE  TypeInv'
<1>1. TypeOK'
  <2>1. left' \in [Spoolers -> Seq(Providers)]
    BY DEF Dies, TypeInv, TypeOK
  <2>2. 1 \in 1 .. Len(Policies) + 1
    BY ProviderAssumption
  <2>3. at' \in [Exporters -> 1 .. Len(Policies) + 1]
    BY <2>2 DEF Dies, TypeInv, TypeOK
  <2>4. QED
    BY <2>1, <2>3 DEF Dies, Goto, disk, TypeInv, TypeOK
<1>2. OthersKept(m) /\ InHand(m)'
  BY DEF Dies, Goto, OthersKept, InHand, Uploading, TypeInv, TypeOK
<1>3. QED
  BY <1>1, <1>2, InHandKept DEF TypeInv

LEMMA EnvironmentType ==
  ASSUME TypeInv, NEW r \in Recs, CallEnds(r) \/ Clean(r)
  PROVE  TypeInv'
<1>1. TypeOK'
  <2>1. CASE CallEnds(r)
    BY <2>1 DEF CallEnds, TypeInv, TypeOK, rows, mind
  <2>2. CASE Clean(r)
    <3>1. copy' \in [Recs -> [Providers -> File]]
      <4>1. [copy[r] EXCEPT ![Walked] = "none"] \in [Providers -> File]
        BY DEF TypeInv, TypeOK, File
      <4>2. QED
        BY <2>2, <4>1 DEF Clean, TypeInv, TypeOK
    <3>2. met' \subseteq Movers
      BY <2>2 DEF Clean, At, TypeInv, TypeOK
    <3>3. QED
      BY <2>2, <3>1, <3>2 DEF Clean, TypeInv, TypeOK, rows, mind
  <2>3. QED
    BY <2>1, <2>2
<1>2. UNCHANGED mind
  BY DEF CallEnds, Clean
<1>3. QED
  BY <1>1, <1>2 DEF TypeInv, InHand, HasTarget, mind

LEMMA TakeType ==
  ASSUME TypeInv, NEW m \in Movers, Take(m)
  PROVE  TypeInv'
<1>1. TypeOK'
  <2>1. left' \in [Spoolers -> Seq(Providers)]
    <3> DEFINE Lists == Seq(Providers)
    <3>1. Order \in Lists /\ left \in [Spoolers -> Lists]
      BY ProviderAssumption DEF TypeInv, TypeOK
    <3> HIDE DEF Lists
    <3>2. [s \in Spoolers |-> IF s = m THEN Order ELSE left[s]] \in [Spoolers -> Lists]
      BY <3>1
    <3>3. \/ left' = left
          \/ left' = [s \in Spoolers |-> IF s = m THEN Order ELSE left[s]]
      BY DEF Take
    <3>4. left' \in [Spoolers -> Lists]
      BY <3>1, <3>2, <3>3
    <3>5. QED
      BY <3>4 DEF Lists
  <2>2. todo' \in [Movers -> SUBSET Recs] /\ rec' \in [Movers -> Recs \cup {NoRec}]
    <3> SUFFICES ASSUME NEW r \in todo[m],
                        todo' = [todo EXCEPT ![m] = todo[m] \ {r}],
                        rec' = [rec EXCEPT ![m] = r] \/ rec' = rec
                 PROVE  /\ todo' \in [Movers -> SUBSET Recs]
                        /\ rec' \in [Movers -> Recs \cup {NoRec}]
      BY DEF Take
    <3>1. r \in Recs
      BY DEF TypeInv, TypeOK
    <3>2. todo' \in [Movers -> SUBSET Recs]
      BY DEF TypeInv, TypeOK
    <3>3. rec' \in [Movers -> Recs \cup {NoRec}]
      BY <3>1 DEF TypeInv, TypeOK
    <3>4. QED
      BY <3>2, <3>3
  <2>3. pc' = [pc EXCEPT ![m] = "connect"] \/ pc' = pc
    BY DEF Take, Goto
  <2>4. pc' \in [Movers -> {"idle", "policy", "next", "connect", "copy", "verify",
                            "record", "unlink"}]
    BY <2>3 DEF TypeInv, TypeOK
  <2>5. count' \in [Exporters -> Nat]
    <3>1. count \in [Exporters -> Nat]
      BY DEF TypeInv, TypeOK
    <3>2. \/ count' = count
          \/ count' = [e \in Exporters |-> IF e = m THEN count[e] + 1 ELSE count[e]]
      BY DEF Take
    <3>3. QED
      BY <3>1, <3>2
  <2>6. UNCHANGED <<disk, rows, at, crashes>>
    BY DEF Take
  <2>7. QED
    BY <2>1, <2>2, <2>4, <2>5, <2>6 DEF disk, rows, TypeInv, TypeOK
<1>2. OthersKept(m)
  BY DEF Take, Goto, OthersKept, TypeInv, TypeOK
<1>3. InHand(m)'
  BY DEF Take, Goto, InHand, Uploading, TypeInv, TypeOK
<1>4. QED
  BY <1>1, <1>2, <1>3, InHandKept DEF TypeInv

LEMMA UploadType ==
  ASSUME TypeInv, NEW m \in Movers,
         Open(m) \/ ConnectFails(m) \/ CopyEnds(m) \/ CopyFails(m)
           \/ Verify(m) \/ Unlink(m)
  PROVE  TypeInv'
<1>1. /\ pc[m] \in Uploading /\ rec[m] \in Recs /\ HasTarget(m)
      /\ Target(m) \in Providers
  <2>1. pc[m] \in Uploading /\ HasTarget(m)
    BY DEF Open, ConnectFails, CopyEnds, CopyFails, Verify, Unlink, Uploading,
           TypeInv, InHand
  <2>2. QED
    BY <2>1, TargetType DEF TypeInv, InHand, Uploading
<1>0. met' \subseteq Movers
  BY DEF Open, ConnectFails, CopyEnds, CopyFails, Verify, Unlink, At, disk, TypeInv,
         TypeOK
<1>2. UploadFailed(m) \/ RowDone(m) => RowParts(m)
  BY <1>1, UploadFailedParts, RowDoneParts DEF Uploading
<1>3. ASSUME NEW f \in File, copy' = [copy EXCEPT ![rec[m]][Target(m)] = f]
      PROVE  copy' \in [Recs -> [Providers -> File]]
  BY <1>1, <1>3 DEF TypeInv, TypeOK
<1>4. ASSUME NEW place \in {"copy", "verify", "record"}, Goto(m, place),
             copy' \in [Recs -> [Providers -> File]],
             UNCHANGED <<cdr, local, by, loc, pend, job, deadJob, todo, rec,
                         left, at, count, crashes>>
      PROVE  TypeInv'
  <2>1. TypeOK'
    BY <1>0, <1>4 DEF Goto, TypeInv, TypeOK
  <2>2. OthersKept(m) /\ InHand(m)'
    BY <1>1, <1>4 DEF Goto, OthersKept, InHand, HasTarget, Uploading, TypeInv,
                      TypeOK
  <2>3. QED
    BY <2>1, <2>2, InHandKept DEF TypeInv
<1>5. CASE Open(m)
  <2>1. copy' \in [Recs -> [Providers -> File]]
    BY <1>3, <1>5 DEF Open, File, TypeInv, TypeOK
  <2>2. CASE rec[m] \in local
    BY <1>4, <1>5, <2>1, <2>2 DEF Open
  <2>3. CASE rec[m] \notin local
    BY <1>0, <1>1, <1>2, <1>5, <2>1, <2>3, RowPartsSuffice DEF Open, TypeInv, TypeOK
  <2>4. QED
    BY <2>2, <2>3
<1>6. CASE ConnectFails(m)
  BY <1>0, <1>1, <1>2, <1>6, RowPartsSuffice DEF ConnectFails, disk, TypeInv, TypeOK
<1>7. CASE CopyEnds(m)
  <2>1. Landing(m) \subseteq File
    BY DEF Landing, File
  <2>2. copy' \in [Recs -> [Providers -> File]]
    BY <1>3, <1>7, <2>1 DEF CopyEnds
  <2>3. QED
    BY <1>4, <1>7, <2>2 DEF CopyEnds, rows
<1>8. CASE CopyFails(m)
  BY <1>0, <1>1, <1>2, <1>8, RowPartsSuffice DEF CopyFails, disk, TypeInv, TypeOK
<1>9. CASE Verify(m)
  <2>1. copy' \in [Recs -> [Providers -> File]]
    BY <1>3, <1>9 DEF Verify, File, TypeInv, TypeOK
  <2>2. CASE Goto(m, "record") /\ UNCHANGED <<rec, left, count, loc, pend>>
    BY <1>4, <1>9, <2>1, <2>2 DEF Verify
  <2>3. CASE UploadFailed(m)
    BY <1>0, <1>1, <1>2, <1>9, <2>1, <2>3, RowPartsSuffice DEF Verify, TypeInv, TypeOK
  <2>4. QED
    BY <1>9, <2>2, <2>3 DEF Verify
<1>10. CASE Unlink(m)
  <2>1. by' \in [Recs -> Movers \cup {"nobody", "cleaner"}] /\ local' \subseteq Recs
    BY <1>10 DEF Unlink, TypeInv, TypeOK
  <2>2. QED
    BY <1>0, <1>1, <1>2, <1>10, <2>1, RowPartsSuffice DEF Unlink, TypeInv, TypeOK
<1>11. QED
  BY <1>5, <1>6, <1>7, <1>8, <1>9, <1>10

LEMMA SpoolerType ==
  ASSUME TypeInv, NEW s \in Spoolers, SpoolerSteps(s)
  PROVE  TypeInv'
<1> USE DEF Movers
<1>1. CASE SpoolerStarts(s)
  <2>1. todo' \in [Movers -> SUBSET Recs]
    BY <1>1 DEF SpoolerStarts, NewRecordings, TypeInv, TypeOK
  <2>2. TypeOK'
    BY <1>1, <2>1 DEF SpoolerStarts, Goto, disk, rows, TypeInv, TypeOK
  <2>3. OthersKept(s) /\ InHand(s)'
    BY <1>1, MoverAssumption
    DEF SpoolerStarts, Goto, OthersKept, InHand, Uploading, TypeInv, TypeOK
  <2>4. QED
    BY <2>2, <2>3, InHandKept DEF TypeInv
<1>2. CASE Uploads(s)
  BY <1>2, TakeType, UploadType DEF Uploads
<1>3. ASSUME NEW place \in {"unlink", "next"},
             NEW kept \in Providers \cup {"local"},
             Insert(s, kept), Goto(s, place),
             \/ place = "unlink" /\ pc[s] = "record" /\ rec' = rec
             \/ place = "next" /\ rec' = [rec EXCEPT ![s] = NoRec],
             UNCHANGED <<disk, pend, job, deadJob, todo, left, at, count, crashes>>
      PROVE  TypeInv'
  <2>1. loc' \in [Recs -> Providers \cup {"untracked", "local"}]
    BY <1>3 DEF Insert, TypeInv, TypeOK
  <2>2. pc' \in [Movers -> {"idle", "policy", "next", "connect", "copy",
                            "verify", "record", "unlink"}]
    BY <1>3 DEF Goto, TypeInv, TypeOK
  <2>3. TypeOK'
    BY <1>3, <2>1, <2>2 DEF disk, TypeInv, TypeOK
  <2>4. OthersKept(s)
    BY <1>3 DEF Goto, OthersKept, TypeInv, TypeOK
  <2>5. InHand(s)'
    BY <1>3, MoverAssumption
    DEF Goto, InHand, HasTarget, Uploading, TypeInv, TypeOK
  <2>6. QED
    BY <2>3, <2>4, <2>5, InHandKept DEF TypeInv
<1>4. CASE RecordUpload(s)
  <2>1. Target(s) \in Providers
    BY <1>4, TargetType DEF RecordUpload, TypeInv, InHand, Uploading
  <2>2. QED
    BY <1>3, <1>4, <2>1 DEF RecordUpload
<1>5. CASE MarkLocal(s)
  BY <1>3, <1>5 DEF MarkLocal
<1>6. CASE NotUnique(s)
  BY <1>6, DiesType DEF NotUnique, TypeInv, TypeOK
<1>7. CASE SpoolerEnds(s)
  <2>1. TypeOK'
    BY <1>7 DEF SpoolerEnds, Goto, disk, rows, TypeInv, TypeOK
  <2>2. OthersKept(s) /\ InHand(s)'
    BY <1>7 DEF SpoolerEnds, Goto, OthersKept, InHand, Uploading, TypeInv, TypeOK
  <2>3. QED
    BY <2>1, <2>2, InHandKept DEF TypeInv
<1>8. QED
  BY <1>1, <1>2, <1>4, <1>5, <1>6, <1>7 DEF SpoolerSteps

LEMMA ExporterType ==
  ASSUME TypeInv, NEW e \in Exporters, ExporterStarts(e) \/ ExporterSteps(e)
  PROVE  TypeInv'
<1> USE DEF Movers
<1>1. at[e] \in 1 .. Len(Policies) + 1 /\ Len(Policies) \in Nat
  BY ProviderAssumption DEF TypeInv, TypeOK
<1>2. ASSUME OthersKept(e), InHand(e)', TypeOK' PROVE TypeInv'
  BY <1>2, InHandKept DEF TypeInv
<1>3. CASE ExporterStarts(e)
  <2>1. TypeOK'
    BY <1>3 DEF ExporterStarts, Goto, disk, rows, TypeInv, TypeOK
  <2>2. OthersKept(e) /\ InHand(e)'
    BY <1>3 DEF ExporterStarts, Goto, OthersKept, InHand, Uploading, TypeInv, TypeOK
  <2>3. QED
    BY <1>2, <2>1, <2>2
<1>4. CASE Uploads(e)
  BY <1>4, TakeType, UploadType DEF Uploads
<1>5. CASE LockedOut(e)
  BY <1>5, DiesType DEF LockedOut, TypeInv, TypeOK
<1>6. CASE BeginPolicy(e)
  <2>1. todo' \in [Movers -> SUBSET Recs]
    BY <1>6 DEF BeginPolicy, Eligible, TypeInv, TypeOK
  <2>2. TypeOK'
    BY <1>6, <2>1 DEF BeginPolicy, Goto, disk, TypeInv, TypeOK
  <2>3. OthersKept(e) /\ InHand(e)'
    BY <1>6 DEF BeginPolicy, Goto, OthersKept, InHand, Uploading, TypeInv, TypeOK
  <2>4. QED
    BY <1>2, <2>2, <2>3
<1>7. CASE SkipPolicy(e)
  <2>1. at' \in [Exporters -> 1 .. Len(Policies) + 1]
    BY <1>1, <1>7 DEF SkipPolicy, TypeInv, TypeOK
  <2>2. TypeOK'
    BY <1>7, <2>1 DEF SkipPolicy, disk, rows, TypeInv, TypeOK
  <2>3. OthersKept(e) /\ InHand(e)'
    BY <1>7 DEF SkipPolicy, OthersKept, InHand, Uploading, TypeInv, TypeOK
  <2>4. QED
    BY <1>2, <2>2, <2>3
<1>8. CASE RecordExport(e)
  <2>1. rec[e] \in Recs /\ HasTarget(e)
    BY <1>8 DEF RecordExport, TypeInv, InHand, Uploading
  <2>2. pend' \in [Exporters -> SUBSET Recs]
    BY <1>8, <2>1 DEF RecordExport, TypeInv, TypeOK
  <2>3. TypeOK'
    BY <1>8, <2>2 DEF RecordExport, Goto, disk, TypeInv, TypeOK
  <2>4. OthersKept(e) /\ InHand(e)'
    BY <1>8, <2>1
    DEF RecordExport, Goto, OthersKept, InHand, HasTarget, Uploading, TypeInv, TypeOK
  <2>5. QED
    BY <1>2, <2>3, <2>4
<1>9. CASE EndPolicy(e)
  <2>1. at[e] <= Len(Policies)
    BY <1>9 DEF EndPolicy, TypeInv, InHand
  <2>2. at' \in [Exporters -> 1 .. Len(Policies) + 1]
    BY <1>1, <1>9, <2>1 DEF EndPolicy, TypeInv, TypeOK
  <2>3. /\ loc' \in [Recs -> Providers \cup {"untracked", "local"}]
        /\ pend' \in [Exporters -> SUBSET Recs]
    BY <1>9, <2>1, CommitType DEF EndPolicy
  <2>4. TypeOK'
    BY <1>9, <2>2, <2>3 DEF EndPolicy, Goto, disk, TypeInv, TypeOK
  <2>5. OthersKept(e) /\ InHand(e)'
    BY <1>9 DEF EndPolicy, Goto, OthersKept, InHand, Uploading, TypeInv, TypeOK
  <2>6. QED
    BY <1>2, <2>4, <2>5
<1>10. CASE ExporterEnds(e)
  <2>1. at' \in [Exporters -> 1 .. Len(Policies) + 1]
    BY <1>1, <1>10 DEF ExporterEnds, TypeInv, TypeOK
  <2>2. TypeOK'
    BY <1>10, <2>1 DEF ExporterEnds, Goto, disk, rows, TypeInv, TypeOK
  <2>3. OthersKept(e) /\ InHand(e)'
    BY <1>10 DEF ExporterEnds, Goto, OthersKept, InHand, Uploading, TypeInv, TypeOK
  <2>4. QED
    BY <1>2, <2>2, <2>3
<1>11. QED
  BY <1>3, <1>4, <1>5, <1>6, <1>7, <1>8, <1>9, <1>10 DEF ExporterSteps

LEMMA TypeInit == Init => TypeInv
<1> SUFFICES ASSUME Init PROVE TypeInv
  OBVIOUS
<1>1. TypeOK
  <2>1. 1 \in 1 .. Len(Policies) + 1 /\ 0 \in 0 .. MaxCrashes
    BY ProviderAssumption, BoundsAssumption
  <2>2. left \in [Spoolers -> Seq(Providers)]
    BY DEF Init
  <2>3. QED
    BY <2>1, <2>2 DEF Init, TypeOK, File
<1>2. QED
  BY <1>1 DEF Init, TypeInv, InHand, Uploading

LEMMA TypeStep == TypeInv /\ [Next]_vars => TypeInv'
<1> SUFFICES ASSUME TypeInv, [Next]_vars PROVE TypeInv'
  OBVIOUS
<1>1. ASSUME NEW r \in Recs, CallEnds(r) \/ Clean(r) PROVE TypeInv'
  BY <1>1, EnvironmentType
<1>2. ASSUME NEW s \in Spoolers, SpoolerSteps(s) PROVE TypeInv'
  BY <1>2, SpoolerType
<1>3. ASSUME NEW e \in Exporters, ExporterStarts(e) \/ ExporterSteps(e)
      PROVE  TypeInv'
  BY <1>3, ExporterType
<1>4. ASSUME NEW m \in Movers, Crash(m) \/ LockTimeout(m) PROVE TypeInv'
  <2>1. crashes' \in 0 .. MaxCrashes
    BY <1>4, BoundsAssumption DEF Crash, LockTimeout, TypeInv, TypeOK
  <2>2. QED
    BY <1>4, <2>1, DiesType DEF Crash, LockTimeout
<1>5. CASE UNCHANGED vars
  BY <1>5 DEF vars, disk, rows, mind, TypeInv, TypeOK, InHand, HasTarget
<1>6. QED
  BY <1>1, <1>2, <1>3, <1>4, <1>5 DEF Next

(* Every variable keeps its type, whatever recordings, providers, policies *)
(* and processes there are (process_new_recordings, run_policy).           *)
THEOREM TypeCorrect == Spec => []TypeOK
<1>1. TypeInv => TypeOK
  BY DEF TypeInv
<1>2. QED
  BY TypeInit, TypeStep, <1>1, PTL DEF Spec

-----------------------------------------------------------------------------
(***************************************************************************)
(* Deleting a recording is safe: from the opening of the copy until the    *)
(* local file is deleted nobody else writes to the copy, or the mover has  *)
(* been met.                                                               *)
(***************************************************************************)

(* The providers a mover may write to.                                     *)
Targets(m) ==
  IF m \in Spoolers
  THEN {Order[i] : i \in 1 .. Len(Order)}
  ELSE {Policies[i].provider : i \in 1 .. Len(Policies)}

(* The spooler tries what is left of the order.                            *)
LeftInv == \A s \in Spoolers : left[s] \in Seq(Targets(s))

(* Nobody else is writing where a mover writes.                            *)
Alone(m) == \A o \in At(rec[m], Target(m)) : o # m => pc[o] # "copy"

(* The copy of the recording in hand, at every stage of its upload.        *)
CopyAt(m) ==
  m \notin met =>
    /\ pc[m] = "copy" => copy[rec[m]][Target(m)] = "partial"
    /\ pc[m] \in {"verify", "record", "unlink"} =>
         copy[rec[m]][Target(m)] = "whole"
    /\ pc[m] \in Stages => Alone(m)

SafeInv == TypeInv /\ LeftInv /\ \A m \in Movers : CopyAt(m)

-----------------------------------------------------------------------------
LEMMA TargetsType ==
  ASSUME NEW m \in Movers
  PROVE  Targets(m) \subseteq Providers
<1>1. CASE m \in Spoolers
  <2>1. ASSUME NEW i \in 1 .. Len(Order) PROVE Order[i] \in Providers
    BY ProviderAssumption, ElementOfSeq
  <2>2. QED
    BY <1>1, <2>1 DEF Targets
<1>2. CASE m \notin Spoolers
  BY <1>2, PolicyType DEF Targets
<1>3. QED
  BY <1>1, <1>2

LEMMA OrderOfTargets ==
  ASSUME NEW s \in Spoolers
  PROVE  Order \in Seq(Targets(s))
<1>1. ASSUME NEW i \in 1 .. Len(Order) PROVE Order[i] \in Targets(s)
  BY DEF Targets
<1>2. Order \in Seq(Providers)
  BY ProviderAssumption
<1>3. QED
  BY <1>1, <1>2

LEMMA TargetInTargets ==
  ASSUME TypeInv, LeftInv, NEW m \in Movers,
         pc[m] \notin {"idle", "policy"}, HasTarget(m)
  PROVE  Target(m) \in Targets(m)
<1>1. CASE m \in Spoolers
  <2>1. left[m] \in Seq(Targets(m)) /\ left[m] # <<>>
    BY <1>1 DEF LeftInv, HasTarget
  <2>2. Head(left[m]) \in Targets(m)
    BY <2>1
  <2>3. QED
    BY <1>1, <2>2 DEF Target
<1>2. CASE m \in Exporters /\ m \notin Spoolers
  <2>1. at[m] \in 1 .. Len(Policies)
    BY <1>2, ProviderAssumption DEF TypeInv, TypeOK, InHand
  <2>2. QED
    BY <1>2, <2>1 DEF Target, Targets
<1>3. QED
  BY <1>1, <1>2 DEF Movers

(* A step of one mover that writes to no other copy than its own, and to   *)
(* that one alone or in sight of the others, keeps what every other mover  *)
(* knows of its copy.                                                      *)
OwnCopyOnly(m) ==
  /\ met \ {m} \subseteq met'
  /\ \/ copy' = copy /\ pc'[m] # "copy"
     \/ /\ pc[m] \in Uploading /\ HasTarget(m)
        /\ \E f \in File : copy' = [copy EXCEPT ![rec[m]][Target(m)] = f]
        /\ pc'[m] = "copy" => rec'[m] = rec[m] /\ Target(m)' = Target(m)
        /\ \/ At(rec[m], Target(m)) \ {m} \subseteq met'
           \/ pc[m] = "copy" /\ pc'[m] # "copy"

LEMMA OthersCopyKept ==
  ASSUME SafeInv, NEW m \in Movers, OthersKept(m), OwnCopyOnly(m),
         NEW o \in Movers, o # m
  PROVE  CopyAt(o)'
<1>1. CASE pc[o] \notin Stages \/ o \in met'
  BY <1>1 DEF OthersKept, CopyAt, Stages
<1>2. CASE pc[o] \in Stages /\ o \notin met'
  <2>1. HasTarget(o) /\ rec[o] \in Recs
    BY <1>2 DEF SafeInv, TypeInv, InHand, Uploading, Stages
  <2>2. o \notin met
    BY <1>2 DEF OwnCopyOnly
  <2>3. Target(o)' = Target(o) /\ rec'[o] = rec[o] /\ pc'[o] = pc[o]
    BY MoverAssumption DEF OthersKept, Target, Movers
  <2>4. Alone(o)
    BY <1>2, <2>2 DEF SafeInv, CopyAt
  <2>5. ASSUME NEW w \in Movers, w # o, w # m, pc'[w] = "copy", rec'[w] = rec[o],
               Target(w)' = Target(o)
        PROVE  FALSE
    <3>1. pc[w] = "copy" /\ rec[w] = rec[o] /\ Target(w) = Target(o)
      BY <2>5, MoverAssumption DEF OthersKept, Target, Movers
    <3>2. QED
      BY <2>4, <2>5, <3>1 DEF Alone, At, Stages
  <2>6. CASE copy' = copy /\ pc'[m] # "copy"
    <3>1. Alone(o)'
      BY <2>3, <2>5, <2>6 DEF Alone, At
    <3>2. QED
      BY <1>2, <2>2, <2>3, <2>6, <3>1 DEF CopyAt, SafeInv
  <2>7. CASE ~(copy' = copy /\ pc'[m] # "copy")
    <3>1. ~(rec[m] = rec[o] /\ Target(m) = Target(o))
      <4> SUFFICES ASSUME rec[m] = rec[o], Target(m) = Target(o) PROVE FALSE
        OBVIOUS
      <4>1. o \in At(rec[m], Target(m)) \ {m}
        BY <1>2 DEF At
      <4>2. pc[m] = "copy"
        BY <1>2, <2>7, <4>1 DEF OwnCopyOnly
      <4>3. QED
        BY <2>4, <4>2 DEF Alone, At, Stages
    <3>2. PICK f \in File : copy' = [copy EXCEPT ![rec[m]][Target(m)] = f]
      BY <2>7 DEF OwnCopyOnly
    <3>3. copy'[rec[o]][Target(o)] = copy[rec[o]][Target(o)]
      BY <2>1, <3>1, <3>2 DEF SafeInv, TypeInv, TypeOK
    <3>4. pc'[m] = "copy" => rec'[m] = rec[m] /\ Target(m)' = Target(m)
      BY <2>7 DEF OwnCopyOnly
    <3>5. Alone(o)'
      BY <2>3, <2>5, <3>1, <3>4 DEF Alone, At
    <3>6. QED
      BY <1>2, <2>2, <2>3, <3>3, <3>5 DEF CopyAt, SafeInv
  <2>8. QED
    BY <2>6, <2>7
<1>3. QED
  BY <1>1, <1>2

(* And what it is alone with stays its own.                                *)
LEMMA AloneKept ==
  ASSUME NEW m \in Movers, OthersKept(m), Alone(m), rec'[m] = rec[m],
         Target(m)' = Target(m)
  PROVE  Alone(m)'
<1> SUFFICES ASSUME NEW w \in Movers, w # m, pc'[w] = "copy", rec'[w] = rec[m],
                    Target(w)' = Target(m)
             PROVE  FALSE
  BY DEF Alone, At
<1>1. pc[w] = "copy" /\ rec[w] = rec[m] /\ Target(w) = Target(m)
  BY MoverAssumption DEF OthersKept, Target, Movers
<1>2. QED
  BY <1>1 DEF Alone, At, Stages

LEMMA OneMover ==
  ASSUME SafeInv, NEW m \in Movers, OthersKept(m), OwnCopyOnly(m),
         TypeInv', LeftInv', CopyAt(m)'
  PROVE  SafeInv'
BY OthersCopyKept DEF SafeInv

-----------------------------------------------------------------------------
(* The steps.                                                              *)

LEMMA RowLeft ==
  ASSUME SafeInv, NEW m \in Movers, pc[m] \in Uploading, HasTarget(m),
         UploadFailed(m) \/ RowDone(m)
  PROVE  LeftInv' /\ RowParts(m)
<1>1. RowParts(m)
  BY UploadFailedParts, RowDoneParts DEF SafeInv, Uploading
<1>2. ASSUME NEW s \in Spoolers PROVE left'[s] \in Seq(Targets(s))
  <2>1. left[s] \in Seq(Targets(s))
    BY DEF SafeInv, LeftInv
  <2>2. CASE s # m
    BY <1>1, <2>1, <2>2 DEF RowParts
  <2>3. CASE s = m /\ RowDone(m)
    BY <2>3 DEF RowDone
  <2>4. CASE s = m /\ ~RowDone(m)
    <3>1. left[s] # <<>>
      BY <2>4 DEF HasTarget
    <3>2. Tail(left[s]) \in Seq(Targets(s))
      BY <2>1, <3>1
    <3>3. left'[s] = Tail(left[s])
      BY <2>4 DEF UploadFailed, SafeInv, TypeInv, TypeOK
    <3>4. QED
      BY <3>2, <3>3
  <2>5. QED
    BY <2>2, <2>3, <2>4
<1>3. ASSUME NEW s \in Spoolers PROVE Targets(s)' = Targets(s)
  BY DEF Targets
<1>4. QED
  BY <1>1, <1>2, <1>3 DEF LeftInv

LEMMA UploadSafe ==
  ASSUME SafeInv, NEW m \in Movers,
         Open(m) \/ ConnectFails(m) \/ CopyEnds(m) \/ CopyFails(m)
           \/ Verify(m) \/ Unlink(m)
  PROVE  SafeInv'
<1>1. TypeInv'
  BY UploadType DEF SafeInv
<1>2. /\ pc[m] \in Uploading /\ rec[m] \in Recs /\ HasTarget(m)
      /\ Target(m) \in Providers
  <2>1. pc[m] \in Uploading /\ HasTarget(m)
    BY DEF Open, ConnectFails, CopyEnds, CopyFails, Verify, Unlink, Uploading,
           SafeInv, TypeInv, InHand
  <2>2. QED
    BY <2>1, TargetType DEF SafeInv, TypeInv, InHand, Uploading
(* The row is over, or the next provider's turn has come.                  *)
<1>3. ASSUME UploadFailed(m) \/ RowDone(m), UNCHANGED at,
             pc'[m] # "copy" => OwnCopyOnly(m)
      PROVE  SafeInv'
  <2>1. LeftInv' /\ RowParts(m)
    BY <1>2, <1>3, RowLeft
  <2>2. OthersKept(m) /\ CopyAt(m)' /\ pc'[m] # "copy"
    BY <1>3, <2>1 DEF RowParts, OthersKept, CopyAt, Stages
  <2>3. QED
    BY <1>1, <1>3, <2>1, <2>2, OneMover
(* The upload goes on.                                                     *)
<1>4. ASSUME NEW place \in {"copy", "verify", "record"}, Goto(m, place),
             UNCHANGED <<rec, left, at>>,
             (pc'[m] = place /\ Target(m)' = Target(m)) => OwnCopyOnly(m),
             m \notin met' =>
               /\ copy'[rec[m]][Target(m)] = (IF place = "copy" THEN "partial"
                                                               ELSE "whole")
               /\ Alone(m)
      PROVE  SafeInv'
  <2>1. OthersKept(m)
    BY <1>4 DEF Goto, OthersKept, SafeInv, TypeInv, TypeOK
  <2>2. LeftInv'
    BY <1>4 DEF LeftInv, Targets, SafeInv
  <2>3. pc'[m] = place /\ rec'[m] = rec[m] /\ Target(m)' = Target(m)
    BY <1>4 DEF Goto, Target, SafeInv, TypeInv, TypeOK
  <2>4. CopyAt(m)'
    <3>1. m \notin met' => Alone(m)'
      BY <1>4, <2>1, <2>3, AloneKept
    <3>2. QED
      BY <1>4, <2>3, <3>1 DEF CopyAt
  <2>5. QED
    BY <1>1, <1>4, <2>1, <2>2, <2>3, <2>4, OneMover
(* Nothing is written.                                                     *)
<1>5. ASSUME UNCHANGED <<copy, met>>, pc'[m] # "copy" PROVE OwnCopyOnly(m)
  BY <1>5 DEF OwnCopyOnly
<1>6. CASE Open(m)
  <2>1. CASE rec[m] \in local
    <3>1. /\ copy' = [copy EXCEPT ![rec[m]][Target(m)] = "partial"]
          /\ met' = (met \ {m}) \cup At(rec[m], Target(m))
                      \cup {o \in {m} : \E w \in At(rec[m], Target(m)) : pc[w] = "copy"}
      BY <1>6, <2>1 DEF Open
    <3>2. copy'[rec[m]][Target(m)] = "partial"
      BY <1>2, <3>1 DEF SafeInv, TypeInv, TypeOK
    <3>3. m \notin met' => Alone(m)
      BY <3>1 DEF Alone
    <3>4. Goto(m, "copy") /\ UNCHANGED <<rec, left, at>>
      BY <1>6, <2>1 DEF Open
    <3>5. ASSUME Target(m)' = Target(m) PROVE OwnCopyOnly(m)
      <4>1. "partial" \in File
        BY DEF File
      <4>2. At(rec[m], Target(m)) \subseteq met' /\ met \ {m} \subseteq met'
        BY <3>1
      <4>3. QED
        BY <1>2, <3>1, <3>4, <3>5, <4>1, <4>2 DEF OwnCopyOnly
    <3>6. QED
      BY <1>4, <3>2, <3>3, <3>4, <3>5
  <2>2. CASE rec[m] \notin local
    BY <1>3, <1>5, <1>6, <2>2 DEF Open
  <2>3. QED
    BY <2>1, <2>2
<1>7. CASE ConnectFails(m)
  BY <1>3, <1>5, <1>7 DEF ConnectFails, disk
<1>8. CASE CopyEnds(m)
  <2>1. PICK f \in Landing(m) :
          /\ copy' = [copy EXCEPT ![rec[m]][Target(m)] = f]
          /\ met' = met \cup {o \in {m} : f = "beneath"}
    BY <1>8 DEF CopyEnds
  <2>2. pc[m] = "copy" /\ Goto(m, "verify") /\ UNCHANGED <<rec, left, at>>
    BY <1>8 DEF CopyEnds
  <2>3. ASSUME m \notin met' PROVE f = "whole" /\ Alone(m)
    <3>1. copy[rec[m]][Target(m)] = "partial" /\ Alone(m)
      BY <2>1, <2>2, <2>3 DEF SafeInv, CopyAt, Stages
    <3>2. {o \in At(rec[m], Target(m)) \ {m} : pc[o] = "copy"} = {}
      BY <3>1 DEF Alone
    <3>3. f \in {"whole", "beneath"}
      BY <2>1, <3>1, <3>2 DEF Landing
    <3>4. QED
      BY <2>1, <2>3, <3>1, <3>3
  <2>4. copy'[rec[m]][Target(m)] = f
    BY <1>2, <2>1 DEF SafeInv, TypeInv, TypeOK
  <2>5. ASSUME pc'[m] = "verify" PROVE OwnCopyOnly(m)
    <3>1. f \in File
      BY DEF Landing, File
    <3>2. QED
      BY <1>2, <2>1, <2>2, <2>5, <3>1 DEF OwnCopyOnly
  <2>6. QED
    BY <1>4, <2>2, <2>3, <2>4, <2>5
<1>9. CASE CopyFails(m)
  BY <1>3, <1>5, <1>9 DEF CopyFails, disk
<1>10. CASE Verify(m)
  <2>1. CASE /\ copy[rec[m]][Target(m)] = "partial" /\ UploadFailed(m)
             /\ copy' = [copy EXCEPT ![rec[m]][Target(m)] = "none"]
             /\ met' = met \cup At(rec[m], Target(m))
    <3>1. pc'[m] # "copy" => OwnCopyOnly(m)
      BY <1>2, <2>1 DEF OwnCopyOnly, File
    <3>2. QED
      BY <1>3, <1>10, <2>1, <3>1 DEF Verify
  <2>2. CASE UploadFailed(m) /\ UNCHANGED <<copy, met>>
    BY <1>3, <1>5, <1>10, <2>2 DEF Verify
  <2>3. CASE /\ Goto(m, "record")
             /\ UNCHANGED <<copy, met, rec, left, count, loc, pend>>
    <3>1. m \notin met => copy[rec[m]][Target(m)] = "whole" /\ Alone(m)
      BY <1>10 DEF Verify, SafeInv, CopyAt, Stages
    <3>2. QED
      BY <1>4, <1>5, <1>10, <2>3, <3>1 DEF Verify
  <2>4. QED
    BY <1>10, <2>1, <2>2, <2>3 DEF Verify
<1>11. CASE Unlink(m)
  BY <1>3, <1>5, <1>11 DEF Unlink
<1>12. QED
  BY <1>6, <1>7, <1>8, <1>9, <1>10, <1>11

(* Every other step of a mover writes to no copy.                          *)
LEMMA QuietStep ==
  ASSUME SafeInv, NEW m \in Movers, TypeInv', OthersKept(m),
         UNCHANGED <<copy, met>>, pc'[m] # "copy", CopyAt(m)',
         m \in Spoolers => left'[m] \in {left[m], <<>>, Order}
  PROVE  SafeInv'
<1>1. ASSUME NEW s \in Spoolers PROVE left'[s] \in Seq(Targets(s))
  <2> DEFINE Lists == Seq(Targets(s))
  <2>1. Order \in Lists /\ left[s] \in Lists /\ <<>> \in Lists
    BY OrderOfTargets DEF SafeInv, LeftInv
  <2>2. left'[s] \in {left[s], <<>>, Order}
    BY DEF OthersKept
  <2> HIDE DEF Lists
  <2>3. left'[s] \in Lists
    BY <2>1, <2>2
  <2>4. QED
    BY <2>3 DEF Lists
<1>2. LeftInv'
  BY <1>1 DEF LeftInv, Targets
<1>3. QED
  BY <1>2, OneMover DEF OwnCopyOnly

LEMMA DiesSafe ==
  ASSUME SafeInv, NEW m \in Movers, Dies(m), TypeInv'
  PROVE  SafeInv'
<1>1. OthersKept(m) /\ CopyAt(m)' /\ pc'[m] # "copy"
  BY DEF Dies, Goto, OthersKept, CopyAt, Stages, SafeInv, TypeInv, TypeOK
<1>2. UNCHANGED <<copy, met>> /\ (m \in Spoolers => left'[m] = <<>>)
  BY DEF Dies, disk
<1>3. QED
  BY <1>1, <1>2, QuietStep

LEMMA TakeSafe ==
  ASSUME SafeInv, NEW m \in Movers, Take(m)
  PROVE  SafeInv'
<1>1. TypeInv'
  BY TakeType DEF SafeInv
<1>2. OthersKept(m) /\ CopyAt(m)' /\ pc'[m] # "copy"
  BY DEF Take, Goto, OthersKept, CopyAt, Stages, SafeInv, TypeInv, TypeOK
<1>3. UNCHANGED <<copy, met>> /\ (m \in Spoolers => left'[m] \in {left[m], Order})
  BY DEF Take, disk
<1>4. QED
  BY <1>1, <1>2, <1>3, QuietStep

LEMMA SpoolerSafe ==
  ASSUME SafeInv, NEW s \in Spoolers, SpoolerSteps(s)
  PROVE  SafeInv'
<1> USE DEF Movers
<1>1. TypeInv'
  BY SpoolerType DEF SafeInv
<1>2. CASE Uploads(s)
  BY <1>2, TakeSafe, UploadSafe DEF Uploads
<1>3. CASE NotUnique(s)
  BY <1>1, <1>3, DiesSafe DEF NotUnique
<1>4. CASE SpoolerStarts(s) \/ RecordUpload(s) \/ MarkLocal(s) \/ SpoolerEnds(s)
  <2>1. UNCHANGED <<copy, met>> /\ left' = left
    BY <1>4 DEF SpoolerStarts, RecordUpload, MarkLocal, SpoolerEnds, disk
  <2>2. OthersKept(s) /\ pc'[s] # "copy"
    BY <1>4 DEF SpoolerStarts, RecordUpload, MarkLocal, SpoolerEnds, Goto,
                OthersKept, SafeInv, TypeInv, TypeOK
  <2>3. CopyAt(s)'
    <3>1. CASE RecordUpload(s)
      <4>1. s \notin met => copy[rec[s]][Target(s)] = "whole" /\ Alone(s)
        BY <3>1 DEF RecordUpload, SafeInv, CopyAt, Stages
      <4>2. Target(s)' = Target(s) /\ rec' = rec
        BY <2>1, <3>1 DEF RecordUpload, Target
      <4>3. pc'[s] = "unlink"
        BY <3>1 DEF RecordUpload, Goto, SafeInv, TypeInv, TypeOK
      <4>4. Alone(s) => Alone(s)'
        BY <2>2, <4>2, AloneKept
      <4>5. QED
        BY <2>1, <4>1, <4>2, <4>3, <4>4 DEF CopyAt
    <3>2. CASE ~RecordUpload(s)
      BY <1>4, <3>2 DEF SpoolerStarts, MarkLocal, SpoolerEnds, Goto, CopyAt,
                        Stages, SafeInv, TypeInv, TypeOK
    <3>3. QED
      BY <3>1, <3>2
  <2>4. QED
    BY <1>1, <2>1, <2>2, <2>3, QuietStep
<1>5. QED
  BY <1>2, <1>3, <1>4 DEF SpoolerSteps

LEMMA ExporterSafe ==
  ASSUME SafeInv, NEW e \in Exporters, ExporterStarts(e) \/ ExporterSteps(e)
  PROVE  SafeInv'
<1> USE DEF Movers
<1>1. TypeInv'
  BY ExporterType DEF SafeInv
<1>2. CASE Uploads(e)
  BY <1>2, TakeSafe, UploadSafe DEF Uploads
<1>3. CASE LockedOut(e)
  BY <1>1, <1>3, DiesSafe DEF LockedOut
<1>4. CASE RecordExport(e)
  <2>1. OthersKept(e) /\ UNCHANGED <<copy, met>> /\ left' = left
    BY <1>4 DEF RecordExport, Goto, disk, OthersKept, SafeInv, TypeInv, TypeOK
  <2>2. CopyAt(e)'
    <3>1. e \notin met => copy[rec[e]][Target(e)] = "whole" /\ Alone(e)
      BY <1>4 DEF RecordExport, SafeInv, CopyAt, Stages
    <3>2. Target(e)' = Target(e) /\ rec' = rec
      BY <1>4 DEF RecordExport, Target
    <3>3. pc'[e] = "unlink"
      BY <1>4 DEF RecordExport, Goto, SafeInv, TypeInv, TypeOK
    <3>4. Alone(e) => Alone(e)'
      BY <2>1, <3>2, AloneKept
    <3>5. QED
      BY <2>1, <3>1, <3>2, <3>3, <3>4 DEF CopyAt
  <2>3. pc'[e] # "copy"
    BY <1>4 DEF RecordExport, Goto, SafeInv, TypeInv, TypeOK
  <2>4. QED
    BY <1>1, <2>1, <2>2, <2>3, QuietStep
<1>5. CASE ExporterStarts(e) \/ BeginPolicy(e) \/ SkipPolicy(e) \/ EndPolicy(e)
             \/ ExporterEnds(e)
  <2>1. UNCHANGED <<copy, met>> /\ left' = left
    BY <1>5 DEF ExporterStarts, BeginPolicy, SkipPolicy, EndPolicy, ExporterEnds, disk
  <2>2. OthersKept(e) /\ pc'[e] # "copy"
    BY <1>5 DEF ExporterStarts, BeginPolicy, SkipPolicy, EndPolicy, ExporterEnds,
                Goto, OthersKept, SafeInv, TypeInv, TypeOK
  <2>3. CopyAt(e)'
    BY <1>5 DEF ExporterStarts, BeginPolicy, SkipPolicy, EndPolicy, ExporterEnds,
                Goto, CopyAt, Stages, SafeInv, TypeInv, TypeOK
  <2>4. QED
    BY <1>1, <2>1, <2>2, <2>3, QuietStep
<1>6. QED
  BY <1>2, <1>3, <1>4, <1>5 DEF ExporterSteps

LEMMA EnvironmentSafe ==
  ASSUME SafeInv, NEW r \in Recs, CallEnds(r) \/ Clean(r)
  PROVE  SafeInv'
<1>1. TypeInv'
  BY EnvironmentType DEF SafeInv
<1>2. UNCHANGED mind
  BY DEF CallEnds, Clean
<1>3. LeftInv'
  BY <1>2 DEF SafeInv, LeftInv, Targets, mind
<1>4. ASSUME NEW m \in Movers PROVE CopyAt(m)'
  <2>1. /\ Target(m)' = Target(m) /\ (Alone(m) => Alone(m)')
        /\ pc'[m] = pc[m] /\ rec'[m] = rec[m]
    BY <1>2 DEF Alone, At, Target, mind
  <2>2. CASE UNCHANGED <<copy, met>>
    BY <2>1, <2>2 DEF CopyAt, SafeInv
  <2>3. CASE ~UNCHANGED <<copy, met>>
    <3>1. /\ copy' = [copy EXCEPT ![r][Walked] = "none"]
          /\ met' = met \cup At(r, Walked)
      BY <2>3 DEF CallEnds, Clean
    <3>2. CASE pc[m] \in Stages /\ m \notin met'
      <4>1. rec[m] \in Recs /\ ~(rec[m] = r /\ Target(m) = Walked) /\ m \notin met
        BY <3>1, <3>2 DEF At, SafeInv, TypeInv, InHand, Uploading, Stages
      <4>2. copy'[rec[m]][Target(m)] = copy[rec[m]][Target(m)]
        BY <3>1, <4>1 DEF SafeInv, TypeInv, TypeOK
      <4>3. QED
        BY <2>1, <4>1, <4>2 DEF CopyAt, SafeInv
    <3>3. CASE pc[m] \notin Stages \/ m \in met'
      BY <2>1, <3>3 DEF CopyAt, Stages
    <3>4. QED
      BY <3>2, <3>3
  <2>4. QED
    BY <2>2, <2>3
<1>5. QED
  BY <1>1, <1>3, <1>4 DEF SafeInv

LEMMA SafeInit == Init => SafeInv
BY TypeInit DEF Init, SafeInv, LeftInv, CopyAt, Stages

LEMMA SafeStep == SafeInv /\ [Next]_vars => SafeInv'
<1> SUFFICES ASSUME SafeInv, [Next]_vars PROVE SafeInv'
  OBVIOUS
<1>1. TypeInv'
  BY TypeStep DEF SafeInv
<1>2. ASSUME NEW m \in Movers, Crash(m) \/ LockTimeout(m) PROVE SafeInv'
  BY <1>1, <1>2, DiesSafe DEF Crash, LockTimeout
<1>3. CASE UNCHANGED vars
  BY <1>1, <1>3 DEF vars, disk, mind, SafeInv, LeftInv, CopyAt, Alone, At, Targets,
                    Target
<1>4. QED
  BY <1>2, <1>3, EnvironmentSafe, SpoolerSafe, ExporterSafe DEF Next

(* A step that deletes a local file is Clean or Unlink.                    *)
LEMMA DeleteStep ==
  ASSUME SafeInv, Next, NEW r \in Recs,
         r \in local, r \notin local', by'[r] \in Movers \ met
  PROVE  \E p \in Providers : copy'[r][p] = "whole"
<1>1. ASSUME NEW m \in Movers, Unlink(m)
      PROVE  \E p \in Providers : copy'[r][p] = "whole"
  <2>1. rec[m] = r /\ by'[r] = m
    BY <1>1 DEF Unlink, SafeInv, TypeInv, TypeOK
  <2>2. copy[r][Target(m)] = "whole" /\ copy' = copy
    BY <1>1, <2>1 DEF Unlink, SafeInv, CopyAt
  <2>3. Target(m) \in Providers
    BY <1>1, TargetType DEF Unlink, SafeInv, TypeInv, InHand, Uploading
  <2>4. QED
    BY <2>2, <2>3
<1>2. ASSUME NEW q \in Recs, Clean(q) PROVE FALSE
  <2>1. q = r /\ by'[r] = "cleaner"
    BY <1>2 DEF Clean, SafeInv, TypeInv, TypeOK
  <2>2. QED
    BY <2>1, MoverAssumption DEF Movers
<1>3. ASSUME NEW m \in Movers, Uploads(m), ~Unlink(m) PROVE FALSE
  BY <1>3 DEF Uploads, Take, Open, ConnectFails, CopyEnds, CopyFails, Verify, disk
<1>4. ASSUME NEW q \in Recs, CallEnds(q) PROVE FALSE
  BY <1>4 DEF CallEnds
<1>5. ASSUME NEW m \in Movers, Crash(m) \/ LockTimeout(m) PROVE FALSE
  BY <1>5 DEF Crash, LockTimeout, Dies, disk
<1>6. ASSUME NEW s \in Spoolers, SpoolerSteps(s), ~Uploads(s) PROVE FALSE
  BY <1>6 DEF SpoolerSteps, SpoolerStarts, RecordUpload, MarkLocal, NotUnique,
              SpoolerEnds, Dies, disk
<1>7. ASSUME NEW e \in Exporters, ExporterStarts(e) \/ ExporterSteps(e), ~Uploads(e)
      PROVE  FALSE
  BY <1>7 DEF ExporterStarts, ExporterSteps, LockedOut, BeginPolicy, SkipPolicy,
              RecordExport, EndPolicy, ExporterEnds, Dies, disk
<1>8. QED
  BY <1>1, <1>2, <1>3, <1>4, <1>5, <1>6, <1>7 DEF Next, Movers

(* The spooler and the export worker delete a local recording only while   *)
(* a provider holds a whole copy, through every failure and death, unless  *)
(* somebody else has met the upload: whatever providers they share,        *)
(* whatever the cleanup walks, mounted or not (upload_file).               *)
THEOREM DeletesSafely == Spec => SafeDelete
<1>1. SafeInv /\ [Next]_vars =>
        [\A r \in Recs :
           (r \in local /\ r \notin local' /\ by'[r] \in Movers \ met)
             => \E p \in Providers : copy'[r][p] = "whole"]_vars
  BY DeleteStep
<1>2. QED
  BY SafeInit, SafeStep, <1>1, PTL DEF Spec, SafeDelete

-----------------------------------------------------------------------------
(* Nobody is met as long as no two movers write to the same provider, no   *)
(* share is unmounted under a copy and the cleanup deletes local files.    *)

Separate ==
  /\ ~MountsDrop /\ Walked = "local"
  /\ \A m, o \in Movers : m # o => Targets(m) \cap Targets(o) = {}

LEMMA NobodyElse ==
  ASSUME Separate, SafeInv, NEW m \in Movers, pc[m] \notin {"idle", "policy"},
         HasTarget(m)
  PROVE  At(rec[m], Target(m)) \subseteq {m}
<1> SUFFICES ASSUME NEW o \in Movers, o # m, pc[o] \in Stages, Target(o) = Target(m)
             PROVE  FALSE
  BY DEF At
<1>1. HasTarget(o) /\ pc[o] \notin {"idle", "policy"}
  BY DEF SafeInv, TypeInv, InHand, Uploading, Stages
<1>2. Target(o) \in Targets(o) /\ Target(m) \in Targets(m)
  BY <1>1, TargetInTargets DEF SafeInv
<1>3. QED
  BY <1>2 DEF Separate

LEMMA NobodyMet ==
  ASSUME Separate, SafeInv, met = {}, Next
  PROVE  met' = {}
<1>1. ASSUME NEW m \in Movers, Uploads(m) PROVE met' = {}
  <2>1. CASE Open(m)
    <3>1. At(rec[m], Target(m)) = {}
      BY <2>1, NobodyElse DEF Open, At, Stages
    <3>2. QED
      BY <2>1, <3>1 DEF Open
  <2>2. CASE CopyEnds(m)
    <3>1. "beneath" \notin Landing(m)
      BY DEF Landing, Separate
    <3>2. QED
      BY <2>2, <3>1 DEF CopyEnds
  <2>3. CASE Verify(m)
    <3>1. copy[rec[m]][Target(m)] = "whole"
      BY <2>3 DEF Verify, SafeInv, CopyAt
    <3>2. QED
      BY <2>3, <3>1 DEF Verify
  <2>4. QED
    BY <1>1, <2>1, <2>2, <2>3 DEF Uploads, Take, ConnectFails, CopyFails, Unlink, disk
<1>2. ASSUME NEW r \in Recs, CallEnds(r) \/ Clean(r) PROVE met' = {}
  BY <1>2 DEF CallEnds, Clean, Separate
<1>3. ASSUME NEW m \in Movers, Crash(m) \/ LockTimeout(m) PROVE met' = {}
  BY <1>3 DEF Crash, LockTimeout, Dies, disk
<1>4. ASSUME NEW s \in Spoolers, SpoolerSteps(s), ~Uploads(s) PROVE met' = {}
  BY <1>4 DEF SpoolerSteps, SpoolerStarts, RecordUpload, MarkLocal, NotUnique,
              SpoolerEnds, Dies, disk
<1>5. ASSUME NEW e \in Exporters, ExporterStarts(e) \/ ExporterSteps(e), ~Uploads(e)
      PROVE  met' = {}
  BY <1>5 DEF ExporterStarts, ExporterSteps, LockedOut, BeginPolicy, SkipPolicy,
              RecordExport, EndPolicy, ExporterEnds, Dies, disk
<1>6. QED
  BY <1>1, <1>2, <1>3, <1>4, <1>5 DEF Next, Movers

-----------------------------------------------------------------------------
(* Where playback finds a recording.  The row of a recording points to a   *)
(* whole copy because nobody overwrites it: a mover uploads only what its  *)
(* own provider does not have, as the rows said when it selected them, and *)
(* nobody else writes a row with that provider.                            *)

(* The providers of the spooler, or of the policy in hand.                 *)
Aim(m) == IF m \in Spoolers THEN Targets(m) ELSE {Policies[at[m]].provider}

(* The recordings a mover may still upload.                                *)
Still(m) ==
  todo[m] \cup (IF pc[m] \in Uploading \ {"unlink"} THEN {rec[m]} ELSE {})

Playable == \A m \in Movers : Targets(m) \subseteq Nas

TakenOut(m) == pc[m] \in Uploading => rec[m] \notin todo[m]

Fresh(m) ==
  pc[m] \notin {"idle", "policy"} => \A r \in Still(m) : loc[r] \notin Aim(m)

(* The uncommitted rows of an exporter: it has none while it copies.       *)
PendWhole(e) ==
  /\ pc[e] \in {"idle", "policy", "copy", "verify", "record"} => pend[e] = {}
  /\ pc[e] \notin {"idle", "policy"} =>
       \A r \in pend[e] : /\ copy[r][Policies[at[e]].provider] = "whole"
                          /\ r \notin Still(e)

LocWhole ==
  \A r \in Recs :
    loc[r] \in Providers => loc[r] \in Nas /\ copy[r][loc[r]] = "whole"

Tracked(s) == pc[s] = "unlink" => loc[rec[s]] \in Providers

FindInv ==
  /\ SafeInv /\ met = {} /\ LocWhole
  /\ \A m \in Movers : TakenOut(m) /\ Fresh(m)
  /\ \A e \in Exporters : PendWhole(e)
  /\ \A s \in Spoolers : Tracked(s)
  /\ \A r \in Recs : by[r] \in Spoolers => loc[r] \in Providers

LEMMA AimType ==
  ASSUME SafeInv, NEW m \in Movers, pc[m] \notin {"idle", "policy"}
  PROVE  /\ Aim(m) \subseteq Targets(m)
         /\ HasTarget(m) => Target(m) \in Aim(m)
<1>1. CASE m \in Spoolers
  BY <1>1, TargetInTargets DEF SafeInv, Aim
<1>2. CASE m \notin Spoolers
  <2>1. at[m] \in 1 .. Len(Policies)
    BY <1>2, ProviderAssumption DEF SafeInv, TypeInv, TypeOK, InHand, Movers
  <2>2. QED
    BY <1>2, <2>1 DEF Aim, Targets, Target
<1>3. QED
  BY <1>1, <1>2

(* What a step of one mover has to keep for the others' sake, and for the  *)
(* rows.                                                                   *)
OthersWait(m) ==
  /\ OthersKept(m)
  /\ \A o \in Movers \ {m} : todo'[o] = todo[o]
  /\ \A e \in Exporters \ {m} : pend'[e] = pend[e]

WritesOwn(m) ==
  \/ copy' = copy
  \/ /\ pc[m] \in {"connect", "copy", "verify"} /\ HasTarget(m)
     /\ \E f \in File : copy' = [copy EXCEPT ![rec[m]][Target(m)] = f]

RowsOwn(m) ==
  \A r \in Recs :
    \/ loc'[r] = loc[r]
    \/ loc'[r] = "local" /\ loc[r] = "untracked"
    \/ /\ loc'[r] \in Targets(m) /\ copy' = copy
       /\ copy[r][loc'[r]] = "whole"

LEMMA CopiesKept ==
  ASSUME Separate, FindInv, NEW m \in Movers, WritesOwn(m),
         NEW r \in Recs, NEW p \in Providers,
         p = loc[r] \/ p \notin Targets(m)
  PROVE  copy'[r][p] = copy[r][p]
<1>1. CASE copy' = copy
  BY <1>1
<1>2. CASE copy' # copy
  <2>1. /\ pc[m] \in {"connect", "copy", "verify"} /\ HasTarget(m)
        /\ \E f \in File : copy' = [copy EXCEPT ![rec[m]][Target(m)] = f]
    BY <1>2 DEF WritesOwn
  <2>2. PICK f \in File : copy' = [copy EXCEPT ![rec[m]][Target(m)] = f]
    BY <2>1
  <2>3. Target(m) \in Aim(m) /\ Aim(m) \subseteq Targets(m)
    BY <2>1, AimType DEF FindInv
  <2>4. rec[m] \in Still(m)
    BY <2>1 DEF Still, Uploading
  <2>5. loc[rec[m]] # Target(m)
    BY <2>1, <2>3, <2>4 DEF FindInv, Fresh
  <2>6. r # rec[m] \/ p # Target(m)
    BY <2>3, <2>5
  <2>7. copy \in [Recs -> [Providers -> File]]
    BY DEF FindInv, SafeInv, TypeInv, TypeOK
  <2>8. QED
    BY <2>2, <2>6, <2>7
<1>3. QED
  BY <1>1, <1>2

LEMMA OthersFind ==
  ASSUME Separate, FindInv, SafeInv', met' = {}, NEW m \in Movers, OthersWait(m),
         WritesOwn(m), RowsOwn(m), NEW o \in Movers, o # m
  PROVE  /\ TakenOut(o)' /\ Fresh(o)'
         /\ o \in Exporters => PendWhole(o)'
         /\ o \in Spoolers => Tracked(o)'
<1>1. /\ pc'[o] = pc[o] /\ rec'[o] = rec[o] /\ todo'[o] = todo[o]
      /\ o \in Exporters => at'[o] = at[o] /\ pend'[o] = pend[o]
  BY DEF OthersWait, OthersKept
<1>2. Still(o)' = Still(o) /\ Aim(o)' = Aim(o)
  BY <1>1 DEF Still, Aim, Targets, Movers
<1>3. TakenOut(o)'
  BY <1>1 DEF FindInv, TakenOut
<1>4. Fresh(o)'
  <2> SUFFICES ASSUME pc[o] \notin {"idle", "policy"}, NEW r \in Still(o)
               PROVE  loc'[r] \notin Aim(o)
    BY <1>1, <1>2 DEF Fresh
  <2>1. r \in Recs
    BY DEF Still, Uploading, FindInv, SafeInv, TypeInv, TypeOK, InHand
  <2>2. Aim(o) \subseteq Targets(o) /\ Targets(o) \subseteq Providers
    BY AimType, TargetsType DEF FindInv
  <2>3. loc[r] \notin Aim(o)
    BY DEF FindInv, Fresh
  <2>4. Targets(m) \cap Targets(o) = {} /\ "local" \notin Providers
    BY ProviderAssumption DEF Separate
  <2>5. QED
    BY <2>1, <2>2, <2>3, <2>4 DEF RowsOwn
<1>5. ASSUME o \in Exporters PROVE PendWhole(o)'
  <2>1. PendWhole(o)
    BY <1>5 DEF FindInv
  <2>2. ASSUME pc[o] \notin {"idle", "policy"}, NEW r \in pend[o]
        PROVE  copy'[r][Policies[at[o]].provider] = "whole"
    <3>1. Policies[at[o]].provider \in Targets(o) /\ Targets(o) \subseteq Providers
      <4>1. o \notin Spoolers
        BY <1>5, MoverAssumption
      <4>2. QED
        BY <2>2, <4>1, AimType, TargetsType DEF FindInv, Aim
    <3>2. Policies[at[o]].provider \notin Targets(m)
      BY <3>1 DEF Separate
    <3>3. r \in Recs
      BY <1>5 DEF FindInv, SafeInv, TypeInv, TypeOK
    <3>4. QED
      BY <2>1, <2>2, <3>1, <3>2, <3>3, CopiesKept DEF PendWhole
  <2>3. QED
    BY <1>1, <1>2, <1>5, <2>1, <2>2 DEF PendWhole
<1>6. ASSUME o \in Spoolers PROVE Tracked(o)'
  <2> SUFFICES ASSUME pc[o] = "unlink" PROVE loc'[rec[o]] \in Providers
    BY <1>1 DEF Tracked
  <2>1. rec[o] \in Recs /\ loc[rec[o]] \in Providers
    BY <1>6 DEF FindInv, Tracked, SafeInv, TypeInv, InHand, Uploading
  <2>2. QED
    BY <2>1, ProviderAssumption, TargetsType DEF RowsOwn
<1>7. QED
  BY <1>3, <1>4, <1>5, <1>6

(* A step of one mover that does its own part keeps the invariant.         *)
LEMMA OneFinds ==
  ASSUME Separate, Playable, FindInv, SafeInv', met' = {}, NEW m \in Movers, OthersWait(m),
         WritesOwn(m), RowsOwn(m), TakenOut(m)', Fresh(m)',
         m \in Exporters => PendWhole(m)', m \in Spoolers => Tracked(m)',
         \A r \in Recs : \/ by'[r] = by[r] \/ by'[r] \notin Spoolers
                         \/ loc[r] \in Providers
  PROVE  FindInv'
<1>1. Targets(m) \subseteq Providers /\ Targets(m) \subseteq Nas
  BY TargetsType DEF Playable
<1>2. LocWhole'
  <2> SUFFICES ASSUME NEW r \in Recs, loc'[r] \in Providers
               PROVE  loc'[r] \in Nas /\ copy'[r][loc'[r]] = "whole"
    BY DEF LocWhole
  <2>1. CASE loc'[r] = loc[r]
    BY <2>1, CopiesKept DEF FindInv, LocWhole
  <2>2. CASE loc'[r] # loc[r]
    BY <1>1, <2>2, ProviderAssumption DEF RowsOwn
  <2>3. QED
    BY <2>1, <2>2
<1>3. ASSUME NEW r \in Recs, by'[r] \in Spoolers PROVE loc'[r] \in Providers
  <2>1. loc[r] \in Providers
    BY <1>3 DEF FindInv
  <2>2. QED
    BY <1>1, <2>1, ProviderAssumption DEF RowsOwn
<1>4. \A o \in Movers : TakenOut(o)' /\ Fresh(o)'
  BY OthersFind
<1>5. \A e \in Exporters : PendWhole(e)'
  BY OthersFind DEF Movers
<1>6. \A s \in Spoolers : Tracked(s)'
  BY OthersFind DEF Movers
<1>7. QED
  BY <1>2, <1>3, <1>4, <1>5, <1>6 DEF FindInv

(* A process that ends leaves the committed rows and the files.            *)
LEMMA DiesFinds ==
  ASSUME Separate, Playable, FindInv, SafeInv', met' = {}, NEW m \in Movers, Dies(m)
  PROVE  FindInv'
<1>1. /\ OthersWait(m) /\ pc'[m] = "idle"
      /\ m \in Exporters => pend'[m] = {}
  BY DEF Dies, Goto, OthersWait, OthersKept, FindInv, SafeInv, TypeInv, TypeOK
<1>2. WritesOwn(m) /\ RowsOwn(m) /\ by' = by
  BY DEF Dies, disk, WritesOwn, RowsOwn
<1>3. TakenOut(m)' /\ Fresh(m)' /\ Tracked(m)' /\ (m \in Exporters => PendWhole(m)')
  BY <1>1 DEF TakenOut, Fresh, PendWhole, Tracked, Uploading
<1>4. QED
  BY <1>1, <1>2, <1>3, OneFinds

LEMMA TakeFinds ==
  ASSUME Separate, Playable, FindInv, SafeInv', met' = {}, NEW m \in Movers, Take(m)
  PROVE  FindInv'
<1>1. /\ UNCHANGED <<disk, rows, at>> /\ pc[m] = "next" /\ OthersWait(m)
      /\ m \in Exporters => pend' = pend
  BY DEF Take, Goto, rows, OthersWait, OthersKept, FindInv, SafeInv, TypeInv, TypeOK
<1>2. PICK r \in todo[m] :
        /\ todo' = [todo EXCEPT ![m] = @ \ {r}]
        /\ \/ Goto(m, "connect") /\ rec' = [rec EXCEPT ![m] = r]
           \/ UNCHANGED <<pc, rec>>
  BY DEF Take
<1>3. /\ todo'[m] = todo[m] \ {r}
      /\ (pc'[m] = "connect" /\ rec'[m] = r) \/ pc'[m] = "next"
  BY <1>1, <1>2 DEF Goto, FindInv, SafeInv, TypeInv, TypeOK
<1>4. TakenOut(m)' /\ Tracked(m)' /\ Still(m)' \subseteq Still(m)
  BY <1>3 DEF TakenOut, Tracked, Still, Uploading
<1>5. Aim(m)' = Aim(m) /\ loc' = loc /\ copy' = copy /\ by' = by
  BY <1>1 DEF Aim, Targets, rows, disk
<1>6. Fresh(m)'
  BY <1>1, <1>4, <1>5 DEF FindInv, Fresh
<1>7. m \in Exporters => PendWhole(m)'
  BY <1>1, <1>3, <1>4, <1>5 DEF FindInv, PendWhole
<1>8. WritesOwn(m) /\ RowsOwn(m)
  BY <1>5 DEF WritesOwn, RowsOwn
<1>9. QED
  BY <1>1, <1>4, <1>5, <1>6, <1>7, <1>8, OneFinds

(* The rows of an exporter become visible: whole copies, of recordings it  *)
(* does not upload again under this policy.                                *)
LEMMA CommitRows ==
  ASSUME FindInv, NEW e \in Exporters, pc[e] \notin {"idle", "policy"},
         Commit(e), copy' = copy
  PROVE  /\ RowsOwn(e) /\ pend'[e] = {}
         /\ \A r \in Still(e) : loc'[r] = loc[r]
<1>1. Policies[at[e]].provider \in Targets(e)
  <2>1. e \notin Spoolers
    BY MoverAssumption
  <2>2. QED
    BY <2>1, AimType DEF FindInv, Aim, Movers
<1>2. PendWhole(e) /\ pend \in [Exporters -> SUBSET Recs]
  BY DEF FindInv, SafeInv, TypeInv, TypeOK
<1>3. Still(e) \subseteq Recs
  BY DEF Still, Uploading, FindInv, SafeInv, TypeInv, TypeOK, InHand, Movers
<1>4. RowsOwn(e)
  BY <1>1, <1>2 DEF RowsOwn, Commit, PendWhole
<1>5. QED
  BY <1>2, <1>3, <1>4 DEF Commit, PendWhole

(* The row in hand is done with, uploaded or not, or the spooler tries the *)
(* next provider.                                                          *)
LEMMA RowFinds ==
  ASSUME Separate, Playable, FindInv, SafeInv', met' = {}, NEW m \in Movers,
         pc[m] \in Uploading, HasTarget(m),
         pc[m] = "unlink" => RowDone(m),
         UploadFailed(m) \/ RowDone(m), UNCHANGED <<todo, at>>,
         WritesOwn(m),
         m \in Exporters /\ pc[m] # "unlink" => pend[m] = {},
         m \in Exporters /\ pc[m] = "unlink" => copy' = copy,
         \A r \in Recs : \/ by'[r] = by[r] \/ by'[r] \notin Spoolers
                         \/ loc[r] \in Providers
  PROVE  FindInv'
<1>1. RowParts(m)
  BY RowLeft DEF FindInv
<1>2. OthersWait(m)
  BY <1>1 DEF RowParts, OthersWait, OthersKept, UploadFailed, RowDone, Commit,
              FindInv, SafeInv, TypeInv, TypeOK
<1>3. /\ pc'[m] \in {"next", "connect"} /\ todo'[m] = todo[m]
      /\ pc'[m] = "connect" => pc[m] # "unlink" /\ rec'[m] = rec[m]
  BY <1>1 DEF RowParts, RowDone, Goto, FindInv, SafeInv, TypeInv, TypeOK
<1>4. Still(m)' \subseteq Still(m)
  BY <1>3 DEF Still, Uploading
<1>5. TakenOut(m)' /\ Tracked(m)'
  BY <1>3 DEF TakenOut, Tracked, Uploading, FindInv
<1>6. Aim(m)' = Aim(m)
  BY DEF Aim, Targets
<1>7. CASE UNCHANGED <<loc, pend>>
  <2>1. RowsOwn(m) /\ Fresh(m)'
    BY <1>4, <1>6, <1>7 DEF RowsOwn, FindInv, Fresh, Uploading
  <2>2. m \in Exporters => PendWhole(m)'
    <3>1. CASE pend[m] = {}
      BY <1>7, <3>1 DEF PendWhole
    <3>2. CASE m \in Exporters /\ pc[m] = "unlink"
      BY <1>3, <1>4, <1>7, <3>2 DEF FindInv, PendWhole
    <3>3. QED
      BY <3>1, <3>2
  <2>3. QED
    BY <1>2, <1>5, <2>1, <2>2, OneFinds
<1>8. CASE m \in Exporters /\ Commit(m) /\ copy' = copy
  <2>1. /\ RowsOwn(m) /\ pend'[m] = {}
        /\ \A r \in Still(m) : loc'[r] = loc[r]
    BY <1>8, CommitRows DEF Uploading
  <2>2. Fresh(m)'
    BY <1>4, <1>6, <2>1 DEF FindInv, Fresh, Uploading
  <2>3. PendWhole(m)'
    BY <2>1 DEF PendWhole
  <2>4. QED
    BY <1>2, <1>5, <1>8, <2>1, <2>2, <2>3, OneFinds
<1>9. CASE m \in Exporters /\ Commit(m) /\ copy' # copy
  <2>1. pend[m] = {}
    BY <1>9
  <2>2. loc' = loc /\ pend' = pend
    BY <1>9, <2>1 DEF Commit, FindInv, SafeInv, TypeInv, TypeOK
  <2>3. QED
    BY <1>7, <2>2
<1>10. QED
  BY <1>7, <1>8, <1>9, MoverAssumption DEF UploadFailed, RowDone, Movers

LEMMA UploadFinds ==
  ASSUME Separate, Playable, FindInv, SafeInv', met' = {}, NEW m \in Movers,
         Open(m) \/ ConnectFails(m) \/ CopyEnds(m) \/ CopyFails(m)
           \/ Verify(m) \/ Unlink(m)
  PROVE  FindInv'
<1>1. /\ pc[m] \in Uploading /\ HasTarget(m)
      /\ m \in Exporters /\ pc[m] # "unlink" => pend[m] = {}
  BY DEF Open, ConnectFails, CopyEnds, CopyFails, Verify, Unlink, Uploading,
         FindInv, SafeInv, TypeInv, InHand, PendWhole
<1>2. WritesOwn(m)
  <2>1. Landing(m) \subseteq File
    BY DEF Landing, File
  <2>2. QED
    BY <1>1, <2>1 DEF Open, ConnectFails, CopyEnds, CopyFails, Verify, Unlink, disk,
                      WritesOwn, File
(* The upload goes on: it has no rows, committed or not, to lose.          *)
<1>3. ASSUME NEW place \in {"copy", "verify", "record"}, Goto(m, place),
             pc[m] # "unlink", UNCHANGED <<by, todo, rec, left, at, loc, pend>>
      PROVE  FindInv'
  <2>1. pc'[m] = place /\ OthersWait(m)
    BY <1>3 DEF Goto, OthersWait, OthersKept, FindInv, SafeInv, TypeInv, TypeOK
  <2>2. TakenOut(m)' /\ Tracked(m)' /\ Still(m)' = Still(m) /\ Aim(m)' = Aim(m)
    BY <1>1, <1>3, <2>1 DEF TakenOut, Tracked, Still, Aim, Targets, Uploading, FindInv
  <2>3. Fresh(m)' /\ RowsOwn(m)
    BY <1>1, <1>3, <2>2 DEF Fresh, RowsOwn, FindInv, Uploading
  <2>4. m \in Exporters => PendWhole(m)'
    BY <1>1, <1>3 DEF PendWhole
  <2>5. QED
    BY <1>2, <1>3, <2>1, <2>2, <2>3, <2>4, OneFinds
<1>4. CASE Open(m)
  <2>1. CASE rec[m] \in local
    BY <1>3, <1>4, <2>1 DEF Open
  <2>2. CASE rec[m] \notin local
    BY <1>1, <1>2, <1>4, <2>2, RowFinds DEF Open
  <2>3. QED
    BY <2>1, <2>2
<1>5. CASE ConnectFails(m)
  BY <1>1, <1>2, <1>5, RowFinds DEF ConnectFails, disk
<1>6. CASE CopyEnds(m)
  BY <1>3, <1>6 DEF CopyEnds, rows
<1>7. CASE CopyFails(m)
  BY <1>1, <1>2, <1>7, RowFinds DEF CopyFails, disk
<1>8. CASE Verify(m)
  <2>1. CASE Goto(m, "record") /\ UNCHANGED <<rec, left, loc, pend>>
    BY <1>3, <1>8, <2>1 DEF Verify
  <2>2. CASE UploadFailed(m)
    BY <1>1, <1>2, <1>8, <2>2, RowFinds DEF Verify
  <2>3. QED
    BY <1>8, <2>1, <2>2 DEF Verify
(* A spooler that deletes the file has written the row.                    *)
<1>9. CASE Unlink(m)
  <2>1. ASSUME NEW r \in Recs, by'[r] # by[r], by'[r] \in Spoolers
        PROVE  loc[r] \in Providers
    <3>1. r = rec[m] /\ by'[r] = m
      BY <1>9, <2>1 DEF Unlink, FindInv, SafeInv, TypeInv, TypeOK
    <3>2. QED
      BY <1>9, <2>1, <3>1 DEF Unlink, FindInv, Tracked
  <2>2. QED
    BY <1>1, <1>2, <1>9, <2>1, RowFinds DEF Unlink
<1>10. QED
  BY <1>4, <1>5, <1>6, <1>7, <1>8, <1>9

LEMMA SpoolerFinds ==
  ASSUME Separate, Playable, FindInv, SafeInv', met' = {}, NEW s \in Spoolers, SpoolerSteps(s)
  PROVE  FindInv'
<1> USE DEF Movers
<1> s \notin Exporters
  BY MoverAssumption
<1>1. CASE Uploads(s)
  BY <1>1, TakeFinds, UploadFinds DEF Uploads
<1>2. CASE NotUnique(s)
  BY <1>2, DiesFinds DEF NotUnique
<1>3. ASSUME UNCHANGED <<disk, pend, left, at>>, OthersWait(s), RowsOwn(s),
             TakenOut(s)', Fresh(s)', Tracked(s)'
      PROVE  FindInv'
  BY <1>3, OneFinds DEF WritesOwn, disk
<1>4. CASE SpoolerStarts(s)
  <2>1. /\ OthersWait(s) /\ pc'[s] = "next" /\ todo'[s] \subseteq NewRecordings
    BY <1>4 DEF SpoolerStarts, rows, Goto, OthersWait, OthersKept, FindInv, SafeInv,
                TypeInv, TypeOK
  <2>2. \A r \in Still(s)' : loc'[r] = "untracked"
    BY <1>4, <2>1 DEF SpoolerStarts, rows, Still, Uploading, NewRecordings
  <2>3. Aim(s)' \subseteq Providers
    BY TargetsType DEF Aim, Targets
  <2>4. Fresh(s)' /\ TakenOut(s)' /\ Tracked(s)'
    BY <2>1, <2>2, <2>3, ProviderAssumption DEF Fresh, TakenOut, Tracked, Uploading
  <2>5. RowsOwn(s)
    BY <1>4 DEF SpoolerStarts, rows, RowsOwn
  <2>6. QED
    BY <1>3, <1>4, <2>1, <2>4, <2>5 DEF SpoolerStarts, rows
(* The row is written, with the provider that has the copy or as local:    *)
(* the spooler is not to upload this recording again.                      *)
<1>5. CASE RecordUpload(s) \/ MarkLocal(s)
  <2>1. /\ pc[s] \in {"record", "connect"} /\ rec[s] \in Recs /\ rec[s] \notin todo[s]
        /\ loc[rec[s]] = "untracked" /\ copy' = copy
        /\ pc[s] = "record" => HasTarget(s)
    BY <1>5 DEF RecordUpload, MarkLocal, Insert, disk, FindInv, TakenOut, SafeInv,
                TypeInv, InHand, Uploading
  <2>2. OthersWait(s) /\ todo'[s] = todo[s]
    BY <1>5 DEF RecordUpload, MarkLocal, Goto, OthersWait, OthersKept, FindInv, SafeInv,
                TypeInv, TypeOK
  <2>3. CASE RecordUpload(s)
    <3>1. Target(s) \in Targets(s) /\ copy[rec[s]][Target(s)] = "whole"
      BY <2>1, <2>3, TargetInTargets DEF RecordUpload, FindInv, SafeInv, CopyAt
    <3>2. loc' = [loc EXCEPT ![rec[s]] = Target(s)] /\ rec' = rec /\ pc'[s] = "unlink"
      BY <2>3 DEF RecordUpload, Insert, Goto, FindInv, SafeInv, TypeInv, TypeOK
    <3>3. loc'[rec[s]] = Target(s)
      BY <2>1, <3>2 DEF FindInv, SafeInv, TypeInv, TypeOK
    <3>4. RowsOwn(s)
      BY <2>1, <3>1, <3>2 DEF RowsOwn, FindInv, SafeInv, TypeInv, TypeOK
    <3>5. TakenOut(s)' /\ Tracked(s)'
      BY <2>1, <2>2, <3>1, <3>2, <3>3, TargetsType DEF TakenOut, Tracked
    <3>6. Still(s)' \subseteq Still(s) \ {rec[s]}
      BY <2>1, <2>2, <3>2 DEF Still
    <3>7. \A r \in Still(s)' : loc'[r] = loc[r]
      BY <3>2, <3>6 DEF Still, FindInv, SafeInv, TypeInv, TypeOK
    <3>8. Fresh(s)'
      BY <2>1, <3>6, <3>7 DEF Fresh, FindInv, Aim, Targets
    <3>9. QED
      BY <1>3, <2>2, <2>3, <3>4, <3>5, <3>8 DEF RecordUpload
  <2>4. CASE MarkLocal(s)
    <3>1. loc' = [loc EXCEPT ![rec[s]] = "local"] /\ pc'[s] = "next"
      BY <2>4 DEF MarkLocal, Insert, Goto, FindInv, SafeInv, TypeInv, TypeOK
    <3>2. RowsOwn(s)
      BY <2>1, <3>1 DEF RowsOwn, FindInv, SafeInv, TypeInv, TypeOK
    <3>3. TakenOut(s)' /\ Tracked(s)'
      BY <3>1 DEF TakenOut, Tracked, Uploading
    <3>4. Still(s)' \subseteq Still(s) \ {rec[s]}
      BY <2>1, <2>2, <3>1 DEF Still, Uploading
    <3>5. \A r \in Still(s)' : loc'[r] = loc[r]
      BY <3>1, <3>4 DEF Still, FindInv, SafeInv, TypeInv, TypeOK
    <3>6. Fresh(s)'
      BY <2>1, <3>4, <3>5 DEF Fresh, FindInv, Aim, Targets
    <3>7. QED
      BY <1>3, <2>2, <2>4, <3>2, <3>3, <3>6 DEF MarkLocal
  <2>5. QED
    BY <1>5, <2>3, <2>4
<1>6. CASE SpoolerEnds(s)
  <2>1. OthersWait(s) /\ pc'[s] = "idle" /\ RowsOwn(s)
    BY <1>6 DEF SpoolerEnds, rows, Goto, OthersWait, OthersKept, RowsOwn, FindInv,
                SafeInv, TypeInv, TypeOK
  <2>2. TakenOut(s)' /\ Fresh(s)' /\ Tracked(s)'
    BY <2>1 DEF TakenOut, Fresh, Tracked, Uploading
  <2>3. QED
    BY <1>3, <1>6, <2>1, <2>2 DEF SpoolerEnds, rows
<1>7. QED
  BY <1>1, <1>2, <1>4, <1>5, <1>6 DEF SpoolerSteps

LEMMA ExporterFinds ==
  ASSUME Separate, Playable, FindInv, SafeInv', met' = {}, NEW e \in Exporters,
         ExporterStarts(e) \/ ExporterSteps(e)
  PROVE  FindInv'
<1> USE DEF Movers
<1> e \notin Spoolers
  BY MoverAssumption
<1>1. CASE Uploads(e)
  BY <1>1, TakeFinds, UploadFinds DEF Uploads
<1>2. CASE LockedOut(e)
  BY <1>2, DiesFinds DEF LockedOut
<1>3. ASSUME UNCHANGED disk, OthersWait(e), RowsOwn(e), TakenOut(e)', Fresh(e)',
             PendWhole(e)'
      PROVE  FindInv'
  BY <1>3, OneFinds DEF WritesOwn, disk
(* Between two policies it has nothing in hand.                            *)
<1>4. CASE ExporterStarts(e) \/ SkipPolicy(e) \/ ExporterEnds(e)
  <2>1. /\ OthersWait(e) /\ pc'[e] \in {"idle", "policy"} /\ pend'[e] = {}
        /\ RowsOwn(e)
    BY <1>4 DEF ExporterStarts, SkipPolicy, ExporterEnds, rows, Goto, OthersWait,
                OthersKept, RowsOwn, PendWhole, FindInv, SafeInv, TypeInv, TypeOK
  <2>2. TakenOut(e)' /\ Fresh(e)' /\ PendWhole(e)'
    BY <2>1 DEF TakenOut, Fresh, PendWhole, Uploading
  <2>3. QED
    BY <1>3, <1>4, <2>1, <2>2 DEF ExporterStarts, SkipPolicy, ExporterEnds
<1>5. CASE BeginPolicy(e)
  <2>1. /\ OthersWait(e) /\ pc'[e] = "next" /\ todo'[e] = Eligible(e)
        /\ pend'[e] = {} /\ RowsOwn(e)
    BY <1>5 DEF BeginPolicy, Goto, OthersWait, OthersKept, RowsOwn, PendWhole, FindInv,
                SafeInv, TypeInv, TypeOK
  <2>2. Aim(e)' = {Policies[at[e]].provider} /\ Still(e)' = Eligible(e) /\ loc' = loc
    BY <1>5, <2>1 DEF BeginPolicy, Aim, Still, Uploading
  <2>3. Fresh(e)'
    BY <2>2 DEF Fresh, Eligible
  <2>4. TakenOut(e)' /\ PendWhole(e)'
    BY <2>1 DEF TakenOut, PendWhole, Uploading
  <2>5. QED
    BY <1>3, <1>5, <2>1, <2>3, <2>4 DEF BeginPolicy
(* The row is written and not committed; the copy was just verified.       *)
<1>6. CASE RecordExport(e)
  <2>1. /\ pc[e] = "record" /\ rec[e] \notin todo[e] /\ pend[e] = {}
        /\ copy[rec[e]][Policies[at[e]].provider] = "whole"
    BY <1>6 DEF RecordExport, FindInv, TakenOut, PendWhole, SafeInv, CopyAt, Target,
                Uploading
  <2>2. /\ OthersWait(e) /\ RowsOwn(e) /\ pc'[e] = "unlink" /\ pend'[e] = {rec[e]}
    BY <1>6, <2>1 DEF RecordExport, Goto, OthersWait, OthersKept, RowsOwn, FindInv,
                      SafeInv, TypeInv, TypeOK
  <2>3. UNCHANGED <<copy, loc, todo, rec, at>>
    BY <1>6 DEF RecordExport, disk
  <2>4. TakenOut(e)' /\ Still(e)' = todo[e] /\ Aim(e)' = Aim(e)
    BY <2>1, <2>2, <2>3 DEF TakenOut, Still, Aim
  <2>5. Fresh(e)'
    BY <2>1, <2>3, <2>4 DEF Fresh, Still, FindInv
  <2>6. PendWhole(e)'
    BY <2>1, <2>2, <2>3, <2>4 DEF PendWhole
  <2>7. QED
    BY <1>3, <1>6, <2>2, <2>4, <2>5, <2>6 DEF RecordExport
<1>7. CASE EndPolicy(e)
  <2>1. pc[e] = "next" /\ Commit(e) /\ copy' = copy
    BY <1>7 DEF EndPolicy, disk
  <2>2. RowsOwn(e) /\ pend'[e] = {}
    BY <2>1, CommitRows
  <2>3. OthersWait(e) /\ pc'[e] = "policy"
    BY <1>7 DEF EndPolicy, Commit, Goto, OthersWait, OthersKept, FindInv, SafeInv,
                TypeInv, TypeOK
  <2>4. TakenOut(e)' /\ Fresh(e)' /\ PendWhole(e)'
    BY <2>2, <2>3 DEF TakenOut, Fresh, PendWhole, Uploading
  <2>5. QED
    BY <1>3, <1>7, <2>2, <2>3, <2>4 DEF EndPolicy
<1>8. QED
  BY <1>1, <1>2, <1>4, <1>5, <1>6, <1>7 DEF ExporterSteps

LEMMA EnvironmentFinds ==
  ASSUME Separate, FindInv, SafeInv', met' = {}, NEW r \in Recs, CallEnds(r) \/ Clean(r)
  PROVE  FindInv'
<1>1. UNCHANGED <<copy, rows, mind>>
  BY DEF CallEnds, Clean, Separate
<1>2. \A q \in Recs : by'[q] = by[q] \/ by'[q] \notin Spoolers
  BY MoverAssumption DEF CallEnds, Clean, FindInv, SafeInv, TypeInv, TypeOK
<1>3. QED
  BY <1>1, <1>2 DEF rows, mind, FindInv, LocWhole, TakenOut, Fresh, Still, Aim, Targets,
                    PendWhole, Tracked

LEMMA FindInit == Init => FindInv
BY SafeInit, ProviderAssumption, MoverAssumption
DEF Init, FindInv, LocWhole, TakenOut, Fresh, PendWhole, Tracked, Uploading, Movers

LEMMA FindStep ==
  ASSUME Separate, Playable
  PROVE  FindInv /\ [Next]_vars => FindInv'
<1> SUFFICES ASSUME FindInv, [Next]_vars PROVE FindInv'
  OBVIOUS
<1>1. SafeInv' /\ met' = {}
  BY SafeStep, NobodyMet DEF FindInv, vars, disk
<1>2. ASSUME NEW m \in Movers, Crash(m) \/ LockTimeout(m) PROVE FindInv'
  BY <1>1, <1>2, DiesFinds DEF Crash, LockTimeout
<1>3. CASE UNCHANGED vars
  BY <1>1, <1>3 DEF vars, disk, rows, mind, FindInv, LocWhole, TakenOut, Fresh, Still,
                    Aim, Targets, PendWhole, Tracked
<1>4. QED
  BY <1>1, <1>2, <1>3, EnvironmentFinds, SpoolerFinds, ExporterFinds DEF Next

(* A recording whose local file the spooler has deleted is played whole    *)
(* from then on, whatever is exported, interrupted or retried, if the      *)
(* movers share no provider, every provider is of a type that playback     *)
(* knows, shares stay mounted and the cleanup deletes local files only.    *)
THEOREM SpooledStaysFindable ==
  ASSUME Separate, Playable
  PROVE  Spec => []SpooledIsFindable
<1>1. FindInv => SpooledIsFindable
  BY DEF FindInv, LocWhole, SpooledIsFindable, Played
<1>2. QED
  BY FindInit, FindStep, <1>1, PTL DEF Spec
=============================================================================
