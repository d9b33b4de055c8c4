-------------------------- MODULE CleanupJobs_proofs --------------------------
(* Proofs about CleanupJobs, for any number of pages, items and rules.     *)
EXTENDS CleanupJobs, TLAPS

(* What a rule names are items, and it covers no others.                   *)
LEMMA CoveredAreItems ==
  ASSUME NEW rule, NEW listed
  PROVE  /\ Named(rule) \subseteq Items /\ Named(rule) \subseteq Here
         /\ Covered(rule, listed) \subseteq Named(rule)
BY DEF Covered, Named, Here

LEMMA InitTypes == Init => Types
BY RuleAssumption, BoundsAssumption
   DEF Init, Types, NoRow, Active, Final, Workers, Jobs, Rule, Gone

LEMMA EndTypes ==
  ASSUME NEW ws \in SUBSET Workers, Types, End(ws)
  PROVE /\ pc' \in [Workers -> {"none", "scan", "category", "items", "progress",
                                "cancelled", "verdict", "history", "end"}]
        /\ k' \in [Workers -> Nat \ {0}]
        /\ todo' \in [Workers -> SUBSET Items]
        /\ due' \in [Workers -> SUBSET Items]
        /\ spared' \in [Workers -> SUBSET Items]
        /\ verdict' \in [Workers -> {"none"} \cup Final]
        /\ rules' \in [Workers -> Seq(Rule)]
<1>1. pc' \in [Workers -> {"none", "scan", "category", "items", "progress",
                          "cancelled", "verdict", "history", "end"}]
  BY DEF Types, End
<1>2. k' \in [Workers -> Nat \ {0}]
  <2>1. k \in [Workers -> Nat \ {0}] BY DEF Types
  <2>2. k' = [w \in Workers |-> IF w \in ws THEN 1 ELSE k[w]] BY DEF End
  <2> QED BY <2>1, <2>2
<1>3. /\ todo' \in [Workers -> SUBSET Items] /\ due' \in [Workers -> SUBSET Items]
      /\ spared' \in [Workers -> SUBSET Items]
  BY DEF Types, End
<1>4. verdict' \in [Workers -> {"none"} \cup Final] BY DEF Types, End
<1>5. rules' \in [Workers -> Seq(Rule)]
  <2>1. <<>> \in Seq(Rule) OBVIOUS
  <2>2. rules \in [Workers -> Seq(Rule)] BY DEF Types
  <2>3. \A w \in Workers : rules[w] \in Seq(Rule) BY <2>2
  <2> HIDE DEF Rule
  <2> QED BY <2>1, <2>3 DEF End
<1> QED BY <1>1, <1>2, <1>3, <1>4, <1>5

LEMMA OutcomeTypes ==
  ASSUME NEW w \in Workers, NEW ok \in BOOLEAN, Types, Outcome(w, ok)
  PROVE lost' \in [Workers -> BOOLEAN] /\ faults' \in 0..MaxFaults
<1>1. lost \in [Workers -> BOOLEAN] /\ faults \in 0..MaxFaults BY DEF Types
<1>2. lost' \in [Workers -> BOOLEAN] BY <1>1 DEF Outcome
<1>3. faults' \in 0..MaxFaults BY <1>1, BoundsAssumption DEF Outcome
<1> QED BY <1>2, <1>3

LEMMA ReportTypes ==
  ASSUME NEW w \in Workers, NEW ok \in BOOLEAN, Types,
         NEW status \in Active \cup Final,
         NEW shows \in {"nothing", "items", "no items", "freed"},
         Report(w, ok, status, shows)
  PROVE /\ job' \in [Jobs -> [status : {"none"} \cup Active \cup Final,
                     cancel : BOOLEAN,
                     shows : {"nothing", "items", "no items", "freed"}]]
        /\ lost' \in [Workers -> BOOLEAN] /\ faults' \in 0..MaxFaults
<1>1. w \in Jobs BY DEF Workers, Jobs
<1>2. job \in [Jobs -> [status : {"none"} \cup Active \cup Final, cancel : BOOLEAN,
                      shows : {"nothing", "items", "no items", "freed"}]]
  BY DEF Types
<1>3. job' \in [Jobs -> [status : {"none"} \cup Active \cup Final, cancel : BOOLEAN,
                       shows : {"nothing", "items", "no items", "freed"}]]
  BY <1>1, <1>2 DEF Report
<1>4. Outcome(w, ok) BY DEF Report
<1> QED BY <1>3, <1>4, OutcomeTypes

LEMMA DeleteTypes ==
  ASSUME NEW is, Types, Delete(is) PROVE born' \in [Items -> 0..Gone]
<1>1. born \in [Items -> 0..Gone] BY DEF Types
<1>2. Gone \in 0..Gone BY BoundsAssumption DEF Gone
<1> QED BY <1>1, <1>2 DEF Delete

(* One lemma per action: it preserves the types.                           *)
LEMMA ArrivesTypes ==
  ASSUME NEW i \in Items, Types, Arrives(i) PROVE Types'
<1>1. born \in [Items -> 0..Gone] /\ day \in 0..MaxDay BY DEF Types
<1>2. day + 1 \in 0..Gone BY <1>1, BoundsAssumption DEF Gone
<1>3. born' \in [Items -> 0..Gone] BY <1>1, <1>2 DEF Arrives
<1> QED BY <1>3 DEF Types, Arrives, tables, work, auto

LEMMA MidnightTypes ==
  ASSUME Types, Midnight PROVE Types'
<1>1. day' \in 0..MaxDay
  <2>1. day \in 0..MaxDay BY DEF Types
  <2> QED BY <2>1, BoundsAssumption DEF Midnight
<1> QED BY <1>1 DEF Types, Midnight, tables, work, auto

LEMMA SaveConfigTypes ==
  ASSUME NEW c \in AutoConfigs, Types, SaveConfig(c) PROVE Types'
BY DEF Types, SaveConfig, data, tables, work, auto

LEMMA ShowResultsTypes ==
  ASSUME NEW p \in Pages, Types, ShowResults(p) PROVE Types'
BY DEF Types, ShowResults, Look, data, tables, work, auto

LEMMA AnalyzeTypes ==
  ASSUME NEW p \in Pages, NEW cfg \in PageRules, Types, Analyze(p, cfg) PROVE Types'
BY RuleAssumption DEF Types, Analyze, Look, Goto, NoRow, Active, Workers, Jobs, data, auto

LEMMA ExecuteTypes ==
  ASSUME NEW p \in Pages, Types, Execute(p) PROVE Types'
BY DEF Types, Execute, Look, Goto, NoRow, Active, Workers, Jobs, data, auto

LEMMA CancelTypes ==
  ASSUME NEW p \in Pages, Types, Cancel(p) PROVE Types'
<1>1. p \in Jobs BY DEF Jobs
<1>2. job \in [Jobs -> [status : {"none"} \cup Active \cup Final, cancel : BOOLEAN,
                      shows : {"nothing", "items", "no items", "freed"}]]
  BY DEF Types
<1>3. job' \in [Jobs -> [status : {"none"} \cup Active \cup Final, cancel : BOOLEAN,
                       shows : {"nothing", "items", "no items", "freed"}]]
  BY <1>1, <1>2 DEF Cancel
<1> QED BY <1>3 DEF Types, Cancel, data, work, auto

LEMMA ScanTypes ==
  ASSUME NEW w \in Workers, NEW ok \in BOOLEAN, NEW listed \in BOOLEAN,
         Types, Scan(w, ok, listed)
  PROVE  Types'
BY ReportTypes, EndTypes DEF Types, Scan, Goto, Final, data, auto

LEMMA ScanFailsTypes ==
  ASSUME NEW w \in Workers, Types, ScanFails(w) PROVE Types'
BY EndTypes DEF Types, ScanFails, data, tables

LEMMA CategoryTypes ==
  ASSUME NEW w \in Workers, NEW ok \in BOOLEAN, NEW listed \in BOOLEAN,
         Types, Category(w, ok, listed)
  PROVE  Types'
<1>1. /\ todo' \in [Workers -> SUBSET Items] /\ due' \in [Workers -> SUBSET Items]
      /\ spared' \in [Workers -> SUBSET Items]
  <2>1. /\ todo \in [Workers -> SUBSET Items] /\ due \in [Workers -> SUBSET Items]
        /\ spared \in [Workers -> SUBSET Items]
    BY DEF Types
  <2>2. /\ Covered(rules[w][k[w]], listed) \subseteq Items
        /\ Named(rules[w][k[w]]) \subseteq Items
    BY CoveredAreItems
  <2> HIDE DEF Covered, Named
  <2> QED BY <2>1, <2>2 DEF Category
<1>2. lost' \in [Workers -> BOOLEAN] /\ faults' \in 0..MaxFaults
  BY OutcomeTypes DEF Category
<1>3. pc' \in [Workers -> {"none", "scan", "category", "items", "progress",
                          "cancelled", "verdict", "history", "end"}]
  <2>1. pc \in [Workers -> {"none", "scan", "category", "items", "progress",
                          "cancelled", "verdict", "history", "end"}]
    BY DEF Types
  <2> QED BY <2>1 DEF Category, Goto
<1> QED BY <1>1, <1>2, <1>3 DEF Types, Category, data, tables, auto

LEMMA NoCategoryTypes ==
  ASSUME NEW w \in Workers, NEW ok \in BOOLEAN, Types, NoCategory(w, ok) PROVE Types'
<1>1. job[w].shows \in {"nothing", "items", "no items", "freed"}
  BY DEF Types, Jobs, Workers

<1>2. Report(w, ok, "Completed", job[w].shows) /\ End({w}) BY DEF NoCategory
<1>3. "Completed" \in Active \cup Final /\ {w} \in SUBSET Workers BY DEF Final
<1>4. /\ job' \in [Jobs -> [status : {"none"} \cup Active \cup Final,
                     cancel : BOOLEAN,
                     shows : {"nothing", "items", "no items", "freed"}]]
      /\ lost' \in [Workers -> BOOLEAN] /\ faults' \in 0..MaxFaults
  BY <1>1, <1>2, <1>3, ReportTypes
<1> QED BY <1>2, <1>3, <1>4, EndTypes DEF Types, NoCategory, data, auto

LEMMA DeleteFileTypes ==
  ASSUME NEW w \in Workers, NEW ok \in BOOLEAN, NEW removed \in BOOLEAN,
         Types, DeleteFile(w, ok, removed)
  PROVE  Types'
<1>1. born' \in [Items -> 0..Gone] BY DeleteTypes DEF DeleteFile
<1>2. lost' \in [Workers -> BOOLEAN] /\ faults' \in 0..MaxFaults
  BY OutcomeTypes DEF DeleteFile
<1>3. todo' \in [Workers -> SUBSET Items] /\ spared' \in [Workers -> SUBSET Items]
  <2>1. todo \in [Workers -> SUBSET Items] /\ spared \in [Workers -> SUBSET Items]
    BY DEF Types
  <2>2. PICK i \in todo[w] :
          /\ todo' = [todo EXCEPT ![w] = @ \ {i}]
          /\ spared' = [spared EXCEPT ![w] = IF removed THEN @ ELSE @ \cup {i}]
    BY DEF DeleteFile
  <2>3. i \in Items BY <2>1, <2>2
  <2> QED BY <2>1, <2>2, <2>3
<1> QED BY <1>1, <1>2, <1>3 DEF Types, DeleteFile, tables, auto

LEMMA DeleteRowsTypes ==
  ASSUME NEW w \in Workers, Types, DeleteRows(w) PROVE Types'
BY DeleteTypes DEF Types, DeleteRows, tables, work, auto

LEMMA CategoryEndsTypes ==
  ASSUME NEW w \in Workers, NEW ok \in BOOLEAN, Types, CategoryEnds(w, ok) PROVE Types'
BY OutcomeTypes DEF Types, CategoryEnds, Goto, data, tables, auto

LEMMA ProgressTypes ==
  ASSUME NEW w \in Workers, NEW ok \in BOOLEAN, Types, Progress(w, ok) PROVE Types'
<1>1. job[w].shows \in {"nothing", "items", "no items", "freed"}
  BY DEF Types, Jobs, Workers

<1>2. Report(w, ok, "Running", job[w].shows) BY DEF Progress
<1>3. "Running" \in Active \cup Final BY DEF Active
<1>4. k' \in [Workers -> Nat \ {0}]
  <2>1. k \in [Workers -> Nat \ {0}] BY DEF Types
  <2>2. k[w] + 1 \in Nat \ {0} BY <2>1
  <2> QED BY <2>1, <2>2 DEF Progress
<1>5. pc' \in [Workers -> {"none", "scan", "category", "items", "progress",
                          "cancelled", "verdict", "history", "end"}]
  BY DEF Types, Progress, Goto
<1>6. /\ job' \in [Jobs -> [status : {"none"} \cup Active \cup Final,
                     cancel : BOOLEAN,
                     shows : {"nothing", "items", "no items", "freed"}]]
      /\ lost' \in [Workers -> BOOLEAN] /\ faults' \in 0..MaxFaults
  BY <1>1, <1>2, <1>3, ReportTypes
<1> QED BY <1>4, <1>5, <1>6 DEF Types, Progress, data, auto

LEMMA VerdictTypes ==
  ASSUME NEW w \in Workers, NEW ok \in BOOLEAN, Types, Verdict(w, ok) PROVE Types'
BY OutcomeTypes DEF Types, Verdict, Goto, Final, data, tables, auto

LEMMA RecordHistoryTypes ==
  ASSUME NEW w \in Workers, NEW ok \in BOOLEAN, Types, RecordHistory(w, ok) PROVE Types'
BY OutcomeTypes DEF Types, RecordHistory, Goto, Jobs, Workers, data, auto

LEMMA FinishTypes ==
  ASSUME NEW w \in Workers, NEW ok \in BOOLEAN, Types, verdict[w] \in Final, Finish(w, ok) PROVE Types'
BY ReportTypes, EndTypes DEF Types, Finish, data, auto

LEMMA StopBetweenTypes ==
  ASSUME NEW w \in Workers, NEW ok \in BOOLEAN, Types, StopBetween(w, ok) PROVE Types'
<1>1. job[w].shows \in {"nothing", "items", "no items", "freed"}
  BY DEF Types, Jobs, Workers

<1>2. Report(w, ok, "Cancelled", job[w].shows) /\ End({w}) BY DEF StopBetween
<1>3. "Cancelled" \in Active \cup Final /\ {w} \in SUBSET Workers BY DEF Final
<1>4. /\ job' \in [Jobs -> [status : {"none"} \cup Active \cup Final,
                     cancel : BOOLEAN,
                     shows : {"nothing", "items", "no items", "freed"}]]
      /\ lost' \in [Workers -> BOOLEAN] /\ faults' \in 0..MaxFaults
  BY <1>1, <1>2, <1>3, ReportTypes
<1> QED BY <1>2, <1>3, <1>4, EndTypes DEF Types, StopBetween, data, auto

LEMMA WebRestartTypes ==
  ASSUME Types, WebRestart PROVE Types'
<1>1. End(Pages) /\ Pages \in SUBSET Workers BY DEF WebRestart, Workers
<1>2. faults' \in 0..MaxFaults
  <2>1. faults \in 0..MaxFaults BY DEF Types
  <2> QED BY <2>1, BoundsAssumption DEF WebRestart
<1> QED BY <1>1, <1>2, EndTypes DEF Types, WebRestart, data, tables, auto

LEMMA WakeTypes ==
  ASSUME NEW onTime \in BOOLEAN, Types, Wake(onTime) PROVE Types'
BY DEF Types, Wake, data, tables, work

LEMMA CountJobsTypes ==
  ASSUME Types, CountJobs PROVE Types'
BY DEF Types, CountJobs, data, tables, work

LEMMA InsertAutoTypes ==
  ASSUME Types, InsertAuto PROVE Types'
BY RuleAssumption DEF Types, InsertAuto, NoRow, Active, Jobs, Workers, data

LEMMA AutoDoneTypes ==
  ASSUME Types, AutoDone PROVE Types'
BY DEF Types, AutoDone, data, tables, work

LEMMA CheckDiskTypes ==
  ASSUME NEW full \in BOOLEAN, Types, CheckDisk(full) PROVE Types'
BY DEF Types, CheckDisk, data, tables, work

LEMMA EmergencyTypes ==
  ASSUME Types, Emergency PROVE Types'
BY DEF Types, Emergency, NoRow, Active, Jobs, data, work

LEMMA DaemonFailsTypes ==
  ASSUME Types, DaemonFails PROVE Types'
<1>1. End({"auto"}) /\ {"auto"} \in SUBSET Workers BY DEF DaemonFails, Workers
<1>2. faults' \in 0..MaxFaults
  <2>1. faults \in 0..MaxFaults BY DEF Types
  <2> QED BY <2>1, BoundsAssumption DEF DaemonFails
<1> QED BY <1>1, <1>2, EndTypes DEF Types, DaemonFails, data, tables

-----------------------------------------------------------------------------
(***************************************************************************)
(* A cleanup that the history calls completed deleted all it could of what *)
(* its rules name, and a page's job that shows a final status is over.     *)
(*                                                                         *)
(* The invariant follows one worker at a time.  As long as nobody has      *)
(* asked it to stop and none of its statements was refused, what is left   *)
(* of the items its configuration has named so far is still on its list or *)
(* was spared; the list is empty between two categories; and the request   *)
(* to stop, which is a column of the worker's own row, is only taken back  *)
(* while the worker is not there.                                          *)
(***************************************************************************)

WorkerInv(w) ==
  /\ \A i \in due[w] : born[i] # 0
  /\ pc[w] \in {"none", "scan"} => due[w] = {} /\ k[w] = 1
  /\ pc[w] \in {"none", "scan", "category", "progress", "verdict"} => todo[w] = {}
  /\ pc[w] \in {"category", "items", "progress", "verdict"}
       /\ ~lost[w] /\ ~job[w].cancel => due[w] \cap Here \subseteq todo[w] \cup spared[w]
  /\ pc[w] \in {"history", "end"} =>
       /\ verdict[w] \in Final
       /\ verdict[w] = "Completed" /\ ~lost[w] => due[w] \cap Here \subseteq spared[w]
  /\ hist[w] # "none" => \/ pc[w] = "none"
                         \/ pc[w] = "end" /\ hist[w] = verdict[w]
  /\ pc[w] \in {"items", "progress"} => k[w] \in DOMAIN rules[w]
  /\ pc[w] = "category" => k[w] \in DOMAIN rules[w] \/ rules[w] = <<>>

PageInv(p) ==
  /\ pc[p] # "none" => job[p].status \in Active
  /\ pc[p] = "scan" => page[p] = "analysing"
  /\ pc[p] \notin {"none", "scan"} => page[p] = "deleting"
  /\ hist[p] # "none" => page[p] = "deleting"

DaemonInv == daemon # "working" => pc["auto"] = "none"

IInv ==
  /\ Types
  /\ \A w \in Workers : WorkerInv(w)
  /\ \A p \in Pages : PageInv(p)
  /\ DaemonInv

-----------------------------------------------------------------------------
(* Frames.                                                                 *)

Untouched(w) ==
  /\ pc'[w] = pc[w] /\ k'[w] = k[w] /\ rules'[w] = rules[w]
  /\ todo'[w] = todo[w] /\ verdict'[w] = verdict[w]
  /\ due'[w] = due[w] /\ spared'[w] = spared[w] /\ lost'[w] = lost[w]
  /\ hist'[w] = hist[w] /\ job'[w].cancel = job[w].cancel

(* Items that come were never there before; those that have been there     *)
(* are not forgotten.                                                      *)
ItemsStep ==
  /\ \A i \in Here' : i \in Here \/ born[i] = 0
  /\ \A i \in Items : born[i] # 0 => born'[i] # 0

LEMMA OthersStay ==
  ASSUME NEW w \in Workers, Types, WorkerInv(w), Untouched(w), ItemsStep
  PROVE  WorkerInv(w)'
<1>1. due'[w] \cap Here' \subseteq due[w] \cap Here
  BY DEF WorkerInv, Untouched, ItemsStep
<1>2. \A i \in due'[w] : born'[i] # 0
  <2>1. due[w] \subseteq Items BY DEF Types
  <2> QED BY <2>1 DEF WorkerInv, Untouched, ItemsStep
<1> HIDE DEF Here, ItemsStep
<1> QED BY <1>1, <1>2 DEF WorkerInv, Untouched

LEMMA DataStay == ASSUME UNCHANGED born PROVE ItemsStep
BY DEF ItemsStep, Here

LEMMA DeleteStep == ASSUME NEW is, is \subseteq Here, Types, Delete(is) PROVE
  ItemsStep /\ Here' = Here \ is
<1>1. born \in [Items -> 0..Gone] BY DEF Types
<1>a. Gone \in Nat /\ Gone # 0 /\ Gone \notin 1..MaxDay + 1
  BY BoundsAssumption DEF Gone
<1>2. Here \subseteq Items /\ is \subseteq Items BY DEF Here
<1>3. \A i \in Items : born'[i] = IF i \in is THEN Gone ELSE born[i]
  BY DEF Delete
<1>4. Here' = Here \ is
  <2> HIDE DEF Gone
  <2> QED BY <1>a, <1>2, <1>3 DEF Here
<1>5. \A i \in Items : born[i] # 0 => born'[i] # 0
  <2> HIDE DEF Gone
  <2> QED BY <1>a, <1>3
<1> QED BY <1>4, <1>5 DEF ItemsStep

LEMMA EndFacts ==
  ASSUME NEW ws \in SUBSET Workers, End(ws), Types
  PROVE  \A v \in Workers :
    /\ v \in ws => /\ pc'[v] = "none" /\ k'[v] = 1
                   /\ todo'[v] = {} /\ due'[v] = {}
    /\ v \notin ws => /\ pc'[v] = pc[v] /\ k'[v] = k[v] /\ rules'[v] = rules[v]
                      /\ todo'[v] = todo[v] /\ verdict'[v] = verdict[v]
                      /\ due'[v] = due[v] /\ spared'[v] = spared[v]
BY DEF End

LEMMA OutcomeFacts ==
  ASSUME NEW w \in Workers, NEW ok \in BOOLEAN, Outcome(w, ok), Types
  PROVE  /\ \A v \in Workers : v # w => lost'[v] = lost[v]
         /\ lost'[w] = (lost[w] \/ ~ok)
<1>1. lost \in [Workers -> BOOLEAN] BY DEF Types
<1> QED BY <1>1 DEF Outcome

LEMMA ReportFacts ==
  ASSUME NEW w \in Workers, NEW ok \in BOOLEAN, NEW status, NEW shows,
         Report(w, ok, status, shows), Types
  PROVE  /\ \A v \in Workers : v # w => lost'[v] = lost[v]
         /\ lost'[w] = (lost[w] \/ ~ok)
         /\ \A v \in Workers : job'[v].cancel = job[v].cancel
         /\ \A v \in Workers : v # w => job'[v] = job[v]
         /\ job'[w].status = IF ok THEN status ELSE job[w].status
<1>1. job \in [Jobs -> [status : {"none"} \cup Active \cup Final, cancel : BOOLEAN,
                      shows : {"nothing", "items", "no items", "freed"}]]
  BY DEF Types
<1>2. Workers \subseteq Jobs BY DEF Workers, Jobs
<1>3. Outcome(w, ok) BY DEF Report
<1>4. \A v \in Workers : v # w => job'[v] = job[v] BY <1>1, <1>2 DEF Report
<1>5. job'[w].cancel = job[w].cancel BY <1>1, <1>2 DEF Report
<1>6. job'[w].status = IF ok THEN status ELSE job[w].status
  BY <1>1, <1>2 DEF Report
<1> QED BY <1>3, <1>4, <1>5, <1>6, OutcomeFacts

(* A worker that has ended, and one that is about to begin.                *)
LEMMA IdleInv ==
  ASSUME NEW w \in Workers, pc'[w] \in {"none", "scan"}, k'[w] = 1,
         todo'[w] = {}, due'[w] = {}, pc'[w] = "scan" => hist'[w] = "none"
  PROVE  WorkerInv(w)'
BY DEF WorkerInv

-----------------------------------------------------------------------------
(* Each action of a worker, for itself and for the others.                 *)

LEMMA ScanWorker ==
  ASSUME Types, NEW w \in Workers, NEW ok \in BOOLEAN, NEW listed \in BOOLEAN,
         Scan(w, ok, listed),
         \A v \in Workers : WorkerInv(v)
  PROVE  \A v \in Workers : WorkerInv(v)'
<1> TAKE v \in Workers
<1>1. ItemsStep BY DataStay DEF Scan, data
<1>2. \E shows : Report(w, ok, "Completed", shows) BY DEF Scan
<1>3. hist' = hist BY DEF Scan
<1>4. CASE v # w
  <2>1. /\ pc'[v] = pc[v] /\ k'[v] = k[v] /\ rules'[v] = rules[v]
        /\ todo'[v] = todo[v] /\ verdict'[v] = verdict[v] /\ due'[v] = due[v]
        /\ spared'[v] = spared[v]
    <3>1. CASE w = "auto" BY <1>4, <3>1 DEF Scan, Goto, Types
    <3>2. CASE w # "auto"
      <4>1. End({w}) BY <3>2 DEF Scan
      <4> QED BY <1>4, <4>1, EndFacts
    <3> QED BY <3>1, <3>2
  <2> QED BY <1>1, <1>2, <1>3, <1>4, <2>1, ReportFacts, OthersStay DEF Untouched
<1>5. CASE v = w /\ w = "auto"
  <2>1. /\ pc'[w] = "category" /\ k' = k /\ rules' = rules
        /\ todo' = todo /\ due' = due
    BY <1>5 DEF Scan, Goto, Types
  <2>2. /\ due[w] = {} /\ k[w] = 1 /\ todo[w] = {} /\ hist[w] = "none"
    BY DEF WorkerInv, Scan
  <2>3. rules[w] \in Seq(Rule) BY DEF Types
  <2>4. 1 \in DOMAIN rules[w] \/ rules[w] = <<>> BY <2>3
  <2> QED BY <1>3, <1>5, <2>1, <2>2, <2>4 DEF WorkerInv
<1>6. CASE v = w /\ w # "auto"
  <2>1. End({w}) BY <1>6 DEF Scan
  <2> QED BY <1>6, <2>1, EndFacts, IdleInv
<1> QED BY <1>4, <1>5, <1>6

LEMMA ScanFailsWorker ==
  ASSUME Types, NEW w \in Workers, ScanFails(w),
         \A v \in Workers : WorkerInv(v)
  PROVE  \A v \in Workers : WorkerInv(v)'
<1> TAKE v \in Workers
<1>1. ItemsStep BY DataStay DEF ScanFails, data
<1>2. End({w}) /\ UNCHANGED <<job, hist, lost>> BY DEF ScanFails, tables
<1>3. CASE v # w
  BY <1>1, <1>2, <1>3, EndFacts, OthersStay DEF Untouched
<1>4. CASE v = w
  BY <1>2, <1>4, EndFacts, IdleInv
<1> QED BY <1>3, <1>4

LEMMA CategoryWorker ==
  ASSUME Types, NEW w \in Workers, NEW ok \in BOOLEAN, NEW listed \in BOOLEAN,
         Category(w, ok, listed),
         \A v \in Workers : WorkerInv(v)
  PROVE  \A v \in Workers : WorkerInv(v)'
<1> TAKE v \in Workers
<1>1. Here' = Here /\ ItemsStep BY DataStay DEF Category, data, Here
<1>2. UNCHANGED <<job, hist, k, rules, verdict, born>>
  BY DEF Category, tables, data
<1>3. Outcome(w, ok) BY DEF Category
<1>4. CASE v # w
  <2>1. /\ pc'[v] = pc[v] /\ todo'[v] = todo[v] /\ due'[v] = due[v]
        /\ spared'[v] = spared[v]
    BY <1>4 DEF Category, Goto, Types
  <2> QED BY <1>1, <1>2, <1>3, <1>4, <2>1, OutcomeFacts, OthersStay DEF Untouched
<1>5. CASE v = w
  <2> DEFINE set == Covered(rules[w][k[w]], listed)
             named == Named(rules[w][k[w]])
  <2>1. set \subseteq named /\ named \subseteq Here BY CoveredAreItems
  <2>2. todo[w] = {} /\ hist[w] = "none" BY DEF WorkerInv, Category
  <2>3. k[w] \in DOMAIN rules[w]
    <3>1. rules[w] \in Seq(Rule) /\ k[w] \in Nat \ {0} BY DEF Types
    <3>2. k[w] <= Len(rules[w]) BY DEF Category
    <3> QED BY <3>1, <3>2
  <2>4. CASE Cancelled(w, ok)
    <3>1. pc'[w] = "cancelled" /\ todo' = todo /\ due' = due
      BY <2>4 DEF Category, Goto, Types
    <3> QED BY <1>2, <1>5, <2>2, <3>1 DEF WorkerInv
  <2>5. CASE ~Cancelled(w, ok)
    <3>1. /\ pc'[w] = "items" /\ todo'[w] = set /\ due'[w] = due[w] \cup named
          /\ spared'[w] = spared[w] \cup (named \ set)
      BY <2>5 DEF Category, Goto, Types
    <3>2. ~lost'[w] /\ ~job[w].cancel => due[w] \cap Here \subseteq spared[w]
      <4>1. ~lost'[w] => ~lost[w] BY <1>3, OutcomeFacts
      <4> QED BY <4>1, <2>2 DEF WorkerInv, Category
    <3>3. \A i \in due'[w] : born'[i] # 0
      <4>1. \A i \in due[w] : born[i] # 0 BY DEF WorkerInv
      <4>2. \A i \in Here : born[i] # 0 BY DEF Here
      <4> QED BY <1>2, <2>1, <3>1, <4>1, <4>2
    <3> HIDE DEF set, named
    <3> QED BY <1>1, <1>2, <1>5, <2>2, <2>3, <3>1, <3>2, <3>3 DEF WorkerInv
  <2> QED BY <2>4, <2>5
<1> QED BY <1>4, <1>5

LEMMA NoCategoryWorker ==
  ASSUME Types, NEW w \in Workers, NEW ok \in BOOLEAN, NoCategory(w, ok),
         \A v \in Workers : WorkerInv(v)
  PROVE  \A v \in Workers : WorkerInv(v)'
<1> TAKE v \in Workers
<1>1. ItemsStep BY DataStay DEF NoCategory, data
<1>2. End({w}) /\ hist' = hist BY DEF NoCategory
<1>3. \E status, shows : Report(w, ok, status, shows) BY DEF NoCategory
<1>4. CASE v # w
  BY <1>1, <1>2, <1>3, <1>4, EndFacts, ReportFacts, OthersStay DEF Untouched
<1>5. CASE v = w
  BY <1>2, <1>5, EndFacts, IdleInv
<1> QED BY <1>4, <1>5

LEMMA FinishWorker ==
  ASSUME Types, NEW w \in Workers, NEW ok \in BOOLEAN, Finish(w, ok),
         \A v \in Workers : WorkerInv(v)
  PROVE  \A v \in Workers : WorkerInv(v)'
<1> TAKE v \in Workers
<1>1. ItemsStep BY DataStay DEF Finish, data
<1>2. End({w}) /\ hist' = hist BY DEF Finish
<1>3. \E status, shows : Report(w, ok, status, shows) BY DEF Finish
<1>4. CASE v # w
  BY <1>1, <1>2, <1>3, <1>4, EndFacts, ReportFacts, OthersStay DEF Untouched
<1>5. CASE v = w
  BY <1>2, <1>5, EndFacts, IdleInv
<1> QED BY <1>4, <1>5

LEMMA StopBetweenWorker ==
  ASSUME Types, NEW w \in Workers, NEW ok \in BOOLEAN, StopBetween(w, ok),
         \A v \in Workers : WorkerInv(v)
  PROVE  \A v \in Workers : WorkerInv(v)'
<1> TAKE v \in Workers
<1>1. ItemsStep BY DataStay DEF StopBetween, data
<1>2. End({w}) /\ hist' = hist BY DEF StopBetween
<1>3. \E status, shows : Report(w, ok, status, shows) BY DEF StopBetween
<1>4. CASE v # w
  BY <1>1, <1>2, <1>3, <1>4, EndFacts, ReportFacts, OthersStay DEF Untouched
<1>5. CASE v = w
  BY <1>2, <1>5, EndFacts, IdleInv
<1> QED BY <1>4, <1>5

LEMMA DeleteFileWorker ==
  ASSUME Types, NEW w \in Workers, NEW ok \in BOOLEAN, NEW removed \in BOOLEAN,
         DeleteFile(w, ok, removed), \A v \in Workers : WorkerInv(v)
  PROVE  \A v \in Workers : WorkerInv(v)'
<1> TAKE v \in Workers
<1> PICK i \in todo[w] :
      /\ Delete(IF removed THEN {i} \cap Here ELSE {})
      /\ todo' = [todo EXCEPT ![w] = @ \ {i}]
      /\ spared' = [spared EXCEPT ![w] = IF removed THEN @ ELSE @ \cup {i}]
  BY DEF DeleteFile
<1>1. ItemsStep /\ Here' = IF removed THEN Here \ {i} ELSE Here
  <2>1. {i} \cap Here \subseteq Here /\ {} \subseteq Here OBVIOUS
  <2>2. CASE removed
    <3>1. ItemsStep /\ Here' = Here \ ({i} \cap Here) BY <2>1, <2>2, DeleteStep
    <3> QED BY <2>2, <3>1
  <2>3. CASE ~removed
    <3>1. ItemsStep /\ Here' = Here \ {} BY <2>1, <2>3, DeleteStep
    <3> QED BY <2>3, <3>1
  <2> QED BY <2>2, <2>3
<1>2. UNCHANGED <<pc, k, rules, verdict, due, job, hist>>
  BY DEF DeleteFile, tables
<1>3. Outcome(w, ok) BY DEF DeleteFile
<1>4. CASE v # w
  <2>1. todo'[v] = todo[v] /\ spared'[v] = spared[v] BY <1>4 DEF Types
  <2> QED BY <1>1, <1>2, <1>3, <1>4, <2>1, OutcomeFacts, OthersStay DEF Untouched
<1>5. CASE v = w
  <2>1. /\ todo'[w] = todo[w] \ {i} /\ pc[w] = "items"
        /\ spared'[w] = IF removed THEN spared[w] ELSE spared[w] \cup {i}
    BY DEF Types, DeleteFile
  <2>2. ~lost'[w] => ~lost[w] BY <1>3, OutcomeFacts
  <2>3. \A o \in due[w] : born'[o] # 0
    <3>1. due[w] \subseteq Items BY DEF Types
    <3> QED BY <1>1, <3>1 DEF ItemsStep, WorkerInv
  <2>4. ~lost'[w] /\ ~job[w].cancel => due[w] \cap Here' \subseteq todo'[w] \cup spared'[w]
    <3>1. ~lost[w] /\ ~job[w].cancel => due[w] \cap Here \subseteq todo[w] \cup spared[w]
      BY <2>1 DEF WorkerInv
    <3> QED BY <1>1, <2>1, <2>2, <3>1
  <2> HIDE DEF Here
  <2> QED BY <1>2, <1>5, <2>1, <2>3, <2>4 DEF WorkerInv
<1> QED BY <1>4, <1>5

LEMMA DeleteRowsWorker ==
  ASSUME Types, NEW w \in Workers, DeleteRows(w),
         \A v \in Workers : WorkerInv(v)
  PROVE  \A v \in Workers : WorkerInv(v)'
<1> TAKE v \in Workers
<1> PICK b \in SUBSET (todo[w] \cap Here) : Delete(b) BY DEF DeleteRows
<1>1. ItemsStep BY DeleteStep
<1>2. Untouched(v) BY DEF DeleteRows, Untouched, tables, work
<1> QED BY <1>1, <1>2, OthersStay

LEMMA CategoryEndsWorker ==
  ASSUME Types, NEW w \in Workers, NEW ok \in BOOLEAN, CategoryEnds(w, ok),
         \A v \in Workers : WorkerInv(v)
  PROVE  \A v \in Workers : WorkerInv(v)'
<1> TAKE v \in Workers
<1>1. Here' = Here /\ ItemsStep BY DataStay DEF CategoryEnds, data, Here
<1>2. UNCHANGED <<job, hist, k, rules, verdict, due, spared, born>>
  BY DEF CategoryEnds, tables, data
<1>3. Outcome(w, ok) BY DEF CategoryEnds
<1>4. CASE v # w
  <2>1. pc'[v] = pc[v] /\ todo'[v] = todo[v]
    BY <1>4 DEF CategoryEnds, Goto, Types
  <2> QED BY <1>1, <1>2, <1>3, <1>4, <2>1, OutcomeFacts, OthersStay DEF Untouched
<1>5. CASE v = w
  <2>1. pc[w] = "items" /\ pc'[w] = "progress" /\ todo'[w] = {}
    BY DEF CategoryEnds, Goto, Types
  <2>2. ~lost'[w] /\ ~job[w].cancel => due[w] \cap Here \subseteq spared[w]
    <3>1. ~lost'[w] => ~lost[w] /\ ok BY <1>3, OutcomeFacts
    <3>2. ~lost[w] /\ ~job[w].cancel => due[w] \cap Here \subseteq todo[w] \cup spared[w]
      BY <2>1 DEF WorkerInv
    <3>3. ok /\ ~job[w].cancel => todo[w] \cap Here = {} BY DEF CategoryEnds
    <3> QED BY <3>1, <3>2, <3>3
  <2> HIDE DEF Here
  <2> QED BY <1>1, <1>2, <1>5, <2>1, <2>2 DEF WorkerInv
<1> QED BY <1>4, <1>5

LEMMA ProgressWorker ==
  ASSUME Types, NEW w \in Workers, NEW ok \in BOOLEAN, Progress(w, ok),
         \A v \in Workers : WorkerInv(v)
  PROVE  \A v \in Workers : WorkerInv(v)'
<1> TAKE v \in Workers
<1>1. Here' = Here /\ ItemsStep BY DataStay DEF Progress, data, Here
<1>2. UNCHANGED <<hist, rules, todo, verdict, due, spared, born>> BY DEF Progress, data
<1>3. Report(w, ok, "Running", job[w].shows) BY DEF Progress
<1>4. CASE v # w
  <2>1. pc'[v] = pc[v] /\ k'[v] = k[v] BY <1>4 DEF Progress, Goto, Types
  <2> QED BY <1>1, <1>2, <1>3, <1>4, <2>1, ReportFacts, OthersStay DEF Untouched
<1>5. CASE v = w
  <2>1. /\ pc[w] = "progress" /\ k'[w] = k[w] + 1
        /\ pc'[w] = IF k[w] < Len(rules[w]) THEN "category" ELSE "verdict"
    BY DEF Progress, Goto, Types
  <2>2. pc'[w] = "category" => k'[w] \in DOMAIN rules[w]
    <3>1. rules[w] \in Seq(Rule) /\ k[w] \in Nat \ {0} BY DEF Types
    <3> QED BY <2>1, <3>1
  <2>3. (~lost'[w] => ~lost[w]) /\ job'[w].cancel = job[w].cancel
    BY <1>3, ReportFacts
  <2> HIDE DEF Here
  <2> QED BY <1>1, <1>2, <1>5, <2>1, <2>2, <2>3 DEF WorkerInv
<1> QED BY <1>4, <1>5

LEMMA VerdictWorker ==
  ASSUME Types, NEW w \in Workers, NEW ok \in BOOLEAN, Verdict(w, ok),
         \A v \in Workers : WorkerInv(v)
  PROVE  \A v \in Workers : WorkerInv(v)'
<1> TAKE v \in Workers
<1>1. Here' = Here /\ ItemsStep BY DataStay DEF Verdict, data, Here
<1>2. UNCHANGED <<job, hist, k, rules, todo, due, spared, born>>
  BY DEF Verdict, tables, data
<1>3. Outcome(w, ok) BY DEF Verdict
<1>4. CASE v # w
  <2>1. pc'[v] = pc[v] /\ verdict'[v] = verdict[v]
    BY <1>4 DEF Verdict, Goto, Types
  <2> QED BY <1>1, <1>2, <1>3, <1>4, <2>1, OutcomeFacts, OthersStay DEF Untouched
<1>5. CASE v = w
  <2>1. /\ pc[w] = "verdict" /\ pc'[w] = "history"
        /\ verdict'[w] = IF Cancelled(w, ok) THEN "Cancelled" ELSE "Completed"
    BY DEF Verdict, Goto, Types
  <2>2. verdict'[w] = "Completed" /\ ~lost'[w] => due[w] \cap Here \subseteq spared[w]
    <3>1. ~lost'[w] => ~lost[w] /\ ok BY <1>3, OutcomeFacts
    <3>2. ~lost[w] /\ ~job[w].cancel => due[w] \cap Here \subseteq spared[w]
      BY <2>1 DEF WorkerInv
    <3>3. verdict'[w] = "Completed" /\ ok => ~job[w].cancel
      BY <2>1 DEF Cancelled
    <3> QED BY <3>1, <3>2, <3>3
  <2> HIDE DEF Here
  <2> QED BY <1>1, <1>2, <1>5, <2>1, <2>2 DEF WorkerInv, Final
<1> QED BY <1>4, <1>5

LEMMA RecordHistoryWorker ==
  ASSUME Types, NEW w \in Workers, NEW ok \in BOOLEAN, RecordHistory(w, ok),
         \A v \in Workers : WorkerInv(v)
  PROVE  \A v \in Workers : WorkerInv(v)'
<1> TAKE v \in Workers
<1>1. Here' = Here /\ ItemsStep BY DataStay DEF RecordHistory, data, Here
<1>2. UNCHANGED <<job, k, rules, todo, verdict, due, spared, born>>
  BY DEF RecordHistory, data
<1>3. Outcome(w, ok) BY DEF RecordHistory
<1>4. CASE v # w
  <2>1. pc'[v] = pc[v] BY <1>4 DEF RecordHistory, Goto, Types
  <2>2. hist'[v] = hist[v] BY <1>4 DEF RecordHistory, Types, Workers, Jobs
  <2> QED BY <1>1, <1>2, <1>3, <1>4, <2>1, <2>2, OutcomeFacts, OthersStay
          DEF Untouched
<1>5. CASE v = w
  <2>1. pc[w] = "history" /\ pc'[w] = "end"
    BY DEF RecordHistory, Goto, Types
  <2>2. hist[w] = "none" BY <2>1 DEF WorkerInv
  <2>3. hist'[w] = "none" \/ hist'[w] = verdict[w]
    BY <2>2 DEF RecordHistory, Types, Workers, Jobs
  <2>4. ~lost'[w] => ~lost[w] BY <1>3, OutcomeFacts
  <2> HIDE DEF Here
  <2> QED BY <1>1, <1>2, <1>5, <2>1, <2>3, <2>4 DEF WorkerInv
<1> QED BY <1>4, <1>5

(* The work of one worker, seen by all of them.                            *)
LEMMA WorkKeeps ==
  ASSUME Types, NEW w \in Workers, Work(w), \A v \in Workers : WorkerInv(v)
  PROVE  \A v \in Workers : WorkerInv(v)'
BY ScanWorker, ScanFailsWorker, CategoryWorker, NoCategoryWorker,
   DeleteFileWorker, DeleteRowsWorker, CategoryEndsWorker, ProgressWorker,
   VerdictWorker, RecordHistoryWorker, FinishWorker, StopBetweenWorker
   DEF Work

-----------------------------------------------------------------------------
(* The other actions, for the workers.                                     *)

LEMMA QuietWorker ==
  ASSUME Types, UNCHANGED <<data, tables, work>>,
         \A v \in Workers : WorkerInv(v)
  PROVE  \A v \in Workers : WorkerInv(v)'
<1> TAKE v \in Workers
<1>1. ItemsStep BY DataStay DEF data
<1>2. Untouched(v) BY DEF Untouched, tables, work
<1> QED BY <1>1, <1>2, OthersStay

LEMMA EnvironmentWorker ==
  ASSUME Types, \/ \E i \in Items : Arrives(i)
                \/ Midnight,
         \A v \in Workers : WorkerInv(v)
  PROVE  \A v \in Workers : WorkerInv(v)'
<1> TAKE v \in Workers
<1>1. Untouched(v) BY DEF Arrives, Midnight, Untouched, tables, work
<1>2. CASE Midnight
  <2>1. ItemsStep BY <1>2, DataStay DEF Midnight
  <2> QED BY <1>1, <2>1, OthersStay
<1>3. ASSUME NEW i \in Items, Arrives(i) PROVE WorkerInv(v)'
  <2>1. born \in [Items -> 0..Gone] /\ day \in 0..MaxDay BY DEF Types
  <2>2. born[i] = 0 /\ born' = [born EXCEPT ![i] = day + 1]
    BY <1>3 DEF Arrives
  <2>3. \A o \in Items : born[o] # 0 => born'[o] = born[o] BY <2>1, <2>2
  <2>4. \A o \in Here' : o \in Here \/ born[o] = 0
    <3>1. \A o \in Items : o # i => born'[o] = born[o] BY <2>1, <2>2
    <3> QED BY <2>2, <3>1 DEF Here
  <2>5. ItemsStep BY <2>3, <2>4 DEF ItemsStep
  <2> QED BY <1>1, <2>5, OthersStay
<1> QED BY <1>2, <1>3

LEMMA AnalyzeWorker ==
  ASSUME Types, NEW p \in Pages, NEW cfg \in PageRules, Analyze(p, cfg),
         \A v \in Workers : WorkerInv(v), PageInv(p)
  PROVE  \A v \in Workers : WorkerInv(v)'
<1> TAKE v \in Workers
<1>1. ItemsStep BY DataStay DEF Analyze, data
<1>2. p \in Workers /\ p \in Jobs BY DEF Workers, Jobs
<1>3. pc[p] = "none" /\ hist[p] = "none" BY DEF PageInv, Analyze
<1>4. UNCHANGED <<hist, k, todo, verdict, due, spared, lost>> BY DEF Analyze
<1>5. CASE v # p
  <2>1. pc'[v] = pc[v] /\ rules'[v] = rules[v]
    BY <1>5 DEF Analyze, Goto, Types
  <2>2. job'[v] = job[v] BY <1>5 DEF Analyze, Types, Workers, Jobs
  <2> QED BY <1>1, <1>4, <2>1, <2>2, OthersStay DEF Untouched
<1>6. CASE v = p
  <2>1. pc'[p] = "scan" BY <1>2 DEF Analyze, Goto, Types
  <2>2. due[p] = {} /\ k[p] = 1 /\ todo[p] = {} BY <1>2, <1>3 DEF WorkerInv
  <2> QED BY <1>3, <1>4, <1>6, <2>1, <2>2, IdleInv
<1> QED BY <1>5, <1>6

LEMMA ExecuteWorker ==
  ASSUME Types, NEW p \in Pages, Execute(p),
         \A v \in Workers : WorkerInv(v), PageInv(p)
  PROVE  \A v \in Workers : WorkerInv(v)'
<1> TAKE v \in Workers
<1>1. ItemsStep BY DataStay DEF Execute, data
<1>2. p \in Workers /\ p \in Jobs BY DEF Workers, Jobs
<1>3. pc[p] = "none" /\ hist[p] = "none" BY DEF PageInv, Execute
<1>4. UNCHANGED <<hist, rules, k, todo, verdict, due, spared, lost, born>>
  BY DEF Execute, data
<1>5. CASE v # p
  <2>1. pc'[v] = pc[v] BY <1>5 DEF Execute, Goto, Types
  <2>2. job'[v] = job[v] BY <1>5 DEF Execute, Types, Workers, Jobs
  <2> QED BY <1>1, <1>4, <2>1, <2>2, OthersStay DEF Untouched
<1>6. CASE v = p
  <2>1. pc'[p] = "category" BY <1>2 DEF Execute, Goto, Types
  <2>2. due[p] = {} /\ k[p] = 1 /\ todo[p] = {} BY <1>2, <1>3 DEF WorkerInv
  <2>3. rules[p] \in Seq(Rule) BY <1>2 DEF Types
  <2>4. 1 \in DOMAIN rules[p] \/ rules[p] = <<>> BY <2>3
  <2> QED BY <1>3, <1>4, <1>6, <2>1, <2>2, <2>4 DEF WorkerInv
<1> QED BY <1>5, <1>6

LEMMA CancelWorker ==
  ASSUME Types, NEW p \in Pages, Cancel(p), \A v \in Workers : WorkerInv(v)
  PROVE  \A v \in Workers : WorkerInv(v)'
<1> TAKE v \in Workers
<1>1. Here' = Here BY DEF Cancel, data, Here
<1>2. UNCHANGED <<born, hist, pc, rules, k, todo, verdict, due, spared, lost>>
  BY DEF Cancel, data, work
<1>3. job[v].cancel => job'[v].cancel
  BY DEF Cancel, Types, Workers, Jobs
<1> HIDE DEF Here
<1> QED BY <1>1, <1>2, <1>3 DEF WorkerInv

LEMMA RestartWorker ==
  ASSUME Types, WebRestart \/ DaemonFails, \A v \in Workers : WorkerInv(v)
  PROVE  \A v \in Workers : WorkerInv(v)'
<1> TAKE v \in Workers
<1>1. PICK ws \in SUBSET Workers : End(ws)
  BY DEF WebRestart, DaemonFails, Workers
<1>2. ItemsStep BY DataStay DEF WebRestart, DaemonFails, data
<1>3. UNCHANGED <<job, hist, lost>> BY DEF WebRestart, DaemonFails, tables
<1>4. CASE v \in ws BY <1>1, <1>4, EndFacts, IdleInv
<1>5. CASE v \notin ws
  BY <1>1, <1>2, <1>3, <1>5, EndFacts, OthersStay DEF Untouched
<1> QED BY <1>4, <1>5

LEMMA InsertAutoWorker ==
  ASSUME Types, InsertAuto, DaemonInv, \A v \in Workers : WorkerInv(v)
  PROVE  \A v \in Workers : WorkerInv(v)'
<1> TAKE v \in Workers
<1>1. ItemsStep BY DataStay DEF InsertAuto, data
<1>2. "auto" \in Workers /\ "auto" \in Jobs BY DEF Workers, Jobs
<1>3. UNCHANGED <<k, todo, verdict, due, spared>> BY DEF InsertAuto
<1>4. CASE v # "auto"
  <2>1. pc'[v] = pc[v] /\ rules'[v] = rules[v] /\ lost'[v] = lost[v]
    BY <1>4 DEF InsertAuto, Types
  <2>2. job'[v] = job[v] /\ hist'[v] = hist[v]
    BY <1>4 DEF InsertAuto, Types, Workers, Jobs
  <2> QED BY <1>1, <1>3, <2>1, <2>2, OthersStay DEF Untouched
<1>5. CASE v = "auto"
  <2>1. pc'["auto"] = "scan" /\ hist'["auto"] = "none"
    BY <1>2 DEF InsertAuto, Types
  <2>2. pc["auto"] = "none" BY DEF DaemonInv, InsertAuto
  <2>3. due["auto"] = {} /\ k["auto"] = 1 /\ todo["auto"] = {}
    BY <1>2, <2>2 DEF WorkerInv
  <2> QED BY <1>3, <1>5, <2>1, <2>3, IdleInv
<1> QED BY <1>4, <1>5

LEMMA EmergencyWorker ==
  ASSUME Types, Emergency, \A v \in Workers : WorkerInv(v)
  PROVE  \A v \in Workers : WorkerInv(v)'
<1> TAKE v \in Workers
<1>1. ItemsStep BY DataStay DEF Emergency, data
<1>2. job'[v] = job[v]
  <2>1. v # "emergency" BY PageAssumption DEF Workers
  <2> QED BY <2>1 DEF Emergency, Types, Workers, Jobs
<1>3. Untouched(v) BY <1>2 DEF Emergency, Untouched, work
<1> QED BY <1>1, <1>3, OthersStay

-----------------------------------------------------------------------------
(* Pages and the daemon.                                                   *)

(* What the work of a worker does to its page, its row and the daemon.     *)
WorkEffect(w) ==
  /\ pc[w] # "none" /\ page' = page
  /\ \A v \in Workers : v # w =>
       pc'[v] = pc[v] /\ job'[v] = job[v] /\ hist'[v] = hist[v]
  /\ \/ pc'[w] = "none" /\ hist'[w] = hist[w]
     \/ /\ pc'[w] \notin {"none", "scan"}
        /\ pc[w] # "scan" \/ w = "auto"
        /\ job'[w].status \in {job[w].status, "Running"} \/ w = "auto"
        /\ hist'[w] = hist[w] \/ pc[w] = "history"
  /\ daemon' = daemon \/ (w = "auto" /\ pc'[w] = "none")

LEMMA EndEffect ==
  ASSUME Types, NEW w \in Workers, End({w}),
         \/ job' = job
         \/ \E ok \in BOOLEAN : \E status, shows : Report(w, ok, status, shows),
         hist' = hist, page' = page, pc[w] # "none",
         daemon' = daemon \/ w = "auto"
  PROVE  WorkEffect(w)
<1>1. /\ pc'[w] = "none"
      /\ \A v \in Workers : v # w => pc'[v] = pc[v]
  BY EndFacts
<1>2. \A v \in Workers : v # w => job'[v] = job[v] BY ReportFacts
<1> QED BY <1>1, <1>2 DEF WorkEffect

LEMMA StepEffect ==
  ASSUME Types, NEW w \in Workers, NEW place, Goto(w, place),
         place \notin {"none", "scan"}, pc[w] \notin {"none", "scan"},
         \/ job' = job
         \/ \E ok \in BOOLEAN : \E shows : Report(w, ok, "Running", shows),
         \A v \in Workers : hist'[v] = hist[v] \/ (v = w /\ pc[w] = "history"),
         page' = page, daemon' = daemon
  PROVE  WorkEffect(w)
<1>1. /\ pc'[w] = place
      /\ \A v \in Workers : v # w => pc'[v] = pc[v]
  BY DEF Goto, Types
<1>2. \A v \in Workers : v # w => job'[v] = job[v] BY ReportFacts
<1>3. job'[w].status \in {job[w].status, "Running"} BY ReportFacts
<1> QED BY <1>1, <1>2, <1>3 DEF WorkEffect

LEMMA WorkHasEffect ==
  ASSUME Types, NEW w \in Workers, Work(w) PROVE WorkEffect(w)
<1>1. ASSUME NEW ok \in BOOLEAN, NEW listed \in BOOLEAN, Scan(w, ok, listed)
      PROVE  WorkEffect(w)
  <2>0. \E shows : Report(w, ok, "Completed", shows) BY <1>1 DEF Scan
  <2>1. /\ pc[w] = "scan" /\ hist' = hist /\ page' = page /\ daemon' = daemon
    BY <1>1 DEF Scan, auto
  <2>2. CASE w = "auto"
    <3>1. pc'[w] = "category" /\ \A v \in Workers : v # w => pc'[v] = pc[v]
      BY <1>1, <2>2 DEF Scan, Goto, Types
    <3>2. \A v \in Workers : v # w => job'[v] = job[v] BY <2>0, ReportFacts
    <3> QED BY <2>1, <2>2, <3>1, <3>2 DEF WorkEffect
  <2>3. CASE w # "auto"
    <3>1. End({w}) BY <1>1, <2>3 DEF Scan
    <3> QED BY <2>0, <2>1, <3>1, EndEffect
  <2> QED BY <2>2, <2>3
<1>2. ASSUME ScanFails(w) PROVE WorkEffect(w)
  BY <1>2, EndEffect DEF ScanFails, tables
<1>3. ASSUME NEW ok \in BOOLEAN, NEW listed \in BOOLEAN, Category(w, ok, listed)
      PROVE  WorkEffect(w)
  BY <1>3, StepEffect DEF Category, tables, auto
<1>4. ASSUME NEW ok \in BOOLEAN, NoCategory(w, ok) PROVE WorkEffect(w)
  BY <1>4, EndEffect DEF NoCategory, auto
<1>5. ASSUME NEW ok \in BOOLEAN, NEW removed \in BOOLEAN, DeleteFile(w, ok, removed)
      PROVE  WorkEffect(w)
  BY <1>5 DEF DeleteFile, WorkEffect, tables, auto
<1>6. ASSUME DeleteRows(w) PROVE WorkEffect(w)
  BY <1>6 DEF DeleteRows, WorkEffect, tables, work, auto
<1>7. ASSUME NEW ok \in BOOLEAN, CategoryEnds(w, ok) PROVE WorkEffect(w)
  BY <1>7, StepEffect DEF CategoryEnds, tables, auto
<1>8. ASSUME NEW ok \in BOOLEAN, Progress(w, ok) PROVE WorkEffect(w)
  BY <1>8, StepEffect DEF Progress, auto
<1>9. ASSUME NEW ok \in BOOLEAN, Verdict(w, ok) PROVE WorkEffect(w)
  BY <1>9, StepEffect DEF Verdict, tables, auto
<1>10. ASSUME NEW ok \in BOOLEAN, RecordHistory(w, ok) PROVE WorkEffect(w)
  <2>1. \A v \in Workers : hist'[v] = hist[v] \/ v = w
    BY <1>10 DEF RecordHistory, Types, Workers, Jobs
  <2> QED BY <1>10, <2>1, StepEffect DEF RecordHistory, auto
<1>11. ASSUME NEW ok \in BOOLEAN, Finish(w, ok) PROVE WorkEffect(w)
  BY <1>11, EndEffect DEF Finish, auto
<1>12. ASSUME NEW ok \in BOOLEAN, StopBetween(w, ok) PROVE WorkEffect(w)
  BY <1>12, EndEffect DEF StopBetween, auto
<1> QED BY <1>1, <1>2, <1>3, <1>4, <1>5, <1>6, <1>7, <1>8, <1>9, <1>10, <1>11,
           <1>12 DEF Work

LEMMA WorkPages ==
  ASSUME Types, NEW w \in Workers, WorkEffect(w),
         \A p \in Pages : PageInv(p), DaemonInv
  PROVE  (\A p \in Pages : PageInv(p)') /\ DaemonInv'
<1>1. ASSUME NEW p \in Pages PROVE PageInv(p)'
  <2>1. p \in Workers BY DEF Workers
  <2>2. CASE p # w BY <2>1, <2>2 DEF WorkEffect, PageInv
  <2>3. CASE p = w
    <3>1. p # "auto" BY PageAssumption
    <3> QED BY <2>3, <3>1 DEF WorkEffect, PageInv, Active
  <2> QED BY <2>2, <2>3
<1>2. DaemonInv'
  BY DEF WorkEffect, DaemonInv, Workers
<1> QED BY <1>1, <1>2

(* The actions of pages, their rows and their threads.                     *)
LEMMA PageActionPages ==
  ASSUME Types, NEW q \in Pages, \A p \in Pages : PageInv(p), DaemonInv,
         \/ \E cfg \in PageRules : Analyze(q, cfg)
         \/ ShowResults(q) \/ Execute(q) \/ Cancel(q)
  PROVE  (\A p \in Pages : PageInv(p)') /\ DaemonInv'
<1>0. q \in Workers /\ q \in Jobs /\ q # "auto"
  BY PageAssumption DEF Workers, Jobs
<1>1. hist' = hist /\ daemon' = daemon
  BY DEF Analyze, ShowResults, Execute, Cancel, tables, auto
<1>2. DaemonInv'
  <2>1. pc'["auto"] = pc["auto"]
    BY <1>0 DEF Analyze, ShowResults, Execute, Cancel, Goto, Types, Workers, work
  <2> QED BY <1>1, <2>1 DEF DaemonInv
<1>3. ASSUME NEW p \in Pages, p # q PROVE PageInv(p)'
  <2>1. page'[p] = page[p]
    BY <1>3 DEF Analyze, ShowResults, Execute, Cancel, Look, Types
  <2>2. pc'[p] = pc[p]
    BY <1>3 DEF Analyze, ShowResults, Execute, Cancel, Goto, Types, Workers, work
  <2>3. job'[p] = job[p]
    BY <1>3 DEF Analyze, ShowResults, Execute, Cancel, Types, Jobs, tables
  <2> QED BY <1>1, <2>1, <2>2, <2>3 DEF PageInv
<1>4. PageInv(q)'
  <2>1. CASE \E cfg \in PageRules : Analyze(q, cfg)
    <3>1. pc'[q] = "scan" /\ page'[q] = "analysing"
      BY <1>0, <2>1 DEF Analyze, Goto, Look, Types
    <3>3. job'[q].status = "Pending"
      <4>1. job' = [job EXCEPT ![q] = [NoRow EXCEPT !.status = "Pending"]]
        BY <2>1 DEF Analyze
      <4>2. job'[q] = [NoRow EXCEPT !.status = "Pending"]
        BY <1>0, <4>1 DEF Types
      <4> QED BY <4>2 DEF NoRow
    <3>2. hist'[q] = "none" BY <1>1, <2>1 DEF PageInv, Analyze
    <3> QED BY <3>1, <3>2, <3>3 DEF PageInv, Active
  <2>2. CASE ShowResults(q)
    <3>1. pc[q] = "none" /\ hist[q] = "none"
      BY <2>2 DEF ShowResults, PageInv, Active, Final
    <3>2. pc' = pc BY <2>2 DEF ShowResults, work
    <3> QED BY <1>1, <3>1, <3>2 DEF PageInv
  <2>3. CASE Execute(q)
    <3>1. pc'[q] = "category" /\ page'[q] = "deleting" /\ job'[q].status = "Pending"
      BY <1>0, <2>3 DEF Execute, Goto, Look, NoRow, Types
    <3> QED BY <3>1 DEF PageInv, Active
  <2>4. CASE Cancel(q)
    <3>1. pc' = pc /\ page' = page BY <2>4 DEF Cancel, work
    <3>2. job'[q].status = job[q].status BY <1>0, <2>4 DEF Cancel, Types
    <3> QED BY <1>1, <3>1, <3>2 DEF PageInv
  <2> QED BY <2>1, <2>2, <2>3, <2>4
<1> QED BY <1>2, <1>3, <1>4

(* The daemon, restarts and the environment.                               *)
LEMMA OtherPages ==
  ASSUME Types, \A p \in Pages : PageInv(p), DaemonInv,
         \/ \E i \in Items : Arrives(i)
         \/ Midnight \/ WebRestart \/ DaemonFails \/ DaemonStep
         \/ \E c \in AutoConfigs : SaveConfig(c)
         \/ \E onTime \in BOOLEAN : Wake(onTime)
         \/ UNCHANGED vars
  PROVE  (\A p \in Pages : PageInv(p)') /\ DaemonInv'
<1>0. \A p \in Pages : p \in Workers /\ p \in Jobs /\ p \notin {"auto", "emergency"}
  BY PageAssumption DEF Workers, Jobs
<1>1. CASE UNCHANGED <<pc, page, job, hist>> /\ daemon' = daemon
  BY <1>1 DEF PageInv, DaemonInv
<1>2. CASE WebRestart
  <2>1. End(Pages) /\ UNCHANGED <<job, hist, page, daemon>>
    BY <1>2 DEF WebRestart, tables, auto
  <2>2. \A p \in Pages : pc'[p] = "none" BY <1>0, <2>1 DEF End
  <2>3. pc'["auto"] = pc["auto"] BY <2>1, PageAssumption DEF End, Workers
  <2> QED BY <2>1, <2>2, <2>3 DEF PageInv, DaemonInv
<1>3. CASE DaemonFails
  <2>1. End({"auto"}) /\ UNCHANGED <<job, hist, page>>
    BY <1>3 DEF DaemonFails, tables
  <2>2. pc'["auto"] = "none" /\ \A p \in Pages : pc'[p] = pc[p]
    BY <1>0, <2>1 DEF End, Workers
  <2> QED BY <2>1, <2>2 DEF PageInv, DaemonInv
<1>4. CASE \/ \E onTime \in BOOLEAN : Wake(onTime)
           \/ CountJobs \/ AutoDone
           \/ \E full \in BOOLEAN : CheckDisk(full)
  <2>1. UNCHANGED <<pc, page, job, hist>>
    BY <1>4 DEF Wake, CountJobs, AutoDone, CheckDisk, tables, work
  <2>2. DaemonInv'
    BY <1>4, <2>1 DEF Wake, CountJobs, AutoDone, CheckDisk, DaemonInv
  <2> QED BY <2>1, <2>2 DEF PageInv
<1>5. CASE InsertAuto
  <2>1. \A p \in Pages : pc'[p] = pc[p] /\ job'[p] = job[p] /\ hist'[p] = hist[p]
    BY <1>0, <1>5 DEF InsertAuto, Types, Workers, Jobs
  <2>2. page' = page /\ daemon' = "working" BY <1>5 DEF InsertAuto
  <2> QED BY <2>1, <2>2 DEF PageInv, DaemonInv
<1>6. CASE Emergency
  <2>1. \A p \in Pages : job'[p] = job[p]
    BY <1>0, <1>6 DEF Emergency, Types, Jobs
  <2>2. UNCHANGED <<pc, page, hist>> BY <1>6 DEF Emergency, work
  <2>3. DaemonInv' BY <1>6, <2>2 DEF Emergency, DaemonInv
  <2> QED BY <2>1, <2>2, <2>3 DEF PageInv
<1>7. CASE \/ \E i \in Items : Arrives(i)
           \/ Midnight
           \/ \E c \in AutoConfigs : SaveConfig(c)
           \/ UNCHANGED vars
  BY <1>1, <1>7 DEF Arrives, Midnight, SaveConfig, vars, tables, work, auto
<1> QED BY <1>2, <1>3, <1>4, <1>5, <1>6, <1>7 DEF DaemonStep

-----------------------------------------------------------------------------
(* The invariant, and what it is for.                                      *)

LEMMA WorkTypes ==
  ASSUME Types, NEW w \in Workers, Work(w), WorkerInv(w) PROVE Types'
<1>1. ASSUME NEW ok \in BOOLEAN, Finish(w, ok) PROVE Types'
  <2>1. verdict[w] \in Final BY <1>1 DEF WorkerInv, Finish
  <2> QED BY <1>1, <2>1, FinishTypes
<1> QED BY <1>1, ScanTypes, ScanFailsTypes, CategoryTypes, NoCategoryTypes,
           DeleteFileTypes, DeleteRowsTypes, CategoryEndsTypes, ProgressTypes,
           VerdictTypes, RecordHistoryTypes, StopBetweenTypes DEF Work

LEMMA StepTypes ==
  ASSUME Types, \A w \in Workers : WorkerInv(w), [Next]_vars PROVE Types'
<1>1. CASE UNCHANGED vars
  BY <1>1 DEF Types, vars, data, tables, work, auto
<1>2. CASE \E w \in Workers : Work(w) BY <1>2, WorkTypes
<1>3. CASE \E p \in Pages : \/ \E cfg \in PageRules : Analyze(p, cfg)
                            \/ ShowResults(p) \/ Execute(p) \/ Cancel(p)
  BY <1>3, AnalyzeTypes, ShowResultsTypes, ExecuteTypes, CancelTypes
<1>4. CASE DaemonStep
  BY <1>4, CountJobsTypes, InsertAutoTypes, AutoDoneTypes, EmergencyTypes,
     CheckDiskTypes DEF DaemonStep
<1>5. CASE \/ \E i \in Items : Arrives(i)
           \/ Midnight \/ WebRestart \/ DaemonFails
           \/ \E c \in AutoConfigs : SaveConfig(c)
           \/ \E onTime \in BOOLEAN : Wake(onTime)
  BY <1>5, ArrivesTypes, MidnightTypes, WebRestartTypes, DaemonFailsTypes,
     SaveConfigTypes, WakeTypes
<1> QED BY <1>1, <1>2, <1>3, <1>4, <1>5 DEF Next

LEMMA StepWorkers ==
  ASSUME IInv, [Next]_vars PROVE \A w \in Workers : WorkerInv(w)'
<1> USE DEF IInv
<1>1. CASE \E w \in Workers : Work(w) BY <1>1, WorkKeeps
<1>2. CASE \E p \in Pages : \/ \E cfg \in PageRules : Analyze(p, cfg)
                            \/ Execute(p) \/ Cancel(p)
  BY <1>2, AnalyzeWorker, ExecuteWorker, CancelWorker
<1>3. CASE InsertAuto \/ Emergency \/ WebRestart \/ DaemonFails
  BY <1>3, InsertAutoWorker, EmergencyWorker, RestartWorker
<1>4. CASE (\E i \in Items : Arrives(i)) \/ Midnight
  BY <1>4, EnvironmentWorker
<1>5. CASE \/ \E p \in Pages : ShowResults(p)
           \/ CountJobs \/ AutoDone
           \/ \E full \in BOOLEAN : CheckDisk(full)
           \/ \E c \in AutoConfigs : SaveConfig(c)
           \/ \E onTime \in BOOLEAN : Wake(onTime)
           \/ UNCHANGED vars
  <2>1. UNCHANGED <<data, tables, work>>
    BY <1>5 DEF ShowResults, CountJobs, AutoDone, CheckDisk, SaveConfig, Wake, vars
  <2> QED BY <2>1, QuietWorker
<1> QED BY <1>1, <1>2, <1>3, <1>4, <1>5 DEF Next, DaemonStep

LEMMA StepPages ==
  ASSUME IInv, [Next]_vars
  PROVE  (\A p \in Pages : PageInv(p)') /\ DaemonInv'
<1> USE DEF IInv
<1>1. CASE \E w \in Workers : Work(w) BY <1>1, WorkHasEffect, WorkPages
<1>2. CASE \E p \in Pages : \/ \E cfg \in PageRules : Analyze(p, cfg)
                            \/ ShowResults(p) \/ Execute(p) \/ Cancel(p)
  BY <1>2, PageActionPages
<1>3. CASE \/ \E i \in Items : Arrives(i)
           \/ Midnight \/ WebRestart \/ DaemonFails \/ DaemonStep
           \/ \E c \in AutoConfigs : SaveConfig(c)
           \/ \E onTime \in BOOLEAN : Wake(onTime)
           \/ UNCHANGED vars
  BY <1>3, OtherPages
<1> QED BY <1>1, <1>2, <1>3 DEF Next

(* The invariant holds from the start and every step keeps it.             *)
THEOREM Invariance == Spec => []IInv
<1>1. Init => IInv
  <2> SUFFICES ASSUME Init PROVE IInv OBVIOUS
  <2>1. Types BY InitTypes
  <2>2. \A w \in Workers : WorkerInv(w) BY DEF Init, WorkerInv, Workers, Jobs
  <2>3. \A p \in Pages : PageInv(p) BY DEF Init, PageInv, Workers, Jobs
  <2>4. DaemonInv BY DEF Init, DaemonInv, Workers
  <2> QED BY <2>1, <2>2, <2>3, <2>4 DEF IInv
<1>2. IInv /\ [Next]_vars => IInv'
  BY StepTypes, StepWorkers, StepPages DEF IInv
<1> QED BY <1>1, <1>2, PTL DEF Spec

(* Every reachable state has its types, and a worker stays within its      *)
(* configuration (the loop over active_cats).                              *)
THEOREM TypeCorrect == Spec => []TypeOK
<1>1. IInv => TypeOK BY DEF IInv, TypeOK, InRange, WorkerInv
<1> QED BY <1>1, Invariance, PTL

(* A cleanup the history calls completed has left, of what its rules name, *)
(* only what it spared: a file the system refused to remove or one in a    *)
(* directory it never walked (_delete_files_batch, and the look at         *)
(* cancel_requested before _record_history).                               *)
THEOREM CompletedMeansComplete == Spec => []CompletedIsComplete
<1>1. IInv => CompletedIsComplete
  BY DEF IInv, CompletedIsComplete, WorkerInv
<1> QED BY <1>1, Invariance, PTL

(* A page that sees a final status is not looking at a job still at work   *)
(* (the last _update_progress of both engine methods).                     *)
THEOREM FinalIsOver == Spec => []FinalMeansOver
<1>1. IInv => FinalMeansOver
  BY DEF IInv, FinalMeansOver, PageInv, Active, Final
<1> QED BY <1>1, Invariance, PTL
=============================================================================
