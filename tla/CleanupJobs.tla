----------------------------- MODULE CleanupJobs -----------------------------
(***************************************************************************)
(* Old files and rows are deleted by cleanup jobs.  A page of the manager  *)
(* previews a cleanup, shows what it found and deletes it when told to;    *)
(* each half is a thread of the web process.  A daemon does the same once  *)
(* a day without asking, and announces a third kind of job when the disk   *)
(* is full.  A row of cleanup_jobs holds the status of a job and the       *)
(* request to cancel it; a row of cleanup_history is left by a cleanup     *)
(* that came to its end.  The daemon starts nothing while a row says that  *)
(* a job is on its way.                                                    *)
(***************************************************************************)
EXTENDS Integers, Sequences, FiniteSets

CONSTANTS
  Pages,         (* visits of the page; each is good for one job *)
  Items,         (* files and rows that a cleanup may delete *)
  CategoryOf,    (* [Items -> category] *)
  FileCats,      (* categories that are directories *)
  RowCats,       (* categories that are tables; the others are ignored *)
  Providers,     (* how many external storage providers are enabled *)
  DirOf,         (* [Items -> 0..Providers]: where a file lies, 0 is local *)
  PageRules,     (* the configurations a page may send *)
  AutoConfigs,   (* the rows cleanup_auto_config may hold *)
  Batch,         (* rows deleted by one statement, 500 in the code *)
  DefaultDays,   (* the fallback of _get_threshold, 30 in the code *)
  MaxDay,        (* bound: days that pass *)
  MaxFaults      (* bound: restarts and refused statements *)

Blank == -1      (* the input of a number left empty *)

Rule == [cat : STRING, strategy : STRING, value : Int, external : BOOLEAN]

ASSUME DataAssumption ==
  /\ DOMAIN CategoryOf = Items
  /\ FileCats \cap RowCats = {}
  /\ Providers \in Nat
  /\ DirOf \in [Items -> 0..Providers]
ASSUME RuleAssumption ==
  /\ PageRules \subseteq Seq(Rule) \ {<<>>}
  /\ AutoConfigs \subseteq
       [enabled : BOOLEAN, trigger : BOOLEAN, rules : Seq(Rule)]
ASSUME PageAssumption == {"auto", "emergency"} \cap Pages = {}
ASSUME BoundsAssumption ==
  /\ Batch \in Nat \ {0} /\ DefaultDays \in Nat
  /\ MaxDay \in Nat /\ MaxFaults \in Nat

(* The rows of cleanup_jobs.  A job of the daemon that has ended makes     *)
(* place for the next: nothing reads its row again.                        *)
Jobs == Pages \cup {"auto", "emergency"}
Workers == Pages \cup {"auto"}

VARIABLES
  day, born,         (* the date; the day after an item came, or Gone *)
  config,            (* cleanup_auto_config *)
  job,               (* cleanup_jobs *)
  hist,              (* cleanup_history: the status of a job's row, if any *)
  page,              (* what the visitor of a page looks at *)
  pc, rules, k,      (* a worker: where it is, its configuration, its place *)
  todo, verdict,     (* items its threshold covers; the status to write *)
  daemon, plan,      (* the daemon: where it is, the configuration it read *)
  due,               (* history: what the configuration names so far *)
  spared,            (* history: named, but not walked or not removed *)
  lost,              (* history: a statement of this worker was refused *)
  faults

data == <<day, born>>
tables == <<job, hist>>
work == <<pc, rules, k, todo, verdict, due, spared, lost>>
auto == <<daemon, plan>>
vars == <<data, config, tables, page, work, auto, faults>>

Active == {"Pending", "Running"}
Final == {"Completed", "Cancelled"}

Gone == MaxDay + 2
Here == {i \in Items : born[i] \in 1..MaxDay + 1}
Delete(is) == born' = [i \in Items |-> IF i \in is THEN Gone ELSE born[i]]

NoRow == [status |-> "none", cancel |-> FALSE, shows |-> "nothing"]

Init ==
  /\ day = 0 /\ born = [i \in Items |-> 0]
  /\ config \in AutoConfigs
  /\ job = [j \in Jobs |-> NoRow] /\ hist = [j \in Jobs |-> "none"]
  /\ page = [p \in Pages |-> "form"]
  /\ pc = [w \in Workers |-> "none"] /\ rules = [w \in Workers |-> <<>>]
  /\ k = [w \in Workers |-> 1] /\ todo = [w \in Workers |-> {}]
  /\ verdict = [w \in Workers |-> "none"]
  /\ due = [w \in Workers |-> {}] /\ spared = [w \in Workers |-> {}]
  /\ lost = [w \in Workers |-> FALSE]
  /\ daemon = "asleep" /\ plan = config
  /\ faults = 0

Goto(w, place) == pc' = [pc EXCEPT ![w] = place]
Look(p, at) == page' = [page EXCEPT ![p] = at]

(* Mutant: rows of jobs that have ended count as well.                     *)
BusyEver == \E j \in Jobs : job[j].status # "none"

(* Does a job's row say that it is on its way?                             *)
Busy == \E j \in Jobs : job[j].status \in Active

(* A statement of a worker is done, or refused because the database is     *)
(* locked for longer than a connection waits.                              *)
Outcome(w, ok) ==
  /\ ok \/ faults < MaxFaults
  /\ faults' = IF ok THEN faults ELSE faults + 1
  /\ lost' = [lost EXCEPT ![w] = @ \/ ~ok]

-----------------------------------------------------------------------------
(* The environment.                                                        *)

(* External: a recording, a voicemail, a row of a table comes to be.       *)
Arrives(i) ==
  /\ born[i] = 0
  /\ born' = [born EXCEPT ![i] = day + 1]
  /\ UNCHANGED <<day, config, tables, page, work, auto, faults>>

Midnight ==
  /\ day < MaxDay
  /\ day' = day + 1
  /\ UNCHANGED <<born, config, tables, page, work, auto, faults>>

(* auto_config.                                                            *)
SaveConfig(c) ==
  /\ c # config
  /\ config' = c
  /\ UNCHANGED <<data, tables, page, work, auto, faults>>

-----------------------------------------------------------------------------
(* What a rule covers.                                                     *)

(* _get_threshold.  A blank number cannot be read.  A strategy other than  *)
(* these two, "keep_latest_records" among them, falls back to DefaultDays. *)
Unreadable(rule) == rule.strategy = "older_than_days" /\ rule.value = Blank

Threshold(rule) ==
  IF rule.strategy = "older_than_days" THEN day - rule.value
  ELSE IF rule.strategy = "date_range" /\ rule.value # Blank THEN rule.value
  ELSE day - DefaultDays

Named(rule) ==
  {i \in Here : /\ CategoryOf[i] = rule.cat
                /\ rule.cat \in FileCats \cup RowCats
                /\ DirOf[i] = 0 \/ rule.external
                /\ born[i] - 1 < Threshold(rule)}

(* The loop over the directories does nothing but look whether they are    *)
(* there: the walk below it sees the last of them only.  The providers are *)
(* not among them when their SELECT was refused.                           *)
Walked(rule, listed) == IF rule.external /\ listed THEN Providers ELSE 0

Covered(rule, listed) ==
  {i \in Named(rule) : rule.cat \in FileCats => DirOf[i] = Walked(rule, listed)}

-----------------------------------------------------------------------------
(* The page.  Its visitor may stop at any point: none of these is fair.    *)

(* start_analyze.                                                          *)
Analyze(p, cfg) ==
  /\ page[p] = "form"
  /\ Look(p, "analysing")
  /\ job' = [job EXCEPT ![p] = [NoRow EXCEPT !.status = "Pending"]]
  /\ Goto(p, "scan") /\ rules' = [rules EXCEPT ![p] = cfg]
  /\ UNCHANGED <<data, config, hist, k, todo, verdict, due,
                 spared, lost, auto, faults>>

(* pollJobStatus, at the end of the preview: with nothing found the page   *)
(* has no button to go on with.                                            *)
ShowResults(p) ==
  /\ page[p] = "analysing" /\ job[p].status \in Final
  /\ Look(p, IF job[p].shows = "items" THEN "results" ELSE "left")
  /\ UNCHANGED <<data, config, tables, work, auto, faults>>

(* Mutant: the status of the preview stays.                                *)
ExecuteKeepsStatus(p) ==
  /\ page[p] = "results"
  /\ Look(p, "deleting")
  /\ job' = [job EXCEPT ![p].shows = "nothing", ![p].cancel = FALSE]
  /\ Goto(p, "category")
  /\ UNCHANGED <<data, config, hist, rules, k, todo, verdict, due, spared,
                 lost, auto, faults>>

(* execute_cleanup of the routes.                                          *)
Execute(p) ==
  /\ page[p] = "results"
  /\ Look(p, "deleting")
  /\ job' = [job EXCEPT ![p] = [NoRow EXCEPT !.status = "Pending"]]
  /\ Goto(p, "category")
  /\ UNCHANGED <<data, config, hist, rules, k, todo, verdict, due, spared,
                 lost, auto, faults>>

(* cancel_job.  The button is there while something is on its way.         *)
Cancel(p) ==
  /\ page[p] \in {"analysing", "deleting"} /\ ~job[p].cancel
  /\ job' = [job EXCEPT ![p].cancel = TRUE]
  /\ UNCHANGED <<data, config, hist, page, work, auto, faults>>

-----------------------------------------------------------------------------
(* A worker: a thread of the web process, or the daemon itself.            *)

(* Workers end, and with them what they knew.  The page still has the      *)
(* configuration it sent, and sends it again after the preview.            *)
End(ws) ==
  /\ pc' = [w \in Workers |-> IF w \in ws THEN "none" ELSE pc[w]]
  /\ k' = [w \in Workers |-> IF w \in ws THEN 1 ELSE k[w]]
  /\ todo' = [w \in Workers |-> IF w \in ws THEN {} ELSE todo[w]]
  /\ verdict' = [w \in Workers |-> IF w \in ws THEN "none" ELSE verdict[w]]
  /\ due' = [w \in Workers |-> IF w \in ws THEN {} ELSE due[w]]
  /\ spared' = [w \in Workers |-> IF w \in ws THEN {} ELSE spared[w]]
  /\ rules' = [w \in Workers |->
       IF w \in ws /\ ~(w \in Pages /\ page[w] = "analysing") THEN <<>> ELSE rules[w]]

(* _update_progress; with ok = FALSE the row keeps what it said.           *)
Report(w, ok, status, shows) ==
  /\ Outcome(w, ok)
  /\ job' = IF ok THEN [job EXCEPT ![w].status = status,
                                   ![w].shows = shows]
                  ELSE job

(* scan_and_analyze.  The daemon goes on to delete what it has counted.    *)
Scan(w, ok, listed) ==
  LET found == \E n \in DOMAIN rules[w] : Covered(rules[w][n], listed) # {}
  IN
  /\ pc[w] = "scan"
  /\ \A n \in DOMAIN rules[w] : ~Unreadable(rules[w][n])
  /\ Report(w, ok, "Completed", IF found THEN "items" ELSE "no items")
  /\ IF w = "auto"
     THEN Goto(w, "category") /\ UNCHANGED <<rules, k, todo, verdict, due, spared>>
     ELSE End({w})
  /\ UNCHANGED <<data, config, hist, page, auto>>

(* An exception: the row keeps the status it had.  The daemon prints it    *)
(* and goes to sleep.                                                      *)
ScanFails(w) ==
  /\ pc[w] = "scan"
  /\ \E n \in DOMAIN rules[w] : Unreadable(rules[w][n])
  /\ End({w})
  /\ daemon' = IF w = "auto" THEN "asleep" ELSE daemon
  /\ UNCHANGED <<data, config, tables, page, lost, plan, faults>>

(* _is_cancel_requested: a look that is refused finds no request.          *)
Cancelled(w, ok) == ok /\ job[w].cancel

(* execute_cleanup of the engine, at the top of its loop.  Its rules are   *)
(* those the preview could read.                                           *)
Category(w, ok, listed) ==
  LET rule == rules[w][k[w]]
      set == Covered(rule, listed)
  IN
  /\ pc[w] = "category" /\ k[w] <= Len(rules[w])
  /\ Outcome(w, ok)
  /\ IF Cancelled(w, ok)
     THEN Goto(w, "cancelled") /\ UNCHANGED <<todo, due, spared>>
     ELSE /\ Goto(w, "items")
          /\ todo' = [todo EXCEPT ![w] = set]
          /\ due' = [due EXCEPT ![w] = @ \cup Named(rule)]
          /\ spared' = [spared EXCEPT ![w] = @ \cup (Named(rule) \ set)]
  /\ UNCHANGED <<data, config, tables, page, rules, k, verdict, auto>>

(* No category is enabled.                                                 *)
NoCategory(w, ok) ==
  /\ pc[w] = "category" /\ rules[w] = <<>>
  /\ Report(w, ok, "Completed", job[w].shows)
  /\ End({w})
  /\ UNCHANGED <<data, config, hist, page, auto>>

(* _delete_files_batch.  A file another worker has removed is passed over, *)
(* and so is one that the system refuses to remove.                        *)
DeleteFile(w, ok, removed) ==
  /\ pc[w] = "items" /\ rules[w][k[w]].cat \in FileCats
  /\ ~Cancelled(w, ok)
  /\ Outcome(w, ok)
  /\ \E i \in todo[w] :
       /\ Delete(IF removed THEN {i} \cap Here ELSE {})
       /\ todo' = [todo EXCEPT ![w] = @ \ {i}]
       /\ spared' = [spared EXCEPT ![w] = IF removed THEN @ ELSE @ \cup {i}]
  /\ UNCHANGED <<day, config, tables, page, pc, rules, k, verdict, due,
                 auto>>

(* _delete_db_batch: one statement, and its commit.                        *)
DeleteRows(w) ==
  LET left == todo[w] \cap Here IN
  /\ pc[w] = "items" /\ rules[w][k[w]].cat \in RowCats
  /\ left # {} /\ ~job[w].cancel
  /\ \E b \in SUBSET left :
       /\ Cardinality(b) = Batch \/ (b = left /\ Cardinality(b) < Batch)
       /\ Delete(b)
  /\ UNCHANGED <<day, config, tables, page, work, auto, faults>>

(* Mutant: one category too many.                                          *)
ProgressPastEnd(w, ok) ==
  /\ pc[w] = "progress"
  /\ Report(w, ok, "Running", job[w].shows)
  /\ k' = [k EXCEPT ![w] = @ + 1]
  /\ Goto(w, IF k[w] <= Len(rules[w]) THEN "category" ELSE "verdict")
  /\ UNCHANGED <<data, config, hist, page, rules, todo, verdict, due, spared,
                 auto>>

(* A category is over: nothing is left, a cancellation was seen, or, for a *)
(* table, the statement was refused, which is logged and no more.          *)
CategoryEnds(w, ok) ==
  LET cat == rules[w][k[w]].cat IN
  /\ pc[w] = "items"
  /\ Outcome(w, ok)
  /\ \/ ok /\ (job[w].cancel \/ todo[w] \cap Here = {})
     \/ ~ok /\ cat \in RowCats
  /\ todo' = [todo EXCEPT ![w] = {}]
  /\ Goto(w, "progress")
  /\ UNCHANGED <<data, config, tables, page, rules, k, verdict, due, spared,
                 auto>>

Progress(w, ok) ==
  /\ pc[w] = "progress"
  /\ Report(w, ok, "Running", job[w].shows)
  /\ k' = [k EXCEPT ![w] = @ + 1]
  /\ Goto(w, IF k[w] < Len(rules[w]) THEN "category" ELSE "verdict")
  /\ UNCHANGED <<data, config, hist, page, rules, todo, verdict, due, spared,
                 auto>>

(* Mutant: the status does not ask for a cancellation.                     *)
VerdictUnasked(w, ok) ==
  /\ pc[w] = "verdict"
  /\ Outcome(w, ok)
  /\ verdict' = [verdict EXCEPT ![w] = "Completed"]
  /\ Goto(w, "history")
  /\ UNCHANGED <<data, config, tables, page, rules, k, todo, due, spared, auto>>

(* The last look at the request to cancel.                                 *)
Verdict(w, ok) ==
  /\ pc[w] = "verdict"
  /\ Outcome(w, ok)
  /\ verdict' = [verdict EXCEPT ![w] =
                   IF Cancelled(w, ok) THEN "Cancelled" ELSE "Completed"]
  /\ Goto(w, "history")
  /\ UNCHANGED <<data, config, tables, page, rules, k, todo, due, spared, auto>>

(* _record_history.                                                        *)
RecordHistory(w, ok) ==
  /\ pc[w] = "history"
  /\ Outcome(w, ok)
  /\ hist' = IF ok THEN [hist EXCEPT ![w] = verdict[w]] ELSE hist
  /\ Goto(w, "end")
  /\ UNCHANGED <<data, config, job, page, rules, k, todo, verdict, due, spared,
                 auto>>

(* The status the page waits for.                                          *)
Finish(w, ok) ==
  /\ pc[w] = "end"
  /\ Report(w, ok, verdict[w], "freed")
  /\ End({w})
  /\ UNCHANGED <<data, config, hist, page, auto>>

(* A cancellation between two categories leaves no row in the history.     *)
StopBetween(w, ok) ==
  /\ pc[w] = "cancelled"
  /\ Report(w, ok, "Cancelled", job[w].shows)
  /\ End({w})
  /\ UNCHANGED <<data, config, hist, page, auto>>

Work(w) ==
  \/ ScanFails(w) \/ DeleteRows(w)
  \/ \E ok \in BOOLEAN :
       \/ \E listed \in BOOLEAN : Scan(w, ok, listed) \/ Category(w, ok, listed)
       \/ \E removed \in BOOLEAN : DeleteFile(w, ok, removed)
       \/ NoCategory(w, ok) \/ CategoryEnds(w, ok) \/ Progress(w, ok)
       \/ Verdict(w, ok) \/ RecordHistory(w, ok) \/ Finish(w, ok)
       \/ StopBetween(w, ok)

(* A restart of the web process ends its threads where they are.           *)
WebRestart ==
  /\ faults < MaxFaults /\ faults' = faults + 1
  /\ \E p \in Pages : pc[p] # "none"
  /\ End(Pages)
  /\ UNCHANGED <<data, config, tables, page, lost, auto>>

-----------------------------------------------------------------------------
(* The daemon: check_and_run_auto_cleanup, once a minute.                  *)

(* It reads its configuration, and the clock says whether it is time.      *)
Wake(onTime) ==
  /\ daemon = "asleep" /\ config.enabled
  /\ plan' = config
  /\ daemon' = IF onTime THEN "count" ELSE "disk"
  /\ UNCHANGED <<data, config, tables, page, work, faults>>

CountJobs ==
  /\ daemon = "count"
  /\ daemon' = IF Busy THEN "disk" ELSE "insert"
  /\ UNCHANGED <<data, config, tables, page, work, plan, faults>>

InsertAuto ==
  /\ daemon = "insert"
  /\ daemon' = "working"
  /\ job' = [job EXCEPT !["auto"] = [NoRow EXCEPT !.status = "Running"]]
  /\ hist' = [hist EXCEPT !["auto"] = "none"]
  /\ pc' = [pc EXCEPT !["auto"] = "scan"]
  /\ rules' = [rules EXCEPT !["auto"] = plan.rules]
  /\ lost' = [lost EXCEPT !["auto"] = FALSE]
  /\ UNCHANGED <<data, config, page, k, todo, verdict, due,
                 spared, plan, faults>>

AutoDone ==
  /\ daemon = "working" /\ pc["auto"] = "none"
  /\ daemon' = "disk"
  /\ UNCHANGED <<data, config, tables, page, work, plan, faults>>

(* The second half: is the disk full, has there been no emergency in the   *)
(* last six hours, and is no job on its way?                               *)
CheckDisk(full) ==
  /\ daemon = "disk"
  /\ daemon' = IF plan.trigger /\ full /\ hist["emergency"] = "none" /\ ~Busy
               THEN "announce" ELSE "asleep"
  /\ UNCHANGED <<data, config, tables, page, work, plan, faults>>

(* The row is committed and then execute_emergency_cleanup is called, a    *)
(* method the engine does not have.                                        *)
Emergency ==
  /\ daemon = "announce"
  /\ daemon' = "asleep"
  /\ job' = [job EXCEPT !["emergency"] = [NoRow EXCEPT !.status = "Running"]]
  /\ UNCHANGED <<data, config, hist, page, work, plan, faults>>

(* An INSERT of the daemon is refused, or the daemon is restarted.         *)
DaemonFails ==
  /\ daemon # "asleep" /\ faults < MaxFaults
  /\ faults' = faults + 1
  /\ daemon' = "asleep"
  /\ End({"auto"})
  /\ UNCHANGED <<data, config, tables, page, lost, plan>>

DaemonStep ==
  \/ CountJobs \/ InsertAuto \/ AutoDone \/ Emergency
  \/ \E full \in BOOLEAN : CheckDisk(full)

Next ==
  \/ \E i \in Items : Arrives(i)
  \/ Midnight \/ WebRestart \/ DaemonFails \/ DaemonStep
  \/ \E c \in AutoConfigs : SaveConfig(c)
  \/ \E p \in Pages :
       \/ \E cfg \in PageRules : Analyze(p, cfg)
       \/ ShowResults(p) \/ Execute(p) \/ Cancel(p)
  \/ \E w \in Workers : Work(w)
  \/ \E onTime \in BOOLEAN : Wake(onTime)

Spec == Init /\ [][Next]_vars

(* Threads and the daemon run, and the daemon is awake, again and again,   *)
(* in the minute its schedule names.                                       *)
Fairness ==
  /\ \A w \in Workers : WF_vars(Work(w))
  /\ WF_vars(DaemonStep)
  /\ SF_vars(Wake(TRUE))

FairSpec == Spec /\ Fairness

-----------------------------------------------------------------------------
(* Properties.                                                             *)

(* Rows, workers and pages hold what the code gives them, and a worker     *)
(* never looks for a category beyond the last of its configuration         *)
(* (execute_cleanup, the loop over active_cats).                           *)
Types ==
  /\ day \in 0..MaxDay
  /\ born \in [Items -> 0..Gone]
  /\ config \in AutoConfigs /\ plan \in AutoConfigs
  /\ job \in [Jobs -> [status : {"none"} \cup Active \cup Final,
                       cancel : BOOLEAN,
                       shows : {"nothing", "items", "no items", "freed"}]]
  /\ hist \in [Jobs -> {"none"} \cup Final]
  /\ page \in [Pages -> {"form", "analysing", "results", "deleting", "left"}]
  /\ pc \in [Workers -> {"none", "scan", "category", "items", "progress",
                         "cancelled", "verdict", "history", "end"}]
  /\ rules \in [Workers -> Seq(Rule)]
  /\ k \in [Workers -> Nat \ {0}]
  /\ todo \in [Workers -> SUBSET Items] /\ due \in [Workers -> SUBSET Items]
  /\ spared \in [Workers -> SUBSET Items]
  /\ verdict \in [Workers -> {"none"} \cup Final]
  /\ lost \in [Workers -> BOOLEAN]
  /\ daemon \in {"asleep", "count", "insert", "working", "disk", "announce"}
  /\ faults \in 0..MaxFaults
InRange ==
  \A w \in Workers :
    /\ pc[w] \in {"items", "progress"} => k[w] \in DOMAIN rules[w]
    /\ pc[w] = "category" => k[w] \in DOMAIN rules[w] \/ rules[w] = <<>>
TypeOK == Types /\ InRange

(* A cleanup the history calls completed has left nothing of what its      *)
(* configuration names, whoever cancelled what and whichever other worker  *)
(* was deleting the same items, but the files the system did not let it    *)
(* remove and those in a directory the walk never entered, unless a        *)
(* statement of its own was refused (_delete_files_batch 171-193,          *)
(* _delete_db_batch and the look at cancel_requested that chooses the      *)
(* status, cleanup_engine.py 310).                                         *)
CompletedIsComplete ==
  \A w \in Workers :
    hist[w] = "Completed" /\ ~lost[w] => due[w] \cap Here \subseteq spared[w]

(* When the row of a page's job shows a final status, which makes the page *)
(* announce the end, no thread of that job is at work any more             *)
(* (pollJobStatus and the last statement of both engine methods).  The     *)
(* same is not true of the daemon's job, which is 'Completed' between its  *)
(* preview and its first deletion.                                         *)
FinalMeansOver ==
  \A p \in Pages : job[p].status \in Final => pc[p] = "none"

(* A row says that a job is on its way, and nobody is at work on it.       *)
Stuck ==
  \E j \in Jobs : job[j].status \in Active /\ (j \in Workers => pc[j] = "none")

DueForDaemon(i) ==
  config.enabled /\ \E n \in DOMAIN config.rules : i \in Named(config.rules[n])

(* What the daemon's rules name is deleted one day, whatever the pages do, *)
(* as long as the rules name it and are enabled.  Three things stop it: a  *)
(* row of cleanup_jobs left on its way by a worker that is gone            *)
(* (auto_cleaner_daemon.py 33), a directory that the walk never enters     *)
(* (cleanup_engine.py 171-175), and the system, which may refuse to remove *)
(* the file every time (192).                                              *)
ScheduleUnlessStuck ==
  \A i \in Items :
    i \in Here ~> (i \notin Here \/ ~DueForDaemon(i) \/ Stuck
                    \/ i \in spared["auto"])
=============================================================================
