------------------------------ MODULE DexPhones -------------------------------
(***************************************************************************)
(* The provisioning of phones: who publishes a phone's configuration file,   *)
(* tells the phone to fetch it, and keeps the record of how that went.        *)
(*                                                                          *)
(* Three kinds of threads work on the same tables and the same directory.    *)
(* The executor of dex/jobs.py takes tasks (notify these phones, scan this   *)
(* network) from a queue.  A web request deletes, refreshes, reboots or adds *)
(* a phone, or starts a scan, and waits.  The responder of dex/pnp.py, a      *)
(* process of its own, starts a thread when a Grandstream phone asks for its *)
(* configuration.                                                            *)
(*                                                                          *)
(* run[t] is where a thread stands; a step of it is one transaction, one     *)
(* exchange with the phone or one change of the directory.                   *)
(***************************************************************************)
EXTENDS DexInventory

CONSTANTS
  Workers,        (* threads of the executor: max_workers *)
  Web,            (* web requests that take more than one step *)
  Jobs,           (* bound: scans *)
  Plans           (* bound: how often somebody edits, deletes, scans, ... in
                     one behaviour, and how often something breaks *)

ASSUME ThreadAssumption == Workers \cap Web = {} /\ Macs \cap (Workers \cup Web) = {}
ASSUME PoolsAssumption ==
  IsFiniteSet(Workers) /\ IsFiniteSet(Web) /\ IsFiniteSet(Macs) /\ Jobs # {}
ASSUME PlanAssumption ==
  \A q \in Plans : q.stocked \in BOOLEAN /\ \A k \in {"edits", "models", "requests", "pnp", "faults"} : q[k] \in Nat

VARIABLES
  db,       (* dex_models and dex_devices *)
  files,    (* the provisioning directory *)
  ops,      (* dex_operations: a finished row is forgotten when its thread
               lets go of it, only the history page reads it from then on *)
  jobs,     (* dex_discovery_jobs *)
  queue,    (* tasks the executor has not begun *)
  run,
  served,   (* the responder's "provisioned" *)
  left,     (* what the plan still allows *)
  edition,  (* assignments saved so far *)
  apart     (* history: the phones whose file and record may differ *)

vars == <<db, files, ops, jobs, queue, run, served, left, edition, apart>>

Hosts   == SetToSeq(Macs)
Threads == Workers \cup Web \cup Macs
OpIds   == 1 .. Cardinality(Threads) + 1   (* bound: rows that are not forgotten *)

NoOp == [type |-> "none", id |-> 0, status |-> "none", overdue |-> FALSE]

Idle == [kind |-> "idle", pc |-> "idle", todo |-> <<>>, op |-> 0, baseline |-> FALSE,
         content |-> NoFile, assigned |-> FALSE, accepted |-> FALSE, job |-> CHOOSE j \in Jobs : TRUE, row |-> 0, mac |-> "none"]

Task(kind, todo) == [Idle EXCEPT !.kind = kind, !.todo = todo]

Holds(o)   == { t \in Threads : run[t].op = o }
Running(o) == ops[o].status = "Running"
Room       == \E o \in OpIds : ~Running(o) /\ Holds(o) = {}
Dev(t)     == Head(run[t].todo)

(* The threads that have a phone's file in their hands: published and not   *)
(* recorded, or archived and its row not deleted.                           *)
Holding(pc, q) == { t \in Threads : run[t].pc = pc /\ run[t].mac = q }
LeftBy(dead)   == { q \in Macs : (Holding("record", q) \cup Holding("row", q)) \cap dead # {} }

Spend(k) == left[k] > 0 /\ left' = [left EXCEPT ![k] = @ - 1]

Init ==
  /\ left \in Plans
  /\ db \in IF left.stocked THEN { StockedInventory(q) : q \in Macs } ELSE {EmptyInventory}
  /\ files = [p \in Macs |-> NoFile]
  /\ ops = [o \in OpIds |-> NoOp]
  /\ jobs = [j \in Jobs |-> "none"]
  /\ queue = <<>>
  /\ run = [t \in Threads |-> Idle]
  /\ served = {}
  /\ edition = 0 /\ apart = {}

-----------------------------------------------------------------------------
(* Steps of a thread.                                                      *)

Goto(t, pc) == run' = [run EXCEPT ![t].pc = pc]

(* On to the next phone of the batch; an exception ends one phone, not the  *)
(* batch.                                                                   *)
NextPhone(r) ==
  IF Len(r.todo) > 1
  THEN [Idle EXCEPT !.kind = r.kind, !.pc = "check", !.todo = Tail(r.todo)]
  ELSE Idle

Over(t) == run' = [run EXCEPT ![t] = NextPhone(run[t])]

(* Mutant: a second operation on the phone is only refused while another is *)
(* Pending.                                                                 *)
BusyWhenPending(table, i, type) ==
  \E o \in OpIds : table[o].id = i /\ table[o].type = type /\ table[o].status = "Pending"

Busy(table, i, type) ==
  \E o \in OpIds : table[o].id = i /\ table[o].type = type /\ table[o].status = "Running"

(* Mutant: an abandoned operation is not recovered.                         *)
NothingRecovered(i, type) == ops

(* Mutant: whatever is under way is taken for abandoned.                    *)
RecoveredAtOnce(i, type) ==
  [o \in OpIds |->
     IF ops[o].id = i /\ ops[o].type = type /\ Running(o)
     THEN IF Holds(o) = {} THEN NoOp ELSE [ops[o] EXCEPT !.status = "Failed"]
     ELSE ops[o]]

(* An operation of more than five minutes ago is taken for abandoned.       *)
Recovered(i, type) ==
  [o \in OpIds |->
     IF ops[o].id = i /\ ops[o].type = type /\ Running(o) /\ ops[o].overdue
     THEN IF Holds(o) = {} THEN NoOp ELSE [ops[o] EXCEPT !.status = "Failed"]
     ELSE ops[o]]

FreeOp == CHOOSE o \in OpIds : ~Running(o) /\ Holds(o) = {}

Insert(table, i, type) ==
  [table EXCEPT ![FreeOp] = [type |-> type, id |-> i, status |-> "Running", overdue |-> FALSE]]

(* create_operation and the update to Running: refused (nothing is written) *)
(* while another runs, and when the phone is gone (the foreign key).        *)
create_operation(t, i, type, pc) ==
  LET table == IF type = "refresh" THEN ops ELSE Recovered(i, type)
      refused == ~Live(db, i) \/ (type # "refresh" /\ Busy(table, i, type))
  IN IF refused
     THEN Over(t) /\ UNCHANGED ops
     ELSE /\ Room
          /\ ops' = Insert(table, i, type)
          /\ run' = [run EXCEPT ![t].op = FreeOp, ![t].pc = pc]

(* The last words of an operation: its final status, and the phone's, whose *)
(* row may be gone by now.                                                  *)
Ends(t, status, said) ==
  /\ ops' = [ops EXCEPT ![run[t].op] = NoOp]
  /\ db' = IF said = "" THEN db ELSE update_device_status(db, Dev(t), Touched)
  /\ Over(t)
  /\ served' = IF t \in Macs /\ status # "Failed" THEN served \cup {t} ELSE served

-----------------------------------------------------------------------------
(* notify.                                                                 *)

NotifyOnly == UNCHANGED <<jobs, queue, left, edition, apart>>

Refused(t) == IF run[t].baseline THEN ~Live(db, Dev(t)) ELSE ~Provisionable(db, Dev(t))

notify_check(t) ==
  /\ run[t].kind = "notify" /\ run[t].pc = "check"
  /\ IF Refused(t) THEN Over(t)
     ELSE run' = [run EXCEPT ![t].pc = "create",
                             ![t].content = db.devices[Dev(t)].accounts]
  /\ UNCHANGED <<db, files, ops, served>> /\ NotifyOnly

notify_create(t) ==
  /\ run[t].kind = "notify" /\ run[t].pc = "create"
  /\ create_operation(t, Dev(t), "notify", "prepare")
  /\ UNCHANGED <<db, files, served>> /\ NotifyOnly

(* Mutant: the phone is not read again, now that the operation is ours.     *)
RenderedAsChecked(t) == IF run[t].baseline THEN Bootstrap ELSE run[t].content

(* The accounts of the row as it is now.  A phone without a full set of     *)
(* accounts cannot be rendered, except as a bootstrap.                      *)
Rendered(t) == IF run[t].baseline THEN Bootstrap ELSE db.devices[Dev(t)].accounts

prepare_config(t) ==
  /\ run[t].kind = "notify" /\ run[t].pc = "prepare"
  /\ \/ /\ Refused(t) \/ (~run[t].baseline /\ db.devices[Dev(t)].accounts = 0)
        /\ Ends(t, "Failed", "Failed")
     \/ /\ ~Refused(t) /\ (run[t].baseline \/ db.devices[Dev(t)].accounts # 0)
        /\ run' = [run EXCEPT ![t].content = Rendered(t), ![t].pc = "publish",
                              ![t].assigned = db.devices[Dev(t)].accounts # 0,
                              ![t].mac = db.devices[Dev(t)].mac]
        /\ db' = update_device_status(db, Dev(t), Touched)
        /\ UNCHANGED <<ops, served>>
  /\ UNCHANGED files /\ NotifyOnly

(* os.replace of the file the record names, or an error before it.         *)
publish(t) ==
  /\ run[t].kind = "notify" /\ run[t].pc = "publish"
  /\ \/ /\ files' = [files EXCEPT ![run[t].mac] = run[t].content]
        /\ apart' = apart \ {run[t].mac}
        /\ Goto(t, "record") /\ UNCHANGED <<db, ops, served, left>>
     \/ /\ Spend("faults") /\ Ends(t, "Failed", "Failed") /\ UNCHANGED <<files, apart>>
  /\ UNCHANGED <<jobs, queue, edition>>

(* The file is new and is not recorded: the alias of a Grandstream phone    *)
(* cannot be written, or the database is locked, for what follows too or    *)
(* not.                                                                     *)
record_fails(t) ==
  /\ Spend("faults") /\ apart' = apart \cup {run[t].mac}
  /\ Ends(t, "Failed", "Failed") \/ (Over(t) /\ UNCHANGED <<db, ops, served>>)

(* The insert fails when the phone was deleted meanwhile.                   *)
record_config(t) ==
  /\ run[t].kind = "notify" /\ run[t].pc = "record"
  /\ \/ /\ Live(db, Dev(t))
        /\ db' = save_generated_config(db, Dev(t), run[t].content)
        /\ run' = [run EXCEPT ![t].pc = "send", ![t].content = NoFile]
        /\ UNCHANGED <<ops, served, left, apart>>
     \/ ~Live(db, Dev(t)) /\ Ends(t, "Failed", "Failed") /\ UNCHANGED <<left, apart>>
     \/ record_fails(t)
  /\ UNCHANGED <<files, jobs, queue, edition>>

(* Up to three attempts.  Without a contact nothing is sent, except by the  *)
(* responder, who has just heard from the phone.                            *)
send_notify(t) ==
  /\ run[t].kind = "notify" /\ run[t].pc = "send"
  /\ \/ /\ t \notin Macs /\ Ends(t, "CompletedWithWarnings", "Awaiting SIP Registration")
     \/ Ends(t, "Failed", "Failed")
     \/ \E accepted \in BOOLEAN :
          /\ run' = [run EXCEPT ![t].pc = "observe", ![t].accepted = accepted]
          /\ db' = update_device_status(db, Dev(t), Touched)
          /\ UNCHANGED <<ops, served>>
  /\ UNCHANGED files /\ NotifyOnly

(* Up to 360 seconds of reading the access log.                            *)
observe_download(t) ==
  /\ run[t].kind = "notify" /\ run[t].pc = "observe"
  /\ \/ Ends(t, "Failed", "Failed")
     \/ /\ run[t].baseline /\ files[run[t].mac] # NoFile
        /\ Ends(t, "Completed", "Config Downloaded")
     \/ /\ ~run[t].baseline /\ files[run[t].mac] # NoFile
        /\ Goto(t, "registers") /\ db' = update_device_status(db, Dev(t), Touched)
        /\ UNCHANGED <<ops, served>>
     \/ /\ run[t].accepted /\ Goto(t, "registered") /\ UNCHANGED <<db, ops, served>>
  /\ UNCHANGED files /\ NotifyOnly

(* A phone that has downloaded its file is Verified when it registers; one  *)
(* that has not is believed to have it when it is registered anyway.        *)
verify(t) ==
  /\ run[t].kind = "notify" /\ run[t].pc \in {"registers", "registered"}
  /\ \/ /\ run[t].assigned
        /\ Ends(t, IF run[t].pc = "registers" /\ run[t].accepted
                   THEN "Completed" ELSE "CompletedWithWarnings", "Verified")
     \/ /\ run[t].pc = "registers"
        /\ Ends(t, "CompletedWithWarnings", "Config Downloaded")
     \/ /\ run[t].pc = "registered"
        /\ Ends(t, "Failed", "Failed")
  /\ UNCHANGED files /\ NotifyOnly

Notify(t) ==
  notify_check(t) \/ notify_create(t) \/ prepare_config(t) \/ publish(t)
    \/ record_config(t) \/ send_notify(t) \/ observe_download(t) \/ verify(t)

-----------------------------------------------------------------------------
(* The long web requests.                                                  *)

WebOnly == UNCHANGED <<queue, left, edition, apart>>

refresh_start(t) ==
  /\ run[t].kind = "refresh" /\ run[t].pc = "check"
  /\ create_operation(t, Dev(t), "refresh", "probe")
  /\ UNCHANGED <<db, files, jobs, served>> /\ WebOnly

(* OPTIONS: without an answer it fails.  An answer with a MAC goes through   *)
(* the inventory, which creates the phone anew when it was deleted.          *)
refresh_probe(t) ==
  /\ run[t].kind = "refresh" /\ run[t].pc = "probe"
  /\ LET p == db.devices[Dev(t)].mac
         m == ModelOf(p)
         ensured == ensure_discovered_model(db, m)
         after == upsert_device(ensured, p, m, Default(m))
     IN \/ Ends(t, "Failed", "")
        \/ /\ Fresh(db, p)
           /\ db' = after
           /\ Goto(t, "registers") /\ UNCHANGED <<ops, served>>
        \/ /\ db' = ensured
           /\ Goto(t, "registers") /\ UNCHANGED <<ops, served>>
  /\ UNCHANGED <<files, jobs>> /\ WebOnly

(* refreshed is None when the phone was deleted: an exception, Failed.      *)
refresh_verify(t) ==
  /\ run[t].kind = "refresh" /\ run[t].pc = "registers"
  /\ \/ Ends(t, IF Live(db, Dev(t)) THEN "Completed" ELSE "Failed", "")
     \/ /\ Live(db, Dev(t)) /\ db.devices[Dev(t)].accounts # 0
        /\ Ends(t, "Completed", "Verified")
  /\ UNCHANGED <<files, jobs>> /\ WebOnly

reboot_start(t) ==
  /\ run[t].kind = "reboot" /\ run[t].pc = "check"
  /\ create_operation(t, Dev(t), "reboot", "request")
  /\ UNCHANGED <<db, files, jobs, served>> /\ WebOnly

(* Refused while calls are active; else check-sync and its answer.          *)
reboot_request(t) ==
  /\ run[t].kind = "reboot" /\ run[t].pc = "request"
  /\ \/ Ends(t, "Failed", "")
     \/ Ends(t, "Failed", "Failed")
     \/ /\ Goto(t, "watch") /\ db' = update_device_status(db, Dev(t), Touched)
        /\ UNCHANGED <<ops, served>>
  /\ UNCHANGED <<files, jobs>> /\ WebOnly

(* Offline, online, registered, within thirty seconds.                     *)
reboot_watch(t) ==
  /\ run[t].kind = "reboot" /\ run[t].pc = "watch"
  /\ \/ Ends(t, "Completed", "Reboot Verified")
     \/ Ends(t, "CompletedWithWarnings", "Reboot Request Accepted")
  /\ UNCHANGED <<files, jobs>> /\ WebOnly

(* The file goes to the archive first, the row second.  Two deletions of a  *)
(* phone may each hold a file of it.                                        *)
delete_archive(t) ==
  /\ run[t].kind = "delete" /\ run[t].pc = "check"
  /\ IF Live(db, Dev(t))
     THEN LET p == db.devices[Dev(t)].mac IN
          /\ run' = [run EXCEPT ![t].pc = "row", ![t].mac = p, ![t].content = files[p]]
          /\ files' = [files EXCEPT ![p] = NoFile]
          /\ apart' = IF Holding("row", p) = {} THEN apart ELSE apart \cup {p}
     ELSE Over(t) /\ UNCHANGED <<files, apart>>
  /\ UNCHANGED <<db, ops, jobs, served, queue, left, edition>>

Restored(t) ==
  IF files[run[t].mac] = NoFile THEN [files EXCEPT ![run[t].mac] = run[t].content] ELSE files

(* Operations of the phone survive it without a phone (ON DELETE SET NULL). *)
delete_row(t) ==
  /\ run[t].kind = "delete" /\ run[t].pc = "row"
  /\ LET i == Dev(t) IN
     \/ /\ Live(db, i)
        /\ db' = delete_device(db, i)
        /\ ops' = [o \in OpIds |-> IF ops[o].id = i THEN [ops[o] EXCEPT !.id = 0] ELSE ops[o]]
        /\ UNCHANGED <<files, left>>
     \/ /\ IF Live(db, i) THEN Spend("faults") ELSE UNCHANGED left
        /\ files' = Restored(t) /\ UNCHANGED <<db, ops>>
  /\ Over(t)
  /\ UNCHANGED <<jobs, served, queue, edition, apart>>

LongRequest(t) ==
  \/ refresh_start(t) \/ refresh_probe(t) \/ refresh_verify(t)
  \/ reboot_start(t) \/ reboot_request(t) \/ reboot_watch(t)
  \/ delete_archive(t) \/ delete_row(t)

(* Adding a phone by hand looks for the MAC and then upserts: a phone that   *)
(* came in between is overwritten.  todo is <<MAC, model or NULL>>.          *)
add_check(t) ==
  /\ run[t].kind = "add" /\ run[t].pc = "check"
  /\ LET p == run[t].todo[1]  m == run[t].todo[2] IN
     IF \/ RowOf(db, p) # {}
        \/ IF m = NoModel THEN db.models[ModelOf(p)].defined ELSE ~db.models[m].defined
     THEN run' = [run EXCEPT ![t] = Idle] ELSE Goto(t, "insert")
  /\ UNCHANGED <<db, files, ops, jobs, served>> /\ WebOnly

add_insert(t) ==
  /\ run[t].kind = "add" /\ run[t].pc = "insert"
  /\ LET p == run[t].todo[1]  m == run[t].todo[2] IN
     IF m # NoModel /\ ~db.models[m].defined
     THEN UNCHANGED db                 (* the model went: the foreign key *)
     ELSE Fresh(db, p) /\ db' = upsert_device(db, p, m, Default(m))
  /\ run' = [run EXCEPT ![t] = Idle]
  /\ UNCHANGED <<files, ops, jobs, served>> /\ WebOnly

-----------------------------------------------------------------------------
(* Scans.                                                                  *)

Unfinished == {"Pending", "Running"}

(* create_discovery_job looks for an unfinished scan of the network before  *)
(* its transaction opens.                                                   *)
scan_check(t) ==
  /\ run[t].kind = "newscan" /\ run[t].pc = "check"
  /\ IF \E j \in Jobs : jobs[j] \in Unfinished
     THEN run' = [run EXCEPT ![t] = Idle] ELSE Goto(t, "insert")
  /\ UNCHANGED <<db, files, ops, jobs, served>> /\ WebOnly

scan_insert(t) ==
  /\ run[t].kind = "newscan" /\ run[t].pc = "insert"
  /\ \E j \in Jobs :
       /\ jobs[j] = "none" /\ jobs' = [jobs EXCEPT ![j] = "Pending"]
       /\ queue' = Append(queue, [Task("scan", Hosts) EXCEPT !.job = j])
  /\ run' = [run EXCEPT ![t] = Idle]
  /\ UNCHANGED <<db, files, ops, served, left, edition, apart>>

dex_scan_cancel(j) ==
  /\ jobs[j] \in Unfinished /\ jobs' = [jobs EXCEPT ![j] = "Cancelled"]
  /\ UNCHANGED <<db, files, ops, queue, run, served, left, edition, apart>>

Scanning(t, pc) == run[t].kind = "scan" /\ run[t].pc = pc
ScanOnly == UNCHANGED <<files, ops, served, queue, edition, apart>>

Drop(t) == run' = [run EXCEPT ![t] = Idle]

claim_discovery_job(t) ==
  /\ Scanning(t, "check")
  /\ IF jobs[run[t].job] = "Pending"
     THEN jobs' = [jobs EXCEPT ![run[t].job] = "Running"] /\ Goto(t, "host")
     ELSE Drop(t) /\ UNCHANGED jobs
  /\ UNCHANGED <<db, left>> /\ ScanOnly

(* The cancellation is looked for once per host.  A host may not answer, or *)
(* answer without a MAC; its model is made known all the same.              *)
scan_host(t) ==
  /\ Scanning(t, "host") /\ run[t].todo # <<>>
  /\ LET p == Head(run[t].todo)  next == [run EXCEPT ![t].todo = Tail(@)] IN
     \/ jobs[run[t].job] = "Cancelled" /\ Drop(t) /\ UNCHANGED db
     \/ /\ jobs[run[t].job] # "Cancelled"
        /\ \/ run' = next /\ UNCHANGED db
           \/ run' = next /\ db' = ensure_discovered_model(db, ModelOf(p))
           \/ Goto(t, "found") /\ db' = ensure_discovered_model(db, ModelOf(p))
  /\ UNCHANGED <<jobs, left>> /\ ScanOnly

(* The model may be gone by now (the foreign key): the scan fails.          *)
scan_upsert(t) ==
  /\ Scanning(t, "found")
  /\ LET p == Head(run[t].todo)  m == ModelOf(p) IN
     IF db.models[m].defined
     THEN /\ Fresh(db, p) /\ db' = upsert_device(db, p, m, Default(m)) /\ Goto(t, "read")
     ELSE UNCHANGED db /\ Goto(t, "raised")
  /\ UNCHANGED <<jobs, left>> /\ ScanOnly

(* Read the row; when its model was unknown, set the status by its id.      *)
scan_read(t) ==
  /\ Scanning(t, "read")
  /\ LET rows == RowOf(db, Head(run[t].todo))
         unknown == { i \in rows : db.devices[i].status = "Unknown Model" } IN
     run' = IF unknown = {}
            THEN [run EXCEPT ![t].pc = "host", ![t].todo = Tail(@)]
            ELSE [run EXCEPT ![t].pc = "mark", ![t].row = CHOOSE i \in unknown : TRUE]
  /\ UNCHANGED <<db, jobs, left>> /\ ScanOnly

scan_mark(t) ==
  /\ Scanning(t, "mark")
  /\ db' = update_device_status(db, run[t].row, "Model Defined")
  /\ run' = [run EXCEPT ![t].pc = "host", ![t].todo = Tail(@), ![t].row = 0]
  /\ UNCHANGED <<jobs, left>> /\ ScanOnly

(* Cancelled is asked for, then the result is written.                     *)
scan_end(t) ==
  /\ \/ Scanning(t, "host") /\ run[t].todo = <<>>
     \/ Scanning(t, "raised")
  /\ IF jobs[run[t].job] = "Cancelled" THEN Drop(t)
     ELSE Goto(t, IF run[t].pc = "host" THEN "complete" ELSE "fail")
  /\ UNCHANGED <<db, jobs, left>> /\ ScanOnly

scan_result(t) ==
  /\ \/ Scanning(t, "complete") /\ jobs' = [jobs EXCEPT ![run[t].job] = "Completed"]
     \/ Scanning(t, "fail") /\ jobs' = [jobs EXCEPT ![run[t].job] = "Failed"]
  /\ Drop(t)
  /\ UNCHANGED <<db, left>> /\ ScanOnly

Scan(t) ==
  claim_discovery_job(t) \/ scan_host(t) \/ scan_upsert(t) \/ scan_read(t)
    \/ scan_mark(t) \/ scan_end(t) \/ scan_result(t)

-----------------------------------------------------------------------------
(* What is asked of the program.                                           *)

Quiet == UNCHANGED <<files, ops, jobs, run, served>>

(* The Phone form: save the accounts and queue one notify, or only save.    *)
dex_phone_edit(i, notify) ==
  /\ Provisionable(db, i) /\ Assignable(db, i) /\ Spend("edits")
  /\ edition' = edition + 1 /\ UNCHANGED apart
  /\ db' = save_assignments(db, i, edition + 1)
  /\ queue' = IF notify THEN Append(queue, Task("notify", <<i>>)) ELSE queue
  /\ Quiet

(* Everything that is on the page is notified, asked for again and again;   *)
(* a phone that was deleted meanwhile is passed over.  Bound: only while the *)
(* executor has nothing queued.                                             *)
dex_phone_notify ==
  /\ db.last > 0 /\ queue = <<>>
  /\ queue' = <<Task("notify", [i \in 1 .. db.last |-> i])>>
  /\ Quiet /\ UNCHANGED <<db, left, edition, apart>>

dex_models(after) == Spend("models") /\ db' = after /\ Quiet /\ UNCHANGED <<queue, edition, apart>>

model_request ==
  \E m \in Models :
    \/ \E form \in ModelForms : dex_models(save_model(db, m, form))
    \/ \E on \in BOOLEAN :
         /\ db.models[m].defined
         /\ \/ dex_models(toggle_model(db, m, on))
            \/ dex_models(bulk_set_model_enabled(db, {m}, on))
    \/ dex_models(delete_model(db, m))
    \/ dex_models(bulk_delete_models(db, Models))

Begins(t, task) == run' = [run EXCEPT ![t] = [task EXCEPT !.pc = "check"]]

(* Threads of a pool are alike: whichever is idle takes the next thing.     *)
IdleOf(pool) == CHOOSE t \in pool : run[t] = Idle

long_request(t) ==
  /\ run[t] = Idle /\ t = IdleOf(Web) /\ Spend("requests")
  /\ \/ \E kind \in {"refresh", "reboot", "delete"}, i \in 1 .. db.last :
          Begins(t, Task(kind, <<i>>))
     \/ \E q \in Macs, m \in Models \cup {NoModel} : Begins(t, Task("add", <<q, m>>))
     \/ (\E j \in Jobs : jobs[j] = "none") /\ Begins(t, Task("newscan", <<>>))
  /\ UNCHANGED <<db, files, ops, jobs, queue, served, edition, apart>>

executor_takes(t) ==
  /\ run[t] = Idle /\ t = IdleOf(Workers) /\ queue # <<>>
  /\ Begins(t, Head(queue)) /\ queue' = Tail(queue)
  /\ UNCHANGED <<db, files, ops, jobs, served, left, edition, apart>>

(* The responder hears a SUBSCRIBE: the phone goes through the inventory,   *)
(* and a thread provisions it unless one is at it or has just done it; with *)
(* a bootstrap, when no account is assigned at this moment.                 *)
pnp_subscribe(q) ==
  LET m == ModelOf(q)
      after == upsert_device(ensure_discovered_model(db, m), q, m, Default(m))
      i == CHOOSE k \in RowOf(after, q) : TRUE
      assigned == after.devices[i].accounts # 0
  IN /\ Spend("pnp") /\ Fresh(db, q) /\ db' = after
     /\ IF q \notin served /\ run[q] = Idle /\ (~assigned \/ Ready(after, m))
        THEN Begins(q, [Task("notify", <<i>>) EXCEPT !.baseline = ~assigned])
        ELSE UNCHANGED run
     /\ UNCHANGED <<files, ops, jobs, queue, served, edition, apart>>

(* A minute later it may be provisioned again.                             *)
pnp_forgets(q) ==
  /\ q \in served /\ served' = served \ {q}
  /\ UNCHANGED <<db, files, ops, jobs, queue, run, left, edition, apart>>

-----------------------------------------------------------------------------
(* Time and failures.                                                      *)

(* Only the wait for a download lasts five minutes; an operation that       *)
(* nobody works on any more lasts for ever.                                 *)
grows_old(o) ==
  /\ Running(o) /\ ~ops[o].overdue /\ ops[o].type # "refresh"
  /\ \A t \in Holds(o) : run[t].pc = "observe"
  /\ ops' = [ops EXCEPT ![o].overdue = TRUE]
  /\ UNCHANGED <<db, files, jobs, queue, run, served, left, edition, apart>>

Broken == UNCHANGED <<db, files, jobs, edition>>

(* The process of the web application: the executor and its queue with it.  *)
app_dies ==
  /\ Spend("faults") /\ queue' = <<>> /\ apart' = apart \cup LeftBy(Threads \ Macs)
  /\ run' = [t \in Threads |-> IF t \in Macs THEN run[t] ELSE Idle]
  /\ UNCHANGED <<ops, served>> /\ Broken

responder_dies ==
  /\ Spend("faults") /\ served' = {} /\ apart' = apart \cup LeftBy(Macs)
  /\ run' = [t \in Threads |-> IF t \in Macs THEN Idle ELSE run[t]]
  /\ UNCHANGED <<ops, queue>> /\ Broken

(* "database is locked", outside of what notify and reboot catch.           *)
update_raises(t) ==
  /\ Spend("faults") /\ run[t].op # 0 /\ run[t].kind \in {"notify", "reboot"}
  /\ run[t].pc \notin {"prepare", "publish", "record"}
  /\ Over(t) /\ UNCHANGED <<ops, queue, served, apart>> /\ Broken

(* The next step of what a thread is doing.                                *)
Works(t) ==
  \/ Notify(t)
  \/ LongRequest(t) \/ add_check(t) \/ add_insert(t) \/ scan_check(t) \/ scan_insert(t)
  \/ Scan(t)

Next ==
  \/ \E t \in Threads : Works(t)
  \/ \E t \in Web : long_request(t)
  \/ \E t \in Workers : executor_takes(t)
  \/ \E j \in Jobs : dex_scan_cancel(j)
  \/ \E i \in Ids, notify \in BOOLEAN : dex_phone_edit(i, notify)
  \/ dex_phone_notify
  \/ model_request
  \/ \E q \in Macs : pnp_subscribe(q) \/ pnp_forgets(q)
  \/ \E o \in OpIds : grows_old(o)
  \/ app_dies \/ responder_dies
  \/ \E t \in Threads : update_raises(t)

(* The threads run, time passes, and somebody asks for the phones to be     *)
(* notified again and again.                                                *)
Fairness ==
  /\ \A t \in Threads : WF_vars(Works(t))
  /\ WF_vars(\E t \in Workers : executor_takes(t))
  /\ WF_vars(\E o \in OpIds : Holds(o) = {} /\ grows_old(o))
  /\ WF_vars(dex_phone_notify)

Spec == Init /\ [][Next]_vars /\ Fairness

-----------------------------------------------------------------------------
(* Properties.                                                             *)

(* Every variable has its type, and a thread that is not at work holds      *)
(* nothing.                                                                 *)
TypeOK ==
  /\ db.last \in 0 .. MaxId /\ edition \in Nat
  /\ \A i \in Ids : /\ db.devices[i].config >= NoFile
                    /\ db.devices[i].live => i <= db.last /\ db.devices[i].mac \in Macs
                    /\ db.devices[i].model # NoModel => db.models[db.devices[i].model].defined
  /\ \A q \in Macs : Cardinality(RowOf(db, q)) <= 1 /\ files[q] \in NoFile .. edition
  /\ \A o \in OpIds : ops[o].id \in 0 .. db.last
  /\ \A j \in Jobs : jobs[j] \in {"none", "Pending", "Running", "Cancelled", "Completed", "Failed"}
  /\ \A t \in Threads : run[t].kind = "idle" => run[t] = Idle
  /\ served \subseteq Macs

(* At most one notify and one reboot of a phone is under way, whoever asked *)
(* for it and whatever died: of two threads that work on one phone, one has *)
(* been declared abandoned.                                                 *)
OneOperationAtATime ==
  \A o, q \in OpIds :
    (Running(o) /\ Running(q) /\ o # q /\ ops[o].id = ops[q].id
       /\ ops[o].type = ops[q].type) => ops[o].id = 0 \/ ops[o].type = "refresh"

Stayed(q) == \A i \in Ids : db.devices[i].mac = q => db.devices[i].live

(* A notify never publishes assignments that are older than the ones in the *)
(* directory, however long it waited between its checks and its operation.  *)
NeverOlder ==
  [][\A q \in Macs :
       (files'[q] > Bootstrap /\ files[q] # NoFile /\ Stayed(q)) => files'[q] >= files[q]]_vars

(* The file recorded as active is the one in the directory whenever nobody  *)
(* works on the phone: after a notify that failed before the file was       *)
(* replaced, after a deletion that failed, and after a death.  What sets    *)
(* them apart is a notify that fails or dies between the two, a deletion    *)
(* that dies between archive and row, and two deletions that cross; the     *)
(* next publication brings them together again.                             *)
RecordMatchesFile ==
  \A i \in Ids :
    LET d == db.devices[i] IN
    (/\ d.mac \notin apart /\ d.live /\ d.config # NoFile /\ Stayed(d.mac)
     /\ \A t \in Threads : run[t].mac # d.mac
     /\ \A o \in OpIds : Running(o) => ops[o].id # i) => files[d.mac] = d.config

(* A notify that nobody works on any more does not block its phone for ever *)
(* while somebody keeps asking.                                             *)
Stuck(i) ==
  /\ Provisionable(db, i)
  /\ \E o \in OpIds : Running(o) /\ Holds(o) = {} /\ ops[o].type = "notify" /\ ops[o].id = i

PhoneNotBlocked == \A i \in Ids : Stuck(i) ~> ~Stuck(i)
=============================================================================
