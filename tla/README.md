# RCM 7021: a TLA+ verification of the call-centre manager

RCM 7021 is a web front end for an Asterisk telephone exchange. It keeps a
record of every call that passes through a queue and of every agent, shows both
live on a wallboard, generates the exchange's configuration from forms, publishes
the configuration files of desk phones, imports call records and mails reports of
them, moves and deletes recordings, and manages a firewall and Fail2Ban. This
directory models the parts of it where several processes change the same tables
and files, or where one request changes several of them.

Modules are named below without `.tla`; line numbers are those of the files in
`src/`.

## 1. Inventory

| Component | State | Operations | Talks to | Status |
|---|---|---|---|---|
| Queue records and wallboard (`rcm_queue_db.py`) | `queue_calls`, `queue_live`, `queue_call_positions` | `db_call_enter/ring/answer/abandon/hangup`, `db_reindex_queue_positions`, `db_call_hold_event` | called by the collector, the import, reconciliation | modelled except hold time and the event tables |
| Collector daemon (`rcm_queue_collector.py`) | socket, receive buffer, time of the last sync | `run_collector`, `handle_event`, `sync_queue_status`, `sync_active_channels_with_asterisk` | AMI socket; all writers above | modelled except hold events |
| Import of `queue_log` (`sync_queue_log_to_db`) | offset file, state file, lock file | one import: place, read, transaction, save | the log; `queue_calls`, `queue_live`, agents | modelled except transfers |
| Reconciliation (`reconcile_with_asterisk_state`) | none of its own (`LAST_RECONCILE_TIME` in the web process) | import, ask, compare, purge, recover, renumber; agents | command line of the exchange | modelled, calls and agents in models of their own |
| Queue agents (`rcm_queue_db.py`, `app.py`) | `queue_agents`, `queue_agent_events`, static and disabled agents | login, logout, pause, status, ring, completion; add, remove, enable, disable | collector, log, web API, reconciliation | modelled except the statistics columns |
| Agent and queue reports | none | sessions, pauses, totals from events | pages | the five agent reports modelled; occupancy and call journeys not |
| Pending changes (`app.py`) | `rcm_pending_changes.json`, `DEFER_RELOAD` | `add_pending_change`, `api_apply_changes` | every form; reloads of the exchange | modelled |
| Configuration forms (`app.py`, `db.py`, `asterisk_helper.py`) | fifteen JSON files, six tables, `.conf` files with markers | save, generate, roll back, announce, delete, bulk | config lock, pending changes | modelled except `/configuration`, migrations, workbook parsing |
| PBX runtime settings | settings, `.conf` files and backups | `apply_pbx_runtime_settings` | exchange | one generator that may be refused |
| Recording storage (`storage_spooler.py`, `export_worker.py`, `storage_providers.py`) | recordings on disk and at providers, `recording_locations`, `export_jobs` | `process_new_recordings`, `execute_scheduled_policies`, `upload_file`, playback | providers, CDR rows, the database's write lock | modelled but for the administration of providers |
| Cleanup (`cleanup_engine.py`, `auto_cleaner_daemon.py`, `cleanup_routes.py`) | `cleanup_jobs`, `cleanup_history`, files | scan, delete, cancel, schedule, emergency | recordings, CDR rows | modelled |
| CDR import (`sync_cdr_records`, `db.py`) | `Master.csv`, its place, `cdr_records` | import, re-read from the start | the exchange, pages, the scheduler | modelled |
| Reports and alerts (`scheduler_service.py`, `mail_service.py`) | `mail_settings`, `mail_logs` (which also says what was sent last) | missed-call alerts, the scheduled report and its copies | SMTP, the CDR import | modelled except the login's mails |
| DEX provisioning (`dex/`) | devices, models, operations, discovery jobs, published files | notify, refresh, reboot, delete, add, scan, cancel | phones, executor threads, the PnP responder | modelled except its settings page |
| SIP security and firewall (`firewall_manager.py`, `sip_security_manager.py`, helpers, timer) | rules, kernel table, boot file; policy, whitelist, blacklist, jail, bans | save, apply, undo, ban, unban, reconcile | root helpers, a timer each minute | modelled except validation and event tables |
| Surveys, users and login, LDAP, sentiment, pages | own tables | request handlers | - | not modelled (see "Not modelled") |

### Which behaviours are hard

* **Two clocks for one story.** Every change of a call or an agent is told twice,
  by manager events and by lines of `queue_log`. Events may be late, repeated or
  lost; lines are never lost but for a rotation, and come in batches whenever
  anybody opens a page.
* **Reads before the transaction.** SQLite opens a transaction at the first
  write. `db_call_hangup`, `db_reindex_queue_positions`, `db_agent_login` and
  others read, compute and then write, and another process can commit in between.
* **Lists that age.** Reconciliation asks separate questions on the
  command line and acts on the answers later, in several transactions. The
  collector and any number of web requests may do it at once.
* **A place kept beside a database** that commits on its own, and a
  log that is rotated under the reader: `queue_log` and `Master.csv`.
* **Files, copies and rows.** A recording is a local file, a copy and a row; a
  phone's configuration is a file, a row and what the phone fetched. Several
  programs change them without a common lock, over connections that fail.
* **Threads of one process.** The web application is one mod_wsgi process with five
  threads (`rcm_7021.conf:5`), so requests share module globals such as
  `DEFER_RELOAD` (`asterisk_helper.py:157`); its JSON lists are read and rewritten
  as wholes; the scheduler is a thread of it (`app.py:702`), and the import of call
  records takes a lock of threads, `_CDR_SYNC_LOCK` (`db.py:22`).
* **Programs with a helper.** The firewall and Fail2Ban are changed by root helpers
  that may refuse half way; the PnP responder and the reconciliation timer are
  processes of their own.
* **Restarts.** systemd restarts the collector (`rcm-queue-collector.service`,
  `Restart=always`); nothing is remembered but the tables and files.

What makes each component correct: records end with what the log says and stay final,
also when a living call was taken for a ghost; the wallboard shows who is there, in
order, and becomes empty; an agent's row comes to agree with the exchange, and the
reports about him with each other; every line of a log takes effect exactly once; a
recording that nobody meant to delete is somewhere whole, and playback finds it; a
form changes its own object alone, generated files follow the lists, and a file the
exchange has not loaded is announced; a phone is worked on once at a time and never
gets an older file; a report is sent once and not forgotten; what a security page
shows is what the kernel and Fail2Ban do. `PROJECT.json` lists the hazards one by one,
at their lines.

## 2. Modules

| Module | What it is |
|---|---|
| `QueueRows` | the columns of one call, and what each writer does to them: an operator per UPDATE |
| `AsteriskQueue` | external: the exchange, its event socket and its log |
| `QueueCalls` | the processes on the two tables: collector, reconciliation, imports |
| `MCQueueCalls` | instances for TLC |
| `QueueCalls_proofs` | types; an answered call stays final; records tell the outcome; the wallboard mirrors the queue |
| `QueueLogLines` | lines of the log and the effect of a batch of them |
| `QueueLogContract` | abstract: what the import promises |
| `QueueLogSync` | the import in detail: files, lock, transaction, crashes, rotation |
| `MCQueueLogSync` | instances for TLC |
| `QueueLogSync_proofs` | types; the place is honest; the import implements the contract |
| `RecordingStorage` | spooler, export worker and cleanup on files, copies and rows |
| `MCRecordingStorage` | instances for TLC |
| `RecordingStorage_proofs` | types; local files are deleted safely; spooled recordings are found |
| `CleanupJobs` | pages, threads and the daemon on the jobs, and on what they delete |
| `MCCleanupJobs` | instances for TLC |
| `CleanupJobs_proofs` | types; a completed cleanup is complete; a final status is final |
| `ConfigStores` | the lists and files of the configuration: who refers to whom, what is generated from what |
| `ConfigForms` | the handlers of the forms as sequences of steps, and the threads that run them |
| `MCConfigForms` | instances for TLC: days of work |
| `AgentReports` | the five reports about an agent, as folds over his events |
| `QueueAgents` | the writers of an agent's row and events |
| `MCQueueAgents` | instances for TLC |
| `QueueAgents_proofs` | events stay sorted; pauses fit into sessions; the reports agree |
| `DexInventory` | the tables of phones and models, and each transaction on them |
| `DexPhones` | executor, requests and responder at work on phones |
| `MCDexPhones` | instances for TLC |
| `DexPhones_proofs` | one operation at a time; files never older; the record matches the file |
| `CdrImport` | the import of `Master.csv` |
| `MailReports` | the scheduler's alerts and reports, with the import they start |
| `MCMailReports` | instances for TLC |
| `MailReports_proofs` | the occurrence is the latest; one copy each; no alert twice; what an import reads and stores, one row per leg |
| `FirewallRules` | the rules, their apply and its helper |
| `SipSecurity` | Fail2Ban's policy, service and lists, beside the firewall |
| `MCSipSecurity` | instances for TLC |
| `SipSecurity_proofs` | types; pending rules are told; the policy is as saved; bans match entries |

`QueueCalls` composes `QueueRows` with the exchange (`AsteriskQueue`);
`MailReports` extends `CdrImport`, which the scheduler and the pages share;
`SipSecurity` extends `FirewallRules`, with which it shares the web threads, the
faults and the reboot; `QueueAgents` feeds `AgentReports` with the events it makes.

### QueueRows

A row is a record; a time column is kept as the fact that it was set. `EnterRow`
is the upsert of `db_call_enter` (a final status survives), `RingRow` of
`db_call_ring`, `AnswerRow` of `db_call_answer` and of the line CONNECT,
`AbandonRow` of `db_call_abandon`. `HangupRow` is the UPDATE of `db_call_hangup`;
it has two rows as arguments because the code computes the new values from the
row it *read* and writes them into the row that *is there*. `LogEnterRow` and
`LogExitRow` are the import's: unlike the others they do not respect a final
status.

### QueueCalls

| Code | Actions |
|---|---|
| `handle_event` | `HandleJoin`, `HandleCalled`, `HandleConnect`, `HandleAbandon`, `HandleHangup` (AgentComplete, Hangup, AgentDump and BridgeLeave all call `db_call_hangup`) |
| `db_call_hangup` | read in `HandleHangup` or `ReconcilePurge`, write in `HangupWrite` |
| `db_reindex_queue_positions` | `RenumberRead`, `RenumberWrite` |
| `sync_queue_log_to_db` | `ImportLog`, one step here; its inside is `QueueLogSync`; before a reconciliation it may fail (`Fails`) |
| `reconcile_with_asterisk_state` | `ReconcileStart`, `ReconcileGivesUp`, `ReconcileChannels`, `ReconcileQueueShow`, `ReconcileScan`, `ReconcilePurge`, `ReconcileRecover`; a command that fails lists nobody (`Lists`) |
| `run_collector`, `sync_queue_status` | `QueueStatus`, `Reconnect`, `ResyncEntry`, `ResyncDone`, `CollectorRestarts` |
| `sync_active_channels_with_asterisk` | `ReconcileStart(Collector)`, and `PeriodicSyncTearsEvent` when it loses an event |
| a report page | `WebImport` |

A process is a program counter (`pc`) with what it has in hand: `job` (a hangup),
`places` (a renumbering), `snap` (a reconciliation). A step is everything the
process does between two points where another process can commit.

Abstractions: one queue; callers join in different seconds, so their order by
`start_time` is that of the exchange; a caller enters the queue once; the import here
is whole (its failures are the subject of `QueueLogSync`); a line is in the log when
its event is sent; of the several events that end in `db_call_hangup` two are sent
after a conversation; the column that reconciliation takes for the unique id
(`parts[12]`, line 4408) is assumed to hold it, although
`get_active_queue_channels_from_asterisk` (3116) and `app.py:9278` take the next one
and call this one the linked id. (For a caller who came in by himself the two are the
same; where they differ, the call is missing from the list of channels, as from a list
that failed. `OutcomeFromLog` holds with such lists, `BoardMirrors` does not speak of
them.)

### QueueLogSync

| Code | Actions |
|---|---|
| `sync_queue_log_to_db` 3101-3114 | `Lock` (`LockOpens = FALSE`: the fallback without lock) |
| place, hash, reset 2643-2680 | `ReadPlace` |
| read up to the last complete line 2683-2704 | `ReadLines`, `ReadNothing` |
| the loop over the lines and the commit | `Commit`, or `CommitFails` when a line cannot be stored |
| offset file, then state file 3085-3091 | `SaveOffset`, `SaveState` |
| the process dies | `Crash` |

Offsets count lines. The hash of the first 512 bytes is the file's identity and
how many of its first `HeadLines` lines are there; it changes until they are.
`upto` is a history variable: the lines dealt with by committed imports.

`QueueLogContract` has four variables (the lines, the rotations, how far the
import is, the status of each call) and says that each line takes effect once, in
order. `KeepsContract` is the refinement, with the status column as `status`.
The contract has two exceptions, both found by checking it: lines rotated away
unread are lost, and an import that is overtaken by a rotation between
`ReadPlace` and `ReadLines` applies lines from the middle of the new file early.
The latter heals, because the saved hash is then that of the old file and the
next import reads the new file from its start.

### RecordingStorage

| Code | Actions |
|---|---|
| `process_new_recordings` | `SpoolerStarts`, `Take`, `RecordUpload`, `MarkLocal`, `NotUnique` (the uniqueness of `cdr_uniqueid`), `Unlink`, `SpoolerEnds` |
| `execute_scheduled_policies`, `run_policy` | `ExporterStarts`, `BeginPolicy`, `SkipPolicy`, `Take`, `RecordExport`, `Unlink`, `EndPolicy`, `ExporterEnds` |
| `connect`, `upload_file` | `Open`, `ConnectFails`, `CopyEnds`, `CopyFails`, `Verify` |
| `_update_status` and the lock of the database | `LockTimeout` (another process holds it), `LockedOut` (this one does) |
| `_delete_files_batch` | `Clean` |
| an exception nobody catches, or the end of the process | `Dies`, `Crash` |
| `play_recording` | `Played` |

A mover (a run of the spooler, or a web worker that exports) has a program counter
and a recording in hand. The two share the upload; they differ in where the next
provider comes from and in when a row becomes visible: the spooler commits each
row before it deletes the file, the export worker keeps its rows (`pend`) in one
transaction. While `pend` is not empty its owner holds the write lock of
rcm_7021.db: others wait for it or die of the time limit, and the owner dies of
its own next `connect()`, which writes on a second connection.

A copy is absent, partial, torn (full length, but another writer of the same file has
truncated it), beneath the mount point, or whole; `Verify` compares lengths and cannot
tell the last three apart. Two history variables: `by` says who deleted the file,
`met` which movers' uploads somebody else has met since they opened their copy
(another mover opened, cut short or removed the same path, the cleanup deleted it, the
share was unmounted under it). The export worker counts a row it skips without a look
at the number (`Take`), so a commit may come later than at a multiple of
`CommitEvery`. Abstractions: every recording is old enough for every policy, and all
calls are of the last seven days, where the spooler looks (`storage_spooler.py:37`); a
call's recording is complete when its CDR row appears; a failing `os.remove` is
`KeepLocal`; providers are not edited meanwhile.

### CleanupJobs

| Code | Actions |
|---|---|
| `start_analyze`, `execute_cleanup`, `cancel_job` (routes), `auto_config` | `Analyze`, `Execute`, `Cancel`, `SaveConfig` |
| `pollJobStatus`, `showResults` (page) | `ShowResults` |
| `scan_and_analyze` | `Scan`, `ScanFails` (a number left empty) |
| `execute_cleanup` (engine) | `Category`, `NoCategory`, `CategoryEnds`, `Progress`, `StopBetween`, `Verdict`, `RecordHistory`, `Finish` |
| `_delete_files_batch`, `_delete_db_batch` | `DeleteFile`, `DeleteRows` |
| `check_and_run_auto_cleanup` | `Wake`, `CountJobs`, `InsertAuto`, `AutoDone`, `CheckDisk`, `Emergency`, `DaemonFails` |
| a restart of the web process | `WebRestart` |

A job is a row and, while somebody works on it, a worker: a thread of the web process
for the job of a page, the daemon itself for its own. A visit of the page has one job,
previewed and then executed with the configuration it holds; the daemon's rows are
reused, because nothing reads the row of an ended job. Every statement of a worker is
a step and may be refused (`ok = FALSE`: the database is locked for too long); the
code logs it and goes on, so a refused look finds no request to cancel and a refused
status leaves the old one. `due` and `lost` are history variables: what the
configuration of a worker names, and whether one of its statements was refused.
`spared` is a third: the files it passed over, because the system refused to remove
them (an `OSError` is swallowed, 192) or because they lie in a directory it does not
walk: of the local directory and those of the providers, the loop at 171 leaves the
last one to the walk at 175 (`Walked`). Days are counted from 0; an item is covered by
a rule when it came before the rule's threshold, and a strategy the code does not know
falls back to `DefaultDays`. Left out: sizes, mails, and the exact minute of the
schedule.

### ConfigStores and ConfigForms

A list is the content of one JSON file or table: a function from the objects it
holds to the request that wrote each, the object it refers to, and whether it does so
in a field that the checks before a deletion look at (`asked`; `Unasked` lists the other
fields). A generated
file is what its generator read, one content per list; whether a generator writes
the file whole, one marked section under the lock of the configuration, or edits
it without the lock decides how two of them meet. A handler is a *program*,
a sequence of steps that follows its code line by line; seventy of them are
written this way, and the actions run one step of one request.

| Code | Steps and actions |
|---|---|
| a JSON list is read and looked through | `read` (`ReadList`) |
| a row is inserted, updated, deleted | `row` (`WriteRow`, `RefuseRow`) |
| `open(..., 'w')` and `json.dump` | `open`, `write` (`OpenList`, `WriteList`; `FailSave` leaves the file empty) |
| a check of other lists before a save or deletion | `ask` (`AskStore`) |
| a generator reads its lists, writes its file | `gather`, `put` (`Gather`, `PutFile`, `FailFile`) |
| the form puts its list back after a refusal | `back` (`PutBack`) |
| reload commands, `DEFER_RELOAD` | `load` (`ReloadModules`; `FailReload`: Asterisk confirms some of them only), `SetDefer` |
| `add_pending_change` | `look`, `note` (`LookPending`, `NotePending`, `FailNote`) |
| `api_apply_changes`, `clear_pending_changes` | `SetDefer`, the generators, `ReloadModules`, `ClearPending`, `FailClear` |
| a restart of the process | `Restart` |

History variables: `ideal`, what the lists would hold if every accepted form had
changed its own object only; `meddled`, lists saved over a change made since they were
read, or with routes that were read while they were being deleted; `scarred`, lists a
failure left in pieces or unsaved; `excused`, files whose writing failed or that were
made from what changed meanwhile; `untold`, an announcement was lost or cleared by an
apply that overlapped; `unheard`, modules whose reload was sent and not confirmed
since their file changed; `mixed`, two requests were under way at once. They are what
the properties excuse, each by its name and no more. The commands of an apply do not
reload voicemail and features (2390-2394), so `PendingTold` speaks of the modules it
does reload.

Abstractions: the text of a section is the object it is about; a form names one
object; validation that looks at no other list is a request that is not sent;
restoring the runtime settings after a refusal is part of the step that fails.

### AgentReports and QueueAgents

| Code | Actions |
|---|---|
| `db_agent_login`, `db_agent_logout`, `db_agent_pause` | `Read`, then `db_agent_login`, `db_agent_logout`, `db_agent_pause`, by what was read |
| `db_agent_status_update`, `db_agent_call_event` | the same names: one statement each |
| `handle_event`, `run_collector` | `handle_event`, `Collector_connects`, `Collector_cut`, `Collector_drops` |
| `queue_agent_join`, `_leave`, `_pause`, `_add`, `_remove`, `_enable`, `_disable` | `queue_agent_join`, `queue_agent_leave`, `queue_agent_pause`, `queue_agent_add`, `queue_agent_remove`, `queue_agent_set` (`queue_agent_set_fails`: the exchange refuses), and the steps of `AgentForm` |
| `api_apply_changes` | `api_apply_changes`: the static members of the exchange |
| `get_live_dashboard_status` | the same name: the import and a reconciliation |
| lines about agents in `queue_log` | `sync_queue_log` |
| `reconcile_with_asterisk_state`, agents | `QueueShow` asks, `reconcile_agents` writes |
| phones, star codes | `ByPhone` (external) |

A process works through `todo`, the calls it still has to make, and has in `seen` what
it read for the first of them. The truth is `member`, `paused`, `busy` of the
exchange. Events keep their second and their order; a call adds at most one
(`Logged`), a line of the log that comes late goes where its second belongs
(`InsertEvent`). Two reports leave out an agent who is static when they are made,
though he has events from days when he was not (`TypeFound`, `NotTold`). The reports
are folds over the events from the first on, as the loops of the code are, with the
cursor, the totals and the open session as the record that is carried along; so is the
import over its lines (`Imported`).

### DexInventory and DexPhones

| Code | Actions |
|---|---|
| `notify` (`dex/services.py`) | `notify_check`, `notify_create`, `prepare_config`, `publish`, `record_config`, `send_notify`, `observe_download`, `verify` |
| refresh, reboot, delete (requests that wait) | `refresh_*`, `reboot_*`, `delete_archive`, `delete_row` |
| add a phone, a scan of the network | `add_check`, `add_insert`, `scan_*`, `dex_scan_cancel` |
| forms of phones and models | `dex_phone_edit`, `dex_phone_notify`, `model_request` |
| the executor | `executor_takes` |
| `pnp.py` | `pnp_subscribe`, `pnp_forgets` |
| an operation that is older than its limit | `grows_old`; `Recovered` in the next request for the phone |
| `database is locked`, deaths of either process | `update_raises`, `app_dies`, `responder_dies` |

A file is the number of the assignment it was rendered from, so "older" is `<`. A
transaction of `dex/repositories.py` is an operator on the record `db`
(`DexInventory`). `record_fails` is what leaves a new file with the old record: the
database is locked when the row is saved (`services.py:129`, caught at 170), or the
alias of a Grandstream file cannot be written after the file was replaced
(`config_generator.py:544-552`). `apart` is a history variable: the phones whose file
and record such a failure, a death or two crossing deletions have set apart; the next
publication takes a phone out of it. The phone answers or not as it likes; the text of
files per vendor is left out.

### CdrImport and MailReports

| Code | Actions |
|---|---|
| `sync_cdr_records` under `_CDR_SYNC_LOCK` | `sync_reads`, `sync_commits`, `sync_saves`, `Interrupted`; started by a page (`PageImports`) or the report (`ReportSyncs`, `ReportSynced`) |
| `monitor_missed_calls` | `monitor_missed_calls` (who is due), `AlertsExtension` (one extension: mail, log) |
| `check_and_send_cdr_reports` | the same name (is it due?), then the import, `MailsReport`, `NoWorkbook`, `MailsCopy` |
| `mail_settings` | `mail_settings` |
| the process ends, the mail server stops | `ProcessDies`, `ServerStops`, `ServerRecovers` |

A call has legs, each a line; the second leg imported is stored under a key with a
digest. Time is a number of slots (`DayLen` in a day); the calendar is the constant
`FirstDay`, the day each month begins with. A mail can arrive and not be logged
(`Unlogged`), or be refused. `got` is what each recipient last had, `told` the missed
calls an extension was told of, `again` what arrived twice; `trouble` says why it may:
a success that was not logged, a refusal, another recipient. `unsaved` says that rows
were committed whose place was not saved. An import that meets an error after it knows
the offset (3790) swallows it (3895), stores the lines before it and saves the place
past all of them; `passed` are the lines it did not store.

### FirewallRules and SipSecurity

| Code | Actions |
|---|---|
| `add_rule`, `edit_rule`, `delete_rules` | the same names |
| `apply_firewall` | `apply_reads`, then the helper, then `apply_marks`; `apply_dies` |
| `rcm_firewall_helper.py` | `helper_lists` (the backup), `helper_loads`, `helper_stores` |
| `sip_security_save` (page), `save_settings`, `apply_configuration` | `sip_security_save`, `save_settings`, `apply_configuration`, `helper_applies`, `helper_refuses`, `restore_settings` |
| `set_service_enabled` | `set_service_enabled`, `service_command`, `service_stopped_again`, `record_service`, `put_service_back` |
| whitelist, blacklist, `unban_ip` | `add_whitelist`, `remove_whitelist`, `add_blacklist`, `insert_blacklist`, `helper_bans`, `remove_blacklist`, `unban_ip`, `helper_unbans` |
| `reconcile_bans` | `reconcile_bans`, `expire_unbans`, `expire_updates`, `expire_commits` |
| deaths, the machine boots, hours pass | `sip_dies`, `MachineBoots`, `Tick` |

`kernel` is the table in the kernel, `stored` the file it is read from at boot.
Fail2Ban's helper is another program (the one in `src/` always refuses), so it is
modelled from its callers: it does what it is asked or refuses, and a refused apply
may have replaced the jail. History: `changed` (rules touched since the apply read
them), `crossed` (two applies met), `torn` (the file was left empty), `adrift` (an
undo failed too, requests about the policy met, or a process died or the machine
booted in one), `spoilt` (hosts of a refused ban, of an unban by hand, of two entries,
or in two hands at once).

## 3. Runs

| Run | Instance | Shows |
|---|---|---|
| `queue_calls_daemon` | 2 calls, collector alone, one loss, restart or failing command, socket of 2 events | `TypeOK`; `OutcomeFromLog`; `BoardMirrors` |
| `queue_calls_clean` | 1 call, collector and one web request, agents may leave, fairness | `AnsweredIsFinal`; `EventuallyClean` |
| `queue_calls_race` | 1 call, collector and one web request | `OutcomeFromLog` is violated |
| `queue_log` | 2 calls, 2 importers, 4 lines, 2 rotations, 1 crash | `TypeOK`; `PlaceIsHonest`; `KeepsContract`; `CatchesUpOrPoisoned` |
| `recordings` | 2 recordings, spooler on one share, export policy that moves to another, cleanup, 1 death, fairness | `TypeOK`; `SpooledIsFindable`; `SafeDelete`; `EventuallyTracked` |
| `recordings_links` | the same without deaths | `LinksMaintained` is violated |
| `cleanup` | a file and a row, one provider, one page and the daemon, one restart or refusal, files that cannot be removed, fairness | `TypeOK`; `CompletedIsComplete`; `FinalMeansOver`; `ScheduleUnlessStuck` |
| `config` | 2 objects of a kind; seven days of two requests one after the other with a failure, unconfirmed reload or restart, seven days of forms that overlap | `KeptInStep`; `PendingTold`; `NothingLost`; `NoDangling` |
| `agents` | 1 agent, collector, one web request, three kinds of day, fairness | `PauseFits`; `ReportsAgree`; `BoardSettles` |
| `dex` | 1 phone, 2 executor threads, 2 requests, the responder, eleven kinds of day, fairness | `OneOperationAtATime`; `RecordMatchesFile`; `NeverOlder`; `PhoneNotBlocked` |
| `reports` | 2 calls with 2 legs each, 2 recipients, 2 extensions, 2 slots a day, twelve kinds of day, fairness | `EachLegOnce`; `OccurrenceIsLatest`; `OneCopyEach`; `NotAlertedTwice`; `KeepsLegs`; `ImportCatchesUp`; `NoOccurrenceForgotten` |
| `security` | 2 web threads, the timer, a host and a network, seven kinds of day, fairness | `FirewallTold`; `PolicyAsSaved`; `BansMatchEntries`; `EveryEntryEnds` |

The modules behind `config`, `agents`, `dex`, `reports` and `security` have a
`TypeOK` too; it holds on the same instances and can be added to the configuration
by a line.

*Bounds.* Two calls are what renumbering and the rule "a waiting caller keeps the
ghosts" need; a socket of two events holds the longest burst of one call and
still lets events wait while the call goes on. One loss (`MaxDrops`) may be a
broken connection, a torn event, a restart, an import that fails before a reconciliation
or a command that lists nobody, at any point. `queue_calls_clean`
has one call because two processes that reconcile one call already put back
what the other removed. In `queue_log`, `HeadLines = 2` of four lines makes files
that are shorter than the hashed prefix, just as long and longer; two rotations
let a file be rotated while an import is on it and again afterwards.

The `recordings` runs have two recordings because the export worker locks itself out
at its second upload, and movers that do not share a provider: sharing one only adds
uploads that met, which `SafeDelete` excuses and the proof covers (an instance with
two spoolers, an exporter and the cleanup on one share, 583 956 states, shows that it
holds there, and that without `met` it does not: one mover truncates what the other
has verified). Their deadlock check is off: without a policy to run and with every
recording dealt with the system has nothing to do.

The `cleanup` runs have a page and the daemon, so two workers that delete the same
file; the page's second category, a table, is what a cancellation can leave undone.
The daemon's configuration names local recordings or nothing (what
`ScheduleUnlessStuck` allows a disabled daemon to leave, it allows a daemon without
rules). A day passes, so that items become old under one threshold and not under
another. The page includes external storage and the one provider is enabled, so its
walk does not enter the local directory, whereas the daemon's does. `Batch = 1` with
one row means that a statement deletes all that is left; the proofs are for every
batch. Their deadlock check is off: a disabled daemon and a page nobody uses have
nothing to do.

Where a handful of things may happen in any order, `config`, `agents`, `dex`,
`reports` and `security` choose a *day* (or plan) at the start: how often each may
happen. A day has two or three kinds of them, enough to meet, and the days pair what
shares state. `config` lets two requests follow each other with every form of a chain
of objects (so a form runs on what another left), with one failed write or restart at
any point; the overlapping days pair forms that share a list, a file or the apply. One
agent suffices in `agents` because no call about one agent looks at another's row. The
phone of `dex` is of the vendor whose notify has the most steps. In `reports` the
third month is shorter than the monthly report's day, and the clock runs through it;
four lines are what a call with legs in two files takes, imported before and after;
the weekly day runs over a week's end. In `security` a network that contains a host
makes entries that overlap, and two hours let an entry end before, while and after it
is undone by hand. In `reports` one day lets an import be refused half-way and its
place be lost afterwards, which is when the lines it passed are read at last. The
deadlock check is off in these: when the day has nothing left, nothing happens.

The runs reach 1 114 332 (`queue_calls_daemon`), 171 789 (`queue_calls_clean`), 360 379
(`recordings`), 395 558 (`cleanup`), 1 526 635 (`config`), 215 794 (`agents`), 229 361
(`dex`) and 439 176 (`reports`) distinct states; each ends within three minutes.

*Fairness.* The collector reads its socket with a time limit of five seconds and
reconciles every thirty, so each of the two is taken again and again (`SF` on `Handle`
and on `ReconcileStart(Collector)`); every wait inside a handler or a reconciliation
has a time limit, so it is carried through (`WF` on `Advance`); the exchange does not
refuse "core show version" for ever (`SF` on `ReconcileChannels`). In `QueueLogSync`
the collector gets the file lock when it keeps asking (`SF` on `Lock(Collector)`) and
an import that has begun goes on or dies (`WF` on `Carry`). cron starts the spooler
again and again and a mover that has begun goes on (`WF` on `SpoolerSteps` and
`ExporterSteps`; the choice of a step is free, so every connection may fail). In
`CleanupJobs` threads and the daemon run on (`WF`), and the daemon is awake in the
minute of its schedule again and again (`SF` on `Wake(TRUE)`: it sleeps for sixty
seconds and looks at the minute, so it may miss it on a day but not on every day). In
`QueueAgents` the collector and a request that has begun go on, and somebody has a
dashboard open, which asks every few seconds (`WF` on `Dashboard`). In `DexPhones`
threads run on, the executor takes what is in its queue, an operation without an owner
grows old, and somebody asks for the phones to be notified again and again (`WF`). In
`MailReports` the scheduler's thread goes on (`WF`) and gets the lock of the import
some time although pages take it too (`SF` on `ReportSyncs`); pages about calls are
opened again and again, an import that has begun ends, the mail server comes back. In
`SipSecurity` a request or reconciliation that has begun goes on and the timer starts
one each minute (`WF`). `config` checks safety alone. Apart from that nothing is
assumed of callers, connections, phones, visitors of pages.

*What the properties excuse.* Some hold only up to what the code gives away, and name
it:

* `KeptInStep`, `NothingLost`, `PendingTold`, `NoDangling`: the history variables of
  `ConfigForms` above. Two forms that rewrite one JSON list lose one change
  (`meddled`); a failed write can leave a list empty (`scarred`); a deletion looks for
  references before another request adds one (`mixed`), and in the fields it knows
  only (`asked`); an apply empties the list of pending changes also when a reload was
  not confirmed (`unheard`); the endpoint of a browser phone outlives its extension
  (`Outliving`).
* `BoardMirrors`: an event was lost, or a command or import failed (`drops`).
* `CompletedIsComplete`, `ScheduleUnlessStuck`: the files in `spared`.
* `SafeDelete`: the uploads in `met`.
* `ReportsAgree` says where two reports may differ: a pause that is not ended before
  the logout counts in one and not in the other; of an agent who is static now two
  reports tell nothing.
* `RecordMatchesFile`: the phones in `apart`, until the next publication.
* `KeepsLegs`, `ImportCatchesUp`: lines an import was refused half-way through and put
  its place past (`passed`).
* `EachLegOnce`: when a place was not saved the last leg may be read again under
  another key (`unsaved`). It and `KeepsLegs` excuse a call that has legs in two files
  (`Split`), a rotation having come between them: read from its start, the second file
  gives its first leg of the call the key that the first leg has.
* `OneCopyEach`, `NotAlertedTwice`: a mail that arrived and could not be logged is
  sent again.
* `FirewallTold`, `PolicyAsSaved`, `BansMatchEntries`: the history variables of
  `SipSecurity` above.

*What a violation means.*

* `queue_calls_race`: a web request imports the line that closes the call between
  the read (609) and the write (730) of `db_call_hangup`. The hangup then writes
  the outcome it derived from the open row. The early return for calls that are
  already final (626-635) looks at the row as it was.
* `recordings_links`: no failure is needed. A policy with mode move uploads the
  first recording, inserts its row, deletes the local file and calls `upload_file`
  for the second; `connect()` cannot write the provider's status while the row is
  not committed. The worker dies, the row is gone, and its job stays 'Running', so
  that no policy runs again.

*Seen in instances that are not kept as runs.*

* `queue_log` cannot promise to catch up: the INSERT for RINGNOANSWER (2986) names a
  column that the table has not; the import raises at this line on every pass, commits
  nothing and saves no offset. `CatchesUpOrPoisoned` shows that nothing else stops it.
* With `MountsDrop = TRUE` in `recordings`, `SafeDelete` without `met` is violated:
  the mount is looked at once, before the copy; the sizes compared afterwards are
  those of two local files.
* `execute_emergency_cleanup`, which the daemon calls, does not exist: the job's row
  was committed before, stays 'Running' and stops every automatic cleanup after it.
  `ScheduleUnlessStuck` shows that, besides such a row, two things keep a file: a
  system that refuses to remove it every time, and a directory nobody walks. With
  "Include External Storage" (`templates/cleanup_manual.html:78`) the walk enters the
  last provider's directory alone and never the local recordings the box adds to;
  the job is recorded as completed, and so it is when files were
  refused (`cleanup_engine.py:192`). "Keep Latest X", which both pages offer, is taken
  by `_get_threshold` for "older than 30 days".
* A "core show channels" that fails after "core show version" succeeded makes every
  call a ghost, a call that joins after the list of channels was taken becomes one
  when a web request reconciles, and so reconciliation closes calls that are alive.
  `OutcomeFromLog` is checked and proved with failing lists: the record follows the
  log in the end. That no living call is ever closed is therefore no property here.
* Deletions leave references in the fields in `Unasked` dangling: the failover of a
  ring group (`app.py:2132` looks for `failover_val`, the forms write
  `failover_value`, 8481 and 8539), the extra numbers of an IVR (`ultra_numbers`,
  8136-8154), the music of an extension (3253), the members of a pickup group.
  `NoDangling` without `asked` is violated by a form and a deletion.
* `delete_extension_configs` deletes the sections `[101]`
  (`asterisk_helper.py:1907-1909`) and not the `[101_webrtc]` that
  `write_extension_configs` wrote beside them (1738-1774): the endpoint, the login and
  the address of the browser phone stay in the files of a deleted extension.
* An apply whose commands Asterisk does not answer warns with a message for the next
  page and empties the list of pending changes (`app.py:1906`, 2390-2397).
  `PendingTold` without `unheard` is violated by a form and an apply.
* The page of a queue lists the sessions of an agent who is static now
  (`get_queue_sessions`), while `get_agent_analytics` (`rcm_queue_db.py:1627`) and
  `get_all_agent_sessions` (4028) tell none of him; his pauses are in both pause
  reports.
* An error of `_sync_cdr_records_locked` between 3790 and 3895, such as a locked table
  at 3802, is printed and swallowed, and the place is saved past the lines that were
  not imported. They stay out until the place is lost or the file rotated. When it is
  lost, the file is read from its start, and a leg that was passed may take the row
  that a sibling got as the first of the call (`KeepsLegs` names both).
* Two deletions of one phone that both archive the file and both fail put back what
  each had found (`dex/services.py:558-585`); when a notify publishes between them,
  the later one puts the older file over it, and the record says otherwise (`apart`).
  It takes two failures; the run `dex` has one, a larger instance with two shows it.
* With `FilesTear = TRUE` (a crash leaves the state file empty) or `Fronts = {"long"}`
  (a line read after its fourth separator), `QueueLogSync` loses lines.
* Two logins of one agent that both read before either writes make two LOGIN events
  (`rcm_queue_db.py:806`); the reports, which pair events, live with it.
* A call has a leg before and a leg after a rotation of `Master.csv`, and the place is
  lost (an interrupted save leaves an empty file): the file is read from its start, no
  key counts as taken (`db.py:3801-3811`), and the second leg, stored under its
  digest, gets the key of the call as well (3842-3846): it has two rows and the first
  leg none. `sync_cdr_records` says of itself that it keeps "repeated calls safe"
  (`db.py:3932`). It takes four lines; what showed it was that `EachLegOnce` without
  `Split` would not become inductive.
* The last outbound route is deleted while another is added: `save_outbound_routes`
  writes the two copies one after the other (`db.py:2774`), `get_outbound_routes`
  takes the second when the first has no routes (2766), and so the request that adds
  reads the deleted route from the second copy and saves it again. `ReadsDeleted`
  names this read, and `NothingLost` excuses the list that was saved after it (it is
  `meddled`).
* The executor of DEX swallows an exception of a notify (`dex/jobs.py:53`); what the
  operation left is recovered by age, as `PhoneNotBlocked` shows.
* "Apply Changes" reloads neither voicemail nor features (`app.py:2390`), although the
  page says of every pending change that it "will be applied to the live system"
  (`templates/base.html:1029`).
* `reconcile_bans` (`sip_security_manager.py:295`) marks an entry as expired although
  its unban was refused; the host stays banned and nobody tries again (the hosts in
  `spoilt`), which the test at `tests/test_sip_security.py:52` says it must not.
* Enabling Fail2Ban when it is enabled, with an apply that is refused, leaves it
  stopped and recorded as enabled (`adrift`).

## 4. Proofs

| Theorem | Statement | Checked on an instance by |
|---|---|---|
| `TypeCorrect` (`QueueCalls_proofs`) | `Spec => []TypeOK` | `queue_calls_daemon` |
| `AnsweredStaysFinal` | `Spec => []AnsweredIsFinal` | `queue_calls_clean` |
| `RecordTellsOutcome` | `Web = {}`: `Spec => []OutcomeFromLog` | `queue_calls_daemon` |
| `BoardShowsQueue` | `Web = {}`, `~AgentsLeave`: `Spec => []BoardMirrors` | `queue_calls_daemon` |
| `TypeCorrect` (`QueueLogSync_proofs`) | `Spec => []TypeOK` | `queue_log` |
| `PlaceStaysHonest` | `Orderly`: `Spec => []PlaceIsHonest` | `queue_log` |
| `ImportKeepsContract` | `Orderly`: `Spec => KeepsContract` (refinement) | `queue_log` |
| `TypeCorrect` (`RecordingStorage_proofs`) | `Spec => []TypeOK` | `recordings` |
| `DeletesSafely` | `Spec => SafeDelete` (action property) | `recordings` |
| `SpooledStaysFindable` | `Separate`, `Playable`: `Spec => []SpooledIsFindable` | `recordings` |
| `TypeCorrect` (`CleanupJobs_proofs`) | `Spec => []TypeOK` | `cleanup` |
| `CompletedMeansComplete` | `Spec => []CompletedIsComplete` | `cleanup` |
| `FinalIsOver` | `Spec => []FinalMeansOver` | `cleanup` |
| `OneAtATime` (`DexPhones_proofs`) | `Spec => []OneOperationAtATime` | `dex` |
| `FilesNeverOlder` | `Spec => NeverOlder` (action property) | `dex` |
| `RecordMatches` | `Spec => []RecordMatchesFile` | `dex` |
| `OccurrenceLatest` (`MailReports_proofs`) | `Spec => []OccurrenceIsLatest` | `reports` |
| `OneCopy` | `Spec => []OneCopyEach` | `reports` |
| `NoAlertTwice` | `Spec => []NotAlertedTwice` | `reports` |
| `LegsOnce` | `Spec => []EachLegOnce` | `reports` |
| `LegsKept` | `Spec => KeepsLegs` (action property) | `reports` |
| `FirewallIsTold` (`SipSecurity_proofs`) | `Spec => []FirewallTold` | `security` |
| `PolicyStaysSaved` | `Spec => []PolicyAsSaved` | `security` |
| `BansStayMatched` | `Spec => []BansMatchEntries` | `security` |
| `TypeCorrect` (`SipSecurity_proofs`) | `Spec => []TypeOK` | - |
| `EventsInvariant` (`QueueAgents_proofs`) | `Spec => []EventsInv` | - |
| `PauseFitsInvariant` | `Spec => []PauseFits` | `agents` |
| `ReportsAgreeInvariant` | `Spec => []ReportsAgree` | `agents` |

They hold for all sets of calls, importers, recordings, providers, pages, phones,
threads, recipients, rules, hosts, for every plan of days and for all bounds, under the
named assumptions on the constants, which TLC evaluates on every run. Where the runs
have two of a kind, the theorems have any number.

### What they assume beyond the constants

* `RecordTellsOutcome`: `Web = {}`, the collector is the one process that writes. With
  a web request it is false (`queue_calls_race`, section 3). Commands and imports may
  fail.
* `BoardShowsQueue`: besides, no agent leaves the queue while on a call. The
  reconciliation takes the calls of former members off a wallboard that mirrored the
  queue before. (After a failure the property itself claims nothing.)
* `Orderly`: the lock file can be opened, a crash does not tear the state file, and no
  line is read after its fourth separator and before its end. Without each of the
  three lines are lost or counted twice (section 3).
* `SpooledStaysFindable` alone: `Separate`: no two movers have a provider in common,
  shares stay mounted, and the cleanup deletes local files. `Playable`: what movers
  copy to is mounted as a file system, since playback looks for files. They say what
  an administrator has to keep. `DeletesSafely` needs neither.

### The arguments

Few of these invariants are inductive. Each strengthening was checked by TLC
before it was proved.

*Queue calls.* A hangup writes what it computed from an older row, and the import of
ENTERQUEUE resets the status of a row whatever the row says. `FinalInv` therefore adds
what the exchange has told: a row is answered only when the exchange connected the
call; the socket holds AgentConnect events of connected calls only; unread CONNECT and
COMPLETE lines are of connected calls; and when a connected call's ENTERQUEUE is still
unread so is its CONNECT, which the same transaction imports after it. `GhostsGone`
says that while nothing was lost or failed, from the two lists on every call in the
tables is on them or has ended: it needs `JoinedInv`, that whoever is in a table, an
event, a line or a snapshot has joined. `RecordInv` describes the row of a call by
what of its log is unread; it is the import after a hangup, or the row a hangup reads,
that makes it final. It says nothing of who is alive, which is why it holds when
living calls are closed as ghosts. `BoardMirrors` speaks of moments at which nothing
is on the socket; `MirrorInv` carries it from one to the next by adding, of every
call, what the socket still has to tell to what its rows show (`Shown`). An event on
the socket fits what the exchange has done since (`Told`): a caller no longer queued
has his leaving told behind his joining, whoever joined later is told later, and the
place an event gives counts those queued when it was emitted (`QueuedAt`). `InPlace`
says that the places are right unless somebody's leaving is still to be handled or a
renumbering is due or half done. Renumbering reads in one transaction and writes in
another; what makes it right is that a caller whom a reconciliation entered before his
own event came has a time no earlier than his joining, hence behind everybody known
(`KnownBefore`, `NumberedInPlace`), and that his event then puts time and place right.
That a call a reconciliation found missing is still on the socket is `AtWork`.

*Import of queue_log.* `OrderInv` follows one importer at a time (the lock) from the
place it read to the place it saves: what it has in hand begins no later than `upto`,
so a crash at any point leaves a place that is honest. A saved hash tells the file it
is of, by what was rotated away before it. For the refinement `StableInv` says that
reading lines a second time changes no status: the statuses known are what the lines
from any place of the file on would leave, so every step of the import is a step of
the contract or a stutter.

*Recordings.* A mover takes the head of its list of providers or the policy it is at;
`InHand` adds that there is one wherever the code takes it. `SafeInv` follows the copy
in hand of a mover that is not in `met`: partial while it is written, whole from the
comparison of the sizes to the deletion, with nobody else writing to the same path
(`Alone`). Every step of another that would spoil this puts the mover into `met`
(`OthersCopyKept`, `AloneKept`), so nothing is assumed of who shares what. Under
`Separate` nobody is ever met (`NobodyMet`), from which `FindInv` goes on: a location
that is committed, or pending in the export worker's transaction, is of a whole copy,
and a mover writes only where no location points (`Fresh`).

*Cleanup.* `IInv` is local to a worker: while nobody has asked it to stop and none of
its statements was refused, what is left of `due` is on its list or `spared`; its list
is empty between categories; at the end either the request is seen or nothing is left.
The request to cancel is taken back only by `Execute`, when the worker is not there
(`PageInv`), or by a new row of the daemon (`DaemonInv`); items deleted by others
never come back (`ItemsStep`).

*Phones.* `HeldInv`: from its claim to its sending (`Early`) a notify holds a running
operation of its own on the phone; the executor's threads and the requests never share
one (`OwnOps`). That alone keeps operations apart, because an operation is taken over
only when it is overdue, and nobody's grows old while a thread is `Early` with it.
`FileInv` orders what is in the directory, in the hands of a notify and in those of a
deletion, and the row of the phone. `RecordInv` says that what is recorded is in the
directory, or a deletion has it and may put it back (`Available`), unless the phone is
`apart`. `CrossInv` says when two deletions may have files of one phone in their
hands: a notify has published between them, or the phone is `apart`. Of the many steps
of `DexPhones` most are alike: the lemma `Steps` sorts them into *ordinary* ones,
which touch no file, and eight remarkable ones (claims, prepares, publishes, records,
archives, edits, a row goes or stays), so each invariant has nine cases.

*Reports.* `Mailed` compares the logs with what was mailed: nothing mailed is newer than
its log says unless a success was not logged. `SchedInv` says that what the
scheduler's thread is about to mail is newer than the log, at every step of its loop.
`OccurrenceIs` computes the occurrence for daily, weekly and monthly forms from the
calendar alone; it needs only that months begin in order, not how long they are.

*Import of Master.csv.* A row is right when it has the key of its leg, or that of the
call and its leg is the first of the call in its file, or the call is split (`Right`);
of a whole call two right rows with one key are one, which is `KeepsLegs`. Only a leg
of a call of which a line was passed may hold the key of the call without being its
first (`Leads`, with `P` the calls in `passed`). For `EachLegOnce` it must have no
other key (`Exact`), and that depends on the place: every call before a place has a
row or a leg that was passed (`Complete`), and while `unsaved` is false no line after
it has one (`Bounded`), so that each leg has one row (`OneEach`). `ImportInv` says so
of the place that is saved and of the one in hand. What one import does is a fold over
its lines; `FoldSteps` unfolds it into single steps, from the definition of `FoldLeft`
as a function on sets of positions, and `FreshStep` is one line. Everything is stated
for sets of files that are given, so that writing a line and rotating need one fact:
what is right stays so when files grow (`GrowsGood`).

*Queue agents.* `EventsInv` says that every agent's events are sorted by time, that
none is later than the clock and that no unread line of the log is. It is what the
writers have to see to: the import puts a line that comes late among the earlier
events (`InsertGood`, `ImportGood`), and everybody else writes at the second of the
clock. The reports then agree whatever was logged in whatever order, doubled or
missing. A report is a fold whose function chooses by cases; `Run` names the sequence
of records it passes through (`FoldExists`), one lemma per report says what it does at
one event, and all further reasoning is an induction over positions with two reports
side by side. `Together` is what holds between the five after every event, for an
agent of any type; what a static one is not told comes off at the end (`Agreed`): an
open session is open in both readings of sessions and since the same second; who is
paused is in a session; the pauses counted so far are no more than the sessions so
far, and cover what the other reading counts, up to a pause that is still open. At the
end each adds what is open until now, which `EventsInv` makes no earlier than the last
event. Cutting by the window of the report keeps each of these facts (`WithinWhole`).

*Firewall and Fail2Ban.* `FirewallInv`: unless two applies have met there is one, its
backup, the kernel's table and the stored one are what its program counter says, and
`Told` relates each table to the rules. `PolicyInv` does the same for the one request
about the policy. `BansInv` is about one host: it has one active entry, is in
one pair of hands, and `HandInv` says what these are about to do to it.

### What the proofs changed in the models

Definitions by CASE whose guards overlap are evaluated by TLC in order but say nothing
definite in general; those of `QueueLogContract`, `QueueAgents` and `FirewallRules`
became IF or disjoint cases. Assumptions that TLC's values satisfied silently have
names now: `KindsAssumption`, `PlanAssumption`, `LegsAssumption`, `CoversAssumption`,
`PoliciesAssumption`, `NamesAssumption`, `CalendarAssumption`, `FormAssumption`,
`StartAssumption`, `PoolsAssumption`, `NoMacAssumption`. The five reports and the
import of `QueueAgents` became folds by `FoldLeft` with one function each, whose cases
are IF: as recursive definitions and nested filters they said the same (the runs reach
the same states) but could not be taken one event at a time. The calendar of
`MailReports` is a sequence of first days, as computing with it is, instead of a list
of lengths that had to be summed. A free operation of `DexPhones` is one that nobody
holds.

### Only model-checked

* Liveness (`EventuallyClean`, `CatchesUpOrPoisoned`, `EventuallyTracked`,
  `ScheduleUnlessStuck`, `BoardSettles`, `PhoneNotBlocked`, `ImportCatchesUp`,
  `NoOccurrenceForgotten`, `EveryEntryEnds`), which is out of the prover's reach.
* The four properties of the configuration forms. A form is a sequence of up to thirty
  steps, and there are seventy of them; their invariant would have to say for every
  step of every form what is true before it.

## 5. Not modelled

* Hold time, transfers and the append-only event tables of the queue; occupancy,
  timelines and call journeys (`cdr_journey.py`): pure functions of rows that this
  model has or leaves out, without state of their own.
* The page `/configuration` (`app.py` 7758-7812), which rewrites whole files;
  `run_migrations`; the parsing of imported workbooks; the texts of dialplan, PJSIP
  sections and phone files.
* The settings page of DEX, identities of accounts and the history page. An alias file
  is its file, but for its failure after the file was replaced.
* Validation of addresses and ports, the event tables of firewall and Fail2Ban, and
  the bans Fail2Ban makes by itself.
* `process_mail_queue`: no code fills `mail_queue`. Mails of the login pages.
* Administration of storage providers while a mover works.
* Surveys (one row per call, written by one AGI session), users and privileges (each
  request checks its own), LDAP (stateless), the sentiment worker (its query waits for
  a status no writer sets), themes and maintenance scripts.

## 6. Plan

1. Theorems: types of `MailReports` and `QueueAgents`; of `ConfigForms`, what holds for
   any program of steps (the lists and files keep their shapes, one thread at a time
   holds the lock of the configuration).
2. Hold time, with sums of holds; occupancy and journeys as operators checked
   against a reference; surveys.

## 7. How to run

    tlc -workers 2 -config QueueCallsDaemon.cfg MCQueueCalls
    tlc -workers 2 -config QueueLog.cfg MCQueueLogSync
    tlc -workers 2 -config Recordings.cfg MCRecordingStorage
    tlc -workers 2 -config Cleanup.cfg MCCleanupJobs
    tlc -workers 2 -config Config.cfg MCConfigForms
    tlc -workers 2 -config Agents.cfg MCQueueAgents
    tlc -workers 2 -config Dex.cfg MCDexPhones
    tlc -workers 2 -config Reports.cfg MCMailReports
    tlc -workers 2 -config Security.cfg MCSipSecurity
    tlapm QueueCalls_proofs.tla
    tlapm QueueLogSync_proofs.tla
    tlapm RecordingStorage_proofs.tla
    tlapm CleanupJobs_proofs.tla
    tlapm DexPhones_proofs.tla
    tlapm MailReports_proofs.tla
    tlapm SipSecurity_proofs.tla
    tlapm QueueAgents_proofs.tla
