----------------------------- MODULE ConfigForms -----------------------------
(***************************************************************************)
(* A form of the manager changes a list, regenerates the files that        *)
(* Asterisk reads and leaves a description on the list of pending changes; *)
(* "Apply Changes" tells Asterisk to load the files and empties that list. *)
(* Requests run in the threads of one process: nothing locks a list        *)
(* between its read and its write, and a request that fails half way       *)
(* leaves what it did.                                                     *)
(*                                                                         *)
(* A handler is a program, the sequence of the steps its code takes; the   *)
(* actions execute one step of one request.                                *)
(***************************************************************************)
EXTENDS ConfigStores

CONSTANTS
  Workers,       (* threads that serve requests *)
  Start,         (* what to begin with: the objects that are there with what
                    they refer to, the forms sent to each thread, and the
                    faults: refused or broken writes, and restarts *)
  MaxRequests    (* bound: requests *)

Modules == {"pjsip", "dialplan", "queue", "moh", "followme", "voicemail",
            "features"}

(* The commands of api_apply_changes.                                      *)
Applied == {"pjsip", "dialplan", "queue", "moh", "followme"}

-----------------------------------------------------------------------------
(* Steps.                                                                  *)

Step(op, on, how) == <<[op |-> op, on |-> on, how |-> how]>>

(* The list is read, the target looked for ("absent", "present" or "any")  *)
(* and the copy in memory changed ("put" or "drop").                       *)
Read(l, seen, verb) == Step("read", l, <<seen, verb>>)
Save(l) == Step("open", l, "go on") \o Step("write", l, "go on")
SaveOrEnd(l) == Step("open", l, "end") \o Step("write", l, "end")
Row(ls, seen, verb) == Step("row", ls, <<seen, verb>>)
Back(l) == Step("back", l, "") \o Save(l)
BackRow(l) == Row({l}, "any", "was")
Ask(condition) == Step("ask", condition, "")

(* A generator that writes one file.  When it fails the handler leaves the *)
(* function that called it ("leave": past the reload that ends it), goes   *)
(* on, ends, or continues with the program that undoes.                    *)
Make(g, otherwise) ==
  (IF g.part = "section" THEN <<>> ELSE Step("gather", g, otherwise))
    \o Step("put", g, otherwise)
Reload(ms) == Step("load", ms, "")
Tell == Step("look", "pending", "") \o Step("note", "pending", "")

(* A generator that fills one file and gives one reload command.           *)
Sync(g) == Make(g, "leave") \o Reload({g.module})

-----------------------------------------------------------------------------
(* Functions that several handlers call.                                   *)

(* write_extension_configs without its reload argument.                    *)
WriteExtensionQuietly ==
  Make(write_endpoint, "leave") \o Make(write_webrtc, "leave")
    \o Make(write_dialplan, "leave") \o Make(write_voicemail, "leave")
    \o Make(write_followme, "leave") \o Reload({})

WriteExtension ==
  Make(write_endpoint, "leave") \o Make(write_webrtc, "leave")
    \o Make(write_dialplan, "leave") \o Make(rebuild_contexts, "leave")
    \o Make(write_voicemail, "leave") \o Make(write_followme, "leave")
    \o Reload({"pjsip", "dialplan", "followme", "voicemail"})

(* delete_extension_configs: no handler catches its failures, and the      *)
(* endpoint of the browser phone is not among what it deletes.             *)
DeleteExtensionQuietly ==
  Make(write_endpoint, "end") \o Make(write_dialplan, "end")
    \o Make(drop_extension_context, "end") \o Make(write_voicemail, "end")
    \o Make(write_followme, "end") \o Make(extension_features, "on")
DeleteExtension == DeleteExtensionQuietly
  \o Reload({"pjsip", "dialplan", "followme", "voicemail"})

(* sync_outbound_routes: the plan may fail, the contexts may not.          *)
SyncOutbound ==
  Make(rebuild_contexts, "leave") \o Make(write_outbound_routes, "on")
    \o Reload({"dialplan"})

SyncTrunks == SyncOutbound \o Sync(sync_inbound)

(* save_outbound_routes *)
SaveOutbound == Save("outbound") \o Save("legacy")

SyncQueues ==
  Make(sync_queues_conf, "leave") \o Make(sync_queue_plan, "leave")
    \o Reload({"dialplan", "queue"})

(* Mutant: the members of a ring group keep the routes they had.           *)
SyncRingGroupsAlone == Sync(sync_ringgroup)

SyncRingGroups ==
  Make(sync_ringgroup, "leave") \o Make(rebuild_contexts, "on")
    \o Reload({"dialplan"})

(* sync_pickup_groups_dialplan *)
SyncPickup ==
  Sync(sync_pickup_plan) \o Make(sync_pickup_keys, "on") \o Reload({"pjsip"})

(* save_paging_and_sync *)
SavePagingAndSync ==
  SaveOrEnd("paging") \o Make(sync_paging, "paging_undo")
    \o Reload({"dialplan"})

(* sync_spy_permissions_or_restore, and its announcement.                  *)
SyncSpyOrRestore == Make(sync_spy_permissions, "spy_undo") \o Tell

-----------------------------------------------------------------------------
(* The handlers.  A handler of several rows handles one here.              *)

Handler(kind, steps) == [kind |-> kind, steps |-> steps]

(* With and without a change of the extensions that may listen in.         *)
extensions_add(spied) == Handler("extension",
  Ask("free")
    \o Row(IF spied THEN {"extension", "spy"} ELSE {"extension"},
           "absent", "put")
    \o WriteExtension \o Make(extension_features, "on")
    \o (IF spied THEN SyncSpyOrRestore ELSE <<>>) \o Tell)

extensions_edit(spied) == Handler("extension",
  Row(IF spied THEN {"extension", "spy"} ELSE {"extension"},
      "present", "put")
    \o WriteExtension \o Make(extension_features, "on")
    \o (IF spied THEN SyncSpyOrRestore ELSE <<>>) \o Tell)

(* Mutant: a deletion is not announced.                                    *)
extensions_delete_untold == Handler("extension",
  Ask("unused") \o Row({"extension", "spy"}, "present", "drop")
    \o DeleteExtension \o Make(sync_spy_permissions, "on"))

extensions_delete == Handler("extension",
  Ask("unused") \o Row({"extension", "spy"}, "present", "drop")
    \o DeleteExtension \o Make(sync_spy_permissions, "on") \o Tell)

extensions_bulk_delete == Handler("extension",
  Ask("unused") \o Row({"extension", "spy"}, "present", "drop")
    \o DeleteExtensionQuietly \o Make(rebuild_contexts, "on")
    \o Reload({"pjsip", "dialplan", "followme", "voicemail"}) \o Tell)

extensions_bulk_edit == Handler("extension",
  Row({"extension"}, "present", "put") \o WriteExtensionQuietly
    \o Make(rebuild_contexts, "on")
    \o Reload({"pjsip", "dialplan", "voicemail"}) \o Tell)

extensions_bulk_add == Handler("extension",
  Ask("free") \o Row({"extension"}, "absent", "put")
    \o WriteExtensionQuietly \o Make(rebuild_contexts, "on")
    \o Reload({"pjsip", "dialplan"}) \o Tell)

extensions_import == Handler("extension",
  Row({"extension"}, "absent", "put") \o WriteExtensionQuietly
    \o Make(extension_features, "on") \o Make(rebuild_contexts, "on")
    \o Reload({"pjsip", "dialplan", "voicemail"}) \o Tell)

extension_portal_my_extension == Handler("extension",
  Row({"extension"}, "present", "put") \o WriteExtension
    \o Make(extension_features, "on") \o Tell)

trunks_add == Handler("trunk",
  Ask("free") \o Row({"trunk"}, "absent", "put") \o Sync(write_trunk)
    \o SyncTrunks \o Tell)

trunks_edit == Handler("trunk",
  Row({"trunk"}, "present", "put") \o Sync(write_trunk)
    \o SyncTrunks \o Tell)

trunks_delete == Handler("trunk",
  Ask("unused") \o Row({"trunk", "dod"}, "present", "drop")
    \o Make(write_trunk, "end") \o Reload({"pjsip"}) \o SyncTrunks \o Tell)

trunks_import == Handler("trunk",
  Row({"trunk"}, "any", "put") \o Sync(write_trunk) \o SyncTrunks \o Tell)

trunk_dod_add == Handler("dod",
  Ask("trunk") \o Row({"dod"}, "absent", "put") \o SyncOutbound \o Tell)
trunk_dod_edit == Handler("dod",
  Ask("trunk") \o Row({"dod"}, "present", "put") \o SyncOutbound \o Tell)
trunk_dod_delete == Handler("dod",
  Row({"dod"}, "present", "drop") \o SyncOutbound \o Tell)

outbound_route_dod_add == Handler("dod",
  Ask("outbound") \o Row({"dod"}, "absent", "put") \o SyncOutbound \o Tell)
outbound_route_dod_edit == Handler("dod",
  Ask("outbound") \o Row({"dod"}, "present", "put") \o SyncOutbound \o Tell)
outbound_route_dod_delete == Handler("dod",
  Row({"dod"}, "present", "drop") \o SyncOutbound \o Tell)

outbound_route_add == Handler("outbound",
  Read("outbound", "absent", "put") \o SaveOutbound \o SyncOutbound \o Tell)
outbound_route_edit == Handler("outbound",
  Read("outbound", "present", "put") \o SaveOutbound \o SyncOutbound \o Tell)

(* The DODs of the route go first, in a transaction of their own.          *)
outbound_route_delete == Handler("outbound",
  Read("outbound", "present", "drop") \o Row({"dod"}, "any", "drop")
    \o SaveOutbound \o SyncOutbound \o Tell)

outbound_routes_import == Handler("outbound",
  Read("outbound", "any", "put") \o Row({"dod"}, "any", "drop")
    \o SaveOutbound \o SyncOutbound \o Tell)

outbound_route_priority == Handler("outbound",
  Read("outbound", "present", "put") \o Save("outbound")
    \o SaveOrEnd("legacy") \o Tell \o SyncOutbound)

(* An import of IVRs, ring groups ... adds or replaces by number.          *)
AddTo(l, Syncing) == Handler(l,
  Read(l, "absent", "put") \o Save(l) \o Syncing \o Tell)
EditIn(l, Syncing) == Handler(l,
  Read(l, "present", "put") \o Save(l) \o Syncing \o Tell)
ImportTo(l, Syncing) == Handler(l,
  Read(l, "any", "put") \o Save(l) \o Syncing \o Tell)
DeleteFrom(l, Syncing) == Handler(l,
  Ask("unused") \o Read(l, "any", "drop") \o Save(l) \o Syncing \o Tell)

ivr_import == ImportTo("ivr", Sync(sync_ivr))
ivr_add == AddTo("ivr", Sync(sync_ivr))
ivr_edit == EditIn("ivr", Sync(sync_ivr))
ivr_delete == DeleteFrom("ivr", Sync(sync_ivr))

ringgroup_import == ImportTo("ringgroup", SyncRingGroups)
ringgroup_add == AddTo("ringgroup", SyncRingGroups)
ringgroup_edit == EditIn("ringgroup", SyncRingGroups)
ringgroup_delete == DeleteFrom("ringgroup", SyncRingGroups)

paging_import == Handler("paging",
  Read("paging", "any", "put") \o SavePagingAndSync \o Tell)
paging_add == Handler("paging",
  Ask("free") \o Read("paging", "absent", "put") \o SavePagingAndSync
    \o Tell)
paging_edit == Handler("paging",
  Read("paging", "present", "put") \o SavePagingAndSync \o Tell)
paging_delete == Handler("paging",
  Ask("unused") \o Read("paging", "any", "drop") \o SavePagingAndSync
    \o Tell)

queue_import == ImportTo("queue", SyncQueues)
queue_add == AddTo("queue", SyncQueues)
queue_edit == EditIn("queue", SyncQueues)
queue_delete == DeleteFrom("queue", SyncQueues)

(* An agent is one more reference of its queue.                            *)
queue_agent_add == Handler("queue",
  Read("queue", "present", "put") \o Save("queue") \o SyncQueues
    \o Reload({"queue"}) \o Tell)
queue_agent_remove == queue_agent_add

(* Nothing asks whether a speed dial or a pickup group is in use.          *)
speed_dial_import == ImportTo("speeddial", Sync(sync_speed_dial))
speed_dial_add == Handler("speeddial",
  Ask("free") \o Read("speeddial", "absent", "put") \o Save("speeddial")
    \o Sync(sync_speed_dial) \o Tell)
speed_dial_edit == EditIn("speeddial", Sync(sync_speed_dial))
speed_dial_delete == Handler("speeddial",
  Read("speeddial", "any", "drop") \o Save("speeddial")
    \o Sync(sync_speed_dial) \o Tell)

feature_codes_update == Handler("feature",
  Row({"feature"}, "present", "put")
    \o Make(sync_features_conf, "on") \o Reload({"features"})
    \o Sync(sync_feature_codes) \o SyncQueues \o Tell)

pickup_groups_import == ImportTo("pickup", SyncPickup)
pickup_groups_add == Handler("pickup",
  Read("pickup", "any", "put") \o Save("pickup") \o SyncPickup \o Tell)
pickup_groups_edit == EditIn("pickup", SyncPickup)
pickup_groups_delete == Handler("pickup",
  Read("pickup", "any", "drop") \o Save("pickup") \o SyncPickup \o Tell)

announcement_import == ImportTo("announcement", Sync(sync_announcement))
announcement_add == AddTo("announcement", Sync(sync_announcement))
announcement_edit == EditIn("announcement", Sync(sync_announcement))
announcement_delete == DeleteFrom("announcement", Sync(sync_announcement))

(* The sound file, or the class in musiconhold.conf, is written before the *)
(* list that names it.                                                     *)
media_prompt_upload == Handler("prompt",
  Read("media", "absent", "put") \o Make(sound_file, "end") \o Save("media")
    \o Tell)
media_prompt_rename == Handler("prompt",
  Read("media", "present", "put") \o Make(sound_file, "end") \o Save("media")
    \o Tell)
media_prompt_delete == Handler("prompt",
  Read("media", "present", "drop") \o Ask("unused") \o Make(sound_file, "end")
    \o Save("media") \o Tell)

media_moh_class_create == Handler("moh",
  Read("media", "absent", "put") \o Make(moh_class_config, "end")
    \o Reload({"moh"}) \o Save("media") \o Tell)
media_moh_class_edit == Handler("moh",
  Read("media", "present", "put") \o Make(moh_class_config, "end")
    \o Reload({"moh"}) \o Save("media") \o Tell)
media_moh_class_delete == Handler("moh",
  Read("media", "present", "drop") \o Ask("unused")
    \o Make(moh_class_config, "end") \o Reload({"moh"}) \o Save("media")
    \o Tell)

(* The tracks of a class are files in its directory.  An upload goes on     *)
(* with the next track after one that cannot be converted.                 *)
media_moh_tracks_upload == Handler("moh",
  Read("media", "present", "put") \o Make(track_files, "on") \o Reload({"moh"})
    \o Tell)
media_moh_track_rename == Handler("moh",
  Read("media", "present", "put") \o Make(track_files, "end") \o Reload({"moh"})
    \o Tell)
media_moh_track_delete == media_moh_track_rename

(* Office times are rows, holidays a file; the inbound plan has both.      *)
office_time_add == Handler("officetime",
  Row({"officetime"}, "absent", "put") \o Sync(sync_inbound) \o Tell)
office_time_edit == Handler("officetime",
  Row({"officetime"}, "present", "put") \o Sync(sync_inbound) \o Tell)
office_time_delete == Handler("officetime",
  Ask("unused") \o Row({"officetime"}, "present", "drop")
    \o Sync(sync_inbound) \o Tell)
office_time_clone == office_time_add
office_time_toggle == office_time_edit

holiday_add == AddTo("holiday", Sync(sync_inbound))
holiday_edit == EditIn("holiday", Sync(sync_inbound))
holiday_delete == Handler("holiday",
  Read("holiday", "present", "drop") \o Ask("unused") \o Save("holiday")
    \o Sync(sync_inbound) \o Tell)

inbound_route_add == AddTo("inbound", Sync(sync_inbound))
inbound_route_edit == EditIn("inbound", Sync(sync_inbound))
inbound_route_delete == Handler("inbound",
  Read("inbound", "present", "drop") \o Save("inbound") \o Sync(sync_inbound)
    \o Tell)
inbound_routes_import == ImportTo("inbound", Sync(sync_inbound))

(* The settings of the exchange take effect at once; refused, both the     *)
(* files and the stored settings are put back.                             *)
pbx_settings == Handler("settings",
  Read("settings", "present", "put") \o Save("settings")
    \o Make(apply_pbx_runtime, "settings_undo") \o Tell)
time_settings == Handler("time",
  Read("time", "present", "put") \o Save("time") \o Make(apply_time, "end")
    \o Tell)
network_settings == Handler("network",
  Read("network", "present", "put") \o Save("network")
    \o Make(apply_network, "end") \o Tell)

-----------------------------------------------------------------------------
(* What is left to do after a failure, and the request that applies.       *)

paging_undo == Handler("paging",
  Back("paging") \o Make(sync_paging, "leave") \o Reload({"dialplan"}))

(* The rows are put back; the extension itself stays as it was saved.      *)
spy_undo == Handler("extension",
  BackRow("spy") \o Make(sync_spy_permissions, "on") \o Tell)

settings_undo == Handler("settings", Back("settings"))

apply_changes == Handler("settings",
  Step("defer", FALSE, "") \o Reload({"pjsip"}) \o Reload({"dialplan"})
    \o Reload({"queue"}) \o Reload({"moh"}) \o Reload({"followme"})
    \o Make(sync_spy_permissions, "apply_error")
    \o Step("clear", "pending", "") \o Step("defer", TRUE, ""))
apply_error == Handler("settings", Step("defer", TRUE, ""))

HandlerOf == [
  extensions_add |-> extensions_add(FALSE),
  extensions_add_spied |-> extensions_add(TRUE),
  extensions_edit |-> extensions_edit(FALSE),
  extensions_edit_spied |-> extensions_edit(TRUE),
  extensions_delete |-> extensions_delete,
  extensions_bulk_delete |-> extensions_bulk_delete,
  extensions_bulk_edit |-> extensions_bulk_edit,
  extensions_bulk_add |-> extensions_bulk_add,
  extensions_import |-> extensions_import,
  extension_portal_my_extension |-> extension_portal_my_extension,
  trunks_add |-> trunks_add,
  trunks_edit |-> trunks_edit,
  trunks_delete |-> trunks_delete,
  trunks_import |-> trunks_import,
  trunk_dod_add |-> trunk_dod_add,
  trunk_dod_edit |-> trunk_dod_edit,
  trunk_dod_delete |-> trunk_dod_delete,
  outbound_route_dod_add |-> outbound_route_dod_add,
  outbound_route_dod_edit |-> outbound_route_dod_edit,
  outbound_route_dod_delete |-> outbound_route_dod_delete,
  outbound_route_add |-> outbound_route_add,
  outbound_route_edit |-> outbound_route_edit,
  outbound_route_delete |-> outbound_route_delete,
  outbound_routes_import |-> outbound_routes_import,
  outbound_route_priority |-> outbound_route_priority,
  ivr_import |-> ivr_import,
  ivr_add |-> ivr_add,
  ivr_edit |-> ivr_edit,
  ivr_delete |-> ivr_delete,
  ringgroup_import |-> ringgroup_import,
  ringgroup_add |-> ringgroup_add,
  ringgroup_edit |-> ringgroup_edit,
  ringgroup_delete |-> ringgroup_delete,
  paging_import |-> paging_import,
  paging_add |-> paging_add,
  paging_edit |-> paging_edit,
  paging_delete |-> paging_delete,
  queue_import |-> queue_import,
  queue_add |-> queue_add,
  queue_edit |-> queue_edit,
  queue_delete |-> queue_delete,
  queue_agent_add |-> queue_agent_add,
  queue_agent_remove |-> queue_agent_remove,
  speed_dial_import |-> speed_dial_import,
  speed_dial_add |-> speed_dial_add,
  speed_dial_edit |-> speed_dial_edit,
  speed_dial_delete |-> speed_dial_delete,
  feature_codes_update |-> feature_codes_update,
  pickup_groups_import |-> pickup_groups_import,
  pickup_groups_add |-> pickup_groups_add,
  pickup_groups_edit |-> pickup_groups_edit,
  pickup_groups_delete |-> pickup_groups_delete,
  announcement_import |-> announcement_import,
  announcement_add |-> announcement_add,
  announcement_edit |-> announcement_edit,
  announcement_delete |-> announcement_delete,
  media_prompt_upload |-> media_prompt_upload,
  media_prompt_rename |-> media_prompt_rename,
  media_prompt_delete |-> media_prompt_delete,
  media_moh_class_create |-> media_moh_class_create,
  media_moh_class_edit |-> media_moh_class_edit,
  media_moh_class_delete |-> media_moh_class_delete,
  media_moh_tracks_upload |-> media_moh_tracks_upload,
  media_moh_track_rename |-> media_moh_track_rename,
  media_moh_track_delete |-> media_moh_track_delete,
  office_time_add |-> office_time_add,
  office_time_edit |-> office_time_edit,
  office_time_delete |-> office_time_delete,
  office_time_clone |-> office_time_clone,
  office_time_toggle |-> office_time_toggle,
  holiday_add |-> holiday_add,
  holiday_edit |-> holiday_edit,
  holiday_delete |-> holiday_delete,
  inbound_route_add |-> inbound_route_add,
  inbound_route_edit |-> inbound_route_edit,
  inbound_route_delete |-> inbound_route_delete,
  inbound_routes_import |-> inbound_routes_import,
  pbx_settings |-> pbx_settings,
  time_settings |-> time_settings,
  network_settings |-> network_settings,
  apply_changes |-> apply_changes,
  paging_undo |-> paging_undo,
  spy_undo |-> spy_undo,
  settings_undo |-> settings_undo,
  apply_error |-> apply_error]

Internal == {"paging_undo", "spy_undo", "settings_undo", "apply_error"}
Forms == DOMAIN HandlerOf \ Internal

ASSUME WorkerAssumption ==
  /\ \A s \in Start : s.forms \in [Workers -> SUBSET Forms] /\ s.faults \in Nat
  /\ MaxRequests \in Nat

-----------------------------------------------------------------------------
VARIABLES
  store,       (* the lists *)
  file,        (* what each generated file was made from *)
  unloaded,    (* modules whose files changed since Asterisk read them *)
  pending,     (* rcm_pending_changes.json: the forms it tells of *)
  defer,       (* DEFER_RELOAD, a global of the process *)
  job, at,     (* the request a thread serves, and its next step *)
  mine, was,   (* the list in its memory, and as it was read *)
  got,         (* the file it is about to write *)
  told,        (* the pending changes it has read *)
  foreign,     (* history: what others wrote since this request read it *)
  ideal,       (* history: the lists, had each request changed its object *)
  meddled,     (* history: lists saved over the change of another request *)
  scarred,     (* history: lists left in pieces by a failed write *)
  excused,     (* history: files that a failure or a race left behind *)
  untold,      (* history: an announcement was lost *)
  unheard,     (* history: modules that did not confirm their reload *)
  mixed,       (* history: two requests were served at once *)
  count,       (* requests so far *)
  faults,      (* faults left *)
  menu         (* the forms sent to each thread *)

disk == <<store, file, unloaded, pending>>
memory == <<mine, was, got, told>>
losses == <<meddled, scarred, excused, untold, unheard>>
vars == <<disk, defer, job, at, memory, foreign, ideal, losses, mixed,
          count, faults, menu>>

NoJob == [form |-> "none", on |-> None, to |-> [ref |-> None, asked |-> TRUE],
          n |-> 0]

Initially(refs, l) ==
  [o \in {x \in DOMAIN refs : ListOf(x) = l \/ (l = "spy" /\ ListOf(x) = "extension")
                               \/ (l = "legacy" /\ ListOf(x) = "outbound")}
     |-> [rev |-> 0, ref |-> refs[o], asked |-> TRUE]]

Init ==
  /\ \E s \in Start : /\ store = [l \in Lists |-> Initially(s.refs, l)]
                       /\ menu = s.forms /\ faults = s.faults
  /\ file = [f \in Files |-> [l \in ReadsOf[f] |-> store[l]]]
  /\ unloaded = {} /\ pending = {} /\ defer = TRUE
  /\ job = [w \in Workers |-> NoJob] /\ at = [w \in Workers |-> 0]
  /\ mine = [w \in Workers |-> Nothing] /\ was = [w \in Workers |-> Nothing]
  /\ got = [w \in Workers |-> Nothing] /\ told = [w \in Workers |-> {}]
  /\ foreign = [w \in Workers |-> {}]
  /\ ideal = store /\ meddled = {} /\ scarred = {} /\ excused = {}
  /\ untold = FALSE /\ unheard = {} /\ mixed = FALSE
  /\ count = 0

-----------------------------------------------------------------------------
Steps(w) == HandlerOf[job[w].form].steps
Ahead(w) == {Steps(w)[i] : i \in at[w]..Len(Steps(w))}
Here(w) == Steps(w)[at[w]]
At(w, op) == at[w] # 0 /\ at[w] <= Len(Steps(w)) /\ Here(w).op = op

FilesOf(steps) == {s.on.file : s \in {t \in steps : t.op = "put"}}
FilesAhead(w) == FilesOf(Ahead(w))
FilesBehind(w) == FilesOf({Steps(w)[i] : i \in 1..at[w] - 1})

Goto(w, i) == at' = [at EXCEPT ![w] = i]
GoOn(w) == Goto(w, at[w] + 1)
End(w) == Goto(w, Len(Steps(w)) + 1)

Fault == faults > 0 /\ faults' = faults - 1

(* The other requests do not know of this change.                          *)
Unknown(w, things) ==
  foreign' = [v \in Workers |-> IF v = w \/ at[v] = 0 THEN foreign[v]
                                ELSE foreign[v] \cup things]

Copies(l) == IF l \in {"outbound", "legacy"} THEN {"outbound", "legacy"} ELSE {l}

Verbs(f) == {s \in {HandlerOf[f].steps[i] : i \in DOMAIN HandlerOf[f].steps} :
  s.op \in {"read", "row"}}
Puts == {f \in Forms : \E s \in Verbs(f) : s.how[2] = "put"}

(* The page offers what there is to refer to, in one field or another.     *)
Refers(l, to) ==
  <<l, KindOf[to.ref]>> \in IF to.asked THEN Referable ELSE Unasked

RefsFor(f, o) == {[ref |-> None, asked |-> TRUE]} \cup
  {to \in [ref : Objects, asked : BOOLEAN] :
    f \in Puts /\ Refers(ListOf(o), to)
               /\ to.ref \in DOMAIN Load(store, ListOf(to.ref))}

Begin(w) ==
  /\ at[w] = 0 /\ count < MaxRequests
  /\ \E f \in menu[w] :
       \E o \in {x \in Objects : KindOf[x] = HandlerOf[f].kind} :
         \E to \in RefsFor(f, o) :
           job' = [job EXCEPT ![w] =
                     [form |-> f, on |-> o, to |-> to, n |-> count + 1]]
  /\ at' = [at EXCEPT ![w] = 1]
  /\ count' = count + 1
  /\ mixed' = (mixed \/ \E v \in Workers : at[v] # 0)
  /\ UNCHANGED <<disk, defer, memory, foreign, ideal, losses, faults, menu>>

Sees(how, o, content) ==
  \/ how = "any"
  \/ how = "present" /\ o \in DOMAIN content
  \/ how = "absent" /\ o \notin DOMAIN content

Item(w) == [rev |-> job[w].n] @@ job[w].to

Edited(w, l, verb, content) ==
  IF verb = "put" THEN Insert(content, job[w].on, Item(w))
  ELSE IF verb = "was" THEN OnlyFor(job[w].on, was[w], content)
  ELSE IF l = ListOf(job[w].on) THEN Drop(content, job[w].on)
  ELSE DropOwned(content, job[w].on)

(* Between the two writes of save_outbound_routes another request finds no *)
(* routes in the first copy and takes those that are being deleted from    *)
(* the second.                                                             *)
ReadsDeleted(w, l) ==
  /\ l = "outbound" /\ store[l] = Nothing
  /\ \E v \in Workers \ {w} : At(v, "open") /\ Here(v).on = "legacy"

(* A list is read, and changed in memory.                                  *)
ReadList(w) ==
  /\ At(w, "read")
  /\ LET l == Here(w).on
         c == Load(store, l)
     IN IF Sees(Here(w).how[1], job[w].on, c)
        THEN /\ mine' = [mine EXCEPT ![w] = Edited(w, l, Here(w).how[2], c)]
             /\ was' = [was EXCEPT ![w] = c]
             /\ foreign' = [foreign EXCEPT ![w] =
                  IF ReadsDeleted(w, l) THEN @ \cup Copies(l) ELSE @ \ Copies(l)]
             /\ GoOn(w)
        ELSE End(w) /\ UNCHANGED <<mine, was, foreign>>
  /\ UNCHANGED <<disk, defer, job, got, told, ideal, losses, mixed, count,
                 faults, menu>>

Holds(w, condition) ==
  CASE condition = "free" -> ~NumberTaken(store, job[w].on)
    [] condition = "unused" -> ~InUse(store, job[w].on)
    [] OTHER -> job[w].to.ref \in DOMAIN Load(store, condition)

AskStore(w) ==
  /\ At(w, "ask")
  /\ IF Holds(w, Here(w).on) THEN GoOn(w) ELSE End(w)
  /\ UNCHANGED <<disk, defer, job, memory, foreign, ideal, losses, mixed,
                 count, faults, menu>>

(* A statement or a transaction on tables.                                 *)
WriteRow(w) ==
  /\ At(w, "row")
  /\ LET ls == Here(w).on
         own == ListOf(job[w].on)
         Change(lists) == [l \in Lists |-> IF l \in ls
                             THEN Edited(w, l, Here(w).how[2], lists[l])
                             ELSE lists[l]]
     IN IF Sees(Here(w).how[1], job[w].on, store[own])
        THEN /\ store' = Change(store) /\ ideal' = Change(ideal)
             /\ mine' = [mine EXCEPT ![w] = IF own \in ls THEN store'[own] ELSE @]
             /\ was' = [was EXCEPT ![w] = IF "spy" \in ls THEN store["spy"] ELSE @]
             /\ Unknown(w, ls)
             /\ GoOn(w)
        ELSE End(w) /\ UNCHANGED <<store, ideal, mine, was, foreign>>
  /\ UNCHANGED <<file, unloaded, pending, defer, job, got, told, losses,
                 mixed, count, faults, menu>>

RefuseRow(w) ==
  /\ At(w, "row") /\ Fault
  /\ End(w)
  /\ UNCHANGED <<disk, defer, job, memory, foreign, ideal, losses, mixed,
                 count, menu>>

(* _save_json_db.  Opening the file for writing empties it.                *)
OpenList(w) ==
  /\ At(w, "open")
  /\ store' = [store EXCEPT ![Here(w).on] = Nothing]
  /\ GoOn(w)
  /\ UNCHANGED <<file, unloaded, pending, defer, job, memory, foreign, ideal,
                 losses, mixed, count, faults, menu>>

WriteList(w) ==
  /\ At(w, "write")
  /\ LET l == Here(w).on
     IN /\ store' = [store EXCEPT ![l] = mine[w]]
        /\ ideal' = [ideal EXCEPT ![l] = OnlyFor(job[w].on, mine[w], @)]
        /\ meddled' = IF l \in foreign[w] THEN meddled \cup {l} ELSE meddled
        /\ Unknown(w, Copies(l))
  /\ GoOn(w)
  /\ UNCHANGED <<file, unloaded, pending, defer, job, memory, scarred,
                 excused, untold, unheard, mixed, count, faults, menu>>

(* The save returns False.  Most handlers do not look at what it returns.  *)
FailSave(w) ==
  /\ At(w, "open") \/ At(w, "write")
  /\ Fault
  /\ LET l == Here(w).on
     IN /\ foreign' = [foreign EXCEPT ![w] = @ \cup {l}]
        /\ scarred' = IF Here(w).op = "write" \/ Copies(l) # {l}
                      THEN scarred \cup Copies(l) ELSE scarred
        /\ excused' = excused \cup FilesBehind(w)
  /\ IF Here(w).how = "end" THEN End(w)
     ELSE Goto(w, at[w] + IF Here(w).op = "open" THEN 2 ELSE 1)
  /\ UNCHANGED <<disk, defer, job, memory, ideal, meddled, untold, unheard,
                 mixed, count, menu>>

PutBack(w) ==
  /\ At(w, "back")
  /\ mine' = [mine EXCEPT ![w] = was[w]]
  /\ GoOn(w)
  /\ UNCHANGED <<disk, defer, job, was, got, told, foreign, ideal, losses,
                 mixed, count, faults, menu>>

-----------------------------------------------------------------------------
(* A generator reads, then writes.                                         *)

Seen(w, g, l) == IF l = g.given /\ ListOf(job[w].on) = l THEN mine[w]
                 ELSE Load(store, l)

(* What the file will say, given what it says now.                         *)
Made(w, g) == [l \in g.reads |->
  IF g.part = "whole" THEN Seen(w, g, l)
  ELSE OnlyFor(job[w].on, Seen(w, g, l), file[g.file][l])]

Gather(w) ==
  /\ At(w, "gather")
  /\ LET g == Here(w).on
     IN /\ got' = [got EXCEPT ![w] = Made(w, g)]
        /\ foreign' = [foreign EXCEPT ![w] = @ \ {g.file}]
  /\ GoOn(w)
  /\ UNCHANGED <<disk, defer, job, mine, was, told, ideal, losses, mixed,
                 count, faults, menu>>

(* Does the file say what the lists say?                                   *)
Agrees(f, content) == \A l \in Followed[f] \ scarred :
  LET now == Keep(Load(store, l), About(f)) IN
    now = Keep(content[l], IF f \in Outliving THEN DOMAIN now ELSE About(f))

PutFile(w) ==
  /\ At(w, "put")
  /\ LET g == Here(w).on
         f == g.file
         made == IF g.part = "section" THEN Made(w, g) ELSE got[w]
         content == made @@ file[f]
     IN /\ file' = [file EXCEPT ![f] = content]
        /\ unloaded' = unloaded \cup ({g.module} \cap Modules)
        /\ unheard' = unheard \ {g.module}
        /\ excused' = IF Agrees(f, content) THEN excused \ {f}
                      ELSE IF (ReadsOf[f] \cup {f}) \cap foreign[w] # {}
                      THEN excused \cup {f} ELSE excused
        /\ Unknown(w, {f})
  /\ GoOn(w)
  /\ UNCHANGED <<store, pending, defer, job, memory, ideal, meddled, scarred,
                 untold, mixed, count, faults, menu>>

AfterReload(w) == 1 + CHOOSE i \in at[w]..Len(Steps(w)) :
  /\ Steps(w)[i].op = "load"
  /\ \A j \in at[w]..i - 1 : Steps(w)[j].op # "load"

(* run_asterisk_sync turns an exception into a warning.                    *)
FailFile(w) ==
  /\ At(w, "put") /\ Fault
  /\ excused' = excused \cup FilesAhead(w)
  /\ LET how == Here(w).how
     IN /\ CASE how = "leave" -> Goto(w, AfterReload(w))
             [] how = "on" -> GoOn(w)
             [] how = "end" -> End(w)
             [] OTHER -> Goto(w, 1)
        /\ job' = IF how \in Internal THEN [job EXCEPT ![w].form = how] ELSE job
        /\ untold' = (untold \/ how \in {"end", "paging_undo"})
  /\ UNCHANGED <<disk, defer, memory, foreign, ideal, meddled, scarred,
                 unheard, mixed, count, menu>>

(* run_asterisk_cmd: reload commands are not sent while they are deferred. *)
ReloadModules(w) ==
  /\ At(w, "load")
  /\ LET loaded == IF defer THEN {} ELSE Here(w).on
     IN unloaded' = unloaded \ loaded /\ unheard' = unheard \ loaded
  /\ GoOn(w)
  /\ UNCHANGED <<store, file, pending, defer, job, memory, foreign, ideal,
                 meddled, scarred, excused, untold, mixed, count, faults,
                 menu>>

(* Asterisk does not answer some of the commands.  The forms do not look   *)
(* at what they return; an apply warns its visitor and goes on.            *)
FailReload(w) ==
  /\ At(w, "load") /\ ~defer /\ Fault
  /\ \E lost \in SUBSET Here(w).on \ {{}} :
       /\ unloaded' = unloaded \ (Here(w).on \ lost)
       /\ unheard' = (unheard \ Here(w).on) \cup (lost \cap unloaded)
  /\ GoOn(w)
  /\ UNCHANGED <<store, file, pending, defer, job, memory, foreign, ideal,
                 meddled, scarred, excused, untold, mixed, count, menu>>

-----------------------------------------------------------------------------
(* add_pending_change: nothing when the description is there already.      *)
LookPending(w) ==
  /\ At(w, "look")
  /\ told' = [told EXCEPT ![w] = pending]
  /\ GoOn(w)
  /\ UNCHANGED <<disk, defer, job, mine, was, got, foreign, ideal, losses,
                 mixed, count, faults, menu>>

NotePending(w) ==
  /\ At(w, "note")
  /\ pending' = IF job[w].form \in told[w] THEN pending
                ELSE told[w] \cup {job[w].form}
  /\ GoOn(w)
  /\ UNCHANGED <<store, file, unloaded, defer, job, memory, foreign, ideal,
                 losses, mixed, count, faults, menu>>

FailNote(w) ==
  /\ At(w, "note") /\ Fault /\ job[w].form \notin told[w]
  /\ untold' = TRUE
  /\ GoOn(w)
  /\ UNCHANGED <<disk, defer, job, memory, foreign, ideal, meddled, scarred,
                 excused, unheard, mixed, count, menu>>

(* api_apply_changes and clear_pending_changes.                            *)
SetDefer(w) ==
  /\ At(w, "defer")
  /\ defer' = Here(w).on
  /\ GoOn(w)
  /\ UNCHANGED <<disk, job, memory, foreign, ideal, losses, mixed, count,
                 faults, menu>>

(* What another request wrote after the commands, or while the commands    *)
(* were deferred by another apply, is cleared with the rest.               *)
ClearPending(w) ==
  /\ At(w, "clear")
  /\ pending' = {}
  /\ untold' = (mixed /\ (unloaded \ unheard) \cap Applied # {})
  /\ GoOn(w)
  /\ UNCHANGED <<store, file, unloaded, defer, job, memory, foreign, ideal,
                 meddled, scarred, excused, unheard, mixed, count, faults,
                 menu>>

FailClear(w) ==
  /\ At(w, "clear") /\ Fault
  /\ GoOn(w)
  /\ UNCHANGED <<disk, defer, job, memory, foreign, ideal, losses, mixed,
                 count, menu>>

Answer(w) ==
  /\ at[w] # 0 /\ at[w] > Len(Steps(w))
  /\ Goto(w, 0)
  /\ job' = [job EXCEPT ![w] = NoJob]
  /\ mine' = [mine EXCEPT ![w] = Nothing] /\ was' = [was EXCEPT ![w] = Nothing]
  /\ got' = [got EXCEPT ![w] = Nothing] /\ told' = [told EXCEPT ![w] = {}]
  /\ foreign' = [foreign EXCEPT ![w] = {}]
  /\ UNCHANGED <<disk, defer, ideal, losses, mixed, count, faults, menu>>

Busy == {w \in Workers : at[w] # 0}

(* The process is restarted: the requests end where they are.              *)
Restart ==
  /\ Busy # {} /\ Fault
  /\ job' = [w \in Workers |-> NoJob] /\ at' = [w \in Workers |-> 0]
  /\ mine' = [w \in Workers |-> Nothing] /\ was' = [w \in Workers |-> Nothing]
  /\ got' = [w \in Workers |-> Nothing] /\ told' = [w \in Workers |-> {}]
  /\ foreign' = [w \in Workers |-> {}]
  /\ defer' = TRUE
  /\ scarred' = scarred \cup UNION {
       UNION {Copies(s.on) : s \in {t \in Ahead(w) : t.op = "write"}}
         : w \in Busy}
  /\ excused' = excused \cup UNION {FilesAhead(w) \cup FilesBehind(w) : w \in Busy}
  /\ untold' = TRUE
  /\ UNCHANGED <<disk, ideal, meddled, unheard, mixed, count, menu>>

Next ==
  \/ \E w \in Workers :
       \/ Begin(w) \/ ReadList(w) \/ AskStore(w) \/ WriteRow(w)
       \/ RefuseRow(w) \/ OpenList(w) \/ WriteList(w) \/ FailSave(w)
       \/ PutBack(w) \/ Gather(w) \/ PutFile(w) \/ FailFile(w)
       \/ ReloadModules(w) \/ FailReload(w) \/ LookPending(w)
       \/ NotePending(w) \/ FailNote(w) \/ SetDefer(w) \/ ClearPending(w)
       \/ FailClear(w) \/ Answer(w)
  \/ Restart

Spec == Init /\ [][Next]_vars

-----------------------------------------------------------------------------
(* Properties.                                                             *)

(* Every list holds objects of its own, every file speaks about the lists  *)
(* its generators read, and a request is at a step of its handler.         *)
TypeOK ==
  /\ \A l \in Lists :
       \A o \in DOMAIN store[l] :
         /\ o \in Objects /\ l \in {"spy", "legacy", ListOf(o)}
         /\ store[l][o].rev \in 0..MaxRequests
         /\ store[l][o].ref = None \/ Refers(ListOf(o), store[l][o])
  /\ \A f \in Files : DOMAIN file[f] = ReadsOf[f]
  /\ unloaded \subseteq Modules /\ unheard \subseteq unloaded
  /\ pending \subseteq DOMAIN HandlerOf
  /\ defer \in BOOLEAN
  /\ \A w \in Workers : at[w] # 0 =>
       /\ job[w].form \in DOMAIN HandlerOf /\ job[w].n \in 1..MaxRequests
       /\ at[w] <= Len(Steps(w)) + 1
       /\ told[w] \subseteq DOMAIN HandlerOf

Quiet == Busy = {}

(* When no request is on its way, every generated file says what the lists *)
(* say that its forms follow, unless the file was not written, or was      *)
(* written from something another request changed meanwhile.  Apply sends  *)
(* the spy permissions once more, so those may wait for it.  Of the        *)
(* endpoints of browser phones only those of extensions that exist are     *)
(* kept in step: delete_extension_configs leaves the others where they are.*)
KeptInStep == Quiet =>
  \A f \in Files \ excused : (f = "spy.astdb" => pending = {}) =>
    Agrees(f, file[f])

(* When no request is on its way and a file has changed since Asterisk was *)
(* told to load it, the list of pending changes is not empty, unless an    *)
(* announcement was lost or cleared by an apply that overlapped.  A        *)
(* command that Asterisk did not confirm counts as told: api_apply_changes *)
(* warns its visitor and empties the list, and only the next change of the *)
(* file brings it back.                                                    *)
PendingTold ==
  Quiet /\ (unloaded \ unheard) \cap Applied # {} /\ ~untold => pending # {}

(* Each list holds what the accepted requests made of it: a form changes   *)
(* no object but its own, unless it saves over a change made meanwhile,    *)
(* brings back routes it read while they were being deleted, or the list   *)
(* was left in pieces.                                                     *)
NothingLost == Quiet =>
  \A l \in Lists \ (meddled \cup scarred) : store[l] = ideal[l]

(* What is deleted is referred to by nobody in a field that the checks     *)
(* before a deletion look at, as long as requests come one after the       *)
(* other.  Nothing protects the other fields (Unasked): a deletion leaves  *)
(* the failover of a ring group, an extra number of an IVR, the music of   *)
(* an extension and a member of a pickup group dangling.                   *)
NoDangling == Quiet /\ ~mixed =>
  \A l \in Lists \ {"legacy"} : LET c == Load(store, l) IN
    \A o \in DOMAIN c : LET r == c[o].ref IN
      /\ r # None /\ c[o].asked
      /\ ListOf(r) \notin scarred
      => r \in DOMAIN Load(store, ListOf(r))
=============================================================================
