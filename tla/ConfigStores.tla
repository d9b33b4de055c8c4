---------------------------- MODULE ConfigStores ----------------------------
(***************************************************************************)
(* Where the manager keeps the configuration of the exchange, which        *)
(* objects may refer to which, and which configuration file is generated   *)
(* from which lists.                                                       *)
(*                                                                         *)
(* A list is the content of one JSON file or of one SQL table: a function  *)
(* from the objects it holds to the request that wrote each of them, the   *)
(* object it refers to, and whether it does so in a field that the checks  *)
(* before a deletion look at ("asked").  A file that Asterisk reads is     *)
(* described by what its generator read: one content per list.             *)
(***************************************************************************)
EXTENDS Integers, Sequences, FiniteSets, Functions, TLC

CONSTANTS
  Objects,       (* what a form is about: an IVR, a trunk, a prompt ... *)
  KindOf,        (* [Objects -> kind] *)
  NumberOf,      (* [Objects -> the number callers dial, or the name] *)
  None           (* an object that refers to nothing *)

(* Tables of rcm.db; a row is written by one statement or transaction.     *)
Tables == {"extension", "spy", "trunk", "dod", "feature", "officetime"}

(* JSON files, each written as a whole.  Prompts and music classes share   *)
(* "media"; "legacy" is the second copy of the outbound routes.            *)
JsonFiles == {"ivr", "ringgroup", "paging", "queue", "speeddial", "pickup",
              "announcement", "media", "outbound", "legacy", "holiday",
              "inbound", "settings", "time", "network"}

Lists == Tables \cup JsonFiles

Kinds == (Lists \ {"spy", "legacy", "media"}) \cup {"prompt", "moh"}

ASSUME ObjectAssumption ==
  /\ KindOf \in [Objects -> Kinds] /\ DOMAIN NumberOf = Objects
  /\ None \notin Objects

ListOf(o) == IF KindOf[o] \in {"prompt", "moh"} THEN "media" ELSE KindOf[o]

Nothing == [x \in {} |-> 0]       (* an empty list, or a file cut to zero *)

Keep(content, S) == Restrict(content, DOMAIN content \cap S)

Drop(content, o) == Keep(content, Objects \ {o})

(* A deletion takes the rows of other tables that belong to the object.    *)
DropOwned(content, o) ==
  Keep(Drop(content, o), {x \in DOMAIN content : content[x].ref # o})

(* Mutant: the list is made anew from the object of the form.              *)
InsertAlone(content, o, item) == o :> item

Insert(content, o, item) == (o :> item) @@ content

(* content, but as far as o is concerned like other.                       *)
OnlyFor(o, other, content) == Keep(other, {o}) @@ Keep(content, Objects \ {o})

(* get_outbound_routes takes the second copy when the first has no routes. *)
Load(store, l) ==
  IF l = "outbound" /\ store[l] = Nothing THEN store["legacy"] ELSE store[l]

-----------------------------------------------------------------------------
(* What may refer to an object, as far as the forms look before a delete.  *)

Destinations == {"extension", "ivr", "ringgroup", "paging", "queue",
                 "announcement"}

(* check_destination_in_use.  Of a ring group it sees the members: it      *)
(* looks for the failover under "failover_val", where no form puts it.     *)
DestinationHolders(kind) ==
  {"inbound", "ivr", "queue", "announcement"}
    \cup IF kind = "extension" THEN {"ringgroup", "paging", "outbound"}
         ELSE IF kind = "ringgroup" THEN {"outbound"} ELSE {}

(* Mutant: the music of a queue is not looked at.                          *)
MohHoldersNone == {}

(* check_moh_class_in_use *)
MohHolders == {"queue"}

(* check_trunk_in_use *)
TrunkHolders == {"outbound", "inbound"}

(* check_prompt_in_use *)
PromptHolders == {"ivr", "ringgroup", "paging", "queue", "announcement"}

(* office_times_delete and holidays_delete look at the inbound rules.      *)
ClassHolders == {"inbound"}

Holders(kind) ==
  CASE kind \in Destinations -> DestinationHolders(kind)
    [] kind = "trunk" -> TrunkHolders
    [] kind = "prompt" -> PromptHolders
    [] kind = "moh" -> MohHolders
    [] kind \in {"officetime", "holiday"} -> ClassHolders
    [] OTHER -> {}

(* The references these checks are about: what holds which kind.           *)
Referable == {<<"inbound", k>> : k \in Destinations
                                  \cup {"trunk", "officetime", "holiday"}}
        \cup {<<l, k>> : l \in {"ivr", "queue", "announcement"},
                k \in Destinations \cup {"prompt"}}
        \cup {<<"queue", "moh">>, <<"outbound", "trunk">>,
              <<"outbound", "extension">>, <<"outbound", "ringgroup">>,
              <<"dod", "trunk">>, <<"dod", "outbound">>}
        \cup {<<l, k>> : l \in {"ringgroup", "paging"},
                k \in {"extension", "prompt"}}

(* References in fields that no check looks at: where a ring group goes    *)
(* when nobody answers, the extra numbers of an IVR, the music of an       *)
(* extension, the members of a pickup group.                               *)
Unasked == {<<l, k>> : l \in {"ringgroup", "ivr"}, k \in Destinations}
        \cup {<<"extension", "moh">>, <<"pickup", "extension">>}

InUse(store, o) ==
  \E l \in Holders(KindOf[o]) : LET c == Load(store, l) IN
    \E x \in DOMAIN c : c[x].ref = o /\ c[x].asked

(* check_number_conflict *)
Numbered == {"extension", "feature", "ringgroup", "ivr", "queue",
             "announcement", "paging", "speeddial", "trunk"}

NumberTaken(store, o) ==
  \E l \in Numbered : \E x \in DOMAIN store[l] : NumberOf[x] = NumberOf[o]

-----------------------------------------------------------------------------
(* The generators.  A generator writes its file whole, from the lists it   *)
(* reads; or only the section of one object, under the lock; or it reads   *)
(* the file, replaces the section in memory and writes the file back,      *)
(* under no lock ("edited").  A handler passes the list it has just saved  *)
(* to some generators ("given"); every other list is read from the disk.   *)
(* "module" is the part of Asterisk that reads the file.                   *)

Gen(f, how, lists, l, m) ==
  [file |-> f, part |-> how, reads |-> lists, given |-> l, module |-> m]

write_endpoint == Gen("pjsip.conf", "section", {"extension"}, "extension", "pjsip")
write_webrtc == Gen("pjsip.webrtc", "section", {"extension"}, "extension", "pjsip")
write_dialplan == Gen("extensions.conf", "edited", {"extension"}, "extension", "dialplan")
write_voicemail == Gen("voicemail.conf", "edited", {"extension"}, "extension", "voicemail")
write_followme == Gen("followme.conf", "section", {"extension"}, "extension",
  "followme")
extension_features == Gen("astdb", "section", {"extension"},
  "extension", "none")
sync_spy_permissions == Gen("spy.astdb", "whole", {"spy"}, "", "none")
drop_extension_context ==
  Gen("contexts.conf", "section", {"extension"}, "", "dialplan")
rebuild_contexts == Gen("contexts.conf", "whole",
  {"extension", "outbound", "ringgroup"}, "outbound", "dialplan")
write_outbound_routes == Gen("outbound.conf", "whole",
  {"outbound", "trunk", "dod"}, "outbound", "dialplan")
write_trunk == Gen("trunks.conf", "section", {"trunk"}, "trunk", "pjsip")
sync_ivr == Gen("ivr.conf", "whole", {"ivr", "media"}, "ivr", "dialplan")
sync_ringgroup ==
  Gen("ringgroup.conf", "whole", {"ringgroup", "media"}, "ringgroup", "dialplan")
sync_paging ==
  Gen("paging.conf", "whole", {"paging", "media"}, "paging", "dialplan")
sync_queue_plan ==
  Gen("queueplan.conf", "whole", {"queue", "feature", "media"}, "queue", "dialplan")
sync_queues_conf ==
  Gen("queues.conf", "whole", {"queue", "media"}, "queue", "queue")
sync_speed_dial ==
  Gen("speeddial.conf", "whole", {"speeddial"}, "speeddial", "dialplan")
sync_features_conf == Gen("features.conf", "whole", {"feature"}, "", "features")
sync_feature_codes ==
  Gen("featurecodes.conf", "whole", {"feature"}, "", "dialplan")
sync_pickup_plan == Gen("pickup.conf", "whole", {"pickup"}, "pickup", "dialplan")
sync_pickup_keys ==
  Gen("pickup.keys", "whole", {"pickup", "extension"}, "pickup", "pjsip")
sync_announcement == Gen("announcement.conf", "whole", {"announcement", "media"},
  "announcement", "dialplan")
sound_file == Gen("sounds", "section", {"media"}, "media", "none")
moh_class_config == Gen("musiconhold.conf", "edited", {"media"}, "media", "moh")
track_files == Gen("tracks", "section", {"media"}, "media", "moh")
sync_inbound == Gen("inbound.conf", "whole",
  {"inbound", "officetime", "holiday", "trunk", "outbound"}, "", "dialplan")
apply_pbx_runtime ==
  Gen("runtime.conf", "whole", {"settings"}, "settings", "forced")
apply_time == Gen("clock", "whole", {"time"}, "time", "none")
apply_network == Gen("interfaces", "whole", {"network"}, "network", "none")

Generators == {write_endpoint, write_webrtc, write_dialplan,
  write_voicemail, write_followme, extension_features, sync_spy_permissions,
  drop_extension_context, rebuild_contexts, write_outbound_routes,
  write_trunk, sync_ivr, sync_ringgroup, sync_paging, sync_queue_plan,
  sync_queues_conf, sync_speed_dial, sync_features_conf, sync_feature_codes,
  sync_pickup_plan, sync_pickup_keys, sync_announcement, sound_file,
  moh_class_config, track_files, sync_inbound, apply_pbx_runtime,
  apply_time, apply_network}

Files == {g.file : g \in Generators}
ReadsOf == [f \in Files |-> UNION {g.reads : g \in {h \in Generators : h.file = f}}]

(* The part of a list that a file speaks about.                            *)
About(f) ==
  IF f = "sounds" THEN {o \in Objects : KindOf[o] = "prompt"}
  ELSE IF f \in {"musiconhold.conf", "tracks"} THEN {o \in Objects : KindOf[o] = "moh"}
  ELSE Objects

(* Files whose sections outlive their object: the endpoint of the browser  *)
(* phone of a deleted extension stays in the files.                        *)
Outliving == {"pjsip.webrtc"}

(* The lists whose forms regenerate the file.  Not kept up by the forms:   *)
(* what the plans say of a prompt that is renamed, the include of an       *)
(* outbound context in the inbound plan, the pickup keys of an extension   *)
(* that is written again, and the Asterisk database of an extension that   *)
(* the bulk forms wrote.  Tracks are in no list.                           *)
Followed == [f \in Files |->
  CASE f = "inbound.conf" -> ReadsOf[f] \ {"outbound"}
    [] f = "pickup.keys" -> {"pickup"}
    [] f \in {"astdb", "tracks"} -> {}
    [] f \in {"sounds", "musiconhold.conf"} -> {"media"}
    [] OTHER -> ReadsOf[f] \ {"media"}]
=============================================================================
