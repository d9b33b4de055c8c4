----------------------------- MODULE DexInventory -----------------------------
(***************************************************************************)
(* The tables of the phone inventory and what one transaction of            *)
(* dex/repositories.py does to them: dex_models, what the phones' models can *)
(* do, and dex_devices, the phones, with the accounts assigned to them and   *)
(* the file recorded as published for them.                                  *)
(*                                                                          *)
(* db is one record, an operator returns the next one.  A row is identified  *)
(* by its id, which is never given again (AUTOINCREMENT); the row of a        *)
(* deleted phone stays here with live = FALSE and is visible to nobody.      *)
(*                                                                          *)
(* What an assignment says is its number: each save makes the next one.  A   *)
(* file is the number of the assignment it was rendered from, Bootstrap when *)
(* it carries none.                                                          *)
(***************************************************************************)
EXTENDS Integers, FiniteSets, SequencesExt

CONSTANTS
  Macs,           (* the phones of the network *)
  Models,
  ModelOf(_),     (* what the phone's user agent says it is *)
  MaxId           (* bound: rows of dex_devices ever inserted *)

ASSUME InventoryAssumption == MaxId \in Nat \ {0} /\ \A p \in Macs : ModelOf(p) \in Models

Ids       == 1 .. MaxId
NoModel   == "NULL"
NoFile    == -1
Bootstrap == 0

ASSUME NoModelAssumption == NoModel \notin Models
ASSUME NoMacAssumption == "none" \notin Macs

Undefined == [defined |-> FALSE, enabled |-> FALSE, provisionable |-> FALSE, known |-> FALSE]
Draft     == [Undefined EXCEPT !.defined = TRUE]

(* What _parse_model_form lets through: known stands for the two counts.    *)
ModelForms ==
  { f \in [defined : {TRUE}, enabled : BOOLEAN, provisionable : BOOLEAN, known : BOOLEAN] :
      f.provisionable => f.known }

NoDevice == [live |-> FALSE, mac |-> "none", model |-> NoModel, status |-> "none",
             accounts |-> 0, config |-> NoFile]

EmptyInventory == [models |-> [m \in Models |-> Undefined],
                   devices |-> [i \in Ids |-> NoDevice], last |-> 0]

(* A later day: every model can be provisioned, and p is in the inventory.   *)
Complete == [defined |-> TRUE, enabled |-> TRUE, provisionable |-> TRUE, known |-> TRUE]

StockedInventory(p) ==
  [models |-> [m \in Models |-> Complete], last |-> 1,
   devices |-> [i \in Ids |-> IF i # 1 THEN NoDevice
      ELSE [NoDevice EXCEPT !.live = TRUE, !.mac = p, !.model = ModelOf(p),
                            !.status = "Ready for Configuration"]]]

Live(db, i)    == i \in Ids /\ db.devices[i].live
RowOf(db, p)   == { i \in Ids : db.devices[i].live /\ db.devices[i].mac = p }
Ready(db, m)   == m # NoModel /\ db.models[m].defined /\ db.models[m].enabled
                  /\ db.models[m].provisionable /\ db.models[m].known
Provisionable(db, i) == Live(db, i) /\ Ready(db, db.devices[i].model)

(* The first states of a phone.  The ones that notify, refresh and reboot    *)
(* write are told apart by nobody but the reader of the page: Touched.       *)
Unpromoted == {"Unknown Model", "Model Defined"}
Touched    == "Config Generated .. Awaiting SIP Registration"

-----------------------------------------------------------------------------
(* Models.                                                                 *)

_promote_ready_devices(db, m) ==
  [db EXCEPT !.devices = [i \in Ids |->
     LET d == db.devices[i] IN
     IF d.live /\ d.model = m /\ d.status \in Unpromoted /\ Ready(db, m)
     THEN [d EXCEPT !.status = "Ready for Configuration"] ELSE d]]

save_model(db, m, form) ==
  _promote_ready_devices([db EXCEPT !.models[m] = form], m)

toggle_model(db, m, on) ==
  LET set == [db EXCEPT !.models[m].enabled = on]
  IN IF on THEN _promote_ready_devices(set, m) ELSE set

(* The bulk form enables without promoting anybody.                         *)
bulk_set_model_enabled(db, ms, on) ==
  [db EXCEPT !.models = [m \in Models |->
     IF m \in ms /\ db.models[m].defined THEN [db.models[m] EXCEPT !.enabled = on]
     ELSE db.models[m]]]

Blocked(db, m) == /\ db.models[m].provisionable /\ db.models[m].known
                  /\ \E i \in Ids : db.devices[i].live /\ db.devices[i].model = m

Detach(db, ms) ==
  [db EXCEPT !.models = [m \in Models |-> IF m \in ms THEN Undefined ELSE db.models[m]],
             !.devices = [i \in Ids |->
                LET d == db.devices[i] IN
                IF d.live /\ d.model \in ms
                THEN [d EXCEPT !.model = NoModel, !.status = "Unknown Model"] ELSE d]]

delete_model(db, m)       == IF Blocked(db, m) THEN db ELSE Detach(db, {m})
bulk_delete_models(db, ms) == IF \E m \in ms : Blocked(db, m) THEN db ELSE Detach(db, ms)

ensure_discovered_model(db, m) ==
  IF db.models[m].defined THEN db ELSE [db EXCEPT !.models[m] = Draft]

-----------------------------------------------------------------------------
(* Phones.                                                                 *)

(* By the MAC: an existing row takes over the model it is given, NULL too.  *)
upsert_device(db, p, model, status) ==
  LET ready    == Ready(db, model)
      promote(s) == IF ready /\ s \in Unpromoted THEN "Ready for Configuration" ELSE s
  IN IF RowOf(db, p) # {}
     THEN [db EXCEPT !.devices = [i \in Ids |->
             LET d == db.devices[i] IN
             IF i \in RowOf(db, p)
             THEN [d EXCEPT !.model = model, !.status = promote(d.status)] ELSE d]]
     ELSE [db EXCEPT !.last = @ + 1,
             !.devices[db.last + 1] =
               [NoDevice EXCEPT !.live = TRUE, !.mac = p, !.model = model,
                                !.status = promote(status)]]

Fresh(db, p)   == RowOf(db, p) # {} \/ db.last < MaxId
Default(model) == IF model = NoModel THEN "Unknown Model" ELSE "Model Defined"

(* Checked by the transaction itself: that the model can be provisioned,    *)
(* not that it is enabled.                                                  *)
Assignable(db, i) == /\ Live(db, i) /\ db.devices[i].model # NoModel
                     /\ db.models[db.devices[i].model].provisionable
                     /\ db.models[db.devices[i].model].known

save_assignments(db, i, number) ==
  [db EXCEPT !.devices[i].accounts = number,
             !.devices[i].status = "Ready for Configuration"]

update_device_status(db, i, status) ==
  IF Live(db, i) THEN [db EXCEPT !.devices[i].status = status] ELSE db

save_generated_config(db, i, content) ==
  [db EXCEPT !.devices[i].config = content, !.devices[i].status = Touched]

delete_device(db, i) ==
  [db EXCEPT !.devices[i] = [NoDevice EXCEPT !.mac = db.devices[i].mac]]
=============================================================================
