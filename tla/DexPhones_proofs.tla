-------------------------- MODULE DexPhones_proofs --------------------------
(***************************************************************************)
(* Theorems about DexPhones, for any phones, models, pools of threads,     *)
(* scans and plans.                                                        *)
(***************************************************************************)
EXTENDS DexPhones, FiniteSetTheorems, TLAPS

-----------------------------------------------------------------------------
(* The inventory: what a row is, and what the transactions leave alone.    *)

Model == [defined : BOOLEAN, enabled : BOOLEAN, provisionable : BOOLEAN, known : BOOLEAN]

Statuses == Unpromoted \cup {"none", "Ready for Configuration", Touched}

Device == [live : BOOLEAN, mac : Macs \cup {"none"}, model : Models \cup {NoModel},
           status : Statuses, accounts : Nat, config : Int]

Inventory == [models : [Models -> Model], devices : [Ids -> Device], last : 0 .. MaxId]

(* A phone has a row from its insertion on, and no two that are live.      *)
Sound(d) ==
  /\ d \in Inventory
  /\ \A i \in Ids : i <= d.last => d.devices[i].mac \in Macs
  /\ \A i \in Ids : i > d.last => ~d.devices[i].live /\ d.devices[i].mac = "none"
  /\ \A i, j \in Ids : d.devices[i].live /\ d.devices[j].live
                         /\ d.devices[i].mac = d.devices[j].mac => i = j

(* The row i but for its model and its status.                             *)
Alike(d, e, i) ==
  /\ e.devices[i].live = d.devices[i].live /\ e.devices[i].mac = d.devices[i].mac
  /\ e.devices[i].accounts = d.devices[i].accounts
  /\ e.devices[i].config = d.devices[i].config

Same(d, e) == e.last = d.last /\ \A i \in Ids : Alike(d, e, i)

(* One phone more.                                                         *)
Grows(d, e, p) ==
  /\ e.last = d.last + 1 /\ RowOf(d, p) = {}
  /\ \A i \in Ids : i # e.last => Alike(d, e, i)
  /\ e.devices[e.last].live /\ e.devices[e.last].mac = p
  /\ e.devices[e.last].accounts = 0 /\ e.devices[e.last].config = NoFile

LEMMA IdsAre ==
  /\ MaxId \in Nat /\ MaxId > 0
  /\ \A i : i \in Ids <=> i \in Nat /\ 1 <= i /\ i <= MaxId
  /\ 0 \notin Ids /\ Ids \subseteq Nat
BY InventoryAssumption DEF Ids

LEMMA SameSound ==
  ASSUME NEW d, NEW e, Sound(d), e \in Inventory, Same(d, e)
  PROVE  Sound(e)
BY DEF Sound, Same, Alike

LEMMA BlankDevice == NoDevice \in Device /\ Undefined \in Model /\ Draft \in Model
<1>1. "none" \in Statuses /\ NoFile \in Int /\ NoModel \in Models \cup {NoModel}
  BY DEF Statuses, NoFile
<1>2. NoDevice \in Device
  BY <1>1 DEF NoDevice, Device
<1>3. Undefined \in Model
  BY DEF Undefined, Model
<1>4. Draft \in Model
  BY <1>3 DEF Draft, Model
<1>5. QED
  BY <1>2, <1>3, <1>4

(* A function of the rows that changes their model and status only.        *)
LEMMA Rewritten ==
  ASSUME NEW d \in Inventory, NEW models \in [Models -> Model], NEW F \in [Ids -> Device],
         \A i \in Ids : /\ F[i].live = d.devices[i].live /\ F[i].mac = d.devices[i].mac
                        /\ F[i].accounts = d.devices[i].accounts
                        /\ F[i].config = d.devices[i].config
  PROVE  /\ [d EXCEPT !.models = models, !.devices = F] \in Inventory
         /\ Same(d, [d EXCEPT !.models = models, !.devices = F])
BY DEF Inventory, Same, Alike

LEMMA Promotes ==
  ASSUME NEW d \in Inventory, NEW m \in Models
  PROVE  /\ _promote_ready_devices(d, m) \in Inventory
         /\ Same(d, _promote_ready_devices(d, m))
<1> DEFINE F == [i \in Ids |->
                   LET x == d.devices[i] IN
                   IF x.live /\ x.model = m /\ x.status \in Unpromoted /\ Ready(d, m)
                   THEN [x EXCEPT !.status = "Ready for Configuration"] ELSE x]
<1>1. ASSUME NEW i \in Ids
      PROVE  /\ F[i] \in Device
             /\ F[i].live = d.devices[i].live /\ F[i].mac = d.devices[i].mac
             /\ F[i].accounts = d.devices[i].accounts /\ F[i].config = d.devices[i].config
  <2>1. d.devices[i] \in Device
    BY DEF Inventory
  <2>2. F[i] \in {d.devices[i], [d.devices[i] EXCEPT !.status = "Ready for Configuration"]}
    OBVIOUS
  <2>3. QED
    BY <2>1, <2>2 DEF Device, Statuses
<1>2. F \in [Ids -> Device]
  BY <1>1
<1>3. _promote_ready_devices(d, m) = [d EXCEPT !.devices = F]
  BY DEF _promote_ready_devices
<1> HIDE DEF F
<1>4. QED
  BY <1>1, <1>2, <1>3 DEF Inventory, Same, Alike

LEMMA NewModels ==
  ASSUME NEW d \in Inventory, NEW models \in [Models -> Model]
  PROVE  [d EXCEPT !.models = models] \in Inventory /\ Same(d, [d EXCEPT !.models = models])
BY DEF Inventory, Same, Alike

LEMMA SameTwice ==
  ASSUME NEW a, NEW b, NEW c, Same(a, b), Same(b, c)
  PROVE  Same(a, c)
BY DEF Same, Alike

LEMMA Detaches ==
  ASSUME NEW d \in Inventory, NEW ms \in SUBSET Models
  PROVE  Detach(d, ms) \in Inventory /\ Same(d, Detach(d, ms))
<1> DEFINE F == [i \in Ids |->
                   LET x == d.devices[i] IN
                   IF x.live /\ x.model \in ms
                   THEN [x EXCEPT !.model = NoModel, !.status = "Unknown Model"] ELSE x]
           models == [m \in Models |-> IF m \in ms THEN Undefined ELSE d.models[m]]
<1>1. ASSUME NEW i \in Ids
      PROVE  /\ F[i] \in Device
             /\ F[i].live = d.devices[i].live /\ F[i].mac = d.devices[i].mac
             /\ F[i].accounts = d.devices[i].accounts /\ F[i].config = d.devices[i].config
  <2>1. d.devices[i] \in Device
    BY DEF Inventory
  <2>2. F[i] \in {d.devices[i],
                  [d.devices[i] EXCEPT !.model = NoModel, !.status = "Unknown Model"]}
    OBVIOUS
  <2>3. QED
    BY <2>1, <2>2 DEF Device, Statuses, Unpromoted
<1>2. F \in [Ids -> Device]
  BY <1>1
<1>3. models \in [Models -> Model]
  BY BlankDevice DEF Inventory
<1>4. Detach(d, ms) = [d EXCEPT !.models = models, !.devices = F]
  BY DEF Detach
<1> HIDE DEF F, models
<1>5. QED
  BY <1>1, <1>2, <1>3, <1>4 DEF Inventory, Same, Alike

(* The pages about models touch no phone but its model and its status.     *)
LEMMA ModelPages ==
  ASSUME NEW d \in Inventory, NEW m \in Models, NEW form \in ModelForms, NEW on \in BOOLEAN,
         NEW e \in {save_model(d, m, form), toggle_model(d, m, on),
                    bulk_set_model_enabled(d, {m}, on), delete_model(d, m),
                    bulk_delete_models(d, Models), ensure_discovered_model(d, m)}
  PROVE  e \in Inventory /\ Same(d, e)
<1>1. d.models \in [Models -> Model] /\ form \in Model
  BY DEF Inventory, ModelForms, Model
<1>2. Same(d, d)
  BY DEF Same, Alike
<1>3. CASE e = save_model(d, m, form)
  <2> DEFINE a == [d EXCEPT !.models = [d.models EXCEPT ![m] = form]]
  <2>1. a \in Inventory /\ Same(d, a)
    BY <1>1, NewModels
  <2>2. e = _promote_ready_devices(a, m)
    BY <1>3 DEF save_model
  <2> HIDE DEF a
  <2>3. QED
    BY <2>1, <2>2, Promotes, SameTwice
<1>4. CASE e = toggle_model(d, m, on)
  <2> DEFINE a == [d EXCEPT !.models = [d.models EXCEPT ![m].enabled = on]]
  <2>1. [d.models EXCEPT ![m].enabled = on] \in [Models -> Model]
    BY <1>1 DEF Model
  <2>2. a \in Inventory /\ Same(d, a)
    BY <2>1, NewModels
  <2>3. e \in {_promote_ready_devices(a, m), a}
    BY <1>4 DEF toggle_model
  <2> HIDE DEF a
  <2>4. QED
    BY <2>2, <2>3, Promotes, SameTwice
<1>5. CASE e = bulk_set_model_enabled(d, {m}, on)
  <2> DEFINE models == [k \in Models |->
                          IF k \in {m} /\ d.models[k].defined THEN [d.models[k] EXCEPT !.enabled = on]
                          ELSE d.models[k]]
  <2>1. models \in [Models -> Model]
    BY <1>1 DEF Model
  <2>2. e = [d EXCEPT !.models = models]
    BY <1>5 DEF bulk_set_model_enabled
  <2> HIDE DEF models
  <2>3. QED
    BY <2>1, <2>2, NewModels
<1>6. CASE e = delete_model(d, m) \/ e = bulk_delete_models(d, Models)
  <2>1. e \in {d, Detach(d, {m}), Detach(d, Models)}
    BY <1>6 DEF delete_model, bulk_delete_models
  <2>2. QED
    BY <1>2, <2>1, Detaches
<1>7. CASE e = ensure_discovered_model(d, m)
  <2>1. [d.models EXCEPT ![m] = Draft] \in [Models -> Model]
    BY <1>1, BlankDevice
  <2>2. e = d \/ e = [d EXCEPT !.models = [d.models EXCEPT ![m] = Draft]]
    BY <1>7 DEF ensure_discovered_model
  <2>3. QED
    BY <1>2, <2>1, <2>2, NewModels
<1>8. QED
  BY <1>3, <1>4, <1>5, <1>6, <1>7

(* The rows keep what they are about, but there may be one phone more, that *)
(* no row was about.                                                       *)
Kept(d, e) ==
  /\ e.last \in {d.last, d.last + 1}
  /\ \A i \in Ids : i <= d.last => Alike(d, e, i)
  /\ \A i \in Ids : d.last < i /\ i <= e.last =>
       /\ e.devices[i].live /\ e.devices[i].accounts = 0 /\ e.devices[i].config = NoFile
       /\ RowOf(d, e.devices[i].mac) = {}

LEMMA SameKept ==
  ASSUME NEW d, NEW e, Sound(d), e \in Inventory, Same(d, e)
  PROVE  Sound(e) /\ Kept(d, e)
<1>1. Sound(e)
  BY SameSound
<1>2. d.last \in Int
  BY DEF Sound, Inventory
<1>3. QED
  BY <1>1, <1>2, IdsAre DEF Same, Kept

LEMMA SameThenKept ==
  ASSUME NEW d, NEW e, NEW f, Same(d, e), Kept(e, f)
  PROVE  Kept(d, f)
<1>1. \A p : RowOf(d, p) = RowOf(e, p)
  BY DEF Same, Alike, RowOf
<1>2. QED
  BY <1>1 DEF Same, Alike, Kept

LEMMA StatusSet ==
  ASSUME NEW d, Sound(d), NEW i, NEW status \in Statuses
  PROVE  /\ Sound(update_device_status(d, i, status))
         /\ Kept(d, update_device_status(d, i, status))
         /\ Same(d, update_device_status(d, i, status))
<1> DEFINE e == update_device_status(d, i, status)
           D == [d.devices EXCEPT ![i].status = status]
<1>1. d \in Inventory /\ d.devices \in [Ids -> Device]
  BY DEF Sound, Inventory
<1>2. CASE Live(d, i)
  <2>1. i \in Ids
    BY <1>2 DEF Live
  <2>2. D \in [Ids -> Device]
    BY <1>1, <2>1 DEF Device
  <2>3. \A k \in Ids : /\ D[k].live = d.devices[k].live /\ D[k].mac = d.devices[k].mac
                       /\ D[k].accounts = d.devices[k].accounts
                       /\ D[k].config = d.devices[k].config
    BY <1>1, <2>1 DEF Device
  <2>4. e = [d EXCEPT !.devices = D]
    BY <1>2 DEF update_device_status
  <2> HIDE DEF D, e
  <2>5. e \in Inventory /\ Same(d, e)
    BY <1>1, <2>2, <2>3, <2>4 DEF Inventory, Same, Alike
  <2>6. QED
    BY <2>5, SameKept DEF e
<1>3. CASE ~Live(d, i)
  <2>1. e = d
    BY <1>3 DEF update_device_status
  <2>2. Same(d, d)
    BY DEF Same, Alike
  <2>3. QED
    BY <1>1, <2>1, <2>2, SameKept
<1>4. QED
  BY <1>2, <1>3

LEMMA ModelEnsured ==
  ASSUME NEW d, Sound(d), NEW m \in Models
  PROVE  /\ Sound(ensure_discovered_model(d, m)) /\ Kept(d, ensure_discovered_model(d, m))
         /\ Same(d, ensure_discovered_model(d, m))
<1>1. ModelForms # {}
  <2>1. [defined |-> TRUE, enabled |-> TRUE, provisionable |-> FALSE, known |-> FALSE]
          \in ModelForms
    BY DEF ModelForms
  <2>2. QED
    BY <2>1
<1>2. d \in Inventory
  BY DEF Sound
<1>3. ensure_discovered_model(d, m) \in Inventory /\ Same(d, ensure_discovered_model(d, m))
  BY <1>1, <1>2, ModelPages
<1>4. QED
  BY <1>3, SameKept

(* By the MAC: the row there is, or one more.                              *)
LEMMA Upserts ==
  ASSUME NEW d, Sound(d), NEW p \in Macs, NEW model \in Models \cup {NoModel},
         NEW status \in Statuses, Fresh(d, p)
  PROVE  /\ Sound(upsert_device(d, p, model, status))
         /\ Kept(d, upsert_device(d, p, model, status))
         /\ RowOf(upsert_device(d, p, model, status), p) # {}
<1> DEFINE e == upsert_device(d, p, model, status)
           ready == Ready(d, model)
           promote(s) == IF ready /\ s \in Unpromoted THEN "Ready for Configuration" ELSE s
<1>1. /\ d \in Inventory /\ d.devices \in [Ids -> Device] /\ d.last \in 0 .. MaxId
      /\ d.models \in [Models -> Model]
  BY DEF Sound, Inventory
<1>2. \A s \in Statuses : promote(s) \in Statuses
  BY DEF Statuses
<1>3. CASE RowOf(d, p) # {}
  <2> DEFINE D == [i \in Ids |->
                     LET x == d.devices[i] IN
                     IF i \in RowOf(d, p)
                     THEN [x EXCEPT !.model = model, !.status = promote(x.status)] ELSE x]
  <2>1. ASSUME NEW i \in Ids
        PROVE  /\ D[i] \in Device
               /\ D[i].live = d.devices[i].live /\ D[i].mac = d.devices[i].mac
               /\ D[i].accounts = d.devices[i].accounts /\ D[i].config = d.devices[i].config
    <3>1. d.devices[i] \in Device /\ promote(d.devices[i].status) \in Statuses
      BY <1>1, <1>2 DEF Device
    <3>2. D[i] \in {d.devices[i],
                    [d.devices[i] EXCEPT !.model = model, !.status = promote(d.devices[i].status)]}
      OBVIOUS
    <3> HIDE DEF promote, D
    <3>3. QED
      BY <3>1, <3>2 DEF Device
  <2>2. D \in [Ids -> Device]
    BY <2>1
  <2>3. e = [d EXCEPT !.devices = D]
    BY <1>3 DEF upsert_device
  <2> HIDE DEF D, e, promote
  <2>4. e \in Inventory /\ Same(d, e)
    BY <1>1, <2>1, <2>2, <2>3 DEF Inventory, Same, Alike
  <2>5. RowOf(e, p) = RowOf(d, p)
    BY <2>4 DEF Same, Alike, RowOf
  <2>6. QED
    BY <1>3, <2>4, <2>5, SameKept DEF e
<1>4. CASE RowOf(d, p) = {}
  <2> DEFINE n == d.last + 1
             x == [NoDevice EXCEPT !.live = TRUE, !.mac = p, !.model = model,
                                   !.status = promote(status)]
  <2>1. n \in Ids /\ d.last < n
    BY <1>1, <1>4, IdsAre DEF Fresh
  <2>2. /\ x \in Device /\ x.live /\ x.mac = p /\ x.accounts = 0 /\ x.config = NoFile
    <3>1. promote(status) \in Statuses
      BY <1>2
    <3> HIDE DEF promote
    <3>2. QED
      BY <3>1, BlankDevice DEF NoDevice, Device
  <2>3. e = [d EXCEPT !.last = n, !.devices = [d.devices EXCEPT ![n] = x]]
    BY <1>1, <1>4 DEF upsert_device
  <2> HIDE DEF x, e, promote, ready
  <2>4. /\ e.last = n /\ e.devices = [d.devices EXCEPT ![n] = x] /\ e \in Inventory
    <3>1. n \in 0 .. MaxId
      BY <2>1, IdsAre
    <3>2. QED
      BY <1>1, <2>1, <2>2, <2>3, <3>1 DEF Inventory
  <2>5. /\ e.devices[n] = x
        /\ \A i \in Ids : i # n => e.devices[i] = d.devices[i]
    BY <1>1, <2>1, <2>4
  <2>6. Kept(d, e)
    <3>1. e.last \in {d.last, d.last + 1}
      BY <2>4
    <3>2. ASSUME NEW i \in Ids, i <= d.last PROVE Alike(d, e, i)
      BY <1>1, <2>5, <3>2, IdsAre DEF Alike
    <3>3. ASSUME NEW i \in Ids, d.last < i, i <= e.last
          PROVE  i = n
      BY <1>1, <2>4, <3>3, IdsAre
    <3>4. QED
      BY <1>4, <2>2, <2>5, <3>1, <3>2, <3>3 DEF Kept
  <2>7. Sound(e)
    <3>1. ASSUME NEW i \in Ids
          PROVE  /\ i <= e.last => e.devices[i].mac \in Macs
                 /\ i > e.last => ~e.devices[i].live /\ e.devices[i].mac = "none"
      <4>1. i <= e.last => i <= d.last \/ i = n
        BY <1>1, <2>4, IdsAre
      <4>2. i > e.last => i > d.last /\ i # n
        BY <1>1, <2>4, IdsAre
      <4>3. QED
        BY <2>2, <2>5, <4>1, <4>2, <1>1, IdsAre DEF Sound
    <3>2. \A i \in Ids : i # n /\ d.devices[i].live => d.devices[i].mac # p
      BY <1>4 DEF RowOf
    <3>3. \A i, j \in Ids : e.devices[i].live /\ e.devices[j].live
                              /\ e.devices[i].mac = e.devices[j].mac => i = j
      BY <2>2, <2>5, <3>2 DEF Sound
    <3>4. QED
      BY <2>4, <3>1, <3>3 DEF Sound
  <2>8. n \in RowOf(e, p)
    BY <2>1, <2>2, <2>5 DEF RowOf
  <2>9. QED
    BY <2>6, <2>7, <2>8 DEF e
<1>5. QED
  BY <1>3, <1>4

LEMMA Defaults == \A m \in Models \cup {NoModel} : Default(m) \in Statuses
BY DEF Default, Statuses, Unpromoted

LEMMA FreshSame ==
  ASSUME NEW d, NEW e, NEW p, Same(d, e), Fresh(d, p)
  PROVE  Fresh(e, p)
BY DEF Fresh, Same, Alike, RowOf

(* A phone is heard of: its model is made known and its row is written.    *)
LEMMA Discovered ==
  ASSUME NEW d, Sound(d), NEW p \in Macs, Fresh(d, p),
         NEW f, f = upsert_device(ensure_discovered_model(d, ModelOf(p)), p, ModelOf(p),
                                  Default(ModelOf(p)))
  PROVE  Sound(f) /\ Kept(d, f) /\ RowOf(f, p) # {}
<1> DEFINE e == ensure_discovered_model(d, ModelOf(p))
<1>1. ModelOf(p) \in Models
  BY InventoryAssumption
<1>2. Sound(e) /\ Same(d, e)
  BY <1>1, ModelEnsured
<1>3. Fresh(e, p)
  BY <1>2, FreshSame
<1> HIDE DEF e
<1>4. f = upsert_device(e, p, ModelOf(p), Default(ModelOf(p)))
  BY DEF e
<1>5. Sound(f) /\ Kept(e, f) /\ RowOf(f, p) # {}
  BY <1>1, <1>2, <1>3, <1>4, Upserts, Defaults
<1>6. QED
  BY <1>2, <1>5, SameThenKept

(* The rows but for one field of the row i.                                *)
Assigned(d, e, i, number) ==
  /\ e.last = d.last
  /\ \A k \in Ids : /\ k # i => Alike(d, e, k)
                    /\ e.devices[k].live = d.devices[k].live
                    /\ e.devices[k].mac = d.devices[k].mac
                    /\ e.devices[k].config = d.devices[k].config
  /\ i \in Ids => e.devices[i].accounts = number

Recorded(d, e, i, content) ==
  /\ e.last = d.last
  /\ \A k \in Ids : /\ k # i => Alike(d, e, k)
                    /\ e.devices[k].live = d.devices[k].live
                    /\ e.devices[k].mac = d.devices[k].mac
                    /\ e.devices[k].accounts = d.devices[k].accounts
  /\ i \in Ids => e.devices[i].config = content

Deleted(d, e, i) ==
  /\ e.last = d.last
  /\ \A k \in Ids : /\ k # i => Alike(d, e, k)
                    /\ e.devices[k].mac = d.devices[k].mac
  /\ i \in Ids => ~e.devices[i].live

LEMMA SavesAssignments ==
  ASSUME NEW d, Sound(d), NEW i \in Ids, NEW number \in Nat
  PROVE  /\ Sound(save_assignments(d, i, number))
         /\ Assigned(d, save_assignments(d, i, number), i, number)
<1> DEFINE e == save_assignments(d, i, number)
           x == [d.devices[i] EXCEPT !.accounts = number, !.status = "Ready for Configuration"]
<1>1. d \in Inventory /\ d.devices \in [Ids -> Device] /\ "Ready for Configuration" \in Statuses
  BY DEF Sound, Inventory, Statuses
<1>2. /\ x \in Device /\ x.live = d.devices[i].live /\ x.mac = d.devices[i].mac
      /\ x.accounts = number /\ x.config = d.devices[i].config
  BY <1>1 DEF Device
<1>3. e = [d EXCEPT !.devices = [d.devices EXCEPT ![i] = x]]
  BY <1>1 DEF save_assignments, Inventory, Device
<1> HIDE DEF x, e
<1>4. e \in Inventory /\ e.last = d.last /\ e.devices = [d.devices EXCEPT ![i] = x]
  BY <1>1, <1>2, <1>3 DEF Inventory
<1>5. e.devices[i] = x /\ \A k \in Ids : k # i => e.devices[k] = d.devices[k]
  BY <1>1, <1>4
<1>6. Assigned(d, e, i, number)
  BY <1>2, <1>4, <1>5 DEF Assigned, Alike
<1>7. Sound(e)
  BY <1>2, <1>4, <1>5 DEF Sound
<1>8. QED
  BY <1>6, <1>7 DEF e

LEMMA SavesConfig ==
  ASSUME NEW d, Sound(d), NEW i \in Ids, NEW content \in Int
  PROVE  /\ Sound(save_generated_config(d, i, content))
         /\ Recorded(d, save_generated_config(d, i, content), i, content)
<1> DEFINE e == save_generated_config(d, i, content)
           x == [d.devices[i] EXCEPT !.config = content, !.status = Touched]
<1>1. d \in Inventory /\ d.devices \in [Ids -> Device] /\ Touched \in Statuses
  BY DEF Sound, Inventory, Statuses
<1>2. /\ x \in Device /\ x.live = d.devices[i].live /\ x.mac = d.devices[i].mac
      /\ x.accounts = d.devices[i].accounts /\ x.config = content
  BY <1>1 DEF Device
<1>3. e = [d EXCEPT !.devices = [d.devices EXCEPT ![i] = x]]
  BY <1>1 DEF save_generated_config, Inventory, Device
<1> HIDE DEF x, e
<1>4. e \in Inventory /\ e.last = d.last /\ e.devices = [d.devices EXCEPT ![i] = x]
  BY <1>1, <1>2, <1>3 DEF Inventory
<1>5. e.devices[i] = x /\ \A k \in Ids : k # i => e.devices[k] = d.devices[k]
  BY <1>1, <1>4
<1>6. Recorded(d, e, i, content)
  BY <1>2, <1>4, <1>5 DEF Recorded, Alike
<1>7. Sound(e)
  BY <1>2, <1>4, <1>5 DEF Sound
<1>8. QED
  BY <1>6, <1>7 DEF e

LEMMA Deletes ==
  ASSUME NEW d, Sound(d), NEW i \in Ids
  PROVE  Sound(delete_device(d, i)) /\ Deleted(d, delete_device(d, i), i)
<1> DEFINE e == delete_device(d, i)
           x == [NoDevice EXCEPT !.mac = d.devices[i].mac]
<1>1. d \in Inventory /\ d.devices \in [Ids -> Device]
  BY DEF Sound, Inventory
<1>2. x \in Device /\ ~x.live /\ x.mac = d.devices[i].mac
  BY <1>1, BlankDevice DEF Device, NoDevice
<1>3. e = [d EXCEPT !.devices = [d.devices EXCEPT ![i] = x]]
  BY <1>1 DEF delete_device
<1> HIDE DEF x, e
<1>4. e \in Inventory /\ e.last = d.last /\ e.devices = [d.devices EXCEPT ![i] = x]
  BY <1>1, <1>2, <1>3 DEF Inventory
<1>5. e.devices[i] = x /\ \A k \in Ids : k # i => e.devices[k] = d.devices[k]
  BY <1>1, <1>4
<1>6. Deleted(d, e, i)
  BY <1>2, <1>4, <1>5 DEF Deleted, Alike
<1>7. Sound(e)
  BY <1>2, <1>4, <1>5 DEF Sound
<1>8. QED
  BY <1>6, <1>7 DEF e

-----------------------------------------------------------------------------
(* Types.                                                                  *)

Ops == [type : {"none", "notify", "refresh", "reboot"}, id : Ids \cup {0},
        status : {"none", "Running", "Failed"}, overdue : BOOLEAN]

Kinds == {"idle", "notify", "refresh", "reboot", "delete", "add", "newscan", "scan"}
OnPhone == {"notify", "refresh", "reboot", "delete"}

Pcs == {"idle", "check", "create", "prepare", "publish", "record", "send", "observe",
        "registers", "registered", "probe", "request", "watch", "row", "insert", "host",
        "found", "raised", "read", "mark", "complete", "fail"}

Todos == Seq(Ids) \cup Seq(Macs) \cup (Macs \X (Models \cup {NoModel}))

Thread == [kind : Kinds, pc : Pcs, todo : Todos, op : OpIds \cup {0},
           baseline : BOOLEAN, content : Int, assigned : BOOLEAN, accepted : BOOLEAN,
           job : Jobs, row : Ids \cup {0}, mac : Macs \cup {"none"}]

(* What a thread carries along for what it is doing.                       *)
Equipped(r) ==
  /\ r \in Thread
  /\ r.kind \in OnPhone => r.todo \in Seq(Ids) /\ r.todo # <<>>
  /\ r.kind = "scan" => r.todo \in Seq(Macs) /\ (r.pc \in {"found", "read", "mark"} => r.todo # <<>>)
  /\ r.kind = "add" => r.todo \in Macs \X (Models \cup {NoModel})

(* The points where a thread has an operation, and where it has a file.    *)
Operating(r) ==
  \/ r.kind = "notify" /\ r.pc \in {"prepare", "publish", "record", "send", "observe",
                                    "registers", "registered"}
  \/ r.kind = "refresh" /\ r.pc \in {"probe", "registers"}
  \/ r.kind = "reboot" /\ r.pc \in {"request", "watch"}

Filing(r) ==
  \/ r.kind = "notify" /\ r.pc \in {"publish", "record", "send", "observe", "registers",
                                    "registered"}
  \/ r.kind = "delete" /\ r.pc = "row"

(* The phone a thread works on has a row, with the MAC that it works with. *)
Placed(r, d) ==
  /\ Operating(r) <=> r.op # 0
  /\ Filing(r) <=> r.mac # "none"
  /\ Operating(r) \/ Filing(r) => Head(r.todo) <= d.last
  /\ Filing(r) => r.mac = d.devices[Head(r.todo)].mac

Fit(r, d) == Equipped(r) /\ Placed(r, d)

Waiting(r) ==
  Equipped(r) /\ r.kind \in {"notify", "scan"} /\ r.pc = "idle" /\ r.op = 0 /\ r.mac = "none"

TypeInv ==
  /\ Sound(db) /\ edition \in Nat
  /\ files \in [Macs -> Int]
  /\ ops \in [OpIds -> Ops]
  /\ run \in [Threads -> Thread] /\ \A t \in Threads : Fit(run[t], db)
  /\ queue \in Seq({r \in Thread : Waiting(r)})

(* Placed is stable while rows are added and changed.                      *)
Evolves(d, e) ==
  /\ d.last <= e.last
  /\ \A i \in Ids : i <= d.last =>
       e.devices[i].mac = d.devices[i].mac /\ (e.devices[i].live => d.devices[i].live)

LEMMA Evolution ==
  ASSUME NEW d, Sound(d), NEW e, Sound(e), NEW i, NEW x,
         Kept(d, e) \/ Assigned(d, e, i, x) \/ Recorded(d, e, i, x) \/ Deleted(d, e, i)
  PROVE  Evolves(d, e)
<1>1. d.last \in Int /\ e.last \in Int
  BY DEF Sound, Inventory
<1>2. CASE Kept(d, e)
  BY <1>1, <1>2 DEF Kept, Alike, Evolves
<1>3. CASE Assigned(d, e, i, x)
  BY <1>1, <1>3 DEF Assigned, Evolves
<1>4. CASE Recorded(d, e, i, x)
  BY <1>1, <1>4 DEF Recorded, Evolves
<1>5. CASE Deleted(d, e, i)
  BY <1>1, <1>5 DEF Deleted, Alike, Evolves
<1>6. QED
  BY <1>2, <1>3, <1>4, <1>5

LEMMA HeadIn ==
  ASSUME NEW S, NEW s \in Seq(S), s # <<>>
  PROVE  Head(s) \in S /\ Tail(s) \in Seq(S) /\ Len(s) \in Nat /\ Len(s) > 0
OBVIOUS

LEMMA FitStays ==
  ASSUME NEW d, NEW e, Sound(d), Sound(e), Evolves(d, e), NEW r, Fit(r, d)
  PROVE  Fit(r, e)
<1>1. d.last \in Int /\ e.last \in Int
  BY DEF Sound, Inventory
<1>2. r.kind \in OnPhone => Head(r.todo) \in Ids
  BY HeadIn DEF Fit, Equipped
<1>3. Operating(r) \/ Filing(r) => r.kind \in OnPhone
  BY DEF Operating, Filing, OnPhone
<1>4. Head(r.todo) \in Ids => Head(r.todo) \in Int
  BY IdsAre
<1>5. QED
  BY <1>1, <1>2, <1>3, <1>4 DEF Fit, Placed, Evolves

-----------------------------------------------------------------------------
(* Who works on a phone.                                                   *)

(* From the claim of its operation to the sending, a notify is alone: what *)
(* makes an operation overdue is a wait for a download only.               *)
Early(r) == r.kind = "notify" /\ r.pc \in {"prepare", "publish", "record", "send"}

OwnOps == \A t, u \in Threads : t # u /\ run[t].op # 0 => run[u].op # run[t].op

HoldsOn(t) ==
  LET o == run[t].op IN
  /\ ops[o].status = "Running" /\ ops[o].type = "notify" /\ ~ops[o].overdue
  /\ ops[o].id \in {0, Dev(t)}
  /\ ops[o].id = 0 => ~Live(db, Dev(t))

HeldInv ==
  /\ OneOperationAtATime /\ OwnOps
  /\ \A t \in Threads : Early(run[t]) => HoldsOn(t)

-----------------------------------------------------------------------------
(* What is in the directory.                                               *)

Publishing(r)  == r.kind = "notify" /\ r.pc = "publish"
Recording(r)   == r.kind = "notify" /\ r.pc = "record"
Withdrawing(r) == r.kind = "delete" /\ r.pc = "row"

(* A phone that has been in the inventory from its first row on.           *)
Here(d, i) ==
  /\ d.devices[i].live
  /\ \A k \in Ids : d.devices[k].mac = d.devices[i].mac => d.devices[k].live

(* No file says more than the row of its phone, and neither do the file a  *)
(* notify is about to publish and the one a deletion may put back.         *)
FileInv ==
  /\ \A i \in Ids : db.devices[i].live => db.devices[i].accounts <= edition
  /\ \A q \in Macs : files[q] # NoFile => \E i \in Ids : db.devices[i].mac = q
  /\ \A i \in Ids : Here(db, i) => files[db.devices[i].mac] <= db.devices[i].accounts
  /\ \A t \in Threads : Publishing(run[t]) \/ Recording(run[t]) =>
       run[t].content >= 0 /\ (run[t].baseline => run[t].content = 0)
  /\ \A t \in Threads : Publishing(run[t]) /\ Here(db, Dev(t)) =>
       /\ run[t].content <= db.devices[Dev(t)].accounts
       /\ run[t].baseline \/ files[run[t].mac] <= run[t].content
  /\ \A t \in Threads : Withdrawing(run[t]) /\ Here(db, Dev(t)) =>
       /\ run[t].content <= db.devices[Dev(t)].accounts
       /\ \A u \in Threads : Publishing(run[u]) /\ Dev(u) = Dev(t) =>
            run[u].baseline \/ run[t].content <= run[u].content

(* c is in the directory, or in the hands of a deletion.                   *)
Available(i, c) ==
  \/ files[db.devices[i].mac] = c
  \/ /\ files[db.devices[i].mac] = NoFile
     /\ \E t \in Threads : Withdrawing(run[t]) /\ Dev(t) = i /\ run[t].content = c

RecordInv ==
  \A i \in Ids : Here(db, i) /\ db.devices[i].mac \notin apart =>
    /\ (/\ db.devices[i].config # NoFile
        /\ \A t \in Threads : ~(Recording(run[t]) /\ Dev(t) = i)) => Available(i, db.devices[i].config)
    /\ \A t \in Threads : Recording(run[t]) /\ Dev(t) = i => Available(i, run[t].content)

-----------------------------------------------------------------------------
(* The ordinary steps: they write no file, and of the threads they move    *)
(* none to a point where it holds a file or works alone.                   *)

Away(s) == Equipped(s) /\ ~Operating(s) /\ ~Filing(s) /\ s.op = 0 /\ s.mac = "none"

Onward(r, s) ==
  /\ Equipped(s) /\ Operating(r) /\ Operating(s) /\ ~Early(s)
  /\ Filing(r) <=> Filing(s)
  /\ s.op = r.op /\ s.mac = r.mac /\ s.todo = r.todo

Rests(r, s) == s = r \/ Away(s) \/ Onward(r, s)

(* What is half done is not let go of, unless its phone is gone, or the     *)
(* phone is one of those whose file and record may differ.                 *)
Steady(t) ==
  Withdrawing(run[t]) \/ Recording(run[t]) =>
    run'[t] = run[t] \/ ~Live(db', Dev(t)) \/ run[t].mac \in apart'

Finishes ==
  \E t \in Threads : /\ run[t].op # 0 /\ Away(run'[t])
                     /\ ops' = [ops EXCEPT ![run[t].op] = NoOp]

GrowsOld ==
  \E o \in OpIds : /\ \A t \in Holds(o) : run[t].pc = "observe"
                   /\ ops' = [ops EXCEPT ![o].overdue = TRUE]

Ordinary ==
  /\ Sound(db') /\ Kept(db, db')
  /\ run' \in [Threads -> Thread] /\ \A t \in Threads : Rests(run[t], run'[t])
  /\ queue' \in Seq({r \in Thread : Waiting(r)})
  /\ ops' = ops \/ Finishes \/ GrowsOld
  /\ UNCHANGED <<files, edition>>
  /\ apart \subseteq apart' /\ \A t \in Threads : Steady(t)

LEMMA KeptSelf == ASSUME NEW d, Sound(d) PROVE Kept(d, d)
<1>1. d \in Inventory /\ Same(d, d)
  BY DEF Sound, Same, Alike
<1>2. QED
  BY <1>1, SameKept

LEMMA IdleAway == Away(Idle) /\ Idle \in Thread
<1>1. Idle.job \in Jobs
  BY PoolsAssumption DEF Idle
<1>2. <<>> \in Todos /\ "idle" \in Kinds /\ "idle" \in Pcs
  <2>1. <<>> \in Seq(Ids)
    OBVIOUS
  <2>2. QED
    BY <2>1 DEF Todos, Kinds, Pcs
<1>3. NoFile \in Int /\ 0 \in OpIds \cup {0} /\ 0 \in Ids \cup {0} /\ "none" \in Macs \cup {"none"}
  BY DEF NoFile
<1>4. Idle \in Thread
  BY <1>1, <1>2, <1>3 DEF Idle, Thread
<1>5. QED
  BY <1>4 DEF Idle, Away, Equipped, Operating, Filing, OnPhone

LEMMA TailOf ==
  ASSUME NEW S, NEW s \in Seq(S), Len(s) > 1
  PROVE  Tail(s) \in Seq(S) /\ Tail(s) # <<>>
<1>1. Tail(s) \in Seq(S) /\ Len(Tail(s)) = Len(s) - 1 /\ Len(s) \in Nat
  OBVIOUS
<1>2. Len(Tail(s)) # 0
  BY <1>1
<1>3. Len(<<>>) = 0
  OBVIOUS
<1>4. QED
  BY <1>1, <1>2, <1>3

LEMMA NextAway ==
  ASSUME NEW r, Equipped(r), r.kind \in OnPhone
  PROVE  Away(NextPhone(r)) /\ NextPhone(r) \in Thread
<1>1. CASE Len(r.todo) > 1
  <2> DEFINE s == [Idle EXCEPT !.kind = r.kind, !.pc = "check", !.todo = Tail(r.todo)]
  <2>1. r.todo \in Seq(Ids) /\ r.todo # <<>> /\ r.kind \in Kinds
    BY DEF Equipped, OnPhone, Kinds
  <2>2. Tail(r.todo) \in Seq(Ids) /\ Tail(r.todo) # <<>> /\ Tail(r.todo) \in Todos
    BY <1>1, <2>1, TailOf DEF Todos
  <2>3. /\ s \in Thread /\ s.kind = r.kind /\ s.pc = "check" /\ s.todo = Tail(r.todo)
        /\ s.op = 0 /\ s.mac = "none"
    <3>1. Idle \in Thread /\ Idle.op = 0 /\ Idle.mac = "none" /\ "check" \in Pcs
      BY IdleAway DEF Away, Pcs
    <3>2. QED
      BY <2>1, <2>2, <3>1 DEF Thread
  <2>4. NextPhone(r) = s
    BY <1>1 DEF NextPhone
  <2> HIDE DEF s
  <2>5. Away(s)
    BY <2>2, <2>3 DEF Away, Equipped, Operating, Filing, OnPhone
  <2>6. QED
    BY <2>3, <2>4, <2>5
<1>2. CASE ~(Len(r.todo) > 1)
  BY <1>2, IdleAway DEF NextPhone
<1>3. QED
  BY <1>1, <1>2

LEMMA OneThread ==
  ASSUME NEW R \in [Threads -> Thread], NEW t \in Threads, NEW s \in Thread, Rests(R[t], s)
  PROVE  /\ [R EXCEPT ![t] = s] \in [Threads -> Thread] /\ [R EXCEPT ![t] = s][t] = s
         /\ \A u \in Threads : Rests(R[u], [R EXCEPT ![t] = s][u])
BY DEF Rests

LEMMA OverRests ==
  ASSUME TypeInv, NEW t \in Threads, run[t].kind \in OnPhone, Over(t)
  PROVE  /\ run' \in [Threads -> Thread] /\ \A u \in Threads : Rests(run[u], run'[u])
         /\ Away(run'[t])
<1>1. Equipped(run[t])
  BY DEF TypeInv, Fit
<1>2. Away(NextPhone(run[t])) /\ NextPhone(run[t]) \in Thread
  BY <1>1, NextAway
<1>3. Rests(run[t], NextPhone(run[t]))
  BY <1>2 DEF Rests
<1>4. QED
  BY <1>2, <1>3, OneThread DEF Over, TypeInv

LEMMA DropRests ==
  ASSUME TypeInv, NEW t \in Threads, run' = [run EXCEPT ![t] = Idle]
  PROVE  run' \in [Threads -> Thread] /\ \A u \in Threads : Rests(run[u], run'[u])
<1>1. Rests(run[t], Idle)
  BY IdleAway DEF Rests
<1>2. QED
  BY <1>1, IdleAway, OneThread DEF TypeInv

LEMMA TouchedIs == Touched \in Statuses /\ "Model Defined" \in Statuses
BY DEF Statuses, Unpromoted

LEMMA Ending ==
  ASSUME TypeInv, NEW t \in Threads, Operating(run[t]), NEW status, NEW said,
         ~Recording(run[t]) \/ ~Live(db, Dev(t)) \/ run[t].mac \in apart',
         Ends(t, status, said), apart \subseteq apart', UNCHANGED <<files, queue, edition>>
  PROVE  Ordinary
<1>1. Fit(run[t], db) /\ run[t].op # 0 /\ run[t].kind \in OnPhone
  BY DEF TypeInv, Fit, Placed, Operating, OnPhone
<1>2. /\ run' \in [Threads -> Thread] /\ \A u \in Threads : Rests(run[u], run'[u])
      /\ Away(run'[t])
  BY <1>1, OverRests DEF Ends
<1>3. Sound(db') /\ Kept(db, db') /\ (Live(db', Dev(t)) => Live(db, Dev(t)))
  <2>1. CASE db' = db
    BY <2>1, KeptSelf DEF TypeInv
  <2>2. CASE db' = update_device_status(db, Dev(t), Touched)
    <3>1. Sound(db') /\ Kept(db, db') /\ Same(db, db')
      BY <2>2, TouchedIs, StatusSet DEF TypeInv
    <3>2. QED
      BY <3>1 DEF Same, Alike, Live
  <2>3. QED
    BY <2>1, <2>2 DEF Ends
<1>4. Finishes
  BY <1>1, <1>2 DEF Finishes, Ends
<1>5. ASSUME NEW u \in Threads
      PROVE  Steady(u)
  <2>1. u # t => run'[u] = run[u]
    BY DEF Ends, Over, TypeInv
  <2>2. ~Withdrawing(run[t])
    BY DEF Withdrawing, Operating
  <2>3. QED
    BY <1>3, <2>1, <2>2 DEF Steady
<1>6. QED
  BY <1>2, <1>3, <1>4, <1>5 DEF Ordinary, TypeInv

LEMMA OrdinaryTypes ==
  ASSUME TypeInv, Ordinary
  PROVE  TypeInv'
<1>1. Sound(db') /\ Evolves(db, db')
  BY Evolution DEF TypeInv, Ordinary
<1>2. ASSUME NEW t \in Threads
      PROVE  Fit(run'[t], db')
  <2>1. Fit(run[t], db)
    BY DEF TypeInv
  <2>2. CASE run'[t] = run[t]
    BY <1>1, <2>1, <2>2, FitStays DEF TypeInv
  <2>3. CASE Away(run'[t])
    BY <2>3 DEF Away, Fit, Placed
  <2>4. CASE Onward(run[t], run'[t])
    <3>1. Fit(run'[t], db)
      BY <2>1, <2>4 DEF Onward, Fit, Placed
    <3>2. QED
      BY <1>1, <3>1, FitStays DEF TypeInv
  <2>5. QED
    BY <2>2, <2>3, <2>4 DEF Ordinary, Rests
<1>3. ops' \in [OpIds -> Ops]
  <2>1. ops \in [OpIds -> Ops] /\ NoOp \in Ops
    BY DEF TypeInv, Ops, NoOp
  <2>2. CASE Finishes
    BY <2>1, <2>2 DEF Finishes
  <2>3. CASE GrowsOld
    <3>1. PICK o \in OpIds : ops' = [ops EXCEPT ![o].overdue = TRUE]
      BY <2>3 DEF GrowsOld
    <3>2. [ops[o] EXCEPT !.overdue = TRUE] \in Ops
      BY <2>1 DEF Ops
    <3>3. QED
      BY <2>1, <3>1, <3>2
  <2>4. QED
    BY <2>1, <2>2, <2>3 DEF Ordinary
<1>4. QED
  BY <1>1, <1>2, <1>3 DEF TypeInv, Ordinary

LEMMA KeptRow ==
  ASSUME NEW d, NEW e, Kept(d, e), NEW i \in Ids, i <= d.last
  PROVE  /\ Live(e, i) <=> Live(d, i)
         /\ e.devices[i].mac = d.devices[i].mac
         /\ e.devices[i].accounts = d.devices[i].accounts
         /\ e.devices[i].config = d.devices[i].config
BY DEF Kept, Alike, Live

LEMMA DevIs ==
  ASSUME TypeInv, NEW t \in Threads, Operating(run[t]) \/ Filing(run[t])
  PROVE  Dev(t) \in Ids /\ Dev(t) <= db.last
<1>1. Fit(run[t], db) /\ run[t].kind \in OnPhone
  BY DEF TypeInv, Operating, Filing, OnPhone
<1>2. QED
  BY <1>1, HeadIn DEF Fit, Equipped, Placed, Dev

LEMMA EarlyIs ==
  ASSUME NEW r
  PROVE  /\ Early(r) => Operating(r)
         /\ Publishing(r) \/ Recording(r) => Early(r) /\ Filing(r)
         /\ Withdrawing(r) => Filing(r) /\ ~Operating(r)
BY DEF Early, Operating, Publishing, Recording, Withdrawing, Filing

LEMMA Resting ==
  ASSUME NEW r, NEW s, Rests(r, s), Early(s) \/ Withdrawing(s)
  PROVE  s = r
BY EarlyIs DEF Rests, Away, Onward

LEMMA OrdinaryHeld ==
  ASSUME TypeInv, HeldInv, Ordinary
  PROVE  HeldInv'
<1>1. ops \in [OpIds -> Ops]
  BY DEF TypeInv
<1>2. ASSUME NEW o \in OpIds, ops'[o].status = "Running"
      PROVE  /\ ops[o].status = "Running" /\ ops'[o].id = ops[o].id /\ ops'[o].type = ops[o].type
  <2>1. CASE Finishes
    BY <1>1, <1>2, <2>1 DEF Finishes, NoOp
  <2>2. CASE GrowsOld
    BY <1>1, <1>2, <2>2 DEF GrowsOld, Ops
  <2>3. QED
    BY <1>2, <2>1, <2>2 DEF Ordinary
<1>3. OneOperationAtATime'
  BY <1>2 DEF HeldInv, OneOperationAtATime, Running
<1>4. \A t \in Threads : run'[t].op \in {run[t].op, 0}
  BY DEF Ordinary, Rests, Away, Onward
<1>5. OwnOps'
  BY <1>4 DEF HeldInv, OwnOps
<1>6. ASSUME NEW t \in Threads, Early(run'[t])
      PROVE  HoldsOn(t)'
  <2>1. run'[t] = run[t] /\ Early(run[t]) /\ Operating(run[t])
    BY <1>6, Resting, EarlyIs DEF Ordinary
  <2>2. HoldsOn(t)
    BY <2>1 DEF HeldInv
  <2>3. run[t].op \in OpIds /\ run[t].op # 0
    BY <2>1 DEF TypeInv, Fit, Placed, Thread
  <2>4. ops'[run[t].op] = ops[run[t].op]
    <3>1. CASE Finishes
      <4>1. PICK u \in Threads : /\ run[u].op # 0 /\ Away(run'[u])
                                 /\ ops' = [ops EXCEPT ![run[u].op] = NoOp]
        BY <3>1 DEF Finishes
      <4>2. u # t
        BY <2>1, <4>1 DEF Away
      <4>3. run[u].op # run[t].op
        BY <4>1, <4>2 DEF HeldInv, OwnOps
      <4>4. QED
        BY <1>1, <2>3, <4>1, <4>3
    <3>2. CASE GrowsOld
      <4>1. PICK o \in OpIds : /\ \A u \in Holds(o) : run[u].pc = "observe"
                               /\ ops' = [ops EXCEPT ![o].overdue = TRUE]
        BY <3>2 DEF GrowsOld
      <4>2. o # run[t].op
        BY <2>1, <4>1 DEF Holds, Early
      <4>3. QED
        BY <1>1, <2>3, <4>1, <4>2
    <3>3. QED
      BY <3>1, <3>2 DEF Ordinary
  <2>5. Live(db', Dev(t)) <=> Live(db, Dev(t))
    BY <2>1, DevIs, KeptRow DEF Ordinary
  <2>6. QED
    BY <2>1, <2>2, <2>4, <2>5 DEF HoldsOn, Dev
<1>7. QED
  BY <1>3, <1>5, <1>6 DEF HeldInv

LEMMA HereBack ==
  ASSUME NEW d, NEW e, Sound(d), Sound(e), Evolves(d, e), NEW i \in Ids, i <= d.last, Here(e, i)
  PROVE  Here(d, i)
<1>1. d.last \in Int /\ e.last \in Int /\ i \in Int
  BY IdsAre DEF Sound, Inventory
<1>2. d.devices[i].live /\ d.devices[i].mac \in Macs /\ e.devices[i].mac = d.devices[i].mac
  BY DEF Sound, Evolves, Here
<1>3. ASSUME NEW k \in Ids, d.devices[k].mac = d.devices[i].mac
      PROVE  d.devices[k].live
  <2>1. k <= d.last
    BY <1>1, <1>2, <1>3, IdsAre, NoMacAssumption DEF Sound
  <2>2. e.devices[k].mac = d.devices[k].mac /\ (e.devices[k].live => d.devices[k].live)
    BY <2>1 DEF Evolves
  <2>3. QED
    BY <1>2, <1>3, <2>2 DEF Here
<1>4. QED
  BY <1>2, <1>3 DEF Here

LEMMA HereNew ==
  ASSUME NEW d, NEW e, Sound(d), Sound(e), Kept(d, e), NEW i \in Ids, ~(i <= d.last), Here(e, i)
  PROVE  /\ i <= e.last /\ e.devices[i].accounts = 0 /\ e.devices[i].config = NoFile
         /\ e.devices[i].mac \in Macs
         /\ \A k \in Ids : d.devices[k].mac # e.devices[i].mac
<1>1. d.last \in Int /\ e.last \in Int /\ i \in Int
  BY IdsAre DEF Sound, Inventory
<1>2. i <= e.last
  BY <1>1 DEF Sound, Here
<1>3. /\ e.devices[i].accounts = 0 /\ e.devices[i].config = NoFile
      /\ RowOf(d, e.devices[i].mac) = {} /\ e.devices[i].mac \in Macs
  BY <1>1, <1>2 DEF Kept, Sound
<1>4. ASSUME NEW k \in Ids, d.devices[k].mac = e.devices[i].mac
      PROVE  FALSE
  <2>1. k <= d.last
    BY <1>1, <1>3, <1>4, IdsAre, NoMacAssumption DEF Sound
  <2>2. Live(e, k) <=> Live(d, k)
    BY <2>1, KeptRow
  <2>3. e.devices[k].mac = e.devices[i].mac
    BY <1>4, <2>1, KeptRow
  <2>4. k \in RowOf(d, e.devices[i].mac)
    BY <1>4, <2>2, <2>3 DEF Here, Live, RowOf
  <2>5. QED
    BY <1>3, <2>4
<1>5. QED
  BY <1>2, <1>3, <1>4

LEMMA OrdinaryFiles ==
  ASSUME TypeInv, FileInv, Ordinary
  PROVE  FileInv'
<1>1. /\ Sound(db) /\ Sound(db') /\ Kept(db, db') /\ Evolves(db, db')
      /\ files' = files /\ edition' = edition /\ edition \in Nat
  BY Evolution DEF TypeInv, Ordinary
<1>2. db.last \in Int /\ db'.last \in Int
  BY <1>1 DEF Sound, Inventory
<1>3. ASSUME NEW i \in Ids, db'.devices[i].live
      PROVE  db'.devices[i].accounts <= edition'
  <2>1. CASE i <= db.last
    BY <1>1, <1>3, <2>1, KeptRow DEF FileInv, Live
  <2>2. CASE ~(i <= db.last)
    BY <1>1, <1>2, <1>3, <2>2, IdsAre DEF Kept, Sound
  <2>3. QED
    BY <2>1, <2>2
<1>4. ASSUME NEW q \in Macs, files'[q] # NoFile
      PROVE  \E i \in Ids : db'.devices[i].mac = q
  <2>1. PICK i \in Ids : db.devices[i].mac = q
    BY <1>1, <1>4 DEF FileInv
  <2>2. i <= db.last
    BY <1>1, <1>2, <2>1, IdsAre, NoMacAssumption DEF Sound
  <2>3. QED
    BY <1>1, <2>1, <2>2, KeptRow
<1>5. ASSUME NEW i \in Ids, Here(db', i)
      PROVE  files'[db'.devices[i].mac] <= db'.devices[i].accounts
  <2>1. CASE i <= db.last
    <3>1. Here(db, i)
      BY <1>1, <1>5, <2>1, HereBack
    <3>2. QED
      BY <1>1, <2>1, <3>1, KeptRow DEF FileInv
  <2>2. CASE ~(i <= db.last)
    <3>1. /\ db'.devices[i].accounts = 0 /\ db'.devices[i].mac \in Macs
          /\ \A k \in Ids : db.devices[k].mac # db'.devices[i].mac
      BY <1>1, <1>5, <2>2, HereNew
    <3>2. files[db'.devices[i].mac] = NoFile
      BY <3>1 DEF FileInv
    <3>3. QED
      BY <1>1, <3>1, <3>2 DEF NoFile
  <2>3. QED
    BY <2>1, <2>2
<1>6. ASSUME NEW t \in Threads, Early(run'[t]) \/ Withdrawing(run'[t])
      PROVE  run'[t] = run[t]
  BY <1>6, Resting DEF Ordinary
<1>7. ASSUME NEW t \in Threads, Filing(run[t])
      PROVE  /\ Dev(t) \in Ids /\ Dev(t) <= db.last
             /\ Here(db', Dev(t)) => Here(db, Dev(t))
             /\ db'.devices[Dev(t)].accounts = db.devices[Dev(t)].accounts
  BY <1>1, <1>7, DevIs, HereBack, KeptRow
<1>8. ASSUME NEW t \in Threads, Publishing(run'[t]) \/ Recording(run'[t])
      PROVE  run'[t].content >= 0 /\ (run'[t].baseline => run'[t].content = 0)
  <2>1. run'[t] = run[t]
    BY <1>6, <1>8, EarlyIs
  <2>2. QED
    BY <1>8, <2>1 DEF FileInv
<1>9. ASSUME NEW t \in Threads, Publishing(run'[t]), Here(db', Head(run'[t].todo))
      PROVE  /\ run'[t].content <= db'.devices[Head(run'[t].todo)].accounts
             /\ run'[t].baseline \/ files'[run'[t].mac] <= run'[t].content
  <2>1. run'[t] = run[t] /\ Filing(run[t]) /\ Publishing(run[t])
    BY <1>6, <1>9, EarlyIs
  <2>2. Here(db, Dev(t))
    BY <1>7, <1>9, <2>1 DEF Dev
  <2>3. QED
    BY <1>1, <1>7, <2>1, <2>2 DEF FileInv, Dev
<1>10. ASSUME NEW t \in Threads, Withdrawing(run'[t]), Here(db', Head(run'[t].todo))
       PROVE  /\ run'[t].content <= db'.devices[Head(run'[t].todo)].accounts
              /\ \A u \in Threads :
                   Publishing(run'[u]) /\ Head(run'[u].todo) = Head(run'[t].todo) =>
                     run'[u].baseline \/ run'[t].content <= run'[u].content
  <2>1. run'[t] = run[t] /\ Filing(run[t]) /\ Withdrawing(run[t])
    BY <1>6, <1>10, EarlyIs
  <2>2. Here(db, Dev(t))
    BY <1>7, <1>10, <2>1 DEF Dev
  <2>3. \A u \in Threads : Publishing(run'[u]) => run'[u] = run[u]
    BY <1>6, EarlyIs
  <2>4. QED
    BY <1>7, <2>1, <2>2, <2>3 DEF FileInv, Dev
<1>11. QED
  BY <1>3, <1>4, <1>5, <1>8, <1>9, <1>10 DEF FileInv, Dev

LEMMA OrdinaryRecords ==
  ASSUME TypeInv, RecordInv, Ordinary
  PROVE  RecordInv'
<1>1. /\ Sound(db) /\ Sound(db') /\ Kept(db, db') /\ Evolves(db, db') /\ files' = files
  BY Evolution DEF TypeInv, Ordinary
<1>2. SUFFICES ASSUME NEW i \in Ids, Here(db', i), db'.devices[i].mac \notin apart'
               PROVE  /\ (/\ db'.devices[i].config # NoFile
                          /\ \A t \in Threads :
                               ~(Recording(run'[t]) /\ Head(run'[t].todo) = i)) =>
                           Available(i, db.devices[i].config)'
                      /\ \A t \in Threads : Recording(run'[t]) /\ Head(run'[t].todo) = i =>
                           Available(i, run[t].content)'
  BY DEF RecordInv, Dev
<1>3. apart \subseteq apart' /\ \A t \in Threads : Steady(t)
  BY DEF Ordinary
<1>4. ASSUME NEW t \in Threads, Recording(run'[t])
      PROVE  run'[t] = run[t]
  BY <1>4, Resting, EarlyIs DEF Ordinary
<1>5. ASSUME ~(i <= db.last)
      PROVE  /\ db'.devices[i].config = NoFile
             /\ \A t \in Threads : Recording(run'[t]) => Head(run'[t].todo) # i
  <2>1. \A t \in Threads : Recording(run'[t]) => Head(run'[t].todo) <= db.last
    BY <1>4, DevIs, EarlyIs DEF Dev
  <2>2. QED
    BY <1>1, <1>2, <1>5, <2>1, HereNew
<1>6. CASE i <= db.last
  <2>1. /\ Here(db, i) /\ Live(db', i) /\ db'.devices[i].mac = db.devices[i].mac
        /\ db'.devices[i].config = db.devices[i].config
        /\ db.devices[i].mac \notin apart
    BY <1>1, <1>2, <1>3, <1>6, HereBack, KeptRow DEF Here, Live
  <2> \A t \in Threads : Filing(run[t]) /\ Dev(t) = i => run[t].mac \notin apart'
    BY <1>2, <2>1 DEF TypeInv, Fit, Placed, Dev
  <2>0. \A t \in Threads :
          (Withdrawing(run[t]) \/ Recording(run[t])) /\ Dev(t) = i => run'[t] = run[t]
    BY <1>3, <2>1, EarlyIs DEF Steady
  <2>2. ASSUME NEW c, Available(i, c)
        PROVE  \/ files'[db'.devices[i].mac] = c
               \/ /\ files'[db'.devices[i].mac] = NoFile
                  /\ \E t \in Threads : /\ Withdrawing(run'[t]) /\ Head(run'[t].todo) = i
                                        /\ run'[t].content = c
    BY <1>1, <2>0, <2>1, <2>2 DEF Available, Dev
  <2>3. ASSUME NEW t \in Threads, Recording(run'[t]), Head(run'[t].todo) = i
        PROVE  Available(i, run[t].content)'
    <3>1. Recording(run[t]) /\ Dev(t) = i /\ run'[t] = run[t]
      BY <1>4, <2>3 DEF Dev
    <3>2. Available(i, run[t].content)
      BY <2>1, <3>1 DEF RecordInv
    <3>3. QED
      BY <2>2, <3>1, <3>2 DEF Available, Dev
  <2>4. ASSUME db'.devices[i].config # NoFile,
               \A t \in Threads : ~(Recording(run'[t]) /\ Head(run'[t].todo) = i)
        PROVE  Available(i, db.devices[i].config)'
    <3>1. \A t \in Threads : ~(Recording(run[t]) /\ Dev(t) = i)
      BY <2>0, <2>4 DEF Dev
    <3>2. Available(i, db.devices[i].config)
      BY <2>1, <2>4, <3>1 DEF RecordInv
    <3>3. QED
      BY <2>1, <2>2, <3>2 DEF Available, Dev
  <2>5. QED
    BY <2>3, <2>4
<1>7. QED
  BY <1>5, <1>6

-----------------------------------------------------------------------------
(* Most steps are ordinary.                                                *)

Waitings == {r \in Thread : Waiting(r)}

LEMMA OneMoves ==
  ASSUME TypeInv, NEW t \in Threads, NEW s \in Thread, Rests(run[t], s),
         ~Withdrawing(run[t]), ~Recording(run[t]) \/ run[t].mac \in apart',
         run' = [run EXCEPT ![t] = s],
         Sound(db'), Kept(db, db'), queue' \in Seq(Waitings),
         apart \subseteq apart', UNCHANGED <<files, ops, edition>>
  PROVE  Ordinary
<1>1. run \in [Threads -> Thread]
  BY DEF TypeInv
<1>2. run' \in [Threads -> Thread] /\ \A u \in Threads : Rests(run[u], run'[u])
  BY <1>1, OneThread
<1>3. \A u \in Threads : Steady(u)
  BY <1>1 DEF Steady
<1>4. QED
  BY <1>2, <1>3 DEF Ordinary, Waitings

LEMMA NobodyMoves ==
  ASSUME TypeInv, Sound(db'), Kept(db, db'), queue' \in Seq(Waitings),
         UNCHANGED <<run, files, ops, edition, apart>>
  PROVE  Ordinary
BY DEF TypeInv, Ordinary, Rests, Steady, Waitings

LEMMA Unmoved ==
  ASSUME TypeInv
  PROVE  Sound(db) /\ Kept(db, db) /\ queue \in Seq(Waitings)
BY KeptSelf DEF TypeInv, Waitings

LEMMA Turning ==
  ASSUME NEW r, NEW s \in Thread, Equipped(r), s.kind = r.kind, s.todo = r.todo, s.op = r.op,
         s.mac = r.mac,
         \/ /\ r.kind = "notify" /\ r.pc \in {"send", "observe"}
            /\ s.pc \in {"observe", "registers", "registered"}
         \/ r.kind = "refresh" /\ r.pc = "probe" /\ s.pc = "registers"
         \/ r.kind = "reboot" /\ r.pc = "request" /\ s.pc = "watch"
  PROVE  Onward(r, s)
BY DEF Onward, Equipped, Operating, Early, Filing, OnPhone

LEMMA Roaming ==
  ASSUME NEW r, NEW s \in Thread, NEW d, Fit(r, d), s.kind = r.kind,
         r.kind \in {"scan", "add", "newscan"}, s.op = r.op, s.mac = r.mac,
         r.kind = "add" => s.todo = r.todo,
         r.kind = "scan" =>
           s.todo \in Seq(Macs) /\ (s.pc \in {"found", "read", "mark"} => s.todo # <<>>)
  PROVE  Away(s)
BY DEF Away, Fit, Equipped, Placed, Operating, Filing, OnPhone

(* A thread that works on a phone goes over to the next one.               *)
LEMMA Passing ==
  ASSUME TypeInv, NEW t \in Threads, run[t].kind \in OnPhone, Over(t),
         ~Withdrawing(run[t]), ~Recording(run[t]) \/ run[t].mac \in apart',
         apart \subseteq apart', UNCHANGED <<db, files, ops, queue, edition>>
  PROVE  Ordinary
<1>1. Equipped(run[t])
  BY DEF TypeInv, Fit
<1>2. Rests(run[t], NextPhone(run[t])) /\ NextPhone(run[t]) \in Thread
  BY <1>1, NextAway DEF Rests
<1>3. QED
  BY <1>2, OneMoves, Unmoved DEF Over

LEMMA Refusing ==
  ASSUME TypeInv, NEW t \in Threads, run[t].kind \in OnPhone, NEW type, NEW pc,
         run[t].pc \in {"check", "create"},
         create_operation(t, Dev(t), type, pc), UNCHANGED <<db, files, queue, edition, apart>>
  PROVE  \/ Ordinary
         \/ LET table == IF type = "refresh" THEN ops ELSE Recovered(Dev(t), type) IN
            /\ Live(db, Dev(t)) /\ (type # "refresh" => ~Busy(table, Dev(t), type)) /\ Room
            /\ ops' = Insert(table, Dev(t), type)
            /\ run' = [run EXCEPT ![t].op = FreeOp, ![t].pc = pc]
<1>1. ~Withdrawing(run[t]) /\ ~Recording(run[t])
  BY DEF Withdrawing, Recording
<1>2. CASE Over(t) /\ UNCHANGED ops
  BY <1>1, <1>2, Passing
<1>3. QED
  BY <1>2 DEF create_operation

LEMMA NotifyChecks ==
  ASSUME TypeInv, NEW t \in Threads, notify_check(t)
  PROVE  Ordinary
<1>1. run[t].kind \in OnPhone /\ ~Withdrawing(run[t]) /\ ~Recording(run[t])
  BY DEF notify_check, OnPhone, Withdrawing, Recording
<1>2. CASE Refused(t)
  BY <1>1, <1>2, Passing DEF notify_check, NotifyOnly
<1>3. CASE ~Refused(t)
  <2> DEFINE s == [run[t] EXCEPT !.pc = "create", !.content = db.devices[Dev(t)].accounts]
  <2>1. Fit(run[t], db) /\ run[t] \in Thread /\ run \in [Threads -> Thread]
    BY DEF TypeInv
  <2>2. Dev(t) \in Ids
    BY <1>1, <2>1, HeadIn DEF Fit, Equipped, Dev
  <2>3. db.devices[Dev(t)].accounts \in Int
    BY <2>2 DEF TypeInv, Sound, Inventory, Device
  <2>4. /\ s \in Thread /\ s.kind = "notify" /\ s.pc = "create" /\ s.todo = run[t].todo
        /\ s.op = run[t].op /\ s.mac = run[t].mac
    BY <2>1, <2>3 DEF Thread, Pcs, notify_check
  <2>5. run' = [run EXCEPT ![t] = s]
    BY <1>3, <2>1 DEF notify_check
  <2> HIDE DEF s
  <2>6. Away(s)
    <3>1. ~Operating(run[t]) /\ ~Filing(run[t]) /\ ~Operating(s) /\ ~Filing(s)
      BY <2>4 DEF notify_check, Operating, Filing
    <3>2. QED
      BY <1>1, <2>1, <2>4, <3>1 DEF Away, Fit, Equipped, Placed, OnPhone
  <2>7. QED
    BY <1>1, <2>4, <2>5, <2>6, OneMoves, Unmoved DEF Rests, notify_check, NotifyOnly
<1>4. QED
  BY <1>2, <1>3

LEMMA SendsNotify ==
  ASSUME TypeInv, NEW t \in Threads, send_notify(t)
  PROVE  Ordinary
<1>1. Operating(run[t]) /\ ~Recording(run[t]) /\ ~Withdrawing(run[t])
  BY DEF send_notify, Operating, Recording, Withdrawing
<1>2. UNCHANGED <<files, queue, edition, apart>>
  BY DEF send_notify, NotifyOnly
<1>3. CASE \E a, b : Ends(t, a, b)
  BY <1>1, <1>2, <1>3, Ending
<1>4. ASSUME NEW accepted \in BOOLEAN,
             run' = [run EXCEPT ![t].pc = "observe", ![t].accepted = accepted],
             db' = update_device_status(db, Dev(t), Touched), UNCHANGED ops
      PROVE  Ordinary
  <2> DEFINE s == [run[t] EXCEPT !.pc = "observe", !.accepted = accepted]
  <2>1. run[t] \in Thread /\ run \in [Threads -> Thread] /\ Equipped(run[t])
    BY DEF TypeInv, Fit
  <2>2. /\ s \in Thread /\ s.kind = run[t].kind /\ s.pc = "observe" /\ s.todo = run[t].todo
        /\ s.op = run[t].op /\ s.mac = run[t].mac
    BY <2>1 DEF Thread, Pcs
  <2>3. run' = [run EXCEPT ![t] = s]
    BY <1>4, <2>1
  <2> HIDE DEF s
  <2>4. Onward(run[t], s)
    BY <2>1, <2>2, Turning DEF send_notify
  <2>5. Sound(db') /\ Kept(db, db')
    BY <1>4, TouchedIs, StatusSet DEF TypeInv
  <2>6. QED
    BY <1>1, <1>2, <1>4, <2>2, <2>3, <2>4, <2>5, OneMoves, Unmoved DEF Rests
<1>5. QED
  BY <1>3, <1>4 DEF send_notify

(* A thread with an operation goes on to a point where it is not alone.    *)
LEMMA Turns ==
  ASSUME TypeInv, NEW t \in Threads, NEW pc \in Pcs, Goto(t, pc),
         ~Withdrawing(run[t]), ~Recording(run[t]),
         \/ /\ run[t].kind = "notify" /\ run[t].pc \in {"send", "observe"}
            /\ pc \in {"observe", "registers", "registered"}
         \/ run[t].kind = "refresh" /\ run[t].pc = "probe" /\ pc = "registers"
         \/ run[t].kind = "reboot" /\ run[t].pc = "request" /\ pc = "watch",
         Sound(db'), Kept(db, db'), UNCHANGED <<files, ops, queue, edition, apart>>
  PROVE  Ordinary
<1> DEFINE s == [run[t] EXCEPT !.pc = pc]
<1>1. run[t] \in Thread /\ run \in [Threads -> Thread] /\ Equipped(run[t])
  BY DEF TypeInv, Fit
<1>2. /\ s \in Thread /\ s.kind = run[t].kind /\ s.pc = pc /\ s.todo = run[t].todo
      /\ s.op = run[t].op /\ s.mac = run[t].mac
  BY <1>1 DEF Thread
<1>3. run' = [run EXCEPT ![t] = s]
  BY <1>1 DEF Goto
<1> HIDE DEF s
<1>4. Onward(run[t], s)
  BY <1>1, <1>2, Turning
<1>5. QED
  BY <1>2, <1>3, <1>4, OneMoves, Unmoved DEF Rests

LEMMA Observes ==
  ASSUME TypeInv, NEW t \in Threads, observe_download(t) \/ verify(t)
  PROVE  Ordinary
<1>1. Operating(run[t]) /\ ~Recording(run[t]) /\ ~Withdrawing(run[t])
  BY DEF observe_download, verify, Operating, Recording, Withdrawing
<1>2. UNCHANGED <<files, queue, edition, apart>>
  BY DEF observe_download, verify, NotifyOnly
<1>3. CASE \E a, b : Ends(t, a, b)
  BY <1>1, <1>2, <1>3, Ending
<1>4. CASE /\ observe_download(t) /\ Goto(t, "registers")
           /\ db' = update_device_status(db, Dev(t), Touched) /\ UNCHANGED ops
  <2>1. Sound(db') /\ Kept(db, db')
    BY <1>4, TouchedIs, StatusSet DEF TypeInv
  <2>2. QED
    BY <1>1, <1>2, <1>4, <2>1, Turns DEF Pcs, observe_download
<1>5. CASE observe_download(t) /\ Goto(t, "registered") /\ UNCHANGED <<db, ops>>
  BY <1>1, <1>2, <1>5, Turns, Unmoved DEF Pcs, observe_download
<1>6. QED
  BY <1>3, <1>4, <1>5 DEF observe_download, verify

LEMMA Refreshes ==
  ASSUME TypeInv, NEW t \in Threads, refresh_probe(t) \/ refresh_verify(t)
  PROVE  Ordinary
<1>1. Operating(run[t]) /\ ~Recording(run[t]) /\ ~Withdrawing(run[t])
  BY DEF refresh_probe, refresh_verify, Operating, Recording, Withdrawing
<1>2. UNCHANGED <<files, queue, edition, apart>>
  BY DEF refresh_probe, refresh_verify, WebOnly
<1>3. CASE \E a, b : Ends(t, a, b)
  BY <1>1, <1>2, <1>3, Ending
<1> DEFINE p == db.devices[Dev(t)].mac
           m == ModelOf(p)
           ensured == ensure_discovered_model(db, m)
           after == upsert_device(ensured, p, m, Default(m))
<1>4. p \in Macs /\ m \in Models
  <2>1. Dev(t) \in Ids /\ Dev(t) <= db.last
    BY <1>1, DevIs
  <2>2. QED
    BY <2>1, InventoryAssumption DEF TypeInv, Sound
<1>5. CASE /\ refresh_probe(t) /\ Goto(t, "registers") /\ UNCHANGED ops
           /\ db' = ensured \/ (Fresh(db, p) /\ db' = after)
  <2>1. Sound(db') /\ Kept(db, db')
    <3>1. CASE db' = ensured
      <4> HIDE DEF p, m
      <4>1. QED
        BY <1>4, <3>1, ModelEnsured DEF TypeInv
    <3>2. CASE Fresh(db, p) /\ db' = after
      <4> HIDE DEF p
      <4>1. QED
        BY <1>4, <3>2, Discovered DEF TypeInv
    <3>3. QED
      BY <1>5, <3>1, <3>2
  <2> HIDE DEF p, m, ensured, after
  <2>2. QED
    BY <1>1, <1>2, <1>5, <2>1, Turns DEF Pcs, refresh_probe
<1>6. QED
  BY <1>3, <1>5 DEF refresh_probe, refresh_verify

LEMMA Reboots ==
  ASSUME TypeInv, NEW t \in Threads, reboot_request(t) \/ reboot_watch(t)
  PROVE  Ordinary
<1>1. Operating(run[t]) /\ ~Recording(run[t]) /\ ~Withdrawing(run[t])
  BY DEF reboot_request, reboot_watch, Operating, Recording, Withdrawing
<1>2. UNCHANGED <<files, queue, edition, apart>>
  BY DEF reboot_request, reboot_watch, WebOnly
<1>3. CASE \E a, b : Ends(t, a, b)
  BY <1>1, <1>2, <1>3, Ending
<1>4. CASE /\ reboot_request(t) /\ Goto(t, "watch")
           /\ db' = update_device_status(db, Dev(t), Touched) /\ UNCHANGED ops
  <2>1. Sound(db') /\ Kept(db, db')
    BY <1>4, TouchedIs, StatusSet DEF TypeInv
  <2>2. QED
    BY <1>1, <1>2, <1>4, <2>1, Turns DEF Pcs, reboot_request
<1>5. QED
  BY <1>3, <1>4 DEF reboot_request, reboot_watch

(* A thread that has neither a phone nor an operation, and gives up.       *)
LEMMA Dropping ==
  ASSUME TypeInv, NEW t \in Threads, run' = [run EXCEPT ![t] = Idle],
         run[t].kind \in {"scan", "add", "newscan"}, Sound(db'), Kept(db, db'),
         queue' \in Seq(Waitings), UNCHANGED <<files, ops, edition, apart>>
  PROVE  Ordinary
<1>1. ~Withdrawing(run[t]) /\ ~Recording(run[t])
  BY DEF Withdrawing, Recording
<1>2. Rests(run[t], Idle) /\ Idle \in Thread
  BY IdleAway DEF Rests
<1>3. QED
  BY <1>1, <1>2, OneMoves

(* ... or goes on, whatever is left of its list.                           *)
LEMMA Wandering ==
  ASSUME TypeInv, NEW t \in Threads, NEW s \in Thread, run' = [run EXCEPT ![t] = s],
         s.kind = run[t].kind, run[t].kind \in {"scan", "add", "newscan"},
         s.op = run[t].op, s.mac = run[t].mac, run[t].kind = "add" => s.todo = run[t].todo,
         run[t].kind = "scan" =>
           s.todo \in Seq(Macs) /\ (s.pc \in {"found", "read", "mark"} => s.todo # <<>>),
         Sound(db'), Kept(db, db'), queue' \in Seq(Waitings),
         UNCHANGED <<files, ops, edition, apart>>
  PROVE  Ordinary
<1>1. ~Withdrawing(run[t]) /\ ~Recording(run[t])
  BY DEF Withdrawing, Recording
<1>2. Fit(run[t], db)
  BY DEF TypeInv
<1>3. Rests(run[t], s)
  BY <1>2, Roaming DEF Rests
<1>4. QED
  BY <1>1, <1>3, OneMoves

LEMMA WanderingOn ==
  ASSUME TypeInv, NEW t \in Threads, NEW pc \in Pcs, Goto(t, pc),
         run[t].kind \in {"scan", "add", "newscan"},
         run[t].kind = "scan" /\ pc \in {"found", "read", "mark"} => run[t].todo # <<>>,
         Sound(db'), Kept(db, db'), queue' \in Seq(Waitings),
         UNCHANGED <<files, ops, edition, apart>>
  PROVE  Ordinary
<1> DEFINE s == [run[t] EXCEPT !.pc = pc]
<1>1. run[t] \in Thread /\ run \in [Threads -> Thread] /\ Equipped(run[t])
  BY DEF TypeInv, Fit
<1>2. /\ s \in Thread /\ s.kind = run[t].kind /\ s.pc = pc /\ s.todo = run[t].todo
      /\ s.op = run[t].op /\ s.mac = run[t].mac
  BY <1>1 DEF Thread
<1>3. run' = [run EXCEPT ![t] = s]
  BY <1>1 DEF Goto
<1> HIDE DEF s
<1>4. run[t].kind = "scan" => s.todo \in Seq(Macs) /\ (s.pc \in {"found", "read", "mark"} => s.todo # <<>>)
  BY <1>1, <1>2 DEF Equipped
<1>5. QED
  BY <1>2, <1>3, <1>4, Wandering

LEMMA Adds ==
  ASSUME TypeInv, NEW t \in Threads, add_check(t) \/ add_insert(t)
  PROVE  Ordinary
<1>1. run[t].kind = "add" /\ UNCHANGED <<files, ops, queue, edition, apart>>
  BY DEF add_check, add_insert, WebOnly
<1>2. run[t].todo[1] \in Macs /\ run[t].todo[2] \in Models \cup {NoModel}
  <2>1. run[t].todo \in Macs \X (Models \cup {NoModel})
    BY <1>1 DEF TypeInv, Fit, Equipped
  <2>2. QED
    BY <2>1
<1>3. CASE UNCHANGED db /\ run' = [run EXCEPT ![t] = Idle]
  BY <1>1, <1>3, Dropping, Unmoved
<1>4. CASE UNCHANGED db /\ Goto(t, "insert")
  BY <1>1, <1>4, WanderingOn, Unmoved DEF Pcs
<1> DEFINE p == run[t].todo[1]
           m == run[t].todo[2]
<1>5. CASE /\ Fresh(db, p) /\ db' = upsert_device(db, p, m, Default(m))
           /\ run' = [run EXCEPT ![t] = Idle]
  <2> HIDE DEF p, m
  <2>1. p \in Macs /\ m \in Models \cup {NoModel}
    BY <1>2 DEF p, m
  <2>2. Sound(db') /\ Kept(db, db')
    BY <1>5, <2>1, Upserts, Defaults DEF TypeInv
  <2>3. QED
    BY <1>1, <1>5, <2>2, Dropping, Unmoved
<1>6. QED
  BY <1>3, <1>4, <1>5 DEF add_check, add_insert

LEMMA HostsAre == Hosts \in Seq(Macs)
<1> DEFINE n == Cardinality(Macs)
<1>1. n \in Nat /\ \E f : f \in Bijection(1 .. n, Macs)
  BY PoolsAssumption, FS_CardinalityType DEF ExistsBijection
<1>2. \E f \in [1 .. n -> Macs] : IsInjective(f)
  BY <1>1 DEF Bijection, Injection, IsInjective
<1>3. Hosts \in [1 .. n -> Macs]
  BY <1>2 DEF Hosts, SetToSeq
<1> HIDE DEF n
<1>4. QED
  BY <1>1, <1>3

LEMMA NewScans ==
  ASSUME TypeInv, NEW t \in Threads, scan_check(t) \/ scan_insert(t)
  PROVE  Ordinary
<1>1. run[t].kind = "newscan" /\ UNCHANGED <<db, files, ops, edition, apart>>
  BY DEF scan_check, scan_insert, WebOnly
<1>2. CASE UNCHANGED queue /\ run' = [run EXCEPT ![t] = Idle]
  BY <1>1, <1>2, Dropping, Unmoved
<1>3. CASE UNCHANGED queue /\ Goto(t, "insert")
  BY <1>1, <1>3, WanderingOn, Unmoved DEF Pcs
<1>4. CASE scan_insert(t)
  <2>1. PICK j \in Jobs : queue' = Append(queue, [Task("scan", Hosts) EXCEPT !.job = j])
    BY <1>4 DEF scan_insert
  <2> DEFINE r == [Task("scan", Hosts) EXCEPT !.job = j]
  <2>2. Hosts \in Todos /\ "scan" \in Kinds /\ Idle \in Thread
    BY HostsAre, IdleAway DEF Todos, Kinds
  <2>3. /\ Idle.pc = "idle" /\ Idle.op = 0 /\ Idle.mac = "none"
    BY DEF Idle
  <2>4. /\ r \in Thread /\ r.kind = "scan" /\ r.todo = Hosts /\ r.pc = "idle"
        /\ r.op = 0 /\ r.mac = "none"
    BY <2>2, <2>3 DEF Task, Thread
  <2> HIDE DEF r
  <2>5. r \in Waitings
    BY <2>4, HostsAre DEF Waitings, Waiting, Equipped, OnPhone
  <2>6. queue' = Append(queue, r)
    BY <2>1 DEF r
  <2>7. queue' \in Seq(Waitings)
    BY <2>5, <2>6, Unmoved
  <2>8. QED
    BY <1>1, <1>4, <2>7, Dropping, Unmoved DEF scan_insert
<1>5. QED
  BY <1>2, <1>3, <1>4 DEF scan_check, WebOnly

LEMMA Scans ==
  ASSUME TypeInv, NEW t \in Threads, Scan(t)
  PROVE  Ordinary
<1>1. run[t].kind = "scan" /\ UNCHANGED <<files, ops, queue, edition, apart>>
  BY DEF Scan, claim_discovery_job, scan_host, scan_upsert, scan_read, scan_mark, scan_end,
         scan_result, Scanning, ScanOnly
<1>2. /\ run[t] \in Thread /\ run \in [Threads -> Thread] /\ run[t].todo \in Seq(Macs)
      /\ run[t].pc \in {"found", "read", "mark"} => run[t].todo # <<>>
  BY <1>1 DEF TypeInv, Fit, Equipped
<1>3. Sound(db) /\ Kept(db, db) /\ queue' \in Seq(Waitings)
  BY <1>1, Unmoved
<1>4. /\ run[t].todo # <<>> => Head(run[t].todo) \in Macs
      /\ run[t].todo # <<>> => Tail(run[t].todo) \in Seq(Macs)
  BY <1>2, HeadIn
<1>5. CASE Drop(t) /\ UNCHANGED db
  BY <1>1, <1>3, <1>5, Dropping DEF Drop
<1>6. ASSUME NEW pc \in {"host", "raised", "complete", "fail"}, Goto(t, pc), UNCHANGED db
      PROVE  Ordinary
  BY <1>1, <1>3, <1>6, WanderingOn DEF Pcs
<1>7. CASE claim_discovery_job(t)
  BY <1>5, <1>6, <1>7 DEF claim_discovery_job
<1>8. CASE scan_host(t)
  <2> DEFINE p == Head(run[t].todo)
             s == [run[t] EXCEPT !.todo = Tail(@)]
  <2>1. run[t].todo # <<>> /\ run[t].pc = "host"
    BY <1>8 DEF scan_host, Scanning
  <2>2. p \in Macs /\ ModelOf(p) \in Models
    BY <1>4, <2>1, InventoryAssumption
  <2>3. /\ s \in Thread /\ s.kind = "scan" /\ s.pc = "host" /\ s.todo = Tail(run[t].todo)
        /\ s.op = run[t].op /\ s.mac = run[t].mac
    BY <1>1, <1>2, <1>4, <2>1 DEF Thread, Todos
  <2>4. db' = db \/ db' = ensure_discovered_model(db, ModelOf(p))
    BY <1>8 DEF scan_host
  <2>5. Sound(db') /\ Kept(db, db')
    BY <1>3, <2>2, <2>4, ModelEnsured
  <2>6. CASE run' = [run EXCEPT ![t].todo = Tail(@)]
    <3>1. run' = [run EXCEPT ![t] = s]
      BY <1>2, <2>6
    <3> HIDE DEF s
    <3>2. QED
      BY <1>1, <1>3, <1>4, <2>1, <2>3, <2>5, <3>1, Wandering
  <2>7. CASE Goto(t, "found")
    BY <1>1, <1>3, <2>1, <2>5, <2>7, WanderingOn DEF Pcs
  <2>8. QED
    BY <1>5, <1>8, <2>6, <2>7 DEF scan_host
<1>9. CASE scan_upsert(t)
  <2> DEFINE p == Head(run[t].todo)
             m == ModelOf(p)
  <2>1. run[t].todo # <<>>
    BY <1>2, <1>9 DEF scan_upsert, Scanning
  <2>2. p \in Macs /\ m \in Models
    BY <1>4, <2>1, InventoryAssumption
  <2>3. CASE /\ Fresh(db, p) /\ db' = upsert_device(db, p, m, Default(m)) /\ Goto(t, "read")
    <3> HIDE DEF p, m
    <3>1. Sound(db') /\ Kept(db, db')
      BY <1>3, <2>2, <2>3, Upserts, Defaults
    <3>2. QED
      BY <1>1, <1>3, <2>1, <2>3, <3>1, WanderingOn DEF Pcs
  <2>4. QED
    BY <1>6, <1>9, <2>3 DEF scan_upsert
<1>10. CASE scan_read(t)
  <2> DEFINE rows == RowOf(db, Head(run[t].todo))
             unknown == { i \in rows : db.devices[i].status = "Unknown Model" }
             i == CHOOSE k \in unknown : TRUE
  <2>1. run[t].todo # <<>> /\ run[t].pc = "read" /\ UNCHANGED db
    BY <1>2, <1>10 DEF scan_read, Scanning
  <2>2. CASE unknown = {}
    <3> DEFINE s == [run[t] EXCEPT !.pc = "host", !.todo = Tail(@)]
    <3>1. /\ s \in Thread /\ s.kind = "scan" /\ s.pc = "host" /\ s.todo = Tail(run[t].todo)
          /\ s.op = run[t].op /\ s.mac = run[t].mac
      BY <1>1, <1>2, <1>4, <2>1 DEF Thread, Todos, Pcs
    <3>2. run' = [run EXCEPT ![t] = s]
      BY <1>2, <1>10, <2>2 DEF scan_read
    <3> HIDE DEF s
    <3>3. QED
      BY <1>1, <1>3, <1>4, <2>1, <3>1, <3>2, Wandering
  <2>3. CASE unknown # {}
    <3> DEFINE s == [run[t] EXCEPT !.pc = "mark", !.row = i]
    <3>1. i \in Ids
      BY <2>3 DEF RowOf
    <3>2. run' = [run EXCEPT ![t] = s]
      BY <1>2, <1>10, <2>3 DEF scan_read
    <3> HIDE DEF i, unknown, rows
    <3>3. /\ s \in Thread /\ s.kind = "scan" /\ s.pc = "mark" /\ s.todo = run[t].todo
          /\ s.op = run[t].op /\ s.mac = run[t].mac
      BY <1>1, <1>2, <3>1 DEF Thread, Pcs
    <3> HIDE DEF s
    <3>4. QED
      BY <1>1, <1>2, <1>3, <2>1, <3>2, <3>3, Wandering
  <2>4. QED
    BY <2>2, <2>3
<1>11. CASE scan_mark(t)
  <2> DEFINE s == [run[t] EXCEPT !.pc = "host", !.todo = Tail(@), !.row = 0]
  <2>1. run[t].todo # <<>>
    BY <1>2, <1>11 DEF scan_mark, Scanning
  <2>2. /\ s \in Thread /\ s.kind = "scan" /\ s.pc = "host" /\ s.todo = Tail(run[t].todo)
        /\ s.op = run[t].op /\ s.mac = run[t].mac
    BY <1>1, <1>2, <1>4, <2>1 DEF Thread, Todos, Pcs
  <2>3. run' = [run EXCEPT ![t] = s]
    BY <1>2, <1>11 DEF scan_mark
  <2>4. Sound(db') /\ Kept(db, db')
    BY <1>3, <1>11, TouchedIs, StatusSet DEF scan_mark
  <2> HIDE DEF s
  <2>5. QED
    BY <1>1, <1>3, <1>4, <2>1, <2>2, <2>3, <2>4, Wandering
<1>12. CASE scan_end(t) \/ scan_result(t)
  <2>1. UNCHANGED db
    BY <1>12 DEF scan_end, scan_result
  <2>2. Drop(t) \/ Goto(t, "complete") \/ Goto(t, "fail")
    BY <1>12 DEF scan_end, scan_result
  <2>3. QED
    BY <1>5, <1>6, <2>1, <2>2
<1>13. QED
  BY <1>7, <1>8, <1>9, <1>10, <1>11, <1>12 DEF Scan

LEMMA Beginning ==
  ASSUME TypeInv, NEW t \in Threads, run[t] = Idle, NEW task \in Thread, Begins(t, task),
         task.op = 0, task.mac = "none",
         task.kind \in OnPhone => task.todo \in Seq(Ids) /\ task.todo # <<>>,
         task.kind = "scan" => task.todo \in Seq(Macs),
         task.kind = "add" => task.todo \in Macs \X (Models \cup {NoModel}),
         Sound(db'), Kept(db, db'), queue' \in Seq(Waitings),
         UNCHANGED <<files, ops, edition, apart>>
  PROVE  Ordinary
<1> DEFINE s == [task EXCEPT !.pc = "check"]
<1>1. /\ s \in Thread /\ s.kind = task.kind /\ s.pc = "check" /\ s.todo = task.todo
      /\ s.op = 0 /\ s.mac = "none"
  BY DEF Thread, Pcs
<1>2. run' = [run EXCEPT ![t] = s]
  BY DEF Begins
<1> HIDE DEF s
<1>3. Away(s)
  BY <1>1 DEF Away, Equipped, Operating, Filing
<1>4. ~Withdrawing(run[t]) /\ ~Recording(run[t])
  BY DEF Idle, Withdrawing, Recording
<1>5. QED
  BY <1>1, <1>2, <1>3, <1>4, OneMoves DEF Rests

LEMMA TaskIs ==
  ASSUME NEW kind \in Kinds, NEW todo \in Todos
  PROVE  /\ Task(kind, todo) \in Thread /\ Task(kind, todo).kind = kind
         /\ Task(kind, todo).todo = todo /\ Task(kind, todo).op = 0
         /\ Task(kind, todo).mac = "none" /\ Task(kind, todo).pc = "idle"
<1>1. Idle \in Thread /\ Idle.pc = "idle" /\ Idle.op = 0 /\ Idle.mac = "none"
  BY IdleAway DEF Idle
<1>2. QED
  BY <1>1 DEF Task, Thread

LEMMA LongRequests ==
  ASSUME TypeInv, NEW t \in Web, long_request(t)
  PROVE  Ordinary
<1>1. t \in Threads /\ run[t] = Idle
  BY DEF long_request, Threads
<1>2. UNCHANGED <<db, files, ops, queue, edition, apart>>
  BY DEF long_request
<1>3. db.last \in 0 .. MaxId
  BY DEF TypeInv, Sound, Inventory
<1>4. ASSUME NEW kind \in {"refresh", "reboot", "delete"}, NEW i \in 1 .. db.last,
             Begins(t, Task(kind, <<i>>))
      PROVE  Ordinary
  <2>1. i \in Ids
    BY <1>3, <1>4, IdsAre
  <2>2. <<i>> \in Seq(Ids) /\ <<i>> # <<>>
    BY <2>1
  <2>3. kind \in Kinds /\ <<i>> \in Todos
    BY <1>4, <2>2 DEF Kinds, Todos
  <2>4. kind # "add" /\ kind # "scan"
    BY <1>4
  <2> DEFINE task == Task(kind, <<i>>)
  <2>5. /\ task \in Thread /\ task.kind = kind /\ task.todo = <<i>> /\ task.op = 0
        /\ task.mac = "none"
    BY <2>3, TaskIs
  <2> HIDE DEF task
  <2>6. task.todo \in Seq(Ids) /\ task.todo # <<>> /\ task.kind # "add" /\ task.kind # "scan"
    BY <2>2, <2>4, <2>5
  <2>7. Begins(t, task)
    BY <1>4 DEF task
  <2>8. QED
    BY <1>1, <1>2, <2>5, <2>6, <2>7, Beginning, Unmoved
<1>5. ASSUME NEW q \in Macs, NEW m \in Models \cup {NoModel}, Begins(t, Task("add", <<q, m>>))
      PROVE  Ordinary
  <2>1. <<q, m>> \in Macs \X (Models \cup {NoModel})
    OBVIOUS
  <2>2. "add" \in Kinds /\ <<q, m>> \in Todos /\ "add" \notin OnPhone
    BY <2>1 DEF Kinds, Todos, OnPhone
  <2>3. QED
    BY <1>1, <1>2, <1>5, <2>1, <2>2, TaskIs, Beginning, Unmoved
<1>6. CASE Begins(t, Task("newscan", <<>>))
  <2>1. <<>> \in Seq(Ids)
    OBVIOUS
  <2>2. "newscan" \in Kinds /\ <<>> \in Todos /\ "newscan" \notin OnPhone
    BY <2>1 DEF Kinds, Todos, OnPhone
  <2>3. QED
    BY <1>1, <1>2, <1>6, <2>2, TaskIs, Beginning, Unmoved
<1>7. QED
  BY <1>4, <1>5, <1>6 DEF long_request

LEMMA ExecutorTakes ==
  ASSUME TypeInv, NEW t \in Workers, executor_takes(t)
  PROVE  Ordinary
<1>1. t \in Threads /\ run[t] = Idle
  BY DEF executor_takes, Threads
<1>2. Head(queue) \in Waitings /\ queue' \in Seq(Waitings)
  BY Unmoved, HeadIn DEF executor_takes
<1>3. Begins(t, Head(queue)) /\ UNCHANGED <<db, files, ops, edition, apart>>
  BY DEF executor_takes
<1>4. QED
  BY <1>1, <1>2, <1>3, Beginning, Unmoved DEF Waitings, Waiting, Equipped, OnPhone

LEMMA Subscribes ==
  ASSUME TypeInv, NEW q \in Macs, pnp_subscribe(q)
  PROVE  Ordinary
<1> DEFINE m == ModelOf(q)
           after == upsert_device(ensure_discovered_model(db, m), q, m, Default(m))
           i == CHOOSE k \in RowOf(after, q) : TRUE
           assigned == after.devices[i].accounts # 0
           task == [Task("notify", <<i>>) EXCEPT !.baseline = ~assigned]
<1>1. UNCHANGED <<files, ops, queue, edition, apart>> /\ Fresh(db, q) /\ db' = after
  BY DEF pnp_subscribe
<1>2. \/ UNCHANGED run
      \/ run[q] = Idle /\ Begins(q, task)
  BY DEF pnp_subscribe
<1>3. Sound(after) /\ Kept(db, after) /\ RowOf(after, q) # {}
  BY <1>1, Discovered DEF TypeInv
<1> HIDE DEF after
<1>4. i \in Ids
  BY <1>3 DEF RowOf
<1>5. (~assigned) \in BOOLEAN
  OBVIOUS
<1> HIDE DEF i, assigned
<1>6. CASE UNCHANGED run
  BY <1>1, <1>3, <1>6, NobodyMoves, Unmoved
<1>7. CASE run[q] = Idle /\ Begins(q, task)
  <2>1. <<i>> \in Seq(Ids) /\ <<i>> # <<>>
    BY <1>4
  <2>2. "notify" \in Kinds /\ <<i>> \in Todos
    BY <2>1 DEF Kinds, Todos
  <2>3. /\ task \in Thread /\ task.kind = "notify" /\ task.todo = <<i>> /\ task.op = 0
        /\ task.mac = "none"
    <3> DEFINE base == Task("notify", <<i>>)
    <3>1. /\ base \in Thread /\ base.kind = "notify" /\ base.todo = <<i>> /\ base.op = 0
          /\ base.mac = "none"
      BY <2>2, TaskIs
    <3>2. task = [base EXCEPT !.baseline = ~assigned]
      OBVIOUS
    <3> HIDE DEF base, task
    <3>3. QED
      BY <1>5, <3>1, <3>2 DEF Thread
  <2> HIDE DEF task
  <2>4. q \in Threads
    BY DEF Threads
  <2>5. QED
    BY <1>1, <1>3, <1>7, <2>1, <2>3, <2>4, Beginning, Unmoved
<1>8. QED
  BY <1>2, <1>6, <1>7

LEMMA ModelRequests ==
  ASSUME TypeInv, model_request
  PROVE  Ordinary
<1>1. PICK m \in Models : \/ \E form \in ModelForms : dex_models(save_model(db, m, form))
                          \/ \E on \in BOOLEAN :
                               \/ dex_models(toggle_model(db, m, on))
                               \/ dex_models(bulk_set_model_enabled(db, {m}, on))
                          \/ dex_models(delete_model(db, m))
                          \/ dex_models(bulk_delete_models(db, Models))
  BY DEF model_request
<1>2. PICK form \in ModelForms, on \in BOOLEAN :
        \E e \in {save_model(db, m, form), toggle_model(db, m, on),
                  bulk_set_model_enabled(db, {m}, on), delete_model(db, m),
                  bulk_delete_models(db, Models)} : dex_models(e)
  <2>1. [defined |-> TRUE, enabled |-> TRUE, provisionable |-> FALSE, known |-> FALSE]
          \in ModelForms
    BY DEF ModelForms
  <2>2. PICK some \in ModelForms : TRUE
    BY <2>1
  <2>3. CASE \E f \in ModelForms : dex_models(save_model(db, m, f))
    BY <2>3
  <2>4. CASE \E on \in BOOLEAN : \/ dex_models(toggle_model(db, m, on))
                                 \/ dex_models(bulk_set_model_enabled(db, {m}, on))
    BY <2>2, <2>4
  <2>5. CASE dex_models(delete_model(db, m)) \/ dex_models(bulk_delete_models(db, Models))
    BY <2>2, <2>5
  <2>6. QED
    BY <1>1, <2>3, <2>4, <2>5
<1>3. db' \in Inventory /\ Same(db, db') /\ UNCHANGED <<run, files, ops, queue, edition, apart>>
  <2>1. PICK e \in {save_model(db, m, form), toggle_model(db, m, on),
                    bulk_set_model_enabled(db, {m}, on), delete_model(db, m),
                    bulk_delete_models(db, Models)} : dex_models(e)
    BY <1>2
  <2>2. e \in Inventory /\ Same(db, e)
    BY ModelPages DEF TypeInv, Sound
  <2>3. db' = e /\ UNCHANGED <<run, files, ops, queue, edition, apart>>
    BY <2>1 DEF dex_models, Quiet
  <2>4. QED
    BY <2>2, <2>3
<1>4. Sound(db') /\ Kept(db, db')
  BY <1>3, SameKept DEF TypeInv
<1>5. QED
  BY <1>3, <1>4, NobodyMoves, Unmoved

LEMMA AllNotified ==
  ASSUME TypeInv, dex_phone_notify
  PROVE  Ordinary
<1>1. db.last \in 0 .. MaxId /\ db.last > 0
  BY DEF TypeInv, Sound, Inventory, dex_phone_notify
<1> DEFINE all == [i \in 1 .. db.last |-> i]
<1>2. all \in Seq(Ids) /\ all # <<>>
  <2>1. all \in [1 .. db.last -> Ids]
    BY <1>1, IdsAre
  <2>2. all[1] \in Ids /\ 1 \in DOMAIN all
    BY <1>1, IdsAre
  <2>3. all # <<>>
    BY <2>2
  <2>4. db.last \in Nat
    BY <1>1
  <2> HIDE DEF all
  <2>5. QED
    BY <2>1, <2>3, <2>4
<1> HIDE DEF all
<1>3. "notify" \in Kinds /\ all \in Todos
  BY <1>2 DEF Kinds, Todos
<1>4. Task("notify", all) \in Waitings
  BY <1>2, <1>3, TaskIs DEF Waitings, Waiting, Equipped, OnPhone
<1>5. queue' = <<Task("notify", all)>> /\ UNCHANGED <<db, run, files, ops, edition, apart>>
  BY DEF dex_phone_notify, Quiet, all
<1>6. queue' \in Seq(Waitings)
  BY <1>4, <1>5
<1>7. QED
  BY <1>5, <1>6, NobodyMoves, Unmoved

LEMMA Standstill ==
  ASSUME TypeInv, \/ \E j \in Jobs : dex_scan_cancel(j)
                  \/ \E q \in Macs : pnp_forgets(q)
                  \/ UNCHANGED vars
  PROVE  Ordinary
<1>1. UNCHANGED <<db, files, ops, queue, run, edition, apart>>
  BY DEF dex_scan_cancel, pnp_forgets, vars
<1>2. QED
  BY <1>1, NobodyMoves, Unmoved

LEMMA Ages ==
  ASSUME TypeInv, NEW o \in OpIds, grows_old(o)
  PROVE  Ordinary
<1>1. GrowsOld /\ UNCHANGED <<db, files, queue, run, edition, apart>>
  BY DEF grows_old, GrowsOld
<1>2. QED
  BY <1>1, Unmoved DEF TypeInv, Ordinary, Rests, Steady, Waitings

LEMMA Deaths ==
  ASSUME TypeInv, app_dies \/ responder_dies
  PROVE  Ordinary
<1>1. /\ UNCHANGED <<db, files, ops, edition>> /\ queue' \in Seq(Waitings)
      /\ apart \subseteq apart'
  <2>1. <<>> \in Seq(Waitings)
    OBVIOUS
  <2>2. queue' = <<>> \/ queue' = queue
    BY DEF app_dies, responder_dies
  <2>3. QED
    BY <2>1, <2>2, Unmoved DEF app_dies, responder_dies, Broken
<1>2. run' \in [Threads -> Thread] /\ \A t \in Threads : run'[t] \in {run[t], Idle}
  BY IdleAway DEF app_dies, responder_dies, TypeInv
<1>3. \A t \in Threads : Rests(run[t], run'[t])
  BY <1>2, IdleAway DEF Rests
<1>4. ASSUME NEW dead, apart' = apart \cup LeftBy(dead), NEW t \in Threads,
             run'[t] = run[t] \/ t \in dead
      PROVE  Steady(t)
  <2>1. SUFFICES ASSUME Withdrawing(run[t]) \/ Recording(run[t]), t \in dead
                 PROVE  run[t].mac \in LeftBy(dead)
    BY <1>4 DEF Steady
  <2>2. run[t].mac \in Macs
    BY <2>1, EarlyIs DEF TypeInv, Fit, Equipped, Placed, Thread
  <2>3. t \in Holding("record", run[t].mac) \cup Holding("row", run[t].mac)
    BY <2>1 DEF Holding, Withdrawing, Recording
  <2>4. QED
    BY <2>1, <2>2, <2>3 DEF LeftBy
<1>5. \A t \in Threads : Steady(t)
  <2>1. CASE app_dies
    <3>1. apart' = apart \cup LeftBy(Threads \ Macs)
      BY <2>1 DEF app_dies
    <3>2. \A t \in Threads : run'[t] = run[t] \/ t \in Threads \ Macs
      BY <2>1 DEF app_dies, TypeInv
    <3>3. QED
      BY <1>4, <3>1, <3>2
  <2>2. CASE responder_dies
    <3>1. apart' = apart \cup LeftBy(Macs)
      BY <2>2 DEF responder_dies
    <3>2. \A t \in Threads : run'[t] = run[t] \/ t \in Macs
      BY <2>2 DEF responder_dies, TypeInv
    <3>3. QED
      BY <1>4, <3>1, <3>2
  <2>3. QED
    BY <2>1, <2>2
<1>6. QED
  BY <1>1, <1>2, <1>3, <1>5, Unmoved DEF Ordinary, Waitings

LEMMA Raises ==
  ASSUME TypeInv, NEW t \in Threads, update_raises(t)
  PROVE  Ordinary
<1>1. /\ run[t].kind \in OnPhone /\ ~Withdrawing(run[t]) /\ ~Recording(run[t])
      /\ Over(t) /\ UNCHANGED <<db, files, ops, queue, edition, apart>>
  BY DEF update_raises, OnPhone, Withdrawing, Recording, Broken
<1>2. QED
  BY <1>1, Passing

-----------------------------------------------------------------------------
(* The other steps, one by one.                                            *)

(* An operation is claimed.                                                *)
Claims(t, type, pc) ==
  LET table == IF type = "refresh" THEN ops ELSE Recovered(Dev(t), type) IN
  /\ run[t].kind = type /\ run[t].pc \in {"check", "create"}
  /\ Live(db, Dev(t)) /\ (type # "refresh" => ~Busy(table, Dev(t), type)) /\ Room
  /\ ops' = Insert(table, Dev(t), type)
  /\ run' = [run EXCEPT ![t].op = FreeOp, ![t].pc = pc]
  /\ UNCHANGED <<db, files, queue, edition, apart>>

Claimings == {<<"notify", "prepare">>, <<"refresh", "probe">>, <<"reboot", "request">>}

Prepares(t) ==
  /\ run[t].kind = "notify" /\ run[t].pc = "prepare"
  /\ ~Refused(t) /\ (run[t].baseline \/ db.devices[Dev(t)].accounts # 0)
  /\ run' = [run EXCEPT ![t].content = Rendered(t), ![t].pc = "publish",
                        ![t].assigned = db.devices[Dev(t)].accounts # 0,
                        ![t].mac = db.devices[Dev(t)].mac]
  /\ db' = update_device_status(db, Dev(t), Touched)
  /\ UNCHANGED <<files, ops, queue, edition, apart>>

Publishes(t) ==
  /\ Publishing(run[t]) /\ Goto(t, "record")
  /\ files' = [files EXCEPT ![run[t].mac] = run[t].content]
  /\ apart' = apart \ {run[t].mac}
  /\ UNCHANGED <<db, ops, queue, edition>>

Records(t) ==
  /\ Recording(run[t]) /\ Live(db, Dev(t))
  /\ db' = save_generated_config(db, Dev(t), run[t].content)
  /\ run' = [run EXCEPT ![t].pc = "send", ![t].content = NoFile]
  /\ UNCHANGED <<files, ops, queue, edition, apart>>

Archives(t) ==
  /\ run[t].kind = "delete" /\ run[t].pc = "check" /\ Live(db, Dev(t))
  /\ run' = [run EXCEPT ![t].pc = "row", ![t].mac = db.devices[Dev(t)].mac,
                        ![t].content = files[db.devices[Dev(t)].mac]]
  /\ files' = [files EXCEPT ![db.devices[Dev(t)].mac] = NoFile]
  /\ apart' = IF Holding("row", db.devices[Dev(t)].mac) = {} THEN apart
              ELSE apart \cup {db.devices[Dev(t)].mac}
  /\ UNCHANGED <<db, ops, queue, edition>>

RowGoes(t) ==
  /\ Withdrawing(run[t]) /\ Over(t)
  /\ db' = delete_device(db, Dev(t))
  /\ ops' = [o \in OpIds |-> IF ops[o].id = Dev(t) THEN [ops[o] EXCEPT !.id = 0] ELSE ops[o]]
  /\ UNCHANGED <<files, queue, edition, apart>>

RowStays(t) ==
  /\ Withdrawing(run[t]) /\ Over(t) /\ files' = Restored(t)
  /\ UNCHANGED <<db, ops, queue, edition, apart>>

Edits(i) ==
  /\ db' = save_assignments(db, i, edition + 1) /\ edition' = edition + 1
  /\ queue' \in Seq(Waitings)
  /\ UNCHANGED <<files, ops, run, apart>>

Remarkable ==
  \/ \E t \in Threads : \/ \E c \in Claimings : Claims(t, c[1], c[2])
                        \/ Prepares(t) \/ Publishes(t) \/ Records(t) \/ Archives(t)
                        \/ RowGoes(t) \/ RowStays(t)
  \/ \E i \in Ids : Edits(i)

LEMMA Claiming ==
  ASSUME TypeInv, NEW t \in Threads, notify_create(t) \/ refresh_start(t) \/ reboot_start(t)
  PROVE  Ordinary \/ \E c \in Claimings : Claims(t, c[1], c[2])
<1>1. ASSUME NEW type, NEW pc, <<type, pc>> \in Claimings, run[t].kind = type,
             run[t].kind \in OnPhone, run[t].pc \in {"check", "create"},
             create_operation(t, Dev(t), type, pc), UNCHANGED <<db, files, queue, edition, apart>>
      PROVE  Ordinary \/ \E c \in Claimings : Claims(t, c[1], c[2])
  <2>1. Ordinary \/ Claims(t, type, pc)
    BY <1>1, Refusing DEF Claims
  <2>2. <<type, pc>>[1] = type /\ <<type, pc>>[2] = pc
    OBVIOUS
  <2>3. QED
    BY <1>1, <2>1, <2>2
<1>2. CASE notify_create(t)
  <2>1. <<"notify", "prepare">> \in Claimings /\ "notify" \in OnPhone
    BY DEF Claimings, OnPhone
  <2>2. QED
    BY <1>1, <1>2, <2>1 DEF notify_create, NotifyOnly
<1>3. CASE refresh_start(t)
  <2>1. <<"refresh", "probe">> \in Claimings /\ "refresh" \in OnPhone
    BY DEF Claimings, OnPhone
  <2>2. QED
    BY <1>1, <1>3, <2>1 DEF refresh_start, WebOnly
<1>4. CASE reboot_start(t)
  <2>1. <<"reboot", "request">> \in Claimings /\ "reboot" \in OnPhone
    BY DEF Claimings, OnPhone
  <2>2. QED
    BY <1>1, <1>4, <2>1 DEF reboot_start, WebOnly
<1>5. QED
  BY <1>2, <1>3, <1>4

LEMMA Provisioning ==
  ASSUME TypeInv, NEW t \in Threads, prepare_config(t) \/ publish(t) \/ record_config(t)
  PROVE  Ordinary \/ Prepares(t) \/ Publishes(t) \/ Records(t)
<1>1. Operating(run[t]) /\ ~Withdrawing(run[t])
  BY DEF prepare_config, publish, record_config, Operating, Withdrawing
<1>2. CASE prepare_config(t)
  <2>1. ~Recording(run[t]) /\ UNCHANGED <<files, queue, edition, apart>>
    BY <1>2 DEF prepare_config, Recording, NotifyOnly
  <2>2. CASE Ends(t, "Failed", "Failed")
    BY <1>1, <2>1, <2>2, Ending
  <2>3. QED
    BY <1>2, <2>1, <2>2 DEF prepare_config, Prepares
<1>3. CASE publish(t)
  <2>1. ~Recording(run[t]) /\ Publishing(run[t]) /\ UNCHANGED <<queue, edition>>
    BY <1>3 DEF publish, Recording, Publishing
  <2>2. CASE Ends(t, "Failed", "Failed") /\ UNCHANGED <<files, apart>>
    BY <1>1, <2>1, <2>2, Ending
  <2>3. QED
    BY <1>3, <2>1, <2>2 DEF publish, Publishes
<1>4. CASE record_config(t)
  <2>1. Recording(run[t]) /\ run[t].kind \in OnPhone /\ UNCHANGED <<files, queue, edition>>
    BY <1>4 DEF record_config, Recording, OnPhone
  <2>2. CASE ~Live(db, Dev(t)) /\ Ends(t, "Failed", "Failed") /\ UNCHANGED apart
    BY <1>1, <2>1, <2>2, Ending
  <2>3. CASE record_fails(t)
    <3>1. apart \subseteq apart' /\ run[t].mac \in apart'
      BY <2>3 DEF record_fails
    <3>2. CASE Ends(t, "Failed", "Failed")
      BY <1>1, <2>1, <3>1, <3>2, Ending
    <3>3. CASE Over(t) /\ UNCHANGED <<db, ops, served>>
      BY <1>1, <2>1, <3>1, <3>3, Passing
    <3>4. QED
      BY <2>3, <3>2, <3>3 DEF record_fails
  <2>4. QED
    BY <1>4, <2>1, <2>2, <2>3 DEF record_config, Records
<1>5. QED
  BY <1>2, <1>3, <1>4

LEMMA Deleting ==
  ASSUME TypeInv, NEW t \in Threads, delete_archive(t) \/ delete_row(t)
  PROVE  Ordinary \/ Archives(t) \/ RowGoes(t) \/ RowStays(t)
<1>1. CASE delete_archive(t)
  <2>1. /\ run[t].kind \in OnPhone /\ ~Withdrawing(run[t]) /\ ~Recording(run[t])
        /\ UNCHANGED <<db, ops, queue, edition>>
    BY <1>1 DEF delete_archive, OnPhone, Withdrawing, Recording
  <2>2. CASE Live(db, Dev(t))
    BY <1>1, <2>1, <2>2 DEF delete_archive, Archives
  <2>3. CASE ~Live(db, Dev(t))
    BY <1>1, <2>1, <2>3, Passing DEF delete_archive
  <2>4. QED
    BY <2>2, <2>3
<1>2. CASE delete_row(t)
  BY <1>2 DEF delete_row, Withdrawing, RowGoes, RowStays
<1>3. QED
  BY <1>1, <1>2

LEMMA Editing ==
  ASSUME TypeInv, NEW i \in Ids, NEW notify \in BOOLEAN, dex_phone_edit(i, notify)
  PROVE  Edits(i)
<1> DEFINE list == <<i>>
<1>1. list \in Seq(Ids) /\ list # <<>>
  OBVIOUS
<1> HIDE DEF list
<1>2. "notify" \in Kinds /\ list \in Todos
  BY <1>1 DEF Kinds, Todos
<1>3. Task("notify", list) \in Waitings
  BY <1>1, <1>2, TaskIs DEF Waitings, Waiting, Equipped, OnPhone
<1>4. queue' \in Seq(Waitings)
  BY <1>3, Unmoved DEF dex_phone_edit, list
<1>5. QED
  BY <1>4 DEF dex_phone_edit, Quiet, Edits

(* Every step is one or the other.                                         *)
LEMMA Steps ==
  ASSUME TypeInv, [Next]_vars
  PROVE  Ordinary \/ Remarkable
<1>1. ASSUME NEW t \in Threads, Works(t)
      PROVE  Ordinary \/ Remarkable
  <2>1. CASE Notify(t)
    BY <2>1, NotifyChecks, Claiming, Provisioning, SendsNotify, Observes DEF Notify, Remarkable
  <2>2. CASE LongRequest(t)
    BY <2>2, Claiming, Refreshes, Reboots, Deleting DEF LongRequest, Remarkable
  <2>3. QED
    BY <1>1, <2>1, <2>2, Adds, NewScans, Scans DEF Works
<1>2. CASE \/ \E t \in Web : long_request(t)
           \/ \E t \in Workers : executor_takes(t)
           \/ \E j \in Jobs : dex_scan_cancel(j)
           \/ dex_phone_notify \/ model_request
           \/ \E q \in Macs : pnp_subscribe(q) \/ pnp_forgets(q)
           \/ \E o \in OpIds : grows_old(o)
           \/ app_dies \/ responder_dies
           \/ \E t \in Threads : update_raises(t)
           \/ UNCHANGED vars
  BY <1>2, LongRequests, ExecutorTakes, Standstill, AllNotified, ModelRequests, Subscribes,
     Ages, Deaths, Raises
<1>3. CASE \E i \in Ids, notify \in BOOLEAN : dex_phone_edit(i, notify)
  BY <1>3, Editing DEF Remarkable
<1>4. QED
  BY <1>1, <1>2, <1>3 DEF Next

LEMMA Alone ==
  ASSUME TypeInv, HeldInv, NEW t \in Threads, NEW u \in Threads, Early(run[t]), Early(run[u]),
         Dev(t) = Dev(u), Live(db, Dev(t))
  PROVE  t = u
<1>1. HoldsOn(t) /\ HoldsOn(u)
  BY DEF HeldInv
<1>2. /\ run[t].op \in OpIds /\ run[t].op # 0
      /\ run[u].op \in OpIds /\ run[u].op # 0
  BY EarlyIs DEF TypeInv, Fit, Placed, Thread
<1>3. run[t].op = run[u].op
  BY <1>1, <1>2 DEF HoldsOn, HeldInv, OneOperationAtATime, Running
<1>4. QED
  BY <1>2, <1>3 DEF HeldInv, OwnOps

LEMMA SameRow ==
  ASSUME NEW d, Sound(d), NEW i \in Ids, NEW k \in Ids, Here(d, i),
         d.devices[k].mac = d.devices[i].mac
  PROVE  i = k
BY DEF Here, Sound

(* One thread moves on, the rows change under the others.                  *)
LEMMA Refits ==
  ASSUME TypeInv, NEW t \in Threads, NEW s \in Thread, run' = [run EXCEPT ![t] = s],
         Sound(db'), Evolves(db, db'), Fit(s, db')
  PROVE  /\ run' \in [Threads -> Thread] /\ \A u \in Threads : Fit(run'[u], db')
         /\ run'[t] = s /\ \A u \in Threads : u # t => run'[u] = run[u]
<1>1. run' \in [Threads -> Thread] /\ run'[t] = s /\ \A u \in Threads : u # t => run'[u] = run[u]
  BY DEF TypeInv
<1>2. \A u \in Threads : Fit(run[u], db')
  BY FitStays DEF TypeInv
<1>3. QED
  BY <1>1, <1>2

LEMMA EvolvesSelf == ASSUME NEW d, Sound(d) PROVE Evolves(d, d)
<1>1. d.last \in Int
  BY DEF Sound, Inventory
<1>2. QED
  BY <1>1 DEF Evolves

(* The files and the records are left alone by a step that moves no thread *)
(* to or from a point where it holds a file, and changes no row.           *)
LEMMA Untouched ==
  ASSUME UNCHANGED <<db, files, edition, apart>>,
         \A u \in Threads :
           \/ run'[u] = run[u]
           \/ /\ ~Publishing(run'[u]) /\ ~Recording(run'[u]) /\ ~Withdrawing(run'[u])
              /\ ~Recording(run[u]) /\ ~Withdrawing(run[u])
  PROVE  (FileInv => FileInv') /\ (RecordInv => RecordInv')
<1>1. ASSUME FileInv PROVE FileInv'
  BY <1>1 DEF FileInv, Dev
<1>2. ASSUME RecordInv PROVE RecordInv'
  BY <1>2 DEF RecordInv, Available, Dev
<1>3. QED
  BY <1>1, <1>2

LEMMA ClaimsTypes ==
  ASSUME TypeInv, NEW t \in Threads, NEW c \in Claimings, Claims(t, c[1], c[2])
  PROVE  /\ TypeInv'
         /\ \A u \in Threads : u # t => run'[u] = run[u]
         /\ run'[t].op = FreeOp /\ run'[t].todo = run[t].todo /\ run'[t].kind = c[1]
         /\ run'[t].pc = c[2]
<1> DEFINE s == [run[t] EXCEPT !.op = FreeOp, !.pc = c[2]]
<1>1. /\ run[t] \in Thread /\ run \in [Threads -> Thread] /\ Fit(run[t], db)
      /\ ops \in [OpIds -> Ops]
  BY DEF TypeInv
<1>2. FreeOp \in OpIds
  BY DEF Claims, Room, FreeOp
<1>3. OpIds \subseteq Nat /\ 0 \notin OpIds
  BY DEF OpIds
<1>4. c[2] \in Pcs /\ c[1] \in {"notify", "refresh", "reboot"}
  BY DEF Claimings, Pcs
<1>5. run' = [run EXCEPT ![t] = s]
  BY <1>1 DEF Claims
<1>6. /\ s \in Thread /\ s.kind = c[1] /\ s.pc = c[2] /\ s.todo = run[t].todo
      /\ s.op = FreeOp /\ s.mac = run[t].mac
  BY <1>1, <1>2, <1>4 DEF Thread, Claims
<1>7. Dev(t) \in Ids /\ db.devices[Dev(t)].live
  BY DEF Claims, Live
<1>8. Dev(t) <= db.last
  <2>1. db.last \in Int
    BY DEF TypeInv, Sound, Inventory
  <2>2. QED
    BY <1>7, <2>1, IdsAre DEF TypeInv, Sound
<1> HIDE DEF s
<1>9. Fit(s, db)
  <2>1. Equipped(s)
    BY <1>1, <1>4, <1>6 DEF Fit, Equipped, OnPhone, Claims
  <2>2. ~Filing(run[t]) /\ ~Filing(s) /\ Operating(s)
    BY <1>6 DEF Filing, Operating, Claims, Claimings
  <2>3. QED
    BY <1>1, <1>2, <1>3, <1>6, <1>8, <2>1, <2>2 DEF Fit, Placed, Dev
<1>10. /\ run' \in [Threads -> Thread] /\ \A u \in Threads : Fit(run'[u], db')
       /\ run'[t] = s /\ \A u \in Threads : u # t => run'[u] = run[u]
  BY <1>5, <1>6, <1>9, Refits, EvolvesSelf DEF TypeInv, Claims
<1>11. ops' \in [OpIds -> Ops]
  <2>1. NoOp \in Ops
    BY DEF NoOp, Ops
  <2>2. \A o \in OpIds : [ops[o] EXCEPT !.status = "Failed"] \in Ops
    BY <1>1 DEF Ops
  <2>3. Recovered(Dev(t), c[1]) \in [OpIds -> Ops]
    BY <1>1, <2>1, <2>2 DEF Recovered
  <2>4. [type |-> c[1], id |-> Dev(t), status |-> "Running", overdue |-> FALSE] \in Ops
    BY <1>4, <1>7 DEF Ops
  <2>5. QED
    BY <1>1, <1>2, <2>3, <2>4 DEF Claims, Insert
<1>12. QED
  BY <1>6, <1>10, <1>11 DEF TypeInv, Claims

LEMMA ClaimsHeld ==
  ASSUME TypeInv, HeldInv, NEW t \in Threads, NEW c \in Claimings, Claims(t, c[1], c[2])
  PROVE  HeldInv'
<1> DEFINE type == c[1]
           table == IF type = "refresh" THEN ops ELSE Recovered(Dev(t), type)
           new == [type |-> type, id |-> Dev(t), status |-> "Running", overdue |-> FALSE]
<1>1. /\ ops \in [OpIds -> Ops] /\ type \in {"notify", "refresh", "reboot"}
      /\ Dev(t) \in Ids /\ 0 \notin Ids /\ Live(db, Dev(t))
  BY IdsAre DEF TypeInv, Claimings, Claims, Live
<1>2. FreeOp \in OpIds /\ ~Running(FreeOp) /\ Holds(FreeOp) = {} /\ FreeOp # 0
  <2>1. FreeOp \in OpIds /\ ~Running(FreeOp) /\ Holds(FreeOp) = {}
    BY DEF Claims, Room, FreeOp
  <2>2. QED
    BY <2>1 DEF OpIds
<1>3. ops' = [table EXCEPT ![FreeOp] = new]
  BY DEF Claims, Insert
<1>4. /\ table \in [OpIds -> Ops]
      /\ \A o \in OpIds : /\ table[o].status = "Running" => table[o] = ops[o]
                          /\ ~(Running(o) /\ ops[o].overdue) => table[o] = ops[o]
  <2>1. NoOp \in Ops /\ NoOp.status = "none"
    BY DEF NoOp, Ops
  <2>2. \A o \in OpIds : /\ [ops[o] EXCEPT !.status = "Failed"] \in Ops
                         /\ [ops[o] EXCEPT !.status = "Failed"].status = "Failed"
    BY <1>1 DEF Ops
  <2>3. QED
    BY <1>1, <2>1, <2>2 DEF Recovered
<1>5. type # "refresh" => ~Busy(table, Dev(t), type)
  BY DEF Claims
<1>6. /\ run'[t].op = FreeOp /\ run'[t].todo = run[t].todo /\ run'[t].kind = type
      /\ \A u \in Threads : u # t => run'[u] = run[u]
  BY ClaimsTypes
<1> HIDE DEF type, table, new
<1>7. /\ ops'[FreeOp] = new /\ \A o \in OpIds : o # FreeOp => ops'[o] = table[o]
  BY <1>2, <1>3, <1>4
<1>8. /\ new.type = type /\ new.id = Dev(t) /\ new.status = "Running" /\ ~new.overdue
  BY DEF new
<1>9. OneOperationAtATime'
  <2>1. SUFFICES ASSUME NEW o \in OpIds, NEW q \in OpIds, ops'[o].status = "Running",
                        ops'[q].status = "Running", o # q, ops'[o].id = ops'[q].id,
                        ops'[o].type = ops'[q].type
                 PROVE  ops'[o].id = 0 \/ ops'[o].type = "refresh"
    BY DEF OneOperationAtATime, Running
  <2>2. CASE o # FreeOp /\ q # FreeOp
    <3>1. ops'[o] = ops[o] /\ ops'[q] = ops[q]
      BY <1>4, <1>7, <2>1, <2>2
    <3>2. QED
      BY <2>1, <3>1 DEF HeldInv, OneOperationAtATime, Running
  <2>3. ASSUME NEW x \in OpIds, x # FreeOp, ops'[x].status = "Running", ops'[x].id = Dev(t),
               ops'[x].type = type
        PROVE  type = "refresh"
    BY <1>5, <1>7, <2>3 DEF Busy
  <2>4. QED
    BY <1>7, <1>8, <2>1, <2>2, <2>3
<1>10. OwnOps'
  BY <1>2, <1>6 DEF HeldInv, OwnOps, Holds
<1>11. ASSUME NEW u \in Threads, Early(run'[u])
       PROVE  HoldsOn(u)'
  <2>1. CASE u = t
    <3>1. type = "notify"
      BY <1>6, <1>11, <2>1 DEF Early
    <3>2. QED
      BY <1>1, <1>6, <1>7, <1>8, <2>1, <3>1 DEF HoldsOn, Dev
  <2>2. CASE u # t
    <3>1. run'[u] = run[u] /\ Early(run[u])
      BY <1>6, <1>11, <2>2
    <3>2. HoldsOn(u) /\ run[u].op \in OpIds
      BY <3>1, EarlyIs DEF HeldInv, TypeInv, Fit, Placed, Thread
    <3>3. ops'[run[u].op] = ops[run[u].op]
      BY <1>2, <1>4, <1>7, <3>2 DEF HoldsOn, Running
    <3>4. QED
      BY <3>1, <3>2, <3>3 DEF HoldsOn, Dev, Claims
  <2>3. QED
    BY <2>1, <2>2
<1>12. QED
  BY <1>9, <1>10, <1>11 DEF HeldInv

LEMMA ClaimsFiles ==
  ASSUME TypeInv, NEW t \in Threads, NEW c \in Claimings, Claims(t, c[1], c[2])
  PROVE  (FileInv => FileInv') /\ (RecordInv => RecordInv')
<1>1. /\ \A u \in Threads : u # t => run'[u] = run[u]
      /\ ~Publishing(run'[t]) /\ ~Recording(run'[t]) /\ ~Withdrawing(run'[t])
  BY ClaimsTypes DEF Claimings, Publishing, Recording, Withdrawing
<1>2. ~Recording(run[t]) /\ ~Withdrawing(run[t])
  BY DEF Claims, Recording, Withdrawing
<1>3. QED
  BY <1>1, <1>2, Untouched DEF Claims

(* The configuration is rendered: the row's accounts, or a bootstrap.      *)
LEMMA PreparesTypes ==
  ASSUME TypeInv, NEW t \in Threads, Prepares(t)
  PROVE  /\ TypeInv' /\ Evolves(db, db') /\ Same(db, db')
         /\ \A u \in Threads : u # t => run'[u] = run[u]
         /\ run'[t].kind = "notify" /\ run'[t].pc = "publish" /\ run'[t].todo = run[t].todo
         /\ run'[t].op = run[t].op /\ run'[t].content = Rendered(t)
         /\ run'[t].baseline = run[t].baseline /\ run'[t].mac = db.devices[Dev(t)].mac
<1> DEFINE s == [run[t] EXCEPT !.content = Rendered(t), !.pc = "publish",
                               !.assigned = db.devices[Dev(t)].accounts # 0,
                               !.mac = db.devices[Dev(t)].mac]
<1>1. /\ run[t] \in Thread /\ run \in [Threads -> Thread] /\ Fit(run[t], db)
      /\ Operating(run[t]) /\ Sound(db)
  BY DEF TypeInv, Prepares, Operating
<1>2. Dev(t) \in Ids /\ Dev(t) <= db.last
  BY <1>1, DevIs
<1>3. db.devices[Dev(t)].mac \in Macs /\ db.devices[Dev(t)].accounts \in Nat
  BY <1>1, <1>2 DEF Sound, Inventory, Device
<1>4. Rendered(t) \in Int
  BY <1>3 DEF Rendered, Bootstrap
<1>5. run' = [run EXCEPT ![t] = s]
  BY <1>1 DEF Prepares
<1>6. (db.devices[Dev(t)].accounts # 0) \in BOOLEAN
  OBVIOUS
<1>7. /\ s \in Thread /\ s.kind = "notify" /\ s.pc = "publish" /\ s.todo = run[t].todo
      /\ s.op = run[t].op /\ s.content = Rendered(t) /\ s.baseline = run[t].baseline
      /\ s.mac = db.devices[Dev(t)].mac
  <2> DEFINE a == db.devices[Dev(t)].accounts # 0
             x == db.devices[Dev(t)].mac
             r == Rendered(t)
  <2>1. s = [run[t] EXCEPT !.content = r, !.pc = "publish", !.assigned = a, !.mac = x]
    OBVIOUS
  <2>2. a \in BOOLEAN /\ x \in Macs /\ r \in Int
    BY <1>3, <1>4, <1>6
  <2> HIDE DEF s, a, x, r
  <2>3. /\ s \in Thread /\ s.kind = "notify" /\ s.pc = "publish" /\ s.todo = run[t].todo
        /\ s.op = run[t].op /\ s.content = r /\ s.baseline = run[t].baseline /\ s.mac = x
    BY <1>1, <2>1, <2>2 DEF Thread, Pcs, Prepares
  <2>4. QED
    BY <2>3 DEF r, x
<1> HIDE DEF s
<1>8. Sound(db') /\ Kept(db, db') /\ Same(db, db')
  BY <1>1, TouchedIs, StatusSet DEF Prepares
<1>9. Evolves(db, db')
  BY <1>1, <1>8, Evolution
<1>10. Fit(s, db)
  <2>1. Equipped(s)
    BY <1>1, <1>7 DEF Fit, Equipped, OnPhone, Prepares
  <2>2. Operating(s) /\ Filing(s)
    BY <1>7 DEF Operating, Filing
  <2>3. s.mac # "none"
    BY <1>3, <1>7, NoMacAssumption
  <2>4. QED
    BY <1>1, <1>2, <1>7, <2>1, <2>2, <2>3 DEF Fit, Placed, Dev
<1>11. Fit(s, db')
  BY <1>1, <1>8, <1>9, <1>10, FitStays
<1>12. /\ run' \in [Threads -> Thread] /\ \A u \in Threads : Fit(run'[u], db')
       /\ run'[t] = s /\ \A u \in Threads : u # t => run'[u] = run[u]
  BY <1>5, <1>7, <1>8, <1>9, <1>11, Refits
<1>13. QED
  BY <1>7, <1>8, <1>9, <1>12 DEF TypeInv, Prepares

(* Who is alone stays alone when nothing changes of the operations.        *)
LEMMA HeldStays ==
  ASSUME TypeInv, HeldInv, UNCHANGED ops,
         \A u \in Threads : run'[u].op \in {run[u].op, 0},
         \A u \in Threads : Early(run'[u]) =>
           Early(run[u]) /\ run'[u].op = run[u].op /\ run'[u].todo = run[u].todo,
         \A i \in Ids : i <= db.last /\ Live(db', i) => Live(db, i)
  PROVE  HeldInv'
<1>1. OneOperationAtATime'
  BY DEF HeldInv, OneOperationAtATime, Running
<1>2. OwnOps'
  BY DEF HeldInv, OwnOps
<1>3. ASSUME NEW u \in Threads, Early(run'[u])
      PROVE  HoldsOn(u)'
  <2>1. HoldsOn(u) /\ run'[u].op = run[u].op /\ run'[u].todo = run[u].todo
    BY <1>3 DEF HeldInv
  <2>2. Dev(u) \in Ids /\ Dev(u) <= db.last
    BY <1>3, EarlyIs, DevIs
  <2>3. QED
    BY <2>1, <2>2 DEF HoldsOn, Dev
<1>4. QED
  BY <1>1, <1>2, <1>3 DEF HeldInv

LEMMA HereSame ==
  ASSUME NEW d, NEW e, Same(d, e), NEW i \in Ids
  PROVE  Here(e, i) <=> Here(d, i)
BY DEF Same, Alike, Here

LEMMA PreparesKeeps ==
  ASSUME TypeInv, HeldInv, NEW t \in Threads, Prepares(t)
  PROVE  /\ HeldInv' /\ (FileInv => FileInv') /\ (RecordInv => RecordInv')
<1>1. /\ TypeInv' /\ Same(db, db')
      /\ \A u \in Threads : u # t => run'[u] = run[u]
      /\ run'[t].kind = "notify" /\ run'[t].pc = "publish" /\ run'[t].todo = run[t].todo
      /\ run'[t].op = run[t].op /\ run'[t].content = Rendered(t)
      /\ run'[t].baseline = run[t].baseline /\ run'[t].mac = db.devices[Dev(t)].mac
  BY PreparesTypes
<1>2. /\ UNCHANGED <<ops, files, edition, apart>> /\ run[t].kind = "notify" /\ run[t].pc = "prepare"
  BY DEF Prepares
<1>3. /\ \A i \in Ids : Here(db', i) <=> Here(db, i)
      /\ \A i \in Ids : Alike(db, db', i)
  BY <1>1, HereSame DEF Same
<1>4. HeldInv'
  <2>1. \A u \in Threads : run'[u].op = run[u].op /\ run'[u].todo = run[u].todo
    BY <1>1
  <2>2. \A u \in Threads : Early(run'[u]) => Early(run[u])
    BY <1>1, <1>2 DEF Early
  <2>3. \A i \in Ids : Live(db', i) => Live(db, i)
    BY <1>3 DEF Live, Alike
  <2>4. QED
    BY <1>2, <2>1, <2>2, <2>3, HeldStays
<1>5. Dev(t) \in Ids /\ Dev(t) <= db.last
  BY <1>2, DevIs DEF Operating
<1>6. db.devices[Dev(t)].accounts \in Nat
  BY <1>5 DEF TypeInv, Sound, Inventory, Device
<1>7. ASSUME FileInv
      PROVE  FileInv'
  <2>1. \A i \in Ids : db'.devices[i].live => db'.devices[i].accounts <= edition'
    BY <1>2, <1>3, <1>7 DEF FileInv, Alike
  <2>2. \A q \in Macs : files'[q] # NoFile => \E i \in Ids : db'.devices[i].mac = q
    BY <1>2, <1>3, <1>7 DEF FileInv, Alike
  <2>3. \A i \in Ids : Here(db', i) => files'[db'.devices[i].mac] <= db'.devices[i].accounts
    BY <1>2, <1>3, <1>7 DEF FileInv, Alike
  <2>4. /\ run'[t].content >= 0 /\ (run'[t].baseline => run'[t].content = 0)
        /\ run'[t].content <= db.devices[Dev(t)].accounts
        /\ ~run'[t].baseline => run'[t].content = db.devices[Dev(t)].accounts
    BY <1>1, <1>6 DEF Rendered, Bootstrap
  <2>5. \A u \in Threads : Publishing(run'[u]) \/ Recording(run'[u]) =>
          run'[u].content >= 0 /\ (run'[u].baseline => run'[u].content = 0)
    BY <1>1, <1>7, <2>4 DEF FileInv
  <2>6. ASSUME NEW u \in Threads, Publishing(run'[u]), Here(db', Head(run'[u].todo))
        PROVE  /\ run'[u].content <= db'.devices[Head(run'[u].todo)].accounts
               /\ run'[u].baseline \/ files'[run'[u].mac] <= run'[u].content
    <3>1. CASE u = t
      <4>1. Here(db, Dev(t)) /\ Alike(db, db', Dev(t)) /\ Head(run'[u].todo) = Dev(t)
        BY <1>1, <1>3, <1>5, <2>6, <3>1 DEF Dev
      <4>2. files[db.devices[Dev(t)].mac] <= db.devices[Dev(t)].accounts
        BY <1>5, <1>7, <4>1 DEF FileInv
      <4>3. QED
        BY <1>1, <1>2, <2>4, <3>1, <4>1, <4>2 DEF Alike
    <3>2. CASE u # t
      <4>1. run'[u] = run[u] /\ Dev(u) \in Ids
        BY <1>1, <2>6, <3>2, DevIs, EarlyIs
      <4>2. Here(db, Dev(u)) /\ Alike(db, db', Dev(u))
        BY <1>3, <2>6, <4>1 DEF Dev
      <4>3. QED
        BY <1>2, <1>7, <2>6, <4>1, <4>2 DEF FileInv, Alike, Dev
    <3>3. QED
      BY <3>1, <3>2
  <2>7. ASSUME NEW w \in Threads, Withdrawing(run'[w]), Here(db', Head(run'[w].todo))
        PROVE  /\ run'[w].content <= db'.devices[Head(run'[w].todo)].accounts
               /\ \A u \in Threads :
                    Publishing(run'[u]) /\ Head(run'[u].todo) = Head(run'[w].todo) =>
                      run'[u].baseline \/ run'[w].content <= run'[u].content
    <3>1. w # t
      BY <1>1, <2>7 DEF Withdrawing
    <3>2. run'[w] = run[w] /\ Dev(w) \in Ids
      BY <1>1, <2>7, <3>1, DevIs, EarlyIs
    <3>3. Here(db, Dev(w)) /\ Alike(db, db', Dev(w))
      BY <1>3, <2>7, <3>2 DEF Dev
    <3>4. /\ run[w].content <= db.devices[Dev(w)].accounts
          /\ \A u \in Threads : Publishing(run[u]) /\ Dev(u) = Dev(w) =>
               run[u].baseline \/ run[w].content <= run[u].content
      BY <1>7, <2>7, <3>2, <3>3 DEF FileInv
    <3>5. ASSUME NEW u \in Threads, Publishing(run'[u]), Head(run'[u].todo) = Head(run'[w].todo)
          PROVE  run'[u].baseline \/ run'[w].content <= run'[u].content
      <4>1. CASE u = t
        <5>1. Dev(t) = Dev(w)
          BY <1>1, <3>2, <3>5, <4>1 DEF Dev
        <5>2. QED
          BY <2>4, <3>2, <3>4, <4>1, <5>1
      <4>2. CASE u # t
        BY <1>1, <3>2, <3>4, <3>5, <4>2 DEF Dev
      <4>3. QED
        BY <4>1, <4>2
    <3>6. QED
      BY <3>2, <3>3, <3>4, <3>5 DEF Alike, Dev
  <2>8. QED
    BY <2>1, <2>2, <2>3, <2>5, <2>6, <2>7 DEF FileInv, Dev
<1>8. ASSUME RecordInv
      PROVE  RecordInv'
  <2>1. /\ ~Recording(run[t]) /\ ~Recording(run'[t]) /\ ~Withdrawing(run[t])
        /\ ~Withdrawing(run'[t])
    BY <1>1, <1>2 DEF Recording, Withdrawing
  <2>2. QED
    BY <1>1, <1>2, <1>3, <1>8, <2>1 DEF RecordInv, Available, Alike, Dev
<1>9. QED
  BY <1>4, <1>7, <1>8

(* A thread goes on with its operation, its phone and its list.            *)
LEMMA Advances ==
  ASSUME TypeInv, NEW t \in Threads, NEW s \in Thread, run' = [run EXCEPT ![t] = s],
         Early(run[t]), Filing(run[t]), Early(s), Filing(s), s.kind = run[t].kind,
         s.op = run[t].op, s.todo = run[t].todo, s.mac = run[t].mac,
         Sound(db'), Evolves(db, db')
  PROVE  /\ run' \in [Threads -> Thread] /\ \A u \in Threads : Fit(run'[u], db')
         /\ run'[t] = s /\ \A u \in Threads : u # t => run'[u] = run[u]
<1>1. Fit(run[t], db) /\ Operating(run[t]) /\ Operating(s) /\ run[t].kind = "notify"
  BY EarlyIs DEF TypeInv, Early
<1>2. Fit(s, db)
  BY <1>1 DEF Fit, Equipped, Placed, OnPhone
<1>3. Fit(s, db')
  BY <1>2, FitStays DEF TypeInv
<1>4. QED
  BY <1>3, Refits

LEMMA PublishesTypes ==
  ASSUME TypeInv, NEW t \in Threads, Publishes(t)
  PROVE  /\ TypeInv'
         /\ \A u \in Threads : u # t => run'[u] = run[u]
         /\ Recording(run'[t]) /\ run'[t].todo = run[t].todo /\ run'[t].op = run[t].op
         /\ run'[t].content = run[t].content /\ run'[t].baseline = run[t].baseline
         /\ run[t].mac \in Macs /\ files' \in [Macs -> Int]
         /\ Dev(t) \in Ids /\ run[t].mac = db.devices[Dev(t)].mac
<1> DEFINE s == [run[t] EXCEPT !.pc = "record"]
<1>1. /\ run[t] \in Thread /\ run \in [Threads -> Thread] /\ Fit(run[t], db)
      /\ Early(run[t]) /\ Filing(run[t]) /\ Sound(db) /\ run[t].kind = "notify"
  BY EarlyIs DEF TypeInv, Publishes, Publishing
<1>2. /\ s \in Thread /\ s.kind = "notify" /\ s.pc = "record" /\ s.todo = run[t].todo
      /\ s.op = run[t].op /\ s.content = run[t].content /\ s.baseline = run[t].baseline
      /\ s.mac = run[t].mac
  BY <1>1 DEF Thread, Pcs
<1>3. run' = [run EXCEPT ![t] = s]
  BY <1>1 DEF Publishes, Goto
<1> HIDE DEF s
<1>4. Early(s) /\ Filing(s) /\ Recording(s)
  BY <1>2 DEF Early, Filing, Recording
<1>5. /\ run' \in [Threads -> Thread] /\ \A u \in Threads : Fit(run'[u], db')
      /\ run'[t] = s /\ \A u \in Threads : u # t => run'[u] = run[u]
  BY <1>1, <1>2, <1>3, <1>4, Advances, EvolvesSelf DEF Publishes
<1>6. Dev(t) \in Ids /\ Dev(t) <= db.last /\ run[t].mac = db.devices[Dev(t)].mac
  BY <1>1, DevIs DEF Fit, Placed, Dev
<1>7. run[t].mac \in Macs
  BY <1>1, <1>6 DEF Sound
<1>8. files' \in [Macs -> Int]
  BY <1>1, <1>7 DEF TypeInv, Publishes, Thread
<1>9. QED
  BY <1>2, <1>4, <1>5, <1>6, <1>7, <1>8 DEF TypeInv, Publishes

LEMMA PublishesKeeps ==
  ASSUME TypeInv, HeldInv, NEW t \in Threads, Publishes(t)
  PROVE  /\ HeldInv' /\ (FileInv => FileInv') /\ (RecordInv => RecordInv')
<1>1. /\ \A u \in Threads : u # t => run'[u] = run[u]
      /\ Recording(run'[t]) /\ run'[t].todo = run[t].todo /\ run'[t].op = run[t].op
      /\ run'[t].content = run[t].content /\ run'[t].baseline = run[t].baseline
      /\ run[t].mac \in Macs
      /\ Dev(t) \in Ids /\ run[t].mac = db.devices[Dev(t)].mac
  BY PublishesTypes
<1>2. /\ UNCHANGED <<db, ops, edition>> /\ Publishing(run[t]) /\ Early(run[t])
      /\ apart' = apart \ {run[t].mac}
      /\ files \in [Macs -> Int] /\ files' = [files EXCEPT ![run[t].mac] = run[t].content]
      /\ Sound(db)
  BY EarlyIs DEF Publishes, TypeInv
<1>3. ~Publishing(run'[t]) /\ ~Withdrawing(run'[t]) /\ ~Withdrawing(run[t]) /\ ~Recording(run[t])
  BY <1>1, <1>2 DEF Publishing, Recording, Withdrawing
<1>4. HeldInv'
  <2>1. \A u \in Threads : run'[u].op = run[u].op /\ run'[u].todo = run[u].todo
    BY <1>1
  <2>2. \A u \in Threads : Early(run'[u]) => Early(run[u])
    BY <1>1, <1>2
  <2>3. QED
    BY <1>2, <2>1, <2>2, HeldStays
<1>5. files'[run[t].mac] = run[t].content /\ \A q \in Macs : q # run[t].mac => files'[q] = files[q]
  BY <1>1, <1>2
<1>6. ASSUME NEW i \in Ids, Here(db, i), db.devices[i].mac = run[t].mac
      PROVE  i = Dev(t)
  BY <1>1, <1>2, <1>6, SameRow
<1>7. \A i \in Ids : Here(db, i) => db.devices[i].mac \in Macs
  <2>1. db.last \in Int
    BY <1>2 DEF Sound, Inventory
  <2>2. QED
    BY <1>2, <2>1, IdsAre DEF Here, Sound
<1>8. ASSUME NEW u \in Threads, u # t, Early(run[u]), Here(db, Dev(u))
      PROVE  run[u].mac # run[t].mac \/ ~Filing(run[u])
  <2>1. SUFFICES ASSUME Filing(run[u]), run[u].mac = run[t].mac
                 PROVE  FALSE
    OBVIOUS
  <2>2. Dev(u) \in Ids /\ run[u].mac = db.devices[Dev(u)].mac
    BY <2>1, DevIs DEF TypeInv, Fit, Placed, Dev
  <2>3. Dev(u) = Dev(t) /\ Live(db, Dev(t))
    BY <1>6, <1>8, <2>1, <2>2 DEF Here, Live
  <2>4. QED
    BY <1>2, <1>8, <2>3, Alone
<1>9. ASSUME FileInv
      PROVE  FileInv'
  <2>1. \A i \in Ids : db'.devices[i].live => db'.devices[i].accounts <= edition'
    BY <1>2, <1>9 DEF FileInv
  <2>2. ASSUME NEW q \in Macs, files'[q] # NoFile
        PROVE  \E i \in Ids : db'.devices[i].mac = q
    BY <1>1, <1>2, <1>5, <1>9, <2>2 DEF FileInv
  <2>3. ASSUME NEW i \in Ids, Here(db', i)
        PROVE  files'[db'.devices[i].mac] <= db'.devices[i].accounts
    <3>1. CASE db.devices[i].mac = run[t].mac
      <4>1. i = Dev(t) /\ Here(db, Dev(t))
        BY <1>2, <1>6, <2>3, <3>1
      <4>2. run[t].content <= db.devices[Dev(t)].accounts
        BY <1>2, <1>9, <4>1 DEF FileInv
      <4>3. QED
        BY <1>2, <1>5, <3>1, <4>1, <4>2
    <3>2. CASE db.devices[i].mac # run[t].mac
      BY <1>2, <1>5, <1>7, <1>9, <2>3, <3>2 DEF FileInv
    <3>3. QED
      BY <3>1, <3>2
  <2>4. \A u \in Threads : Publishing(run'[u]) \/ Recording(run'[u]) =>
          run'[u].content >= 0 /\ (run'[u].baseline => run'[u].content = 0)
    BY <1>1, <1>2, <1>9 DEF FileInv
  <2>5. ASSUME NEW u \in Threads, Publishing(run'[u]), Here(db', Head(run'[u].todo))
        PROVE  /\ run'[u].content <= db'.devices[Head(run'[u].todo)].accounts
               /\ run'[u].baseline \/ files'[run'[u].mac] <= run'[u].content
    <3>1. u # t /\ run'[u] = run[u] /\ Here(db, Dev(u))
      BY <1>1, <1>2, <1>3, <2>5 DEF Dev
    <3>2. Early(run[u]) /\ Filing(run[u]) /\ Dev(u) \in Ids
      BY <2>5, <3>1, EarlyIs, DevIs
    <3>3. run[u].mac # run[t].mac
      BY <1>8, <3>1, <3>2
    <3>4. run[u].mac \in Macs
      BY <1>7, <3>1, <3>2 DEF TypeInv, Fit, Placed, Dev
    <3>5. files'[run[u].mac] = files[run[u].mac]
      BY <1>5, <3>3, <3>4
    <3>6. QED
      BY <1>2, <1>9, <2>5, <3>1, <3>5 DEF FileInv, Dev
  <2>6. ASSUME NEW w \in Threads, Withdrawing(run'[w]), Here(db', Head(run'[w].todo))
        PROVE  /\ run'[w].content <= db'.devices[Head(run'[w].todo)].accounts
               /\ \A u \in Threads :
                    Publishing(run'[u]) /\ Head(run'[u].todo) = Head(run'[w].todo) =>
                      run'[u].baseline \/ run'[w].content <= run'[u].content
    <3>1. run'[w] = run[w] /\ \A u \in Threads : Publishing(run'[u]) => run'[u] = run[u]
      BY <1>1, <1>3, <2>6
    <3>2. QED
      BY <1>2, <1>9, <2>6, <3>1 DEF FileInv, Dev
  <2>7. QED
    BY <2>1, <2>2, <2>3, <2>4, <2>5, <2>6 DEF FileInv, Dev
<1>10. ASSUME RecordInv
       PROVE  RecordInv'
  <2>1. SUFFICES ASSUME NEW i \in Ids, Here(db', i), db'.devices[i].mac \notin apart'
                 PROVE  /\ (/\ db'.devices[i].config # NoFile
                            /\ \A u \in Threads :
                                 ~(Recording(run'[u]) /\ Head(run'[u].todo) = i)) =>
                             Available(i, db.devices[i].config)'
                        /\ \A u \in Threads : Recording(run'[u]) /\ Head(run'[u].todo) = i =>
                             Available(i, run[u].content)'
    BY DEF RecordInv, Dev
  <2>2. Here(db, i)
    BY <1>2, <2>1
  <2>3. CASE i = Dev(t)
    <3>1. ASSUME NEW u \in Threads, Recording(run'[u]), Head(run'[u].todo) = i
          PROVE  u = t
      <4>1. SUFFICES ASSUME u # t PROVE FALSE
        OBVIOUS
      <4>2. Early(run[u]) /\ Dev(u) = Dev(t)
        BY <1>1, <2>3, <3>1, <4>1, EarlyIs DEF Dev
      <4>3. Live(db, Dev(t))
        BY <1>1, <2>2, <2>3 DEF Here, Live
      <4>4. QED
        BY <1>2, <4>1, <4>2, <4>3, Alone
    <3>2. Head(run'[t].todo) = i
      BY <1>1, <2>3 DEF Dev
    <3>3. Available(i, run[t].content)'
      BY <1>1, <1>2, <1>5, <2>3 DEF Available
    <3>4. QED
      BY <1>1, <3>1, <3>2, <3>3
  <2>4. CASE i # Dev(t)
    <3>1. /\ db.devices[i].mac # run[t].mac /\ db.devices[i].mac \in Macs
          /\ db.devices[i].mac \notin apart
      BY <1>2, <1>6, <1>7, <2>1, <2>2, <2>4
    <3>2. files'[db.devices[i].mac] = files[db.devices[i].mac]
      BY <1>5, <3>1
    <3>3. \A u \in Threads : Withdrawing(run[u]) => run'[u] = run[u]
      BY <1>1, <1>3
    <3>4. ASSUME NEW c, Available(i, c)
          PROVE  \/ files'[db'.devices[i].mac] = c
                 \/ /\ files'[db'.devices[i].mac] = NoFile
                    /\ \E u \in Threads : /\ Withdrawing(run'[u]) /\ Head(run'[u].todo) = i
                                          /\ run'[u].content = c
      BY <1>2, <3>2, <3>3, <3>4 DEF Available, Dev
    <3>5. \A u \in Threads : Head(run'[u].todo) = i => run'[u] = run[u]
      BY <1>1, <2>4 DEF Dev
    <3>6. ASSUME NEW u \in Threads, Recording(run'[u]), Head(run'[u].todo) = i
          PROVE  Available(i, run[u].content)'
      <4>1. Available(i, run[u].content) /\ run'[u] = run[u]
        BY <1>10, <2>2, <3>1, <3>5, <3>6 DEF RecordInv, Dev
      <4>2. QED
        BY <3>4, <4>1 DEF Available, Dev
    <3>7. ASSUME db'.devices[i].config # NoFile,
                 \A u \in Threads : ~(Recording(run'[u]) /\ Head(run'[u].todo) = i)
          PROVE  Available(i, db.devices[i].config)'
      <4>1. \A u \in Threads : ~(Recording(run[u]) /\ Dev(u) = i)
        BY <1>1, <1>3, <3>7 DEF Dev
      <4>2. Available(i, db.devices[i].config)
        BY <1>2, <1>10, <2>2, <3>1, <3>7, <4>1 DEF RecordInv
      <4>3. QED
        BY <1>2, <3>4, <4>2 DEF Available, Dev
    <3>8. QED
      BY <3>6, <3>7
  <2>5. QED
    BY <2>3, <2>4
<1>11. QED
  BY <1>4, <1>9, <1>10

LEMMA RecordsTypes ==
  ASSUME TypeInv, NEW t \in Threads, Records(t)
  PROVE  /\ TypeInv' /\ Recorded(db, db', Dev(t), run[t].content) /\ Dev(t) \in Ids
         /\ \A u \in Threads : u # t => run'[u] = run[u]
         /\ run'[t].kind = "notify" /\ run'[t].pc = "send" /\ run'[t].todo = run[t].todo
         /\ run'[t].op = run[t].op
<1> DEFINE s == [run[t] EXCEPT !.pc = "send", !.content = NoFile]
<1>1. /\ run[t] \in Thread /\ run \in [Threads -> Thread] /\ Sound(db)
      /\ Early(run[t]) /\ Filing(run[t]) /\ run[t].kind = "notify"
  BY EarlyIs DEF TypeInv, Records, Recording
<1>2. /\ s \in Thread /\ s.kind = "notify" /\ s.pc = "send" /\ s.todo = run[t].todo
      /\ s.op = run[t].op /\ s.mac = run[t].mac
  <2>1. NoFile \in Int
    BY DEF NoFile
  <2>2. QED
    BY <1>1, <2>1 DEF Thread, Pcs
<1>3. run' = [run EXCEPT ![t] = s]
  BY <1>1 DEF Records
<1> HIDE DEF s
<1>4. Early(s) /\ Filing(s)
  BY <1>2 DEF Early, Filing
<1>5. Dev(t) \in Ids /\ run[t].content \in Int
  BY <1>1 DEF Records, Live, Thread
<1>6. Sound(db') /\ Recorded(db, db', Dev(t), run[t].content)
  BY <1>1, <1>5, SavesConfig DEF Records
<1>7. Evolves(db, db')
  BY <1>1, <1>6, Evolution
<1>8. /\ run' \in [Threads -> Thread] /\ \A u \in Threads : Fit(run'[u], db')
      /\ run'[t] = s /\ \A u \in Threads : u # t => run'[u] = run[u]
  BY <1>1, <1>2, <1>3, <1>4, <1>6, <1>7, Advances
<1>9. QED
  BY <1>2, <1>5, <1>6, <1>8 DEF TypeInv, Records

LEMMA RecordsKeeps ==
  ASSUME TypeInv, HeldInv, NEW t \in Threads, Records(t)
  PROVE  /\ HeldInv' /\ (FileInv => FileInv') /\ (RecordInv => RecordInv')
<1>1. /\ TypeInv' /\ Recorded(db, db', Dev(t), run[t].content) /\ Dev(t) \in Ids
      /\ \A u \in Threads : u # t => run'[u] = run[u]
      /\ run'[t].kind = "notify" /\ run'[t].pc = "send" /\ run'[t].todo = run[t].todo
      /\ run'[t].op = run[t].op
  BY RecordsTypes
<1>2. /\ UNCHANGED <<files, ops, edition, apart>> /\ Recording(run[t]) /\ Early(run[t])
  BY EarlyIs DEF Records
<1>3. /\ \A i \in Ids : /\ db'.devices[i].live = db.devices[i].live
                        /\ db'.devices[i].mac = db.devices[i].mac
                        /\ db'.devices[i].accounts = db.devices[i].accounts
                        /\ i # Dev(t) => db'.devices[i].config = db.devices[i].config
      /\ db'.devices[Dev(t)].config = run[t].content
  BY <1>1 DEF Recorded, Alike
<1>4. \A i \in Ids : Here(db', i) <=> Here(db, i)
  BY <1>3 DEF Here
<1>5. /\ ~Publishing(run'[t]) /\ ~Recording(run'[t]) /\ ~Withdrawing(run'[t])
      /\ ~Publishing(run[t]) /\ ~Withdrawing(run[t])
  BY <1>1, <1>2 DEF Publishing, Recording, Withdrawing
<1>6. HeldInv'
  <2>1. \A u \in Threads : run'[u].op = run[u].op /\ run'[u].todo = run[u].todo
    BY <1>1
  <2>2. \A u \in Threads : Early(run'[u]) => Early(run[u])
    BY <1>1, <1>2
  <2>3. \A i \in Ids : Live(db', i) => Live(db, i)
    BY <1>3 DEF Live
  <2>4. QED
    BY <1>2, <2>1, <2>2, <2>3, HeldStays
<1>7. \A u \in Threads : Publishing(run'[u]) \/ Withdrawing(run'[u]) =>
        run'[u] = run[u] /\ Dev(u) \in Ids
  BY <1>1, <1>5, EarlyIs, DevIs
<1>8. ASSUME FileInv
      PROVE  FileInv'
  <2>1. /\ \A i \in Ids : db'.devices[i].live => db'.devices[i].accounts <= edition'
        /\ \A q \in Macs : files'[q] # NoFile => \E i \in Ids : db'.devices[i].mac = q
        /\ \A i \in Ids : Here(db', i) => files'[db'.devices[i].mac] <= db'.devices[i].accounts
    BY <1>2, <1>3, <1>4, <1>8 DEF FileInv
  <2>2. \A u \in Threads : Publishing(run'[u]) \/ Recording(run'[u]) =>
          run'[u].content >= 0 /\ (run'[u].baseline => run'[u].content = 0)
    BY <1>1, <1>5, <1>8 DEF FileInv
  <2>3. ASSUME NEW u \in Threads, Publishing(run'[u]), Here(db', Head(run'[u].todo))
        PROVE  /\ run'[u].content <= db'.devices[Head(run'[u].todo)].accounts
               /\ run'[u].baseline \/ files'[run'[u].mac] <= run'[u].content
    BY <1>2, <1>3, <1>4, <1>7, <1>8, <2>3 DEF FileInv, Dev
  <2>4. ASSUME NEW w \in Threads, Withdrawing(run'[w]), Here(db', Head(run'[w].todo))
        PROVE  /\ run'[w].content <= db'.devices[Head(run'[w].todo)].accounts
               /\ \A u \in Threads :
                    Publishing(run'[u]) /\ Head(run'[u].todo) = Head(run'[w].todo) =>
                      run'[u].baseline \/ run'[w].content <= run'[u].content
    BY <1>2, <1>3, <1>4, <1>7, <1>8, <2>4 DEF FileInv, Dev
  <2>5. QED
    BY <2>1, <2>2, <2>3, <2>4 DEF FileInv, Dev
<1>9. ASSUME RecordInv
      PROVE  RecordInv'
  <2>1. SUFFICES ASSUME NEW i \in Ids, Here(db', i), db'.devices[i].mac \notin apart'
                 PROVE  /\ (/\ db'.devices[i].config # NoFile
                            /\ \A u \in Threads :
                                 ~(Recording(run'[u]) /\ Head(run'[u].todo) = i)) =>
                             Available(i, db.devices[i].config)'
                        /\ \A u \in Threads : Recording(run'[u]) /\ Head(run'[u].todo) = i =>
                             Available(i, run[u].content)'
    BY DEF RecordInv, Dev
  <2>2. Here(db, i) /\ db.devices[i].mac \notin apart
    BY <1>2, <1>3, <1>4, <2>1
  <2>3. \A u \in Threads : Withdrawing(run[u]) => run'[u] = run[u]
    BY <1>1, <1>5
  <2>4. ASSUME NEW c, Available(i, c)
        PROVE  \/ files'[db'.devices[i].mac] = c
               \/ /\ files'[db'.devices[i].mac] = NoFile
                  /\ \E u \in Threads : /\ Withdrawing(run'[u]) /\ Head(run'[u].todo) = i
                                        /\ run'[u].content = c
    BY <1>2, <1>3, <2>3, <2>4 DEF Available, Dev
  <2>5. ASSUME NEW u \in Threads, Recording(run'[u]), Head(run'[u].todo) = i
        PROVE  Available(i, run[u].content)'
    <3>1. u # t /\ run'[u] = run[u]
      BY <1>1, <1>5, <2>5
    <3>2. Available(i, run[u].content)
      BY <1>9, <2>2, <2>5, <3>1 DEF RecordInv, Dev
    <3>3. QED
      BY <2>4, <3>1, <3>2 DEF Available, Dev
  <2>6. ASSUME db'.devices[i].config # NoFile,
               \A u \in Threads : ~(Recording(run'[u]) /\ Head(run'[u].todo) = i)
        PROVE  Available(i, db.devices[i].config)'
    <3>1. Available(i, db'.devices[i].config)
      <4>1. CASE i = Dev(t)
        BY <1>2, <1>3, <1>9, <2>2, <4>1 DEF RecordInv
      <4>2. CASE i # Dev(t)
        <5>1. \A u \in Threads : ~(Recording(run[u]) /\ Dev(u) = i)
          BY <1>1, <2>6, <4>2 DEF Dev
        <5>2. QED
          BY <1>3, <1>9, <2>2, <2>6, <4>2, <5>1 DEF RecordInv
      <4>3. QED
        BY <4>1, <4>2
    <3>2. QED
      BY <2>4, <3>1 DEF Available, Dev
  <2>7. QED
    BY <2>5, <2>6
<1>10. QED
  BY <1>6, <1>8, <1>9

(* Of two deletions of a phone, nothing stops the second one: it finds a    *)
(* file of its own, or the phone is one whose file and record may differ.  *)
CrossInv ==
  \A t, u \in Threads :
    Withdrawing(run[t]) /\ Withdrawing(run[u]) /\ Dev(t) = Dev(u) =>
      t = u \/ files[run[t].mac] # NoFile \/ run[t].mac \in apart

LEMMA ArchivesTypes ==
  ASSUME TypeInv, NEW t \in Threads, Archives(t)
  PROVE  /\ TypeInv'
         /\ \A u \in Threads : u # t => run'[u] = run[u]
         /\ Withdrawing(run'[t]) /\ run'[t].todo = run[t].todo /\ run'[t].op = run[t].op
         /\ run'[t].content = files[db.devices[Dev(t)].mac]
         /\ run'[t].mac = db.devices[Dev(t)].mac
         /\ Dev(t) \in Ids /\ db.devices[Dev(t)].mac \in Macs
<1> DEFINE p == db.devices[Dev(t)].mac
           s == [run[t] EXCEPT !.pc = "row", !.mac = p, !.content = files[p]]
<1>1. /\ run[t] \in Thread /\ run \in [Threads -> Thread] /\ Fit(run[t], db) /\ Sound(db)
      /\ run[t].kind = "delete" /\ run[t].pc = "check" /\ files \in [Macs -> Int]
  BY DEF TypeInv, Archives
<1>2. Dev(t) \in Ids /\ Dev(t) <= db.last
  <2>1. Dev(t) \in Ids /\ db.devices[Dev(t)].live /\ db.last \in Int
    BY <1>1 DEF Archives, Live, Sound, Inventory
  <2>2. QED
    BY <1>1, <2>1, IdsAre DEF Sound
<1>3. p \in Macs
  BY <1>1, <1>2 DEF Sound
<1>4. run' = [run EXCEPT ![t] = s]
  BY <1>1 DEF Archives
<1>5. files' = [files EXCEPT ![p] = NoFile]
  BY DEF Archives
<1> HIDE DEF p
<1>6. /\ s \in Thread /\ s.kind = "delete" /\ s.pc = "row" /\ s.todo = run[t].todo
      /\ s.op = run[t].op /\ s.mac = p /\ s.content = files[p]
  BY <1>1, <1>3 DEF Thread, Pcs
<1> HIDE DEF s
<1>7. Fit(s, db)
  <2>1. ~Operating(run[t]) /\ ~Operating(s) /\ Filing(s) /\ s.mac # "none"
    BY <1>1, <1>3, <1>6, NoMacAssumption DEF Operating, Filing
  <2>2. QED
    BY <1>1, <1>2, <1>6, <2>1 DEF Fit, Equipped, Placed, OnPhone, Dev, p
<1>8. /\ run' \in [Threads -> Thread] /\ \A u \in Threads : Fit(run'[u], db')
      /\ run'[t] = s /\ \A u \in Threads : u # t => run'[u] = run[u]
  BY <1>1, <1>4, <1>6, <1>7, Refits, EvolvesSelf DEF Archives
<1>9. files' \in [Macs -> Int]
  <2>1. NoFile \in Int
    BY DEF NoFile
  <2>2. QED
    BY <1>1, <1>5, <2>1
<1>10. QED
  BY <1>2, <1>3, <1>6, <1>8, <1>9 DEF TypeInv, Archives, Withdrawing, p

LEMMA ArchivesKeeps ==
  ASSUME TypeInv, HeldInv, NEW t \in Threads, Archives(t)
  PROVE  /\ HeldInv' /\ (FileInv => FileInv')
         /\ (RecordInv => RecordInv')
<1> DEFINE p == db.devices[Dev(t)].mac
<1>1. /\ \A u \in Threads : u # t => run'[u] = run[u]
      /\ Withdrawing(run'[t]) /\ run'[t].todo = run[t].todo /\ run'[t].op = run[t].op
      /\ run'[t].content = files[p] /\ run'[t].mac = p
      /\ Dev(t) \in Ids /\ p \in Macs
  BY ArchivesTypes
<1>2. /\ UNCHANGED <<db, ops, edition>> /\ Sound(db) /\ files \in [Macs -> Int]
      /\ apart \subseteq apart' /\ (Holding("row", p) # {} => p \in apart')
      /\ files'[p] = NoFile /\ \A q \in Macs : q # p => files'[q] = files[q]
      /\ run[t].kind = "delete" /\ run[t].pc = "check"
  BY <1>1 DEF Archives, TypeInv
<1>3. /\ ~Publishing(run'[t]) /\ ~Recording(run'[t]) /\ ~Early(run'[t])
      /\ ~Publishing(run[t]) /\ ~Recording(run[t]) /\ ~Withdrawing(run[t])
  BY <1>1, <1>2 DEF Publishing, Recording, Withdrawing, Early
<1>4. HeldInv'
  <2>1. \A u \in Threads : run'[u].op = run[u].op /\ run'[u].todo = run[u].todo
    BY <1>1
  <2>2. \A u \in Threads : Early(run'[u]) => Early(run[u])
    BY <1>1, <1>3
  <2>3. QED
    BY <1>2, <2>1, <2>2, HeldStays
<1>5. ASSUME NEW i \in Ids, Here(db, i)
      PROVE  db.devices[i].mac \in Macs /\ (db.devices[i].mac = p => i = Dev(t))
  <2>1. db.last \in Int
    BY <1>2 DEF Sound, Inventory
  <2>2. QED
    BY <1>1, <1>2, <1>5, <2>1, IdsAre, SameRow DEF Here, Sound
<1>6. \A i \in Ids : db.devices[i].accounts \in Nat
  BY <1>2 DEF Sound, Inventory, Device
<1> HIDE DEF p
<1>7. ASSUME FileInv
      PROVE  FileInv'
  <2>1. \A i \in Ids : db'.devices[i].live => db'.devices[i].accounts <= edition'
    BY <1>2, <1>7 DEF FileInv
  <2>2. \A q \in Macs : files'[q] # NoFile => \E i \in Ids : db'.devices[i].mac = q
    BY <1>1, <1>2, <1>7 DEF FileInv
  <2>3. ASSUME NEW i \in Ids, Here(db', i)
        PROVE  files'[db'.devices[i].mac] <= db'.devices[i].accounts
    <3>1. CASE db.devices[i].mac = p
      BY <1>2, <1>6, <3>1 DEF NoFile
    <3>2. CASE db.devices[i].mac # p
      BY <1>2, <1>5, <1>7, <2>3, <3>2 DEF FileInv
    <3>3. QED
      BY <3>1, <3>2
  <2>4. \A u \in Threads : Publishing(run'[u]) \/ Recording(run'[u]) =>
          run'[u].content >= 0 /\ (run'[u].baseline => run'[u].content = 0)
    BY <1>1, <1>3, <1>7 DEF FileInv
  <2>5. ASSUME NEW u \in Threads, Publishing(run'[u])
        PROVE  /\ run'[u] = run[u] /\ Dev(u) \in Ids /\ run[u].mac = db.devices[Dev(u)].mac
               /\ run[u].content \in Int /\ run[u].mac \in Macs
    <3>1. run'[u] = run[u] /\ Filing(run[u]) /\ Fit(run[u], db)
      BY <1>1, <1>3, <2>5, EarlyIs DEF TypeInv
    <3>2. Dev(u) \in Ids /\ Dev(u) <= db.last
      BY <3>1, DevIs
    <3>3. QED
      BY <1>2, <3>1, <3>2 DEF Fit, Equipped, Placed, Thread, Dev, Sound
  <2>6. ASSUME NEW u \in Threads, Publishing(run'[u]), Here(db', Head(run'[u].todo))
        PROVE  /\ run'[u].content <= db'.devices[Head(run'[u].todo)].accounts
               /\ run'[u].baseline \/ files'[run'[u].mac] <= run'[u].content
    <3>1. /\ run'[u] = run[u] /\ Here(db, Dev(u)) /\ Publishing(run[u])
          /\ run[u].content \in Int /\ run[u].mac \in Macs
      BY <1>2, <2>5, <2>6 DEF Dev
    <3>2. /\ run[u].content <= db.devices[Dev(u)].accounts /\ run[u].content >= 0
          /\ run[u].baseline \/ files[run[u].mac] <= run[u].content
      BY <1>7, <3>1 DEF FileInv
    <3>3. files'[run[u].mac] \in {files[run[u].mac], NoFile}
      BY <1>2, <3>1
    <3>4. QED
      BY <1>2, <3>1, <3>2, <3>3 DEF NoFile, Dev
  <2>7. ASSUME NEW w \in Threads, Withdrawing(run'[w]), Here(db', Head(run'[w].todo))
        PROVE  /\ run'[w].content <= db'.devices[Head(run'[w].todo)].accounts
               /\ \A u \in Threads :
                    Publishing(run'[u]) /\ Head(run'[u].todo) = Head(run'[w].todo) =>
                      run'[u].baseline \/ run'[w].content <= run'[u].content
    <3>1. CASE w = t
      <4>1. Here(db, Dev(t)) /\ Head(run'[w].todo) = Dev(t)
        BY <1>1, <1>2, <2>7, <3>1 DEF Dev
      <4>2. files[p] <= db.devices[Dev(t)].accounts
        BY <1>1, <1>7, <4>1 DEF FileInv, p
      <4>3. ASSUME NEW u \in Threads, Publishing(run'[u]),
                   Head(run'[u].todo) = Head(run'[w].todo)
            PROVE  run'[u].baseline \/ run'[w].content <= run'[u].content
        <5>1. /\ run'[u] = run[u] /\ Dev(u) = Dev(t) /\ run[u].mac = p /\ Publishing(run[u])
          BY <2>5, <4>1, <4>3 DEF Dev, p
        <5>2. run[u].baseline \/ files[p] <= run[u].content
          BY <1>7, <4>1, <5>1 DEF FileInv
        <5>3. QED
          BY <1>1, <3>1, <5>1, <5>2
      <4>4. QED
        BY <1>1, <1>2, <3>1, <4>1, <4>2, <4>3
    <3>2. CASE w # t
      <4>1. run'[w] = run[w] /\ Here(db, Dev(w)) /\ Withdrawing(run[w])
        BY <1>1, <1>2, <2>7, <3>2 DEF Dev
      <4>2. \A u \in Threads : Publishing(run'[u]) => run'[u] = run[u]
        BY <2>5
      <4>3. QED
        BY <1>2, <1>7, <4>1, <4>2 DEF FileInv, Dev
    <3>3. QED
      BY <3>1, <3>2
  <2>8. QED
    BY <2>1, <2>2, <2>3, <2>4, <2>6, <2>7 DEF FileInv, Dev
<1>8. ASSUME RecordInv
      PROVE  RecordInv'
  <2>1. SUFFICES ASSUME NEW i \in Ids, Here(db', i), db'.devices[i].mac \notin apart'
                 PROVE  /\ (/\ db'.devices[i].config # NoFile
                            /\ \A u \in Threads :
                                 ~(Recording(run'[u]) /\ Head(run'[u].todo) = i)) =>
                             Available(i, db.devices[i].config)'
                        /\ \A u \in Threads : Recording(run'[u]) /\ Head(run'[u].todo) = i =>
                             Available(i, run[u].content)'
    BY DEF RecordInv, Dev
  <2>2. Here(db, i) /\ db.devices[i].mac \notin apart
    BY <1>2, <2>1
  <2>3. \A u \in Threads : Withdrawing(run[u]) => run'[u] = run[u] /\ u # t
    BY <1>1, <1>3
  <2>4. ASSUME NEW c, Available(i, c)
        PROVE  \/ files'[db'.devices[i].mac] = c
               \/ /\ files'[db'.devices[i].mac] = NoFile
                  /\ \E u \in Threads : /\ Withdrawing(run'[u]) /\ Head(run'[u].todo) = i
                                        /\ run'[u].content = c
    <3>1. CASE i = Dev(t)
      <4>1. \A u \in Threads : Withdrawing(run[u]) => Dev(u) # i
        <5>1. p \notin apart' /\ p = db.devices[i].mac
          BY <1>2, <2>1, <3>1 DEF p
        <5>2. \A u \in Threads : Withdrawing(run[u]) /\ Dev(u) = i => run[u].mac = p
          BY <5>1, EarlyIs DEF TypeInv, Fit, Placed, Dev
        <5>3. \A u \in Threads : Withdrawing(run[u]) /\ Dev(u) = i => u \in Holding("row", p)
          BY <5>2 DEF Holding, Withdrawing
        <5>4. QED
          BY <1>2, <5>1, <5>3
      <4>2. files[p] = c
        BY <2>4, <3>1, <4>1 DEF Available, p
      <4>3. Withdrawing(run'[t]) /\ Head(run'[t].todo) = i /\ run'[t].content = c
        BY <1>1, <3>1, <4>2 DEF Dev
      <4>4. files'[db'.devices[i].mac] = NoFile
        BY <1>2, <3>1 DEF p
      <4>5. QED
        BY <4>3, <4>4
    <3>2. CASE i # Dev(t)
      <4>1. files'[db.devices[i].mac] = files[db.devices[i].mac]
        BY <1>2, <1>5, <2>2, <3>2
      <4>2. QED
        BY <1>2, <2>3, <2>4, <4>1 DEF Available, Dev
    <3>3. QED
      BY <3>1, <3>2
  <2>5. ASSUME NEW u \in Threads, Recording(run'[u]), Head(run'[u].todo) = i
        PROVE  Available(i, run[u].content)'
    <3>1. run'[u] = run[u]
      BY <1>1, <1>3, <2>5
    <3>2. Available(i, run[u].content)
      BY <1>8, <2>2, <2>5, <3>1 DEF RecordInv, Dev
    <3>3. QED
      BY <2>4, <3>1, <3>2 DEF Available, Dev
  <2>6. ASSUME db'.devices[i].config # NoFile,
               \A u \in Threads : ~(Recording(run'[u]) /\ Head(run'[u].todo) = i)
        PROVE  Available(i, db.devices[i].config)'
    <3>1. \A u \in Threads : ~(Recording(run[u]) /\ Dev(u) = i)
      BY <1>1, <1>3, <2>6 DEF Dev
    <3>2. Available(i, db.devices[i].config)
      BY <1>2, <1>8, <2>2, <2>6, <3>1 DEF RecordInv
    <3>3. QED
      BY <1>2, <2>4, <3>2 DEF Available, Dev
  <2>7. QED
    BY <2>5, <2>6
<1>9. QED
  BY <1>4, <1>7, <1>8

LEMMA RowGoesTypes ==
  ASSUME TypeInv, NEW t \in Threads, RowGoes(t)
  PROVE  /\ TypeInv' /\ Deleted(db, db', Dev(t)) /\ Evolves(db, db') /\ Dev(t) \in Ids
         /\ Away(run'[t]) /\ \A u \in Threads : u # t => run'[u] = run[u]
<1>1. /\ run[t] \in Thread /\ run \in [Threads -> Thread] /\ Fit(run[t], db) /\ Sound(db)
      /\ run[t].kind \in OnPhone /\ Filing(run[t]) /\ ops \in [OpIds -> Ops]
  BY DEF TypeInv, RowGoes, Withdrawing, Filing, OnPhone
<1>2. Dev(t) \in Ids
  BY <1>1, DevIs
<1>3. Sound(db') /\ Deleted(db, db', Dev(t))
  BY <1>1, <1>2, Deletes DEF RowGoes
<1>4. Evolves(db, db')
  BY <1>1, <1>3, Evolution
<1>5. Away(NextPhone(run[t])) /\ NextPhone(run[t]) \in Thread
  BY <1>1, NextAway DEF Fit
<1>6. Fit(NextPhone(run[t]), db')
  BY <1>5 DEF Away, Fit, Placed
<1>7. /\ run' \in [Threads -> Thread] /\ \A u \in Threads : Fit(run'[u], db')
      /\ run'[t] = NextPhone(run[t]) /\ \A u \in Threads : u # t => run'[u] = run[u]
  BY <1>3, <1>4, <1>5, <1>6, Refits DEF RowGoes, Over
<1>8. ops' \in [OpIds -> Ops]
  <2>1. \A o \in OpIds : [ops[o] EXCEPT !.id = 0] \in Ops
    BY <1>1 DEF Ops
  <2>2. QED
    BY <1>1, <2>1 DEF RowGoes
<1>9. QED
  BY <1>2, <1>3, <1>4, <1>5, <1>7, <1>8 DEF TypeInv, RowGoes

LEMMA RowGoesKeeps ==
  ASSUME TypeInv, HeldInv, NEW t \in Threads, RowGoes(t)
  PROVE  /\ HeldInv' /\ (FileInv => FileInv') /\ (RecordInv => RecordInv')
<1>1. /\ TypeInv' /\ Deleted(db, db', Dev(t)) /\ Evolves(db, db') /\ Dev(t) \in Ids
      /\ Away(run'[t]) /\ \A u \in Threads : u # t => run'[u] = run[u]
  BY RowGoesTypes
<1>2. /\ UNCHANGED <<files, edition, apart>> /\ Withdrawing(run[t]) /\ ops \in [OpIds -> Ops]
      /\ Sound(db) /\ Sound(db')
      /\ ops' = [o \in OpIds |-> IF ops[o].id = Dev(t) THEN [ops[o] EXCEPT !.id = 0] ELSE ops[o]]
  BY <1>1 DEF RowGoes, TypeInv
<1>3. /\ ~Early(run'[t]) /\ ~Withdrawing(run'[t])
      /\ ~Publishing(run'[t]) /\ ~Recording(run'[t]) /\ ~Recording(run[t])
  BY <1>1, <1>2, EarlyIs DEF Away, Withdrawing, Recording
<1>4. \A o \in OpIds : /\ ops'[o].status = ops[o].status /\ ops'[o].type = ops[o].type
                       /\ ops'[o].overdue = ops[o].overdue
                       /\ ops'[o].id = (IF ops[o].id = Dev(t) THEN 0 ELSE ops[o].id)
  BY <1>2 DEF Ops
<1>5. /\ ~db'.devices[Dev(t)].live
      /\ \A i \in Ids : /\ db'.devices[i].mac = db.devices[i].mac
                        /\ i # Dev(t) => Alike(db, db', i)
  BY <1>1 DEF Deleted
<1>6. HeldInv'
  <2>1. OneOperationAtATime'
    BY <1>4 DEF HeldInv, OneOperationAtATime, Running
  <2>2. OwnOps'
    BY <1>1 DEF HeldInv, OwnOps, Away
  <2>3. ASSUME NEW u \in Threads, Early(run'[u])
        PROVE  HoldsOn(u)'
    <3>1. run'[u] = run[u] /\ Early(run[u])
      BY <1>1, <1>3, <2>3
    <3>2. HoldsOn(u) /\ run[u].op \in OpIds /\ Dev(u) \in Ids
      BY <3>1, EarlyIs, DevIs DEF HeldInv, TypeInv, Fit, Placed, Thread
    <3>3. /\ Dev(u) = Dev(t) => ~Live(db', Dev(u))
          /\ Live(db', Dev(u)) => Live(db, Dev(u))
      BY <1>5 DEF Live, Alike
    <3>4. 0 # Dev(u)
      BY <3>2, IdsAre
    <3>5. QED
      BY <1>4, <3>1, <3>2, <3>3, <3>4 DEF HoldsOn, Dev
  <2>4. QED
    BY <2>1, <2>2, <2>3 DEF HeldInv
<1>7. ASSUME NEW i \in Ids, Here(db', i)
      PROVE  i # Dev(t) /\ Here(db, i) /\ Alike(db, db', i)
  <2>1. i # Dev(t) /\ Alike(db, db', i)
    BY <1>5, <1>7 DEF Here
  <2>2. i <= db.last
    <3>1. db.last \in Int /\ db'.last = db.last
      BY <1>1, <1>2 DEF Sound, Inventory, Deleted
    <3>2. QED
      BY <1>2, <1>7, <3>1, IdsAre DEF Sound, Here
  <2>3. QED
    BY <1>1, <1>2, <1>7, <2>1, <2>2, HereBack
<1>8. ASSUME FileInv
      PROVE  FileInv'
  <2>1. \A i \in Ids : db'.devices[i].live => db'.devices[i].accounts <= edition'
    BY <1>2, <1>5, <1>8 DEF FileInv, Alike
  <2>2. \A q \in Macs : files'[q] # NoFile => \E i \in Ids : db'.devices[i].mac = q
    BY <1>2, <1>5, <1>8 DEF FileInv
  <2>3. \A i \in Ids : Here(db', i) => files'[db'.devices[i].mac] <= db'.devices[i].accounts
    BY <1>2, <1>7, <1>8 DEF FileInv, Alike
  <2>4. \A u \in Threads : Publishing(run'[u]) \/ Recording(run'[u]) \/ Withdrawing(run'[u]) =>
          run'[u] = run[u] /\ Dev(u) \in Ids
    BY <1>1, <1>3, EarlyIs, DevIs
  <2>5. \A u \in Threads : Publishing(run'[u]) \/ Recording(run'[u]) =>
          run'[u].content >= 0 /\ (run'[u].baseline => run'[u].content = 0)
    BY <1>8, <2>4 DEF FileInv
  <2>6. ASSUME NEW u \in Threads, Publishing(run'[u]), Here(db', Head(run'[u].todo))
        PROVE  /\ run'[u].content <= db'.devices[Head(run'[u].todo)].accounts
               /\ run'[u].baseline \/ files'[run'[u].mac] <= run'[u].content
    BY <1>2, <1>7, <1>8, <2>4, <2>6 DEF FileInv, Alike, Dev
  <2>7. ASSUME NEW w \in Threads, Withdrawing(run'[w]), Here(db', Head(run'[w].todo))
        PROVE  /\ run'[w].content <= db'.devices[Head(run'[w].todo)].accounts
               /\ \A u \in Threads :
                    Publishing(run'[u]) /\ Head(run'[u].todo) = Head(run'[w].todo) =>
                      run'[u].baseline \/ run'[w].content <= run'[u].content
    BY <1>2, <1>7, <1>8, <2>4, <2>7 DEF FileInv, Alike, Dev
  <2>8. QED
    BY <2>1, <2>2, <2>3, <2>5, <2>6, <2>7 DEF FileInv, Dev
<1>9. ASSUME RecordInv
      PROVE  RecordInv'
  <2>1. SUFFICES ASSUME NEW i \in Ids, Here(db', i), db'.devices[i].mac \notin apart'
                 PROVE  /\ (/\ db'.devices[i].config # NoFile
                            /\ \A u \in Threads :
                                 ~(Recording(run'[u]) /\ Head(run'[u].todo) = i)) =>
                             Available(i, db.devices[i].config)'
                        /\ \A u \in Threads : Recording(run'[u]) /\ Head(run'[u].todo) = i =>
                             Available(i, run[u].content)'
    BY DEF RecordInv, Dev
  <2>2. /\ Here(db, i) /\ i # Dev(t) /\ Alike(db, db', i)
        /\ db.devices[i].mac \notin apart
    BY <1>2, <1>7, <2>1 DEF Alike
  <2>3. \A u \in Threads : Withdrawing(run[u]) /\ Dev(u) = i => run'[u] = run[u]
    BY <1>1, <2>2
  <2>4. ASSUME NEW c, Available(i, c)
        PROVE  \/ files'[db'.devices[i].mac] = c
               \/ /\ files'[db'.devices[i].mac] = NoFile
                  /\ \E u \in Threads : /\ Withdrawing(run'[u]) /\ Head(run'[u].todo) = i
                                        /\ run'[u].content = c
    BY <1>2, <2>2, <2>3, <2>4 DEF Available, Dev, Alike
  <2>5. ASSUME NEW u \in Threads, Recording(run'[u]), Head(run'[u].todo) = i
        PROVE  Available(i, run[u].content)'
    <3>1. run'[u] = run[u]
      BY <1>1, <1>3, <2>5
    <3>2. Available(i, run[u].content)
      BY <1>9, <2>2, <2>5, <3>1 DEF RecordInv, Dev
    <3>3. QED
      BY <2>4, <3>1, <3>2 DEF Available, Dev
  <2>6. ASSUME db'.devices[i].config # NoFile,
               \A u \in Threads : ~(Recording(run'[u]) /\ Head(run'[u].todo) = i)
        PROVE  Available(i, db.devices[i].config)'
    <3>1. \A u \in Threads : ~(Recording(run[u]) /\ Dev(u) = i)
      BY <1>1, <1>3, <2>6 DEF Dev
    <3>2. Available(i, db'.devices[i].config)
      BY <1>9, <2>2, <2>6, <3>1 DEF RecordInv, Alike
    <3>3. QED
      BY <2>4, <3>2 DEF Available, Dev
  <2>7. QED
    BY <2>5, <2>6
<1>10. QED
  BY <1>6, <1>8, <1>9

LEMMA RowStaysTypes ==
  ASSUME TypeInv, NEW t \in Threads, RowStays(t)
  PROVE  /\ TypeInv' /\ Away(run'[t]) /\ \A u \in Threads : u # t => run'[u] = run[u]
         /\ Dev(t) \in Ids /\ run[t].mac = db.devices[Dev(t)].mac /\ run[t].mac \in Macs
<1>1. /\ run[t] \in Thread /\ run \in [Threads -> Thread] /\ Fit(run[t], db) /\ Sound(db)
      /\ run[t].kind \in OnPhone /\ Filing(run[t]) /\ files \in [Macs -> Int]
  BY DEF TypeInv, RowStays, Withdrawing, Filing, OnPhone
<1>2. Dev(t) \in Ids /\ Dev(t) <= db.last
  BY <1>1, DevIs
<1>3. run[t].mac = db.devices[Dev(t)].mac /\ run[t].mac \in Macs
  BY <1>1, <1>2 DEF Fit, Placed, Sound, Dev
<1>4. Away(NextPhone(run[t])) /\ NextPhone(run[t]) \in Thread
  BY <1>1, NextAway DEF Fit
<1>5. Fit(NextPhone(run[t]), db)
  BY <1>4 DEF Away, Fit, Placed
<1>6. /\ run' \in [Threads -> Thread] /\ \A u \in Threads : Fit(run'[u], db')
      /\ run'[t] = NextPhone(run[t]) /\ \A u \in Threads : u # t => run'[u] = run[u]
  BY <1>1, <1>4, <1>5, Refits, EvolvesSelf DEF RowStays, Over
<1>7. files' \in [Macs -> Int]
  BY <1>1, <1>3 DEF RowStays, Restored, Thread
<1>8. QED
  BY <1>2, <1>3, <1>4, <1>6, <1>7 DEF TypeInv, RowStays

LEMMA RowStaysKeeps ==
  ASSUME TypeInv, HeldInv, NEW t \in Threads, RowStays(t)
  PROVE  /\ HeldInv' /\ (FileInv => FileInv')
         /\ (RecordInv /\ FileInv /\ CrossInv => RecordInv')
<1> DEFINE p == run[t].mac
<1>1. /\ Away(run'[t]) /\ \A u \in Threads : u # t => run'[u] = run[u]
      /\ Dev(t) \in Ids /\ p = db.devices[Dev(t)].mac /\ p \in Macs
  BY RowStaysTypes
<1>2. /\ UNCHANGED <<db, ops, edition, apart>> /\ Withdrawing(run[t]) /\ Sound(db)
      /\ files \in [Macs -> Int]
  BY DEF RowStays, TypeInv
<1>3. /\ files[p] # NoFile => files'[p] = files[p]
      /\ files[p] = NoFile => files'[p] = run[t].content
      /\ \A q \in Macs : q # p => files'[q] = files[q]
  BY <1>1, <1>2 DEF RowStays, Restored
<1>4. /\ ~Early(run'[t]) /\ ~Withdrawing(run'[t])
      /\ ~Publishing(run'[t]) /\ ~Recording(run'[t]) /\ ~Recording(run[t])
  BY <1>1, <1>2, EarlyIs DEF Away, Withdrawing, Recording
<1>5. HeldInv'
  <2>1. \A u \in Threads : run'[u].op \in {run[u].op, 0}
    BY <1>1 DEF Away
  <2>2. \A u \in Threads : Early(run'[u]) =>
          Early(run[u]) /\ run'[u].op = run[u].op /\ run'[u].todo = run[u].todo
    BY <1>1, <1>4
  <2>3. QED
    BY <1>2, <2>1, <2>2, HeldStays
<1>6. ASSUME NEW i \in Ids, Here(db, i)
      PROVE  db.devices[i].mac \in Macs /\ (db.devices[i].mac = p => i = Dev(t))
  <2>1. db.last \in Int
    BY <1>2 DEF Sound, Inventory
  <2>2. QED
    BY <1>1, <1>2, <1>6, <2>1, IdsAre, SameRow DEF Here, Sound
<1>7. ASSUME NEW u \in Threads,
             Publishing(run'[u]) \/ Recording(run'[u]) \/ Withdrawing(run'[u])
      PROVE  /\ run'[u] = run[u] /\ u # t /\ Dev(u) \in Ids
             /\ Publishing(run'[u]) => run[u].mac = db.devices[Dev(u)].mac
  <2>1. run'[u] = run[u] /\ u # t /\ Filing(run[u]) /\ Fit(run[u], db)
    BY <1>1, <1>4, <1>7, EarlyIs DEF TypeInv
  <2>2. QED
    BY <2>1, DevIs DEF Fit, Placed, Dev
<1> HIDE DEF p
<1>8. ASSUME FileInv
      PROVE  FileInv'
  <2>1. \A i \in Ids : db'.devices[i].live => db'.devices[i].accounts <= edition'
    BY <1>2, <1>8 DEF FileInv
  <2>2. \A q \in Macs : files'[q] # NoFile => \E i \in Ids : db'.devices[i].mac = q
    BY <1>1, <1>2, <1>3, <1>8 DEF FileInv
  <2>3. ASSUME NEW i \in Ids, Here(db', i)
        PROVE  files'[db'.devices[i].mac] <= db'.devices[i].accounts
    <3>1. CASE db.devices[i].mac = p /\ files[p] = NoFile
      <4>1. i = Dev(t) /\ Here(db, Dev(t))
        BY <1>2, <1>6, <2>3, <3>1
      <4>2. run[t].content <= db.devices[Dev(t)].accounts
        BY <1>2, <1>8, <4>1 DEF FileInv
      <4>3. QED
        BY <1>2, <1>3, <3>1, <4>1, <4>2
    <3>2. CASE db.devices[i].mac # p \/ files[p] # NoFile
      BY <1>2, <1>3, <1>6, <1>8, <2>3, <3>2 DEF FileInv
    <3>3. QED
      BY <3>1, <3>2
  <2>4. \A u \in Threads : Publishing(run'[u]) \/ Recording(run'[u]) =>
          run'[u].content >= 0 /\ (run'[u].baseline => run'[u].content = 0)
    BY <1>7, <1>8 DEF FileInv
  <2>5. ASSUME NEW u \in Threads, Publishing(run'[u]), Here(db', Head(run'[u].todo))
        PROVE  /\ run'[u].content <= db'.devices[Head(run'[u].todo)].accounts
               /\ run'[u].baseline \/ files'[run'[u].mac] <= run'[u].content
    <3>1. /\ run'[u] = run[u] /\ u # t /\ Dev(u) \in Ids /\ run[u].mac = db.devices[Dev(u)].mac
          /\ Here(db, Dev(u)) /\ Publishing(run[u])
      BY <1>2, <1>7, <2>5 DEF Dev
    <3>2. /\ run[u].content <= db.devices[Dev(u)].accounts
          /\ run[u].baseline \/ files[run[u].mac] <= run[u].content
      BY <1>8, <3>1 DEF FileInv
    <3>3. CASE run[u].mac = p /\ files[p] = NoFile
      <4>1. Dev(u) = Dev(t) /\ Here(db, Dev(t))
        BY <1>6, <3>1, <3>3
      <4>2. run[u].baseline \/ run[t].content <= run[u].content
        BY <1>2, <1>8, <3>1, <4>1 DEF FileInv
      <4>3. QED
        BY <1>2, <1>3, <3>1, <3>2, <3>3, <4>2 DEF Dev
    <3>4. CASE run[u].mac # p \/ files[p] # NoFile
      <4>1. run[u].mac \in Macs
        BY <1>6, <3>1
      <4>2. files'[run[u].mac] = files[run[u].mac]
        BY <1>3, <3>4, <4>1
      <4>3. QED
        BY <1>2, <3>1, <3>2, <4>2 DEF Dev
    <3>5. QED
      BY <3>3, <3>4
  <2>6. ASSUME NEW w \in Threads, Withdrawing(run'[w]), Here(db', Head(run'[w].todo))
        PROVE  /\ run'[w].content <= db'.devices[Head(run'[w].todo)].accounts
               /\ \A u \in Threads :
                    Publishing(run'[u]) /\ Head(run'[u].todo) = Head(run'[w].todo) =>
                      run'[u].baseline \/ run'[w].content <= run'[u].content
    BY <1>2, <1>7, <1>8, <2>6 DEF FileInv, Dev
  <2>7. QED
    BY <2>1, <2>2, <2>3, <2>4, <2>5, <2>6 DEF FileInv, Dev
<1>9. ASSUME RecordInv, FileInv, CrossInv
      PROVE  RecordInv'
  <2>1. SUFFICES ASSUME NEW i \in Ids, Here(db', i), db'.devices[i].mac \notin apart'
                 PROVE  /\ (/\ db'.devices[i].config # NoFile
                            /\ \A u \in Threads :
                                 ~(Recording(run'[u]) /\ Head(run'[u].todo) = i)) =>
                             Available(i, db.devices[i].config)'
                        /\ \A u \in Threads : Recording(run'[u]) /\ Head(run'[u].todo) = i =>
                             Available(i, run[u].content)'
    BY DEF RecordInv, Dev
  <2>2. Here(db, i) /\ db.devices[i].mac \notin apart
    BY <1>2, <2>1
  <2>3. ASSUME NEW c, c # NoFile, Available(i, c)
        PROVE  \/ files'[db'.devices[i].mac] = c
               \/ /\ files'[db'.devices[i].mac] = NoFile
                  /\ \E u \in Threads : /\ Withdrawing(run'[u]) /\ Head(run'[u].todo) = i
                                        /\ run'[u].content = c
    <3>1. CASE i = Dev(t)
      <4>1. db.devices[i].mac = p
        BY <1>1, <3>1
      <4>2. CASE files[p] = c
        BY <1>2, <1>3, <2>3, <4>1, <4>2
      <4>3. CASE files[p] = NoFile /\ \E u \in Threads : /\ Withdrawing(run[u]) /\ Dev(u) = i
                                                         /\ run[u].content = c
        <5>1. run[t].content = c
          BY <1>2, <1>9, <2>2, <3>1, <4>1, <4>3 DEF CrossInv, p
        <5>2. QED
          BY <1>2, <1>3, <4>1, <4>3, <5>1
      <4>4. QED
        BY <2>3, <4>1, <4>2, <4>3 DEF Available
    <3>2. CASE i # Dev(t)
      <4>1. files'[db.devices[i].mac] = files[db.devices[i].mac]
        BY <1>3, <1>6, <2>2, <3>2
      <4>2. \A u \in Threads : Withdrawing(run[u]) /\ Dev(u) = i => run'[u] = run[u]
        BY <1>1, <3>2
      <4>3. QED
        BY <1>2, <2>3, <4>1, <4>2 DEF Available, Dev
    <3>3. QED
      BY <3>1, <3>2
  <2>4. ASSUME NEW u \in Threads, Recording(run'[u]), Head(run'[u].todo) = i
        PROVE  Available(i, run[u].content)'
    <3>1. run'[u] = run[u]
      BY <1>7, <2>4
    <3>2. Available(i, run[u].content)
      BY <1>9, <2>2, <2>4, <3>1 DEF RecordInv, Dev
    <3>3. run[u].content >= 0 /\ run[u].content \in Int
      BY <1>9, <2>4, <3>1 DEF FileInv, TypeInv, Thread
    <3>4. run[u].content # NoFile
      BY <3>3 DEF NoFile
    <3>5. QED
      BY <2>3, <3>1, <3>2, <3>4 DEF Available, Dev
  <2>5. ASSUME db'.devices[i].config # NoFile,
               \A u \in Threads : ~(Recording(run'[u]) /\ Head(run'[u].todo) = i)
        PROVE  Available(i, db.devices[i].config)'
    <3>1. \A u \in Threads : ~(Recording(run[u]) /\ Dev(u) = i)
      BY <1>1, <1>4, <2>5 DEF Dev
    <3>2. Available(i, db.devices[i].config)
      BY <1>2, <1>9, <2>2, <2>5, <3>1 DEF RecordInv
    <3>3. QED
      BY <1>2, <2>3, <2>5, <3>2 DEF Available, Dev
  <2>6. QED
    BY <2>4, <2>5
<1>10. QED
  BY <1>5, <1>8, <1>9

(* Assignments are saved: only forward.                                    *)
LEMMA EditsTypes ==
  ASSUME TypeInv, NEW i \in Ids, Edits(i)
  PROVE  TypeInv' /\ Assigned(db, db', i, edition + 1)
<1>1. Sound(db') /\ Assigned(db, db', i, edition + 1) /\ edition' \in Nat
  BY SavesAssignments DEF Edits, TypeInv
<1>2. Evolves(db, db')
  BY <1>1, Evolution DEF TypeInv
<1>3. \A t \in Threads : Fit(run'[t], db')
  BY <1>1, <1>2, FitStays DEF TypeInv, Edits
<1>4. QED
  BY <1>1, <1>3 DEF TypeInv, Edits, Waitings

LEMMA EditsKeeps ==
  ASSUME TypeInv, HeldInv, NEW i \in Ids, Edits(i)
  PROVE  /\ HeldInv' /\ (FileInv => FileInv') /\ (RecordInv => RecordInv')
<1>1. /\ Assigned(db, db', i, edition + 1) /\ UNCHANGED <<files, ops, run, apart>>
      /\ edition' = edition + 1 /\ edition \in Nat /\ Sound(db)
  BY EditsTypes DEF Edits, TypeInv
<1>2. \A k \in Ids : /\ db'.devices[k].live = db.devices[k].live
                     /\ db'.devices[k].mac = db.devices[k].mac
                     /\ db'.devices[k].config = db.devices[k].config
                     /\ Here(db', k) <=> Here(db, k)
  BY <1>1 DEF Assigned, Here
<1>3. HeldInv'
  <2>1. \A k \in Ids : Live(db', k) => Live(db, k)
    BY <1>2 DEF Live
  <2>2. QED
    BY <1>1, <2>1, HeldStays
<1>4. \A k \in Ids : db.devices[k].accounts \in Nat
  BY <1>1 DEF Sound, Inventory, Device
<1>5. ASSUME FileInv
      PROVE  FileInv'
  <2>1. ASSUME NEW k \in Ids, db'.devices[k].live
        PROVE  /\ db'.devices[k].accounts <= edition'
               /\ db.devices[k].accounts <= db'.devices[k].accounts
               /\ db'.devices[k].accounts \in Int
    <3>1. db.devices[k].accounts <= edition
      BY <1>2, <1>5, <2>1 DEF FileInv
    <3>2. db'.devices[k].accounts \in {db.devices[k].accounts, edition + 1}
      BY <1>1 DEF Assigned, Alike
    <3>3. QED
      BY <1>1, <1>4, <3>1, <3>2
  <2>2. \A q \in Macs : files'[q] # NoFile => \E k \in Ids : db'.devices[k].mac = q
    BY <1>1, <1>2, <1>5 DEF FileInv
  <2>3. ASSUME NEW k \in Ids, Here(db', k)
        PROVE  /\ db'.devices[k].mac = db.devices[k].mac /\ db'.devices[k].mac \in Macs
               /\ \A x \in Int : x <= db.devices[k].accounts => x <= db'.devices[k].accounts
    <3>1. db.last \in Int
      BY <1>1 DEF Sound, Inventory
    <3>2. QED
      BY <1>1, <1>2, <1>4, <2>1, <2>3, <3>1, IdsAre DEF Here, Sound
  <2>4. ASSUME NEW k \in Ids, Here(db', k)
        PROVE  files'[db'.devices[k].mac] <= db'.devices[k].accounts
    <3>1. files[db.devices[k].mac] <= db.devices[k].accounts
      BY <1>2, <1>5, <2>4 DEF FileInv
    <3>2. QED
      BY <1>1, <2>3, <2>4, <3>1 DEF TypeInv
  <2>5. \A u \in Threads : Filing(run[u]) => Dev(u) \in Ids /\ run[u].content \in Int
    BY DevIs DEF TypeInv, Thread
  <2>6. ASSUME NEW u \in Threads, Publishing(run[u]) \/ Withdrawing(run[u]), Here(db', Dev(u))
        PROVE  run[u].content <= db'.devices[Dev(u)].accounts
    <3>1. Dev(u) \in Ids /\ run[u].content \in Int
      BY <2>5, <2>6, EarlyIs
    <3>2. run[u].content <= db.devices[Dev(u)].accounts
      BY <1>2, <1>5, <2>6, <3>1 DEF FileInv
    <3>3. QED
      BY <2>3, <2>6, <3>1, <3>2
  <2>7. \A u \in Threads : Filing(run[u]) => (Here(db', Dev(u)) <=> Here(db, Dev(u)))
    BY <1>2, <2>5
  <2>8. /\ \A u \in Threads : Publishing(run[u]) /\ Here(db', Dev(u)) =>
             run[u].baseline \/ files[run[u].mac] <= run[u].content
        /\ \A w \in Threads : Withdrawing(run[w]) /\ Here(db', Dev(w)) =>
             \A u \in Threads : Publishing(run[u]) /\ Dev(u) = Dev(w) =>
               run[u].baseline \/ run[w].content <= run[u].content
    BY <1>5, <2>7, EarlyIs DEF FileInv
  <2>9. QED
    BY <1>1, <1>5, <2>1, <2>2, <2>4, <2>6, <2>8 DEF FileInv, Dev
<1>6. ASSUME RecordInv
      PROVE  RecordInv'
  BY <1>1, <1>2, <1>6 DEF RecordInv, Available, Dev
<1>7. QED
  BY <1>3, <1>5, <1>6

(* Only publishing brings a file and its record together again, and then   *)
(* there is a file.                                                        *)
LEMMA Crossing ==
  ASSUME TypeInv, FileInv, CrossInv, Ordinary \/ Remarkable
  PROVE  CrossInv'
<1>1. /\ files \in [Macs -> Int] /\ Sound(db) /\ run \in [Threads -> Thread]
      /\ \A t \in Threads : Fit(run[t], db)
  BY DEF TypeInv
<1>2. ASSUME NEW t \in Threads, Withdrawing(run[t])
      PROVE  run[t].mac \in Macs /\ run[t].mac = db.devices[Dev(t)].mac
  BY <1>1, <1>2, EarlyIs DEF Fit, Equipped, Placed, Thread, Dev
<1>3. ASSUME \A t \in Threads : Withdrawing(run'[t]) => run'[t] = run[t],
             \A q \in Macs : files[q] # NoFile \/ q \in apart =>
                             files'[q] # NoFile \/ q \in apart'
      PROVE  CrossInv'
  BY <1>2, <1>3 DEF CrossInv, Dev
<1>4. CASE Ordinary
  <2>1. files' = files /\ apart \subseteq apart'
    BY <1>4 DEF Ordinary
  <2>2. \A t \in Threads : Withdrawing(run'[t]) => run'[t] = run[t]
    BY <1>4, Resting, EarlyIs DEF Ordinary
  <2>3. QED
    BY <1>3, <2>1, <2>2
<1>5. ASSUME NEW t \in Threads, NEW c \in Claimings, Claims(t, c[1], c[2])
      PROVE  CrossInv'
  <2>1. UNCHANGED <<files, apart>>
    BY <1>5 DEF Claims
  <2>2. \A u \in Threads : Withdrawing(run'[u]) => run'[u] = run[u]
    BY <1>5, ClaimsTypes DEF Claimings, Withdrawing
  <2>3. QED
    BY <1>3, <2>1, <2>2
<1>6. ASSUME NEW t \in Threads, Prepares(t) \/ Records(t) \/ RowGoes(t)
      PROVE  CrossInv'
  <2>1. UNCHANGED <<files, apart>>
    BY <1>6 DEF Prepares, Records, RowGoes
  <2>2. \A u \in Threads : Withdrawing(run'[u]) => run'[u] = run[u]
    BY <1>6, PreparesTypes, RecordsTypes, RowGoesTypes DEF Away, Filing, Withdrawing, Publishing
  <2>3. QED
    BY <1>3, <2>1, <2>2
<1>7. ASSUME NEW t \in Threads, Publishes(t)
      PROVE  CrossInv'
  <2>1. /\ run[t].mac \in Macs /\ \A u \in Threads : u # t => run'[u] = run[u]
        /\ ~Withdrawing(run'[t])
    BY <1>7, PublishesTypes DEF Recording, Withdrawing
  <2>2. /\ files' = [files EXCEPT ![run[t].mac] = run[t].content]
        /\ apart' = apart \ {run[t].mac}
    BY <1>7 DEF Publishes
  <2>3. run[t].content >= 0 /\ run[t].content \in Int
    BY <1>1, <1>7 DEF Publishes, FileInv, Thread
  <2>4. \A q \in Macs : files[q] # NoFile \/ q \in apart =>
                         files'[q] # NoFile \/ q \in apart'
    BY <1>1, <2>1, <2>2, <2>3 DEF NoFile
  <2>5. QED
    BY <1>3, <2>1, <2>4
<1>8. ASSUME NEW t \in Threads, Archives(t)
      PROVE  CrossInv'
  <2> DEFINE p == db.devices[Dev(t)].mac
  <2>1. /\ \A u \in Threads : u # t => run'[u] = run[u]
        /\ Withdrawing(run'[t]) /\ run'[t].todo = run[t].todo /\ run'[t].mac = p /\ p \in Macs
    BY <1>8, ArchivesTypes
  <2>2. /\ \A q \in Macs : q # p => files'[q] = files[q]
        /\ apart \subseteq apart' /\ (Holding("row", p) # {} => p \in apart')
    BY <1>1, <1>8, <2>1 DEF Archives
  <2>3. \A u \in Threads : Withdrawing(run[u]) => u \in Holding("row", run[u].mac)
    BY DEF Holding, Withdrawing
  <2>4. \A u \in Threads : u # t /\ Withdrawing(run'[u]) /\ Head(run'[u].todo) = Dev(t) =>
          p \in apart'
    BY <1>2, <2>1, <2>2, <2>3 DEF Dev
  <2>5. \A u \in Threads : u # t /\ Withdrawing(run'[u]) /\ run'[u].mac = p => p \in apart'
    BY <2>1, <2>2, <2>3
  <2> HIDE DEF p
  <2>6. SUFFICES ASSUME NEW u \in Threads, NEW w \in Threads, u # w,
                        Withdrawing(run'[u]), Withdrawing(run'[w]),
                        Head(run'[u].todo) = Head(run'[w].todo)
                 PROVE  files'[run'[u].mac] # NoFile \/ run'[u].mac \in apart'
    BY DEF CrossInv, Dev
  <2>7. CASE u = t
    BY <2>1, <2>4, <2>6, <2>7 DEF Dev
  <2>8. CASE w = t
    <3>1. run'[u] = run[u] /\ run[u].mac = p
      BY <1>2, <2>1, <2>6, <2>8 DEF Dev, p
    <3>2. QED
      BY <2>5, <2>6, <2>8, <3>1
  <2>9. CASE u # t /\ w # t
    <3>1. /\ run'[u] = run[u] /\ run'[w] = run[w] /\ Dev(u) = Dev(w)
          /\ run[u].mac \in Macs
      BY <1>2, <2>1, <2>6, <2>9 DEF Dev
    <3>2. files[run[u].mac] # NoFile \/ run[u].mac \in apart
      BY <2>6, <3>1 DEF CrossInv
    <3>3. QED
      BY <2>2, <2>5, <2>6, <2>9, <3>1, <3>2
  <2>10. QED
    BY <2>7, <2>8, <2>9
<1>9. ASSUME NEW t \in Threads, RowStays(t)
      PROVE  CrossInv'
  <2>1. /\ \A u \in Threads : u # t => run'[u] = run[u]
        /\ ~Withdrawing(run'[t]) /\ run[t].mac \in Macs
    BY <1>9, RowStaysTypes DEF Away, Filing, Withdrawing, Placed
  <2>2. files' = Restored(t) /\ UNCHANGED apart
    BY <1>9 DEF RowStays
  <2>3. \A q \in Macs : files[q] # NoFile => files'[q] = files[q]
    BY <1>1, <2>1, <2>2 DEF Restored
  <2>4. QED
    BY <1>3, <2>1, <2>2, <2>3
<1>10. ASSUME NEW i \in Ids, Edits(i)
       PROVE  CrossInv'
  BY <1>3, <1>10 DEF Edits
<1>11. QED
  BY <1>4, <1>5, <1>6, <1>7, <1>8, <1>9, <1>10 DEF Remarkable

-----------------------------------------------------------------------------
(* The theorems.                                                           *)

LEMMA Beginnings ==
  ASSUME Init
  PROVE  TypeInv /\ HeldInv /\ FileInv /\ CrossInv /\ RecordInv
<1>1. left \in Plans /\ left.stocked \in BOOLEAN
  BY PlanAssumption DEF Init
<1>2. \A q \in Macs : q # "none" /\ ModelOf(q) \in Models
  BY InventoryAssumption, NoMacAssumption
<1>3. NoDevice \in Device /\ ~NoDevice.live /\ NoDevice.mac = "none" /\ NoDevice.accounts = 0
      /\ NoDevice.config = NoFile
  BY BlankDevice DEF NoDevice
<1>4. /\ Sound(db) /\ \A i \in Ids : db.devices[i].accounts = 0 /\ db.devices[i].config = NoFile
  <2>1. CASE db = EmptyInventory
    <3>1. db.models \in [Models -> Model] /\ db.last = 0
      BY <2>1, BlankDevice DEF EmptyInventory
    <3>2. db.devices = [i \in Ids |-> NoDevice]
      BY <2>1 DEF EmptyInventory
    <3>3. db \in Inventory
      <4>1. 0 \in 0 .. MaxId
        BY IdsAre
      <4>2. QED
        BY <1>3, <2>1, <3>1, <3>2, <4>1 DEF EmptyInventory, Inventory
    <3>4. \A i \in Ids : db.devices[i] = NoDevice /\ ~(i <= 0)
      BY <3>2, IdsAre
    <3>5. QED
      BY <1>3, <3>1, <3>3, <3>4 DEF Sound
  <2>2. ASSUME NEW q \in Macs, db = StockedInventory(q)
        PROVE  /\ Sound(db)
               /\ \A i \in Ids : db.devices[i].accounts = 0 /\ db.devices[i].config = NoFile
    <3> DEFINE x == [NoDevice EXCEPT !.live = TRUE, !.mac = q, !.model = ModelOf(q),
                                     !.status = "Ready for Configuration"]
    <3>1. "Ready for Configuration" \in Statuses
      BY DEF Statuses
    <3>2. /\ x \in Device /\ x.live /\ x.mac = q /\ x.accounts = 0 /\ x.config = NoFile
      BY <1>2, <1>3, <3>1 DEF Device
    <3>3. /\ db.models = [m \in Models |-> Complete] /\ db.last = 1
          /\ db.devices = [i \in Ids |-> IF i # 1 THEN NoDevice ELSE x]
          /\ db = [models |-> db.models, last |-> 1, devices |-> db.devices]
      BY <2>2 DEF StockedInventory
    <3> HIDE DEF x
    <3>4. db.models \in [Models -> Model]
      BY <3>3 DEF Complete, Model
    <3>5. db.devices \in [Ids -> Device]
      BY <1>3, <3>2, <3>3
    <3>6. 1 \in 0 .. MaxId
      BY IdsAre
    <3>7. db \in Inventory
      BY <3>3, <3>4, <3>5, <3>6 DEF Inventory
    <3>8. \A i \in Ids : /\ i # 1 => db.devices[i] = NoDevice
                         /\ i = 1 => db.devices[i] = x
                         /\ i <= 1 <=> i = 1
      BY <3>3, IdsAre
    <3>9. QED
      BY <1>3, <3>2, <3>3, <3>7, <3>8, IdsAre DEF Sound
  <2>3. QED
    BY <1>1, <2>1, <2>2 DEF Init
<1>5. /\ run = [t \in Threads |-> Idle] /\ ops = [o \in OpIds |-> NoOp]
      /\ files = [q \in Macs |-> NoFile] /\ queue = <<>> /\ edition = 0
  BY DEF Init
<1>6. TypeInv
  <2>1. Fit(Idle, db)
    BY IdleAway DEF Away, Fit, Placed
  <2>2. NoOp \in Ops
    BY DEF NoOp, Ops
  <2>3. <<>> \in Seq(Waitings)
    OBVIOUS
  <2>4. NoFile \in Int
    BY DEF NoFile
  <2>5. QED
    BY <1>4, <1>5, <2>1, <2>2, <2>3, <2>4, IdleAway DEF TypeInv, Waitings
<1>7. HeldInv
  <2>1. Idle.op = 0 /\ ~Early(Idle) /\ NoOp.status = "none"
    BY DEF Idle, Early, NoOp
  <2>2. QED
    BY <1>5, <2>1 DEF HeldInv, OneOperationAtATime, OwnOps, Running
<1>8. ~Publishing(Idle) /\ ~Recording(Idle) /\ ~Withdrawing(Idle)
  BY DEF Idle, Publishing, Recording, Withdrawing
<1>9. FileInv
  <2>1. \A i \in Ids : Here(db, i) => db.devices[i].mac \in Macs
    <3>1. db.last \in Int
      BY <1>4 DEF Sound, Inventory
    <3>2. QED
      BY <1>4, <3>1, IdsAre DEF Sound, Here
  <2>2. NoFile <= 0
    BY DEF NoFile
  <2>3. QED
    BY <1>4, <1>5, <1>8, <2>1, <2>2 DEF FileInv
<1>10. RecordInv
  BY <1>4, <1>5, <1>8 DEF RecordInv
<1>11. CrossInv
  BY <1>5, <1>8 DEF CrossInv
<1>12. QED
  BY <1>6, <1>7, <1>9, <1>10, <1>11

LEMMA Inductive ==
  ASSUME TypeInv, HeldInv, FileInv, CrossInv, [Next]_vars
  PROVE  TypeInv' /\ HeldInv' /\ FileInv' /\ CrossInv' /\ (RecordInv => RecordInv')
<1>1. ASSUME Ordinary
      PROVE  TypeInv' /\ HeldInv' /\ FileInv' /\ (RecordInv => RecordInv')
  BY <1>1, OrdinaryTypes, OrdinaryHeld, OrdinaryFiles, OrdinaryRecords
<1>2. ASSUME NEW t \in Threads, NEW c \in Claimings, Claims(t, c[1], c[2])
      PROVE  TypeInv' /\ HeldInv' /\ FileInv' /\ (RecordInv => RecordInv')
  BY <1>2, ClaimsTypes, ClaimsHeld, ClaimsFiles
<1>3. ASSUME NEW t \in Threads, Prepares(t) \/ Publishes(t) \/ Records(t) \/ RowGoes(t)
      PROVE  TypeInv' /\ HeldInv' /\ FileInv' /\ (RecordInv => RecordInv')
  BY <1>3, PreparesTypes, PreparesKeeps, PublishesTypes, PublishesKeeps, RecordsTypes,
     RecordsKeeps, RowGoesTypes, RowGoesKeeps
<1>4. ASSUME NEW t \in Threads, Archives(t) \/ RowStays(t)
      PROVE  TypeInv' /\ HeldInv' /\ FileInv' /\ (RecordInv => RecordInv')
  BY <1>4, ArchivesTypes, ArchivesKeeps, RowStaysTypes, RowStaysKeeps
<1>5. ASSUME NEW i \in Ids, Edits(i)
      PROVE  TypeInv' /\ HeldInv' /\ FileInv' /\ (RecordInv => RecordInv')
  BY <1>5, EditsTypes, EditsKeeps
<1>6. Ordinary \/ Remarkable
  BY Steps
<1>7. CrossInv'
  BY <1>6, Crossing
<1>8. QED
  BY <1>1, <1>2, <1>3, <1>4, <1>5, <1>6, <1>7 DEF Remarkable

LEMMA Invariance == Spec => [](TypeInv /\ HeldInv /\ FileInv /\ CrossInv)
<1>1. TypeInv /\ HeldInv /\ FileInv /\ CrossInv /\ [Next]_vars
        => (TypeInv /\ HeldInv /\ FileInv /\ CrossInv)'
  BY Inductive
<1>2. QED
  BY <1>1, Beginnings, PTL DEF Spec

(* At most one notify and one reboot of a phone is under way, whatever     *)
(* dies, however many threads the executor has: create_operation refuses,  *)
(* or takes an abandoned operation's place.                                *)
THEOREM OneAtATime == Spec => []OneOperationAtATime
<1>1. HeldInv => OneOperationAtATime
  BY DEF HeldInv
<1>2. QED
  BY <1>1, Invariance, PTL

(* From its claim to its sending a notify has a phone in the inventory to   *)
(* itself, so that the assignments it publishes are never older than the    *)
(* ones in the directory: of render, os.replace and archive, in any order. *)
THEOREM FilesNeverOlder == Spec => NeverOlder
<1>1. ASSUME TypeInv, FileInv, [Next]_vars, NEW q \in Macs, files'[q] > Bootstrap,
             files[q] # NoFile, Stayed(q)
      PROVE  files'[q] >= files[q]
  <2>1. files \in [Macs -> Int]
    BY <1>1 DEF TypeInv
  <2>2. CASE files'[q] = files[q]
    BY <2>1, <2>2
  <2>3. ASSUME NEW t \in Threads, Publishes(t), files'[q] # files[q]
        PROVE  files'[q] >= files[q]
    <3>1. /\ run[t].mac \in Macs /\ Dev(t) \in Ids /\ run[t].mac = db.devices[Dev(t)].mac
          /\ Publishing(run[t]) /\ files' = [files EXCEPT ![run[t].mac] = run[t].content]
      BY <1>1, <2>3, PublishesTypes DEF Publishes
    <3>2. q = run[t].mac /\ files'[q] = run[t].content
      BY <2>1, <2>3, <3>1
    <3>3. Here(db, Dev(t))
      BY <1>1, <3>1, <3>2 DEF Stayed, Here
    <3>4. run[t].baseline \/ files[q] <= run[t].content
      BY <1>1, <3>1, <3>2, <3>3 DEF FileInv
    <3>5. run[t].baseline => run[t].content = 0
      BY <1>1, <3>1 DEF FileInv
    <3>6. run[t].content \in Int
      BY <1>1 DEF TypeInv, Thread
    <3>7. QED
      BY <1>1, <2>1, <3>2, <3>4, <3>5, <3>6 DEF Bootstrap
  <2>4. ASSUME NEW t \in Threads, Archives(t), files'[q] # files[q]
        PROVE  FALSE
    <3>1. files'[q] = NoFile
      BY <2>1, <2>4 DEF Archives
    <3>2. QED
      BY <1>1, <3>1 DEF NoFile, Bootstrap
  <2>5. ASSUME NEW t \in Threads, RowStays(t), files'[q] # files[q]
        PROVE  FALSE
    BY <1>1, <2>1, <2>5 DEF RowStays, Restored
  <2>6. Ordinary \/ Remarkable
    BY <1>1, Steps
  <2>7. CASE Ordinary
    BY <2>2, <2>7 DEF Ordinary
  <2>8. CASE Remarkable
    <3>1. CASE files'[q] # files[q]
      BY <2>3, <2>4, <2>5, <2>8, <3>1 DEF Remarkable, Claims, Prepares, Records, RowGoes, Edits
    <3>2. QED
      BY <2>2, <3>1
  <2>9. QED
    BY <2>6, <2>7, <2>8
<1>2. TypeInv /\ FileInv /\ [Next]_vars =>
        [\A q \in Macs : (files'[q] > Bootstrap /\ files[q] # NoFile /\ Stayed(q)) =>
                           files'[q] >= files[q]]_vars
  BY <1>1
<1>3. QED
  BY <1>2, Invariance, PTL DEF Spec, NeverOlder

(* The file recorded as active is the one in the directory whenever nobody  *)
(* works on the phone, from each publication to the next notify that fails *)
(* or dies between file and record, the next deletion that dies between    *)
(* archive and row, and the next two deletions that cross.                 *)
THEOREM RecordMatches == Spec => []RecordMatchesFile
<1>1. TypeInv /\ RecordInv => RecordMatchesFile
  <2>1. SUFFICES ASSUME TypeInv, RecordInv, NEW i \in Ids, db.devices[i].live,
                        db.devices[i].mac \notin apart, db.devices[i].config # NoFile, Stayed(db.devices[i].mac),
                        \A t \in Threads : run[t].mac # db.devices[i].mac
                 PROVE  files[db.devices[i].mac] = db.devices[i].config
    BY DEF RecordMatchesFile
  <2>2. Here(db, i)
    BY <2>1 DEF Here, Stayed
  <2>3. \A t \in Threads : Filing(run[t]) => Dev(t) # i
    BY <2>1 DEF TypeInv, Fit, Placed, Dev
  <2>4. Available(i, db.devices[i].config)
    BY <2>1, <2>2, <2>3, EarlyIs DEF RecordInv
  <2>5. QED
    BY <2>3, <2>4, EarlyIs DEF Available
<1>2. (TypeInv /\ HeldInv /\ FileInv /\ CrossInv) /\ RecordInv /\ [Next]_vars => RecordInv'
  BY Inductive
<1>3. Init => RecordInv
  BY Beginnings
<1>4. QED
  BY <1>1, <1>2, <1>3, Invariance, PTL DEF Spec
=============================================================================
