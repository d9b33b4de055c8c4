---------------------------- MODULE MCConfigForms ----------------------------
(* Instances of ConfigForms.                                               *)
EXTENDS ConfigForms

(* Two objects of a kind, "a" is there at the beginning and "b" is not.    *)
Twice == {"extension", "trunk", "outbound", "ivr", "ringgroup", "paging",
          "queue", "speeddial", "pickup", "announcement", "prompt", "moh",
          "officetime", "holiday", "inbound", "dod"}
Once == {"feature", "settings", "time", "network"}

All == {<<k, "a">> : k \in Twice \cup Once} \cup {<<k, "b">> : k \in Twice}
Kind == [o \in All |-> o[1]]

(* The second extension, IVR and speed dial want the same number.          *)
Number == [o \in All |->
  IF o[2] = "b" /\ o[1] \in {"extension", "ivr", "speeddial"}
  THEN <<"7000", "7000">> ELSE o]

NoRef == <<"none", "none">>

(* The first object of each kind: those of a chain refer to the next one.  *)
Begins(chain, others) ==
  [o \in {<<k, "a">> : k \in Range(chain) \cup others} |->
     LET later == {i \in 2..Len(chain) : chain[i - 1] = o[1]}
     IN IF later = {} THEN NoRef ELSE <<chain[CHOOSE i \in later : TRUE], "a">>]

Day(refs, first, second, broken) ==
  [refs |-> refs, faults |-> broken,
   forms |-> [w \in Workers |-> IF w = "web1" THEN first ELSE second]]

FormsOn(kinds) ==
  {f \in Forms \ {"apply_changes"} : HandlerOf[f].kind \in kinds}

(* The forms about some kinds of objects, one after the other.             *)
OneByOne(chain, others) ==
  Day(Begins(chain, others), FormsOn(Range(chain) \cup others), {}, 1)

Sequential == {
  OneByOne(<<"inbound", "ringgroup", "extension">>, {}),
  OneByOne(<<"dod", "outbound", "trunk">>, {}),
  OneByOne(<<"ivr", "announcement", "prompt">>, {}),
  OneByOne(<<"queue", "moh">>, {"feature"}),
  OneByOne(<<"paging", "extension">>, {"pickup", "speeddial"}),
  OneByOne(<<"inbound", "officetime">>, {"holiday"}),
  OneByOne(<<>>, {"settings", "time", "network"})}

(* Forms that meet each other on a list, on a file or at the apply.        *)
Overlapping == {
  Day(Begins(<<"inbound", "queue">>, {}),
      {"inbound_route_edit", "queue_delete"},
      {"inbound_route_edit", "inbound_route_add", "apply_changes"}, 0),
  Day(Begins(<<"dod", "outbound", "trunk">>, {}),
      {"outbound_route_edit", "trunks_delete"},
      {"outbound_route_delete", "trunk_dod_edit"}, 0),
  Day(Begins(<<"outbound">>, {}),
      {"outbound_route_add"}, {"outbound_route_delete"}, 1),
  Day(Begins(<<"ivr">>, {}), {"ivr_edit"}, {"ivr_delete"}, 0),
  Day(Begins(<<"ringgroup", "extension">>, {}),
      {"extensions_delete", "extensions_add"},
      {"ringgroup_edit", "extensions_edit_spied"}, 0),
  Day(Begins(<<"paging", "prompt">>, {"moh"}),
      {"paging_edit", "media_prompt_delete"},
      {"paging_edit", "media_moh_class_edit"}, 1),
  Day(Begins(<<>>, {"settings", "announcement"}),
      {"apply_changes", "announcement_edit"}, {"apply_changes"}, 1)}

Days == Sequential \cup Overlapping
=============================================================================
