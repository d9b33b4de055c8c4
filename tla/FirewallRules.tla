----------------------------- MODULE FirewallRules -----------------------------
(***************************************************************************)
(* The firewall page.  Rules are rows of rcm_firewall_rules, each with an    *)
(* apply_status that the page counts; "Apply" reads the rows, hands them to  *)
(* a helper that runs as root, and then marks the rows.  The helper loads    *)
(* the rules into the kernel and stores them in the file nftables reads      *)
(* when the machine boots.                                                  *)
(*                                                                          *)
(* A rule is its body: what becomes of it in nftables.  The order of the     *)
(* rules is that of their ids.                                              *)
(***************************************************************************)
EXTENDS Integers, FiniteSets, Functions

CONSTANTS
  Web,          (* threads that serve requests *)
  Bodies,       (* rules that validate_rule_data lets through *)
  Plans         (* bounds: what may happen how often in one behaviour *)

PlanKeys == {"rules", "applies", "faults", "saves", "entries", "hours"}

ASSUME PlanAssumption == \A q \in Plans : \A k \in PlanKeys : q[k] \in Nat

VARIABLES
  rules,     (* rcm_firewall_rules: id -> body and apply_status *)
  last,      (* AUTOINCREMENT: an id is never given again *)
  kernel,    (* external: the table rcm-firewall of nftables *)
  stored,    (* rcm-firewall.nft *)
  apply,     (* the apply_firewall of each thread *)
  changed,   (* history: rules changed after the apply that stored last read them *)
  crossed,   (* history: two applies at once *)
  torn,      (* history: a file was left empty *)
  left       (* what the plan still allows *)

fwVars == <<rules, last, kernel, stored, apply, changed, crossed, torn>>

NoRules == [i \in {} |-> "none"]
Idle    == [pc |-> "idle", read |-> NoRules, backup |-> NoRules]

Spend(k)   == left[k] > 0 /\ left' = [left EXCEPT ![k] = @ - 1]
InFlight   == {w \in Web : apply[w].pc # "idle"}
BodiesOf(table) == [i \in DOMAIN table |-> table[i].body]

FirewallInit ==
  /\ rules = NoRules /\ last = 0 /\ kernel = NoRules /\ stored = NoRules
  /\ apply = [w \in Web |-> Idle]
  /\ changed = {} /\ crossed = FALSE /\ torn = FALSE

-----------------------------------------------------------------------------
(* The forms.                                                              *)

Touches(ids) == changed' = IF InFlight = {} THEN changed ELSE changed \cup ids
FormOnly == UNCHANGED <<kernel, stored, apply, crossed, torn>>

add_rule(b) ==
  /\ Spend("rules") /\ \A i \in DOMAIN rules : rules[i].body # b
  /\ rules' = [i \in DOMAIN rules \cup {last + 1} |->
                IF i = last + 1 THEN [body |-> b, status |-> "pending"] ELSE rules[i]]
  /\ last' = last + 1
  /\ Touches({last + 1}) /\ FormOnly

(* No duplicate is looked for here.                                        *)
edit_rule(i, b) ==
  /\ Spend("rules")
  /\ rules' = [rules EXCEPT ![i] = [body |-> b, status |-> "pending"]]
  /\ Touches({i}) /\ FormOnly /\ UNCHANGED last

(* Mutant: the rules that are left keep their status.                      *)
LeftAsTheyWere(ids) == Restrict(rules, DOMAIN rules \ ids)

LeftPending(ids) ==
  [i \in DOMAIN rules \ ids |-> [rules[i] EXCEPT !.status = "pending"]]

delete_rules(ids) ==
  /\ Spend("rules")
  /\ rules' = LeftPending(ids)
  /\ Touches(ids) /\ FormOnly /\ UNCHANGED last

-----------------------------------------------------------------------------
(* apply_firewall and its helper.                                          *)

At(w, pc)   == apply[w].pc = pc
Goto(w, pc) == apply' = [apply EXCEPT ![w].pc = pc]

apply_reads(w) ==
  /\ At(w, "idle") /\ Spend("applies")
  /\ apply' = [apply EXCEPT ![w] = [Idle EXCEPT !.pc = "list", !.read = BodiesOf(rules)]]
  /\ crossed' = (crossed \/ InFlight # {})
  /\ UNCHANGED <<rules, last, kernel, stored, changed, torn>>

(* What it would put back.                                                 *)
helper_lists(w) ==
  /\ At(w, "list")
  /\ apply' = [apply EXCEPT ![w].pc = "load", ![w].backup = kernel]
  /\ UNCHANGED <<rules, last, kernel, stored, changed, crossed, torn, left>>

ChangedSince(read) ==
  {i \in 1..last : \/ (i \in DOMAIN rules) # (i \in DOMAIN read)
                   \/ i \in DOMAIN rules /\ rules[i].body # read[i]}

(* The check refuses the script, or the kernel does and the backup is       *)
(* loaded in its place.                                                    *)
helper_loads(w) ==
  /\ At(w, "load")
  /\ \/ kernel' = apply[w].read /\ Goto(w, "store") /\ UNCHANGED left
     \/ /\ Spend("faults") /\ kernel' \in {kernel, apply[w].backup}
        /\ Goto(w, "refused")
  /\ UNCHANGED <<rules, last, stored, changed, crossed, torn>>

(* Opening the file empties it.                                            *)
helper_stores(w) ==
  /\ At(w, "store")
  /\ \/ /\ stored' = apply[w].read /\ torn' = FALSE
        /\ changed' = ChangedSince(apply[w].read)
        /\ Goto(w, "loaded") /\ UNCHANGED left
     \/ /\ Spend("faults") /\ Goto(w, "refused") /\ UNCHANGED changed
        /\ \/ stored' = NoRules /\ torn' = TRUE
           \/ UNCHANGED <<stored, torn>>
  /\ UNCHANGED <<rules, last, kernel, crossed>>

Marked(from, to) ==
  [i \in DOMAIN rules |-> IF rules[i].status \in from
                          THEN [rules[i] EXCEPT !.status = to] ELSE rules[i]]

Marks(w) == IF At(w, "loaded") THEN Marked({"pending", "error"}, "applied")
            ELSE Marked({"pending"}, "error")

apply_marks(w) ==
  /\ At(w, "loaded") \/ At(w, "refused")
  /\ rules' = Marks(w)
  /\ apply' = [apply EXCEPT ![w] = Idle]
  /\ UNCHANGED <<last, kernel, stored, changed, crossed, torn, left>>

(* The helper prints what cannot be parsed, or the process ends.           *)
apply_dies(w) ==
  /\ ~At(w, "idle") /\ Spend("faults")
  /\ apply' = [apply EXCEPT ![w] = Idle]
  /\ torn' = (torn \/ At(w, "store"))
  /\ stored' \in IF At(w, "store") THEN {stored, NoRules} ELSE {stored}
  /\ UNCHANGED <<rules, last, kernel, changed, crossed>>

(* The machine boots: the kernel has what the file says.                   *)
Boots ==
  /\ Spend("faults") /\ kernel' = stored
  /\ apply' = [w \in Web |-> Idle]
  /\ torn' = (torn \/ \E w \in Web : At(w, "store"))
  /\ UNCHANGED <<rules, last, stored, changed, crossed>>

FirewallNext ==
  \/ \E b \in Bodies : add_rule(b) \/ \E i \in DOMAIN rules : edit_rule(i, b)
  \/ \E ids \in SUBSET DOMAIN rules \ {{}} : delete_rules(ids)
  \/ \E w \in Web : \/ apply_reads(w) \/ helper_lists(w) \/ helper_loads(w)
                    \/ helper_stores(w) \/ apply_marks(w) \/ apply_dies(w)

-----------------------------------------------------------------------------
(* The page counts rules as applied and pending: a rule that is applied is   *)
(* in the kernel as it stands, and when all are applied the kernel has no    *)
(* other, unless a rule changed between the reading and the marking of an    *)
(* apply, two applies met, or the stored file was left empty.  The page      *)
(* that has no rules left says nothing.                                     *)
FirewallTold ==
  ~crossed /\ ~torn =>
    /\ \A i \in DOMAIN rules \ changed :
         rules[i].status = "applied" => i \in DOMAIN kernel /\ kernel[i] = rules[i].body
    /\ (rules # NoRules /\ changed = {}
          /\ \A i \in DOMAIN rules : rules[i].status = "applied")
       => kernel = BodiesOf(rules)
=============================================================================
