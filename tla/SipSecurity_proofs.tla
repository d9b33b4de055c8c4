-------------------------- MODULE SipSecurity_proofs --------------------------
(***************************************************************************)
(* What the pages of the firewall and of Fail2Ban say is what the machine  *)
(* does, for any rules, policies, hosts and processes, and whatever plan   *)
(* bounds a behaviour.                                                     *)
(***************************************************************************)
EXTENDS SipSecurity, SequenceTheorems, FiniteSetTheorems, WellFoundedInduction, TLAPS

(* The state of the firewall page.                                         *)
Tables == UNION { [D -> Bodies] : D \in SUBSET Nat }
Rule   == [body : Bodies, status : {"pending", "applied", "error"}]
Applies == [pc : {"idle", "list", "load", "store", "loaded", "refused"},
            read : Tables, backup : Tables]

FirewallType ==
  /\ last \in Nat
  /\ rules \in [DOMAIN rules -> Rule] /\ DOMAIN rules \subseteq 1 .. last
  /\ kernel \in Tables /\ stored \in Tables
  /\ apply \in [Web -> Applies]
  /\ \A w \in Web : DOMAIN apply[w].read \subseteq 1 .. last
  /\ crossed \in BOOLEAN /\ torn \in BOOLEAN

(* What the page says of a table, the kernel's or the one the machine      *)
(* boots with, by the rules and those of them that count as changed.       *)
Bodily(rs) == [i \in DOMAIN rs |-> rs[i].body]
Told(table, rs, ch) ==
  /\ \A i \in DOMAIN rs \ ch :
       rs[i].status = "applied" => i \in DOMAIN table /\ table[i] = rs[i].body
  /\ (rs # NoRules /\ ch = {} /\ \A i \in DOMAIN rs : rs[i].status = "applied")
       => table = Bodily(rs)

(* The one apply in flight, and what it has done so far.                   *)
ApplyInv(w) ==
  /\ ~At(w, "idle") => ChangedSince(apply[w].read) \subseteq changed
  /\ At(w, "load") => apply[w].backup = kernel
  /\ At(w, "store") \/ At(w, "loaded") => kernel = apply[w].read
  /\ At(w, "loaded") => stored = apply[w].read

FirewallInv ==
  /\ FirewallType
  /\ ~crossed =>
       /\ \A w, v \in InFlight : w = v
       /\ \A w \in Web : ApplyInv(w)
       /\ ~torn => Told(kernel, rules, changed) /\ Told(stored, rules, changed)

-----------------------------------------------------------------------------
(* Tables of rules.                                                        *)

LEMMA TableType ==
  ASSUME NEW t \in Tables
  PROVE  t \in [DOMAIN t -> Bodies]
BY DEF Tables

LEMMA TablesExist ==
  /\ NoRules \in Tables /\ DOMAIN NoRules = {}
  /\ FirewallType => BodiesOf(rules) \in Tables /\ DOMAIN BodiesOf(rules) = DOMAIN rules
<1>1. NoRules \in [{} -> Bodies] /\ DOMAIN NoRules = {}
  BY DEF NoRules
<1>2. NoRules \in Tables
  BY <1>1 DEF Tables
<1>3. ASSUME FirewallType PROVE BodiesOf(rules) \in Tables
  <2>1. DOMAIN rules \in SUBSET Nat
    BY <1>3 DEF FirewallType
  <2>2. BodiesOf(rules) \in [DOMAIN rules -> Bodies]
    BY <1>3 DEF FirewallType, BodiesOf, Rule
  <2>3. QED
    BY <2>1, <2>2 DEF Tables
<1>4. QED
  BY <1>1, <1>2, <1>3 DEF BodiesOf

(* A table an apply has read says what the page says, of all the rules     *)
(* that have not been changed since, whatever their status is.             *)
Changes(t, rs, n) ==
  {i \in 1 .. n : (i \in DOMAIN rs /\ i \in DOMAIN t) => rs[i].body # t[i]}
    \ {i \in 1 .. n : i \notin DOMAIN rs /\ i \notin DOMAIN t}

LEMMA ReadIsTold ==
  ASSUME NEW t \in Tables, NEW rs, NEW n \in Nat, NEW ch, Changes(t, rs, n) \subseteq ch,
         DOMAIN t \subseteq 1 .. n, DOMAIN rs \subseteq 1 .. n
  PROVE  Told(t, rs, ch)
<1>1. ASSUME NEW i \in DOMAIN rs, i \notin ch PROVE i \in DOMAIN t /\ t[i] = rs[i].body
  BY <1>1 DEF Changes
<1>2. ASSUME ch = {} PROVE t = Bodily(rs)
  <2>1. ASSUME NEW i \in DOMAIN t PROVE i \in DOMAIN rs
    BY <1>2 DEF Changes
  <2>2. DOMAIN t = DOMAIN rs
    BY <1>1, <1>2, <2>1
  <2>3. t \in [DOMAIN rs -> Bodies]
    BY <2>2, TableType
  <2>4. QED
    BY <1>1, <1>2, <2>3 DEF Bodily
<1>3. QED
  BY <1>1, <1>2 DEF Told

LEMMA ChangesAre ==
  ASSUME NEW t, last \in Nat
  PROVE  ChangedSince(t) = Changes(t, rules, last)
BY DEF ChangedSince, Changes

(* What is still true of a table when some rules have lost their status or *)
(* count as changed.                                                       *)
LEMMA ToldOfFewer ==
  ASSUME NEW t, NEW rs, NEW ch, NEW rs2, NEW ch2, Told(t, rs, ch), ch \subseteq ch2,
         \A i \in DOMAIN rs2 \ ch2 :
           rs2[i].status = "applied" =>
             /\ i \in DOMAIN rs /\ rs[i].status = "applied"
             /\ rs2[i].body = rs[i].body,
         (rs2 # NoRules /\ \A i \in DOMAIN rs2 : rs2[i].status = "applied") => rs2 = rs
  PROVE  Told(t, rs2, ch2)
BY DEF Told, Bodily

-----------------------------------------------------------------------------
(* The steps of the firewall page.                                         *)

LEMMA ApplyAlone ==
  ASSUME FirewallInv, ~crossed, NEW w \in Web, NEW v \in Web, v # w, ~At(w, "idle")
  PROVE  At(v, "idle")
BY DEF FirewallInv, InFlight, At

(* The forms change rules that count as changed while an apply is in       *)
(* flight, and leave some rule that is not applied.                        *)
LEMMA FormStep ==
  ASSUME FirewallInv, FirewallType', UNCHANGED <<kernel, stored, apply, crossed, torn>>,
         NEW ids \in SUBSET (1 .. last'), last <= last',
         Touches(ids),
         \A i \in DOMAIN rules' \ ids :
           i \in DOMAIN rules /\ rules'[i].body = rules[i].body
             /\ rules'[i].status \in {rules[i].status, "pending"},
         \A i \in DOMAIN rules \ ids : i \in DOMAIN rules',
         \A i \in DOMAIN rules' \cap ids : rules'[i].status = "pending",
         rules' = NoRules \/ \E i \in DOMAIN rules' : rules'[i].status # "applied"
  PROVE  FirewallInv'
<1>1. changed \subseteq changed'
  BY DEF Touches
<1>2. ASSUME NEW t, Told(t, rules, changed) PROVE Told(t, rules', changed')
  BY <1>1, <1>2, ToldOfFewer
<1>3. ASSUME ~crossed, NEW w \in Web, ~At(w, "idle")
      PROVE  ChangedSince(apply[w].read)' \subseteq changed'
  <2> DEFINE read == apply[w].read
  <2>1. ids \subseteq changed'
    BY <1>3 DEF Touches, InFlight, At
  <2>2. ChangedSince(read) \subseteq changed /\ DOMAIN read \subseteq 1 .. last
    BY <1>3 DEF FirewallInv, ApplyInv, FirewallType
  <2>3. ASSUME NEW i \in ChangedSince(read)', i \notin ids PROVE i \in ChangedSince(read)
    <3>1. i \in 1 .. last' /\ apply' = apply
      BY <2>3 DEF ChangedSince
    <3>2. i \in DOMAIN rules' <=> i \in DOMAIN rules
      BY <2>3
    <3>3. i \in DOMAIN rules => rules'[i].body = rules[i].body
      BY <2>3, <3>2
    <3>4. i \in DOMAIN rules \/ i \in DOMAIN read
      BY <2>3, <3>1, <3>2 DEF ChangedSince
    <3>5. i \in 1 .. last
      BY <2>2, <3>4 DEF FirewallInv, FirewallType
    <3>6. QED
      BY <2>3, <3>1, <3>2, <3>3, <3>5 DEF ChangedSince
  <2>4. QED
    BY <1>1, <2>1, <2>2, <2>3
<1>4. ASSUME ~crossed PROVE \A w \in Web : ApplyInv(w)'
  BY <1>3, <1>4 DEF FirewallInv, ApplyInv, At
<1>5. QED
  BY <1>2, <1>4 DEF FirewallInv, InFlight, At

LEMMA FormsKeep ==
  ASSUME FirewallInv,
         \/ \E b \in Bodies : add_rule(b) \/ \E i \in DOMAIN rules : edit_rule(i, b)
         \/ \E ids \in SUBSET DOMAIN rules \ {{}} : delete_rules(ids)
  PROVE  FirewallInv'
<1> FirewallType
  BY DEF FirewallInv
<1>1. ASSUME FormOnly, last' \in {last, last + 1}, rules' \in [DOMAIN rules' -> Rule],
             DOMAIN rules' \subseteq 1 .. last'
      PROVE  FirewallType' /\ last <= last' /\ 1 .. last \subseteq 1 .. last'
  BY <1>1 DEF FirewallType, FormOnly
<1>2. ASSUME NEW b \in Bodies, add_rule(b) PROVE FirewallInv'
  <2>1. FormOnly /\ Touches({last + 1}) /\ last' = last + 1
    BY <1>2 DEF add_rule
  <2>2. last + 1 \in 1 .. last' /\ DOMAIN rules \subseteq 1 .. last'
    BY <2>1 DEF FirewallType
  <2>3. /\ DOMAIN rules' = DOMAIN rules \cup {last + 1}
        /\ rules'[last + 1] = [body |-> b, status |-> "pending"]
        /\ \A i \in DOMAIN rules \ {last + 1} : rules'[i] = rules[i]
    BY <1>2 DEF add_rule
  <2>4. rules' \in [DOMAIN rules' -> Rule]
    BY <1>2, <2>3 DEF add_rule, FirewallType, Rule
  <2>5. FirewallType' /\ last <= last' /\ {last + 1} \in SUBSET (1 .. last')
    BY <1>1, <2>1, <2>2, <2>3, <2>4
  <2>6. rules'[last + 1].status = "pending" /\ last + 1 \in DOMAIN rules'
    BY <2>3
  <2>7. QED
    BY <2>1, <2>3, <2>5, <2>6, FormStep DEF FormOnly
<1>3. ASSUME NEW b \in Bodies, NEW i \in DOMAIN rules, edit_rule(i, b) PROVE FirewallInv'
  <2>1. FormOnly /\ Touches({i}) /\ last' = last
    BY <1>3 DEF edit_rule
  <2>2. /\ DOMAIN rules' = DOMAIN rules
        /\ rules'[i] = [body |-> b, status |-> "pending"]
        /\ \A j \in DOMAIN rules \ {i} : rules'[j] = rules[j]
    BY <1>3 DEF edit_rule, FirewallType
  <2>3. rules' \in [DOMAIN rules' -> Rule]
    BY <1>3, <2>2 DEF edit_rule, FirewallType, Rule
  <2>4. FirewallType' /\ last <= last' /\ {i} \in SUBSET (1 .. last')
    BY <1>1, <2>1, <2>2, <2>3 DEF FirewallType
  <2>5. rules'[i].status = "pending" /\ i \in DOMAIN rules'
    BY <2>2
  <2>6. QED
    BY <2>1, <2>2, <2>4, <2>5, FormStep DEF FormOnly
<1>4. ASSUME NEW ids \in SUBSET DOMAIN rules, delete_rules(ids) PROVE FirewallInv'
  <2>1. FormOnly /\ Touches(ids) /\ last' = last
    BY <1>4 DEF delete_rules
  <2>2. /\ DOMAIN rules' = DOMAIN rules \ ids
        /\ \A j \in DOMAIN rules' : rules'[j] = [rules[j] EXCEPT !.status = "pending"]
    BY <1>4 DEF delete_rules, LeftPending
  <2>3. \A j \in DOMAIN rules' :
          /\ rules'[j] \in Rule /\ rules'[j].body = rules[j].body
          /\ rules'[j].status = "pending"
    BY <2>2 DEF FirewallType, Rule
  <2>4. rules' = [j \in DOMAIN rules' |-> rules'[j]]
    BY <1>4, <2>2 DEF delete_rules, LeftPending
  <2>5. rules' \in [DOMAIN rules' -> Rule]
    BY <2>3, <2>4
  <2>6. FirewallType' /\ last <= last' /\ ids \in SUBSET (1 .. last')
    BY <1>1, <2>1, <2>2, <2>5 DEF FirewallType
  <2>7. rules' = NoRules \/ \E j \in DOMAIN rules' : rules'[j].status # "applied"
    <3>1. CASE DOMAIN rules' = {}
      BY <2>4, <3>1 DEF NoRules
    <3>2. CASE DOMAIN rules' # {}
      BY <2>3, <3>2
    <3>3. QED
      BY <3>1, <3>2
  <2>8. QED
    BY <2>1, <2>2, <2>3, <2>6, <2>7, FormStep DEF FormOnly
<1>5. QED
  BY <1>2, <1>3, <1>4

(* A step of one apply, which leaves what the others wait for.             *)
LEMMA ApplyStep ==
  ASSUME FirewallInv, FirewallType', NEW w \in Web,
         \A v \in Web \ {w} : apply'[v] = apply[v],
         \/ ~At(w, "idle") /\ crossed' = crossed
         \/ crossed' = (crossed \/ InFlight # {}),
         ~crossed => ApplyInv(w)',
         ~crossed' /\ ~torn' => Told(kernel, rules, changed)' /\ Told(stored, rules, changed)'
  PROVE  FirewallInv'
<1> SUFFICES ASSUME ~crossed'
             PROVE  /\ \A u, v \in InFlight' : u = v
                    /\ \A v \in Web : ApplyInv(v)'
  BY DEF FirewallInv
<1>1. ~crossed /\ \A v \in Web \ {w} : At(v, "idle")
  <2>1. ~crossed
    BY DEF FirewallInv, FirewallType
  <2>2. CASE InFlight = {}
    BY <2>1, <2>2 DEF InFlight, At
  <2>3. CASE ~At(w, "idle")
    BY <2>1, <2>3, ApplyAlone
  <2>4. QED
    BY <2>1, <2>2, <2>3
<1>2. \A v \in Web \ {w} : At(v, "idle")' /\ ApplyInv(v)'
  BY <1>1 DEF ApplyInv, At
<1>3. QED
  BY <1>1, <1>2 DEF InFlight, At

LEMMA AppliesKeep ==
  ASSUME FirewallInv, NEW w \in Web,
         apply_reads(w) \/ helper_lists(w) \/ helper_loads(w)
           \/ helper_stores(w) \/ apply_marks(w) \/ apply_dies(w)
  PROVE  FirewallInv'
<1> USE DEF At
<1>1. /\ FirewallType /\ last \in Nat /\ DOMAIN rules \subseteq 1 .. last
      /\ apply[w] \in Applies /\ DOMAIN apply[w].read \subseteq 1 .. last
      /\ NoRules \in Tables /\ BodiesOf(rules) \in Tables
      /\ DOMAIN BodiesOf(rules) = DOMAIN rules /\ DOMAIN NoRules = {}
  BY TablesExist DEF FirewallInv, FirewallType
(* The types, when one apply goes on.                                      *)
<1>2. ASSUME NEW a \in Applies, apply' = [apply EXCEPT ![w] = a],
             DOMAIN a.read \subseteq 1 .. last,
             UNCHANGED <<rules, last>>,
             kernel' \in Tables, stored' \in Tables, crossed' \in BOOLEAN, torn' \in BOOLEAN
      PROVE  /\ FirewallType' /\ apply'[w] = a
             /\ \A v \in Web \ {w} : apply'[v] = apply[v]
  BY <1>1, <1>2 DEF FirewallType
<1>3. ASSUME NEW pc \in {"idle", "list", "load", "store", "loaded", "refused"}
      PROVE  /\ [apply[w] EXCEPT !.pc = pc] \in Applies
             /\ [apply[w] EXCEPT !.pc = pc].read = apply[w].read
             /\ [apply[w] EXCEPT !.pc = pc].pc = pc
             /\ [apply[w] EXCEPT !.pc = pc].backup = apply[w].backup
  BY <1>1, <1>3 DEF Applies
<1>4. Idle \in Applies /\ Idle.pc = "idle" /\ DOMAIN Idle.read = {}
  BY <1>1 DEF Idle, Applies
<1>5. ~crossed /\ ~At(w, "idle") => ApplyInv(w) /\ ChangedSince(apply[w].read) \subseteq changed
  BY DEF FirewallInv, ApplyInv
<1>6. ~crossed /\ ~torn => Told(kernel, rules, changed) /\ Told(stored, rules, changed)
  BY DEF FirewallInv
<1>7. CASE apply_reads(w)
  <2> DEFINE a == [Idle EXCEPT !.pc = "list", !.read = BodiesOf(rules)]
  <2>1. a \in Applies /\ a.pc = "list" /\ a.read = BodiesOf(rules)
    BY <1>1, <1>4 DEF Idle, Applies
  <2>2. apply' = [apply EXCEPT ![w] = a] /\ UNCHANGED <<rules, last, kernel, stored, changed, torn>>
    BY <1>7 DEF apply_reads
  <2> HIDE DEF a
  <2>3. crossed' \in BOOLEAN /\ crossed' = (crossed \/ InFlight # {})
    BY <1>1, <1>7 DEF apply_reads, FirewallType
  <2>4. /\ FirewallType' /\ apply'[w] = a
        /\ \A v \in Web \ {w} : apply'[v] = apply[v]
    BY <1>1, <1>2, <2>1, <2>2, <2>3 DEF FirewallType
  <2>5. ChangedSince(apply[w].read)' = {}
    BY <1>1, <2>1, <2>2, <2>4 DEF ChangedSince, BodiesOf
  <2>6. ApplyInv(w)'
    BY <2>1, <2>4, <2>5 DEF ApplyInv
  <2>7. QED
    BY <1>6, <2>2, <2>3, <2>4, <2>6, ApplyStep
<1>8. CASE helper_lists(w)
  <2> DEFINE a == [apply[w] EXCEPT !.pc = "load", !.backup = kernel]
  <2>1. /\ a \in Applies /\ a.pc = "load" /\ a.read = apply[w].read /\ a.backup = kernel
        /\ apply[w].pc = "list"
    BY <1>1, <1>8 DEF Applies, FirewallType, helper_lists
  <2>2. /\ apply' = [apply EXCEPT ![w] = a]
        /\ UNCHANGED <<rules, last, kernel, stored, changed, crossed, torn>>
    BY <1>8 DEF helper_lists
  <2> HIDE DEF a
  <2>3. /\ FirewallType' /\ apply'[w] = a
        /\ \A v \in Web \ {w} : apply'[v] = apply[v]
    BY <1>1, <1>2, <2>1, <2>2 DEF FirewallType
  <2>4. ChangedSince(apply[w].read)' = ChangedSince(apply[w].read)
    BY <2>1, <2>2, <2>3 DEF ChangedSince
  <2>5. ~crossed => ApplyInv(w)'
    BY <1>5, <2>1, <2>2, <2>3, <2>4 DEF ApplyInv
  <2>6. QED
    BY <1>6, <2>1, <2>2, <2>3, <2>5, ApplyStep
(* The kernel has what was read, or what it had.                           *)
<1>9. CASE helper_loads(w)
  <2>1. PICK pc \in {"store", "refused"} :
          /\ Goto(w, pc)
          /\ \/ pc = "store" /\ kernel' = apply[w].read
             \/ pc = "refused" /\ kernel' \in {kernel, apply[w].backup}
    BY <1>9 DEF helper_loads
  <2>2. /\ apply[w].pc = "load" /\ UNCHANGED <<rules, last, stored, changed, crossed, torn>>
        /\ kernel' \in Tables
    BY <1>1, <1>9, <2>1 DEF helper_loads, Applies, FirewallType
  <2> DEFINE a == [apply[w] EXCEPT !.pc = pc]
  <2>3. apply' = [apply EXCEPT ![w] = a]
    BY <2>1 DEF Goto
  <2>4. a \in Applies /\ a.pc = pc /\ a.read = apply[w].read
    BY <1>3
  <2> HIDE DEF a
  <2>5. /\ FirewallType' /\ apply'[w] = a
        /\ \A v \in Web \ {w} : apply'[v] = apply[v]
    BY <1>1, <1>2, <2>2, <2>3, <2>4 DEF FirewallType
  <2>6. ChangedSince(apply[w].read)' = ChangedSince(apply[w].read)
    BY <2>2, <2>4, <2>5 DEF ChangedSince
  <2>7. ~crossed => ApplyInv(w)'
    BY <1>5, <2>1, <2>2, <2>4, <2>5, <2>6 DEF ApplyInv
  <2>8. ASSUME ~crossed, ~torn PROVE Told(kernel', rules, changed)
    <3>1. Told(apply[w].read, rules, changed)
      <4>1. Changes(apply[w].read, rules, last) \subseteq changed
        BY <1>1, <1>5, <2>2, <2>8, ChangesAre
      <4>2. QED
        BY <1>1, <4>1, ReadIsTold DEF Applies
    <3>2. apply[w].backup = kernel
      BY <1>5, <2>2, <2>8 DEF ApplyInv
    <3>3. QED
      BY <1>6, <2>1, <2>8, <3>1, <3>2
  <2>9. QED
    BY <1>6, <2>2, <2>5, <2>7, <2>8, ApplyStep
(* What is stored is what was read, and the rules that differ from it now  *)
(* count as changed; or the file is left as it was, or empty.              *)
<1>10. CASE helper_stores(w)
  <2>1. PICK pc \in {"loaded", "refused"} :
          /\ Goto(w, pc)
          /\ \/ /\ pc = "loaded" /\ stored' = apply[w].read
                /\ changed' = ChangedSince(apply[w].read)
             \/ /\ pc = "refused" /\ UNCHANGED changed
                /\ \/ stored' = NoRules /\ torn' = TRUE
                   \/ UNCHANGED <<stored, torn>>
    BY <1>10 DEF helper_stores
  <2>2. /\ apply[w].pc = "store" /\ UNCHANGED <<rules, last, kernel, crossed>>
        /\ stored' \in Tables /\ torn' \in BOOLEAN
    BY <1>1, <1>10, <2>1 DEF helper_stores, Applies, FirewallType
  <2> DEFINE a == [apply[w] EXCEPT !.pc = pc]
  <2>3. apply' = [apply EXCEPT ![w] = a]
    BY <2>1 DEF Goto
  <2>4. a \in Applies /\ a.pc = pc /\ a.read = apply[w].read
    BY <1>3
  <2> HIDE DEF a
  <2>5. /\ FirewallType' /\ apply'[w] = a
        /\ \A v \in Web \ {w} : apply'[v] = apply[v]
    BY <1>1, <1>2, <2>2, <2>3, <2>4 DEF FirewallType
  <2>6. ChangedSince(apply[w].read)' = ChangedSince(apply[w].read)
    BY <2>2, <2>4, <2>5 DEF ChangedSince
  <2>7. ASSUME ~crossed
        PROVE  /\ ChangedSince(apply[w].read)' \subseteq changed'
               /\ kernel = apply[w].read
    BY <1>5, <2>1, <2>2, <2>6, <2>7 DEF ApplyInv
  <2>8. ~crossed => ApplyInv(w)'
    BY <2>1, <2>2, <2>4, <2>5, <2>7 DEF ApplyInv
  <2>9. ASSUME ~crossed, ~torn'
        PROVE  Told(kernel, rules, changed)' /\ Told(stored, rules, changed)'
    <3>1. CASE pc = "loaded"
      <4>1. Told(apply[w].read, rules', changed')
        <5>1. Changes(apply[w].read, rules, last) \subseteq changed'
          BY <1>1, <2>2, <2>6, <2>7, <2>9, ChangesAre
        <5>2. QED
          BY <1>1, <2>2, <5>1, ReadIsTold DEF Applies
      <4>2. QED
        BY <2>1, <2>2, <2>7, <2>9, <3>1, <4>1
    <3>2. CASE pc = "refused" /\ stored' = stored /\ torn' = torn
      BY <1>6, <2>1, <2>2, <2>9, <3>2
    <3>3. QED
      BY <2>1, <2>9, <3>1, <3>2
  <2>10. QED
    BY <2>2, <2>5, <2>8, <2>9, ApplyStep
(* Rules are marked as applied only when the kernel and the file have them.*)
<1>11. CASE apply_marks(w)
  <2>1. /\ apply[w].pc \in {"loaded", "refused"} /\ rules' = Marks(w)
        /\ apply' = [apply EXCEPT ![w] = Idle]
        /\ UNCHANGED <<last, kernel, stored, changed, crossed, torn>>
    BY <1>11 DEF apply_marks
  <2>2. /\ DOMAIN rules' = DOMAIN rules /\ rules' \in [DOMAIN rules -> Rule]
        /\ \A i \in DOMAIN rules :
             /\ rules'[i].body = rules[i].body
             /\ apply[w].pc = "refused" =>
                  rules'[i].status = IF rules[i].status = "pending"
                                     THEN "error" ELSE rules[i].status
    <3>1. PICK from \in SUBSET {"pending", "error"}, to \in {"applied", "error"} :
            /\ rules' = Marked(from, to)
            /\ apply[w].pc = "refused" => from = {"pending"} /\ to = "error"
      BY <2>1 DEF Marks
    <3>2. \A i \in DOMAIN rules :
            /\ rules[i] \in Rule /\ [rules[i] EXCEPT !.status = to] \in Rule
            /\ [rules[i] EXCEPT !.status = to].body = rules[i].body
            /\ [rules[i] EXCEPT !.status = to].status = to
      BY <1>1 DEF FirewallType, Rule
    <3>3. QED
      BY <3>1, <3>2 DEF Marked
  <2>3. /\ FirewallType' /\ apply'[w] = Idle
        /\ \A v \in Web \ {w} : apply'[v] = apply[v]
    BY <1>1, <1>4, <2>1, <2>2 DEF FirewallType
  <2>4. ApplyInv(w)'
    BY <1>4, <2>3 DEF ApplyInv
  <2>5. ASSUME ~crossed, ~torn
        PROVE  Told(kernel, rules', changed) /\ Told(stored, rules', changed)
    <3>1. CASE apply[w].pc = "loaded"
      <4>1. kernel = apply[w].read /\ stored = apply[w].read
        BY <1>5, <2>5, <3>1 DEF ApplyInv
      <4>2. Changes(kernel, rules', last) \subseteq changed
        <5>1. Changes(kernel, rules', last) = Changes(kernel, rules, last)
          BY <1>1, <2>2 DEF Changes, Rule, FirewallType
        <5>2. QED
          BY <1>1, <1>5, <2>5, <3>1, <4>1, <5>1, ChangesAre
      <4>3. Told(kernel, rules', changed)
        BY <1>1, <2>2, <4>1, <4>2, ReadIsTold DEF Applies
      <4>4. QED
        BY <2>1, <4>1, <4>3
    <3>2. CASE apply[w].pc = "refused"
      <4>1. ASSUME \A i \in DOMAIN rules' : rules'[i].status = "applied"
            PROVE  rules' = rules
        <5>1. \A i \in DOMAIN rules : rules[i].status = "applied" /\ rules'[i].status = "applied"
          BY <1>1, <2>2, <3>2, <4>1 DEF Rule, FirewallType
        <5>2. \A i \in DOMAIN rules : rules'[i] = rules[i]
          BY <1>1, <2>2, <5>1 DEF FirewallType, Rule
        <5>3. QED
          BY <1>1, <2>2, <5>2 DEF FirewallType
      <4>2. \A i \in DOMAIN rules' :
              rules'[i].status = "applied" => /\ i \in DOMAIN rules
                                             /\ rules[i].status = "applied"
                                             /\ rules'[i].body = rules[i].body
        BY <1>1, <2>2, <3>2 DEF Rule, FirewallType
      <4>3. ASSUME NEW t, Told(t, rules, changed) PROVE Told(t, rules', changed)
        BY <4>1, <4>2, <4>3, ToldOfFewer
      <4>4. QED
        BY <1>6, <2>5, <4>3
    <3>3. QED
      BY <2>1, <3>1, <3>2
  <2>6. QED
    BY <2>1, <2>3, <2>4, <2>5, ApplyStep
<1>12. CASE apply_dies(w)
  <2>1. /\ apply[w].pc # "idle" /\ apply' = [apply EXCEPT ![w] = Idle]
        /\ UNCHANGED <<rules, last, kernel, changed, crossed>>
        /\ stored' \in {stored, NoRules}
        /\ torn' \in BOOLEAN /\ (~torn' => ~torn /\ stored' = stored)
    BY <1>1, <1>12 DEF apply_dies, FirewallType
  <2>2. /\ FirewallType' /\ apply'[w] = Idle
        /\ \A v \in Web \ {w} : apply'[v] = apply[v]
    BY <1>1, <1>2, <1>4, <2>1 DEF FirewallType
  <2>3. ApplyInv(w)'
    BY <1>4, <2>2 DEF ApplyInv
  <2>4. QED
    BY <1>6, <2>1, <2>2, <2>3, ApplyStep
<1>13. QED
  BY <1>7, <1>8, <1>9, <1>10, <1>11, <1>12

LEMMA BootKeeps ==
  ASSUME FirewallInv, Boots
  PROVE  FirewallInv'
<1>1. /\ kernel' = stored /\ apply' = [w \in Web |-> Idle]
      /\ UNCHANGED <<rules, last, stored, changed, crossed>>
      /\ torn' \in BOOLEAN /\ (~torn' => ~torn)
  BY DEF Boots, FirewallInv, FirewallType
<1>2. Idle \in Applies /\ Idle.pc = "idle" /\ DOMAIN Idle.read = {}
  BY TablesExist DEF Idle, Applies
<1>3. FirewallType'
  BY <1>1, <1>2 DEF FirewallInv, FirewallType
<1>4. \A w \in Web : At(w, "idle")' /\ ApplyInv(w)'
  BY <1>1, <1>2 DEF ApplyInv, At
<1>5. QED
  BY <1>1, <1>3, <1>4 DEF FirewallInv, InFlight, At

LEMMA FirewallStart == FirewallInit => FirewallInv
<1> SUFFICES ASSUME FirewallInit PROVE FirewallInv
  OBVIOUS
<1>1. Idle \in Applies /\ Idle.pc = "idle" /\ DOMAIN Idle.read = {}
  BY TablesExist DEF Idle, Applies
<1>2. FirewallType
  BY <1>1, TablesExist DEF FirewallInit, FirewallType, NoRules
<1>3. \A w \in Web : At(w, "idle") /\ ApplyInv(w)
  BY <1>1 DEF FirewallInit, ApplyInv, At
<1>4. Told(NoRules, NoRules, {})
  BY TablesExist DEF Told
<1>5. QED
  BY <1>2, <1>3, <1>4 DEF FirewallInit, FirewallInv, InFlight, At

LEMMA FirewallStep == FirewallInv /\ [Next]_vars => FirewallInv'
<1> SUFFICES ASSUME FirewallInv, [Next]_vars PROVE FirewallInv'
  OBVIOUS
<1>1. CASE FirewallNext
  BY <1>1, FormsKeep, AppliesKeep DEF FirewallNext
<1>2. CASE MachineBoots
  BY <1>2, BootKeeps DEF MachineBoots
<1>3. CASE UNCHANGED fwVars
  BY <1>3 DEF fwVars, FirewallInv, FirewallType, ApplyInv, ChangedSince, InFlight, At
<1>4. QED
  BY <1>1, <1>2, <1>3 DEF Next, vars

(* The firewall page calls a rule applied only if the kernel has it as it  *)
(* stands, and has no other if all are, whatever is refused or killed,     *)
(* unless two applies met, a rule changed meanwhile or a file was left     *)
(* empty (apply_firewall, the helper's apply).                             *)
THEOREM FirewallIsTold == Spec => []FirewallTold
<1>1. FirewallInv => FirewallTold
  BY DEF FirewallInv, FirewallTold, Told, Bodily, BodiesOf
<1>2. Init => FirewallInv
  BY FirewallStart DEF Init
<1>3. QED
  BY <1>1, <1>2, FirewallStep, PTL DEF Spec

-----------------------------------------------------------------------------
(* The state of the page of Fail2Ban.                                      *)
Settings == [policy : Policies, service : BOOLEAN]
Jails    == [policy : Policies, ignore : SUBSET Values]
Entry    == [value : Values, until : Nat, status : {"active", "removed", "expired"}]
Asking   == {"save", "undo", "service"}
Places   == {"idle", "save", "read", "apply", "restore", "start", "stop", "record",
             "put back", "insert", "ban", "unban", "expire", "update"}
Request  ==
  [pc : Places,
   for : Asking \cup {"none"} \cup Values,
   want : Policies \cup BOOLEAN \cup {{}}, prev : Settings \cup {{}},
   conf : Jails \cup {{}}, todo : SUBSET Nat, done : SUBSET Nat]

(* What a process is about, where it stands.                               *)
RequestInv(p) ==
  /\ sip[p].pc \in {"save", "restore"} => sip[p].for = "save"
  /\ sip[p].pc \in {"read", "apply"} => sip[p].for \in Asking
  /\ sip[p].pc \in {"start", "stop", "record", "put back"} => sip[p].for = "service"
  /\ sip[p].pc \in {"insert", "ban", "unban"} => sip[p].for \in Values
  /\ sip[p].pc \in {"idle", "expire", "update"} => sip[p].for = "none"
  /\ sip[p].for # "none" => p \in Web
  /\ sip[p].for = "save" => sip[p].want \in Policies
  /\ sip[p].for = "service" => sip[p].want \in BOOLEAN
  /\ sip[p].for \in Asking => sip[p].prev \in Settings
  /\ sip[p].pc = "apply" => sip[p].conf \in Jails
  /\ sip[p].pc \notin {"expire", "update"} => sip[p].todo = {} /\ sip[p].done = {}
  /\ sip[p].pc = "update" => sip[p].todo # {}
  /\ sip[p].todo \cup sip[p].done \subseteq DOMAIN black

SipType ==
  /\ settings \in Settings /\ jail \in Jails /\ running \in BOOLEAN
  /\ white \subseteq Values /\ bans \subseteq Hosts /\ hour \in Nat
  /\ black \in Seq(Entry)
  /\ sip \in [Processes -> Request]
  /\ writer \in Processes \cup {Nobody}
  /\ adrift \in BOOLEAN

SipInv == SipType /\ \A p \in Processes : RequestInv(p)

(* What a step makes of the request of one process.                        *)
Becomes(p, r) ==
  /\ sip' \in [Processes -> Request] /\ sip'[p] = r
  /\ \A q \in Processes \ {p} : sip'[q] = sip[q]

LEMMA KindsApart ==
  ASSUME NEW v \in Values
  PROVE  v \notin {"none", "save", "undo", "service"}
BY NamesAssumption DEF Values

LEMMA NewRequest ==
  ASSUME SipInv, NEW p \in Processes, NEW r \in Request, sip' = [sip EXCEPT ![p] = r]
  PROVE  Becomes(p, r)
BY DEF Becomes, SipInv, SipType

LEMMA StepIs ==
  ASSUME SipInv, NEW p \in Processes, NEW pc \in Places, Step(p, pc)
  PROVE  Becomes(p, [sip[p] EXCEPT !.pc = pc])
<1>1. sip[p] \in Request
  BY DEF SipInv, SipType
<1>2. [sip[p] EXCEPT !.pc = pc] \in Request
  BY <1>1 DEF Request
<1>3. sip' = [sip EXCEPT ![p] = [sip[p] EXCEPT !.pc = pc]]
  BY DEF Step
<1>4. QED
  BY <1>2, <1>3, NewRequest

LEMMA EndIs ==
  ASSUME SipInv, NEW p \in Processes, Ends(p)
  PROVE  Becomes(p, Unoccupied)
<1>1. Unoccupied \in Request
  BY DEF Unoccupied, Request, Places
<1>2. QED
  BY <1>1, NewRequest DEF Ends

(* The fields of the request of a process that has one in hand.            *)
LEMMA Fields ==
  ASSUME SipInv, NEW p \in Processes
  PROVE  /\ sip[p] \in Request /\ sip[p].pc \in Places
         /\ sip[p].for \in Asking \cup {"none"} \cup Values
         /\ sip[p].todo \subseteq Nat /\ sip[p].done \subseteq Nat
         /\ RequestInv(p)
BY DEF SipInv, SipType, Request

LEMMA SipKept ==
  ASSUME SipInv, NEW p \in Processes, NEW r, Becomes(p, r), RequestInv(p)',
         settings' \in Settings, jail' \in Jails, running' \in BOOLEAN,
         white' \subseteq Values, bans' \subseteq Hosts, hour' \in Nat,
         black' \in Seq(Entry), DOMAIN black \subseteq DOMAIN black',
         writer' \in Processes \cup {Nobody}, adrift' \in BOOLEAN
  PROVE  SipInv'
<1>1. SipType'
  BY DEF SipType, Becomes
<1>2. ASSUME NEW q \in Processes, q # p PROVE RequestInv(q)'
  <2>1. sip'[q] = sip[q] /\ RequestInv(q)
    BY <1>2 DEF Becomes, SipInv
  <2>2. QED
    BY <2>1 DEF RequestInv
<1>3. QED
  BY <1>1, <1>2 DEF SipInv

-----------------------------------------------------------------------------
(* The policy and the service.                                             *)

(* How far a request has brought the policy, the jail and the service.     *)
ChangeInv(w) ==
  /\ sip[w].for \in {"save", "undo"} =>
       /\ running = settings.service
       /\ sip[w].pc = "apply" => sip[w].conf.policy = settings.policy
  /\ sip[w].for = "service" =>
       /\ jail.policy = settings.policy /\ sip[w].prev.service = settings.service
       /\ sip[w].pc = "start" => running = settings.service
       /\ sip[w].pc \in {"read", "apply"} => running /\ sip[w].want
       /\ sip[w].pc = "record" => running = sip[w].want
       /\ sip[w].pc = "apply" => sip[w].conf.policy = settings.policy

PolicyInv ==
  ~adrift =>
    /\ \A w, v \in Changing : w = v
    /\ \A w \in Changing : ChangeInv(w)
    /\ Changing = {} => jail.policy = settings.policy /\ running = settings.service

LEMMA ChangeStep ==
  ASSUME SipInv, PolicyInv, NEW w \in Web, NEW r, Becomes(w, r), RequestInv(w)',
         OnlyPolicy, settings' \in Settings, jail' \in Jails, running' \in BOOLEAN,
         adrift' \in BOOLEAN, adrift => adrift',
         ~adrift' => w \in Changing \/ Changing = {},
         ~adrift' /\ r.for \in Asking => ChangeInv(w)',
         ~adrift' /\ r.for \notin Asking =>
           jail'.policy = settings'.policy /\ running' = settings'.service
  PROVE  SipInv' /\ PolicyInv'
<1>1. w \in Processes
  BY DEF Processes
<1>2. SipInv'
  BY <1>1, SipKept DEF OnlyPolicy, SipInv, SipType
<1>3. ASSUME ~adrift' PROVE Changing' \subseteq {w}
  <2>1. ~adrift
    BY <1>3
  <2>2. Changing \subseteq {w}
    BY <1>3, <2>1 DEF PolicyInv
  <2>3. ASSUME NEW v \in Web, v # w PROVE sip'[v] = sip[v]
    BY <2>3 DEF Becomes, Processes
  <2>4. QED
    BY <2>2, <2>3 DEF Changing
<1>4. w \in Changing' <=> r.for \in Asking
  BY DEF Changing, Becomes, Asking
<1>5. PolicyInv'
  BY <1>3, <1>4 DEF PolicyInv
<1>6. QED
  BY <1>2, <1>5

LEMMA AskStep ==
  ASSUME SipInv, PolicyInv, NEW w \in Web,
         \/ \E policy \in Policies : sip_security_save(w, policy)
         \/ \E on \in BOOLEAN : set_service_enabled(w, on)
  PROVE  SipInv' /\ PolicyInv'
<1>1. PICK kind \in {"save", "service"}, want \in Policies \cup BOOLEAN, pc \in {"save", "start"} :
        /\ Asks(w, kind, want, pc)
        /\ \/ kind = "save" /\ want \in Policies /\ pc = "save"
           \/ kind = "service" /\ want \in BOOLEAN /\ pc = "start"
  <2>1. CASE \E policy \in Policies : sip_security_save(w, policy)
    BY <2>1 DEF sip_security_save
  <2>2. CASE \E on \in BOOLEAN : set_service_enabled(w, on)
    BY <2>2 DEF set_service_enabled
  <2>3. QED
    BY <2>1, <2>2
<1> DEFINE r == [Unoccupied EXCEPT !.pc = pc, !.for = kind, !.want = want, !.prev = settings]
<1>2. settings \in Settings /\ jail \in Jails /\ running \in BOOLEAN /\ adrift \in BOOLEAN
  BY DEF SipInv, SipType
<1>3. /\ r \in Request /\ r.pc = pc /\ r.for = kind /\ r.want = want /\ r.prev = settings
      /\ r.todo = {} /\ r.done = {}
  BY <1>1, <1>2 DEF Unoccupied, Request, Places, Asking
<1>4. /\ sip' = [sip EXCEPT ![w] = r] /\ adrift' = (adrift \/ Changing # {})
      /\ OnlyPolicy /\ UNCHANGED <<settings, jail, running>> /\ SipAt(w, "idle")
  BY <1>1 DEF Asks, Free
<1> HIDE DEF r
<1>5. Becomes(w, r)
  BY <1>3, <1>4, NewRequest DEF Processes
<1>6. RequestInv(w)'
  BY <1>1, <1>2, <1>3, <1>5 DEF RequestInv, Becomes, Asking
<1>7. adrift' \in BOOLEAN /\ (adrift => adrift') /\ (~adrift' => Changing = {} /\ ~adrift)
  BY <1>2, <1>4
<1>8. ASSUME ~adrift' PROVE ChangeInv(w)'
  <2>1. jail.policy = settings.policy /\ running = settings.service
    BY <1>7, <1>8 DEF PolicyInv
  <2>2. QED
    BY <1>1, <1>3, <1>4, <1>5, <2>1 DEF ChangeInv, Becomes
<1>9. r.for \in Asking
  BY <1>3 DEF Asking
<1>10. QED
  BY <1>2, <1>4, <1>5, <1>6, <1>7, <1>8, <1>9, ChangeStep

LEMMA UnoccupiedIs ==
  ASSUME SipInv, NEW p \in Processes, Becomes(p, Unoccupied)
  PROVE  RequestInv(p)' /\ Unoccupied.for = "none" /\ sip'[p].todo = {} /\ sip'[p].done = {}
BY KindsApart DEF Becomes, RequestInv, Unoccupied, Asking

LEMMA ChangeGoesOn ==
  ASSUME SipInv, PolicyInv, NEW w \in Processes,
         \/ save_settings(w) \/ apply_configuration(w) \/ helper_applies(w)
         \/ helper_refuses(w) \/ restore_settings(w) \/ service_command(w)
         \/ service_stopped_again(w) \/ record_service(w) \/ put_service_back(w)
  PROVE  SipInv' /\ PolicyInv'
<1> USE DEF SipAt
<1> DEFINE q == sip[w]
<1>1. /\ q \in Request /\ q.pc \in Places /\ RequestInv(w)
      /\ settings \in Settings /\ jail \in Jails /\ running \in BOOLEAN /\ adrift \in BOOLEAN
      /\ settings.policy \in Policies /\ settings.service \in BOOLEAN
      /\ jail.policy \in Policies
  BY Fields DEF SipInv, SipType, Settings, Jails
<1>2. q.pc \in {"save", "read", "apply", "restore", "start", "stop", "record", "put back"}
  BY DEF save_settings, apply_configuration, helper_applies, helper_refuses, restore_settings,
         service_command, service_stopped_again, record_service, put_service_back
<1>3. /\ q.for \in Asking /\ w \in Web /\ q.prev \in Settings
      /\ q.todo = {} /\ q.done = {}
  BY <1>1, <1>2 DEF RequestInv, Asking
<1>4. w \in Changing
  BY <1>3 DEF Changing, Asking
<1>5. ~adrift => ChangeInv(w)
  BY <1>4 DEF PolicyInv
<1>6. OnlyPolicy
  BY DEF save_settings, apply_configuration, helper_applies, helper_refuses, restore_settings,
         service_command, service_stopped_again, record_service, put_service_back
(* The request goes on, with all it has in hand.                           *)
<1>7. ASSUME NEW pc \in Places, Step(w, pc),
             pc \in {"read", "apply"}
               \/ (pc = "restore" /\ q.for = "save")
               \/ (pc \in {"stop", "record", "put back"} /\ q.for = "service"),
             pc = "apply" => q.conf \in Jails
      PROVE  \E r : /\ Becomes(w, r) /\ RequestInv(w)' /\ r.for \in Asking
                    /\ r.pc = pc /\ r.for = q.for /\ r.want = q.want /\ r.prev = q.prev
                    /\ r.conf = q.conf
  <2> DEFINE r == [q EXCEPT !.pc = pc]
  <2>1. Becomes(w, r)
    BY <1>7, StepIs
  <2>2. /\ r.pc = pc /\ r.for = q.for /\ r.want = q.want /\ r.prev = q.prev
        /\ r.conf = q.conf /\ r.todo = q.todo /\ r.done = q.done
    BY <1>1 DEF Request
  <2> HIDE DEF r
  <2>3. RequestInv(w)'
    BY <1>1, <1>3, <1>7, <2>1, <2>2 DEF RequestInv, Becomes, Asking
  <2>4. QED
    BY <1>3, <2>1, <2>2, <2>3
(* The request is over.                                                    *)
<1>8. ASSUME Ends(w), settings' \in Settings, jail' \in Jails, running' \in BOOLEAN,
             adrift' \in BOOLEAN, adrift => adrift',
             ~adrift' => jail'.policy = settings'.policy /\ running' = settings'.service
      PROVE  SipInv' /\ PolicyInv'
  <2>1. Becomes(w, Unoccupied) /\ RequestInv(w)' /\ Unoccupied.for \notin Asking
    BY <1>8, EndIs, UnoccupiedIs DEF Asking
  <2>2. QED
    BY <1>3, <1>4, <1>6, <1>8, <2>1, ChangeStep
<1>9. CASE save_settings(w)
  <2>1. /\ q.pc = "save" /\ Step(w, "read") /\ UNCHANGED <<jail, running, adrift>>
        /\ settings' = [settings EXCEPT !.policy = q.want] /\ q.for = "save"
    BY <1>1, <1>9 DEF save_settings, RequestInv
  <2>2. q.want \in Policies
    BY <1>1, <2>1 DEF RequestInv
  <2>3. settings' \in Settings /\ settings'.service = settings.service
    BY <1>1, <2>1, <2>2 DEF Settings
  <2>4. PICK r : /\ Becomes(w, r) /\ RequestInv(w)' /\ r.for \in Asking
                 /\ r.pc = "read" /\ r.for = q.for
    BY <1>7, <2>1 DEF Places
  <2>5. ~adrift' => ChangeInv(w)'
    BY <1>5, <2>1, <2>3, <2>4 DEF ChangeInv, Becomes
  <2>6. QED
    BY <1>1, <1>3, <1>4, <1>6, <2>1, <2>3, <2>4, <2>5, ChangeStep
<1>10. CASE apply_configuration(w)
  <2> DEFINE r == [q EXCEPT !.pc = "apply",
                            !.conf = [policy |-> settings.policy, ignore |-> white]]
  <2>1. /\ q.pc = "read" /\ UNCHANGED <<settings, jail, running, adrift>>
        /\ sip' = [sip EXCEPT ![w] = r]
    BY <1>10 DEF apply_configuration
  <2>2. /\ r \in Request /\ r.pc = "apply" /\ r.for = q.for /\ r.want = q.want
        /\ r.prev = q.prev /\ r.conf \in Jails /\ r.conf.policy = settings.policy
        /\ r.todo = q.todo /\ r.done = q.done
    <3>1. [policy |-> settings.policy, ignore |-> white] \in Jails
      BY <1>1 DEF Jails, SipInv, SipType
    <3>2. QED
      BY <1>1, <3>1 DEF Request, Places
  <2> HIDE DEF r
  <2>3. Becomes(w, r)
    BY <2>1, <2>2, NewRequest
  <2>4. RequestInv(w)'
    BY <1>1, <1>3, <2>1, <2>2, <2>3 DEF RequestInv, Becomes, Asking
  <2>5. ~adrift' => ChangeInv(w)'
    BY <1>5, <2>1, <2>2, <2>3 DEF ChangeInv, Becomes
  <2>6. QED
    BY <1>1, <1>3, <1>4, <1>6, <2>1, <2>2, <2>3, <2>4, <2>5, ChangeStep
<1>11. CASE helper_applies(w)
  <2>1. /\ q.pc = "apply" /\ jail' = q.conf /\ UNCHANGED <<settings, running, adrift>>
        /\ IF q.for = "service" THEN Step(w, "record") ELSE Ends(w)
    BY <1>11 DEF helper_applies
  <2>2. jail' \in Jails /\ (~adrift => jail'.policy = settings.policy)
    BY <1>1, <1>3, <1>5, <2>1 DEF RequestInv, ChangeInv, Asking
  <2>3. CASE q.for # "service"
    <3>1. ~adrift => running = settings.service
      BY <1>3, <1>5, <2>3 DEF ChangeInv, Asking
    <3>2. QED
      BY <1>1, <1>8, <2>1, <2>2, <2>3, <3>1
  <2>4. CASE q.for = "service"
    <3> Step(w, "record") /\ "record" \in Places
      BY <2>1, <2>4 DEF Places
    <3>1. PICK r : /\ Becomes(w, r) /\ RequestInv(w)' /\ r.for \in Asking
                   /\ r.pc = "record" /\ r.for = q.for /\ r.want = q.want /\ r.prev = q.prev
      BY <1>7, <2>1, <2>4
    <3>2. q.want \in BOOLEAN
      BY <1>1, <2>4 DEF RequestInv
    <3>3. ~adrift' => ChangeInv(w)'
      BY <1>5, <2>1, <2>2, <2>4, <3>1, <3>2 DEF ChangeInv, Becomes
    <3>4. QED
      BY <1>1, <1>3, <1>4, <1>6, <2>1, <2>2, <3>1, <3>3, ChangeStep
  <2>5. QED
    BY <2>3, <2>4
<1>12. CASE helper_refuses(w)
  <2>1. /\ q.pc = "apply" /\ jail' \in {jail, q.conf} /\ UNCHANGED <<settings, running>>
        /\ adrift' = (adrift \/ q.for = "undo")
        /\ q.for = "save" => Step(w, "restore")
        /\ q.for = "undo" => Ends(w)
        /\ q.for = "service" => Step(w, "stop")
    BY <1>3, <1>12 DEF helper_refuses, Asking
  <2>2. jail' \in Jails /\ adrift' \in BOOLEAN /\ (adrift => adrift')
    BY <1>1, <1>3, <2>1 DEF RequestInv, Asking
  <2>3. CASE q.for = "undo"
    BY <1>1, <1>8, <2>1, <2>2, <2>3
  <2>4. CASE q.for = "save"
    <3> Step(w, "restore") /\ "restore" \in Places
      BY <2>1, <2>4 DEF Places
    <3>1. PICK r : /\ Becomes(w, r) /\ RequestInv(w)' /\ r.for \in Asking
                   /\ r.pc = "restore" /\ r.for = q.for
      BY <1>7, <2>4
    <3>2. ~adrift' => ChangeInv(w)'
      BY <1>5, <2>1, <2>2, <2>4, <3>1 DEF ChangeInv, Becomes
    <3>3. QED
      BY <1>1, <1>3, <1>4, <1>6, <2>1, <2>2, <3>1, <3>2, ChangeStep
  <2>5. CASE q.for = "service"
    <3> Step(w, "stop") /\ "stop" \in Places
      BY <2>1, <2>5 DEF Places
    <3>1. PICK r : /\ Becomes(w, r) /\ RequestInv(w)' /\ r.for \in Asking
                   /\ r.pc = "stop" /\ r.for = q.for /\ r.prev = q.prev
      BY <1>7, <2>1, <2>5
    <3>2. ~adrift => jail'.policy = settings.policy
      BY <1>5, <2>1, <2>5 DEF ChangeInv
    <3>3. ~adrift' => ChangeInv(w)'
      BY <1>5, <2>1, <2>2, <2>5, <3>1, <3>2 DEF ChangeInv, Becomes
    <3>4. QED
      BY <1>1, <1>3, <1>4, <1>6, <2>1, <2>2, <3>1, <3>3, ChangeStep
  <2>6. QED
    BY <1>3, <2>3, <2>4, <2>5 DEF Asking
<1>13. CASE restore_settings(w)
  <2> DEFINE r == [q EXCEPT !.pc = "read", !.for = "undo"]
  <2>1. /\ q.pc = "restore" /\ UNCHANGED <<jail, running, adrift>> /\ q.for = "save"
        /\ settings' = [settings EXCEPT !.policy = q.prev.policy]
        /\ sip' = [sip EXCEPT ![w] = r]
    BY <1>1, <1>13 DEF restore_settings, RestoreAndApply, RequestInv
  <2>2. /\ r \in Request /\ r.pc = "read" /\ r.for = "undo" /\ r.prev = q.prev
        /\ r.todo = q.todo /\ r.done = q.done
    BY <1>1 DEF Request, Places, Asking
  <2>3. settings' \in Settings /\ settings'.service = settings.service
    BY <1>1, <1>3, <2>1 DEF Settings
  <2> HIDE DEF r
  <2>4. Becomes(w, r)
    BY <2>1, <2>2, NewRequest
  <2>5. RequestInv(w)'
    BY <1>1, <1>3, <2>2, <2>4 DEF RequestInv, Becomes, Asking
  <2>6. r.for \in Asking
    BY <2>2 DEF Asking
  <2>7. ~adrift' => ChangeInv(w)'
    BY <1>5, <2>1, <2>2, <2>3, <2>4 DEF ChangeInv, Becomes
  <2>8. QED
    BY <1>1, <1>3, <1>4, <1>6, <2>1, <2>3, <2>4, <2>5, <2>6, <2>7, ChangeStep
<1>14. CASE service_command(w)
  <2>1. /\ q.pc = "start" /\ q.for = "service" /\ UNCHANGED <<settings, jail, adrift>>
        /\ q.want \in BOOLEAN
        /\ \/ running' = q.want /\ Step(w, IF q.want THEN "read" ELSE "record")
           \/ Ends(w) /\ UNCHANGED running
    BY <1>1, <1>14 DEF service_command, RequestInv
  <2>2. ~adrift => /\ jail.policy = settings.policy /\ running = settings.service
                   /\ q.prev.service = settings.service
    BY <1>5, <2>1 DEF ChangeInv
  <2>3. CASE Ends(w) /\ UNCHANGED running
    BY <1>1, <1>8, <2>1, <2>2, <2>3
  <2>4. ASSUME NEW pc \in {"read", "record"}, pc = "read" <=> q.want, running' = q.want, Step(w, pc)
        PROVE  SipInv' /\ PolicyInv'
    <3> pc \in Places
      BY DEF Places
    <3>1. PICK r : /\ Becomes(w, r) /\ RequestInv(w)' /\ r.for \in Asking
                   /\ r.pc = pc /\ r.for = q.for /\ r.want = q.want /\ r.prev = q.prev
      BY <1>7, <2>1, <2>4
    <3>2. ~adrift' => ChangeInv(w)'
      BY <1>1, <2>1, <2>2, <2>4, <3>1 DEF ChangeInv, Becomes
    <3>3. QED
      BY <1>1, <1>3, <1>4, <1>6, <2>1, <2>4, <3>1, <3>2, ChangeStep
  <2>5. QED
    BY <2>1, <2>3, <2>4
<1>15. CASE service_stopped_again(w)
  <2>1. /\ q.pc = "stop" /\ q.for = "service" /\ UNCHANGED <<settings, jail>> /\ Ends(w)
        /\ \/ running' = FALSE /\ adrift' = (adrift \/ q.prev.service)
           \/ adrift' = TRUE /\ UNCHANGED running
    BY <1>1, <1>15 DEF service_stopped_again, RequestInv
  <2>2. /\ q.prev.service \in BOOLEAN
        /\ ~adrift => jail.policy = settings.policy /\ q.prev.service = settings.service
    BY <1>3, <1>5, <2>1 DEF ChangeInv, Settings
  <2>3. /\ running' \in BOOLEAN /\ adrift' \in BOOLEAN /\ (adrift => adrift')
        /\ ~adrift' => jail.policy = settings.policy /\ running' = settings.service
    BY <1>1, <2>1, <2>2
  <2>4. QED
    BY <1>1, <1>8, <2>1, <2>3
<1>16. CASE record_service(w)
  <2>1. /\ q.pc = "record" /\ q.for = "service" /\ UNCHANGED <<jail, running, adrift>>
        /\ q.want \in BOOLEAN
        /\ \/ settings' = [settings EXCEPT !.service = q.want] /\ Ends(w)
           \/ Step(w, "put back") /\ UNCHANGED settings
    BY <1>1, <1>16 DEF record_service, RequestInv
  <2>2. ~adrift => /\ jail.policy = settings.policy /\ running = q.want
                   /\ q.prev.service = settings.service
    BY <1>5, <2>1 DEF ChangeInv
  <2>3. CASE Ends(w) /\ settings' = [settings EXCEPT !.service = q.want]
    <3>1. /\ settings' \in Settings /\ settings'.policy = settings.policy
          /\ settings'.service = q.want
      BY <1>1, <2>1, <2>3 DEF Settings
    <3>2. QED
      BY <1>1, <1>8, <2>1, <2>2, <2>3, <3>1
  <2>4. CASE Step(w, "put back") /\ UNCHANGED settings
    <3> "put back" \in Places
      BY DEF Places
    <3>1. PICK r : /\ Becomes(w, r) /\ RequestInv(w)' /\ r.for \in Asking
                   /\ r.pc = "put back" /\ r.for = q.for /\ r.want = q.want /\ r.prev = q.prev
      BY <1>7, <2>1, <2>4
    <3>2. ~adrift' => ChangeInv(w)'
      BY <2>1, <2>2, <2>4, <3>1 DEF ChangeInv, Becomes
    <3>3. QED
      BY <1>1, <1>3, <1>4, <1>6, <2>1, <2>4, <3>1, <3>2, ChangeStep
  <2>5. QED
    BY <2>1, <2>3, <2>4
<1>17. CASE put_service_back(w)
  <2>1. /\ q.pc = "put back" /\ q.for = "service" /\ UNCHANGED <<settings, jail>> /\ Ends(w)
        /\ \/ running' = q.prev.service /\ UNCHANGED adrift
           \/ adrift' = TRUE /\ UNCHANGED running
    BY <1>1, <1>17 DEF put_service_back, RequestInv
  <2>2. /\ q.prev.service \in BOOLEAN
        /\ ~adrift => jail.policy = settings.policy /\ q.prev.service = settings.service
    BY <1>3, <1>5, <2>1 DEF ChangeInv, Settings
  <2>3. running' \in BOOLEAN /\ adrift' \in BOOLEAN /\ (adrift => adrift')
    <3>1. CASE running' = q.prev.service /\ UNCHANGED adrift
      BY <1>1, <2>2, <3>1
    <3>2. CASE adrift' = TRUE /\ UNCHANGED running
      BY <1>1, <3>2
    <3>3. QED
      BY <2>1, <3>1, <3>2
  <2>4. ~adrift' => ~adrift /\ running' = q.prev.service
    BY <1>1, <2>1
  <2>5. ~adrift' => jail.policy = settings.policy /\ running' = settings.service
    BY <2>2, <2>4
  <2>6. QED
    BY <1>1, <1>8, <2>1, <2>3, <2>5
<1>18. QED
  BY <1>9, <1>10, <1>11, <1>12, <1>13, <1>14, <1>15, <1>16, <1>17

-----------------------------------------------------------------------------
(* The blacklist and the bans.                                             *)

(* A row that a reconciliation has unbanned and not yet ended.             *)
Ended(p, i) == i \in sip[p].done \/ (SipAt(p, "update") /\ i = NextRow(p))

HandInv(p, h) ==
  /\ \A i \in sip[p].todo \cup sip[p].done :
       h \in Covers[black[i].value] => black[i].status = "active"
  /\ SipAt(p, "ban") => ActiveRows(h) # {}
  /\ SipAt(p, "unban") => ActiveRows(h) = {}
  /\ ~SipAt(p, "ban") /\ ~SipAt(p, "unban") =>
       (h \in bans <=> \E i \in ActiveRows(h) : ~Ended(p, i))

HostInv(h) ==
  /\ \A i, j \in ActiveRows(h) : i = j
  /\ \A p, q \in InHand(h) : p = q
  /\ \A p \in InHand(h) : HandInv(p, h)
  /\ InHand(h) = {} => (h \in bans <=> ActiveRows(h) # {})

BansInv == \A h \in Hosts \ spoilt : HostInv(h)

LEMMA NextRowIs ==
  ASSUME SipInv, NEW p \in Processes, sip[p].todo # {}
  PROVE  NextRow(p) \in sip[p].todo
<1>1. sip[p].todo \in SUBSET Nat
  BY Fields
<1>2. PICK i \in sip[p].todo : \A j \in sip[p].todo : ~ (<<j, i>> \in OpToRel(<, Nat))
  BY <1>1, WFMin, NatLessThanWellFounded
<1>3. \A j \in sip[p].todo : ~(j < i)
  BY <1>1, <1>2 DEF OpToRel
<1>4. \A j \in sip[p].todo : i <= j
  BY <1>1, <1>3
<1>5. QED
  BY <1>4 DEF NextRow

LEMMA SingleIs ==
  ASSUME NEW v \in Values, NEW h \in Covers[v]
  PROVE  Single(v) <=> Covers[v] = {h}
<1>1. IsFiniteSet(Covers[v])
  BY CoversAssumption DEF Values
<1>2. QED
  BY <1>1, FS_Singleton DEF Single

LEMMA HostType ==
  ASSUME NEW v \in Values
  PROVE  Covers[v] \subseteq Hosts
BY DEF Hosts

LEMMA RowType ==
  ASSUME SipInv, NEW i \in DOMAIN black
  PROVE  /\ black[i] \in Entry /\ black[i].value \in Values
         /\ black[i].status \in {"active", "removed", "expired"}
         /\ DOMAIN black = 1 .. Len(black) /\ Len(black) \in Nat
<1>1. black \in Seq(Entry)
  BY DEF SipInv, SipType
<1>2. black[i] \in Entry
  BY <1>1, ElementOfSeq
<1>3. QED
  BY <1>1, <1>2 DEF Entry

(* The rows keep their address.                                            *)
SameValues ==
  DOMAIN black \subseteq DOMAIN black'
    /\ \A i \in DOMAIN black : black'[i].value = black[i].value

(* Another process has the same hosts in hand as before, and as far.       *)
LEMMA OthersHands ==
  ASSUME SipInv, NEW p \in Processes, NEW r, Becomes(p, r), SameValues,
         NEW q \in Processes, q # p, NEW h
  PROVE  q \in InHand(h)' <=> q \in InHand(h)
<1>1. sip'[q] = sip[q] /\ sip[q].todo \cup sip[q].done \subseteq DOMAIN black
  BY Fields DEF Becomes, RequestInv
<1>2. QED
  BY <1>1 DEF InHand, SameValues

(* A step that does not touch the host.                                    *)
LEMMA HostUntouched ==
  ASSUME SipInv, NEW p \in Processes, NEW r, Becomes(p, r), SameValues,
         NEW h, HostInv(h), p \notin InHand(h), p \notin InHand(h)',
         h \in bans' <=> h \in bans,
         \A i \in DOMAIN black : h \in Covers[black[i].value] => black'[i] = black[i],
         ActiveRows(h)' = ActiveRows(h)
  PROVE  HostInv(h)'
<1>1. InHand(h)' = InHand(h)
  <2>1. InHand(h) \subseteq Processes /\ InHand(h)' \subseteq Processes
    BY DEF InHand, Processes
  <2>2. QED
    BY <2>1, OthersHands
<1>2. ASSUME NEW q \in InHand(h) PROVE HandInv(q, h)'
  <2>1. q \in Processes /\ q # p
    BY DEF InHand
  <2>2. sip'[q] = sip[q] /\ sip[q].todo \cup sip[q].done \subseteq DOMAIN black
    BY <2>1, Fields DEF Becomes, RequestInv
  <2>3. HandInv(q, h)
    BY DEF HostInv
  <2>4. \A i \in sip[q].todo \cup sip[q].done : black'[i].value = black[i].value
    BY <2>2 DEF SameValues
  <2>5. \A i : Ended(q, i)' <=> Ended(q, i)
    BY <2>2 DEF Ended, SipAt, NextRow
  <2>6. \A i \in sip'[q].todo \cup sip'[q].done :
          h \in Covers[black'[i].value] => black'[i].status = "active"
    BY <2>2, <2>3, <2>4 DEF HandInv
  <2>7. QED
    BY <2>2, <2>3, <2>5, <2>6 DEF HandInv, SipAt
<1>3. QED
  BY <1>1, <1>2 DEF HostInv

(* A step of the only process that has the host in hand.                   *)
LEMMA HostHandled ==
  ASSUME SipInv, NEW p \in Processes, NEW r, Becomes(p, r), SameValues,
         NEW h, InHand(h) \subseteq {p}, \A i, j \in ActiveRows(h)' : i = j,
         p \in InHand(h)' => HandInv(p, h)',
         p \notin InHand(h)' => (h \in bans' <=> ActiveRows(h)' # {})
  PROVE  HostInv(h)'
<1>1. InHand(h)' \subseteq {p}
  <2>1. InHand(h)' \subseteq Processes
    BY DEF InHand, Processes
  <2>2. QED
    BY <2>1, OthersHands
<1>2. QED
  BY <1>1 DEF HostInv

LEMMA ListKept ==
  ASSUME SipInv, PolicyInv, NEW p \in Processes, NEW r, Becomes(p, r), RequestInv(p)',
         OnlyLists, white' \subseteq Values, bans' \subseteq Hosts,
         black' \in Seq(Entry), DOMAIN black \subseteq DOMAIN black',
         writer' \in Processes \cup {Nobody},
         sip[p].for \notin Asking, r.for \notin Asking
  PROVE  SipInv' /\ PolicyInv'
<1>1. SipInv'
  BY SipKept DEF OnlyLists, SipInv, SipType
<1>2. ASSUME NEW w \in Web, w # p PROVE sip'[w] = sip[w]
  BY <1>2 DEF Becomes, Processes
<1>3. Changing' = Changing /\ p \notin Changing
  BY <1>2 DEF Changing, Becomes, Asking
<1>4. ASSUME NEW w \in Changing, ChangeInv(w) PROVE ChangeInv(w)'
  <2>1. sip'[w] = sip[w]
    BY <1>2, <1>3 DEF Changing
  <2>2. QED
    BY <1>4, <2>1 DEF ChangeInv, OnlyLists
<1>5. PolicyInv'
  BY <1>3, <1>4 DEF PolicyInv, OnlyLists
<1>6. QED
  BY <1>1, <1>5

(* Who asks for a ban, takes an entry back or unbans a host has nothing    *)
(* else in hand.                                                           *)
LEMMA FreeIs ==
  ASSUME SipInv, NEW p \in Processes, Free(p)
  PROVE  /\ sip[p].pc = "idle" /\ sip[p].for = "none" /\ sip[p].todo = {} /\ sip[p].done = {}
         /\ sip[p].for \notin Asking /\ \A h : p \notin InHand(h)
<1>1. sip[p].pc = "idle" /\ RequestInv(p)
  BY Fields DEF Free, SipAt
<1>2. sip[p].for = "none" /\ sip[p].todo = {} /\ sip[p].done = {}
  BY <1>1 DEF RequestInv
<1>3. "none" \notin Values
  BY KindsApart
<1>4. QED
  BY <1>1, <1>2, <1>3 DEF InHand, Asking

(* A request of a thread for an address.                                   *)
LEMMA ForAddress ==
  ASSUME SipInv, NEW w \in Web, NEW v \in Values, NEW pc \in {"insert", "unban"},
         sip' = [sip EXCEPT ![w].pc = pc, ![w].for = v],
         sip[w].todo = {}, sip[w].done = {}, SameValues
  PROVE  \E r : /\ Becomes(w, r) /\ RequestInv(w)' /\ r.for \notin Asking
                /\ sip'[w].pc = pc /\ sip'[w].todo = {} /\ sip'[w].done = {}
                /\ \A h : w \in InHand(h)' <=> h \in Covers[v]
<1> DEFINE r == [sip[w] EXCEPT !.pc = pc, !.for = v]
<1>1. /\ r \in Request /\ r.pc = pc /\ r.for = v /\ r.todo = {} /\ r.done = {}
  <2>1. sip[w] \in Request
    BY Fields DEF Processes
  <2>2. QED
    BY <2>1 DEF Request, Places
<1>2. sip' = [sip EXCEPT ![w] = r]
  OBVIOUS
<1> HIDE DEF r
<1>3. Becomes(w, r)
  BY <1>1, <1>2, NewRequest DEF Processes
<1>4. v \notin {"none", "save", "undo", "service"}
  BY KindsApart
<1>5. RequestInv(w)' /\ r.for \notin Asking
  BY <1>1, <1>3, <1>4 DEF RequestInv, Becomes, Asking
<1>6. \A h : w \in InHand(h)' <=> h \in Covers[v]
  BY <1>1, <1>3 DEF InHand, Becomes, Processes
<1>7. QED
  BY <1>1, <1>3, <1>5, <1>6 DEF Becomes

LEMMA SameRows ==
  ASSUME UNCHANGED black
  PROVE  SameValues /\ \A h : ActiveRows(h)' = ActiveRows(h)
BY DEF SameValues, ActiveRows

LEMMA AddStep ==
  ASSUME SipInv, PolicyInv, BansInv, NEW w \in Web, NEW v \in Values, add_blacklist(w, v)
  PROVE  SipInv' /\ PolicyInv' /\ BansInv'
<1> w \in Processes
  BY DEF Processes
<1>1. /\ sip[w].todo = {} /\ sip[w].done = {} /\ sip[w].for \notin Asking
      /\ \A h : w \notin InHand(h)
  BY FreeIs DEF add_blacklist
<1>2. /\ sip' = [sip EXCEPT ![w].pc = "insert", ![w].for = v]
      /\ Spoils(Covers[v]) /\ OnlyLists /\ UNCHANGED <<white, black, bans, writer>>
  BY DEF add_blacklist
<1>3. SameValues /\ \A h : ActiveRows(h)' = ActiveRows(h)
  BY <1>2, SameRows
<1>4. PICK r : /\ Becomes(w, r) /\ RequestInv(w)' /\ r.for \notin Asking
               /\ sip'[w].pc = "insert" /\ sip'[w].todo = {} /\ sip'[w].done = {}
               /\ \A h : w \in InHand(h)' <=> h \in Covers[v]
  BY <1>1, <1>2, <1>3, ForAddress
<1>5. SipInv' /\ PolicyInv'
  BY <1>1, <1>2, <1>4, ListKept DEF SipInv, SipType
<1>6. ASSUME NEW h \in Hosts \ spoilt' PROVE HostInv(h)'
  <2>1. HostInv(h)
    BY <1>2, <1>6 DEF BansInv, Spoils
  <2>2. CASE h \in Covers[v]
    <3>1. InHand(h) = {}
      BY <1>2, <1>6, <2>2 DEF Spoils
    <3>2. \A i : ~Ended(w, i)'
      BY <1>4 DEF Ended, SipAt
    <3>3. HandInv(w, h)'
      BY <1>2, <1>3, <1>4, <2>1, <3>1, <3>2 DEF HandInv, HostInv, SipAt
    <3>4. \A i, j \in ActiveRows(h)' : i = j
      BY <1>3, <2>1 DEF HostInv
    <3>5. QED
      BY <1>3, <1>4, <2>2, <3>1, <3>3, <3>4, HostHandled
  <2>3. CASE h \notin Covers[v]
    BY <1>1, <1>2, <1>3, <1>4, <2>1, <2>3, HostUntouched
  <2>4. QED
    BY <2>2, <2>3
<1>7. QED
  BY <1>5, <1>6 DEF BansInv, Hosts

(* An entry is taken back: the host is unbanned if it was for an address.  *)
LEMMA RemoveStep ==
  ASSUME SipInv, PolicyInv, BansInv, NEW w \in Web, NEW i \in DOMAIN black,
         remove_blacklist(w, i)
  PROVE  SipInv' /\ PolicyInv' /\ BansInv'
<1> DEFINE v == black[i].value
<1> w \in Processes
  BY DEF Processes
<1>1. /\ sip[w].todo = {} /\ sip[w].done = {} /\ sip[w].for \notin Asking
      /\ \A h : w \notin InHand(h)
  BY FreeIs DEF remove_blacklist
<1>2. v \in Values /\ black[i] \in Entry /\ black \in Seq(Entry)
  BY RowType DEF SipInv, SipType
<1>3. /\ black' = [black EXCEPT ![i].status = "removed"]
      /\ IF Single(v) THEN sip' = [sip EXCEPT ![w].pc = "unban", ![w].for = v] ELSE sip' = sip
      /\ spoilt' = spoilt \cup {h \in Covers[v] : InHand(h) # {} \/ black[i].status # "active"}
      /\ OnlyLists /\ UNCHANGED <<white, bans, writer>>
  BY DEF remove_blacklist
<1>4. /\ black' \in Seq(Entry) /\ DOMAIN black' = DOMAIN black
      /\ \A j \in DOMAIN black : j # i => black'[j] = black[j]
      /\ black'[i].value = v /\ black'[i].status = "removed"
  <2>1. [black[i] EXCEPT !.status = "removed"] \in Entry
    BY <1>2 DEF Entry
  <2>2. black' = [black EXCEPT ![i] = [black[i] EXCEPT !.status = "removed"]]
    BY <1>3
  <2>3. QED
    BY <1>2, <2>1, <2>2 DEF Entry
<1>5. SameValues
  BY <1>4 DEF SameValues
<1>6. \A h : ActiveRows(h)' = ActiveRows(h) \ {j \in {i} : Covers[v] = {h}}
  BY <1>4 DEF ActiveRows
<1> HIDE DEF v
<1>7. ASSUME NEW h, NEW r, Becomes(w, r), HostInv(h), h \notin Covers[v], w \notin InHand(h)'
      PROVE  HostInv(h)'
  <2>1. ActiveRows(h)' = ActiveRows(h)
    BY <1>6, <1>7
  <2>2. \A j \in DOMAIN black : h \in Covers[black[j].value] => black'[j] = black[j]
    BY <1>4, <1>7 DEF v
  <2>3. QED
    BY <1>1, <1>3, <1>5, <1>7, <2>1, <2>2, HostUntouched
<1>8. CASE Single(v)
  <2>1. sip' = [sip EXCEPT ![w].pc = "unban", ![w].for = v]
    BY <1>3, <1>8
  <2>2. PICK r : /\ Becomes(w, r) /\ RequestInv(w)' /\ r.for \notin Asking
                 /\ sip'[w].pc = "unban" /\ sip'[w].todo = {} /\ sip'[w].done = {}
                 /\ \A h : w \in InHand(h)' <=> h \in Covers[v]
    BY <1>1, <1>2, <1>5, <2>1, ForAddress
  <2>3. SipInv' /\ PolicyInv'
    BY <1>1, <1>3, <1>4, <2>2, ListKept DEF SipInv, SipType
  <2>4. ASSUME NEW h \in Hosts \ spoilt' PROVE HostInv(h)'
    <3>1. HostInv(h)
      BY <1>3, <2>4 DEF BansInv
    <3>2. CASE h \in Covers[v]
      <4>1. InHand(h) = {} /\ black[i].status = "active" /\ Covers[v] = {h}
        BY <1>2, <1>3, <1>8, <2>4, <3>2, SingleIs
      <4>2. i \in ActiveRows(h)
        BY <4>1 DEF ActiveRows, v
      <4>3. ActiveRows(h)' = {}
        BY <1>6, <3>1, <4>1, <4>2 DEF HostInv
      <4>4. HandInv(w, h)'
        BY <2>2, <4>3 DEF HandInv, SipAt
      <4>5. QED
        BY <1>5, <2>2, <3>2, <4>1, <4>3, <4>4, HostHandled
    <3>3. CASE h \notin Covers[v]
      BY <1>7, <2>2, <3>1, <3>3
    <3>4. QED
      BY <3>2, <3>3
  <2>5. QED
    BY <2>3, <2>4 DEF BansInv, Hosts
(* Of a network only the entry changes.                                    *)
<1>9. CASE ~Single(v)
  <2>1. sip' = sip
    BY <1>3, <1>9
  <2>2. Becomes(w, sip[w])
    BY <2>1 DEF Becomes, SipInv, SipType
  <2>3. RequestInv(w)'
    BY <1>4, <2>1, Fields DEF RequestInv
  <2>4. SipInv' /\ PolicyInv'
    BY <1>1, <1>3, <1>4, <2>2, <2>3, ListKept DEF SipInv, SipType
  <2>5. \A h : w \notin InHand(h)'
    BY <1>1, <2>1 DEF InHand
  <2>6. ASSUME NEW h \in Hosts \ spoilt' PROVE HostInv(h)'
    <3>1. HostInv(h)
      BY <1>3, <2>6 DEF BansInv
    <3>2. CASE h \in Covers[v]
      <4>1. InHand(h) = {} /\ Covers[v] # {h}
        BY <1>2, <1>3, <1>9, <2>6, <3>2, SingleIs
      <4>2. ActiveRows(h)' = ActiveRows(h)
        BY <1>6, <4>1
      <4>3. QED
        BY <1>3, <1>5, <2>2, <2>5, <3>1, <4>1, <4>2, HostHandled DEF HostInv
    <3>3. CASE h \notin Covers[v]
      BY <1>7, <2>2, <2>5, <3>1, <3>3
    <3>4. QED
      BY <3>2, <3>3
  <2>7. QED
    BY <2>4, <2>6 DEF BansInv, Hosts
<1>10. QED
  BY <1>8, <1>9

LEMMA UnbanStep ==
  ASSUME SipInv, PolicyInv, BansInv, NEW w \in Web, NEW v \in Values, unban_ip(w, v)
  PROVE  SipInv' /\ PolicyInv' /\ BansInv'
<1> w \in Processes
  BY DEF Processes
<1>1. /\ sip[w].todo = {} /\ sip[w].done = {} /\ sip[w].for \notin Asking
      /\ \A h : w \notin InHand(h)
  BY FreeIs DEF unban_ip
<1>2. /\ sip' = [sip EXCEPT ![w].pc = "unban", ![w].for = v]
      /\ spoilt' = spoilt \cup Covers[v] /\ OnlyLists
      /\ UNCHANGED <<white, black, bans, writer>>
  BY DEF unban_ip
<1>3. SameValues /\ \A h : ActiveRows(h)' = ActiveRows(h)
  BY <1>2, SameRows
<1>4. PICK r : /\ Becomes(w, r) /\ RequestInv(w)' /\ r.for \notin Asking
               /\ \A h : w \in InHand(h)' <=> h \in Covers[v]
  BY <1>1, <1>2, <1>3, ForAddress
<1>5. SipInv' /\ PolicyInv'
  BY <1>1, <1>2, <1>4, ListKept DEF SipInv, SipType
<1>6. ASSUME NEW h \in Hosts \ spoilt' PROVE HostInv(h)'
  <2>1. HostInv(h) /\ h \notin Covers[v]
    BY <1>2, <1>6 DEF BansInv
  <2>2. QED
    BY <1>1, <1>2, <1>3, <1>4, <2>1, HostUntouched
<1>7. QED
  BY <1>5, <1>6 DEF BansInv, Hosts

-----------------------------------------------------------------------------
(* What has been asked for is done.                                        *)

LEMMA AtAddress ==
  ASSUME SipInv, NEW p \in Processes, sip[p].pc \in {"insert", "ban", "unban"}
  PROVE  /\ sip[p].for \in Values /\ sip[p].for \notin Asking /\ p \in Web
         /\ sip[p].todo = {} /\ sip[p].done = {}
         /\ \A h : p \in InHand(h) <=> h \in Covers[sip[p].for]
         /\ \A i : ~Ended(p, i)
<1>1. RequestInv(p)
  BY Fields
<1>2. sip[p].for \in Values /\ sip[p].todo = {} /\ sip[p].done = {}
  BY <1>1 DEF RequestInv
<1>3. sip[p].for \notin Asking /\ p \in Web
  BY <1>1, <1>2, KindsApart DEF RequestInv, Asking
<1>4. QED
  BY <1>2, <1>3 DEF InHand, Ended, SipAt

LEMMA HandsEmpty ==
  ASSUME SipInv, NEW p \in Processes, Ends(p)
  PROVE  /\ Becomes(p, Unoccupied) /\ RequestInv(p)' /\ Unoccupied.for \notin Asking
         /\ \A h : p \notin InHand(h)'
<1>1. Becomes(p, Unoccupied) /\ sip'[p] = Unoccupied
  BY EndIs DEF Becomes
<1>2. RequestInv(p)' /\ sip'[p].todo = {} /\ sip'[p].done = {} /\ sip'[p].for = "none"
  BY <1>1, UnoccupiedIs
<1>3. "none" \notin Values
  BY KindsApart
<1>4. QED
  BY <1>1, <1>2, <1>3 DEF InHand, Asking, Unoccupied

LEMMA InsertStep ==
  ASSUME SipInv, PolicyInv, BansInv, NEW p \in Processes, insert_blacklist(p)
  PROVE  SipInv' /\ PolicyInv' /\ BansInv'
<1> DEFINE v == sip[p].for
           e == [value |-> v, until |-> hour + Duration, status |-> "active"]
<1>1. /\ v \in Values /\ v \notin Asking /\ p \in Web
      /\ sip[p].todo = {} /\ sip[p].done = {} /\ \A i : ~Ended(p, i)
      /\ \A h : p \in InHand(h) <=> h \in Covers[v]
  BY AtAddress DEF insert_blacklist, SipAt
<1>2. /\ sip[p].pc = "insert" /\ black' = Append(black, e)
      /\ IF Single(v) THEN Step(p, "ban") ELSE Ends(p)
      /\ spoilt' = spoilt \cup {h \in Covers[v] : ActiveRows(h) # {}}
      /\ OnlyLists /\ UNCHANGED <<white, bans, writer>>
  BY DEF insert_blacklist, SipAt
<1>3. black \in Seq(Entry) /\ hour \in Nat
  BY DEF SipInv, SipType
<1>4. e \in Entry /\ e.value = v /\ e.status = "active"
  BY <1>1, <1>3, DurationAssumption DEF Entry
<1> HIDE DEF v, e
<1>5. /\ black' \in Seq(Entry) /\ DOMAIN black = 1 .. Len(black) /\ Len(black) \in Nat
      /\ DOMAIN black' = 1 .. Len(black) + 1 /\ DOMAIN black \subseteq DOMAIN black'
      /\ \A j \in DOMAIN black : black'[j] = black[j]
      /\ black'[Len(black) + 1] = e
  BY <1>2, <1>3, <1>4
<1>6. SameValues
  BY <1>5 DEF SameValues
<1>7. \A h : ActiveRows(h)' = ActiveRows(h) \cup {j \in {Len(black) + 1} : Covers[v] = {h}}
  BY <1>4, <1>5 DEF ActiveRows
<1>8. ASSUME NEW r, Becomes(p, r), NEW h \in Hosts \ spoilt', h \notin Covers[v],
             p \notin InHand(h)'
      PROVE  HostInv(h)'
  <2>1. HostInv(h) /\ ActiveRows(h)' = ActiveRows(h) /\ p \notin InHand(h)
    BY <1>1, <1>2, <1>7, <1>8 DEF BansInv
  <2>2. QED
    BY <1>2, <1>5, <1>6, <1>8, <2>1, HostUntouched
<1>9. ASSUME NEW h \in Hosts \ spoilt', h \in Covers[v]
      PROVE  ActiveRows(h) = {} /\ h \notin bans /\ InHand(h) \subseteq {p}
  <2>1. ActiveRows(h) = {} /\ HostInv(h)
    BY <1>2, <1>9 DEF BansInv
  <2>2. p \in InHand(h) /\ HandInv(p, h)
    BY <1>1, <1>9, <2>1 DEF HostInv
  <2>3. QED
    BY <1>2, <2>1, <2>2 DEF HostInv, HandInv, SipAt
<1>10. CASE Single(v)
  <2>1. Becomes(p, [sip[p] EXCEPT !.pc = "ban"])
    BY <1>2, <1>10, StepIs DEF Places
  <2>2. /\ sip'[p].pc = "ban" /\ sip'[p].for = v
        /\ sip'[p].todo = {} /\ sip'[p].done = {}
    BY <1>1, <2>1, Fields DEF Becomes, Request, v
  <2>3. RequestInv(p)'
    BY <1>1, <2>2, KindsApart DEF RequestInv, Asking
  <2>4. [sip[p] EXCEPT !.pc = "ban"].for \notin Asking
    BY <1>1, <2>1, <2>2 DEF Becomes
  <2>5. SipInv' /\ PolicyInv'
    BY <1>1, <1>2, <1>5, <2>1, <2>3, <2>4, ListKept DEF SipInv, SipType, v
  <2>6. \A h : p \in InHand(h)' <=> h \in Covers[v]
    BY <1>1, <2>2 DEF InHand
  <2>7. ASSUME NEW h \in Hosts \ spoilt' PROVE HostInv(h)'
    <3>1. CASE h \in Covers[v]
      <4>1. ActiveRows(h) = {} /\ InHand(h) \subseteq {p} /\ Covers[v] = {h}
        BY <1>1, <1>9, <1>10, <2>7, <3>1, SingleIs
      <4>2. ActiveRows(h)' = {Len(black) + 1}
        BY <1>7, <4>1
      <4>3. HandInv(p, h)'
        BY <2>2, <4>2 DEF HandInv, SipAt
      <4>4. QED
        BY <1>6, <2>1, <2>6, <3>1, <4>1, <4>2, <4>3, HostHandled
    <3>2. CASE h \notin Covers[v]
      BY <1>8, <2>1, <2>6, <2>7, <3>2
    <3>3. QED
      BY <3>1, <3>2
  <2>8. QED
    BY <2>5, <2>7 DEF BansInv, Hosts
(* A network is never banned: the entry stands for it in the jail.         *)
<1>11. CASE ~Single(v)
  <2>1. /\ Becomes(p, Unoccupied) /\ RequestInv(p)' /\ Unoccupied.for \notin Asking
        /\ \A h : p \notin InHand(h)'
    BY <1>2, <1>11, HandsEmpty
  <2>2. SipInv' /\ PolicyInv'
    BY <1>1, <1>2, <1>5, <2>1, ListKept DEF SipInv, SipType, v
  <2>3. ASSUME NEW h \in Hosts \ spoilt' PROVE HostInv(h)'
    <3>1. CASE h \in Covers[v]
      <4>1. /\ ActiveRows(h) = {} /\ h \notin bans /\ InHand(h) \subseteq {p}
            /\ Covers[v] # {h}
        BY <1>1, <1>9, <1>11, <2>3, <3>1, SingleIs
      <4>2. ActiveRows(h)' = {}
        BY <1>7, <4>1
      <4>3. QED
        BY <1>2, <1>6, <2>1, <4>1, <4>2, HostHandled
    <3>2. CASE h \notin Covers[v]
      BY <1>8, <2>1, <2>3, <3>2
    <3>3. QED
      BY <3>1, <3>2
  <2>4. QED
    BY <2>2, <2>3 DEF BansInv, Hosts
<1>12. QED
  BY <1>10, <1>11

(* The helper bans or unbans the hosts, or refuses.                        *)
LEMMA AnswerStep ==
  ASSUME SipInv, PolicyInv, BansInv, NEW p \in Processes, helper_bans(p) \/ helper_unbans(p)
  PROVE  SipInv' /\ PolicyInv' /\ BansInv'
<1> DEFINE v == sip[p].for
<1>1. /\ v \in Values /\ v \notin Asking
      /\ \A h : p \in InHand(h) <=> h \in Covers[v]
  BY AtAddress DEF helper_bans, helper_unbans, SipAt
<1>2. Ends(p) /\ OnlyLists /\ UNCHANGED <<white, black, writer>>
  BY DEF helper_bans, helper_unbans
<1>3. /\ \/ sip[p].pc = "ban" /\ bans' = bans \cup Covers[v] /\ spoilt' = spoilt
         \/ sip[p].pc = "unban" /\ bans' = bans \ Covers[v] /\ spoilt' = spoilt
         \/ bans' = bans /\ spoilt' = spoilt \cup Covers[v]
  BY DEF helper_bans, helper_unbans, Unbans, SipAt
<1> HIDE DEF v
<1>4. bans' \subseteq Hosts /\ black \in Seq(Entry)
  BY <1>1, <1>3, HostType DEF SipInv, SipType
<1>5. SameValues /\ \A h : ActiveRows(h)' = ActiveRows(h)
  BY <1>2, SameRows
<1>6. /\ Becomes(p, Unoccupied) /\ RequestInv(p)' /\ Unoccupied.for \notin Asking
      /\ \A h : p \notin InHand(h)'
  BY <1>2, HandsEmpty
<1>7. SipInv' /\ PolicyInv'
  BY <1>1, <1>2, <1>4, <1>6, ListKept DEF SipInv, SipType, v
<1>8. ASSUME NEW h \in Hosts \ spoilt' PROVE HostInv(h)'
  <2>1. HostInv(h)
    BY <1>3, <1>8 DEF BansInv
  <2>2. CASE h \in Covers[v]
    <3>1. InHand(h) \subseteq {p} /\ HandInv(p, h)
      BY <1>1, <2>1, <2>2 DEF HostInv
    <3>2. h \in bans' <=> ActiveRows(h) # {}
      BY <1>3, <1>8, <2>2, <3>1 DEF HandInv, SipAt
    <3>3. QED
      BY <1>5, <1>6, <2>1, <3>1, <3>2, HostHandled DEF HostInv
  <2>3. CASE h \notin Covers[v]
    <3>1. h \in bans' <=> h \in bans
      BY <1>3, <2>3
    <3>2. QED
      BY <1>1, <1>2, <1>5, <1>6, <2>1, <2>3, <3>1, HostUntouched
  <2>4. QED
    BY <2>2, <2>3
<1>9. QED
  BY <1>7, <1>8 DEF BansInv, Hosts

-----------------------------------------------------------------------------
(* A reconciliation: all it has found, unbanned and updated or not, is in  *)
(* its hands until it commits.                                             *)

LEMMA ReconcileStep ==
  ASSUME SipInv, PolicyInv, BansInv, NEW p \in Processes, reconcile_bans(p)
  PROVE  SipInv' /\ PolicyInv' /\ BansInv'
<1> DEFINE r == [sip[p] EXCEPT !.pc = "expire", !.todo = Expired]
<1>1. /\ sip[p].todo = {} /\ sip[p].done = {} /\ sip[p].for = "none"
      /\ sip[p].for \notin Asking /\ \A h : p \notin InHand(h)
  BY FreeIs DEF reconcile_bans
<1>2. /\ sip' = [sip EXCEPT ![p] = r]
      /\ spoilt' = spoilt \cup {h \in UNION { Covers[black[i].value] : i \in Expired } :
                                  InHand(h) # {}}
      /\ OnlyLists /\ UNCHANGED <<white, black, bans, writer>>
  BY DEF reconcile_bans, Spoils
<1>3. /\ black \in Seq(Entry) /\ DOMAIN black \subseteq Nat /\ bans \subseteq Hosts
      /\ white \subseteq Values /\ writer \in Processes \cup {Nobody}
  BY DEF SipInv, SipType
<1>4. Expired \subseteq DOMAIN black /\ \A i \in Expired : black[i].status = "active"
  BY DEF Expired
<1>5. /\ r \in Request /\ r.pc = "expire" /\ r.for = "none" /\ r.todo = Expired
      /\ r.done = {}
  BY <1>1, <1>3, <1>4, Fields DEF Request, Places
<1> HIDE DEF r
<1>6. Becomes(p, r) /\ sip'[p] = r
  BY <1>2, <1>5, NewRequest DEF Becomes
<1>7. RequestInv(p)' /\ r.for \notin Asking
  BY <1>2, <1>4, <1>5, <1>6, KindsApart DEF RequestInv, Asking
<1>8. SipInv' /\ PolicyInv'
  BY <1>1, <1>2, <1>3, <1>6, <1>7, ListKept
<1>9. SameValues /\ \A h : ActiveRows(h)' = ActiveRows(h)
  BY <1>2, SameRows
<1>10. \A h : p \in InHand(h)' <=> \E i \in Expired : h \in Covers[black[i].value]
  <2>1. "none" \notin Values
    BY KindsApart
  <2>2. QED
    BY <1>2, <1>5, <1>6, <2>1 DEF InHand
<1>11. ASSUME NEW h \in Hosts \ spoilt' PROVE HostInv(h)'
  <2>1. HostInv(h)
    BY <1>2, <1>11 DEF BansInv
  <2>2. CASE \E i \in Expired : h \in Covers[black[i].value]
    <3>1. InHand(h) = {}
      BY <1>2, <1>11, <2>2
    <3>2. \A i : ~Ended(p, i)'
      BY <1>5, <1>6 DEF Ended, SipAt
    <3>3. h \in bans' <=> \E i \in ActiveRows(h)' : ~Ended(p, i)'
      BY <1>2, <1>9, <2>1, <3>1, <3>2 DEF HostInv
    <3>4. HandInv(p, h)'
      BY <1>2, <1>4, <1>5, <1>6, <3>3 DEF HandInv, SipAt
    <3>5. QED
      BY <1>6, <1>9, <1>10, <2>1, <2>2, <3>1, <3>4, HostHandled DEF HostInv
  <2>3. CASE ~\E i \in Expired : h \in Covers[black[i].value]
    BY <1>1, <1>2, <1>6, <1>9, <1>10, <2>1, <2>3, HostUntouched
  <2>4. QED
    BY <2>2, <2>3
<1>12. QED
  BY <1>8, <1>11 DEF BansInv, Hosts

LEMMA InReconciliation ==
  ASSUME SipInv, NEW p \in Processes, sip[p].pc \in {"expire", "update"}
  PROVE  /\ sip[p].for = "none" /\ sip[p].for \notin Asking /\ sip[p].for \notin Values
         /\ sip[p].todo \cup sip[p].done \subseteq DOMAIN black
         /\ sip[p].pc = "update" => NextRow(p) \in sip[p].todo
         /\ sip[p] \in Request
<1>1. RequestInv(p) /\ sip[p] \in Request
  BY Fields
<1>2. sip[p].for = "none" /\ sip[p].for \notin Values
  BY <1>1, KindsApart DEF RequestInv
<1>3. sip[p].pc = "update" => NextRow(p) \in sip[p].todo
  BY <1>1, NextRowIs DEF RequestInv
<1>4. QED
  BY <1>1, <1>2, <1>3 DEF RequestInv, Asking

LEMMA ExpireUnbansStep ==
  ASSUME SipInv, PolicyInv, BansInv, NEW p \in Processes, expire_unbans(p)
  PROVE  SipInv' /\ PolicyInv' /\ BansInv'
<1> DEFINE n == NextRow(p)
           v == black[n].value
           r == [sip[p] EXCEPT !.pc = "update"]
<1>1. /\ sip[p].pc = "expire" /\ sip[p].for = "none" /\ sip[p].for \notin Asking
      /\ sip[p].for \notin Values
      /\ sip[p].todo \cup sip[p].done \subseteq DOMAIN black
      /\ sip[p] \in Request /\ n \in sip[p].todo
  BY InReconciliation, NextRowIs DEF expire_unbans, SipAt
<1>2. /\ Step(p, "update") /\ OnlyLists /\ UNCHANGED <<white, black, writer>>
      /\ \/ Single(v) /\ bans' = bans \ Covers[v] /\ spoilt' = spoilt
         \/ bans' = bans /\ spoilt' = spoilt \cup Covers[v]
         \/ ~Single(v) /\ bans' = bans /\ spoilt' = spoilt
  BY DEF expire_unbans, Unbans
<1>3. black \in Seq(Entry) /\ bans' \subseteq Hosts /\ v \in Values /\ n \in DOMAIN black
  <2>1. black \in Seq(Entry) /\ n \in DOMAIN black /\ bans \subseteq Hosts
    BY <1>1 DEF SipInv, SipType
  <2>2. QED
    BY <1>2, <2>1, RowType
<1>4. Becomes(p, r) /\ sip'[p] = r
  BY <1>2, StepIs DEF Places, Becomes
<1>5. /\ r.pc = "update" /\ r.for = "none" /\ r.todo = sip[p].todo /\ r.done = sip[p].done
  BY <1>1 DEF Request
<1> HIDE DEF r
<1>6. RequestInv(p)'
  BY <1>1, <1>2, <1>4, <1>5, KindsApart DEF RequestInv, Asking
<1>7. SipInv' /\ PolicyInv'
  BY <1>1, <1>2, <1>3, <1>4, <1>5, <1>6, ListKept DEF SipInv, SipType
<1>8. SameValues /\ \A h : ActiveRows(h)' = ActiveRows(h)
  BY <1>2, SameRows
<1>9. \A h : p \in InHand(h)' <=> p \in InHand(h)
  BY <1>1, <1>2, <1>4, <1>5 DEF InHand
<1>10. NextRow(p)' = n
  BY <1>4, <1>5 DEF NextRow
<1> HIDE DEF n
<1>11. \A i : Ended(p, i) <=> i \in sip[p].done
  BY <1>1 DEF Ended, SipAt
<1>12. \A i : Ended(p, i)' <=> i \in sip[p].done \/ i = n
  BY <1>4, <1>5, <1>10 DEF Ended, SipAt
<1>13. ASSUME NEW h \in Hosts \ spoilt' PROVE HostInv(h)'
  <2>1. HostInv(h)
    BY <1>2, <1>13 DEF BansInv
  <2>2. CASE p \notin InHand(h)
    <3>1. h \notin Covers[v]
      BY <1>1, <2>2 DEF InHand
    <3>2. h \in bans' <=> h \in bans
      BY <1>2, <3>1
    <3>3. QED
      BY <1>2, <1>4, <1>8, <1>9, <2>1, <2>2, <3>2, HostUntouched
  <2>3. CASE p \in InHand(h)
    <3>1. InHand(h) \subseteq {p} /\ HandInv(p, h)
      BY <2>1, <2>3 DEF HostInv
    <3>2. /\ \A i \in sip[p].todo \cup sip[p].done :
               h \in Covers[black[i].value] => black[i].status = "active"
          /\ h \in bans <=> \E i \in ActiveRows(h) : i \notin sip[p].done
      BY <1>1, <1>11, <3>1 DEF HandInv, SipAt
    <3>3. h \in bans' <=> \E i \in ActiveRows(h) : ~Ended(p, i)'
      <4>1. CASE Covers[v] = {h}
        <5>1. Single(v)
          BY <1>3, <4>1, SingleIs
        <5>2. n \in ActiveRows(h)
          BY <1>1, <1>3, <3>2, <4>1 DEF ActiveRows
        <5>3. ActiveRows(h) = {n}
          BY <2>1, <5>2 DEF HostInv
        <5>4. h \notin bans'
          BY <1>2, <1>13, <4>1, <5>1
        <5>5. QED
          BY <1>12, <5>3, <5>4
      <4>2. CASE Covers[v] # {h}
        <5>1. n \notin ActiveRows(h)
          BY <4>2 DEF ActiveRows
        <5>2. Single(v) => h \notin Covers[v]
          BY <1>3, <4>2, SingleIs
        <5>3. h \in bans' <=> h \in bans
          BY <1>2, <5>2
        <5>4. QED
          BY <1>12, <3>2, <5>1, <5>3
      <4>3. QED
        BY <4>1, <4>2
    <3>4. HandInv(p, h)'
      BY <1>2, <1>4, <1>5, <1>8, <3>2, <3>3 DEF HandInv, SipAt
    <3>5. QED
      BY <1>4, <1>8, <1>9, <2>1, <2>3, <3>1, <3>4, HostHandled DEF HostInv
  <2>4. QED
    BY <2>2, <2>3
<1>14. QED
  BY <1>7, <1>13 DEF BansInv, Hosts

LEMMA ExpireUpdatesStep ==
  ASSUME SipInv, PolicyInv, BansInv, NEW p \in Processes, expire_updates(p)
  PROVE  SipInv' /\ PolicyInv' /\ BansInv'
<1> DEFINE n == NextRow(p)
           r == [sip[p] EXCEPT !.pc = "expire", !.todo = @ \ {n}, !.done = DoneWith(p)]
<1>1. /\ sip[p].pc = "update" /\ sip[p].for = "none" /\ sip[p].for \notin Asking
      /\ sip[p].for \notin Values
      /\ sip[p].todo \cup sip[p].done \subseteq DOMAIN black
      /\ sip[p] \in Request /\ n \in sip[p].todo
  BY InReconciliation DEF expire_updates, SipAt
<1>2. /\ sip' = [sip EXCEPT ![p] = r] /\ OnlyLists
      /\ UNCHANGED <<white, black, bans, spoilt>> /\ writer' = p
  BY DEF expire_updates
<1>3. DoneWith(p) = sip[p].done \cup {n}
  BY DEF DoneWith
<1>4. /\ r \in Request /\ r.pc = "expire" /\ r.for = "none" /\ r.todo = sip[p].todo \ {n}
      /\ r.done = sip[p].done \cup {n}
  BY <1>1, <1>3 DEF Request, Places
<1> HIDE DEF r, n
<1>5. Becomes(p, r) /\ sip'[p] = r
  BY <1>2, <1>4, NewRequest DEF Becomes
<1>6. RequestInv(p)'
  BY <1>1, <1>2, <1>4, <1>5, KindsApart DEF RequestInv, Asking
<1>7. SipInv' /\ PolicyInv'
  BY <1>1, <1>2, <1>4, <1>5, <1>6, ListKept DEF SipInv, SipType
<1>8. SameValues /\ \A h : ActiveRows(h)' = ActiveRows(h)
  BY <1>2, SameRows
<1>9. /\ sip'[p].todo \cup sip'[p].done = sip[p].todo \cup sip[p].done
      /\ \A h : p \in InHand(h)' <=> p \in InHand(h)
  <2>1. sip'[p].todo \cup sip'[p].done = sip[p].todo \cup sip[p].done
    BY <1>1, <1>4, <1>5
  <2>2. QED
    BY <1>1, <1>2, <1>4, <1>5, <2>1 DEF InHand
<1>10. \A i : Ended(p, i)' <=> Ended(p, i)
  BY <1>1, <1>4, <1>5 DEF Ended, SipAt, n
<1>11. ASSUME NEW h \in Hosts \ spoilt' PROVE HostInv(h)'
  <2>1. HostInv(h)
    BY <1>2, <1>11 DEF BansInv
  <2>2. CASE p \notin InHand(h)
    BY <1>2, <1>5, <1>8, <1>9, <2>1, <2>2, HostUntouched
  <2>3. CASE p \in InHand(h)
    <3>1. InHand(h) \subseteq {p} /\ HandInv(p, h)
      BY <2>1, <2>3 DEF HostInv
    <3>2. HandInv(p, h)'
      BY <1>1, <1>2, <1>4, <1>5, <1>8, <1>9, <1>10, <3>1 DEF HandInv, SipAt
    <3>3. QED
      BY <1>5, <1>8, <1>9, <2>1, <2>3, <3>1, <3>2, HostHandled DEF HostInv
  <2>4. QED
    BY <2>2, <2>3
<1>12. QED
  BY <1>7, <1>11 DEF BansInv, Hosts

LEMMA ExpireCommitsStep ==
  ASSUME SipInv, PolicyInv, BansInv, NEW p \in Processes, expire_commits(p)
  PROVE  SipInv' /\ PolicyInv' /\ BansInv'
<1> DEFINE done == sip[p].done
<1>1. /\ sip[p].pc = "expire" /\ sip[p].for \notin Asking /\ sip[p].for \notin Values
      /\ sip[p].todo \cup done \subseteq DOMAIN black /\ sip[p].todo = {}
  BY InReconciliation DEF expire_commits, SipAt
<1>2. /\ black' = [i \in DOMAIN black |-> IF i \in done
                     THEN [black[i] EXCEPT !.status = "expired"] ELSE black[i]]
      /\ writer' = Nobody /\ Ends(p) /\ OnlyLists /\ UNCHANGED <<white, bans, spoilt>>
  BY DEF expire_commits
<1> HIDE DEF done
<1>3. /\ black \in Seq(Entry) /\ DOMAIN black = 1 .. Len(black) /\ Len(black) \in Nat
      /\ \A i \in DOMAIN black : black[i] \in Entry /\ black[i].value \in Values
  <2>1. black \in Seq(Entry)
    BY DEF SipInv, SipType
  <2>2. QED
    BY <2>1, RowType
<1>4. /\ DOMAIN black' = DOMAIN black
      /\ \A i \in DOMAIN black : /\ black'[i].value = black[i].value
                                 /\ i \in done => black'[i].status = "expired"
                                 /\ i \notin done => black'[i] = black[i]
                                 /\ black'[i] \in Entry
  <2>1. \A i \in DOMAIN black : [black[i] EXCEPT !.status = "expired"] \in Entry
    BY <1>3 DEF Entry
  <2>2. QED
    BY <1>2, <1>3, <2>1 DEF Entry
<1>5. black' \in Seq(Entry)
  <2>1. black' \in [1 .. Len(black) -> Entry]
    BY <1>2, <1>3, <1>4
  <2>2. QED
    BY <1>3, <2>1
<1>6. SameValues
  BY <1>4 DEF SameValues
<1>7. \A h : ActiveRows(h)' = ActiveRows(h) \ done
  BY <1>4 DEF ActiveRows
<1>8. /\ Becomes(p, Unoccupied) /\ RequestInv(p)' /\ Unoccupied.for \notin Asking
      /\ \A h : p \notin InHand(h)'
  BY <1>2, HandsEmpty
<1>9. SipInv' /\ PolicyInv'
  BY <1>1, <1>2, <1>4, <1>5, <1>8, ListKept DEF SipInv, SipType
<1>10. ASSUME NEW h \in Hosts \ spoilt' PROVE HostInv(h)'
  <2>1. HostInv(h)
    BY <1>2, <1>10 DEF BansInv
  <2>2. CASE p \notin InHand(h)
    <3>1. \A i \in DOMAIN black : h \in Covers[black[i].value] => i \notin done
      BY <2>2 DEF InHand, done
    <3>2. \A i \in DOMAIN black : h \in Covers[black[i].value] => black'[i] = black[i]
      BY <1>4, <3>1
    <3>3. ActiveRows(h)' = ActiveRows(h)
      BY <1>7, <3>1 DEF ActiveRows
    <3>4. QED
      BY <1>2, <1>6, <1>8, <2>1, <2>2, <3>2, <3>3, HostUntouched
  <2>3. CASE p \in InHand(h)
    <3>1. InHand(h) \subseteq {p} /\ HandInv(p, h)
      BY <2>1, <2>3 DEF HostInv
    <3>2. h \in bans <=> \E i \in ActiveRows(h) : i \notin done
      BY <1>1, <3>1 DEF HandInv, Ended, SipAt, done
    <3>3. h \in bans' <=> ActiveRows(h)' # {}
      BY <1>2, <1>7, <3>2
    <3>4. QED
      BY <1>6, <1>7, <1>8, <2>1, <3>1, <3>3, HostHandled DEF HostInv
  <2>4. QED
    BY <2>2, <2>3
<1>11. QED
  BY <1>9, <1>10 DEF BansInv, Hosts

-----------------------------------------------------------------------------
(* The other steps have no host in hand, or spoil those they had.          *)

LEMMA PolicyHands ==
  ASSUME SipInv, BansInv, NEW p \in Processes, NEW r, Becomes(p, r),
         \A h : p \notin InHand(h), \A h : p \notin InHand(h)',
         UNCHANGED <<black, bans, spoilt>>
  PROVE  BansInv'
<1>1. SameValues /\ \A h : ActiveRows(h)' = ActiveRows(h)
  BY SameRows
<1>2. ASSUME NEW h \in Hosts \ spoilt PROVE HostInv(h)'
  BY <1>1, <1>2, HostUntouched DEF BansInv
<1>3. QED
  BY <1>2 DEF BansInv, Hosts

LEMMA NoHand ==
  ASSUME SipInv, NEW p \in Processes, sip[p].for \notin Values,
         sip[p].todo = {}, sip[p].done = {}
  PROVE  \A h : p \notin InHand(h)
BY DEF InHand

LEMMA AskBans ==
  ASSUME SipInv, PolicyInv, BansInv, NEW w \in Web,
         \/ \E policy \in Policies : sip_security_save(w, policy)
         \/ \E on \in BOOLEAN : set_service_enabled(w, on)
  PROVE  BansInv'
<1> w \in Processes
  BY DEF Processes
<1>1. PICK kind \in {"save", "service"}, want \in Policies \cup BOOLEAN, pc \in {"save", "start"} :
        Asks(w, kind, want, pc)
  <2>1. CASE \E policy \in Policies : sip_security_save(w, policy)
    BY <2>1 DEF sip_security_save
  <2>2. CASE \E on \in BOOLEAN : set_service_enabled(w, on)
    BY <2>2 DEF set_service_enabled
  <2>3. QED
    BY <2>1, <2>2
<1> DEFINE r == [Unoccupied EXCEPT !.pc = pc, !.for = kind, !.want = want, !.prev = settings]
<1>2. sip' = [sip EXCEPT ![w] = r] /\ UNCHANGED <<black, bans, spoilt>> /\ Free(w)
  BY <1>1 DEF Asks, OnlyPolicy
<1>3. r \in Request /\ r.for = kind /\ r.todo = {} /\ r.done = {}
  BY DEF Unoccupied, Request, Places, Asking, SipInv, SipType
<1> HIDE DEF r
<1>4. Becomes(w, r) /\ sip'[w] = r
  BY <1>2, <1>3, NewRequest DEF Becomes
<1>5. kind \notin Values
  BY KindsApart
<1>6. \A h : w \notin InHand(h)'
  BY <1>3, <1>4, <1>5 DEF InHand
<1>7. \A h : w \notin InHand(h)
  BY <1>2, FreeIs
<1>8. QED
  BY <1>2, <1>4, <1>6, <1>7, PolicyHands

LEMMA ChangeBans ==
  ASSUME SipInv, PolicyInv, BansInv, NEW w \in Processes,
         \/ save_settings(w) \/ apply_configuration(w) \/ helper_applies(w)
         \/ helper_refuses(w) \/ restore_settings(w) \/ service_command(w)
         \/ service_stopped_again(w) \/ record_service(w) \/ put_service_back(w)
  PROVE  BansInv'
<1>1. sip[w].pc \in {"save", "read", "apply", "restore", "start", "stop", "record", "put back"}
  BY DEF save_settings, apply_configuration, helper_applies, helper_refuses, restore_settings,
         service_command, service_stopped_again, record_service, put_service_back, SipAt
<1>2. /\ sip[w].for \in Asking /\ sip[w].todo = {} /\ sip[w].done = {}
      /\ sip[w] \in Request
  <2>1. RequestInv(w) /\ sip[w] \in Request
    BY Fields
  <2>2. QED
    BY <1>1, <2>1 DEF RequestInv, Asking
<1>3. sip[w].for \notin Values /\ "undo" \notin Values
  BY <1>2, KindsApart DEF Asking
<1>4. \A h : w \notin InHand(h)
  BY <1>2, <1>3, NoHand
<1>5. OnlyPolicy
  BY DEF save_settings, apply_configuration, helper_applies, helper_refuses, restore_settings,
         service_command, service_stopped_again, record_service, put_service_back
<1>6. \/ \E pc \in Places : Step(w, pc)
      \/ Ends(w)
      \/ sip' = [sip EXCEPT ![w].pc = "apply",
                   ![w].conf = [policy |-> settings.policy, ignore |-> white]]
      \/ RestoreAndApply(w)
  <2>1. CASE save_settings(w)
    BY <2>1 DEF save_settings, Places
  <2>2. CASE apply_configuration(w)
    BY <2>2 DEF apply_configuration
  <2>3. CASE helper_applies(w)
    BY <2>3 DEF helper_applies, Places
  <2>4. CASE helper_refuses(w)
    <3>1. sip[w].for \in {"save", "undo", "service"}
      BY <1>2 DEF Asking
    <3>2. QED
      BY <2>4, <3>1 DEF helper_refuses, Places
  <2>5. CASE restore_settings(w)
    BY <2>5 DEF restore_settings
  <2>6. CASE service_command(w)
    BY <2>6 DEF service_command, Places
  <2>7. CASE service_stopped_again(w)
    BY <2>7 DEF service_stopped_again
  <2>8. CASE record_service(w)
    BY <2>8 DEF record_service, Places
  <2>9. CASE put_service_back(w)
    BY <2>9 DEF put_service_back
  <2>10. QED
    BY <2>1, <2>2, <2>3, <2>4, <2>5, <2>6, <2>7, <2>8, <2>9
<1>7. \E r : /\ Becomes(w, r) /\ r.for \in Asking \cup {"none"} /\ r.todo = {} /\ r.done = {}
  <2>1. ASSUME NEW pc \in Places, Step(w, pc)
        PROVE  \E r : /\ Becomes(w, r) /\ r.for \in Asking \cup {"none"}
                      /\ r.todo = {} /\ r.done = {}
    <3>1. Becomes(w, [sip[w] EXCEPT !.pc = pc])
      BY <2>1, StepIs
    <3>2. /\ [sip[w] EXCEPT !.pc = pc].for = sip[w].for
          /\ [sip[w] EXCEPT !.pc = pc].todo = sip[w].todo
          /\ [sip[w] EXCEPT !.pc = pc].done = sip[w].done
      BY <1>2 DEF Request
    <3>3. QED
      BY <1>2, <3>1, <3>2
  <2>2. CASE Ends(w)
    BY <2>2, EndIs DEF Unoccupied
  <2>3. CASE sip' = [sip EXCEPT ![w].pc = "apply",
                       ![w].conf = [policy |-> settings.policy, ignore |-> white]]
    <3> DEFINE r == [sip[w] EXCEPT !.pc = "apply",
                       !.conf = [policy |-> settings.policy, ignore |-> white]]
    <3>1. [policy |-> settings.policy, ignore |-> white] \in Jails
      BY DEF SipInv, SipType, Settings, Jails
    <3>2. /\ r \in Request /\ r.for = sip[w].for /\ r.todo = {} /\ r.done = {}
      BY <1>2, <3>1 DEF Request, Places
    <3>3. sip' = [sip EXCEPT ![w] = r]
      BY <2>3
    <3> HIDE DEF r
    <3>4. QED
      BY <1>2, <3>2, <3>3, NewRequest
  <2>4. CASE RestoreAndApply(w)
    <3> DEFINE r == [sip[w] EXCEPT !.pc = "read", !.for = "undo"]
    <3>1. /\ r \in Request /\ r.for \in Asking /\ r.todo = {} /\ r.done = {}
      BY <1>2 DEF Request, Places, Asking
    <3>2. sip' = [sip EXCEPT ![w] = r]
      BY <2>4 DEF RestoreAndApply
    <3> HIDE DEF r
    <3>3. QED
      BY <3>1, <3>2, NewRequest
  <2>5. QED
    BY <1>6, <2>1, <2>2, <2>3, <2>4
<1>8. PICK r : /\ Becomes(w, r) /\ r.for \in Asking \cup {"none"} /\ r.todo = {} /\ r.done = {}
  BY <1>7
<1>9. r.for \notin Values
  BY <1>8, KindsApart DEF Asking
<1>10. \A h : w \notin InHand(h)'
  BY <1>8, <1>9 DEF InHand, Becomes
<1>11. QED
  BY <1>4, <1>5, <1>8, <1>10, PolicyHands DEF OnlyPolicy

LEMMA DiesStep ==
  ASSUME SipInv, PolicyInv, BansInv, NEW p \in Processes, sip_dies(p)
  PROVE  SipInv' /\ PolicyInv' /\ BansInv'
<1>1. /\ Ends(p) /\ writer' \in {Nobody, writer}
      /\ adrift' = (adrift \/ p \in Changing) /\ spoilt' = spoilt \cup HandsOf(p)
      /\ UNCHANGED <<settings, white, black, jail, running, bans, hour>>
  BY DEF sip_dies
<1>2. /\ Becomes(p, Unoccupied) /\ RequestInv(p)' /\ Unoccupied.for \notin Asking
      /\ \A h : p \notin InHand(h)'
  BY <1>1, HandsEmpty
<1>3. adrift \in BOOLEAN /\ adrift' \in BOOLEAN
  BY <1>1 DEF SipInv, SipType
<1>4. SipInv'
  <2>1. SipType
    BY DEF SipInv
  <2>2. DOMAIN black \subseteq DOMAIN black'
    BY <1>1
  <2>3. QED
    BY <1>1, <1>2, <1>3, <2>1, <2>2, SipKept DEF SipType
<1>5. PolicyInv'
  <2> SUFFICES ASSUME ~adrift'
               PROVE  /\ \A w, v \in Changing' : w = v
                      /\ \A w \in Changing' : ChangeInv(w)'
                      /\ Changing' = {} => /\ jail'.policy = settings'.policy
                                           /\ running' = settings'.service
    BY DEF PolicyInv
  <2>1. ~adrift /\ p \notin Changing
    BY <1>1, <1>3
  <2>2. \A w \in Web : w # p => sip'[w] = sip[w]
    BY <1>2 DEF Becomes, Processes
  <2>3. Changing' = Changing
    BY <1>2, <2>1, <2>2 DEF Changing, Becomes, Asking
  <2>4. ASSUME NEW w \in Changing PROVE ChangeInv(w)'
    <3>1. sip'[w] = sip[w] /\ ChangeInv(w)
      BY <2>1, <2>2 DEF Changing, PolicyInv
    <3>2. QED
      BY <1>1, <3>1 DEF ChangeInv
  <2>5. QED
    BY <1>1, <2>1, <2>3, <2>4 DEF PolicyInv
<1>6. BansInv'
  <2>1. SameValues /\ \A h : ActiveRows(h)' = ActiveRows(h)
    BY <1>1, SameRows
  <2>2. ASSUME NEW h \in Hosts \ spoilt' PROVE HostInv(h)'
    <3>1. HostInv(h) /\ p \notin InHand(h)
      BY <1>1, <2>2 DEF BansInv, HandsOf
    <3>2. QED
      BY <1>1, <1>2, <2>1, <3>1, HostUntouched
  <2>3. QED
    BY <2>2 DEF BansInv, Hosts
<1>7. QED
  BY <1>4, <1>5, <1>6

LEMMA UnoccupiedAll ==
  ASSUME sip = [p \in Processes |-> Unoccupied]
  PROVE  /\ sip \in [Processes -> Request] /\ Changing = {} /\ \A h : InHand(h) = {}
         /\ \A p \in Processes : RequestInv(p)
<1>1. Unoccupied \in Request
  BY DEF Unoccupied, Request, Places
<1>2. \A p \in Processes : sip[p] = Unoccupied
  OBVIOUS
<1>3. "none" \notin Values
  BY KindsApart
<1>4. Changing = {}
  BY <1>2 DEF Changing, Processes, Unoccupied
<1>5. \A h : InHand(h) = {}
  BY <1>2, <1>3 DEF InHand, Unoccupied
<1>6. \A p \in Processes : RequestInv(p)
  BY <1>2, <1>3 DEF RequestInv, Unoccupied, Asking
<1>7. QED
  BY <1>1, <1>4, <1>5, <1>6

LEMMA MachineStep ==
  ASSUME SipInv, PolicyInv, BansInv, MachineBoots
  PROVE  SipInv' /\ PolicyInv' /\ BansInv'
<1>1. /\ sip' = [p \in Processes |-> Unoccupied] /\ writer' = Nobody
      /\ adrift' = (adrift \/ Changing # {})
      /\ spoilt' = spoilt \cup {h \in Hosts : InHand(h) # {}}
      /\ UNCHANGED <<settings, white, black, jail, running, bans, hour>>
  BY DEF MachineBoots
<1>2. /\ sip' \in [Processes -> Request] /\ Changing' = {} /\ \A h : InHand(h)' = {}
      /\ \A p \in Processes : RequestInv(p)'
  <2>1. Unoccupied \in Request /\ "none" \notin Values
    BY KindsApart DEF Unoccupied, Request, Places
  <2>2. \A p \in Processes : sip'[p] = Unoccupied
    BY <1>1
  <2>3. sip' \in [Processes -> Request]
    BY <1>1, <2>1
  <2>4. Changing' = {}
    BY <2>2 DEF Changing, Processes, Unoccupied
  <2>5. \A h : InHand(h)' = {}
    BY <2>1, <2>2 DEF InHand, Unoccupied
  <2>6. ASSUME NEW p \in Processes PROVE RequestInv(p)'
    <3>1. /\ sip'[p].pc = "idle" /\ sip'[p].for = "none"
          /\ sip'[p].todo = {} /\ sip'[p].done = {}
      BY <2>2 DEF Unoccupied
    <3>2. QED
      BY <2>1, <3>1 DEF RequestInv, Asking
  <2>7. QED
    BY <2>3, <2>4, <2>5, <2>6
<1>3. SipInv'
  BY <1>1, <1>2 DEF SipInv, SipType
<1>4. PolicyInv'
  BY <1>1, <1>2 DEF PolicyInv
<1>5. ASSUME NEW h \in Hosts \ spoilt' PROVE HostInv(h)'
  <2>1. HostInv(h) /\ InHand(h) = {}
    BY <1>1, <1>5 DEF BansInv
  <2>2. ActiveRows(h)' = ActiveRows(h)
    BY <1>1 DEF ActiveRows
  <2>3. QED
    BY <1>1, <1>2, <2>1, <2>2 DEF HostInv
<1>6. QED
  BY <1>3, <1>4, <1>5 DEF BansInv, Hosts

(* Everything else leaves the requests, the rows and the bans alone.       *)
LEMMA SipElsewhere ==
  ASSUME SipInv, PolicyInv, BansInv,
         UNCHANGED <<settings, black, jail, running, bans, sip, writer, adrift, spoilt>>,
         white' \subseteq Values, hour' \in Nat
  PROVE  SipInv' /\ PolicyInv' /\ BansInv'
<1>1. SipInv'
  BY DEF SipInv, SipType, RequestInv
<1>2. PolicyInv'
  BY DEF PolicyInv, Changing, ChangeInv
<1>3. \A h : /\ InHand(h)' = InHand(h) /\ ActiveRows(h)' = ActiveRows(h)
  BY DEF InHand, ActiveRows
<1>4. ASSUME NEW h \in Hosts \ spoilt PROVE HostInv(h)'
  <2>1. HostInv(h)
    BY <1>4 DEF BansInv
  <2>2. \A p, i : Ended(p, i)' <=> Ended(p, i)
    BY DEF Ended, SipAt, NextRow
  <2>3. \A p \in InHand(h) : HandInv(p, h)'
    BY <1>3, <2>1, <2>2 DEF HostInv, HandInv, SipAt
  <2>4. QED
    BY <1>3, <2>1, <2>3 DEF HostInv
<1>5. QED
  BY <1>1, <1>2, <1>4 DEF BansInv, Hosts

LEMMA SipStart == Init => SipInv /\ PolicyInv /\ BansInv
<1> SUFFICES ASSUME Init PROVE SipInv /\ PolicyInv /\ BansInv
  OBVIOUS
<1>1. /\ settings = [policy |-> "off", service |-> TRUE]
      /\ jail = [policy |-> "off", ignore |-> {}] /\ running = TRUE
      /\ white = {} /\ black = <<>> /\ bans = {} /\ hour = 0
      /\ sip = [p \in Processes |-> Unoccupied] /\ writer = Nobody
      /\ adrift = FALSE /\ spoilt = {}
  BY DEF Init, SipInit
<1>2. /\ sip \in [Processes -> Request] /\ Changing = {} /\ \A h : InHand(h) = {}
      /\ \A p \in Processes : RequestInv(p)
  BY <1>1, UnoccupiedAll
<1>3. SipInv
  <2>1. settings \in Settings /\ jail \in Jails
    BY <1>1, PoliciesAssumption DEF Settings, Jails
  <2>2. black \in Seq(Entry) /\ Nobody \in Processes \cup {Nobody}
    BY <1>1
  <2>3. QED
    BY <1>1, <1>2, <2>1, <2>2 DEF SipInv, SipType
<1>4. PolicyInv
  BY <1>1, <1>2 DEF PolicyInv
<1>5. \A h : ActiveRows(h) = {}
  BY <1>1 DEF ActiveRows
<1>6. BansInv
  BY <1>1, <1>2, <1>5 DEF BansInv, HostInv
<1>7. QED
  BY <1>3, <1>4, <1>6

LEMMA SipStep ==
  SipInv /\ PolicyInv /\ BansInv /\ [Next]_vars => SipInv' /\ PolicyInv' /\ BansInv'
<1> SUFFICES ASSUME SipInv, PolicyInv, BansInv, [Next]_vars
             PROVE  SipInv' /\ PolicyInv' /\ BansInv'
  OBVIOUS
<1>1. white \subseteq Values /\ hour \in Nat
  BY DEF SipInv, SipType
<1>2. ASSUME NEW w \in Web,
             \/ \E policy \in Policies : sip_security_save(w, policy)
             \/ \E on \in BOOLEAN : set_service_enabled(w, on)
      PROVE  SipInv' /\ PolicyInv' /\ BansInv'
  BY <1>2, AskStep, AskBans
<1>3. ASSUME NEW w \in Web, NEW v \in Values, add_blacklist(w, v) \/ unban_ip(w, v)
      PROVE  SipInv' /\ PolicyInv' /\ BansInv'
  BY <1>3, AddStep, UnbanStep
<1>4. ASSUME NEW w \in Web, NEW i \in DOMAIN black, remove_blacklist(w, i)
      PROVE  SipInv' /\ PolicyInv' /\ BansInv'
  BY <1>4, RemoveStep
<1>5. ASSUME NEW v \in Values, add_whitelist(v) \/ remove_whitelist(v)
      PROVE  SipInv' /\ PolicyInv' /\ BansInv'
  BY <1>1, <1>5, SipElsewhere DEF add_whitelist, remove_whitelist, OnlyLists
<1>6. ASSUME NEW p \in Processes, Proceeds(p)
      PROVE  SipInv' /\ PolicyInv' /\ BansInv'
  BY <1>6, ChangeGoesOn, ChangeBans, InsertStep, AnswerStep, ExpireUnbansStep,
     ExpireUpdatesStep, ExpireCommitsStep DEF Proceeds
<1>7. ASSUME NEW p \in Processes, reconcile_bans(p) \/ sip_dies(p)
      PROVE  SipInv' /\ PolicyInv' /\ BansInv'
  BY <1>7, ReconcileStep, DiesStep
<1>8. CASE Tick
  BY <1>1, <1>8, SipElsewhere DEF Tick
<1>9. CASE MachineBoots
  BY <1>9, MachineStep
<1>10. CASE UNCHANGED sipVars
  BY <1>1, <1>10, SipElsewhere DEF sipVars
<1>11. CASE SipNext
  BY <1>2, <1>3, <1>4, <1>5, <1>6, <1>7, <1>8, <1>11 DEF SipNext
<1>12. QED
  BY <1>9, <1>10, <1>11 DEF Next, vars

(* The rows, the requests, the jail and the rules of the two pages have the *)
(* shape the code gives them.                                              *)
THEOREM TypeCorrect == Spec => []TypeOK
<1>1. FirewallInv /\ SipInv => TypeOK
  <2> SUFFICES ASSUME FirewallInv, SipInv PROVE TypeOK
    OBVIOUS
  <2>1. /\ kernel \in [DOMAIN kernel -> Bodies] /\ stored \in [DOMAIN stored -> Bodies]
        /\ \A i \in DOMAIN rules : rules[i] \in Rule
    BY TableType DEF FirewallInv, FirewallType
  <2>2. \A i \in DOMAIN black : black[i] \in Entry
    BY RowType
  <2>3. QED
    BY <2>1, <2>2 DEF SipInv, SipType, TypeOK, Settings, Jails, Entry, Rule
<1>2. Init => FirewallInv /\ SipInv /\ PolicyInv /\ BansInv
  BY FirewallStart, SipStart DEF Init
<1>3. QED
  BY <1>1, <1>2, FirewallStep, SipStep, PTL DEF Spec

(* Between two requests the jail has the saved policy and Fail2Ban runs    *)
(* exactly if it is recorded as enabled, although the helper may refuse at *)
(* any step and the undo is two steps of its own (app.py,                  *)
(* sip_security.py).                                                       *)
THEOREM PolicyStaysSaved == Spec => []PolicyAsSaved
<1>1. PolicyInv => PolicyAsSaved
  BY DEF PolicyInv, PolicyAsSaved
<1>2. QED
  BY <1>1, SipStart, SipStep, PTL DEF Spec

(* A host is banned exactly while an entry of the blacklist is active, for *)
(* any number of threads that add, take back and reconcile beside the      *)
(* timer, and although a reconciliation unbans long before it commits.     *)
THEOREM BansStayMatched == Spec => []BansMatchEntries
<1>1. BansInv => BansMatchEntries
  BY DEF BansInv, HostInv, BansMatchEntries
<1>2. QED
  BY <1>1, SipStart, SipStep, PTL DEF Spec
=============================================================================
