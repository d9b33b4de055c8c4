------------------------------ MODULE SipSecurity ------------------------------
(***************************************************************************)
(* The page of Fail2Ban, beside the firewall page (FirewallRules): the        *)
(* policy and the service, saved as one row and carried out by a helper that  *)
(* runs as root; the whitelist, which the next apply writes into the jail;     *)
(* and the manual blacklist, whose entries end by hand or, when their time is  *)
(* over, by reconcile_bans, which a timer runs under a file lock and the page  *)
(* runs without it.                                                         *)
(*                                                                          *)
(* The helper is another program: it does what it is asked or refuses, and    *)
(* an apply it refuses may have replaced the jail already.                   *)
(***************************************************************************)
EXTENDS FirewallRules, Sequences

CONSTANTS
  Timer,        (* rcm_sip_reconcile.py, started every minute *)
  Policies,     (* the jail switched off, or its limits *)
  Covers,       (* the hosts each address or network stands for *)
  Duration      (* hours a manual ban lasts *)

ASSUME DurationAssumption == Duration \in Nat
ASSUME CoversAssumption == \A v \in DOMAIN Covers : IsFiniteSet(Covers[v])
ASSUME PoliciesAssumption == "off" \in Policies
ASSUME NamesAssumption ==
  /\ Timer \notin Web /\ "nobody" \notin Web \cup {Timer}
  /\ {"none", "save", "undo", "service"} \cap DOMAIN Covers = {}

VARIABLES
  settings,   (* sip_security_settings: one row *)
  white,      (* sip_security_whitelist *)
  black,      (* sip_security_blacklist: in the order of the ids *)
  jail,       (* external: the policy and whitelist Fail2Ban works with *)
  running,    (* external: is Fail2Ban running? *)
  bans,       (* external: the hosts it bans by hand *)
  hour,       (* the clock *)
  sip,        (* the request or the reconciliation of each process *)
  writer,     (* the process whose transaction is open *)
  adrift,     (* history: an undo failed or undid too much, requests met, or *)
              (* a process died or the machine booted in a request          *)
  spoilt      (* history: hosts of a refused ban, or of two hands at once *)

sipVars == <<settings, white, black, jail, running, bans, hour, sip, writer, adrift, spoilt>>
vars    == <<fwVars, left, sipVars>>

Nobody    == "nobody"
Processes == Web \cup {Timer}
Values    == DOMAIN Covers
Hosts     == UNION { Covers[v] : v \in Values }
Single(v) == Cardinality(Covers[v]) = 1
Meets(v, u) == Covers[v] \cap Covers[u] # {}

Unoccupied == [pc |-> "idle", for |-> "none", want |-> {}, prev |-> {},
               conf |-> {}, todo |-> {}, done |-> {}]

SipAt(p, pc) == sip[p].pc = pc
Step(p, pc)  == sip' = [sip EXCEPT ![p].pc = pc]
Ends(p)      == sip' = [sip EXCEPT ![p] = Unoccupied]
Free(p)      == SipAt(p, "idle") /\ (p \in Web => At(p, "idle"))
MayWrite(p)  == writer \in {Nobody, p}

SipInit ==
  /\ settings = [policy |-> "off", service |-> TRUE]
  /\ jail = [policy |-> "off", ignore |-> {}] /\ running = TRUE
  /\ white = {} /\ black = <<>> /\ bans = {} /\ hour = 0
  /\ sip = [p \in Processes |-> Unoccupied] /\ writer = Nobody
  /\ adrift = FALSE /\ spoilt = {}

-----------------------------------------------------------------------------
(* The policy and the service.                                             *)

Changing == {p \in Web : sip[p].for \in {"save", "undo", "service"}}
OnlyPolicy == UNCHANGED <<white, black, bans, hour, writer, spoilt>>

Asks(w, kind, want, pc) ==
  /\ Free(w) /\ Spend("saves")
  /\ sip' = [sip EXCEPT ![w] = [Unoccupied EXCEPT
               !.pc = pc, !.for = kind, !.want = want, !.prev = settings]]
  /\ adrift' = (adrift \/ Changing # {})
  /\ OnlyPolicy /\ UNCHANGED <<settings, jail, running>>

sip_security_save(w, policy)  == Asks(w, "save", policy, "save")
set_service_enabled(w, on)    == Asks(w, "service", on, "start")

save_settings(w) ==
  /\ SipAt(w, "save") /\ MayWrite(w)
  /\ settings' = [settings EXCEPT !.policy = sip[w].want]
  /\ Step(w, "read")
  /\ OnlyPolicy /\ UNCHANGED <<jail, running, adrift, left>>

apply_configuration(w) ==
  /\ SipAt(w, "read")
  /\ sip' = [sip EXCEPT ![w].pc = "apply",
               ![w].conf = [policy |-> settings.policy, ignore |-> white]]
  /\ OnlyPolicy /\ UNCHANGED <<settings, jail, running, adrift, left>>

Refused == Spend("faults") \/ (~running /\ UNCHANGED left)

helper_applies(w) ==
  /\ SipAt(w, "apply")
  /\ jail' = sip[w].conf
  /\ IF sip[w].for = "service" THEN Step(w, "record") ELSE Ends(w)
  /\ OnlyPolicy /\ UNCHANGED <<settings, running, adrift, left>>

helper_refuses(w) ==
  /\ SipAt(w, "apply") /\ Refused
  /\ jail' \in {jail, sip[w].conf}
  /\ CASE sip[w].for = "save"    -> Step(w, "restore")
       [] sip[w].for = "undo"    -> Ends(w)
       [] sip[w].for = "service" -> Step(w, "stop")
  /\ adrift' = (adrift \/ sip[w].for = "undo")
  /\ OnlyPolicy /\ UNCHANGED <<settings, running>>

(* Mutant: the policy is put back and the jail is not.                     *)
RestoreAlone(w) == Ends(w)

RestoreAndApply(w) == sip' = [sip EXCEPT ![w].pc = "read", ![w].for = "undo"]

restore_settings(w) ==
  /\ SipAt(w, "restore") /\ MayWrite(w)
  /\ settings' = [settings EXCEPT !.policy = sip[w].prev.policy]
  /\ RestoreAndApply(w)
  /\ OnlyPolicy /\ UNCHANGED <<jail, running, adrift, left>>

service_command(w) ==
  /\ SipAt(w, "start")
  /\ \/ /\ running' = sip[w].want /\ UNCHANGED left
        /\ Step(w, IF sip[w].want THEN "read" ELSE "record")
     \/ Spend("faults") /\ Ends(w) /\ UNCHANGED running
  /\ OnlyPolicy /\ UNCHANGED <<settings, jail, adrift>>

(* It is stopped even if it ran, and was recorded as running, before.       *)
service_stopped_again(w) ==
  /\ SipAt(w, "stop")
  /\ \/ running' = FALSE /\ adrift' = (adrift \/ sip[w].prev.service) /\ UNCHANGED left
     \/ Spend("faults") /\ adrift' = TRUE /\ UNCHANGED running
  /\ Ends(w)
  /\ OnlyPolicy /\ UNCHANGED <<settings, jail>>

record_service(w) ==
  /\ SipAt(w, "record") /\ MayWrite(w)
  /\ \/ settings' = [settings EXCEPT !.service = sip[w].want] /\ Ends(w) /\ UNCHANGED left
     \/ Spend("faults") /\ Step(w, "put back") /\ UNCHANGED settings
  /\ OnlyPolicy /\ UNCHANGED <<jail, running, adrift>>

put_service_back(w) ==
  /\ SipAt(w, "put back")
  /\ \/ running' = sip[w].prev.service /\ UNCHANGED <<adrift, left>>
     \/ Spend("faults") /\ adrift' = TRUE /\ UNCHANGED running
  /\ Ends(w)
  /\ OnlyPolicy /\ UNCHANGED <<settings, jail>>

-----------------------------------------------------------------------------
(* The lists.                                                              *)

OnlyLists == UNCHANGED <<settings, jail, running, hour, adrift>>

InHand(h) ==
  {p \in Processes :
     \/ sip[p].for \in Values /\ h \in Covers[sip[p].for]
     \/ \E i \in sip[p].todo \cup sip[p].done : h \in Covers[black[i].value]}

ActiveRows(h) == {i \in DOMAIN black : /\ black[i].status = "active"
                                       /\ Covers[black[i].value] = {h}}

Spoils(hosts) == spoilt' = spoilt \cup {h \in hosts : InHand(h) # {}}

add_whitelist(v) ==
  /\ Spend("entries") /\ MayWrite(Nobody) /\ v \notin white
  /\ white' = white \cup {v}
  /\ OnlyLists /\ UNCHANGED <<black, bans, sip, writer, spoilt>>

remove_whitelist(v) ==
  /\ MayWrite(Nobody) /\ v \in white
  /\ white' = white \ {v}
  /\ OnlyLists /\ UNCHANGED <<black, bans, sip, writer, spoilt, left>>

add_blacklist(w, v) ==
  /\ Free(w) /\ Spend("entries") /\ \A u \in white : ~Meets(v, u)
  /\ sip' = [sip EXCEPT ![w].pc = "insert", ![w].for = v]
  /\ Spoils(Covers[v])
  /\ OnlyLists /\ UNCHANGED <<white, black, bans, writer>>

(* No other entry of the same address is looked for.                       *)
insert_blacklist(w) ==
  LET v == sip[w].for IN
  /\ SipAt(w, "insert") /\ MayWrite(w)
  /\ black' = Append(black, [value |-> v, until |-> hour + Duration, status |-> "active"])
  /\ IF Single(v) THEN Step(w, "ban") ELSE Ends(w)
  /\ spoilt' = spoilt \cup {h \in Covers[v] : ActiveRows(h) # {}}
  /\ OnlyLists /\ UNCHANGED <<white, bans, writer, left>>

helper_bans(w) ==
  LET hosts == Covers[sip[w].for] IN
  /\ SipAt(w, "ban")
  /\ \/ running /\ bans' = bans \cup hosts /\ UNCHANGED <<spoilt, left>>
     \/ Refused /\ spoilt' = spoilt \cup hosts /\ UNCHANGED bans
  /\ Ends(w)
  /\ OnlyLists /\ UNCHANGED <<white, black, writer>>

(* The page may be old: the row need not be active any more.                *)
remove_blacklist(w, i) ==
  LET v == black[i].value IN
  /\ Free(w) /\ Spend("entries") /\ MayWrite(w)
  /\ black' = [black EXCEPT ![i].status = "removed"]
  /\ IF Single(v) THEN sip' = [sip EXCEPT ![w].pc = "unban", ![w].for = v]
                  ELSE UNCHANGED sip
  /\ spoilt' = spoilt \cup {h \in Covers[v] : InHand(h) # {} \/ black[i].status # "active"}
  /\ OnlyLists /\ UNCHANGED <<white, bans, writer>>

(* By hand, from the list of the banned: the entry stays active.            *)
unban_ip(w, v) ==
  /\ Free(w) /\ Spend("entries") /\ Covers[v] \cap bans # {} /\ Single(v)
  /\ sip' = [sip EXCEPT ![w].pc = "unban", ![w].for = v]
  /\ spoilt' = spoilt \cup Covers[v]
  /\ OnlyLists /\ UNCHANGED <<white, black, bans, writer>>

Unbans(hosts) ==
  \/ running /\ bans' = bans \ hosts /\ UNCHANGED <<spoilt, left>>
  \/ Refused /\ spoilt' = spoilt \cup hosts /\ UNCHANGED bans

helper_unbans(w) ==
  /\ SipAt(w, "unban") /\ Unbans(Covers[sip[w].for]) /\ Ends(w)
  /\ OnlyLists /\ UNCHANGED <<white, black, writer>>

-----------------------------------------------------------------------------
(* reconcile_bans: what it finds expired it unbans and updates one by one,   *)
(* and commits at the end.                                                 *)

(* Mutant: an entry that has ended is found again.                          *)
ExpiredEver == {i \in DOMAIN black : black[i].until <= hour}

Expired == {i \in DOMAIN black : black[i].status = "active" /\ black[i].until <= hour}

reconcile_bans(p) ==
  /\ Free(p) /\ Expired # {}
  /\ sip' = [sip EXCEPT ![p].pc = "expire", ![p].todo = Expired]
  /\ Spoils(UNION { Covers[black[i].value] : i \in Expired })
  /\ OnlyLists /\ UNCHANGED <<white, black, bans, writer, left>>

NextRow(p) == CHOOSE i \in sip[p].todo : \A j \in sip[p].todo : i <= j

expire_unbans(p) ==
  /\ SipAt(p, "expire") /\ sip[p].todo # {}
  /\ LET v == black[NextRow(p)].value IN
     IF Single(v) THEN Unbans(Covers[v]) ELSE UNCHANGED <<bans, spoilt, left>>
  /\ Step(p, "update")
  /\ OnlyLists /\ UNCHANGED <<white, black, writer>>

(* Mutant: only addresses, which Fail2Ban can ban, are updated.               *)
DoneIfSingle(p) == sip[p].done \cup {i \in {NextRow(p)} : Single(black[i].value)}

DoneWith(p) == sip[p].done \cup {NextRow(p)}

(* Whatever the helper has answered.                                       *)
expire_updates(p) ==
  /\ SipAt(p, "update") /\ MayWrite(p)
  /\ writer' = p
  /\ sip' = [sip EXCEPT ![p].pc = "expire",
               ![p].todo = @ \ {NextRow(p)}, ![p].done = DoneWith(p)]
  /\ OnlyLists /\ UNCHANGED <<white, black, bans, spoilt, left>>

expire_commits(p) ==
  /\ SipAt(p, "expire") /\ sip[p].todo = {}
  /\ black' = [i \in DOMAIN black |-> IF i \in sip[p].done
                 THEN [black[i] EXCEPT !.status = "expired"] ELSE black[i]]
  /\ writer' = Nobody /\ Ends(p)
  /\ OnlyLists /\ UNCHANGED <<white, bans, spoilt, left>>

-----------------------------------------------------------------------------
(* A process ends; the transaction it had open is undone.                   *)
HandsOf(p) == {h \in Hosts : p \in InHand(h)}

sip_dies(p) ==
  /\ ~SipAt(p, "idle") /\ Spend("faults")
  /\ Ends(p)
  /\ writer' = IF writer = p THEN Nobody ELSE writer
  /\ adrift' = (adrift \/ p \in Changing)
  /\ spoilt' = spoilt \cup HandsOf(p)
  /\ UNCHANGED <<settings, white, black, jail, running, bans, hour>>

MachineBoots ==
  /\ Boots
  /\ sip' = [p \in Processes |-> Unoccupied] /\ writer' = Nobody
  /\ adrift' = (adrift \/ Changing # {})
  /\ spoilt' = spoilt \cup {h \in Hosts : InHand(h) # {}}
  /\ UNCHANGED <<settings, white, black, jail, running, bans, hour>>

Tick ==
  /\ Spend("hours") /\ hour' = hour + 1
  /\ UNCHANGED <<settings, white, black, jail, running, bans, sip, writer, adrift, spoilt>>

(* What is left of a request or a reconciliation that has begun.            *)
Proceeds(p) ==
  \/ save_settings(p) \/ apply_configuration(p) \/ helper_applies(p) \/ helper_refuses(p)
  \/ restore_settings(p) \/ service_command(p) \/ service_stopped_again(p)
  \/ record_service(p) \/ put_service_back(p)
  \/ insert_blacklist(p) \/ helper_bans(p) \/ helper_unbans(p)
  \/ expire_unbans(p) \/ expire_updates(p) \/ expire_commits(p)

SipNext ==
  \/ \E w \in Web : \/ \E policy \in Policies : sip_security_save(w, policy)
                    \/ \E on \in BOOLEAN : set_service_enabled(w, on)
                    \/ \E v \in Values : add_blacklist(w, v) \/ unban_ip(w, v)
                    \/ \E i \in DOMAIN black : remove_blacklist(w, i)
  \/ \E v \in Values : add_whitelist(v) \/ remove_whitelist(v)
  \/ \E p \in Processes : reconcile_bans(p) \/ Proceeds(p) \/ sip_dies(p)
  \/ Tick

Next ==
  \/ /\ FirewallNext /\ UNCHANGED sipVars
     /\ \A w \in Web : SipAt(w, "idle") \/ apply'[w].pc = "idle"
  \/ SipNext /\ UNCHANGED fwVars
  \/ MachineBoots

Init == FirewallInit /\ SipInit /\ left \in Plans

(* The timer comes again and again; what has begun goes on.                 *)
Fairness ==
  /\ \A p \in Processes : WF_vars(Proceeds(p) /\ UNCHANGED fwVars)
  /\ WF_vars(reconcile_bans(Timer) /\ UNCHANGED fwVars)

Spec == Init /\ [][Next]_vars /\ Fairness

-----------------------------------------------------------------------------
TypeOK ==
  /\ settings \in [policy : Policies, service : BOOLEAN]
  /\ jail \in [policy : Policies, ignore : SUBSET Values]
  /\ white \subseteq Values /\ bans \subseteq Hosts /\ hour \in Nat
  /\ \A i \in DOMAIN black :
       black[i] \in [value : Values, until : Nat, status : {"active", "removed", "expired"}]
  /\ writer \in Processes \cup {Nobody}
  /\ kernel \in [DOMAIN kernel -> Bodies] /\ stored \in [DOMAIN stored -> Bodies]
  /\ \A i \in DOMAIN rules :
       rules[i] \in [body : Bodies, status : {"pending", "applied", "error"}]

(* "Keep the persisted policy aligned with the running Fail2Ban policy when   *)
(* the reload is rejected" (app.py): between requests the jail has the saved   *)
(* policy and the service runs if it is recorded as enabled, whatever was      *)
(* refused, as long as the undo was not refused too, two requests did not      *)
(* meet, no process died and no machine booted in the middle of one (nobody    *)
(* goes on with it), and a running service was not enabled once more in vain.  *)
PolicyAsSaved ==
  Changing = {} /\ ~adrift =>
    jail.policy = settings.policy /\ running = settings.service

(* A host is banned exactly while an entry of the blacklist for it is active,  *)
(* unless the helper refused, the host was unbanned by hand, had two entries,  *)
(* or was in two hands at once (the page reconciles without the timer's lock). *)
BansMatchEntries ==
  \A h \in Hosts \ spoilt : InHand(h) = {} => (h \in bans <=> ActiveRows(h) # {})

(* An entry whose time is over stops being active, although a reconciliation   *)
(* commits nothing before its last row and may die before (a day adds at most  *)
(* three entries).                                                           *)
EveryEntryEnds ==
  \A i \in 1..3 : (i \in DOMAIN black /\ black[i].until <= hour)
                    ~> (i \in DOMAIN black /\ black[i].status # "active")
=============================================================================
