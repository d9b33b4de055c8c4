----------------------------- MODULE MCSipSecurity -----------------------------
(* Values for TLC: a day of the firewall page, a day of the policy, and days   *)
(* of the lists.                                                            *)
EXTENDS SipSecurity

OneHostAndNet == [v \in {"host", "net"} |-> IF v = "host" THEN {"h1"} ELSE {"h1", "h2"}]

Day(r, a, f, s, e, h) ==
  [rules |-> r, applies |-> a, faults |-> f, saves |-> s, entries |-> e, hours |-> h]

AllPlans ==
  { Day(3, 1, 1, 0, 0, 0), Day(2, 2, 2, 0, 0, 0),                   (* firewall *)
    Day(0, 0, 2, 2, 0, 0), Day(0, 0, 1, 1, 1, 0),                   (* policy *)
    Day(0, 0, 1, 0, 2, 1), Day(0, 0, 0, 0, 3, 1), Day(0, 0, 0, 0, 2, 2) }  (* lists *)
=============================================================================
