----------------------------- MODULE MCDexPhones ------------------------------
(* Values for TLC.  One phone: a Grandstream, the vendor whose notify lasts  *)
(* longest and that has a responder.                                        *)
EXTENDS DexPhones

TheModel(q) == "GRP2602P"
GRP         == {"GRP2602P"}

Plan(s, e, m, r, p, f) ==
  [stocked |-> s, edits |-> e, models |-> m, requests |-> r, pnp |-> p, faults |-> f]

AllPlans ==
  { Plan(TRUE,  2, 0, 0, 0, 1),   (* assignments and failures *)
    Plan(TRUE,  1, 0, 1, 0, 0),   (* assignments and a long request *)
    Plan(TRUE,  1, 0, 0, 1, 0),   (* assignments and the responder *)
    Plan(TRUE,  1, 1, 0, 0, 0),   (* assignments and the models *)
    Plan(TRUE,  0, 1, 1, 0, 0),   (* a long request and the models *)
    Plan(TRUE,  0, 0, 1, 0, 1),   (* a long request and failures *)
    Plan(TRUE,  0, 0, 0, 1, 1),   (* the responder and failures *)
    Plan(FALSE, 0, 2, 1, 0, 0),   (* an empty inventory that is filled *)
    Plan(FALSE, 0, 0, 1, 1, 0),
    Plan(FALSE, 0, 0, 2, 0, 0),     (* two long requests *)
    Plan(TRUE,  0, 0, 0, 2, 0) }    (* a phone that asks twice *)
=============================================================================
