----------------------------- MODULE MCMailReports ----------------------------
(* Values for TLC.  Two slots a day; the third month begins on day 8, and the *)
(* months after it are shorter than the day of the monthly report.            *)
EXTENDS MailReports

MonthStarts == <<0, 4, 8, 11, 13, 17, 21, 25>>
MailOfExt(e) == "shared"

Form(sch, time, on, alerts, threshold, email) ==
  [schedule |-> sch, time |-> time, weekday |-> 2, monthday |-> 4, email |-> email,
   enabled |-> on, alerts |-> alerts, threshold |-> threshold]

Quiet  == Form("weekly", 0, FALSE, FALSE, 1, "a")
Daily  == Form("daily", 1, TRUE, FALSE, 1, "a")
Weekly == Form("weekly", 1, TRUE, FALSE, 1, "a")
Other  == Form("daily", 1, TRUE, FALSE, 1, "b")
Early  == Form("daily", 0, TRUE, FALSE, 1, "a")
Month  == Form("monthly", 1, TRUE, FALSE, 1, "a")
Alert1 == Form("weekly", 0, FALSE, TRUE, 1, "a")
Alert2 == Form("weekly", 0, FALSE, TRUE, 2, "a")
AllForms == {Quiet, Daily, Weekly, Other, Early, Month, Alert1, Alert2}

Plan(start, form, last, who, lines, ring, rot, flt, out, edits, slots) ==
  [start |-> start, settings |-> form, last |-> last, missing |-> who, lines |-> lines,
   rings |-> ring, rotations |-> rot, faults |-> flt, outages |-> out, edits |-> edits,
   slots |-> slots]

One == { CHOOSE e \in Exts : TRUE }

AllPlans ==
  { Plan(16, Quiet,  Never, {},   4, 0, 1, 1, 0, 0, 0),    (* imports *)
    Plan(16, Quiet,  Never, {},   3, 0, 0, 2, 0, 0, 0),    (* lines read past *)
    Plan(16, Alert1, Never, One,  1, 0, 0, 1, 0, 0, 2),    (* alerts and failures *)
    Plan(16, Alert1, Never, One,  0, 1, 0, 1, 0, 0, 2),
    Plan(16, Alert2, Never, One,  1, 1, 0, 0, 0, 1, 2),    (* alerts and edits *)
    Plan(16, Alert2, Never, One,  0, 3, 0, 0, 0, 1, 2),
    Plan(16, Alert1, Never, Exts, 0, 2, 0, 0, 1, 0, 1),    (* an address shared *)
    Plan(16, Daily,  15,    One,  1, 0, 0, 1, 0, 0, 2),    (* reports *)
    Plan(16, Daily,  15,    One,  1, 0, 0, 0, 0, 1, 2),
    Plan(16, Daily,  15,    One,  1, 0, 0, 0, 1, 0, 3),
    Plan(16, Weekly, Never, {},   0, 0, 0, 0, 1, 1, 5),
    Plan(16, Month,  15,    {},   0, 0, 0, 0, 1, 0, 14) }
=============================================================================
