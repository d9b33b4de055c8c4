---------------------------- MODULE MCCleanupJobs ----------------------------
(* Instances of CleanupJobs.                                               *)
EXTENDS CleanupJobs

CONSTANTS recording, cdrRow

Category2 == [i \in Items |-> IF i = recording THEN "Recordings" ELSE "CDR"]

(* A provider is enabled; the recording lies in the local directory.       *)
Local == [i \in Items |-> 0]

OlderThan(c, n, ext) ==
  [cat |-> c, strategy |-> "older_than_days", value |-> n, external |-> ext]
KeepLatest(c, n) ==
  [cat |-> c, strategy |-> "keep_latest_records", value |-> n, external |-> FALSE]

BothKinds == <<OlderThan("Recordings", 0, TRUE), KeepLatest("CDR", 1)>>

(* What a page asks for: both categories, external storage included, or a  *)
(* number left empty.                                                      *)
SomePageRules == { BothKinds, <<OlderThan("Recordings", Blank, FALSE)>> }

(* What auto_config saves: local recordings, or nothing.                   *)
OneRule == [enabled |-> TRUE, trigger |-> TRUE,
            rules |-> <<OlderThan("Recordings", 0, FALSE)>>]
NoRules == [enabled |-> TRUE, trigger |-> FALSE, rules |-> <<>>]

EnabledConfigs == {OneRule, NoRules}
=============================================================================
