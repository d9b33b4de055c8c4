------------------------ MODULE MCRecordingStorage -------------------------
(* Instances of RecordingStorage.                                          *)
EXTENDS RecordingStorage

CONSTANTS nas1, nas2

OneNas == <<nas1>>
OnlyLocal == <<"local">>
MoveToNas2 == <<[provider |-> nas2, removes |-> TRUE]>>
=============================================================================
