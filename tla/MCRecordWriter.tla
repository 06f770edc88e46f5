-------------------------- MODULE MCRecordWriter --------------------------
(* Rows, intents and threats for model-checking RecordWriter. *)
EXTENDS RecordWriter

TwoNotes == {"n1", "n2"}
OneIntent == {"i1"}
AllThreats == {"settle", "deadline", "settlerDies", "takeover", "prune"}
============================================================================
