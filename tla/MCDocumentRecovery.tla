-------------------------- MODULE MCDocumentRecovery --------------------------
(* Small instances of DocumentRecovery for TLC. *)
EXTENDS DocumentRecovery, TLC

Interchangeable == Permutations(Documents)
=============================================================================
