----------------------------- MODULE MCGoogleOAuth -----------------------------
(* Small instances of GoogleOAuth and its reader for TLC. *)
EXTENDS WorkspaceReader, TLC

Interchangeable == Permutations(Consents) \cup Permutations(Threads) \cup Permutations(Subjects)
=============================================================================
