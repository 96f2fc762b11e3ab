--------------------------- MODULE MCVoiceCommands ---------------------------
(* Small instances of VoiceCommands for TLC. *)
EXTENDS VoiceCommands

\* Remember something about Pavlov's case, forget the first memory, recall one.  The note
\* names the case; the deletion shares a word with its title, which is
\* ambiguous once the case is in the catalogue.
CONSTANTS note, forget, ask, pavlov
Words ==
    [c \in Commands |->
        [starts |-> IF c = note THEN "remember" ELSE IF c = forget THEN "forget" ELSE "other",
         more |-> TRUE, recalls |-> c = ask]]
Targets == [c \in Commands |-> 0]
Scores == [c \in Commands |-> [m \in Matters |-> IF c = note THEN 50 ELSE IF c = forget THEN 5 ELSE 0]]
=============================================================================
