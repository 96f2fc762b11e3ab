------------------------- MODULE MCEditorialAutopost -------------------------
(* Small instances of EditorialAutopost for TLC. *)
EXTENDS EditorialAutopost

Plain == [current_case |-> FALSE, is_news |-> FALSE, public_resonance |-> "normal",
          photo_url |-> FALSE, photo_source |-> FALSE, photo_verified |-> FALSE]

\* A guide any reader may use, a client's case, a breaking story with and
\* without a verified photograph.
Guides == {Plain}
ClientCase == {[Plain EXCEPT !.current_case = TRUE]}
Breaking == [Plain EXCEPT !.is_news = TRUE, !.public_resonance = "breaking"]
Photographed == {[Breaking EXCEPT !.photo_url = TRUE, !.photo_source = TRUE, !.photo_verified = TRUE]}
GuideCaseOrPhotograph == Guides \cup ClientCase \cup Photographed
AllRequests == GuideCaseOrPhotograph \cup {Breaking}
=============================================================================
