--------------------------- MODULE EditorialPolicy ---------------------------
(***************************************************************************)
(* The generation side of the editorial autopost: what a request is, which *)
(* drafts the service can produce for it, and the risk and visual policy   *)
(* that is applied to every draft before the queue sees it                 *)
(* (editorial_autopost.py, visual_policy.py).  No state: the operators are *)
(* used by EditorialAutopost.                                              *)
(*                                                                         *)
(* Text is abstracted to what the policy reads of it: the subject its      *)
(* keywords point at, whether it makes legal claims, the risk the language *)
(* model proposed.  An image is its size in bytes.                         *)
(***************************************************************************)
EXTENDS Integers

CONSTANTS
    Subjects,     \* keyword groups a topic and title can match
    ImageSizes    \* sizes in bytes of the images the providers return

ASSUME SubjectsAssumption ==
    Subjects \subseteq {"court", "guide", "error", "investigator", "other"}
ASSUME ImageSizesAssumption == ImageSizes \subseteq Nat \ {0}

-----------------------------------------------------------------------------
Risks == {"green", "yellow", "red"}
Resonance == {"normal", "high", "breaking"}
Categories == {"documentary", "cinematic", "infographic", "reconstruction",
               "court_practice", "breaking"}
ReviewStatuses == {"approved", "regenerate", "manual_review"}

\* A request; photo_url and photo_source are "the field is present".
RawRequest ==
    [current_case : BOOLEAN, is_news : BOOLEAN, public_resonance : Resonance,
     photo_url : BOOLEAN, photo_source : BOOLEAN, photo_verified : BOOLEAN]

\* The model validator: a verified photo comes with its URL and its source.
EditorialRequest ==
    {r \in RawRequest : r.photo_verified => r.photo_url /\ r.photo_source}

\* A stored draft with its image.  ver stands for the content itself: the
\* number of the bundle that was written to the queue row.
EditorialDraft ==
    [ver : Nat \ {0}, risk : Risks, category : Categories,
     visual_score : 0 .. 100, visual_review_status : ReviewStatuses,
     source_present : BOOLEAN, provenance_verified : BOOLEAN,
     ai_generated : BOOLEAN]

\* What the language model returns before any policy is applied.
ModelOutput == [risk : Risks, legal_claims : BOOLEAN, subject : Subjects]

-----------------------------------------------------------------------------
\* Mutant: the risk of a client's case is what the model says it is.
EnforceRiskForNews(request, output) ==
    IF (request.is_news \/ output.legal_claims) /\ output.risk = "green"
    THEN "yellow"
    ELSE output.risk

EnforceRisk(request, output) ==
    IF request.current_case THEN "red"
    ELSE IF (request.is_news \/ output.legal_claims) /\ output.risk = "green"
         THEN "yellow"
         ELSE output.risk

\* The category of the visual; AI is allowed for all but the documentary one.
SelectCategory(request, subject) ==
    LET resonant == request.is_news /\ request.public_resonance \in {"high", "breaking"}
    IN  IF resonant
        THEN IF request.photo_verified THEN "documentary" ELSE "breaking"
        ELSE IF subject = "court" THEN "court_practice"
        ELSE IF subject = "error" THEN "reconstruction"
        ELSE "cinematic"

\* The AI prompt starts with the template's prefix, so it always has the 40
\* characters worth three points; a documentary photo gets them as not AI.
PreflightScore(request, category, size, ai) ==
    LET base  == 82 + (IF size >= 10000 THEN 4 ELSE IF size < 1000 THEN 0 - 20 ELSE 0) + 3
        docOk == request.photo_source /\ request.photo_verified /\ ~ai
    IN  IF category = "documentary"
        THEN IF docOk THEN base + 8 ELSE 0
        ELSE IF category = "breaking" /\ ai THEN base - 2 ELSE base

PreflightStatus(score) ==
    IF score >= 80 THEN "approved"
    ELSE IF score >= 70 THEN "regenerate" ELSE "manual_review"

\* One attempt to give a draft a visual of the given size.
MakeVisual(request, ver, risk, subject, size) ==
    LET category == SelectCategory(request, subject)
        ai       == category # "documentary"
        score    == PreflightScore(request, category, size, ai)
    IN  [ver |-> ver, risk |-> risk, category |-> category,
         visual_score |-> score, visual_review_status |-> PreflightStatus(score),
         source_present |-> request.photo_source,
         provenance_verified |-> request.photo_verified,
         ai_generated |-> ai]

\* Everything generate_bundle can return for a request.
GenerateBundle(request, ver) ==
    {MakeVisual(request, ver, EnforceRisk(request, output), output.subject, size) :
        output \in ModelOutput, size \in ImageSizes}

\* Everything regenerate_visual can return: the same text, hence the same
\* category and risk, with a new image.  Empty for a documentary photo, which
\* the code refuses to replace.
RegenerateVisual(request, draft, ver) ==
    {d \in {MakeVisual(request, ver, draft.risk, subject, size) :
                subject \in Subjects, size \in ImageSizes} :
        d.category = draft.category /\ draft.category # "documentary"}

\* Mutant: only the provenance is looked at.
VisualGateUnscored(draft) == draft.category = "documentary" => draft.provenance_verified

\* The gate every publication passes, whoever asked for it.
VisualGate(draft) ==
    /\ draft.visual_review_status = "approved"
    /\ draft.visual_score >= 80
    /\ draft.category = "documentary" => draft.provenance_verified

\* The draft may go out without the owner, if that is switched on.
AutoEligible(draft) ==
    /\ draft.risk = "green"
    /\ draft.visual_review_status = "approved"
    /\ draft.visual_score >= 80
=============================================================================
