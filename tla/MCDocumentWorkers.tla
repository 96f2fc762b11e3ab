-------------------------- MODULE MCDocumentWorkers --------------------------
(* Small instances of DocumentWorkers for TLC. *)
EXTENDS DocumentWorkers, TLC

\* No page with a proper number; one empty page; a doubtful page after a sure
\* one; one sure page more than the embed stage takes.
OcrPage(confidence, blank) == [confidence |-> confidence, blank |-> blank]
Sure == OcrPage(85, FALSE)
Pages(first, second, third) == 1 :> first @@ 2 :> second @@ 3 :> third
OcrResults ==
    {Pages(None, None, None), Pages(OcrPage(85, TRUE), None, None),
     Pages(Sure, OcrPage(84, FALSE), None), Pages(Sure, Sure, Sure)}
=============================================================================
