---------------------------- MODULE MCEmailIntake ----------------------------
(* Small instances of EmailIntake for TLC. *)
EXTENDS EmailIntake, TLC

File(name, content, legal, readable) ==
    [name |-> name, content |-> content, legal |-> legal, readable |-> readable]
Order == File("order.pdf", "order", TRUE, TRUE)
Letter == File("letter.txt", "letter", FALSE, TRUE)
Scan == File("scan.pdf", "scan", TRUE, FALSE)
Archive == File("files.zip", "files", FALSE, FALSE)
OtherOrder == File("order.pdf", "another order", TRUE, TRUE)
AllFiles == {Order, Letter, Scan, Archive, OtherOrder}

\* A message with a readable, an unreadable and another readable attachment;
\* one with an archive and a file of the first one's name.
TwoDocuments == [hits |-> 0, attachments |-> <<Order, Scan, Letter>>]
OneDocument == [hits |-> 2, attachments |-> <<Archive, OtherOrder>>]

Interchangeable == Permutations(Workers)

\* Mail is a function of the messages m1 and m2.
CONSTANTS m1, m2
Correspondence == m1 :> TwoDocuments @@ m2 :> OneDocument
=============================================================================
