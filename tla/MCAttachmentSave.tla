-------------------------- MODULE MCAttachmentSave --------------------------
EXTENDS AttachmentSave

Pdf(name) == [name |-> name, large |-> FALSE]

\* Two receipts of the same day, vendor and unreadable total in one message and
\* one in another, with an invoice and a document over the limit after it; a
\* message without PDFs, and one whose rule names a destination outside the roots.
MCAttachments ==
    [m \in Messages |-> CASE m = "pair"  -> <<Pdf("no-amount"), Pdf("no-amount")>>
                          [] m = "mixed" -> <<Pdf("no-amount"), Pdf("invoice"),
                                              [name |-> "invoice", large |-> TRUE]>>
                          [] m = "stray" -> <<Pdf("invoice")>>
                          [] OTHER       -> <<>>]

MCDestination == [m \in Messages |-> IF m = "stray" THEN "outside" ELSE "open"]
=============================================================================
