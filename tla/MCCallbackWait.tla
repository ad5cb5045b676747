--------------------------- MODULE MCCallbackWait ---------------------------
(* Two transfers, an enquiry and two callback requests: one answer can come *)
(* twice, or answers to two calls together, while a third call waits.       *)
EXTENDS CallbackWait

CONSTANTS t1, t2, e1, h1, h2

MCTransfers == {t1, t2}
MCEnquiries == {e1}
MCHandlers  == {h1, h2}

=============================================================================
