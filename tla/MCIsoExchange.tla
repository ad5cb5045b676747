--------------------------- MODULE MCIsoExchange ---------------------------
(* A transfer and an enquiry, whose conversions overlap and of which one    *)
(* trips the breaker for the other, and two callback requests: one answer   *)
(* comes twice, both are answered together, or one request is NIBSS's own.  *)
(* The server checks their HMAC and can open envelopes, or their TLS        *)
(* certificate and cannot.                                                  *)
EXTENDS IsoExchange

CONSTANTS t1, e1, h1, h2

MCTransfers == {t1}
MCEnquiries == {e1}
MCHandlers  == {h1, h2}
MCUnasked   == {h2}
MCConfigs   == {[auth |-> "hmac", shared |-> TRUE], [auth |-> "tls", shared |-> FALSE]}

=============================================================================
