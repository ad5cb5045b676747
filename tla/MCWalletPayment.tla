-------------------------- MODULE MCWalletPayment --------------------------
(* Two accounts, A and B, and five requests: one USSD code used for two ids, *)
(* each of them tried once more in another way, and a body that is refused;  *)
(* among them payments that wait for each other's account and id.            *)
EXTENDS WalletPayment

MCAccounts == {"A", "B"}
MCOpening  == [a \in MCAccounts |-> 5]

\* One USSD code used for two ids, the second of them to pay an account that is
\* not there; the first id also bought as airtime and sent in a body that is
\* not decoded, the second also a QR payment the opposite way.
MCRequests == {"u1", "u2", "air", "qr", "d"}
MCMode   == [u1 |-> "USSD", u2 |-> "USSD", air |-> "AIRTIME", qr |-> "QR", d |-> "DATA"]
MCTxId   == [u1 |-> "p", u2 |-> "q", air |-> "p", qr |-> "q", d |-> "p"]
MCFrom   == [u1 |-> "A", u2 |-> "B", air |-> "B", qr |-> "B", d |-> "A"]
MCTo     == [u1 |-> "B", u2 |-> "Z", air |-> "Z", qr |-> "A", d |-> "Z"]
MCAmount == [u1 |-> 3, u2 |-> 3, air |-> 2, qr |-> 4, d |-> 1]
MCCode   == [u1 |-> "ussd", u2 |-> "ussd", air |-> "no code", qr |-> "qr", d |-> "no code"]
MCCodes  == {"ussd", "qr"}

MCWithAirtime == {"QR", "USSD", "VOICE", "AIRTIME"}

=============================================================================
