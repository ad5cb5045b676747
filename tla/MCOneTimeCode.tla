---------------------------- MODULE MCOneTimeCode ----------------------------
(***************************************************************************)
(* Two users and four requests of one flow; two of the requests draw the   *)
(* same digits.                                                            *)
(***************************************************************************)
EXTENDS OneTimeCode, TLC

CONSTANTS u1, u2, r1, r2, r3, r4

MCUsers    == {u1, u2}
MCRequests == {r1, r2, r3, r4}
MCValues   == 1..2
MCValue    == [r \in MCRequests |-> IF r \in {r1, r2} THEN 1 ELSE 2]
MCFlows    == {{"otp", "validate"}, {"forgot", "reset"}, {"qr", "process", "pay"}}
Alike      == Permutations(MCUsers) \cup Permutations({r1, r2}) \cup Permutations({r3, r4})

=============================================================================
