------------------------------ MODULE MCAccounts ------------------------------
(***************************************************************************)
(* Two users with different BVNs; a number at two banks, one of which     *)
(* NIBSS does not vouch for; an account a user has linked and a wallet.    *)
(***************************************************************************)
EXTENDS Accounts

CONSTANTS u1, u2, n1, n2, n3, b1, b2, r1, r2

MCUsers    == {u1, u2}
MCNumbers  == {n1, n2, n3}
MCPlaces   == {[number |-> n1, bank |-> b1], [number |-> n1, bank |-> b2],
               [number |-> n2, bank |-> b1]}
MCVerified == {[number |-> n1, bank |-> b1], [number |-> n2, bank |-> b1]}
MCHolder   == [p \in MCPlaces |-> "bvn1"]
MCBVN      == [u \in MCUsers |-> IF u = u1 THEN "bvn1" ELSE "bvn2"]
MCSeeded   == [n \in {n2, n3} |-> [user |-> u1, bank |-> IF n = n2 THEN b1 ELSE None]]
MCRequests == {r1, r2}

=============================================================================
