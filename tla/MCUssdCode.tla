----------------------------- MODULE MCUssdCode -----------------------------
(* One user asks for a code of each type, validates twice and pays, or      *)
(* logs in four times.                                                     *)
EXTENDS UssdCode, TLC

CONSTANTS u1, g1, g2, v1, v2, p1, a1, a2, a3, a4, d1, d2

MCClients  == {u1}
MCLogins   == {a1, a2, a3, a4}
MCCalls    == {g1, g2, v1, v2, p1} \cup MCLogins
MCKind     == (g1 :> "PUSH") @@ (g2 :> "PULL") @@ (p1 :> "pay")
                @@ [r \in MCCalls |-> IF r \in MCLogins THEN "auth" ELSE "validate"]
MCMixes    == {{"auth"}, UssdKinds \ {"auth"}}
MCUser     == [r \in MCCalls |-> u1]
MCDigits   == {d1, d2}
Alike      == Permutations({v1, v2}) \cup Permutations(MCDigits)

=============================================================================
