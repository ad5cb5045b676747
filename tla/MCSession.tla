------------------------------ MODULE MCSession ------------------------------
(* A user with two sessions, and two requests beside the two logins: a        *)
(* deletion, a refresh or a logout meets a login and any one other request,   *)
(* or a refresh token is brought twice.                                       *)
EXTENDS Session

CONSTANTS a, b, r1, r2

MCLogins   == {a, b}
MCUsers    == {"u"}
MCOwner    == [l \in MCLogins |-> "u"]
MCRequests == {r1, r2}

=============================================================================
