------------------------------ MODULE MCKeyStore ------------------------------
(***************************************************************************)
(* Two signing keys, so that a lost one is replaced; a request to sign,   *)
(* two generations of the pair and a client.                               *)
(***************************************************************************)
EXTENDS KeyStore

CONSTANTS k1, k2, s1, g1, g2, c1

MCKeys       == {k1, k2}
MCSigners    == {s1}
MCGenerators == {g1, g2}
MCClients    == {c1}

=============================================================================
