------------------------------- MODULE MCDemo -------------------------------
(* The three nodes of the demo; more would only answer the account lists.  *)
EXTENDS Demo

CONSTANTS n1, n2, n3, cf, null

MCNodes == <<n1, n2, n3>>
MCNode  == {n1, n2, n3}
MCUnreliable == {n3}
=============================================================================
