------------------------------ MODULE MCRefill ------------------------------
(* Two projects for TLC, each offered for a type of its own.   *)
EXTENDS Refill

CONSTANTS p, q, t, u, r

MCOffers == {<<p, t>>, <<q, u>>}
MCUnsteady == {<<p, t>>}
=============================================================================
