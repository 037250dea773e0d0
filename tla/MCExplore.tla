----------------------------- MODULE MCExplore ------------------------------
(* A small instance of Explore. *)
EXTENDS Explore

CONSTANTS c1, c2

MCCmd == {c1, c2}
=============================================================================
