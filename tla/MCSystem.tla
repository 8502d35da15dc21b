------------------------------ MODULE MCSystem ------------------------------
(* A small instance of System for TLC. *)
EXTENDS System

CONSTANTS c1, c2, c3

MCConns == {c1, c2}
=============================================================================
