---------------------------- MODULE MCCliClient ----------------------------
(* A small instance of CliClient for TLC. *)
EXTENDS CliClient
=============================================================================
