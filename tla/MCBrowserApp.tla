---------------------------- MODULE MCBrowserApp ----------------------------
(* A small instance of BrowserApp for TLC. *)
EXTENDS BrowserApp

CONSTANTS c1, c2, c3

MCConns == {c1, c2, c3}
MCTwo   == {c1, c2}
=============================================================================
