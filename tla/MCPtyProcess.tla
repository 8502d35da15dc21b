---------------------------- MODULE MCPtyProcess ----------------------------
(* Small instances of PtyProcess for TLC: a leader and two members. *)
EXTENDS PtyProcess

CONSTANTS sh, m1, m2

MCMembers == {m1, m2}
MCCodes   == {0}
MCNone    == {}
MCProcs   == {sh, m1, m2}
=============================================================================
