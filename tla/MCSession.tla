------------------------------ MODULE MCSession ------------------------------
(* Small instances of Session for TLC: a leader and at most one other process. *)
EXTENDS Session

CONSTANTS sh, m1

MCMembers == {m1}
MCLeader  == {sh}
MCNone    == {}
MCCodes   == {7}
=============================================================================
