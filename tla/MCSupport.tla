----------------------------- MODULE MCSupport -----------------------------
(* One user who can have two tickets, one category and one triage token. *)
EXTENDS Support

CONSTANT u1

MCUsers == {u1}
MCOneCategory == {"payment"}
=============================================================================
