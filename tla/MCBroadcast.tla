---------------------------- MODULE MCBroadcast ----------------------------
(* Two recipients and an admin, one text and two audiences. *)
EXTENDS Broadcast

CONSTANT t1

MCUsers == 1..3
MCStaff == {3}
MCKnown == {1}
MCFilters == {"all", "expires_soon"}
MCContents == {t1}
=============================================================================
