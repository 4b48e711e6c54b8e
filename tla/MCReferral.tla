----------------------------- MODULE MCReferral -----------------------------
(* Three users, of whom two pay twice, with Stars and through Crypto Pay;    *)
(* the last charge is for a lifetime tariff.                                 *)
EXTENDS Referral, TLC

CONSTANTS u1, u2, u3, c1, c2, c3, c4

MCUsers == {u1, u2, u3}
MCCharges == {c1, c2, c3, c4}
MCOwner == (c1 :> u1) @@ (c2 :> u1) @@ (c3 :> u2) @@ (c4 :> u2)
MCCrypto == {c2, c4}
MCEndless == {c4}
=============================================================================
