----------------------------- MODULE MCCryptoPay ----------------------------
(* Two buyers, one of them with an endless subscription, and two handlers. *)
EXTENDS CryptoPay

CONSTANTS u1, u2, h1, h2

MCUsers == {u1, u2}
MCEndless == {u2}
MCHandlers == {h1, h2}
=============================================================================
