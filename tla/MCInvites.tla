------------------------------ MODULE MCInvites ------------------------------
(* One user who asks for a link and pays again, and the expirer. *)
EXTENDS Invites

CONSTANTS u1, c1, c2, h1, i1

MCUsers == {u1}
MCOneCharge == {c1}
MCCharges == {c1, c2}
MCOneOwner == [c \in MCOneCharge |-> u1]
MCOwner == [c \in MCCharges |-> u1]
MCHandlers == {h1}
MCIssuers == {i1}
=============================================================================
