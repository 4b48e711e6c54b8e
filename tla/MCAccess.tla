------------------------------ MODULE MCAccess ------------------------------
(* Two payments of one user, two handlers at once. *)
EXTENDS Access, TLC

CONSTANTS u1, c1, c2, c3, h1, h2

MCUsers == {u1}
MCCharges == {c1, c2}
MCThreeCharges == {c1, c2, c3}
MCOwner == [c \in MCCharges |-> u1]
MCThreeOwner == [c \in MCThreeCharges |-> u1]
MCHandlers == {h1, h2}

MCOneHandler == {h1}
MCSymmetry == Permutations(MCCharges) \cup Permutations(MCHandlers)
=============================================================================
