----------------------------- MODULE MCCheckout -----------------------------
(* One buyer, three kinds of tariff, two discount codes and one for free days. *)
EXTENDS Checkout, TLC

CONSTANTS u1, c1, c2, c3, h1, h2

MCOneUser == {u1}
MCCharges == {c1, c2}
MCThreeCharges == {c1, c2, c3}
MCHandlers == {h1, h2}
MCOneHandler == {h1}

MCKind == [month |-> "plain", trial |-> "trial", forever |-> "lifetime"]
MCTwoKinds == [month |-> "plain", trial |-> "trial"]

Discount == [freeDays |-> FALSE, firstOnly |-> FALSE, tariffs |-> {"month"},
             maxUses |-> 1, perUserLimit |-> 1]
Welcome == [Discount EXCEPT !.firstOnly = TRUE]
Gift == [Discount EXCEPT !.freeDays = TRUE, !.perUserLimit = 3]

MCCode == [welcome |-> Welcome, spring |-> Discount, gift |-> Gift]
MCNoCode == [p \in {} |-> Discount]
MCSymmetry == Permutations(MCCharges) \cup Permutations(MCHandlers)

\* Bound: once sessions have overlapped, what goes on is followed as long as it is
\* about the tariff "month" and the codes "spring" and "gift", without edits.
MCBound ==
  overlap =>
    /\ edits = 0
    /\ \A c \in Charges : charges[c] # NoCharge => charges[c].tariff = "month"
    /\ \A r \in DOMAIN redemptions : redemptions[r].promo # "welcome"
    /\ \A s \in sessions : s.kind = "apply" => s.promo # "welcome"
=============================================================================
