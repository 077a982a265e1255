-------------------------- MODULE MCLivePlacement --------------------------
(* Small instances of LivePlacement.                                        *)
EXTENDS LivePlacement

CONSTANTS a1, a2, b1, none

Binding(id, approval, nonce, expires) ==
    [authorization_id |-> id, approval_id |-> approval, single_use_nonce |-> nonce,
     client_order_id |-> id, created_at |-> 0, expires_at |-> expires, quantity |-> MaxQuantity]

\* One authorization that an approval may replace by a second, which reuses
\* its nonce, and an order approved beside them.
Replaced == {Binding(a1, "A", "n1", 1), Binding(a2, "A", "n1", 2),
             Binding(b1, "B", "n2", 2)}

\* Two orders approved side by side.
SideBySide == {Binding(a1, "A", "n1", 2), Binding(b1, "B", "n2", 2)}
=============================================================================
