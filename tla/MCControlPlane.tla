--------------------------- MODULE MCControlPlane ---------------------------
(* Instances of ControlPlane for TLC. *)
EXTENDS ControlPlane, TLC

CONSTANTS r1, r2, r3  \* request ids

Order(order_type, quantity, price, extra_tags) ==
  [type |-> "new_order_single", order_type |-> order_type, quantity |-> quantity,
   price |-> price, extra_tags |-> extra_tags]

Ask(id, mode, command) ==
  [version |-> 1, profile |-> Profile, legal_id |-> TRUE, id |-> id, mode |-> mode,
   command |-> command]

Small == Order("limit", 1, 2, {})
Other == Order("limit", 2, 2, {})

Symmetry == Permutations(Clients) \cup Permutations({r2, r3})

\* Three orders that compete for the window, a retry that conflicts (with a
\* notional at the limit), a market order without a price, and an order whose
\* quantity and price are within the limits while its notional is not.
OrderRequests ==
  {Ask(id, "certification", Small) : id \in {r1, r2, r3}}
    \cup {Ask(r1, "certification", o) :
            o \in {Other, Order("market", 3, NoPrice, {}), Order("limit", 2, 3, {})}}

\* Every other kind of request, and some that are refused: by the mode,
\* by the policy and by the session.
OtherRequests == {
  Ask(r1, "certification", [type |-> "session_status"]),
  Ask(r1, "certification", [type |-> "session_logout"]),
  Ask(r1, "dry_run", Small),
  Ask(r1, "inspect", [type |-> "cancel_order", targets |-> 1]),
  Ask(r1, "certification", Order("market", 3, NoPrice, {})),
  Ask(r2, "certification", Order("limit", 1, 2, {43})),
  Ask(r3, "certification", Order("limit", 2, 3, {}))}
=============================================================================
