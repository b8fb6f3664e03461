--------------------------- MODULE CommandPlanner ---------------------------
(***************************************************************************)
(* CommandPlanner of fix-control: what a request is refused for before     *)
(* anything of the system is looked at, and what the session is asked to   *)
(* send otherwise.                                                         *)
(*                                                                         *)
(* A request is a record; texts are numbers or members of small sets.  0   *)
(* stands for a quantity or price that is not a positive decimal, NoPrice  *)
(* for an absent price.  Digests (fingerprint, cl_ord_id) are the tuples   *)
(* they digest.                                                            *)
(***************************************************************************)
EXTENDS Integers

CONSTANTS
  Profile,      \* the profile of this daemon
  RuntimeMode,  \* "certification" or "live"
  MaxQuantity,  \* Policy.max_quantity
  MaxNotional,  \* Policy.max_notional
  MaxDecimal    \* the largest Decimal

NoPrice == -1

ASSUME PolicyConstants ==
  /\ RuntimeMode \in {"certification", "live"}
  /\ MaxQuantity \in Nat /\ MaxNotional \in Nat /\ MaxDecimal \in Nat

Modes == {"inspect", "dry_run", "certification", "live"}

\* Tags an order schema fills itself, and tags the session fills itself: an
\* extra tag of an order may be one of the latter only.
PlannerTags == {1, 8, 9, 10, 11, 21, 34, 35, 38, 40, 41, 44, 49, 52, 54, 55,
                56, 58, 59, 60, 1151, 200}
SessionTags == {8, 9, 10, 11, 34, 35, 43, 49, 52, 56, 60, 122}

IsOrder(command) == command.type \in {"new_order_single", "replace_order"}
IsApplication(command) == IsOrder(command) \/ command.type = "cancel_order"

\* The code of the first check that fails, "none" if all hold.
FirstError(checks) ==
  LET failing == {i \in DOMAIN checks : checks[i][1]}
  IN  IF failing = {} THEN "none"
      ELSE checks[CHOOSE i \in failing : \A k \in failing : i <= k][2]

\* validate_envelope.
EnvelopeError(r) == FirstError(<<
  <<r.version # 1, "SCHEMA_VERSION_UNSUPPORTED">>,
  <<r.profile # Profile, "PROFILE_NOT_FOUND">>,
  <<~r.legal_id, "INVALID_REQUEST">>,
  <<r.mode = "live", "LIVE_GUARD_NOT_ARMED">>,
  <<r.mode = "certification" /\ RuntimeMode # "certification", "POLICY_DENIED">> >>)

\* Mutant: the price alone is compared with the notional limit.
OrderErrorByPrice(o) == FirstError(<<
  <<o.quantity <= 0, "INVALID_REQUEST">>,
  <<o.quantity > MaxQuantity, "POLICY_DENIED">>,
  <<o.price # NoPrice /\ o.price <= 0, "INVALID_REQUEST">>,
  <<o.price = NoPrice /\ o.order_type = "limit", "INVALID_REQUEST">>,
  <<o.price > MaxNotional, "POLICY_DENIED">> >>)

\* validate_order.  A market order needs no price, and without one there is
\* no notional to check; the policy on market orders is not looked at.
OrderError(o) == FirstError(<<
  <<o.quantity <= 0, "INVALID_REQUEST">>,
  <<o.quantity > MaxQuantity, "POLICY_DENIED">>,
  <<o.price # NoPrice /\ o.price <= 0, "INVALID_REQUEST">>,
  <<o.price = NoPrice /\ o.order_type = "limit", "INVALID_REQUEST">>,
  <<o.quantity * o.price > MaxDecimal, "INVALID_REQUEST">>,
  <<o.quantity * o.price > MaxNotional, "POLICY_DENIED">> >>)

\* The checks of plan that depend on the command.
CommandError(r) ==
  LET c == r.command
  IN  CASE c.type = "session_logout" ->
             FirstError(<< <<r.mode # "certification", "INVALID_REQUEST">> >>)
        [] c.type = "cancel_order" ->
             FirstError(<< <<c.targets # 1, "INVALID_REQUEST">> >>)
        [] c.type = "replace_order" -> OrderError(c)
        [] c.type = "new_order_single" ->
             IF OrderError(c) # "none" THEN OrderError(c)
             ELSE FirstError(<< <<c.extra_tags \cap PlannerTags # {}, "INVALID_REQUEST">> >>)
        [] OTHER -> "none"

\* plan: the code of the error, "none" if the command is planned.
PlanError(r) == IF EnvelopeError(r) # "none" THEN EnvelopeError(r) ELSE CommandError(r)

\* The fingerprint covers the mode and every field, not the request id.
Fingerprint(r) == <<r.mode, r.command>>

\* submit_application: an extra tag that only the session knows as its own.
SessionRefuses(command) ==
  command.type = "new_order_single" /\ command.extra_tags \cap SessionTags # {}
=============================================================================
