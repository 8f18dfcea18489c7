--------------------------- MODULE MCCarryAction ---------------------------
(***************************************************************************)
(* An instance of CarryAction for TLC: a live action of two orders, a      *)
(* simulated one of one order, an operator and an admin.                   *)
(***************************************************************************)
EXTENDS CarryAction, TLC

CONSTANTS operator, admin, pair, single

MCRoleOf == (operator :> "operator") @@ (admin :> "admin")

Order(size, price) == [size |-> size, price |-> price]

MCPlan ==
  (pair   :> [executable |-> TRUE, required |-> "admin", live |-> TRUE,
              orders |-> <<Order(1, 2), Order(1, 2)>>]) @@
  (single :> [executable |-> TRUE, required |-> "operator", live |-> FALSE,
              orders |-> <<Order(5, 1)>>])
=============================================================================
