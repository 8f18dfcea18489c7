------------------------- MODULE ApprovedExecution -------------------------
(***************************************************************************)
(* What the operator-approved workflows of the runtime promise, whatever   *)
(* the interleaving: nothing touches a venue without an order to execute,  *)
(* nothing is ordered without an approval, and an order is used only once. *)
(* TreasuryAction and CarryAction are shown to implement it.               *)
(***************************************************************************)
EXTENDS Naturals, Sequences

CONSTANT Actions

VARIABLES granted,    \* the actions an operator has approved
          orders,     \* the execution commands inserted: the action of each
          effects     \* per command, the executions that reached a venue

approvalVars == <<granted, orders, effects>>

ApprovalInit ==
  /\ granted = {}
  /\ orders = <<>>
  /\ effects = <<>>

Grant(a) ==
  /\ granted' = granted \cup {a}
  /\ UNCHANGED <<orders, effects>>

Order(a) ==
  /\ a \in granted
  /\ orders' = Append(orders, a)
  /\ effects' = Append(effects, 0)
  /\ UNCHANGED granted

Effect(n) ==
  /\ effects[n] = 0
  /\ effects' = [effects EXCEPT ![n] = 1]
  /\ UNCHANGED <<granted, orders>>

ApprovalNext ==
  \/ \E a \in Actions : Grant(a) \/ Order(a)
  \/ \E n \in DOMAIN orders : Effect(n)

ApprovalSpec == ApprovalInit /\ [][ApprovalNext]_approvalVars
=============================================================================
