----------------------------- MODULE MCPayables -----------------------------
(***************************************************************************)
(* A small instance of Payables: two purchase orders of one supplier.      *)
(***************************************************************************)
EXTENDS Payables, TLC

PaymentKinds == {"create_payment", "submit_payment", "approve_payment", "execute_payment",
                 "allocate"}
RefundKinds  == {"create_refund", "submit_refund", "approve_refund", "execute_refund"}
AllKinds     == PaymentKinds \cup RefundKinds \cup {"receive", "return"}

\* What stays right beside anything: the others are served alone.
Harmless     == AllKinds \ {"submit_payment", "create_refund"}

\* The orders are alike, and so are the workers.
Alike == Permutations(Orders) \cup Permutations(Workers)
=============================================================================
