---------------------------- MODULE MCReceivables ----------------------------
(***************************************************************************)
(* A small instance of Receivables: an order delivered in two parts.       *)
(***************************************************************************)
EXTENDS Receivables, TLC

CONSTANTS near, far   \* the outbound orders

Parts == near :> 2 @@ far :> 1

MoneyKinds  == {"create_receipt", "approve_receipt", "execute_receipt", "write_off",
                "create_refund", "submit_refund", "approve_refund", "execute_refund"}
ReturnKinds == {"create_return", "submit_return", "approve_return", "cancel_return",
                "complete_return"}
AllKinds    == MoneyKinds \cup ReturnKinds \cup {"deliver", "generate"}

\* What stays right beside anything: the others are served alone.
Harmless    == MoneyKinds \cup {"deliver", "complete_return"}

\* The workers are alike.
Alike == Permutations(Workers)
=============================================================================
