----------------------------- MODULE MCPosting -----------------------------
(***************************************************************************)
(* A small instance of Posting: a receipt of goods and its payment.        *)
(***************************************************************************)
EXTENDS Posting, TLC

CONSTANTS goods, payment   \* the documents

Kinds == goods :> "PURCHASE_RECEIPT" @@ payment :> "AP_PAYMENT"
Sums  == goods :> 2 @@ payment :> 1

AllKinds == {"edit", "execute", "close_period", "open_period", "edit_period",
             "create_period", "destroy_period", "edit_subject"}

\* What stays right beside anything: a period is edited alone.
Harmless == AllKinds \ {"edit_period"}
=============================================================================
