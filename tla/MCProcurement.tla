---------------------------- MODULE MCProcurement ----------------------------
(***************************************************************************)
(* Small instances of Procurement: an order of two lines that may be       *)
(* received in parts and sent back in parts.                               *)
(***************************************************************************)
EXTENDS Procurement, TLC

CONSTANTS first,                 \* the order
          east, west             \* the warehouses

\* The lines: big is the elder.
big   == 1
small == 2

OneOrder == first :> {big, small}
TwoLines == {big, small}
Empty    == [r \in Warehouses |-> 0]

Of(b, s)   == big :> b @@ small :> s
SomePlans  == { Of(2, 1), Of(1, 1), Of(1, -1) }

OrderKinds   == {"create", "update", "submit", "approve", "reject", "cancel", "close"}
ReceiptKinds == {"create_receipt", "complete_receipt", "cancel_receipt"}
ReturnKinds  == {"create_return", "submit_return", "approve_return", "complete_return",
                 "cancel_return"}
FlowKinds    == OrderKinds \cup ReceiptKinds \cup ReturnKinds
\* Submitting, rejecting and closing write an order's status only, as approving does.
LineKinds    == (FlowKinds \cup ByHand) \ {"submit", "reject", "close"}

Flow == [kinds |-> FlowKinds,
         racing |-> {"update", "reject", "close", "create_receipt", "complete_receipt",
                     "complete_return"},
         warehouses |-> {east, west}, carts |-> {Of(2, 1), Of(1, 0)},
         quantities |-> {1, 2}, billing |-> FALSE,
         receipts |-> 3, returns |-> 2]

Overlap == [kinds |-> LineKinds, racing |-> LineKinds \ Deletions,
            warehouses |-> {east}, carts |-> {Of(1, 0)},
            quantities |-> {1}, billing |-> TRUE,
            receipts |-> 2, returns |-> 1]

FlowAndOverlap == {Flow, Overlap}

\* The workers are alike.
Alike == Permutations(Workers)
=============================================================================
