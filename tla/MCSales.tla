------------------------------- MODULE MCSales -------------------------------
(***************************************************************************)
(* Small instances of SalesFulfilment: an order with a line in each of two *)
(* warehouses and an order competing for the first of them.                *)
(***************************************************************************)
EXTENDS SalesFulfilment

CONSTANTS first, second,         \* the orders
          east, west,            \* the warehouses
          big, far, small        \* the lines

OneOrder  == first :> <<big, far>>
TwoOrders == first :> <<big, far>> @@ second :> <<small>>
Place     == [i \in Items |-> IF i = far THEN west ELSE east]
Ordered   == [i \in Items |-> IF i = big THEN 2 ELSE 1]
OnHand    == east :> 4 @@ west :> 2
Scarce    == east :> 2 @@ west :> 1
Ample     == {OnHand}
Both      == {OnHand, Scarce}

Line(i, q) == [item |-> i, qty |-> q]

\* The whole order, part of it, and the order competing.
SomeCarts == { << Line(big, 2), Line(far, 1) >>, << Line(big, 1) >> }
BothCarts == SomeCarts \cup { << Line(small, 1) >> }

OrderKinds    == {"create", "submit", "approve", "reject", "allocate", "update",
                  "create_outbound", "cancel", "close"}
OutboundKinds == {"submit_outbound", "approve_outbound", "cancel_outbound", "complete"}
Deletions     == {"destroy", "destroy_outbound"}

FlowKinds == OrderKinds \cup OutboundKinds
HandKinds == FlowKinds \cup {"manual"}
AllKinds  == HandKinds \cup Deletions
EditKinds == HandKinds \cup {"edit_outbound"}

Flow      == {FlowKinds}
Anything  == {AllKinds, EditKinds}
=============================================================================
