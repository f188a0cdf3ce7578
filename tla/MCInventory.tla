----------------------------- MODULE MCInventory -----------------------------
(***************************************************************************)
(* Small instances of InventoryService: two gunicorn threads, one product  *)
(* in two warehouses, and the plans the business services make.            *)
(***************************************************************************)
EXTENDS InventoryService

CONSTANTS w1, w2,   \* warehouses
          item      \* the product

East == <<w1, item>>
West == <<w2, item>>

Call(kind, row, qty) == [kind |-> kind, row |-> row, qty |-> qty]

\* execute_receipt, one line per warehouse of the order.
Receive == << Call("change", East, 2), Call("change", West, 1) >>
\* adjust: a manual correction of one row, listed the other way round.
Correct == << Call("change", West, 1), Call("change", East, -1) >>
\* allocate_order and cancel_order of an order with one item per warehouse.
Allocate == << Call("reserve", West, 1), Call("reserve", East, 1) >>
Release  == << Call("release", West, 1), Call("release", East, 1) >>
\* complete_order of an outbound from the first warehouse.
Ship == << Call("ship", East, 1) >>
\* start_order of a transfer out of the first warehouse.
Move == << Call("change", East, -1) >>

\* complete_stocktake of the second warehouse, one piece more than booked.
Gain == << Call("change", West, 1) >>

AllPlans      == {Receive, Allocate, Release, Ship, Move}
ChangePlans   == {Receive, Correct, Move, Gain}
MixedPlans    == {Receive, Ship, Gain}
=============================================================================
