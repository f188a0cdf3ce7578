------------------------- MODULE WarehouseDocuments -------------------------
(***************************************************************************)
(* Transfers and stocktakes at work on the same stock: goods come and go   *)
(* while they are being counted.                                           *)
(***************************************************************************)
EXTENDS StockRow, FiniteSets, Functions

CONSTANTS Warehouses,
          Initial,            \* current_qty of each warehouse at the start
          Quantities, Counts, \* what a transfer may carry, what a counter may enter
          Modest,             \* bound: what a transfer carries where none overlap
          Users,
          Approvals,          \* whether transfers and stocktakes need approval
          Carriers, CarrierRequests, CarrierRacing, MaxTransfers,
          Counters, CounterRequests, CounterRacing, MaxStocktakes, MaxLines,
          NoUser, NoPlace

ASSUME InitialAssumption ==
  /\ IsFiniteSet(Warehouses) /\ Carriers # {}
  /\ Initial \in [Warehouses -> Nat]

VARIABLES
  transfers,    \* the transfers in the order they were made
  stocktakes,   \* the stocktakes in the order they were made
  stock,        \* the stock position of every warehouse
  carrying,     \* the requests about transfers being served
  counting,     \* the requests about stocktakes being served
  overlapping   \* whether requests about transfers overlap

vars == <<transfers, stocktakes, stock, carrying, counting, overlapping>>

T == INSTANCE Transfers
       WITH Workers <- Carriers, Requests <- CarrierRequests, Racing <- CarrierRacing,
            job <- carrying

S == INSTANCE Stocktakes
       WITH Workers <- Counters, Requests <- CounterRequests, Racing <- CounterRacing,
            job <- counting

ASSUME DocumentsAssumption == T!TransfersAssumption /\ S!StocktakesAssumption

Init ==
  /\ T!Init
  /\ S!Init
  /\ stock = [r \in Warehouses |-> [NoPosition EXCEPT !.exists = Initial[r] > 0,
                                                      !.current = Initial[r]]]
  /\ overlapping \in BOOLEAN

Carrier == CHOOSE w \in Carriers : TRUE

\* Bounds where none overlap: transfers carry little, and need approval.
Bounded ==
  \A n \in DOMAIN transfers :
    /\ transfers[n].qty \in Modest
    /\ transfers[n].approver \notin Users \cap {transfers[n].submitter}

Transfer ==
  /\ \E w \in IF overlapping THEN Carriers ELSE {Carrier} : T!TransferStep(w)
  /\ overlapping \/ Bounded'
  /\ UNCHANGED <<stocktakes, counting, overlapping>>

\* A bound: what is counted while transfers overlap is left out.
Count == ~ overlapping /\ S!Next /\ UNCHANGED <<transfers, carrying, overlapping>>

Next == Transfer \/ Count

Spec == Init /\ [][Next]_vars

-----------------------------------------------------------------------------

\* Type invariant.
TypeOK ==
  /\ stock \in [Warehouses -> Positions]
  /\ T!TypeOK
  /\ S!TypeOK
  /\ overlapping \in BOOLEAN

\* What was counted stands once it was submitted (see Stocktakes).
CountsStand == S!CountsStand

(***************************************************************************)
(* Each stocktake takes its lines from the books once, and is posted to    *)
(* them once (see Stocktakes).                                             *)
(***************************************************************************)
CountedOnce == S!BookedOnce /\ S!PostedOnce

(***************************************************************************)
(* Transfers make no goods: what is in the warehouses and in transit is at *)
(* most what there was and what stocktakes found.                          *)
(***************************************************************************)
NothingFromNothing ==
  SumFunction([r \in Warehouses |-> stock[r].current + T!Out(r, {"IN_TRANSIT"})])
    <= SumFunction([r \in Warehouses |-> Initial[r] + S!NetCounted(r)])

(***************************************************************************)
(* The documents explain the stock.  Whatever stale statuses are written,  *)
(* goods that enter a warehouse have left another; and where transfers do  *)
(* not overlap, a warehouse holds what it held, what transfers brought in  *)
(* and took out, and what stocktakes wrote: no transfer leaves, arrives or *)
(* comes back twice, and none that was cancelled in transit is lost.       *)
(***************************************************************************)
StockExplained ==
  /\ TypeOK
  /\ NothingFromNothing
  /\ ~ overlapping => \A r \in Warehouses :
       stock[r].current = Initial[r] + T!NetTransferred(r) + S!NetCounted(r)
=============================================================================
