\* Every kind of request, one of each component at a time; or transfers that overlap.
CONSTANTS
  east = east
  west = west
  NoUser = NoUser
  NoPlace = NoPlace
  Warehouses = {east, west}
  Initial <- OnHand
  Quantities = {1, 2}
  Modest = {1}
  Counts = {1, 2}
  Users = {u, v}
  Approvals = {TRUE, FALSE}
  Carriers = {a, b}
  CarrierRequests <- TransferKinds
  CarrierRacing <- Overlapping
  MaxTransfers = 1
  Counters = {c}
  CounterRequests <- StocktakeKinds
  CounterRacing = {}
  MaxStocktakes = 1
  MaxLines = 2
SPECIFICATION Spec
INVARIANTS CountedOnce StockExplained
PROPERTIES CountsStand
SYMMETRY Alike
CHECK_DEADLOCK FALSE
