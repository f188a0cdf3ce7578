\* Every kind of request, one at a time.
CONSTANTS
  first = first
  second = second
  east = east
  west = west
  big = big
  far = far
  small = small
  NoOrder = NoOrder
  NoItem = NoItem
  Orders = {first}
  Items = {big, far}
  Warehouses = {east, west}
  ItemsOf <- OneOrder
  RowOf <- Place
  Quantity <- Ordered
  Openings <- Ample
  Carts <- SomeCarts
  ManualQuantities = {1, 3}
  Mixes <- Anything
  Racing = {}
  RequiresAllocation = TRUE
  AutoBilling = {TRUE, FALSE}
  Workers = {a}
  MaxOutbounds = 2
SPECIFICATION Spec
INVARIANTS StatusIsTrue
PROPERTIES FinishedOrdersStay
CHECK_DEADLOCK FALSE
