\* Every kind but those by hand; the kinds that are harmless together overlap.
CONSTANTS
  first = first
  second = second
  east = east
  west = west
  big = big
  far = far
  small = small
  NoOrder = NoOrder
  NoItem = NoItem
  Orders = {first, second}
  Items = {big, far, small}
  Warehouses = {east, west}
  ItemsOf <- TwoOrders
  RowOf <- Place
  Quantity <- Ordered
  Openings <- Both
  Carts <- BothCarts
  ManualQuantities = {1, 3}
  Mixes <- Flow
  Racing = {"submit", "approve", "reject", "close", "submit_outbound", "complete"}
  RequiresAllocation = TRUE
  AutoBilling = {TRUE, FALSE}
  Workers = {a, b}
  MaxOutbounds = 3
SPECIFICATION Spec
INVARIANTS GoodsLeaveOnce WithinOrdered StockSound
PROPERTIES OutboundLifecycle
CHECK_DEADLOCK FALSE
