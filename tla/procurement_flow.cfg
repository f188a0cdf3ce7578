\* The documented flow, where only what is harmless together overlaps; and every kind but three
\* that only write a status, those by hand and deletions too, where all overlap.
CONSTANTS
  first = first
  east = east
  west = west
  NoOrder = NoOrder
  NoPlace = NoPlace
  Orders = {first}
  Items <- TwoLines
  Warehouses = {east, west}
  ItemsOf <- OneOrder
  Plans <- SomePlans
  Initial <- Empty
  Mixes <- FlowAndOverlap
  Workers = {a, b}
SPECIFICATION Spec
INVARIANTS GoodsMoveOnce QuantitiesFit StatusTellsReceipts LinesFollowGoods
SYMMETRY Alike
CHECK_DEADLOCK FALSE
