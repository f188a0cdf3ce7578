\* Two concurrent requests one of which may ship, no product edits.
CONSTANTS
  w1 = w1
  w2 = w2
  item = item
  NoOwner = NoOwner
  Warehouses = {w1, w2}
  Products = {item}
  Workers = {a, b}
  Editors = {}
  Plans <- MixedPlans
  MaxMovements = 6
SPECIFICATION Spec
INVARIANTS CacheFresh
CHECK_DEADLOCK FALSE
