\* Two concurrent requests, all four calls, and a product edit.
CONSTANTS
  w1 = w1
  w2 = w2
  item = item
  NoOwner = NoOwner
  Warehouses = {w1, w2}
  Products = {item}
  Workers = {a, b}
  Editors = {c}
  Plans <- AllPlans
  MaxMovements = 4
SPECIFICATION FairSpec
INVARIANTS TypeOK NeverOversold LedgerExplainsStock NumbersUnique
PROPERTIES Serializable TransactionsEnd
CHECK_DEADLOCK FALSE
