\* Two orders: goods received, paid, returned, and the credit used or paid back.
CONSTANTS
  NoOrder = NoOrder
  Orders = {first, second}
  Opening = 1
  Amounts = {1, 2}
  Approval = {TRUE, FALSE}
  Partial = {TRUE, FALSE}
  Requests <- AllKinds
  Racing <- Harmless
  Workers = {a, b}
  MaxAccounts = 2
  MaxPayments = 1
  MaxNotes = 2
  MaxRefunds = 2
SPECIFICATION Spec
INVARIANTS SubLedgerSound PaymentsSettleOnce
PROPERTIES MovesAsTheLedger ExecutedStays
SYMMETRY Alike
CHECK_DEADLOCK FALSE
