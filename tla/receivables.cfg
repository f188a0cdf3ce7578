\* One order, billed, paid, returned and refunded.
CONSTANTS
  near = near
  far = far
  NoOutbound = NoOutbound
  Outbounds = {near, far}
  Delivers <- Parts
  OnHand = 3
  Opening = 1
  Amounts = {1, 2}
  ReturnQuantities = {1, 2}
  AutoBilling = {TRUE, FALSE}
  Approval = {TRUE, FALSE}
  Partial = {TRUE, FALSE}
  Requests <- AllKinds
  Racing <- Harmless
  Workers = {a, b}
  MaxReturns = 2
  MaxReceipts = 1
  MaxRefunds = 2
  MaxReceivables = 4
SPECIFICATION Spec
INVARIANTS BalanceExplained MoneySettlesOnce BilledOnce GoodsReturnOnce
SYMMETRY Alike
CHECK_DEADLOCK FALSE
