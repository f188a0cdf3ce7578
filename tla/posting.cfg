\* Documents executed, edited and posted while periods are closed and opened.
CONSTANTS
  goods = goods
  payment = payment
  NoDocument = NoDocument
  Documents = {goods, payment}
  EventOf <- Kinds
  Amount <- Sums
  DatedByUser = {payment}
  Months = {1, 2}
  AutoPosting = {TRUE, FALSE}
  Edited = {"cash"}
  Requests <- AllKinds
  Racing <- Harmless
  Threads = {a, b}
SPECIFICATION FairPosting
INVARIANTS PostedOnce NotOvertaken
PROPERTIES ClosedTakesNothing BooksKept ExecutionsEnd
CHECK_DEADLOCK FALSE
