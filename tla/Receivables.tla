----------------------------- MODULE Receivables -----------------------------
(***************************************************************************)
(* What one customer owes for one sales order: ARService, the sales        *)
(* returns of SalesReturnService that turn goods back into credit, and the *)
(* cash account both use.                                                  *)
(*                                                                         *)
(* The order has one line and its goods cost one unit of money apiece, so  *)
(* quantities are amounts.  The outbound orders of SalesFulfilment are     *)
(* seen from here as deliveries, each completed once.                      *)
(*                                                                         *)
(* Receipts, refunds and write-offs are handled under row locks and are    *)
(* one step each.  generate_ar_from_order, and the methods of sales        *)
(* returns, test first what they write later: those are two steps, and     *)
(* complete_order holds the lock of its return in between.  Who acts is    *)
(* left out: a rule that two steps need two people only picks the people.  *)
(***************************************************************************)
EXTENDS StockRow, FiniteSets, Functions

CONSTANTS Outbounds,         \* the outbound orders of the sales order
          Delivers,          \* the quantity of each
          OnHand,            \* current_qty of the warehouse before them
          Opening,           \* current_balance of the cash account
          Amounts,           \* amounts of receipts and of write-offs
          ReturnQuantities,
          AutoBilling, Approval, Partial,   \* values the settings of the policies may have
          Requests, Racing,  \* the kinds of request, and those that may overlap
          Workers,
          MaxReturns, MaxReceipts, MaxRefunds,   \* bounds: rows ever made
          MaxReceivables,
          NoOutbound

ASSUME ReceivablesAssumption ==
  /\ IsFiniteSet(Outbounds) /\ Delivers \in [Outbounds -> Nat \ {0}]
  /\ NoOutbound \notin Outbounds
  /\ OnHand \in Nat /\ Opening \in Nat
  /\ Amounts \cup ReturnQuantities \subseteq Nat \ {0}
  /\ AutoBilling \cup Approval \cup Partial \subseteq BOOLEAN
  /\ Racing \subseteq Requests

VARIABLES
  delivered,     \* the outbound orders that are COMPLETED
  receivables,   \* the Receivable rows in the order they were made
  receipts,      \* the Receipt rows
  refunds,       \* the CustomerRefund rows
  returns,       \* the SalesReturnOrder rows
  balance,       \* Customer.current_balance
  cash,          \* CashAccount.current_balance
  stock,         \* the stock position returned goods enter
  job            \* the request each worker is serving

books == <<receivables, balance>>
vars == <<delivered, receivables, receipts, refunds, returns, balance, cash, stock, job>>

Idle == [kind |-> "idle", number |-> 0, qty |-> 0]

\* The request may be served beside those under way.
MayStart(w, kind) ==
  /\ kind \in Requests
  /\ job[w] = Idle
  /\ \A v \in Workers \ {w} :
       job[v] = Idle \/ (kind \in Racing /\ job[v].kind \in Racing)

Begin(w, kind, n, qty) ==
  job' = [job EXCEPT ![w] = [kind |-> kind, number |-> n, qty |-> qty]]

Done(w) == job' = [job EXCEPT ![w] = Idle]

Total(s, amount(_)) == SumFunction([i \in DOMAIN s |-> amount(s[i])])

\* Receivable.balance: what is still to be paid, by either side.
Balance(r) == (IF r.amount >= 0 THEN r.amount ELSE - r.amount) - r.written

Bill(source, outbound, amount) ==
  [source |-> source, outbound |-> outbound, amount |-> amount, written |-> 0]

Init ==
  /\ delivered = {}
  /\ receivables = << >> /\ receipts = << >> /\ refunds = << >> /\ returns = << >>
  /\ balance = 0
  /\ cash = Opening
  /\ stock = [NoPosition EXCEPT !.exists = OnHand > 0, !.current = OnHand]
  /\ job = [w \in Workers |-> Idle]

-----------------------------------------------------------------------------
(* Billing. *)

ShippedQuantity == SumFunction([o \in delivered |-> Delivers[o]])

\* generate_ar_from_outbound, called by complete_order.
BillsOutbound(o) ==
  /\ receivables' = Append(receivables, Bill("OUTBOUND_ORDER", o, Delivers[o]))
  /\ balance' = balance + Delivers[o]

\* OutboundService.complete_order, which bills what has left where that is automatic.
CompleteOutbound(w, o, auto) ==
  /\ MayStart(w, "deliver")
  /\ o \notin delivered
  /\ Accepts([kind |-> "ship", qty |-> Delivers[o]], stock)
  /\ delivered' = delivered \cup {o}
  /\ stock' = ShipStock(stock, Delivers[o])
  /\ IF auto /\ ~ \E i \in DOMAIN receivables : receivables[i].outbound = o
     THEN Len(receivables) < MaxReceivables /\ BillsOutbound(o)
     ELSE UNCHANGED books
  /\ UNCHANGED <<receipts, refunds, returns, cash, job>>

\* Mutation of Unbilled: only the order's own receivable counts.
NoOrderBill == ~ \E i \in DOMAIN receivables : receivables[i].source = "SALES_ORDER"

\* No receivable of the order, of whatever source.
Unbilled == receivables = << >>

\* generate_ar_from_order, the tests: SHIPPED or CLOSED, and not billed yet.
LoadBilling(w) ==
  /\ MayStart(w, "generate")
  /\ delivered = Outbounds
  /\ Unbilled
  /\ Begin(w, "generate", 0, 0)
  /\ UNCHANGED <<delivered, books, receipts, refunds, returns, cash, stock>>

\* The rest of it.  The number is read and used here: a receivable made since
\* the tests has a number of its own, and does not get in the way.
GenerateFromOrder(w) ==
  LET amount == SumFunction(Delivers) IN
  /\ job[w].kind = "generate"
  /\ Len(receivables) < MaxReceivables
  /\ receivables' = Append(receivables, Bill("SALES_ORDER", NoOutbound, amount))
  /\ balance' = balance + amount
  /\ Done(w)
  /\ UNCHANGED <<delivered, receipts, refunds, returns, cash, stock>>

-----------------------------------------------------------------------------
(* Sales returns. *)

ReturnStatus == {"DRAFT", "PENDING_APPROVAL", "APPROVED", "COMPLETED", "CANCELLED"}

\* STATUS_TRANSITIONS of SalesReturnOrder: what may still be cancelled.
Open == {"DRAFT", "PENDING_APPROVAL", "APPROVED"}

\* What has come back with completed returns other than n.
CompletedOnly(n) ==
  SumFunction([i \in DOMAIN returns |->
                 IF i # n /\ returns[i].status = "COMPLETED" THEN returns[i].qty ELSE 0])

\* What the returns other than n that are not cancelled ask for.
Occupied(n) ==
  SumFunction([i \in DOMAIN returns |->
                 IF i # n /\ returns[i].status # "CANCELLED" THEN returns[i].qty ELSE 0])

\* _validate_return_quantities.
Returnable(n, qty) == qty <= ShippedQuantity - Occupied(n)

\* Mutation of ReturnFree: the row is read without a lock.
ReturnUnlocked(n) == TRUE

\* complete_order locks its return; a save of the row waits for it.
ReturnFree(n) == \A v \in Workers : job[v].kind = "complete_return" => job[v].number # n

CheckReturn(w, qty) ==
  /\ MayStart(w, "create_return")
  /\ Len(returns) < MaxReturns
  /\ Returnable(0, qty)
  /\ Begin(w, "create_return", 0, qty)
  /\ UNCHANGED <<delivered, books, receipts, refunds, returns, cash, stock>>

CreateReturn(w) ==
  /\ job[w].kind = "create_return"
  /\ Len(returns) < MaxReturns
  /\ returns' = Append(returns, [qty |-> job[w].qty, status |-> "DRAFT"])
  /\ Done(w)
  /\ UNCHANGED <<delivered, books, receipts, refunds, cash, stock>>

\* get_object, and the tests of the method on the object: these decide.
ReturnReady(kind, n) ==
  \/ kind = "submit_return" /\ returns[n].status = "DRAFT" /\ Returnable(n, returns[n].qty)
  \/ kind = "approve_return" /\ returns[n].status = "PENDING_APPROVAL"
  \/ kind = "cancel_return" /\ returns[n].status \in Open

LoadReturn(w, kind, n) ==
  /\ MayStart(w, kind)
  /\ ReturnReady(kind, n)
  /\ Begin(w, kind, n, 0)
  /\ UNCHANGED <<delivered, books, receipts, refunds, returns, cash, stock>>

\* submit_order, approve_order and cancel_order write the status they decided.
WriteReturn(w, kind, status) ==
  /\ job[w].kind = kind
  /\ ReturnFree(job[w].number)
  /\ returns' = [returns EXCEPT ![job[w].number].status = status]
  /\ Done(w)
  /\ UNCHANGED <<delivered, books, receipts, refunds, cash, stock>>

SubmitReturn(w, approval) ==
  WriteReturn(w, "submit_return", IF approval THEN "PENDING_APPROVAL" ELSE "APPROVED")

ApproveReturn(w) == WriteReturn(w, "approve_return", "APPROVED")

CancelReturn(w) == WriteReturn(w, "cancel_return", "CANCELLED")

\* complete_order: the row is locked, read again and measured.
LockReturn(w, n) ==
  /\ MayStart(w, "complete_return")
  /\ ReturnFree(n)
  /\ returns[n].status = "APPROVED"
  /\ Returnable(n, returns[n].qty)
  /\ Begin(w, "complete_return", n, returns[n].qty)
  /\ UNCHANGED <<delivered, books, receipts, refunds, returns, cash, stock>>

Adjustable(i) == AtLeastZero(receivables[i].amount - receivables[i].written)

\* Mutation of Offset: every receivable is lowered by the whole return.
OffsetEach(i, qty) == IF Adjustable(i) < qty THEN Adjustable(i) ELSE qty

\* What reverse_ar_for_sales_return takes off the i-th receivable: oldest first.
Offset(i, qty) ==
  LET left == AtLeastZero(qty - SumFunction([j \in 1 .. (i - 1) |-> Adjustable(j)]))
  IN  IF Adjustable(i) < left THEN Adjustable(i) ELSE left

\* reverse_ar_for_sales_return: what nothing was left to take off is refunded.
ReversesReceivables(qty) ==
  LET lowered == [i \in DOMAIN receivables |->
                    [receivables[i] EXCEPT !.amount = @ - Offset(i, qty)]]
      rest    == qty - SumFunction([i \in DOMAIN receivables |-> Offset(i, qty)])
  IN  /\ balance' = balance - qty
      /\ IF rest > 0
         THEN /\ Len(receivables) < MaxReceivables /\ Len(refunds) < MaxRefunds
              /\ receivables' = Append(lowered, Bill("SALES_RETURN", NoOutbound, - rest))
              /\ refunds' = Append(refunds, [receivable |-> Len(receivables) + 1,
                                             amount |-> rest, status |-> "DRAFT",
                                             account |-> FALSE])
         ELSE receivables' = lowered /\ UNCHANGED refunds

\* The rest of complete_order: the allocation to order lines, the stock, the books.
CompleteReturn(w) ==
  LET n == job[w].number IN
  /\ job[w].kind = "complete_return"
  /\ job[w].qty <= ShippedQuantity - CompletedOnly(n)
  /\ stock' = ChangeStock(stock, job[w].qty)
  /\ ReversesReceivables(job[w].qty)
  /\ returns' = [returns EXCEPT ![n].status = "COMPLETED"]
  /\ Done(w)
  /\ UNCHANGED <<delivered, receipts, cash>>

\* A check of the method fails after it has begun: nothing is kept.
Abort(w) ==
  /\ job[w] # Idle
  /\ Done(w)
  /\ UNCHANGED <<delivered, books, receipts, refunds, returns, cash, stock>>

-----------------------------------------------------------------------------
(* Receipts and write-offs. *)

\* A receipt that is approved and not fully written off.
Usable(r) == r.approved /\ r.unwritten > 0

\* create_receipt: approved at once where the policy asks for no approval.
CreateReceipt(w, amount, approval, account) ==
  /\ MayStart(w, "create_receipt")
  /\ Len(receipts) < MaxReceipts
  /\ receipts' = Append(receipts, [amount |-> amount, unwritten |-> amount,
                                   approved |-> ~ approval, executed |-> FALSE,
                                   account |-> account])
  /\ UNCHANGED <<delivered, books, refunds, returns, cash, stock, job>>

ApproveReceipt(w, n) ==
  /\ MayStart(w, "approve_receipt")
  /\ ~ receipts[n].approved
  /\ receipts' = [receipts EXCEPT ![n].approved = TRUE]
  /\ UNCHANGED <<delivered, books, refunds, returns, cash, stock, job>>

\* execute_receipt: the money is in the account.
ExecuteReceipt(w, n) ==
  /\ MayStart(w, "execute_receipt")
  /\ receipts[n].approved
  /\ ~ receipts[n].executed
  /\ cash' = IF receipts[n].account THEN cash + receipts[n].amount ELSE cash
  /\ receipts' = [receipts EXCEPT ![n].executed = TRUE]
  /\ UNCHANGED <<delivered, books, refunds, returns, stock, job>>

\* Whether the receivable chosen is one of the customer's debts or a red one.
WriteOffKind(r) == IF r.amount >= 0 THEN "write_off" ELSE "write_off_red"

\* Mutation of WriteOff: the receipt is compared with its whole amount.
WriteOffWhole(w, i, n, amount, partial) ==
  /\ MayStart(w, WriteOffKind(receivables[i]))
  /\ Usable(receipts[n])
  /\ Balance(receivables[i]) >= amount
  /\ receipts[n].amount >= amount
  /\ partial \/ Balance(receivables[i]) = amount
  /\ receivables' = [receivables EXCEPT ![i].written = @ + amount]
  /\ balance' = balance - amount
  /\ receipts' = [receipts EXCEPT ![n].unwritten = AtLeastZero(@ - amount)]
  /\ UNCHANGED <<delivered, refunds, returns, cash, stock, job>>

\* write_off: a receivable is settled with a receipt.
WriteOff(w, i, n, amount, partial) ==
  /\ MayStart(w, WriteOffKind(receivables[i]))
  /\ Usable(receipts[n])
  /\ Balance(receivables[i]) >= amount
  /\ receipts[n].unwritten >= amount
  /\ partial \/ Balance(receivables[i]) = amount
  /\ receivables' = [receivables EXCEPT ![i].written = @ + amount]
  /\ balance' = balance - amount
  /\ receipts' = [receipts EXCEPT ![n].unwritten = @ - amount]
  /\ UNCHANGED <<delivered, refunds, returns, cash, stock, job>>

-----------------------------------------------------------------------------
(* Customer refunds. *)

RefundStatus == {"DRAFT", "PENDING_APPROVAL", "APPROVED", "COMPLETED"}

\* create_customer_refund, from the endpoint: the whole balance, as often as asked.
CreateRefund(w, i) ==
  /\ MayStart(w, "create_refund")
  /\ Len(refunds) < MaxRefunds
  /\ receivables[i].amount < 0
  /\ Balance(receivables[i]) > 0
  /\ refunds' = Append(refunds, [receivable |-> i, amount |-> Balance(receivables[i]),
                                 status |-> "DRAFT", account |-> FALSE])
  /\ UNCHANGED <<delivered, books, receipts, returns, cash, stock, job>>

\* submit_customer_refund and approve_customer_refund.
MoveRefund(w, kind, n, from, to) ==
  /\ MayStart(w, kind)
  /\ refunds[n].status = from
  /\ refunds' = [refunds EXCEPT ![n].status = to]
  /\ UNCHANGED <<delivered, books, receipts, returns, cash, stock, job>>

SubmitRefund(w, n)  == MoveRefund(w, "submit_refund", n, "DRAFT", "PENDING_APPROVAL")
ApproveRefund(w, n) == MoveRefund(w, "approve_refund", n, "PENDING_APPROVAL", "APPROVED")

\* The balance of the red receivable, as it is now, covers the refund.
Refundable(n) == Balance(receivables[refunds[n].receivable]) >= refunds[n].amount

Affords(account, amount) == account => cash >= amount

\* execute_customer_refund: the money leaves the account, if one is named.
ExecuteRefund(w, n, account) ==
  LET amount == refunds[n].amount
      i      == refunds[n].receivable
  IN  /\ MayStart(w, "execute_refund")
      /\ refunds[n].status = "APPROVED"
      /\ Refundable(n)
      /\ Affords(account, amount)
      /\ cash' = IF account THEN cash - amount ELSE cash
      /\ receivables' = [receivables EXCEPT ![i].written = @ + amount]
      /\ balance' = balance + amount
      /\ refunds' = [refunds EXCEPT ![n].status = "COMPLETED", ![n].account = account]
      /\ UNCHANGED <<delivered, receipts, returns, stock, job>>

-----------------------------------------------------------------------------

BillingStep(w) ==
  \/ \E o \in Outbounds, auto \in AutoBilling : CompleteOutbound(w, o, auto)
  \/ LoadBilling(w)
  \/ GenerateFromOrder(w)

ReturnStep(w) ==
  \/ \E qty \in ReturnQuantities : CheckReturn(w, qty)
  \/ CreateReturn(w)
  \/ \E n \in DOMAIN returns :
       \/ \E kind \in {"submit_return", "approve_return", "cancel_return"} :
            LoadReturn(w, kind, n)
       \/ LockReturn(w, n)
  \/ \E approval \in Approval : SubmitReturn(w, approval)
  \/ ApproveReturn(w)
  \/ CancelReturn(w)
  \/ CompleteReturn(w)
  \/ Abort(w)

MoneyStep(w) ==
  \/ \E amount \in Amounts, approval \in Approval, account \in BOOLEAN :
       CreateReceipt(w, amount, approval, account)
  \/ \E n \in DOMAIN receipts :
       \/ ApproveReceipt(w, n)
       \/ ExecuteReceipt(w, n)
       \/ \E i \in DOMAIN receivables, amount \in Amounts, partial \in Partial :
            WriteOff(w, i, n, amount, partial)
  \/ \E i \in DOMAIN receivables : CreateRefund(w, i)
  \/ \E n \in DOMAIN refunds :
       \/ SubmitRefund(w, n)
       \/ ApproveRefund(w, n)
       \/ \E account \in BOOLEAN : ExecuteRefund(w, n, account)

Next == \E w \in Workers : BillingStep(w) \/ ReturnStep(w) \/ MoneyStep(w)

Spec == Init /\ [][Next]_vars

-----------------------------------------------------------------------------

\* Type invariant.
TypeOK ==
  /\ delivered \subseteq Outbounds
  /\ \A i \in DOMAIN receivables :
       /\ receivables[i].outbound \in Outbounds \cup {NoOutbound}
       /\ receivables[i].amount \in Int
       /\ receivables[i].written \in Nat
  /\ \A n \in DOMAIN receipts :
       receipts[n] \in [amount : Amounts, unwritten : Nat, approved : BOOLEAN,
                        executed : BOOLEAN, account : BOOLEAN]
  /\ \A n \in DOMAIN refunds :
       refunds[n] \in [receivable : DOMAIN receivables, amount : Nat \ {0},
                       status : RefundStatus, account : BOOLEAN]
  /\ \A n \in DOMAIN returns :
       returns[n] \in [qty : ReturnQuantities, status : ReturnStatus]
  /\ balance \in Int
  /\ cash \in Nat
  /\ stock \in Positions

ReturnedQuantity == CompletedOnly(0)

(***************************************************************************)
(* Customer.current_balance is what the receivables leave to be paid: what *)
(* the customer owes less what is owed to the customer.  Every method      *)
(* moves it by a difference of its own; nothing recounts it.               *)
(***************************************************************************)
BalanceExplained ==
  balance = Total(receivables, LAMBDA r : IF r.amount >= 0 THEN Balance(r) ELSE - Balance(r))

(***************************************************************************)
(* No receivable is paid, and no red one refunded, beyond its amount, even *)
(* where returns lower it while it is being paid and several refunds are   *)
(* made for one red receivable.                                            *)
(***************************************************************************)
NeverOverpaid == \A i \in DOMAIN receivables : Balance(receivables[i]) >= 0

(***************************************************************************)
(* Each unit of money settles one thing: what is written off receivables   *)
(* is what is used of receipts and what refunds have paid.                 *)
(***************************************************************************)
MoneyUsedOnce ==
  Total(receivables, LAMBDA r : r.written) =
    Total(receipts, LAMBDA r : r.amount - r.unwritten)
    + Total(refunds, LAMBDA r : IF r.status = "COMPLETED" THEN r.amount ELSE 0)

(***************************************************************************)
(* The cash account holds what it held, what executed receipts brought and *)
(* less what refunds took, each once.                                      *)
(***************************************************************************)
CashExplained ==
  cash = Opening
    + Total(receipts, LAMBDA r : IF r.executed /\ r.account THEN r.amount ELSE 0)
    - Total(refunds, LAMBDA r : IF r.status = "COMPLETED" /\ r.account
                                THEN r.amount ELSE 0)

(***************************************************************************)
(* Goods are billed once: the receivables, with what returns took off them *)
(* added again, never ask for more than was delivered.                     *)
(***************************************************************************)
BilledOnce == Total(receivables, LAMBDA r : r.amount) + ReturnedQuantity <= ShippedQuantity

(***************************************************************************)
(* The returns that have come back are in the warehouse once each, and are *)
(* no more than what was delivered.                                        *)
(***************************************************************************)
ReturnedOnce ==
  /\ ReturnedQuantity <= ShippedQuantity
  /\ stock.current = OnHand - ShippedQuantity + ReturnedQuantity

(***************************************************************************)
(* The returns that are open or complete can all be completed.             *)
(***************************************************************************)
ReturnsFit == Total(returns, LAMBDA r : IF r.status = "CANCELLED" THEN 0 ELSE r.qty)
                <= ShippedQuantity

(***************************************************************************)
(* Money settles once: what is paid, refunded and held in cash adds up,    *)
(* and no receivable is paid beyond its amount.                            *)
(***************************************************************************)
MoneySettlesOnce == TypeOK /\ MoneyUsedOnce /\ NeverOverpaid /\ CashExplained

(***************************************************************************)
(* Goods come back once: the warehouse holds what the completed returns    *)
(* carry, and every return that is open can still be completed.            *)
(***************************************************************************)
GoodsReturnOnce == ReturnedOnce /\ ReturnsFit
=============================================================================
