----------------------------- MODULE Procurement -----------------------------
(***************************************************************************)
(* Purchase orders, the receipts that bring their goods in and the returns *)
(* that send them back: PurchaseOrderService and PurchaseReturnService.    *)
(*                                                                         *)
(* As in SalesFulfilment the view loads the document without a lock and    *)
(* the service method decides on that object; what a method reads without  *)
(* a lock is a step of its own.  What runs under locks until the commit is *)
(* one step: create_receipt locks the lines of the order, execute_receipt  *)
(* the receipt, the order and its lines, and complete_order of a return    *)
(* the lines, after it has locked the return.                              *)
(*                                                                         *)
(* A request whose check fails changes nothing, and is no step here; the   *)
(* policy that forbids partial receipts only refuses more, and is left     *)
(* out.  There is one product, so an Inventory row is a warehouse.         *)
(***************************************************************************)
EXTENDS StockRow, FiniteSets, Functions

CONSTANTS Orders, Warehouses,
          Items,               \* the lines of orders, each by its id
          ItemsOf,             \* the lines of each order
          Plans,               \* the quantities the lines may be ordered in: neither
                               \* create_order nor update_order tests them
          Initial,             \* current_qty of each warehouse at the start
          Mixes,               \* what is tried together: the kinds of request, those that may
                               \* overlap with each other (racing), the warehouses, the
                               \* quantities asked for of each line of a receipt (carts) and
                               \* of a return, whether the policies bill a receipt when it is
                               \* executed (billing), and bounds on the rows ever made
                               \* (receipts, returns)
          Workers,
          NoOrder, NoPlace

OrderStatus ==
  {"NONE", "DRAFT", "PENDING_APPROVAL", "APPROVED", "REJECTED", "PARTIALLY_RECEIVED",
   "RECEIVED", "CLOSED", "CANCELLED"}

ReceiptStatus == {"DRAFT", "COMPLETED", "CANCELLED"}

ReturnStatus == {"DRAFT", "PENDING_APPROVAL", "APPROVED", "COMPLETED", "CANCELLED"}

Gone == "DELETED"

OrderLines == [quantity : Int, received : Int, returned : Int]

ASSUME PlansAssumption ==
  /\ Items \subseteq Nat /\ IsFiniteSet(Items) /\ IsFiniteSet(Warehouses)
  /\ ItemsOf \in [Orders -> (SUBSET Items) \ {{}}]
  /\ \A o, p \in Orders : o # p => ItemsOf[o] \cap ItemsOf[p] = {}
  /\ Plans \subseteq [Items -> Int]
  /\ Initial \in [Warehouses -> Nat]
  /\ NoOrder \notin Orders /\ NoPlace \notin Warehouses

\* Deletions overlap with nothing: a full save of a row deleted in the
\* meantime inserts it again, which is left out.
Deletions == {"destroy", "destroy_receipt", "destroy_return"}

\* The requests that no document describes, made through inherited views.
ByHand == Deletions \cup {"edit_receipt", "edit_return"}

ASSUME MixesAssumption ==
  \A m \in Mixes :
    /\ m.racing \subseteq m.kinds \ Deletions
    /\ m.warehouses \subseteq Warehouses
    /\ m.carts \subseteq [Items -> Nat]
    /\ m.quantities \subseteq Nat \ {0}
    /\ m.billing \in BOOLEAN

VARIABLES
  mix,        \* the member of Mixes this behaviour follows
  orders,     \* the status of every purchase order, NONE when it is not there
  items,      \* quantity, received_quantity and returned_quantity of every line
  receipts,   \* the receipts in the order they were made
  returns,    \* the purchase returns in the order they were made
  stock,      \* the stock position of every warehouse, movements left out
  job         \* the request each worker is serving and what it has read

vars == <<mix, orders, items, receipts, returns, stock, job>>

\* to is the status that will be written; a return is loaded with its
\* purchase order, its warehouse and its quantity.
Idle == [kind |-> "idle", phase |-> "idle", order |-> NoOrder, number |-> 0,
         to |-> "NONE", warehouse |-> NoPlace, qty |-> 0]

\* The request may be served beside those under way.
MayStart(w, kind) ==
  /\ kind \in mix.kinds
  /\ job[w] = Idle
  /\ \A v \in Workers \ {w} :
       job[v] = Idle \/ (kind \in mix.racing /\ job[v].kind \in mix.racing)

At(w, kind, phase) == job[w].kind = kind /\ job[w].phase = phase

Done(w) == job' = [job EXCEPT ![w] = Idle]

\* The quantity of item i on the receipts in one of the statuses.
OnReceipts(i, statuses) ==
  SumFunction([n \in DOMAIN receipts |->
                 IF receipts[n].status \in statuses THEN receipts[n].lines[i] ELSE 0])

\* The quantity on the returns of order o in one of the statuses, the return
\* n left out.
OnReturns(o, n, statuses) ==
  SumFunction([k \in DOMAIN returns |->
                 IF k # n /\ returns[k].order = o /\ returns[k].status \in statuses
                 THEN returns[k].qty ELSE 0])

\* What the lines of order o received.
ReceivedOf(o) == SumFunction([i \in ItemsOf[o] |-> items[i].received])

\* A completion holds the row of its return.
ReturnFree(w, n) ==
  \A v \in Workers \ {w} : ~ (job[v].kind = "complete_return" /\ job[v].number = n)

Init ==
  /\ mix \in Mixes
  /\ orders = [o \in Orders |-> "NONE"]
  /\ items = [i \in Items |-> [quantity |-> 0, received |-> 0, returned |-> 0]]
  /\ receipts = << >>
  /\ returns = << >>
  /\ stock = [r \in Warehouses |-> [NoPosition EXCEPT !.exists = TRUE, !.current = Initial[r]]]
  /\ job = [w \in Workers |-> Idle]

-----------------------------------------------------------------------------
(***************************************************************************)
(* Purchase orders.                                                        *)
(***************************************************************************)

\* STATUS_TRANSITIONS.
Transitions ==
  [DRAFT              |-> {"PENDING_APPROVAL", "APPROVED", "CANCELLED"},
   PENDING_APPROVAL   |-> {"APPROVED", "REJECTED", "CANCELLED"},
   APPROVED           |-> {"CANCELLED"},
   REJECTED           |-> {"DRAFT", "CANCELLED"},
   PARTIALLY_RECEIVED |-> {},
   RECEIVED           |-> {"CLOSED"},
   CLOSED             |-> {},
   CANCELLED          |-> {},
   NONE               |-> {}]

\* The status each method leads to; the policy decides where submit does.
Targets ==
  [submit  |-> {"PENDING_APPROVAL", "APPROVED"},
   approve |-> {"APPROVED"},
   reject  |-> {"REJECTED"},
   close   |-> {"CLOSED"},
   cancel  |-> {"CANCELLED"}]

FreshItems(o, plan) ==
  [i \in Items |-> IF i \in ItemsOf[o]
                   THEN [quantity |-> plan[i], received |-> 0, returned |-> 0]
                   ELSE items[i]]

\* No line of a receipt names a line of the order (PROTECT).
LinesFree(o) ==
  \A n \in DOMAIN receipts :
    receipts[n].status # Gone => \A i \in ItemsOf[o] : receipts[n].lines[i] = 0

\* Nothing refers to the order itself.
OrderUnreferenced(o) ==
  /\ \A n \in DOMAIN receipts : receipts[n].order = o => receipts[n].status = Gone
  /\ \A n \in DOMAIN returns  : returns[n].order = o => returns[n].status = Gone

CreateOrder(w, o, plan) ==
  /\ MayStart(w, "create")
  /\ orders[o] = "NONE"
  /\ orders' = [orders EXCEPT ![o] = "DRAFT"]
  /\ items' = FreshItems(o, plan)
  /\ UNCHANGED <<mix, receipts, returns, stock, job>>

\* The view deletes a draft and its lines.
DestroyOrder(w, o) ==
  /\ MayStart(w, "destroy")
  /\ orders[o] = "DRAFT"
  /\ OrderUnreferenced(o) /\ LinesFree(o)
  /\ orders' = [orders EXCEPT ![o] = "NONE"]
  /\ items' = FreshItems(o, [i \in Items |-> 0])
  /\ UNCHANGED <<mix, receipts, returns, stock, job>>

\* get_object, and the status test of the method on the object loaded.
LoadOrder(w, kind, o, to) ==
  /\ MayStart(w, kind)
  /\ to \in Transitions[orders[o]]
  /\ job' = [job EXCEPT ![w] = [Idle EXCEPT !.kind = kind, !.phase = "loaded",
                                            !.order = o, !.to = to]]
  /\ UNCHANGED <<mix, orders, items, receipts, returns, stock>>

\* The same for update_order, which leaves a draft behind.
LoadUpdate(w, o) ==
  /\ MayStart(w, "update")
  /\ orders[o] \in {"DRAFT", "REJECTED"}
  /\ job' = [job EXCEPT ![w] = [Idle EXCEPT !.kind = "update", !.phase = "loaded",
                                            !.order = o, !.to = "DRAFT"]]
  /\ UNCHANGED <<mix, orders, items, receipts, returns, stock>>

SetStatus(w) == orders' = [orders EXCEPT ![job[w].order] = job[w].to]

\* The status is written on the strength of the one that was loaded.
WriteStatus(w, kind) ==
  /\ At(w, kind, "loaded")
  /\ SetStatus(w)
  /\ Done(w)
  /\ UNCHANGED <<mix, items, receipts, returns, stock>>

SubmitOrder(w)  == WriteStatus(w, "submit")
ApproveOrder(w) == WriteStatus(w, "approve")
RejectOrder(w)  == WriteStatus(w, "reject")
CloseOrder(w)   == WriteStatus(w, "close")

NothingReceived(o) ==
  \A n \in DOMAIN receipts : receipts[n].order = o => receipts[n].status # "COMPLETED"

\* The unlocked check of update_order and cancel_order.
CheckReceived(w) ==
  /\ At(w, "update", "loaded") \/ At(w, "cancel", "loaded")
  /\ NothingReceived(job[w].order)
  /\ job' = [job EXCEPT ![w].phase = "checked"]
  /\ UNCHANGED <<mix, orders, items, receipts, returns, stock>>

\* The header is saved, its status a draft's.
UpdateHeader(w) ==
  /\ At(w, "update", "checked")
  /\ SetStatus(w)
  /\ Done(w)
  /\ UNCHANGED <<mix, items, receipts, returns, stock>>

\* Lines are sent too and replace the old ones, which nothing may refer to; a
\* receipt about to be made from the old ones fails.
UpdateLines(w, plan) ==
  LET o == job[w].order IN
  /\ At(w, "update", "checked")
  /\ LinesFree(o)
  /\ SetStatus(w)
  /\ items' = FreshItems(o, plan)
  /\ job' = [v \in Workers |->
               IF v = w \/ (job[v].kind = "create_receipt" /\ job[v].order = o)
               THEN Idle ELSE job[v]]
  /\ UNCHANGED <<mix, receipts, returns, stock>>

\* Mutation of DraftsCancelled: the receipts stay.
DraftsKept(o) == receipts

\* The receipts of o after its drafts have been cancelled.
DraftsCancelled(o) ==
  [n \in DOMAIN receipts |-> IF receipts[n].order = o /\ receipts[n].status = "DRAFT"
                             THEN [receipts[n] EXCEPT !.status = "CANCELLED"]
                             ELSE receipts[n]]

CancelOrder(w) ==
  /\ At(w, "cancel", "checked")
  /\ receipts' = DraftsCancelled(job[w].order)
  /\ SetStatus(w)
  /\ Done(w)
  /\ UNCHANGED <<mix, items, returns, stock>>

-----------------------------------------------------------------------------
(***************************************************************************)
(* Receipts.                                                               *)
(***************************************************************************)

\* The view loads the order, and with it the status the service relies on.
StartReceipt(w, o) ==
  /\ MayStart(w, "create_receipt")
  /\ orders[o] \in {"APPROVED", "PARTIALLY_RECEIVED"}
  /\ job' = [job EXCEPT ![w] = [Idle EXCEPT !.kind = "create_receipt", !.phase = "loaded",
                                            !.order = o]]
  /\ UNCHANGED <<mix, orders, items, receipts, returns, stock>>

\* Mutation of Receivable: the draft receipts are forgotten.
NotReceived(i) == items[i].quantity - items[i].received

\* What is neither received nor on a draft receipt.
Receivable(i) == items[i].quantity - items[i].received - OnReceipts(i, {"DRAFT"})

\* The lines of the order are locked, then counted, then the draft is made.
CreateReceipt(w, cart, r) ==
  LET o == job[w].order IN
  /\ At(w, "create_receipt", "loaded")
  /\ Len(receipts) < mix.receipts
  /\ \A i \in Items \ ItemsOf[o] : cart[i] = 0
  /\ \E i \in ItemsOf[o] : cart[i] > 0
  /\ \A i \in ItemsOf[o] : cart[i] > 0 => cart[i] <= Receivable(i)
  /\ receipts' = Append(receipts, [status |-> "DRAFT", order |-> o, warehouse |-> r,
                                   lines |-> cart, billed |-> FALSE])
  /\ Done(w)
  /\ UNCHANGED <<mix, orders, items, returns, stock>>

\* get_object for execute_receipt and cancel_receipt.
LoadReceipt(w, kind, n) ==
  /\ MayStart(w, kind)
  /\ receipts[n].status = "DRAFT"
  /\ job' = [job EXCEPT ![w] = [Idle EXCEPT !.kind = kind, !.phase = "loaded", !.number = n]]
  /\ UNCHANGED <<mix, orders, items, receipts, returns, stock>>

CancelReceipt(w) ==
  /\ At(w, "cancel_receipt", "loaded")
  /\ receipts' = [receipts EXCEPT ![job[w].number].status = "CANCELLED"]
  /\ Done(w)
  /\ UNCHANGED <<mix, orders, items, returns, stock>>

\* Mutations: the tests made again under the locks are dropped.
LoadedAsDraft(receipt) == TRUE
AnyQuantity(line, qty) == TRUE

\* The status of the receipt once it is locked.
StillDraft(receipt) == receipt.status = "DRAFT"

\* No line receives more than was ordered.
Fits(line, qty) == line.received + qty <= line.quantity

Received(line, qty) == [line EXCEPT !.received = @ + qty]

\* The status of the order that follows from its lines.
ReceivedStatus(o, lines) ==
  IF \A i \in ItemsOf[o] : lines[i].received >= lines[i].quantity
  THEN "RECEIVED" ELSE "PARTIALLY_RECEIVED"

\* The receipt, the order and its lines are locked one after the other, the
\* stock and the lines are changed and the payable is made.
ExecuteReceipt(w) ==
  LET n       == job[w].number
      receipt == receipts[n]
      named   == {i \in Items : receipt.lines[i] > 0} IN
  /\ At(w, "complete_receipt", "loaded")
  /\ StillDraft(receipt)
  /\ \A i \in named : Fits(items[i], receipt.lines[i])
  /\ mix.billing => ~ receipt.billed
  /\ stock' = [stock EXCEPT ![receipt.warehouse] = ChangeStock(@, SumFunction(receipt.lines))]
  /\ items' = [i \in Items |-> IF i \in named THEN Received(items[i], receipt.lines[i])
                                              ELSE items[i]]
  /\ receipts' = [receipts EXCEPT ![n].status = "COMPLETED", ![n].billed = @ \/ mix.billing]
  /\ orders' = [orders EXCEPT ![receipt.order] = ReceivedStatus(receipt.order, items')]
  /\ Done(w)
  /\ UNCHANGED <<mix, returns>>

\* The view's update, inherited: the serializer lets the status, the order and
\* the warehouse of any receipt be replaced.
EditReceipt(w, n, status, o, r) ==
  /\ MayStart(w, "edit_receipt")
  /\ receipts[n].status # Gone
  /\ orders[o] # "NONE"
  /\ receipts' = [receipts EXCEPT ![n].status = status, ![n].order = o, ![n].warehouse = r]
  /\ UNCHANGED <<mix, orders, items, returns, stock, job>>

\* The view deletes the receipt and its lines, unless a payable refers to it.
DestroyReceipt(w, n) ==
  /\ MayStart(w, "destroy_receipt")
  /\ receipts[n].status # Gone
  /\ ~ receipts[n].billed
  /\ receipts' = [receipts EXCEPT ![n].status = Gone]
  /\ UNCHANGED <<mix, orders, items, returns, stock, job>>

-----------------------------------------------------------------------------
(***************************************************************************)
(* Purchase returns.                                                       *)
(***************************************************************************)

NotCancelled == ReturnStatus \ {"CANCELLED"}

\* What was received for o and is on no return but n.
Returnable(o, n) == ReceivedOf(o) - OnReturns(o, n, NotCancelled)

\* A return is asked for; the status of the order is not looked at.
StartReturn(w, o, r, qty) ==
  /\ MayStart(w, "create_return")
  /\ orders[o] # "NONE"
  /\ job' = [job EXCEPT ![w] = [Idle EXCEPT !.kind = "create_return", !.phase = "loaded",
                                            !.order = o, !.warehouse = r, !.qty = qty]]
  /\ UNCHANGED <<mix, orders, items, receipts, returns, stock>>

\* STATUS_TRANSITIONS, and where the methods lead to.
ReturnTransitions ==
  [DRAFT            |-> {"PENDING_APPROVAL", "CANCELLED"},
   PENDING_APPROVAL |-> {"APPROVED", "CANCELLED"},
   APPROVED         |-> {"COMPLETED", "CANCELLED"},
   COMPLETED        |-> {},
   CANCELLED        |-> {},
   DELETED          |-> {}]

ReturnTarget ==
  [submit_return   |-> "PENDING_APPROVAL",
   approve_return  |-> "APPROVED",
   complete_return |-> "COMPLETED",
   cancel_return   |-> "CANCELLED"]

\* get_object, and for complete_order the lock and the row under it; the edit
\* of a return, inherited by its view, keeps the status it loaded.
LoadReturn(w, kind, n) ==
  LET ret == returns[n] IN
  /\ MayStart(w, kind)
  /\ IF kind = "edit_return" THEN ret.status # Gone
     ELSE ReturnTarget[kind] \in ReturnTransitions[ret.status]
  /\ kind = "complete_return" => ReturnFree(w, n)
  /\ job' = [job EXCEPT ![w] = [kind |-> kind, phase |-> "loaded", order |-> ret.order,
                                number |-> n, to |-> ret.status,
                                warehouse |-> ret.warehouse, qty |-> ret.qty]]
  /\ UNCHANGED <<mix, orders, items, receipts, returns, stock>>

\* _validate_return_quantities, no lock on what it reads.
CheckReturnable(w) ==
  /\ \E kind \in {"create_return", "submit_return", "complete_return"} : At(w, kind, "loaded")
  /\ job[w].qty <= Returnable(job[w].order, job[w].number)
  /\ job' = [job EXCEPT ![w].phase = "checked"]
  /\ UNCHANGED <<mix, orders, items, receipts, returns, stock>>

CreateReturn(w) ==
  /\ At(w, "create_return", "checked")
  /\ Len(returns) < mix.returns
  /\ returns' = Append(returns, [status |-> "DRAFT", order |-> job[w].order,
                                 warehouse |-> job[w].warehouse, qty |-> job[w].qty])
  /\ Done(w)
  /\ UNCHANGED <<mix, orders, items, receipts, stock>>

SaveReturn(w, status) ==
  /\ ReturnFree(w, job[w].number)
  /\ returns' = [returns EXCEPT ![job[w].number].status = status]
  /\ Done(w)
  /\ UNCHANGED <<mix, orders, items, receipts, stock>>

\* The policy decides whether a return needs approval.
SubmitReturn(w) ==
  /\ At(w, "submit_return", "checked")
  /\ \E status \in {"PENDING_APPROVAL", "APPROVED"} : SaveReturn(w, status)

ApproveReturn(w) ==
  /\ At(w, "approve_return", "loaded")
  /\ SaveReturn(w, "APPROVED")

\* The whole row is saved, with the order and the warehouse it was loaded with.
CancelReturn(w) ==
  LET n == job[w].number IN
  /\ At(w, "cancel_return", "loaded")
  /\ ReturnFree(w, n)
  /\ returns' = [returns EXCEPT ![n].status = "CANCELLED", ![n].order = job[w].order,
                                ![n].warehouse = job[w].warehouse]
  /\ Done(w)
  /\ UNCHANGED <<mix, orders, items, receipts, stock>>

\* The serializer lets the order and the warehouse be replaced.
EditReturn(w, o, r) ==
  LET n == job[w].number IN
  /\ At(w, "edit_return", "loaded")
  /\ ReturnFree(w, n)
  /\ orders[o] # "NONE"
  /\ returns' = [returns EXCEPT ![n].status = job[w].to, ![n].order = o, ![n].warehouse = r]
  /\ Done(w)
  /\ UNCHANGED <<mix, orders, items, receipts, stock>>

\* What line i can still give back.
Left(i) == items[i].received - items[i].returned

Lesser(a, b) == IF a < b THEN a ELSE b

\* build_purchase_order_item_allocations: what qty takes of each line of o, oldest first.
Allocated(o, qty) ==
  [i \in ItemsOf[o] |->
     LET before == SumFunction([j \in {j \in ItemsOf[o] : j < i} |-> AtLeastZero(Left(j))])
     IN  Lesser(AtLeastZero(Left(i)), AtLeastZero(qty - before))]

\* The lines are locked and the quantity is taken from them, then the stock is
\* tested and reduced.
CompleteReturn(w) ==
  LET n    == job[w].number
      r    == job[w].warehouse
      left == ChangeStock(stock[r], - job[w].qty)
      from == Allocated(job[w].order, job[w].qty)
  IN
  /\ At(w, "complete_return", "checked")
  /\ SumFunction(from) = job[w].qty
  /\ left.current >= 0 /\ Clean(left)
  /\ stock' = [stock EXCEPT ![r] = left]
  /\ items' = [i \in Items |-> IF i \in DOMAIN from
                               THEN [items[i] EXCEPT !.returned = @ + from[i]] ELSE items[i]]
  /\ returns' = [returns EXCEPT ![n].status = "COMPLETED"]
  /\ Done(w)
  /\ UNCHANGED <<mix, orders, receipts>>

\* The view deletes the return and its lines, whatever its status.
DestroyReturn(w, n) ==
  /\ MayStart(w, "destroy_return")
  /\ ReturnFree(w, n)
  /\ returns[n].status # Gone
  /\ returns' = [returns EXCEPT ![n].status = Gone]
  /\ UNCHANGED <<mix, orders, items, receipts, stock, job>>

-----------------------------------------------------------------------------

\* A check fails, or the worker is killed: the transaction is rolled back.
Abort(w) ==
  /\ job[w] # Idle
  /\ Done(w)
  /\ UNCHANGED <<mix, orders, items, receipts, returns, stock>>

OrderStep(w) ==
  \/ \E o \in Orders :
       \/ \E plan \in Plans : CreateOrder(w, o, plan)
       \/ DestroyOrder(w, o)
       \/ \E kind \in DOMAIN Targets : \E to \in Targets[kind] : LoadOrder(w, kind, o, to)
       \/ LoadUpdate(w, o)
  \/ SubmitOrder(w)
  \/ ApproveOrder(w)
  \/ RejectOrder(w)
  \/ CloseOrder(w)
  \/ CheckReceived(w)
  \/ UpdateHeader(w)
  \/ \E plan \in Plans : UpdateLines(w, plan)
  \/ CancelOrder(w)

ReceiptStep(w) ==
  \/ \E o \in Orders : StartReceipt(w, o)
  \/ \E cart \in mix.carts, r \in mix.warehouses : CreateReceipt(w, cart, r)
  \/ \E n \in DOMAIN receipts :
       \/ \E kind \in {"complete_receipt", "cancel_receipt"} : LoadReceipt(w, kind, n)
       \/ \E status \in ReceiptStatus, o \in Orders, r \in mix.warehouses :
            EditReceipt(w, n, status, o, r)
       \/ DestroyReceipt(w, n)
  \/ CancelReceipt(w)
  \/ ExecuteReceipt(w)

ReturnStep(w) ==
  \/ \E o \in Orders, r \in mix.warehouses, qty \in mix.quantities : StartReturn(w, o, r, qty)
  \/ \E n \in DOMAIN returns :
       \/ \E kind \in DOMAIN ReturnTarget \cup {"edit_return"} : LoadReturn(w, kind, n)
       \/ DestroyReturn(w, n)
  \/ CheckReturnable(w)
  \/ CreateReturn(w)
  \/ SubmitReturn(w)
  \/ ApproveReturn(w)
  \/ CancelReturn(w)
  \/ \E o \in Orders, r \in mix.warehouses : EditReturn(w, o, r)
  \/ CompleteReturn(w)

Next == \E w \in Workers : OrderStep(w) \/ ReceiptStep(w) \/ ReturnStep(w) \/ Abort(w)

Spec == Init /\ [][Next]_vars

-----------------------------------------------------------------------------

\* Type invariant.
TypeOK ==
  /\ mix \in Mixes
  /\ orders \in [Orders -> OrderStatus]
  /\ items \in [Items -> OrderLines]
  /\ receipts \in Seq([status : ReceiptStatus \cup {Gone}, order : Orders,
                       warehouse : Warehouses, lines : [Items -> Nat], billed : BOOLEAN])
  /\ returns \in Seq([status : ReturnStatus \cup {Gone}, order : Orders,
                      warehouse : Warehouses, qty : Nat \ {0}])
  /\ stock \in [Warehouses -> Positions]
  /\ \A w \in Workers :
       /\ job[w].kind \in mix.kinds \cup {"idle"}
       /\ job[w].order \in Orders \cup {NoOrder}
       /\ job[w].warehouse \in Warehouses \cup {NoPlace}

(***************************************************************************)
(* Whatever overlaps, and whatever is edited by hand: no line receives     *)
(* more than is ordered now, nothing where nothing or less is ordered, and *)
(* none gives back more than it received.                                  *)
(***************************************************************************)
LinesSound ==
  \A i \in Items :
    /\ 0 <= items[i].returned
    /\ items[i].returned <= items[i].received
    /\ items[i].received <= AtLeastZero(items[i].quantity)

(***************************************************************************)
(* Whatever overlaps, and whatever is edited by hand: the stock is what    *)
(* the order lines say was received and not sent back.                     *)
(***************************************************************************)
StockFollowsLines ==
  SumFunction([r \in Warehouses |-> stock[r].current - Initial[r]]) =
    SumFunction([i \in Items |-> items[i].received - items[i].returned])

\* Nothing is edited or deleted by hand, and only what is harmless together overlaps.
Documented ==
  /\ mix.kinds \cap ByHand = {}
  /\ mix.racing \subseteq {"update", "reject", "close", "create_receipt", "complete_receipt",
                           "complete_return"}

\* What the lines received and gave back is what the completed receipts and returns carry.
ReceivedOnce == \A i \in Items : items[i].received = OnReceipts(i, {"COMPLETED"})

ReturnedOnce ==
  \A o \in Orders :
    SumFunction([i \in ItemsOf[o] |-> items[i].returned]) = OnReturns(o, 0, {"COMPLETED"})

(***************************************************************************)
(* Goods move once: no receipt or return is executed twice, or cancelled   *)
(* once it is executed, or undone on paper only.                           *)
(***************************************************************************)
GoodsMoveOnce == TypeOK /\ (Documented => ReceivedOnce /\ ReturnedOnce)

\* No more is received, or on the way on a draft receipt, than is ordered.
DraftsFit ==
  \A i \in Items : OnReceipts(i, {"COMPLETED", "DRAFT"}) <= AtLeastZero(items[i].quantity)

\* The returns that are not cancelled ask for no more than was received.
ReturnsCovered == \A o \in Orders : OnReturns(o, 0, NotCancelled) <= ReceivedOf(o)

(***************************************************************************)
(* Every draft receipt can be executed, and every return that is not       *)
(* cancelled is of goods that came in: what is promised on paper fits what *)
(* is ordered and what was received, however many are made beside others.  *)
(***************************************************************************)
QuantitiesFit == Documented => DraftsFit /\ ReturnsCovered

(***************************************************************************)
(* The status of an order tells how much of it has come in: RECEIVED and   *)
(* CLOSED all of it, PARTIALLY_RECEIVED some but not all, and any other    *)
(* status nothing; a cancelled order has no receipt left to execute.       *)
(***************************************************************************)
StatusTellsReceipts ==
  Documented =>
    \A o \in Orders :
      LET all  == \A i \in ItemsOf[o] : items[i].received >= items[i].quantity
          none == \A i \in ItemsOf[o] : items[i].received = 0
      IN  CASE orders[o] \in {"RECEIVED", "CLOSED"}  -> all
            [] orders[o] = "PARTIALLY_RECEIVED"      -> ~ all /\ ~ none
            [] orders[o] = "CANCELLED"               -> none /\ \A n \in DOMAIN receipts :
                                                            receipts[n].order = o =>
                                                              receipts[n].status # "DRAFT"
            [] OTHER                                 -> none

(***************************************************************************)
(* Whatever overlaps, and whatever is edited by hand: the lines are sound  *)
(* and the stock follows them.                                             *)
(***************************************************************************)
LinesFollowGoods == LinesSound /\ StockFollowsLines
=============================================================================
