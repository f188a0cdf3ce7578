--------------------------- MODULE SalesFulfilment ---------------------------
(***************************************************************************)
(* Sales orders, the stock reserved for them and the outbound orders that  *)
(* ship it: SalesOrderService and OutboundService.                         *)
(*                                                                         *)
(* A request has two parts.  The view loads the document it is about, in   *)
(* autocommit mode and without a lock; the service method then decides on  *)
(* that object, reads what else it needs and writes in one transaction.    *)
(* Whatever is read without a lock may be out of date when it is used, so  *)
(* those reads are steps of their own and keep what they read in the job   *)
(* of the worker.  Only complete_order locks (the outbound order, the      *)
(* Inventory rows through ship_stock, the order lines it updates); its     *)
(* locks last to its commit.                                               *)
(*                                                                         *)
(* A request whose check fails changes nothing, and is no step here.       *)
(* Which kinds of request may overlap is the parameter Racing: the code    *)
(* lets all of them overlap, and the runs tell which combinations are      *)
(* harmless.  There is one product, so an Inventory row is a warehouse.    *)
(***************************************************************************)
EXTENDS StockRow, FiniteSets, FiniteSetsExt, SequencesExt

CONSTANTS Orders, Items, Warehouses,
          ItemsOf,             \* the lines of each order, in id order
          RowOf,               \* the warehouse of each line
          Quantity,            \* the quantity of each line
          Openings,            \* what current_qty of the warehouses may be at the start
          Carts,               \* the line lists create_outbound is asked for
          ManualQuantities,    \* the quantities outbounds are made by hand for
          Mixes,               \* the sets of kinds of request that may arrive
          Racing,              \* the kinds that may overlap with each other
          RequiresAllocation,  \* the policy outbound_requires_allocation
          AutoBilling,         \* values outbound_auto_ar and auto_create_receivable may have
          Workers,
          MaxOutbounds,        \* bound: outbound orders ever made
          NoOrder, NoItem

Lines == [item : Items \cup {NoItem}, qty : Nat \ {0}]

OrderStatus ==
  {"NONE", "DRAFT", "PENDING_APPROVAL", "APPROVED", "REJECTED", "ALLOCATED",
   "PARTIALLY_SHIPPED", "SHIPPED", "CLOSED", "CANCELLED"}

OutboundStatus == {"DRAFT", "PENDING", "APPROVED", "COMPLETED", "CANCELLED", "DELETED"}

Progress == [allocated : Int, shipped : Int]

ItemSet(o) == Range(ItemsOf[o])

\* An order line belongs to one order.
ASSUME LinesAssumption ==
  /\ IsFiniteSet(Items)
  /\ ItemsOf \in [Orders -> Seq(Items)]
  /\ \A o, p \in Orders : o # p => ItemSet(o) \cap ItemSet(p) = {}
  /\ RowOf \in [Items -> Warehouses]
  /\ Quantity \in [Items -> Nat \ {0}]
  /\ Openings \subseteq [Warehouses -> Nat]
  /\ Carts \subseteq Seq([item : Items, qty : Nat \ {0}])
  /\ ManualQuantities \subseteq Nat \ {0}
  /\ AutoBilling \subseteq BOOLEAN
  /\ NoOrder \notin Orders /\ NoItem \notin Items

\* Deletions overlap with nothing: a full save of a row deleted in the
\* meantime inserts it again, which is left out.
ASSUME RacingAssumption ==
  Racing \subseteq (UNION Mixes) \ {"destroy", "destroy_outbound"}

VARIABLES
  orders,     \* the status of every sales order, NONE when it is not there
  items,      \* allocated_quantity and shipped_quantity of every order line
  outbounds,  \* the outbound orders in the order they were made
  stock,      \* the stock position of every warehouse, movements left out
  opening,    \* current_qty of every warehouse at the start
  requests,   \* the kinds of request that arrive
  job         \* the request each worker is serving and what it has read

given == <<opening, requests>>
vars == <<orders, items, outbounds, stock, given, job>>

Idle == [kind |-> "idle", phase |-> "idle", order |-> NoOrder, number |-> 0,
         seen |-> "NONE", cart |-> << >>, items |-> << >>, onHand |-> << >>]

\* The request may be served beside those under way.
MayStart(w, kind) ==
  /\ kind \in requests
  /\ job[w] = Idle
  /\ \A v \in Workers \ {w} :
       job[v] = Idle \/ (kind \in Racing /\ job[v].kind \in Racing)

Done(w) == job' = [job EXCEPT ![w] = Idle]

ItemsIn(lines) == {lines[k].item : k \in DOMAIN lines} \ {NoItem}

TotalQty(lines) == SumFunction([k \in DOMAIN lines |-> lines[k].qty])

\* The quantity of item i in the lines.
QtyIn(lines, i) ==
  SumFunction([k \in {k \in DOMAIN lines : lines[k].item = i} |-> lines[k].qty])

\* The quantity of item i on the outbound orders in one of the statuses.
OnOutbounds(i, statuses) ==
  SumFunction([n \in {n \in DOMAIN outbounds : outbounds[n].status \in statuses} |->
                 QtyIn(outbounds[n].lines, i)])

-----------------------------------------------------------------------------
(***************************************************************************)
(* Row locks: those of the outbound completions under way.                 *)
(***************************************************************************)
Completing(v) == job[v].kind = "complete"

\* Mutation of RowFree: ship_stock without select_for_update.
UnlockedRow(w, r) == TRUE

OutboundFree(w, n) == \A v \in Workers \ {w} : ~ (Completing(v) /\ job[v].number = n)

RowFree(w, r) ==
  \A v \in Workers \ {w} :
    Completing(v) /\ job[v].phase # "checked" => outbounds[job[v].number].warehouse # r

ItemFree(w, i) ==
  \A v \in Workers \ {w} :
    Completing(v) /\ job[v].phase \in {"saved", "counted"}
      => i \notin ItemsIn(outbounds[job[v].number].lines)

\* The rows an order's reservation is on can be written.
OrderFree(w, o) == \A i \in ItemSet(o) : ItemFree(w, i) /\ RowFree(w, RowOf[i])

-----------------------------------------------------------------------------

Init ==
  /\ orders = [o \in Orders |-> "NONE"]
  /\ items = [i \in Items |-> [allocated |-> 0, shipped |-> 0]]
  /\ outbounds = << >>
  /\ opening \in Openings
  /\ stock = [r \in Warehouses |-> [NoPosition EXCEPT !.exists = TRUE, !.current = opening[r]]]
  /\ requests \in Mixes
  /\ job = [w \in Workers |-> Idle]

-----------------------------------------------------------------------------
(***************************************************************************)
(* Writing an order: create_order, update_order and deletion.              *)
(***************************************************************************)

OpenCommitment == {"DRAFT", "PENDING_APPROVAL", "APPROVED", "ALLOCATED", "PARTIALLY_SHIPPED"}

\* get_open_sales_commitment_quantity, the order o left out.
Commitment(r, o) ==
  LET open == UNION {ItemSet(p) : p \in {p \in Orders \ {o} : orders[p] \in OpenCommitment}}
  IN  SumFunction([i \in {i \in open : RowOf[i] = r} |-> Quantity[i] - items[i].shipped])

\* What the lines of o on row r add up to.
OnRow(o, r, of) == SumFunction([i \in {i \in ItemSet(o) : RowOf[i] = r} |-> of[i]])

\* Mutation of Sellable: the other open orders are forgotten.
SellableAlone(o, onHand) == \A r \in Warehouses : OnRow(o, r, Quantity) <= onHand[r]

\* normalize_and_validate_sellable_items on the lines of o: current_qty of
\* the rows has been read, what the other orders hold of it is read now.
Sellable(o, onHand) ==
  \A r \in Warehouses :
    OnRow(o, r, Quantity) > 0 => OnRow(o, r, Quantity) <= onHand[r] - Commitment(r, o)

\* The lines of o as they are when just written.
FreshItems(o) ==
  [i \in Items |-> IF i \in ItemSet(o) THEN [allocated |-> 0, shipped |-> 0] ELSE items[i]]

\* Foreign keys of outbound lines protect the order lines they name.
Unreferenced(o) ==
  \A n \in DOMAIN outbounds :
    outbounds[n].status # "DELETED" =>
      outbounds[n].order # o /\ ItemsIn(outbounds[n].lines) \cap ItemSet(o) = {}

At(w, kind, phase) == job[w].kind = kind /\ job[w].phase = phase

\* The request w is the one that makes the order o.
Creating(w, o) == job[w].kind = "create" /\ job[w].order = o

\* A request for a new order arrives; no other one is about the same order.
StartCreate(w, o) ==
  /\ MayStart(w, "create")
  /\ orders[o] = "NONE"
  /\ \A v \in Workers : ~ Creating(v, o)
  /\ job' = [job EXCEPT ![w] = [Idle EXCEPT !.kind = "create", !.phase = "loaded",
                                            !.order = o]]
  /\ UNCHANGED <<orders, items, outbounds, stock, given>>

\* create_order, update_order and submit_order look up what is sellable:
\* the stock first, then what is promised of it, neither under a lock.
ReadStock(w) ==
  /\ \E kind \in {"create", "update", "submit"} : At(w, kind, "loaded")
  /\ job' = [job EXCEPT ![w].phase = "read",
                        ![w].onHand = [r \in Warehouses |-> stock[r].current]]
  /\ UNCHANGED <<orders, items, outbounds, stock, given>>

CheckSellable(w) ==
  /\ job[w].phase = "read"
  /\ Sellable(job[w].order, job[w].onHand)
  /\ job' = [job EXCEPT ![w].phase = "checked", ![w].onHand = << >>]
  /\ UNCHANGED <<orders, items, outbounds, stock, given>>

SetStatus(w, status) == orders' = [orders EXCEPT ![job[w].order] = status]

CreateOrder(w) ==
  /\ At(w, "create", "checked")
  /\ SetStatus(w, "DRAFT")
  /\ items' = FreshItems(job[w].order)
  /\ Done(w)
  /\ UNCHANGED <<outbounds, stock, given>>

\* The view deletes the order row, whatever its status, and its lines.
DestroyOrder(w, o) ==
  /\ MayStart(w, "destroy")
  /\ orders[o] # "NONE"
  /\ Unreferenced(o)
  /\ orders' = [orders EXCEPT ![o] = "NONE"]
  /\ items' = FreshItems(o)
  /\ UNCHANGED <<outbounds, stock, given, job>>

-----------------------------------------------------------------------------
(***************************************************************************)
(* Requests about an existing order: get_object, then the service method.  *)
(***************************************************************************)

\* The statuses each method accepts of the order it is handed.
AllowedFrom ==
  [update          |-> {"DRAFT", "REJECTED"},
   submit          |-> {"DRAFT"},
   approve         |-> {"PENDING_APPROVAL"},
   reject          |-> {"PENDING_APPROVAL"},
   allocate        |-> {"APPROVED"},
   create_outbound |-> {"ALLOCATED", "PARTIALLY_SHIPPED"},
   cancel          |-> {"DRAFT", "PENDING_APPROVAL", "APPROVED", "ALLOCATED",
                        "PARTIALLY_SHIPPED", "REJECTED"},
   close           |-> {"SHIPPED"}]

\* get_object, and for create_outbound the order lines the view resolves.
LoadOrder(w, kind, o, cart) ==
  /\ MayStart(w, kind)
  /\ orders[o] \in AllowedFrom[kind]
  /\ ItemsIn(cart) \subseteq ItemSet(o)
  /\ job' = [job EXCEPT ![w] = [Idle EXCEPT !.kind = kind, !.phase = "loaded", !.order = o,
                                            !.seen = orders[o], !.cart = cart,
                                            !.items = IF cart = << >> THEN << >> ELSE items]]
  /\ UNCHANGED <<orders, items, outbounds, stock, given>>

\* order.save() writes the status it was loaded with back; a rejected order
\* becomes a draft.  When lines are sent the old ones are replaced.
UpdateOrder(w) ==
  LET o == job[w].order IN
  /\ At(w, "update", "checked")
  /\ SetStatus(w, "DRAFT")
  /\ \/ UNCHANGED items
     \/ Unreferenced(o) /\ OrderFree(w, o) /\ items' = FreshItems(o)
  /\ Done(w)
  /\ UNCHANGED <<outbounds, stock, given>>

\* The policy decides whether an order needs approval.
SubmitOrder(w) ==
  /\ At(w, "submit", "checked")
  /\ \E next \in {"PENDING_APPROVAL", "APPROVED"} : SetStatus(w, next)
  /\ Done(w)
  /\ UNCHANGED <<items, outbounds, stock, given>>

\* approve_order, reject_order and close_order write the status, no more.
WriteStatus(w, kind, status) ==
  /\ At(w, kind, "loaded")
  /\ SetStatus(w, status)
  /\ Done(w)
  /\ UNCHANGED <<items, outbounds, stock, given>>

ApproveOrder(w) == WriteStatus(w, "approve", "APPROVED")
RejectOrder(w)  == WriteStatus(w, "reject", "REJECTED")
CloseOrder(w)   == WriteStatus(w, "close", "CLOSED")

AllocateStock(w) ==
  LET o      == job[w].order
      qty(r) == OnRow(o, r, Quantity) IN
  /\ At(w, "allocate", "loaded")
  /\ OrderFree(w, o)
  /\ \A r \in Warehouses : Available(stock[r]) >= qty(r)
  /\ stock' = [r \in Warehouses |-> ReserveStock(stock[r], qty(r))]
  /\ items' = [i \in Items |-> IF i \in ItemSet(o)
                               THEN [items[i] EXCEPT !.allocated = Quantity[i]]
                               ELSE items[i]]
  /\ SetStatus(w, "ALLOCATED")
  /\ Done(w)
  /\ UNCHANGED <<outbounds, given>>

Open == {"DRAFT", "PENDING", "APPROVED"}
Locking == {"ALLOCATED", "PARTIALLY_SHIPPED"}

\* The reads of cancel_order, before it takes any lock.
CheckCancel(w) ==
  LET o == job[w].order IN
  /\ At(w, "cancel", "loaded")
  /\ job[w].seen \in Locking =>
       \A n \in DOMAIN outbounds : outbounds[n].order = o => outbounds[n].status \notin Open
  /\ job[w].seen = "PARTIALLY_SHIPPED" =>
       SumFunction([i \in ItemSet(o) |-> Quantity[i] - items[i].shipped]) > 0
  /\ job' = [job EXCEPT ![w].phase = "checked", ![w].items = items]
  /\ UNCHANGED <<orders, items, outbounds, stock, given>>

\* The lines of o after release_allocated_stock, which saves those that had
\* something allocated when they were read.
Deallocated(o, read) ==
  [i \in Items |-> IF i \in ItemSet(o) /\ read[i].allocated > 0
                  THEN [items[i] EXCEPT !.allocated = 0]
                  ELSE items[i]]

CancelOrder(w) ==
  LET o      == job[w].order
      read   == job[w].items
      qty(r) == OnRow(o, r, [i \in Items |-> read[i].allocated]) IN
  /\ At(w, "cancel", "checked")
  /\ IF job[w].seen \in Locking
     THEN /\ OrderFree(w, o)
          /\ stock' = [r \in Warehouses |-> ReleaseStock(stock[r], qty(r))]
          /\ items' = Deallocated(o, read)
     ELSE UNCHANGED <<stock, items>>
  /\ SetStatus(w, "CANCELLED")
  /\ Done(w)
  /\ UNCHANGED <<outbounds, given>>

-----------------------------------------------------------------------------
(***************************************************************************)
(* Outbound orders are made from a sales order or by hand.                 *)
(***************************************************************************)

\* A new outbound order; billed once a receivable refers to it.  Only the
\* deletion asks for that, so receivables made later by hand are left out.
Outbound(o, r, lines) == [status |-> "DRAFT", order |-> o, warehouse |-> r, lines |-> lines,
                          billed |-> FALSE]

\* Mutation of Pending: requested outbound orders are forgotten.
Unshipped(i, shipped) == Quantity[i] - shipped

\* What can still be requested of a line that has shipped so much.
Pending(i, shipped) == Quantity[i] - shipped - OnOutbounds(i, Open)

\* Every line by itself against what is not yet shipped or requested; the
\* shipped quantity is the one the view loaded.
CheckPending(w) ==
  LET cart == job[w].cart IN
  /\ At(w, "create_outbound", "loaded")
  /\ \A k \in DOMAIN cart :
       cart[k].qty <= Pending(cart[k].item, job[w].items[cart[k].item].shipped)
  /\ job' = [job EXCEPT ![w].phase = "checked"]
  /\ UNCHANGED <<orders, items, outbounds, stock, given>>

\* The lines of a warehouse; a line keeps the number it was sent with.
Part(cart, r) == [k \in {k \in DOMAIN cart : RowOf[cart[k].item] = r} |-> cart[k]]

\* One outbound order for each warehouse among the lines.
CreateOutbound(w) ==
  LET cart == job[w].cart
      rows == SetToSeq({RowOf[i] : i \in ItemsIn(cart)}) IN
  /\ At(w, "create_outbound", "checked")
  /\ Len(outbounds) + Len(rows) <= MaxOutbounds
  /\ outbounds' = outbounds \o
       [k \in DOMAIN rows |-> Outbound(job[w].order, rows[k], Part(cart, rows[k]))]
  /\ Done(w)
  /\ UNCHANGED <<orders, items, stock, given>>

\* _bind_sales_order_items: fill the lines of the order in turn.
Bind(o, qty) ==
  LET fill(s, i) ==
        LET part == Min({s.rest, Pending(i, items[i].shipped)})
        IN  IF part <= 0 THEN s
            ELSE [rest |-> s.rest - part, lines |-> Append(s.lines, [item |-> i, qty |-> part])]
  IN  FoldLeft(fill, [rest |-> qty, lines |-> << >>], ItemsOf[o])

\* create_order of an outbound for a sales order, at any warehouse; the order
\* lines are locked, the status of the order is not looked at.
CreateManual(w, o, r, qty) ==
  LET bound == Bind(o, qty) IN
  /\ MayStart(w, "manual")
  /\ Len(outbounds) < MaxOutbounds
  /\ orders[o] # "NONE"
  /\ \A i \in ItemSet(o) : ItemFree(w, i)
  /\ bound.rest = 0
  /\ outbounds' = Append(outbounds, Outbound(o, r, bound.lines))
  /\ UNCHANGED <<orders, items, stock, given, job>>

\* create_order of an outbound for nobody in particular.
CreateLoose(w, r, qty) ==
  /\ MayStart(w, "manual")
  /\ Len(outbounds) < MaxOutbounds
  /\ outbounds' = Append(outbounds, Outbound(NoOrder, r, << [item |-> NoItem, qty |-> qty] >>))
  /\ UNCHANGED <<orders, items, stock, given, job>>

-----------------------------------------------------------------------------
(***************************************************************************)
(* The life of an outbound order.                                          *)
(***************************************************************************)

\* STATUS_TRANSITIONS.
Transitions ==
  [DRAFT     |-> {"PENDING", "CANCELLED"},
   PENDING   |-> {"APPROVED", "CANCELLED"},
   APPROVED  |-> {"COMPLETED", "CANCELLED"},
   COMPLETED |-> {},
   CANCELLED |-> {},
   DELETED   |-> {}]

Target == [submit_outbound  |-> "PENDING",
           approve_outbound |-> "APPROVED",
           cancel_outbound  |-> "CANCELLED"]

\* get_object for submit_order, approve_order and cancel_order.
LoadOutbound(w, kind, n) ==
  /\ MayStart(w, kind)
  /\ Target[kind] \in Transitions[outbounds[n].status]
  /\ job' = [job EXCEPT ![w] = [Idle EXCEPT !.kind = kind, !.phase = "loaded", !.number = n]]
  /\ UNCHANGED <<orders, items, outbounds, stock, given>>

\* The status is written on the strength of the one that was loaded.
MoveOutbound(w, kind) ==
  /\ At(w, kind, "loaded")
  /\ OutboundFree(w, job[w].number)
  /\ outbounds' = [outbounds EXCEPT ![job[w].number].status = Target[kind]]
  /\ Done(w)
  /\ UNCHANGED <<orders, items, stock, given>>

SubmitOutbound(w)  == MoveOutbound(w, "submit_outbound")
ApproveOutbound(w) == MoveOutbound(w, "approve_outbound")
CancelOutbound(w)  == MoveOutbound(w, "cancel_outbound")

\* The view's update, inherited: get_object, whatever the status.
LoadEdit(w, n) ==
  /\ MayStart(w, "edit_outbound")
  /\ outbounds[n].status # "DELETED"
  /\ job' = [job EXCEPT ![w] = [Idle EXCEPT !.kind = "edit_outbound", !.phase = "loaded",
                                            !.number = n, !.seen = outbounds[n].status]]
  /\ UNCHANGED <<orders, items, outbounds, stock, given>>

\* The serializer lets the sales order and the warehouse be replaced and
\* saves the whole row, its status as it was loaded.
EditOutbound(w, o, r) ==
  LET n == job[w].number IN
  /\ At(w, "edit_outbound", "loaded")
  /\ OutboundFree(w, n)
  /\ o \in Orders => orders[o] # "NONE"
  /\ outbounds' = [outbounds EXCEPT ![n].status = job[w].seen, ![n].order = o,
                                    ![n].warehouse = r]
  /\ Done(w)
  /\ UNCHANGED <<orders, items, stock, given>>

\* The view deletes the outbound order and its lines, unless a receivable
\* refers to it.
DestroyOutbound(w, n) ==
  /\ MayStart(w, "destroy_outbound")
  /\ OutboundFree(w, n)
  /\ outbounds[n].status # "DELETED"
  /\ ~ outbounds[n].billed
  /\ outbounds' = [outbounds EXCEPT ![n].status = "DELETED"]
  /\ UNCHANGED <<orders, items, stock, given, job>>

-----------------------------------------------------------------------------
(***************************************************************************)
(* complete_order: lock the outbound order, check it, ship, account.       *)
(***************************************************************************)

\* Mutations: an outbound order not approved yet is executed, a reservation
\* is not asked for.
NotCancelled(out) == out.status # "CANCELLED"

OnTheShelf(out, line) == stock[out.warehouse].current >= line.qty

Executable(out) == out.status = "APPROVED"

\* The unlocked check of one line: the reservation of its order line and the
\* stock, or what nobody has reserved.
Covered(out, line) ==
  IF line.item = NoItem
  THEN Available(stock[out.warehouse]) >= line.qty
  ELSE /\ RequiresAllocation => items[line.item].allocated >= line.qty
       /\ stock[out.warehouse].current >= line.qty

\* select_for_update, then the checks.
CheckOutbound(w, n) ==
  LET out == outbounds[n] IN
  /\ MayStart(w, "complete")
  /\ OutboundFree(w, n)
  /\ Executable(out)
  /\ \A k \in DOMAIN out.lines : Covered(out, out.lines[k])
  /\ job' = [job EXCEPT ![w] = [Idle EXCEPT !.kind = "complete", !.phase = "checked",
                                            !.number = n, !.order = out.order]]
  /\ UNCHANGED <<orders, items, outbounds, stock, given>>

\* An order line of which qty has been shipped.
Moved(line, qty) == [allocated |-> AtLeastZero(line.allocated - qty),
                     shipped   |-> line.shipped + qty]

\* ship_stock of every line takes the Inventory row, then the order line is
\* read; what will be written to it is worked out.
ShipLines(w) ==
  LET out == outbounds[job[w].number]
      pos == stock[out.warehouse]
      qty == TotalQty(out.lines) IN
  /\ At(w, "complete", "checked")
  /\ RowFree(w, out.warehouse)
  /\ pos.current >= qty /\ Clean(ShipStock(pos, qty))
  /\ job' = [job EXCEPT ![w].phase = "shipped",
                        ![w].items = [i \in ItemsIn(out.lines) |->
                                        Moved(items[i], QtyIn(out.lines, i))]]
  /\ UNCHANGED <<orders, items, outbounds, stock, given>>

\* order_item.save takes the order lines.
SaveItems(w) ==
  /\ At(w, "complete", "shipped")
  /\ \A i \in DOMAIN job[w].items : ItemFree(w, i)
  /\ job' = [job EXCEPT ![w].phase = "saved"]
  /\ UNCHANGED <<orders, items, outbounds, stock, given>>

\* An order line as the worker's statements see it.
SeenItem(w, i) == IF i \in DOMAIN job[w].items THEN job[w].items[i] ELSE items[i]

\* Mutation of StatusOf: one full line is enough.
AnyLineShipped(w, o) ==
  IF \E i \in ItemSet(o) : SeenItem(w, i).shipped >= Quantity[i] THEN "SHIPPED"
  ELSE IF \E i \in ItemSet(o) : SeenItem(w, i).shipped > 0 THEN "PARTIALLY_SHIPPED"
  ELSE "ALLOCATED"

\* The status of the sales order that follows from its lines.
StatusOf(w, o) ==
  IF \A i \in ItemSet(o) : SeenItem(w, i).shipped >= Quantity[i] THEN "SHIPPED"
  ELSE IF \E i \in ItemSet(o) : SeenItem(w, i).shipped > 0 THEN "PARTIALLY_SHIPPED"
  ELSE "ALLOCATED"

\* All lines of the sales order are read.
CountShipped(w) ==
  LET o == job[w].order IN
  /\ At(w, "complete", "saved")
  /\ job' = [job EXCEPT ![w].phase = "counted",
                        ![w].seen = IF o = NoOrder THEN "NONE" ELSE StatusOf(w, o)]
  /\ UNCHANGED <<orders, items, outbounds, stock, given>>

\* The statuses are saved, a receivable is made for the sales order where both
\* policies ask for one, and the transaction commits.
CommitOutbound(w, billing) ==
  LET n == job[w].number
      o == job[w].order IN
  /\ At(w, "complete", "counted")
  /\ outbounds' = [outbounds EXCEPT ![n].status = "COMPLETED", ![n].billed = billing /\ o # NoOrder]
  /\ stock' = [stock EXCEPT ![outbounds[n].warehouse] =
                              ShipStock(@, TotalQty(outbounds[n].lines))]
  /\ items' = [i \in Items |-> SeenItem(w, i)]
  /\ orders' = IF o = NoOrder THEN orders ELSE [orders EXCEPT ![o] = job[w].seen]
  /\ Done(w)
  /\ UNCHANGED <<given>>

-----------------------------------------------------------------------------

\* A check fails, or the worker is killed: the transaction is rolled back.
Abort(w) ==
  /\ job[w] # Idle
  /\ Done(w)
  /\ UNCHANGED <<orders, items, outbounds, stock, given>>

OrderStep(w) ==
  \/ \E o \in Orders :
       \/ StartCreate(w, o)
       \/ DestroyOrder(w, o)
       \/ \E kind \in DOMAIN AllowedFrom \ {"create_outbound"} : LoadOrder(w, kind, o, << >>)
       \/ \E cart \in Carts : LoadOrder(w, "create_outbound", o, cart)
  \/ CreateOrder(w)
  \/ ReadStock(w)
  \/ CheckSellable(w)
  \/ UpdateOrder(w)
  \/ SubmitOrder(w)
  \/ ApproveOrder(w)
  \/ RejectOrder(w)
  \/ CloseOrder(w)
  \/ AllocateStock(w)
  \/ CheckCancel(w)
  \/ CancelOrder(w)

OutboundStep(w) ==
  \/ CheckPending(w)
  \/ CreateOutbound(w)
  \/ \E r \in Warehouses, qty \in ManualQuantities :
       \/ \E o \in Orders : CreateManual(w, o, r, qty)
       \/ CreateLoose(w, r, qty)
  \/ \E n \in DOMAIN outbounds :
       \/ \E kind \in DOMAIN Target : LoadOutbound(w, kind, n)
       \/ LoadEdit(w, n)
       \/ DestroyOutbound(w, n)
       \/ CheckOutbound(w, n)
  \/ SubmitOutbound(w)
  \/ ApproveOutbound(w)
  \/ CancelOutbound(w)
  \/ \E o \in Orders \cup {NoOrder}, r \in Warehouses : EditOutbound(w, o, r)
  \/ ShipLines(w)
  \/ SaveItems(w)
  \/ CountShipped(w)
  \/ \E billing \in AutoBilling : CommitOutbound(w, billing)

Next == \E w \in Workers : OrderStep(w) \/ OutboundStep(w) \/ Abort(w)

Spec == Init /\ [][Next]_vars

-----------------------------------------------------------------------------

\* Type invariant.
TypeOK ==
  /\ orders \in [Orders -> OrderStatus]
  /\ items \in [Items -> Progress]
  /\ DOMAIN outbounds = 1 .. Len(outbounds)
  /\ \A n \in DOMAIN outbounds :
       /\ outbounds[n].status \in OutboundStatus
       /\ outbounds[n].order \in Orders \cup {NoOrder}
       /\ outbounds[n].warehouse \in Warehouses
       /\ \A k \in DOMAIN outbounds[n].lines : outbounds[n].lines[k] \in Lines
       /\ outbounds[n].billed \in BOOLEAN
  /\ stock \in [Warehouses -> Positions]
  /\ opening \in Openings
  /\ requests \in Mixes
  /\ \A w \in Workers :
       /\ job[w].kind \in requests \cup {"idle"}
       /\ job[w].order \in Orders \cup {NoOrder}
       /\ job[w].number \in {0} \cup DOMAIN outbounds

(***************************************************************************)
(* The shipped quantity of an order line is what the completed outbound    *)
(* orders carry of it: no shipment is counted twice and none is forgotten. *)
(***************************************************************************)
ShippedOnce == \A i \in Items : items[i].shipped = OnOutbounds(i, {"COMPLETED"})

(***************************************************************************)
(* What left a warehouse is what the completed outbound orders from it     *)
(* carry: no outbound order is executed twice.                             *)
(***************************************************************************)
StockLeftOnce ==
  \A r \in Warehouses :
    opening[r] - stock[r].current =
      SumFunction([n \in {n \in DOMAIN outbounds : /\ outbounds[n].status = "COMPLETED"
                                                   /\ outbounds[n].warehouse = r} |->
                     TotalQty(outbounds[n].lines)])

(***************************************************************************)
(* The open orders never promise more of a warehouse than is in it.        *)
(***************************************************************************)
CommitmentsCovered == \A r \in Warehouses : Commitment(r, NoOrder) <= stock[r].current

(***************************************************************************)
(* No more is shipped, or still requested, of an order line than was       *)
(* ordered.                                                                *)
(***************************************************************************)
WithinOrdered ==
  \A i \in Items : items[i].shipped + OnOutbounds(i, Open) <= Quantity[i]

(***************************************************************************)
(* locked_qty of a warehouse is what its order lines have allocated: no    *)
(* reservation is lost, doubled or eaten by somebody else's shipment.      *)
(***************************************************************************)
ReservationsBacked ==
  \A r \in Warehouses :
    stock[r].locked =
      SumFunction([i \in {i \in Items : RowOf[i] = r} |-> items[i].allocated])

\* Outbound orders are given other sales orders and warehouses after they were made.
Edits == "edit_outbound" \in requests

(***************************************************************************)
(* A line has allocated exactly what is left to ship while its order holds *)
(* stock, and nothing before and after.                                    *)
(***************************************************************************)
AllocationMatchesStatus ==
  ~ Edits => \A o \in Orders : \A i \in ItemSet(o) :
    items[i].allocated =
      IF orders[o] \in Locking THEN Quantity[i] - items[i].shipped ELSE 0

(***************************************************************************)
(* The status of an order tells how much of it has been shipped: SHIPPED   *)
(* and CLOSED all of it, PARTIALLY_SHIPPED some but not all, and anything  *)
(* before that nothing.  Where outbound orders are given another sales     *)
(* order the status of either says nothing, and nothing is claimed.        *)
(***************************************************************************)
StatusTellsProgress ==
  ~ Edits => \A o \in Orders :
    LET all  == \A i \in ItemSet(o) : items[i].shipped >= Quantity[i]
        none == \A i \in ItemSet(o) : items[i].shipped = 0
    IN  CASE orders[o] \in {"SHIPPED", "CLOSED"}  -> all
          [] orders[o] = "PARTIALLY_SHIPPED"      -> ~ all /\ ~ none
          [] orders[o] = "CANCELLED"              -> ~ all
          [] OTHER                                -> none

(***************************************************************************)
(* Goods leave once: what was shipped of each order line, and what left    *)
(* each warehouse, is what the completed outbound orders carry.            *)
(***************************************************************************)
GoodsLeaveOnce == ShippedOnce /\ StockLeftOnce

(***************************************************************************)
(* The stock is never promised twice: what is reserved belongs to order    *)
(* lines, and what the open orders promise of a warehouse is there.        *)
(***************************************************************************)
StockSound == TypeOK /\ ReservationsBacked /\ CommitmentsCovered

(***************************************************************************)
(* The status of an order is true of its lines, of what they hold and of   *)
(* what was shipped of them.                                               *)
(***************************************************************************)
StatusIsTrue == AllocationMatchesStatus /\ StatusTellsProgress

(***************************************************************************)
(* An outbound order moves along STATUS_TRANSITIONS only: once completed   *)
(* or cancelled it stays so.                                               *)
(***************************************************************************)
OutboundLifecycle ==
  [][\A n \in DOMAIN outbounds :
       \/ outbounds'[n].status \in Transitions[outbounds[n].status] \cup {outbounds[n].status}
       \/ outbounds[n].status # "COMPLETED" /\ outbounds'[n].status = "DELETED"]_vars

(***************************************************************************)
(* A cancelled or closed order is over: no request that was under way, and *)
(* no outbound order made for it by hand, brings it back.                  *)
(***************************************************************************)
FinishedOrdersStay ==
  [][~ Edits => \A o \in Orders :
       orders[o] \in {"CANCELLED", "CLOSED"} => orders'[o] \in {orders[o], "NONE"}]_vars
=============================================================================
