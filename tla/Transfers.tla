------------------------------ MODULE Transfers ------------------------------
(***************************************************************************)
(* Transfers of goods between warehouses: TransferService and the          *)
(* endpoints of TransferOrderViewSet.                                      *)
(*                                                                         *)
(* start_transfer, complete_transfer and cancel_transfer lock the row and  *)
(* read it again, so each is one step.  update_order, submit_order and     *)
(* approve_order decide on the object the view loaded and write to the row *)
(* without a lock: loading and writing are steps of their own.             *)
(*                                                                         *)
(* There is one product, so an Inventory row is a warehouse and a transfer *)
(* has one line; all calls of one method commit or roll back together.  A  *)
(* request whose check fails changes nothing, and is no step here.         *)
(***************************************************************************)
EXTENDS StockRow, Functions

CONSTANTS Warehouses,
          Quantities,      \* what a transfer may carry
          Users,
          Approvals,       \* transfer_approval_enabled(), the values it may have
          Requests,        \* the kinds of request that arrive
          Racing,          \* the kinds that may overlap with each other
          Workers,
          MaxTransfers,    \* bound: transfers ever made
          NoUser, NoPlace

\* Assumed of the constants, by the modules that instantiate this one.
TransfersAssumption ==
  /\ Quantities \subseteq Nat \ {0}
  /\ Approvals \subseteq BOOLEAN
  /\ Racing \subseteq Requests \ {"destroy"}
  /\ NoUser \notin Users /\ NoPlace \notin Warehouses

VARIABLES
  transfers,   \* the TransferOrder rows in the order they were made
  stock,       \* the stock position of every warehouse, movements left out
  job          \* the request each worker is serving, and the row it loaded

vars == <<transfers, stock, job>>

TransferStatus ==
  {"DRAFT", "PENDING_APPROVAL", "APPROVED", "IN_TRANSIT", "COMPLETED", "CANCELLED"}

\* A row that is deleted keeps its last contents; nothing finds it any more.
TransferRows ==
  [status : TransferStatus, from : Warehouses, to : Warehouses, qty : Quantities,
   creator : Users, submitter : Users \cup {NoUser}, approver : Users \cup {NoUser},
   starter : Users \cup {NoUser}, receiver : Users \cup {NoUser}, deleted : BOOLEAN]

Blank == [status |-> "DRAFT", from |-> NoPlace, to |-> NoPlace, qty |-> 0,
          creator |-> NoUser, submitter |-> NoUser, approver |-> NoUser,
          starter |-> NoUser, receiver |-> NoUser, deleted |-> FALSE]

Idle == [kind |-> "idle", number |-> 0, row |-> Blank]

\* The request may be served beside those under way.
MayStart(w, kind) ==
  /\ kind \in Requests
  /\ job[w] = Idle
  /\ \A v \in Workers \ {w} :
       job[v] = Idle \/ (kind \in Racing /\ job[v].kind \in Racing)

Done(w) == job' = [job EXCEPT ![w] = Idle]

\* The status a method expects before it writes its own.
Expected ==
  [update |-> "DRAFT", submit |-> "DRAFT", approve |-> "PENDING_APPROVAL"]

\* validate_stock_availability, on the row as it is now.
Transferable(r, qty) == stock[r].exists /\ Available(stock[r]) >= qty

Change(qty) == [kind |-> "change", qty |-> qty]

\* change_stock of one warehouse.
Moves(r, qty) ==
  /\ Accepts(Change(qty), stock[r])
  /\ stock' = [stock EXCEPT ![r] = ChangeStock(@, qty)]

Init ==
  /\ transfers = << >>
  /\ job = [w \in Workers |-> Idle]

CreateOrder(w, u, from, to, qty) ==
  /\ MayStart(w, "create")
  /\ Len(transfers) < MaxTransfers
  /\ from # to
  /\ Transferable(from, qty)
  /\ transfers' = Append(transfers, [Blank EXCEPT !.from = from, !.to = to, !.qty = qty,
                                                  !.creator = u])
  /\ UNCHANGED <<stock, job>>

\* get_object, and the check of the status it finds.
LoadTransfer(w, kind, n) ==
  /\ MayStart(w, kind)
  /\ ~ transfers[n].deleted
  /\ transfers[n].status = Expected[kind]
  /\ job' = [job EXCEPT ![w] = [kind |-> kind, number |-> n, row |-> transfers[n]]]
  /\ UNCHANGED <<transfers, stock>>

\* update_order: a full save of the row that was loaded, and new lines.
UpdateOrder(w, from, to, qty) ==
  /\ job[w].kind = "update"
  /\ from # to
  /\ Transferable(from, qty)
  /\ transfers' = [transfers EXCEPT ![job[w].number] =
                     [job[w].row EXCEPT !.from = from, !.to = to, !.qty = qty]]
  /\ Done(w)
  /\ UNCHANGED stock

\* submit_order: approved at once where the policy asks for no approval.
SubmitOrder(w, u, approval) ==
  LET n == job[w].number IN
  /\ job[w].kind = "submit"
  /\ Transferable(job[w].row.from, transfers[n].qty)
  /\ transfers' =
       [transfers EXCEPT ![n].status = IF approval THEN "PENDING_APPROVAL" ELSE "APPROVED",
                         ![n].submitter = u,
                         ![n].approver = IF approval THEN @ ELSE u]
  /\ Done(w)
  /\ UNCHANGED stock

ApproveOrder(w, u) ==
  /\ job[w].kind = "approve"
  /\ u \notin {job[w].row.submitter, job[w].row.creator}
  /\ transfers' = [transfers EXCEPT ![job[w].number].status = "APPROVED",
                                    ![job[w].number].approver = u]
  /\ Done(w)
  /\ UNCHANGED stock

\* start_transfer: the goods leave the first warehouse.
StartTransfer(w, n, u) ==
  /\ MayStart(w, "start")
  /\ ~ transfers[n].deleted
  /\ transfers[n].status = "APPROVED"
  /\ u # transfers[n].approver
  /\ Transferable(transfers[n].from, transfers[n].qty)
  /\ Moves(transfers[n].from, - transfers[n].qty)
  /\ transfers' = [transfers EXCEPT ![n].status = "IN_TRANSIT", ![n].starter = u]
  /\ UNCHANGED job

\* complete_transfer: they enter the second one.
CompleteTransfer(w, n, u) ==
  /\ MayStart(w, "complete")
  /\ ~ transfers[n].deleted
  /\ transfers[n].status = "IN_TRANSIT"
  /\ u # transfers[n].starter
  /\ Moves(transfers[n].to, transfers[n].qty)
  /\ transfers' = [transfers EXCEPT ![n].status = "COMPLETED", ![n].receiver = u]
  /\ UNCHANGED job

Cancellable == {"DRAFT", "PENDING_APPROVAL", "APPROVED", "IN_TRANSIT"}

\* Mutation of CancelTransfer: a transfer is put back whatever its status.
CancelBack(w, n) ==
  /\ MayStart(w, "cancel")
  /\ ~ transfers[n].deleted
  /\ transfers[n].status \in Cancellable
  /\ Moves(transfers[n].from, transfers[n].qty)
  /\ transfers' = [transfers EXCEPT ![n].status = "CANCELLED"]
  /\ UNCHANGED job

\* cancel_transfer: what is in transit goes back where it came from.
CancelTransfer(w, n) ==
  /\ MayStart(w, "cancel")
  /\ ~ transfers[n].deleted
  /\ transfers[n].status \in Cancellable
  /\ IF transfers[n].status = "IN_TRANSIT"
     THEN Moves(transfers[n].from, transfers[n].qty)
     ELSE UNCHANGED stock
  /\ transfers' = [transfers EXCEPT ![n].status = "CANCELLED"]
  /\ UNCHANGED job

\* The view's destroy, inherited: any status, nothing put back.
DestroyTransfer(w, n) ==
  /\ MayStart(w, "destroy")
  /\ ~ transfers[n].deleted
  /\ transfers' = [transfers EXCEPT ![n].deleted = TRUE]
  /\ UNCHANGED <<stock, job>>

\* A check of the method fails after the row is loaded.
Abort(w) ==
  /\ job[w] # Idle
  /\ Done(w)
  /\ UNCHANGED <<transfers, stock>>

TransferStep(w) ==
  \/ \E from, to \in Warehouses, qty \in Quantities :
       \/ \E u \in Users : CreateOrder(w, u, from, to, qty)
       \/ UpdateOrder(w, from, to, qty)
  \/ \E u \in Users :
       \/ \E approval \in Approvals : SubmitOrder(w, u, approval)
       \/ ApproveOrder(w, u)
  \/ \E n \in DOMAIN transfers :
       \/ \E kind \in DOMAIN Expected : LoadTransfer(w, kind, n)
       \/ \E u \in Users : StartTransfer(w, n, u) \/ CompleteTransfer(w, n, u)
       \/ CancelTransfer(w, n)
       \/ DestroyTransfer(w, n)
  \/ Abort(w)

Next == \E w \in Workers : TransferStep(w)

-----------------------------------------------------------------------------

TypeOK ==
  /\ \A n \in DOMAIN transfers : transfers[n] \in TransferRows
  /\ \A w \in Workers :
       /\ job[w].kind \in DOMAIN Expected \cup {"idle"}
       /\ job[w].number \in {0} \cup DOMAIN transfers

\* What a transfer carries if it has one of the statuses.
Carried(n, statuses) == IF transfers[n].status \in statuses THEN transfers[n].qty ELSE 0

\* What the transfers with one of the statuses carry out of r, and into it.
Out(r, statuses) ==
  SumFunction([n \in DOMAIN transfers |->
                 IF transfers[n].from = r THEN Carried(n, statuses) ELSE 0])

In(r, statuses) ==
  SumFunction([n \in DOMAIN transfers |->
                 IF transfers[n].to = r THEN Carried(n, statuses) ELSE 0])

\* What the documents say a warehouse gained by transfers.
NetTransferred(r) == In(r, {"COMPLETED"}) - Out(r, {"IN_TRANSIT", "COMPLETED"})
=============================================================================
