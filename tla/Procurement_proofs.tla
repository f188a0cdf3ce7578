------------------------- MODULE Procurement_proofs -------------------------
(***************************************************************************)
(* Theorems about Procurement, for any orders, lines, warehouses, mixes of *)
(* requests and workers, and any number of receipts and returns.           *)
(*                                                                         *)
(* The inductive invariant is in layers.  Core holds whatever overlaps and *)
(* whatever is edited by hand.  Grounded adds why no line that received    *)
(* goods is ever replaced, and that the stock follows the lines.  Flow and *)
(* Returning hold in the documented flow: they say what a request that is  *)
(* under way still knows of the receipts and of the returns.               *)
(***************************************************************************)
EXTENDS Procurement, TableTheorems

-----------------------------------------------------------------------------
(* Whatever overlaps. *)

Line    == [quantity : Int, received : Nat, returned : Nat]
Receipt == [status : ReceiptStatus \cup {Gone}, order : Orders, warehouse : Warehouses,
            lines : [Items -> Nat], billed : BOOLEAN]
Return  == [status : ReturnStatus \cup {Gone}, order : Orders, warehouse : Warehouses,
            qty : Nat \ {0}]

\* The request of a worker, of one of the kinds K.
Job(K) == [kind : K \cup {"idle"}, phase : {"idle", "loaded", "checked"},
           order : Orders \cup {NoOrder}, number : Nat, to : OrderStatus \cup ReturnStatus,
           warehouse : Warehouses \cup {NoPlace}, qty : Nat]

Rows ==
  /\ mix \in Mixes
  /\ orders \in [Orders -> OrderStatus]
  /\ items \in [Items -> Line]
  /\ receipts \in Seq(Receipt)
  /\ returns \in Seq(Return)
  /\ stock \in [Warehouses -> Positions]
  /\ job \in [Workers -> Job(mix.kinds)]

\* The requests that work on an order that is there, or on a return.
OrderWork  == {"submit", "approve", "reject", "close", "cancel", "update"}
ReturnWork == {"submit_return", "approve_return", "complete_return", "cancel_return",
               "edit_return"}

\* What a request under way works on is there, and what it read is of the right kind.
Working(w) ==
  LET j == job[w] IN
  /\ j.kind \in OrderWork => j.order \in Orders /\ j.to \in OrderStatus \ {"NONE"}
  /\ j.kind = "create_receipt" => j.order \in Orders /\ orders[j.order] # "NONE"
  /\ j.kind \in {"complete_receipt", "cancel_receipt"} =>
       j.number \in DOMAIN receipts /\ receipts[j.number].status # Gone
  /\ j.kind = "create_return" =>
       j.order \in Orders /\ j.warehouse \in Warehouses /\ j.qty \in Nat \ {0} /\ j.number = 0
  /\ j.kind \in ReturnWork =>
       /\ j.number \in DOMAIN returns
       /\ j.order \in Orders /\ j.warehouse \in Warehouses /\ j.qty \in Nat \ {0}
       /\ j.to \in ReturnStatus

Jobs == \A w \in Workers : Working(w)

\* The orders that receipts name lines of are there, and the others have no lines.
Present ==
  \A n \in DOMAIN receipts, o \in Orders : \A i \in ItemsOf[o] :
    receipts[n].status # Gone /\ receipts[n].lines[i] > 0 => orders[o] # "NONE"

Blank ==
  \A o \in Orders : \A i \in ItemsOf[o] :
    orders[o] = "NONE" => items[i].received = 0 /\ items[i].returned = 0

Core == Rows /\ LinesSound /\ Jobs /\ Present /\ Blank

-----------------------------------------------------------------------------

\* An idle worker's job is a job, whatever arrives.
LEMMA IdleIsAJob ==
  /\ \A K : Idle \in Job(K)
  /\ Idle.kind = "idle"
  BY DEF Idle, Job, OrderStatus

\* The rows of the tables have their types, and so do the requests.
LEMMA RowTypes ==
  ASSUME Rows
  PROVE  /\ \A n \in DOMAIN receipts : receipts[n] \in Receipt
         /\ \A n \in DOMAIN returns : returns[n] \in Return
         /\ \A w \in Workers : job[w] \in Job(mix.kinds)
         /\ \A i \in Items : items[i] \in Line
         /\ \A o \in Orders : ItemsOf[o] \in SUBSET Items
         /\ DOMAIN receipts \in SUBSET Nat /\ DOMAIN returns \in SUBSET Nat
         /\ mix.carts \subseteq [Items -> Nat] /\ mix.warehouses \subseteq Warehouses
         /\ mix.quantities \subseteq Nat \ {0} /\ mix.billing \in BOOLEAN
         /\ mix.racing \subseteq mix.kinds
  <1>1. /\ \A n \in DOMAIN receipts : receipts[n] \in Receipt
        /\ \A n \in DOMAIN returns : returns[n] \in Return
        /\ DOMAIN receipts \in SUBSET Nat /\ DOMAIN returns \in SUBSET Nat
    BY RowNumbers DEF Rows
  <1>2. \A o \in Orders : ItemsOf[o] \in SUBSET Items
    BY PlansAssumption
  <1>3. /\ mix.carts \subseteq [Items -> Nat] /\ mix.warehouses \subseteq Warehouses
        /\ mix.quantities \subseteq Nat \ {0} /\ mix.billing \in BOOLEAN
        /\ mix.racing \subseteq mix.kinds
    BY MixesAssumption DEF Rows
  <1> QED
    BY <1>1, <1>2, <1>3 DEF Rows

\* A request begins, goes on, or ends.
LEMMA Taken ==
  ASSUME Rows, NEW w \in Workers, NEW j \in Job(mix.kinds), job' = [job EXCEPT ![w] = j]
  PROVE  /\ job' \in [Workers -> Job(mix.kinds)]
         /\ job'[w] = j /\ \A v \in Workers \ {w} : job'[v] = job[v]
  BY DEF Rows

\* The requests differ in their phase at most.
SameWork(j, k) ==
  /\ j.kind = k.kind /\ j.order = k.order /\ j.number = k.number /\ j.to = k.to
  /\ j.warehouse = k.warehouse /\ j.qty = k.qty

\* A request whose check succeeds is the same request.
LEMMA Checked ==
  ASSUME Rows, NEW w \in Workers, job' = [job EXCEPT ![w].phase = "checked"]
  PROVE  /\ job' \in [Workers -> Job(mix.kinds)]
         /\ SameWork(job'[w], job[w]) /\ job'[w].phase = "checked"
         /\ \A v \in Workers \ {w} : job'[v] = job[v]
  <1>1. job[w] \in Job(mix.kinds)
    BY DEF Rows
  <1>2. job'[w] = [job[w] EXCEPT !.phase = "checked"]
    BY DEF Rows
  <1>3. /\ job'[w] \in Job(mix.kinds) /\ SameWork(job'[w], job[w])
        /\ job'[w].phase = "checked"
    BY <1>1, <1>2 DEF Job, SameWork
  <1> QED
    BY <1>3 DEF Rows

\* A request that ends leaves its worker idle.
LEMMA DoneIdles ==
  ASSUME Rows, NEW w \in Workers, Done(w)
  PROVE  /\ job' \in [Workers -> Job(mix.kinds)]
         /\ job'[w] = Idle /\ \A v \in Workers \ {w} : job'[v] = job[v]
  BY IdleIsAJob, Taken DEF Done

\* Requests under way go on while nothing is deleted.
Grows ==
  /\ \A o \in Orders : orders[o] # "NONE" => orders'[o] # "NONE"
  /\ DOMAIN receipts \subseteq DOMAIN receipts'
  /\ \A n \in DOMAIN receipts : receipts[n].status # Gone => receipts'[n].status # Gone
  /\ DOMAIN returns \subseteq DOMAIN returns'

\* A request that goes on is about documents that are still there.
LEMMA WorkGoesOn ==
  ASSUME Jobs, NEW w \in Workers, Grows, job'[w] = Idle \/ SameWork(job'[w], job[w])
  PROVE  Working(w)'
  <1>1. CASE job'[w] = Idle
    BY <1>1, IdleIsAJob DEF Working, OrderWork, ReturnWork
  <1>2. CASE SameWork(job'[w], job[w])
    <2>1. Working(w)
      BY DEF Jobs
    <2> QED
      BY <1>2, <2>1 DEF Working, SameWork, Grows, OrderWork, ReturnWork
  <1> QED
    BY <1>1, <1>2

\* Nobody is at work while a row is deleted.
LEMMA NobodyWorks ==
  ASSUME Rows, NEW w \in Workers, NEW kind \in Deletions, MayStart(w, kind)
  PROVE  \A v \in Workers : job[v] = Idle
  <1>1. kind \notin mix.racing
    BY MixesAssumption DEF Rows
  <1> QED
    BY <1>1 DEF MayStart

-----------------------------------------------------------------------------
(* Steps that only read. *)

\* A step that only reads keeps Core if it does for the worker's own request.
LEMMA ReadKeeps ==
  ASSUME Core, NEW w \in Workers, UNCHANGED <<mix, orders, items, receipts, returns, stock>>,
         job' \in [Workers -> Job(mix.kinds)],
         \A v \in Workers \ {w} : job'[v] = job[v],
         Working(w)'
  PROVE  Core'
  <1>1. Grows
    BY DEF Grows
  <1>2. ASSUME NEW v \in Workers \ {w}
        PROVE  Working(v)'
    <2>1. SameWork(job'[v], job[v])
      BY DEF SameWork
    <2> QED
      BY <1>1, <2>1, WorkGoesOn DEF Core
  <1>3. Jobs'
    BY <1>2 DEF Jobs
  <1>4. Rows'
    BY DEF Core, Rows
  <1>5. LinesSound' /\ Present' /\ Blank'
    BY DEF Core, LinesSound, Present, Blank
  <1> QED
    BY <1>3, <1>4, <1>5 DEF Core

\* get_object of an order.
LEMMA LoadOrderKeeps ==
  ASSUME Core, NEW w \in Workers, NEW o \in Orders, NEW kind \in DOMAIN Targets,
         NEW to \in Targets[kind], LoadOrder(w, kind, o, to)
  PROVE  Core'
  <1> DEFINE j == [Idle EXCEPT !.kind = kind, !.phase = "loaded", !.order = o, !.to = to]
  <1>1. /\ kind \in {"submit", "approve", "reject", "close", "cancel"}
        /\ to \in OrderStatus \ {"NONE"}
    BY DEF Targets, OrderStatus
  <1>2. /\ job' = [job EXCEPT ![w] = j] /\ kind \in mix.kinds
        /\ UNCHANGED <<mix, orders, items, receipts, returns, stock>>
    BY DEF LoadOrder, MayStart
  <1>3. j \in Job(mix.kinds) /\ j.kind = kind /\ j.order = o /\ j.to = to
    BY <1>1, <1>2 DEF Idle, Job
  <1> HIDE DEF j
  <1>4. /\ job' \in [Workers -> Job(mix.kinds)]
        /\ job'[w] = j /\ \A v \in Workers \ {w} : job'[v] = job[v]
    BY <1>2, <1>3, Taken DEF Core
  <1>5. Working(w)'
    BY <1>1, <1>3, <1>4 DEF Working, OrderWork, ReturnWork
  <1> QED
    BY <1>2, <1>4, <1>5, ReadKeeps

\* get_object of an order that is to be updated.
LEMMA LoadUpdateKeeps ==
  ASSUME Core, NEW w \in Workers, NEW o \in Orders, LoadUpdate(w, o)
  PROVE  Core'
  <1> DEFINE j == [Idle EXCEPT !.kind = "update", !.phase = "loaded", !.order = o,
                               !.to = "DRAFT"]
  <1>1. /\ job' = [job EXCEPT ![w] = j] /\ "update" \in mix.kinds
        /\ UNCHANGED <<mix, orders, items, receipts, returns, stock>>
    BY DEF LoadUpdate, MayStart
  <1>2. j \in Job(mix.kinds) /\ j.kind = "update" /\ j.order = o /\ j.to = "DRAFT"
    BY <1>1 DEF Idle, Job, OrderStatus
  <1> HIDE DEF j
  <1>3. /\ job' \in [Workers -> Job(mix.kinds)]
        /\ job'[w] = j /\ \A v \in Workers \ {w} : job'[v] = job[v]
    BY <1>1, <1>2, Taken DEF Core
  <1>4. Working(w)'
    BY <1>2, <1>3 DEF Working, OrderWork, ReturnWork, OrderStatus
  <1> QED
    BY <1>1, <1>3, <1>4, ReadKeeps

\* A request for a receipt arrives.
LEMMA StartReceiptKeeps ==
  ASSUME Core, NEW w \in Workers, NEW o \in Orders, StartReceipt(w, o)
  PROVE  Core'
  <1> DEFINE j == [Idle EXCEPT !.kind = "create_receipt", !.phase = "loaded", !.order = o]
  <1>1. /\ job' = [job EXCEPT ![w] = j] /\ "create_receipt" \in mix.kinds
        /\ orders[o] # "NONE"
        /\ UNCHANGED <<mix, orders, items, receipts, returns, stock>>
    BY DEF StartReceipt, MayStart
  <1>2. j \in Job(mix.kinds) /\ j.kind = "create_receipt" /\ j.order = o
    BY <1>1 DEF Idle, Job, OrderStatus
  <1> HIDE DEF j
  <1>3. /\ job' \in [Workers -> Job(mix.kinds)]
        /\ job'[w] = j /\ \A v \in Workers \ {w} : job'[v] = job[v]
    BY <1>1, <1>2, Taken DEF Core
  <1>4. Working(w)'
    BY <1>1, <1>2, <1>3 DEF Working, OrderWork, ReturnWork
  <1> QED
    BY <1>1, <1>3, <1>4, ReadKeeps

\* get_object of a receipt.
LEMMA LoadReceiptKeeps ==
  ASSUME Core, NEW w \in Workers, NEW kind \in {"complete_receipt", "cancel_receipt"},
         NEW n \in DOMAIN receipts, LoadReceipt(w, kind, n)
  PROVE  Core'
  <1> DEFINE j == [Idle EXCEPT !.kind = kind, !.phase = "loaded", !.number = n]
  <1>1. /\ job' = [job EXCEPT ![w] = j] /\ kind \in mix.kinds
        /\ receipts[n].status # Gone
        /\ UNCHANGED <<mix, orders, items, receipts, returns, stock>>
    BY DEF LoadReceipt, MayStart, Gone
  <1>2. n \in Nat
    BY RowTypes DEF Core
  <1>3. j \in Job(mix.kinds) /\ j.kind = kind /\ j.number = n
    BY <1>1, <1>2 DEF Idle, Job, OrderStatus
  <1> HIDE DEF j
  <1>4. /\ job' \in [Workers -> Job(mix.kinds)]
        /\ job'[w] = j /\ \A v \in Workers \ {w} : job'[v] = job[v]
    BY <1>1, <1>3, Taken DEF Core
  <1>5. Working(w)'
    BY <1>1, <1>3, <1>4 DEF Working, OrderWork, ReturnWork
  <1> QED
    BY <1>1, <1>4, <1>5, ReadKeeps

\* A request for a return arrives.
LEMMA StartReturnKeeps ==
  ASSUME Core, NEW w \in Workers, NEW o \in Orders, NEW r \in mix.warehouses,
         NEW qty \in mix.quantities, StartReturn(w, o, r, qty)
  PROVE  Core'
  <1> DEFINE j == [Idle EXCEPT !.kind = "create_return", !.phase = "loaded", !.order = o,
                               !.warehouse = r, !.qty = qty]
  <1>1. /\ job' = [job EXCEPT ![w] = j] /\ "create_return" \in mix.kinds
        /\ UNCHANGED <<mix, orders, items, receipts, returns, stock>>
    BY DEF StartReturn, MayStart
  <1>2. r \in Warehouses /\ qty \in Nat \ {0}
    BY RowTypes DEF Core
  <1>3. /\ j \in Job(mix.kinds) /\ j.kind = "create_return" /\ j.order = o
        /\ j.warehouse = r /\ j.qty = qty /\ j.number = 0
    BY <1>1, <1>2 DEF Idle, Job, OrderStatus
  <1> HIDE DEF j
  <1>4. /\ job' \in [Workers -> Job(mix.kinds)]
        /\ job'[w] = j /\ \A v \in Workers \ {w} : job'[v] = job[v]
    BY <1>1, <1>3, Taken DEF Core
  <1>5. Working(w)'
    BY <1>2, <1>3, <1>4 DEF Working, OrderWork, ReturnWork
  <1> QED
    BY <1>1, <1>4, <1>5, ReadKeeps

\* A return is loaded with a status that it may leave.
LEMMA ReturnLoads ==
  ASSUME NEW kind \in DOMAIN ReturnTarget, NEW status,
         status \in ReturnStatus \cup {Gone},
         ReturnTarget[kind] \in ReturnTransitions[status]
  PROVE  /\ status \in ReturnStatus
         /\ kind = "submit_return" => status = "DRAFT"
         /\ kind = "approve_return" => status = "PENDING_APPROVAL"
         /\ kind = "complete_return" => status = "APPROVED"
         /\ kind = "cancel_return" => status \in {"DRAFT", "PENDING_APPROVAL", "APPROVED"}
  BY DEF ReturnTarget, ReturnTransitions, ReturnStatus, Gone

\* get_object of a return.
LEMMA LoadReturnKeeps ==
  ASSUME Core, NEW w \in Workers, NEW kind \in DOMAIN ReturnTarget \cup {"edit_return"},
         NEW n \in DOMAIN returns, LoadReturn(w, kind, n)
  PROVE  Core'
  <1> DEFINE ret == returns[n]
             j == [kind |-> kind, phase |-> "loaded", order |-> ret.order, number |-> n,
                   to |-> ret.status, warehouse |-> ret.warehouse, qty |-> ret.qty]
  <1>1. /\ job' = [job EXCEPT ![w] = j] /\ kind \in mix.kinds
        /\ kind = "edit_return" => ret.status # Gone
        /\ kind # "edit_return" => ReturnTarget[kind] \in ReturnTransitions[ret.status]
        /\ UNCHANGED <<mix, orders, items, receipts, returns, stock>>
    BY DEF LoadReturn, MayStart
  <1>2. n \in Nat /\ ret \in Return /\ kind \in ReturnWork
    BY RowTypes DEF Core, ReturnTarget, ReturnWork
  <1>3. ret.status \in ReturnStatus
    <2>1. ret.status \in ReturnStatus \cup {Gone}
      BY <1>2 DEF Return
    <2> HIDE DEF ret
    <2>2. CASE kind = "edit_return"
      BY <1>1, <2>1, <2>2
    <2>3. CASE kind # "edit_return"
      <3>1. kind \in DOMAIN ReturnTarget
        BY <2>3
      <3> QED
        BY <1>1, <2>1, <2>3, <3>1, ReturnLoads
    <2> QED
      BY <2>2, <2>3
  <1>4. /\ ret.order \in Orders /\ ret.warehouse \in Warehouses /\ ret.qty \in Nat \ {0}
    BY <1>2 DEF Return
  <1>5. /\ j \in Job(mix.kinds) /\ j.kind = kind /\ j.order = ret.order /\ j.number = n
        /\ j.to = ret.status /\ j.warehouse = ret.warehouse /\ j.qty = ret.qty
    BY <1>1, <1>2, <1>3, <1>4 DEF Job
  <1> HIDE DEF j, ret
  <1>6. /\ job' \in [Workers -> Job(mix.kinds)]
        /\ job'[w] = j /\ \A v \in Workers \ {w} : job'[v] = job[v]
    BY <1>1, <1>5, Taken DEF Core
  <1>7. Working(w)'
    BY <1>1, <1>2, <1>3, <1>4, <1>5, <1>6 DEF Working, OrderWork, ReturnWork
  <1> QED
    BY <1>1, <1>6, <1>7, ReadKeeps

\* The checks of what was received, and of what can be returned.
LEMMA CheckKeeps ==
  ASSUME Core, NEW w \in Workers, CheckReceived(w) \/ CheckReturnable(w)
  PROVE  Core'
  <1>1. /\ job' = [job EXCEPT ![w].phase = "checked"]
        /\ UNCHANGED <<mix, orders, items, receipts, returns, stock>>
    BY DEF CheckReceived, CheckReturnable
  <1>2. /\ job' \in [Workers -> Job(mix.kinds)] /\ SameWork(job'[w], job[w])
        /\ \A v \in Workers \ {w} : job'[v] = job[v]
    BY <1>1, Checked DEF Core
  <1>3. Working(w)'
    BY <1>1, <1>2, WorkGoesOn DEF Core, Grows
  <1> QED
    BY <1>1, <1>2, <1>3, ReadKeeps

\* A request that is given up changes nothing.
LEMMA AbortKeeps ==
  ASSUME Core, NEW w \in Workers, Abort(w)
  PROVE  Core'
  <1>1. Done(w) /\ UNCHANGED <<mix, orders, items, receipts, returns, stock>>
    BY DEF Abort
  <1>2. /\ job' \in [Workers -> Job(mix.kinds)]
        /\ job'[w] = Idle /\ \A v \in Workers \ {w} : job'[v] = job[v]
    BY <1>1, DoneIdles DEF Core
  <1>3. Working(w)'
    BY <1>1, <1>2, WorkGoesOn DEF Core, Grows
  <1> QED
    BY <1>1, <1>2, <1>3, ReadKeeps

-----------------------------------------------------------------------------
(* Steps that write. *)

\* What a step that deletes nothing must see to.
LEMMA WriteKeeps ==
  ASSUME Core, Rows', LinesSound', UNCHANGED mix,
         \A v \in Workers : job'[v] = Idle \/ SameWork(job'[v], job[v]),
         \A o \in Orders : orders'[o] = "NONE" => orders[o] = "NONE",
         DOMAIN receipts \subseteq DOMAIN receipts',
         DOMAIN returns \subseteq DOMAIN returns',
         \A n \in DOMAIN receipts : receipts[n].status # Gone => receipts'[n].status # Gone,
         \A n \in DOMAIN receipts', i \in Items :
           receipts'[n].status # Gone /\ receipts'[n].lines[i] > 0 =>
             \/ n \in DOMAIN receipts /\ receipts[n].status # Gone /\ receipts[n].lines[i] > 0
             \/ \A o \in Orders : i \in ItemsOf[o] => orders[o] # "NONE",
         \A i \in Items :
           \/ items'[i].received = items[i].received /\ items'[i].returned = items[i].returned
           \/ items'[i].received = 0 /\ items'[i].returned = 0
           \/ \A o \in Orders : i \in ItemsOf[o] => orders[o] # "NONE"
  PROVE  Core'
  <1>1. Grows
    BY DEF Grows
  <1>2. Jobs'
    BY <1>1, WorkGoesOn DEF Core, Jobs
  <1>3. \A o \in Orders : ItemsOf[o] \in SUBSET Items
    BY RowTypes DEF Core
  <1>4. Present'
    BY <1>3 DEF Core, Present
  <1>5. Blank'
    BY <1>3 DEF Core, Blank
  <1> QED
    BY <1>2, <1>4, <1>5 DEF Core

\* A line belongs to one order.
LEMMA OneOrder ==
  \A o \in Orders, p \in Orders : \A i \in ItemsOf[o] : i \in ItemsOf[p] => o = p
  BY PlansAssumption

\* The order of a request is given the status the request is for.
LEMMA OrdersSet ==
  ASSUME Core, NEW w \in Workers, job[w].kind \in OrderWork, SetStatus(w)
  PROVE  /\ job[w].order \in Orders /\ job[w].to \in OrderStatus \ {"NONE"}
         /\ orders' \in [Orders -> OrderStatus]
         /\ orders'[job[w].order] = job[w].to
         /\ \A o \in Orders \ {job[w].order} : orders'[o] = orders[o]
         /\ \A o \in Orders : orders'[o] = "NONE" => orders[o] = "NONE"
  <1>1. job[w].order \in Orders /\ job[w].to \in OrderStatus \ {"NONE"}
    BY DEF Core, Jobs, Working
  <1> QED
    BY <1>1 DEF SetStatus, Core, Rows

\* A status is written and nothing else.
LEMMA StatusKeeps ==
  ASSUME Core, NEW w \in Workers, job[w].kind \in OrderWork, SetStatus(w), Done(w),
         UNCHANGED <<mix, items, receipts, returns, stock>>
  PROVE  Core'
  <1>1. /\ orders' \in [Orders -> OrderStatus]
        /\ \A o \in Orders : orders'[o] = "NONE" => orders[o] = "NONE"
    BY OrdersSet
  <1>2. /\ job' \in [Workers -> Job(mix.kinds)]
        /\ \A v \in Workers : job'[v] = Idle \/ SameWork(job'[v], job[v])
    BY DoneIdles DEF Core, SameWork
  <1>3. Rows' /\ LinesSound'
    BY <1>1, <1>2 DEF Core, Rows, LinesSound
  <1> QED
    BY <1>1, <1>2, <1>3, WriteKeeps

\* Requests that write the status of an order, no more.
LEMMA WriteStatusKeeps ==
  ASSUME Core, NEW w \in Workers,
         SubmitOrder(w) \/ ApproveOrder(w) \/ RejectOrder(w) \/ CloseOrder(w) \/ UpdateHeader(w)
  PROVE  Core'
  BY StatusKeeps DEF SubmitOrder, ApproveOrder, RejectOrder, CloseOrder, UpdateHeader,
                     WriteStatus, At, OrderWork

\* Lines that are new.
LEMMA Fresh ==
  ASSUME Core, NEW o \in Orders, NEW plan \in [Items -> Int], items' = FreshItems(o, plan)
  PROVE  /\ items' \in [Items -> Line] /\ LinesSound'
         /\ \A i \in ItemsOf[o] : /\ items'[i].received = 0 /\ items'[i].returned = 0
                                  /\ items'[i].quantity = plan[i]
         /\ \A i \in Items \ ItemsOf[o] : items'[i] = items[i]
  <1>1. \A i \in Items : items[i] \in Line
    BY RowTypes DEF Core
  <1>2. ItemsOf[o] \in SUBSET Items
    BY RowTypes DEF Core
  <1>3. \A i \in ItemsOf[o] : /\ items'[i] \in Line
                              /\ items'[i].received = 0 /\ items'[i].returned = 0
                              /\ items'[i].quantity = plan[i]
    BY <1>2 DEF FreshItems, Line
  <1>4. \A i \in Items \ ItemsOf[o] : items'[i] = items[i]
    BY DEF FreshItems
  <1>5. items' \in [Items -> Line]
    BY <1>1, <1>3, <1>4 DEF FreshItems
  <1>6. LinesSound'
    BY <1>3, <1>4 DEF LinesSound, Core, AtLeastZero, Line
  <1> QED
    BY <1>3, <1>4, <1>5, <1>6

\* An order is made with the lines of a plan.
LEMMA CreateOrderKeeps ==
  ASSUME Core, NEW w \in Workers, NEW o \in Orders, NEW plan \in Plans, CreateOrder(w, o, plan)
  PROVE  Core'
  <1>1. /\ orders' = [orders EXCEPT ![o] = "DRAFT"] /\ items' = FreshItems(o, plan)
        /\ UNCHANGED <<mix, receipts, returns, stock, job>>
    BY DEF CreateOrder
  <1>2. plan \in [Items -> Int]
    BY PlansAssumption
  <1>3. /\ items' \in [Items -> Line] /\ LinesSound'
        /\ \A i \in ItemsOf[o] : items'[i].received = 0 /\ items'[i].returned = 0
        /\ \A i \in Items \ ItemsOf[o] : items'[i] = items[i]
    BY <1>1, <1>2, Fresh
  <1>4. /\ orders' \in [Orders -> OrderStatus]
        /\ \A p \in Orders : orders'[p] = "NONE" => orders[p] = "NONE"
    BY <1>1 DEF Core, Rows, OrderStatus
  <1>5. Rows'
    BY <1>1, <1>3, <1>4 DEF Core, Rows
  <1> QED
    BY <1>1, <1>3, <1>4, <1>5, WriteKeeps DEF SameWork

\* An order is deleted, to which nothing refers.
LEMMA DestroyOrderKeeps ==
  ASSUME Core, NEW w \in Workers, NEW o \in Orders, DestroyOrder(w, o)
  PROVE  Core'
  <1> DEFINE plan == [i \in Items |-> 0]
  <1>1. /\ orders' = [orders EXCEPT ![o] = "NONE"] /\ items' = FreshItems(o, plan)
        /\ MayStart(w, "destroy") /\ LinesFree(o)
        /\ UNCHANGED <<mix, receipts, returns, stock, job>>
    BY DEF DestroyOrder
  <1>2. plan \in [Items -> Int]
    OBVIOUS
  <1> HIDE DEF plan
  <1>3. /\ items' \in [Items -> Line] /\ LinesSound'
        /\ \A i \in ItemsOf[o] : items'[i].received = 0 /\ items'[i].returned = 0
        /\ \A i \in Items \ ItemsOf[o] : items'[i] = items[i]
    BY <1>1, <1>2, Fresh
  <1>4. /\ orders' \in [Orders -> OrderStatus]
        /\ \A p \in Orders \ {o} : orders'[p] = orders[p]
    BY <1>1 DEF Core, Rows, OrderStatus
  <1>5. Rows'
    BY <1>1, <1>3, <1>4 DEF Core, Rows
  <1>6. Jobs'
    <2>1. \A v \in Workers : job[v] = Idle
      BY <1>1, NobodyWorks DEF Core, Deletions
    <2> QED
      BY <1>1, <2>1, IdleIsAJob DEF Jobs, Working, OrderWork, ReturnWork
  <1>7. Present'
    <2> SUFFICES ASSUME NEW n \in DOMAIN receipts, NEW p \in Orders, NEW i \in ItemsOf[p],
                        receipts[n].status # Gone, receipts[n].lines[i] > 0
                 PROVE  orders'[p] # "NONE"
      BY <1>1 DEF Present
    <2>1. receipts[n].lines[i] \in Nat
      BY RowTypes DEF Core, Receipt
    <2>2. p # o
      BY <1>1, <2>1 DEF LinesFree
    <2> QED
      BY <1>4, <2>2 DEF Core, Present
  <1>8. Blank'
    <2>1. \A p \in Orders : ItemsOf[p] \in SUBSET Items
      BY RowTypes DEF Core
    <2> QED
      BY <1>3, <1>4, <2>1 DEF Core, Blank
  <1> QED
    BY <1>3, <1>5, <1>6, <1>7, <1>8 DEF Core

\* The lines of an order are replaced.
LEMMA UpdateLinesKeeps ==
  ASSUME Core, NEW w \in Workers, NEW plan \in Plans, UpdateLines(w, plan)
  PROVE  Core'
  <1> DEFINE o == job[w].order
  <1>1. /\ job[w].kind = "update" /\ SetStatus(w) /\ items' = FreshItems(o, plan)
        /\ UNCHANGED <<mix, receipts, returns, stock>>
    BY DEF UpdateLines, At
  <1>2. /\ job' \in [Workers -> Job(mix.kinds)]
        /\ \A v \in Workers : job'[v] = Idle \/ SameWork(job'[v], job[v])
    BY IdleIsAJob DEF UpdateLines, Core, Rows, SameWork
  <1>3. /\ o \in Orders /\ orders' \in [Orders -> OrderStatus]
        /\ \A p \in Orders : orders'[p] = "NONE" => orders[p] = "NONE"
    BY <1>1, OrdersSet DEF OrderWork
  <1>4. plan \in [Items -> Int]
    BY PlansAssumption
  <1>5. /\ items' \in [Items -> Line] /\ LinesSound'
        /\ \A i \in ItemsOf[o] : items'[i].received = 0 /\ items'[i].returned = 0
        /\ \A i \in Items \ ItemsOf[o] : items'[i] = items[i]
    BY <1>1, <1>3, <1>4, Fresh
  <1>6. Rows'
    BY <1>1, <1>2, <1>3, <1>5 DEF Core, Rows
  <1> HIDE DEF o
  <1> QED
    BY <1>1, <1>2, <1>3, <1>5, <1>6, WriteKeeps

-----------------------------------------------------------------------------
(* Receipts. *)

\* What the making of a receipt does.
LEMMA CreatedReceipt ==
  ASSUME Core, NEW w \in Workers, NEW cart \in mix.carts, NEW r \in mix.warehouses,
         CreateReceipt(w, cart, r)
  PROVE  LET new == Len(receipts) + 1  o == job[w].order IN
         /\ o \in Orders /\ orders[o] # "NONE" /\ cart \in [Items -> Nat]
         /\ \A i \in Items \ ItemsOf[o] : cart[i] = 0
         /\ \E i \in ItemsOf[o] : cart[i] > 0
         /\ \A i \in ItemsOf[o] : cart[i] > 0 => cart[i] <= Receivable(i)
         /\ receipts' \in Seq(Receipt) /\ DOMAIN receipts' = DOMAIN receipts \cup {new}
         /\ new \notin DOMAIN receipts
         /\ \A n \in DOMAIN receipts : receipts'[n] = receipts[n]
         /\ receipts'[new].lines = cart /\ receipts'[new].status = "DRAFT"
         /\ receipts'[new].order = o
         /\ Done(w) /\ UNCHANGED <<mix, orders, items, returns, stock>>
  <1> DEFINE o == job[w].order
             new == [status |-> "DRAFT", order |-> o, warehouse |-> r, lines |-> cart,
                     billed |-> FALSE]
  <1>1. /\ job[w].kind = "create_receipt"
        /\ \A i \in Items \ ItemsOf[o] : cart[i] = 0
        /\ \E i \in ItemsOf[o] : cart[i] > 0
        /\ \A i \in ItemsOf[o] : cart[i] > 0 => cart[i] <= Receivable(i)
        /\ receipts' = Append(receipts, new) /\ Done(w)
        /\ UNCHANGED <<mix, orders, items, returns, stock>>
    BY DEF CreateReceipt, At
  <1>2. o \in Orders /\ orders[o] # "NONE"
    BY <1>1 DEF Core, Jobs, Working
  <1>3. cart \in [Items -> Nat] /\ r \in Warehouses
    BY RowTypes DEF Core
  <1>4. /\ new \in Receipt /\ new.lines = cart /\ new.status = "DRAFT" /\ new.order = o
    BY <1>2, <1>3 DEF Receipt, ReceiptStatus
  <1> HIDE DEF new, o
  <1>5. /\ receipts' \in Seq(Receipt) /\ DOMAIN receipts' = DOMAIN receipts \cup {Len(receipts) + 1}
        /\ \A n \in DOMAIN receipts : receipts'[n] = receipts[n]
        /\ receipts'[Len(receipts) + 1] = new
    BY <1>1, <1>4, RowMade DEF Core, Rows
  <1>6. Len(receipts) + 1 \notin DOMAIN receipts
    BY RowNumbers DEF Core, Rows
  <1> QED
    BY <1>1, <1>2, <1>3, <1>4, <1>5, <1>6 DEF o

\* A receipt is drafted, counted on the lines it names.
LEMMA CreateReceiptKeeps ==
  ASSUME Core, NEW w \in Workers, NEW cart \in mix.carts, NEW r \in mix.warehouses,
         CreateReceipt(w, cart, r)
  PROVE  Core'
  <1> DEFINE new == Len(receipts) + 1
             o == job[w].order
  <1>1. /\ o \in Orders /\ orders[o] # "NONE" /\ cart \in [Items -> Nat]
        /\ \A i \in Items \ ItemsOf[o] : cart[i] = 0
        /\ receipts' \in Seq(Receipt) /\ DOMAIN receipts' = DOMAIN receipts \cup {new}
        /\ \A n \in DOMAIN receipts : receipts'[n] = receipts[n]
        /\ receipts'[new].lines = cart
        /\ Done(w) /\ UNCHANGED <<mix, orders, items, returns, stock>>
    BY CreatedReceipt
  <1> HIDE DEF new, o
  <1>2. /\ job' \in [Workers -> Job(mix.kinds)]
        /\ \A v \in Workers : job'[v] = Idle \/ SameWork(job'[v], job[v])
    BY <1>1, DoneIdles DEF Core, SameWork
  <1>3. Rows' /\ LinesSound'
    BY <1>1, <1>2 DEF Core, Rows, LinesSound
  <1>4. ASSUME NEW n \in DOMAIN receipts', NEW i \in Items, receipts'[n].lines[i] > 0,
               receipts'[n].status # Gone
        PROVE  \/ n \in DOMAIN receipts /\ receipts[n].status # Gone /\ receipts[n].lines[i] > 0
               \/ \A p \in Orders : i \in ItemsOf[p] => orders[p] # "NONE"
    <2>1. CASE n = new
      <3>1. i \in ItemsOf[o]
        BY <1>1, <1>4, <2>1
      <3> QED
        BY <1>1, <3>1, OneOrder
    <2> QED
      BY <1>1, <1>4, <2>1
  <1> QED
    BY <1>1, <1>2, <1>3, <1>4, WriteKeeps

\* Receipts that keep their lines and that nobody deletes.
LEMMA ReceiptsKeep ==
  ASSUME Core, Rows', LinesSound', UNCHANGED mix,
         \A v \in Workers : job'[v] = Idle \/ SameWork(job'[v], job[v]),
         \A o \in Orders : orders'[o] = "NONE" => orders[o] = "NONE",
         DOMAIN receipts' = DOMAIN receipts,
         DOMAIN returns \subseteq DOMAIN returns',
         \A n \in DOMAIN receipts : /\ receipts[n].status # Gone <=> receipts'[n].status # Gone
                                    /\ receipts'[n].lines = receipts[n].lines,
         \A i \in Items :
           \/ items'[i].received = items[i].received /\ items'[i].returned = items[i].returned
           \/ items'[i].received = 0 /\ items'[i].returned = 0
           \/ \A o \in Orders : i \in ItemsOf[o] => orders[o] # "NONE"
  PROVE  Core'
  BY WriteKeeps

\* A receipt is cancelled, and no longer counted.
LEMMA CancelReceiptKeeps ==
  ASSUME Core, NEW w \in Workers, CancelReceipt(w)
  PROVE  Core'
  <1> DEFINE n == job[w].number
  <1>1. /\ job[w].kind = "cancel_receipt"
        /\ receipts' = [receipts EXCEPT ![n].status = "CANCELLED"] /\ Done(w)
        /\ UNCHANGED <<mix, orders, items, returns, stock>>
    BY DEF CancelReceipt, At
  <1>2. n \in DOMAIN receipts /\ receipts[n].status # Gone
    BY <1>1 DEF Core, Jobs, Working
  <1> HIDE DEF n
  <1>3. \A k \in DOMAIN receipts : receipts[k] \in Receipt
    BY RowTypes DEF Core
  <1>4. /\ DOMAIN receipts' = DOMAIN receipts
        /\ \A k \in DOMAIN receipts \ {n} : receipts'[k] = receipts[k]
        /\ receipts'[n] = [receipts[n] EXCEPT !.status = "CANCELLED"]
    BY <1>1, <1>2
  <1>5. /\ receipts'[n] \in Receipt /\ receipts'[n].lines = receipts[n].lines
        /\ receipts'[n].status # Gone
    BY <1>2, <1>3, <1>4 DEF Receipt, ReceiptStatus, Gone
  <1>6. receipts' \in Seq(Receipt)
    <2>1. receipts' \in [DOMAIN receipts -> Receipt]
      BY <1>1, <1>3, <1>4, <1>5
    <2> QED
      BY <2>1, RowsKept DEF Core, Rows
  <1>7. /\ job' \in [Workers -> Job(mix.kinds)]
        /\ \A v \in Workers : job'[v] = Idle \/ SameWork(job'[v], job[v])
    BY <1>1, DoneIdles DEF Core, SameWork
  <1>8. Rows' /\ LinesSound'
    BY <1>1, <1>6, <1>7 DEF Core, Rows, LinesSound
  <1>9. \A k \in DOMAIN receipts : /\ receipts[k].status # Gone <=> receipts'[k].status # Gone
                                   /\ receipts'[k].lines = receipts[k].lines
    BY <1>2, <1>4, <1>5
  <1> QED
    BY <1>1, <1>4, <1>7, <1>8, <1>9, ReceiptsKeep

\* What a cancellation of an order makes of the receipts.
LEMMA DraftsAreCancelled ==
  ASSUME Core, NEW o, receipts' = DraftsCancelled(o)
  PROVE  /\ receipts' \in Seq(Receipt) /\ DOMAIN receipts' = DOMAIN receipts
         /\ \A n \in DOMAIN receipts :
              /\ receipts'[n].lines = receipts[n].lines
              /\ receipts'[n].order = receipts[n].order
              /\ receipts'[n].billed = receipts[n].billed
              /\ receipts'[n].status = IF receipts[n].order = o /\ receipts[n].status = "DRAFT"
                                       THEN "CANCELLED" ELSE receipts[n].status
  <1>1. \A n \in DOMAIN receipts : receipts[n] \in Receipt
    BY RowTypes DEF Core
  <1>2. ASSUME NEW n \in DOMAIN receipts
        PROVE  /\ receipts'[n] \in Receipt
               /\ receipts'[n].lines = receipts[n].lines
               /\ receipts'[n].order = receipts[n].order
               /\ receipts'[n].billed = receipts[n].billed
               /\ receipts'[n].status = IF receipts[n].order = o /\ receipts[n].status = "DRAFT"
                                        THEN "CANCELLED" ELSE receipts[n].status
    BY <1>1 DEF DraftsCancelled, Receipt, ReceiptStatus
  <1>3. receipts' \in [DOMAIN receipts -> Receipt]
    BY <1>2 DEF DraftsCancelled
  <1>4. receipts' \in Seq(Receipt) /\ DOMAIN receipts' = DOMAIN receipts
    BY <1>3, RowsKept DEF Core, Rows
  <1> QED
    BY <1>2, <1>4

\* An order is cancelled, and its drafts with it.
LEMMA CancelOrderKeeps ==
  ASSUME Core, NEW w \in Workers, CancelOrder(w)
  PROVE  Core'
  <1>1. /\ job[w].kind = "cancel" /\ receipts' = DraftsCancelled(job[w].order)
        /\ SetStatus(w) /\ Done(w) /\ UNCHANGED <<mix, items, returns, stock>>
    BY DEF CancelOrder, At
  <1>2. /\ receipts' \in Seq(Receipt) /\ DOMAIN receipts' = DOMAIN receipts
        /\ \A n \in DOMAIN receipts :
             /\ receipts'[n].lines = receipts[n].lines
             /\ receipts'[n].status \in {receipts[n].status, "CANCELLED"}
             /\ receipts'[n].status = receipts[n].status \/ receipts[n].status = "DRAFT"
    BY <1>1, DraftsAreCancelled
  <1>3. /\ orders' \in [Orders -> OrderStatus]
        /\ \A o \in Orders : orders'[o] = "NONE" => orders[o] = "NONE"
    BY <1>1, OrdersSet DEF OrderWork
  <1>4. /\ job' \in [Workers -> Job(mix.kinds)]
        /\ \A v \in Workers : job'[v] = Idle \/ SameWork(job'[v], job[v])
    BY <1>1, DoneIdles DEF Core, SameWork
  <1>5. Rows' /\ LinesSound'
    BY <1>1, <1>2, <1>3, <1>4 DEF Core, Rows, LinesSound
  <1>6. \A n \in DOMAIN receipts : /\ receipts[n].status # Gone <=> receipts'[n].status # Gone
                                   /\ receipts'[n].lines = receipts[n].lines
    BY <1>2 DEF Gone
  <1> QED
    BY <1>1, <1>2, <1>3, <1>4, <1>5, <1>6, ReceiptsKeep

\* The view's update replaces the status, order and warehouse of a receipt.
LEMMA EditReceiptKeeps ==
  ASSUME Core, NEW w \in Workers, NEW n \in DOMAIN receipts, NEW status \in ReceiptStatus,
         NEW o \in Orders, NEW r \in mix.warehouses, EditReceipt(w, n, status, o, r)
  PROVE  Core'
  <1>1. /\ receipts[n].status # Gone
        /\ receipts' = [receipts EXCEPT ![n].status = status, ![n].order = o,
                                        ![n].warehouse = r]
        /\ UNCHANGED <<mix, orders, items, returns, stock, job>>
    BY DEF EditReceipt
  <1>2. \A k \in DOMAIN receipts : receipts[k] \in Receipt
    BY RowTypes DEF Core
  <1>3. r \in Warehouses /\ status # Gone
    BY RowTypes DEF Core, ReceiptStatus, Gone
  <1>4. /\ DOMAIN receipts' = DOMAIN receipts
        /\ \A k \in DOMAIN receipts \ {n} : receipts'[k] = receipts[k]
        /\ receipts'[n] = [receipts[n] EXCEPT !.status = status, !.order = o, !.warehouse = r]
    BY <1>1
  <1>5. /\ receipts'[n] \in Receipt /\ receipts'[n].lines = receipts[n].lines
        /\ receipts'[n].status # Gone
    BY <1>2, <1>3, <1>4 DEF Receipt
  <1>6. receipts' \in Seq(Receipt)
    <2>1. receipts' \in [DOMAIN receipts -> Receipt]
      BY <1>1, <1>2, <1>4, <1>5
    <2> QED
      BY <2>1, RowsKept DEF Core, Rows
  <1>7. Rows' /\ LinesSound'
    BY <1>1, <1>6 DEF Core, Rows, LinesSound
  <1>8. \A k \in DOMAIN receipts : /\ receipts[k].status # Gone <=> receipts'[k].status # Gone
                                   /\ receipts'[k].lines = receipts[k].lines
    BY <1>1, <1>4, <1>5
  <1> QED
    BY <1>1, <1>4, <1>7, <1>8, ReceiptsKeep DEF SameWork

\* A receipt is deleted.
LEMMA DestroyReceiptKeeps ==
  ASSUME Core, NEW w \in Workers, NEW n \in DOMAIN receipts, DestroyReceipt(w, n)
  PROVE  Core'
  <1>1. /\ MayStart(w, "destroy_receipt")
        /\ receipts' = [receipts EXCEPT ![n].status = Gone]
        /\ UNCHANGED <<mix, orders, items, returns, stock, job>>
    BY DEF DestroyReceipt
  <1>2. \A k \in DOMAIN receipts : receipts[k] \in Receipt
    BY RowTypes DEF Core
  <1>3. /\ DOMAIN receipts' = DOMAIN receipts
        /\ \A k \in DOMAIN receipts \ {n} : receipts'[k] = receipts[k]
        /\ receipts'[n] = [receipts[n] EXCEPT !.status = Gone]
    BY <1>1
  <1>4. receipts'[n] \in Receipt /\ receipts'[n].status = Gone
    BY <1>2, <1>3 DEF Receipt
  <1>5. receipts' \in Seq(Receipt)
    <2>1. receipts' \in [DOMAIN receipts -> Receipt]
      BY <1>1, <1>2, <1>3, <1>4
    <2> QED
      BY <2>1, RowsKept DEF Core, Rows
  <1>6. Rows' /\ LinesSound' /\ Blank'
    BY <1>1, <1>5 DEF Core, Rows, LinesSound, Blank
  <1>7. Jobs'
    <2>1. \A v \in Workers : job[v] = Idle
      BY <1>1, NobodyWorks DEF Core, Deletions
    <2> QED
      BY <1>1, <2>1, IdleIsAJob DEF Jobs, Working, OrderWork, ReturnWork
  <1>8. Present'
    BY <1>1, <1>3, <1>4 DEF Core, Present
  <1> QED
    BY <1>6, <1>7, <1>8 DEF Core

\* Goods that come in or go out of a position.
LEMMA StockChanged ==
  ASSUME Rows, NEW r \in Warehouses, NEW q \in Int,
         stock' = [stock EXCEPT ![r] = ChangeStock(stock[r], q)]
  PROVE  /\ stock' \in [Warehouses -> Positions]
         /\ stock'[r].current = stock[r].current + q
         /\ \A s \in Warehouses \ {r} : stock'[s] = stock[s]
  <1>1. stock[r] \in Positions
    BY DEF Rows
  <1>2. stock'[r] = [stock[r] EXCEPT !.exists = TRUE, !.current = stock[r].current + q]
    BY DEF Rows, ChangeStock
  <1>3. stock'[r].current = stock[r].current + q
    BY <1>1, <1>2 DEF Positions
  <1>4. stock'[r] \in Positions
    <2>1. stock[r].current + q \in Int
      BY <1>1 DEF Positions
    <2> DEFINE c == stock[r].current + q
    <2>2. stock'[r] = [stock[r] EXCEPT !.exists = TRUE, !.current = c]
      BY <1>2
    <2> HIDE DEF c
    <2>3. c \in Int
      BY <2>1 DEF c
    <2> QED
      BY <1>1, <2>2, <2>3, ZenonT(60) DEF Positions
  <1> QED
    BY <1>3, <1>4 DEF Rows

\* What the execution of a receipt does to the lines and the rows.
LEMMA Executed ==
  ASSUME Core, NEW w \in Workers, ExecuteReceipt(w)
  PROVE  LET n == job[w].number  r == receipts[n]  q == SumFunction(r.lines) IN
         /\ job[w].kind = "complete_receipt"
         /\ n \in DOMAIN receipts /\ r \in Receipt /\ r.status = "DRAFT" /\ q \in Nat
         /\ stock' \in [Warehouses -> Positions]
         /\ stock'[r.warehouse].current = stock[r.warehouse].current + q
         /\ \A s \in Warehouses \ {r.warehouse} : stock'[s] = stock[s]
         /\ items' \in [Items -> Line]
         /\ \A i \in Items : /\ items'[i].quantity = items[i].quantity
                             /\ items'[i].returned = items[i].returned
                             /\ items'[i].received = items[i].received + r.lines[i]
                             /\ items'[i].received <= AtLeastZero(items'[i].quantity)
         /\ receipts' \in Seq(Receipt) /\ DOMAIN receipts' = DOMAIN receipts
         /\ \A k \in DOMAIN receipts \ {n} : receipts'[k] = receipts[k]
         /\ receipts'[n].lines = r.lines /\ receipts'[n].status = "COMPLETED"
         /\ receipts'[n].order = r.order /\ receipts'[n].billed = (r.billed \/ mix.billing)
         /\ orders' \in [Orders -> OrderStatus]
         /\ orders'[r.order] = ReceivedStatus(r.order, items')
         /\ \A o \in Orders \ {r.order} : orders'[o] = orders[o]
         /\ Done(w) /\ UNCHANGED <<mix, returns>>
  <1> DEFINE n     == job[w].number
             r     == receipts[n]
             named == {i \in Items : r.lines[i] > 0}
             q     == SumFunction(r.lines)
  <1>1. /\ job[w].kind = "complete_receipt" /\ r.status = "DRAFT"
        /\ \A i \in named : Fits(items[i], r.lines[i])
        /\ stock' = [stock EXCEPT ![r.warehouse] = ChangeStock(@, q)]
        /\ items' = [i \in Items |-> IF i \in named THEN Received(items[i], r.lines[i])
                                                    ELSE items[i]]
        /\ receipts' = [receipts EXCEPT ![n].status = "COMPLETED",
                                        ![n].billed = @ \/ mix.billing]
        /\ orders' = [orders EXCEPT ![r.order] = ReceivedStatus(r.order, items')]
        /\ Done(w) /\ UNCHANGED <<mix, returns>>
    BY DEF ExecuteReceipt, At, StillDraft
  <1>2. /\ n \in DOMAIN receipts /\ \A k \in DOMAIN receipts : receipts[k] \in Receipt
        /\ \A i \in Items : items[i] \in Line
    BY <1>1, RowTypes DEF Core, Jobs, Working
  <1>3. /\ r \in Receipt /\ r.lines \in [Items -> Nat] /\ r.warehouse \in Warehouses
        /\ r.order \in Orders
    BY <1>2 DEF Receipt
  <1> HIDE DEF r
  <1>4. q \in Nat
    BY <1>3, PlansAssumption, SumType
  <1> HIDE DEF q
  <1>5. /\ stock' \in [Warehouses -> Positions]
        /\ stock'[r.warehouse].current = stock[r.warehouse].current + q
        /\ \A s \in Warehouses \ {r.warehouse} : stock'[s] = stock[s]
    <2>1. stock' = [stock EXCEPT ![r.warehouse] = ChangeStock(stock[r.warehouse], q)]
      BY <1>1, <1>3 DEF Core, Rows
    <2>2. q \in Int
      BY <1>4
    <2> QED
      BY <1>3, <2>1, <2>2, StockChanged DEF Core
  <1>6. ASSUME NEW i \in Items
        PROVE  /\ items'[i] \in Line
               /\ items'[i].quantity = items[i].quantity
               /\ items'[i].returned = items[i].returned
               /\ items'[i].received = items[i].received + r.lines[i]
               /\ items'[i].received <= AtLeastZero(items'[i].quantity)
    <2>1. items[i] \in Line /\ r.lines[i] \in Nat /\ items[i].received <= AtLeastZero(items[i].quantity)
      BY <1>2, <1>3 DEF Core, LinesSound
    <2>2. CASE r.lines[i] > 0
      <3>1. /\ items'[i] = [items[i] EXCEPT !.received = items[i].received + r.lines[i]]
            /\ items[i].received + r.lines[i] <= items[i].quantity
        BY <1>1, <2>2 DEF Received, Fits
      <3> QED
        BY <2>1, <3>1 DEF Line, AtLeastZero
    <2>3. CASE ~ (r.lines[i] > 0)
      <3>1. items'[i] = items[i] /\ r.lines[i] = 0
        BY <1>1, <2>1, <2>3
      <3> QED
        BY <2>1, <3>1 DEF Line
    <2> QED
      BY <2>2, <2>3
  <1>7. items' \in [Items -> Line]
    <2> HIDE DEF named
    <2> QED
      BY <1>1, <1>6
  <1>8. /\ DOMAIN receipts' = DOMAIN receipts
        /\ \A k \in DOMAIN receipts \ {n} : receipts'[k] = receipts[k]
        /\ receipts'[n] = [r EXCEPT !.status = "COMPLETED", !.billed = r.billed \/ mix.billing]
    BY <1>1, <1>2 DEF r
  <1>9. /\ receipts'[n] \in Receipt
        /\ receipts'[n].lines = r.lines /\ receipts'[n].status = "COMPLETED"
        /\ receipts'[n].order = r.order /\ receipts'[n].billed = (r.billed \/ mix.billing)
    BY <1>3, <1>8 DEF Receipt, ReceiptStatus
  <1>10. receipts' \in Seq(Receipt)
    <2>1. receipts' \in [DOMAIN receipts -> Receipt]
      BY <1>1, <1>2, <1>8, <1>9
    <2> QED
      BY <2>1, RowsKept DEF Core, Rows
  <1>11. /\ orders' \in [Orders -> OrderStatus]
         /\ orders'[r.order] = ReceivedStatus(r.order, items')
         /\ \A o \in Orders \ {r.order} : orders'[o] = orders[o]
    <2>1. ReceivedStatus(r.order, items') \in OrderStatus
      BY DEF ReceivedStatus, OrderStatus
    <2> QED
      BY <1>1, <1>3, <2>1 DEF Core, Rows
  <1> QED
    BY <1>1, <1>2, <1>3, <1>4, <1>5, <1>6, <1>7, <1>8, <1>9, <1>10, <1>11 DEF r, q

\* A receipt is executed: stock, lines and order.
LEMMA ExecuteReceiptKeeps ==
  ASSUME Core, NEW w \in Workers, ExecuteReceipt(w)
  PROVE  Core'
  <1> DEFINE n == job[w].number
             r == receipts[n]
  <1>1. /\ n \in DOMAIN receipts /\ r \in Receipt /\ r.status = "DRAFT"
        /\ stock' \in [Warehouses -> Positions] /\ items' \in [Items -> Line]
        /\ \A i \in Items : /\ items'[i].quantity = items[i].quantity
                            /\ items'[i].returned = items[i].returned
                            /\ items'[i].received = items[i].received + r.lines[i]
                            /\ items'[i].received <= AtLeastZero(items'[i].quantity)
    BY Executed
  <1>2. /\ receipts' \in Seq(Receipt) /\ DOMAIN receipts' = DOMAIN receipts
        /\ \A k \in DOMAIN receipts \ {n} : receipts'[k] = receipts[k]
        /\ receipts'[n].lines = r.lines /\ receipts'[n].status = "COMPLETED"
        /\ orders' \in [Orders -> OrderStatus]
        /\ orders'[r.order] = ReceivedStatus(r.order, items')
        /\ \A o \in Orders \ {r.order} : orders'[o] = orders[o]
        /\ Done(w) /\ UNCHANGED <<mix, returns>>
    BY Executed
  <1>3. /\ job' \in [Workers -> Job(mix.kinds)]
        /\ \A v \in Workers : job'[v] = Idle \/ SameWork(job'[v], job[v])
    BY <1>2, DoneIdles DEF Core, SameWork
  <1>4. \A i \in Items : items[i] \in Line /\ r.lines[i] \in Nat
    BY <1>1, RowTypes DEF Core, Receipt
  <1>5. LinesSound'
    BY <1>1, <1>4 DEF Core, LinesSound, Line
  <1>6. Rows'
    BY <1>1, <1>2, <1>3 DEF Core, Rows
  <1>7. \A o \in Orders : orders'[o] = "NONE" => orders[o] = "NONE"
    BY <1>2 DEF ReceivedStatus
  <1>8. \A k \in DOMAIN receipts : /\ receipts[k].status # Gone <=> receipts'[k].status # Gone
                                   /\ receipts'[k].lines = receipts[k].lines
    BY <1>1, <1>2 DEF Gone
  <1>9. ASSUME NEW i \in Items
        PROVE  \/ items'[i].received = items[i].received /\ items'[i].returned = items[i].returned
               \/ \A o \in Orders : i \in ItemsOf[o] => orders[o] # "NONE"
    <2>1. CASE r.lines[i] = 0
      BY <1>1, <1>4, <2>1 DEF Line
    <2>2. CASE r.lines[i] > 0
      BY <1>1, <2>2 DEF Core, Present, Gone
    <2> QED
      BY <1>4, <2>1, <2>2
  <1> HIDE DEF n, r
  <1> QED
    BY <1>2, <1>3, <1>5, <1>6, <1>7, <1>8, <1>9, ReceiptsKeep

-----------------------------------------------------------------------------
(* Returns. *)

\* Steps that touch returns only.
LEMMA ReturnsKeep ==
  ASSUME Core, UNCHANGED <<mix, orders, items, receipts, stock>>,
         job' \in [Workers -> Job(mix.kinds)],
         \A v \in Workers : job'[v] = Idle \/ SameWork(job'[v], job[v]),
         returns' \in Seq(Return), DOMAIN returns \subseteq DOMAIN returns'
  PROVE  Core'
  <1>1. Rows' /\ LinesSound'
    BY DEF Core, Rows, LinesSound
  <1> QED
    BY <1>1, ReceiptsKeep

\* One return is written.
ReturnWritten(n, status, o) ==
  /\ n \in DOMAIN returns /\ returns[n] \in Return
  /\ returns' \in Seq(Return) /\ DOMAIN returns' = DOMAIN returns
  /\ \A k \in DOMAIN returns \ {n} : returns'[k] = returns[k]
  /\ returns'[n].status = status /\ returns'[n].order = o /\ returns'[n].qty = returns[n].qty

\* A return is saved with another status, order or warehouse.
LEMMA WriteReturn ==
  ASSUME Core, NEW n \in DOMAIN returns, NEW status \in ReturnStatus \cup {Gone},
         NEW o \in Orders, NEW r \in Warehouses,
         \/ /\ o = returns[n].order
            /\ returns' = [returns EXCEPT ![n].status = status]
         \/ returns' = [returns EXCEPT ![n].status = status, ![n].order = o,
                                       ![n].warehouse = r]
  PROVE  ReturnWritten(n, status, o)
  <1>1. \A k \in DOMAIN returns : returns[k] \in Return
    BY RowTypes DEF Core
  <1>2. /\ DOMAIN returns' = DOMAIN returns
        /\ \A k \in DOMAIN returns \ {n} : returns'[k] = returns[k]
        /\ \/ o = returns[n].order /\ returns'[n] = [returns[n] EXCEPT !.status = status]
           \/ returns'[n] = [returns[n] EXCEPT !.status = status, !.order = o, !.warehouse = r]
    OBVIOUS
  <1>3. /\ returns'[n] \in Return
        /\ returns'[n].status = status /\ returns'[n].order = o
        /\ returns'[n].qty = returns[n].qty
    BY <1>1, <1>2 DEF Return
  <1>4. returns' \in Seq(Return)
    <2>1. returns' \in [DOMAIN returns -> Return]
      BY <1>1, <1>2, <1>3
    <2> QED
      BY <2>1, RowsKept DEF Core, Rows
  <1> QED
    BY <1>1, <1>2, <1>3, <1>4 DEF ReturnWritten

\* A return is drafted.
LEMMA CreatedReturn ==
  ASSUME Core, NEW w \in Workers, CreateReturn(w)
  PROVE  LET new == Len(returns) + 1 IN
         /\ job[w].kind = "create_return" /\ job[w].phase = "checked"
         /\ returns' \in Seq(Return) /\ DOMAIN returns' = DOMAIN returns \cup {new}
         /\ new \notin DOMAIN returns
         /\ \A n \in DOMAIN returns : returns'[n] = returns[n]
         /\ returns'[new].status = "DRAFT" /\ returns'[new].order = job[w].order
         /\ returns'[new].qty = job[w].qty
         /\ Done(w) /\ UNCHANGED <<mix, orders, items, receipts, stock>>
  <1> DEFINE new == [status |-> "DRAFT", order |-> job[w].order,
                     warehouse |-> job[w].warehouse, qty |-> job[w].qty]
  <1>1. /\ job[w].kind = "create_return" /\ job[w].phase = "checked"
        /\ returns' = Append(returns, new) /\ Done(w)
        /\ UNCHANGED <<mix, orders, items, receipts, stock>>
    BY DEF CreateReturn, At
  <1>2. /\ job[w].order \in Orders /\ job[w].warehouse \in Warehouses
        /\ job[w].qty \in Nat \ {0}
    BY <1>1 DEF Core, Jobs, Working
  <1>3. /\ new \in Return /\ new.status = "DRAFT" /\ new.order = job[w].order
        /\ new.qty = job[w].qty
    BY <1>2 DEF Return, ReturnStatus
  <1> HIDE DEF new
  <1>4. /\ returns' \in Seq(Return) /\ DOMAIN returns' = DOMAIN returns \cup {Len(returns) + 1}
        /\ \A n \in DOMAIN returns : returns'[n] = returns[n]
        /\ returns'[Len(returns) + 1] = new
    BY <1>1, <1>3, RowMade DEF Core, Rows
  <1>5. Len(returns) + 1 \notin DOMAIN returns
    BY RowNumbers DEF Core, Rows
  <1> QED
    BY <1>1, <1>3, <1>4, <1>5

\* The writes of the methods that save a return, and what they write.
LEMMA SavedReturn ==
  ASSUME Core, NEW w \in Workers,
         \/ SubmitReturn(w) \/ ApproveReturn(w) \/ CancelReturn(w)
         \/ \E o \in Orders, r \in mix.warehouses : EditReturn(w, o, r)
  PROVE  LET n == job[w].number IN
         /\ Done(w) /\ UNCHANGED <<mix, orders, items, receipts, stock>>
         /\ \/ /\ job[w].kind = "submit_return"
               /\ \E status \in {"PENDING_APPROVAL", "APPROVED"} :
                    ReturnWritten(n, status, returns[n].order)
            \/ /\ job[w].kind = "approve_return"
               /\ ReturnWritten(n, "APPROVED", returns[n].order)
            \/ /\ job[w].kind = "cancel_return"
               /\ ReturnWritten(n, "CANCELLED", job[w].order)
            \/ /\ job[w].kind = "edit_return"
               /\ \E o \in Orders : ReturnWritten(n, job[w].to, o)
  <1> DEFINE n == job[w].number
  <1>1. ASSUME job[w].kind \in ReturnWork
        PROVE  /\ n \in DOMAIN returns /\ returns[n].order \in Orders
               /\ returns[n].warehouse \in Warehouses
               /\ job[w].order \in Orders /\ job[w].warehouse \in Warehouses
               /\ job[w].to \in ReturnStatus
    <2>1. /\ n \in DOMAIN returns /\ job[w].order \in Orders
          /\ job[w].warehouse \in Warehouses /\ job[w].to \in ReturnStatus
      BY <1>1 DEF Core, Jobs, Working
    <2>2. returns[n] \in Return
      BY <2>1, RowTypes DEF Core
    <2> QED
      BY <2>1, <2>2 DEF Return
  <1>2. CASE SubmitReturn(w)
    <2>1. PICK status \in {"PENDING_APPROVAL", "APPROVED"} : SaveReturn(w, status)
      BY <1>2 DEF SubmitReturn
    <2>2. /\ job[w].kind = "submit_return" /\ returns' = [returns EXCEPT ![n].status = status]
          /\ Done(w) /\ UNCHANGED <<mix, orders, items, receipts, stock>>
      BY <1>2, <2>1 DEF SubmitReturn, SaveReturn, At
    <2>3. status \in ReturnStatus \cup {Gone}
      BY DEF ReturnStatus
    <2>4. ReturnWritten(n, status, returns[n].order)
      BY <1>1, <2>2, <2>3, WriteReturn DEF ReturnWork
    <2> QED
      BY <2>2, <2>4
  <1>3. CASE ApproveReturn(w)
    <2>1. /\ job[w].kind = "approve_return"
          /\ returns' = [returns EXCEPT ![n].status = "APPROVED"]
          /\ Done(w) /\ UNCHANGED <<mix, orders, items, receipts, stock>>
      BY <1>3 DEF ApproveReturn, SaveReturn, At
    <2>2. "APPROVED" \in ReturnStatus \cup {Gone}
      BY DEF ReturnStatus
    <2>3. ReturnWritten(n, "APPROVED", returns[n].order)
      BY <1>1, <2>1, <2>2, WriteReturn DEF ReturnWork
    <2> QED
      BY <2>1, <2>3
  <1>4. CASE CancelReturn(w)
    <2>1. /\ job[w].kind = "cancel_return"
          /\ returns' = [returns EXCEPT ![n].status = "CANCELLED", ![n].order = job[w].order,
                                        ![n].warehouse = job[w].warehouse]
          /\ Done(w) /\ UNCHANGED <<mix, orders, items, receipts, stock>>
      BY <1>4 DEF CancelReturn, At
    <2>2. "CANCELLED" \in ReturnStatus \cup {Gone}
      BY DEF ReturnStatus
    <2>3. ReturnWritten(n, "CANCELLED", job[w].order)
      BY <1>1, <2>1, <2>2, WriteReturn DEF ReturnWork
    <2> QED
      BY <2>1, <2>3
  <1>5. ASSUME NEW o \in Orders, NEW r \in mix.warehouses, EditReturn(w, o, r)
        PROVE  /\ job[w].kind = "edit_return" /\ ReturnWritten(n, job[w].to, o)
               /\ Done(w) /\ UNCHANGED <<mix, orders, items, receipts, stock>>
    <2>1. /\ job[w].kind = "edit_return"
          /\ returns' = [returns EXCEPT ![n].status = job[w].to, ![n].order = o,
                                        ![n].warehouse = r]
          /\ Done(w) /\ UNCHANGED <<mix, orders, items, receipts, stock>>
      BY <1>5 DEF EditReturn, At
    <2>2. r \in Warehouses
      BY RowTypes DEF Core
    <2>3. job[w].to \in ReturnStatus \cup {Gone}
      BY <1>1, <2>1 DEF ReturnWork
    <2>4. ReturnWritten(n, job[w].to, o)
      BY <1>1, <2>1, <2>2, <2>3, WriteReturn DEF ReturnWork
    <2> QED
      BY <2>1, <2>4
  <1> QED
    BY <1>2, <1>3, <1>4, <1>5

\* The requests that save a return, no more.
LEMMA SaveReturnKeeps ==
  ASSUME Core, NEW w \in Workers,
         \/ CreateReturn(w) \/ SubmitReturn(w) \/ ApproveReturn(w) \/ CancelReturn(w)
         \/ \E o \in Orders, r \in mix.warehouses : EditReturn(w, o, r)
  PROVE  Core'
  <1>1. /\ Done(w) /\ UNCHANGED <<mix, orders, items, receipts, stock>>
        /\ returns' \in Seq(Return) /\ DOMAIN returns \subseteq DOMAIN returns'
    <2>1. CASE CreateReturn(w)
      BY <2>1, CreatedReturn
    <2>2. CASE ~ CreateReturn(w)
      <3>1. /\ Done(w) /\ UNCHANGED <<mix, orders, items, receipts, stock>>
            /\ \E n, status, o : ReturnWritten(n, status, o)
        BY <2>2, SavedReturn
      <3> QED
        BY <3>1 DEF ReturnWritten
    <2> QED
      BY <2>1, <2>2
  <1>2. /\ job' \in [Workers -> Job(mix.kinds)]
        /\ \A v \in Workers : job'[v] = Idle \/ SameWork(job'[v], job[v])
    BY <1>1, DoneIdles DEF Core, SameWork
  <1> QED
    BY <1>1, <1>2, ReturnsKeep

\* A return is deleted.
LEMMA DestroyReturnKeeps ==
  ASSUME Core, NEW w \in Workers, NEW n \in DOMAIN returns, DestroyReturn(w, n)
  PROVE  Core'
  <1>1. /\ returns' = [returns EXCEPT ![n].status = Gone]
        /\ UNCHANGED <<mix, orders, items, receipts, stock, job>>
    BY DEF DestroyReturn
  <1>2. returns[n] \in Return
    BY RowTypes DEF Core
  <1>3. ReturnWritten(n, Gone, returns[n].order)
    BY <1>1, <1>2, WriteReturn DEF Return
  <1> QED
    BY <1>1, <1>3, ReturnsKeep DEF ReturnWritten, SameWork, Core, Rows

\* What a quantity takes of the lines of an order.
LEMMA AllocatedTakes ==
  ASSUME Core, NEW o \in Orders, NEW qty \in Nat, NEW from, from = Allocated(o, qty)
  PROVE  /\ from \in [ItemsOf[o] -> Nat]
         /\ \A i \in ItemsOf[o] : from[i] <= Left(i)
  <1> DEFINE S == ItemsOf[o]
             has == [i \in S |-> AtLeastZero(Left(i))]
             Before(i) == {j \in S : j < i}
  <1>1. S \in SUBSET Items /\ IsFiniteSet(S) /\ AreNumbers(S)
    <2>1. S \in SUBSET Items
      BY PlansAssumption
    <2>2. IsFiniteSet(Items) /\ Items \subseteq Nat
      BY PlansAssumption
    <2>3. IsFiniteSet(S)
      <3> HIDE DEF S
      <3> QED
        BY <2>1, <2>2, FS_Subset
    <2> HIDE DEF S
    <2> QED
      BY <2>1, <2>2, <2>3 DEF AreNumbers
  <1>2. \A i \in S : Left(i) \in Nat /\ has[i] = Left(i)
    <2> SUFFICES ASSUME NEW i \in S PROVE Left(i) \in Nat /\ AtLeastZero(Left(i)) = Left(i)
      OBVIOUS
    <2>1. items[i] \in Line /\ items[i].returned <= items[i].received
      BY <1>1, RowTypes DEF Core, LinesSound
    <2> QED
      BY <2>1 DEF Line, Left, AtLeastZero
  <1>3. has \in [S -> Nat]
    <2>1. \A i \in S : AtLeastZero(Left(i)) \in Nat
      BY <1>2
    <2> QED
      BY <2>1
  <1>4. \A i \in S : [j \in Before(i) |-> AtLeastZero(Left(j))] = [j \in Before(i) |-> has[j]]
    OBVIOUS
  <1>5. \A i \in S : SumFunction([j \in Before(i) |-> has[j]]) \in Nat
    <2> SUFFICES ASSUME NEW i \in S
                 PROVE  SumFunction([j \in Before(i) |-> has[j]]) \in Nat
      OBVIOUS
    <2>1. IsFiniteSet(Before(i))
      BY <1>1, FS_Subset
    <2>2. [j \in Before(i) |-> has[j]] \in [Before(i) -> Nat]
      BY <1>3
    <2> HIDE DEF Before, has
    <2> QED
      BY <2>1, <2>2, SumType
  <1>6. \A i \in S : from[i] = Given(qty, has, i)
    <2> SUFFICES ASSUME NEW i \in S PROVE from[i] = Given(qty, has, i)
      OBVIOUS
    <2> DEFINE left == qty - SumFunction([j \in Before(i) |-> has[j]])
    <2>1. from[i] = Lesser(has[i], AtLeastZero(left))
      BY <1>4 DEF Allocated
    <2>2. left \in Int /\ has[i] \in Nat
      <3> HIDE DEF has, Before
      <3> QED
        BY <1>3, <1>5
    <2>3. Given(qty, has, i) = IF left < 0 THEN 0 ELSE IF has[i] < left THEN has[i] ELSE left
      BY DEF Given
    <2> HIDE DEF left, has
    <2> QED
      BY <2>1, <2>2, <2>3 DEF Lesser, AtLeastZero
  <1>7. from \in [S -> Int]
    <2>1. \A i \in S : Given(qty, has, i) \in Int
      <3> SUFFICES ASSUME NEW i \in S PROVE Given(qty, has, i) \in Int
        OBVIOUS
      <3> DEFINE left == qty - SumFunction([j \in Before(i) |-> has[j]])
      <3>1. left \in Int /\ has[i] \in Nat
        <4> HIDE DEF has, Before
        <4> QED
          BY <1>3, <1>5
      <3>2. Given(qty, has, i) = IF left < 0 THEN 0 ELSE IF has[i] < left THEN has[i] ELSE left
        BY DEF Given
      <3> HIDE DEF left, has
      <3> QED
        BY <3>1, <3>2
    <2>2. from = [i \in S |-> from[i]]
      BY DEF Allocated
    <2> HIDE DEF has
    <2> QED
      BY <1>6, <2>1, <2>2
  <1> HIDE DEF has
  <1>8. from \in [S -> Nat] /\ \A i \in S : from[i] <= has[i]
    BY <1>1, <1>3, <1>6, <1>7, SumTaken
  <1> QED
    BY <1>2, <1>8

\* What the completion of a return does.
LEMMA Completed ==
  ASSUME Core, NEW w \in Workers, CompleteReturn(w)
  PROVE  LET n == job[w].number  o == job[w].order  r == job[w].warehouse  q == job[w].qty
             from == Allocated(o, q) IN
         /\ job[w].kind = "complete_return" /\ job[w].phase = "checked"
         /\ o \in Orders /\ r \in Warehouses /\ q \in Nat \ {0}
         /\ from \in [ItemsOf[o] -> Nat] /\ SumFunction(from) = q
         /\ stock' \in [Warehouses -> Positions]
         /\ stock'[r].current = stock[r].current - q
         /\ \A s \in Warehouses \ {r} : stock'[s] = stock[s]
         /\ items' \in [Items -> Line]
         /\ \A i \in Items : /\ items'[i].quantity = items[i].quantity
                             /\ items'[i].received = items[i].received
                             /\ items'[i].returned <= items'[i].received
         /\ \A i \in ItemsOf[o] : items'[i].returned = items[i].returned + from[i]
         /\ \A i \in Items \ ItemsOf[o] : items'[i] = items[i]
         /\ ReturnWritten(n, "COMPLETED", returns[n].order)
         /\ Done(w) /\ UNCHANGED <<mix, orders, receipts>>
  <1> DEFINE n == job[w].number
             o == job[w].order
             r == job[w].warehouse
             q == job[w].qty
             from == Allocated(o, q)
             left == ChangeStock(stock[r], - q)
  <1>1. /\ job[w].kind = "complete_return" /\ job[w].phase = "checked"
        /\ SumFunction(from) = q
        /\ stock' = [stock EXCEPT ![r] = left]
        /\ items' = [i \in Items |-> IF i \in DOMAIN from
                                     THEN [items[i] EXCEPT !.returned = @ + from[i]]
                                     ELSE items[i]]
        /\ returns' = [returns EXCEPT ![n].status = "COMPLETED"]
        /\ Done(w) /\ UNCHANGED <<mix, orders, receipts>>
    BY DEF CompleteReturn, At
  <1>2. /\ o \in Orders /\ r \in Warehouses /\ q \in Nat \ {0} /\ n \in DOMAIN returns
    BY <1>1 DEF Core, Jobs, Working, ReturnWork
  <1>3. /\ stock' \in [Warehouses -> Positions]
        /\ stock'[r].current = stock[r].current + (- q)
        /\ \A s \in Warehouses \ {r} : stock'[s] = stock[s]
    <2>1. - q \in Int
      BY <1>2
    <2> HIDE DEF q, r
    <2> QED
      BY <1>1, <1>2, <2>1, StockChanged DEF Core
  <1>4. stock'[r].current = stock[r].current - q
    <2>1. stock[r].current \in Int
      BY <1>2 DEF Core, Rows, Positions
    <2> QED
      BY <1>2, <1>3, <2>1
  <1>5. returns[n] \in Return
    BY <1>2, RowTypes DEF Core
  <1>6. ReturnWritten(n, "COMPLETED", returns[n].order)
    <2>1. "COMPLETED" \in ReturnStatus \cup {Gone}
      BY DEF ReturnStatus
    <2>2. returns[n].order \in Orders
      BY <1>5 DEF Return
    <2> HIDE DEF n
    <2> QED
      BY <1>1, <1>2, <2>1, <2>2, WriteReturn
  <1> HIDE DEF n, o, r, q, left
  <1>7. /\ from \in [ItemsOf[o] -> Nat]
        /\ \A i \in ItemsOf[o] : from[i] <= Left(i)
    BY <1>2, AllocatedTakes
  <1> HIDE DEF from
  <1>8. ASSUME NEW i \in Items
        PROVE  /\ items'[i] \in Line
               /\ items'[i].quantity = items[i].quantity
               /\ items'[i].received = items[i].received
               /\ items'[i].returned <= items'[i].received
               /\ i \in ItemsOf[o] => items'[i].returned = items[i].returned + from[i]
               /\ i \notin ItemsOf[o] => items'[i] = items[i]
    <2>1. items[i] \in Line /\ items[i].returned <= items[i].received
      BY RowTypes DEF Core, LinesSound
    <2>2. CASE i \in ItemsOf[o]
      <3>1. /\ items'[i] = [items[i] EXCEPT !.returned = items[i].returned + from[i]]
            /\ from[i] \in Nat /\ from[i] <= items[i].received - items[i].returned
        BY <1>1, <1>7, <2>2 DEF Left
      <3> QED
        BY <2>1, <2>2, <3>1 DEF Line
    <2>3. CASE i \notin ItemsOf[o]
      <3>1. items'[i] = items[i]
        BY <1>1, <1>7, <2>3
      <3> QED
        BY <2>1, <2>3, <3>1 DEF Line
    <2> QED
      BY <2>2, <2>3
  <1>9. items' \in [Items -> Line]
    BY <1>1, <1>8
  <1>10. /\ \A i \in ItemsOf[o] : items'[i].returned = items[i].returned + from[i]
         /\ \A i \in Items \ ItemsOf[o] : items'[i] = items[i]
    BY <1>2, <1>8, RowTypes DEF Core
  <1> QED
    BY <1>1, <1>2, <1>3, <1>4, <1>6, <1>7, <1>8, <1>9, <1>10 DEF n, o, r, q, from

\* A return is completed: stock and lines.
LEMMA CompleteReturnKeeps ==
  ASSUME Core, NEW w \in Workers, CompleteReturn(w)
  PROVE  Core'
  <1> DEFINE n == job[w].number
             o == job[w].order
             q == job[w].qty
             from == Allocated(o, q)
  <1>1. /\ o \in Orders /\ q \in Nat \ {0}
        /\ from \in [ItemsOf[o] -> Nat] /\ SumFunction(from) = q
        /\ stock' \in [Warehouses -> Positions] /\ items' \in [Items -> Line]
        /\ \A i \in Items : /\ items'[i].quantity = items[i].quantity
                            /\ items'[i].received = items[i].received
                            /\ items'[i].returned <= items'[i].received
        /\ \A i \in ItemsOf[o] : items'[i].returned = items[i].returned + from[i]
        /\ \A i \in Items \ ItemsOf[o] : items'[i] = items[i]
        /\ ReturnWritten(n, "COMPLETED", returns[n].order)
        /\ Done(w) /\ UNCHANGED <<mix, orders, receipts>>
    BY Completed
  <1> HIDE DEF n, o, q, from
  <1>2. /\ job' \in [Workers -> Job(mix.kinds)]
        /\ \A v \in Workers : job'[v] = Idle \/ SameWork(job'[v], job[v])
    BY <1>1, DoneIdles DEF Core, SameWork
  <1>3. \A i \in Items : items[i] \in Line /\ items'[i] \in Line
    BY <1>1, RowTypes DEF Core
  <1>4. LinesSound'
    BY <1>1, <1>3 DEF Core, LinesSound, Line
  <1>5. Rows'
    BY <1>1, <1>2 DEF Core, Rows, ReturnWritten
  <1>6. ASSUME NEW i \in Items
        PROVE  \/ items'[i].received = items[i].received /\ items'[i].returned = items[i].returned
               \/ \A p \in Orders : i \in ItemsOf[p] => orders[p] # "NONE"
    <2>1. CASE i \notin ItemsOf[o]
      BY <1>1, <2>1
    <2>2. CASE i \in ItemsOf[o] /\ items[i].received = 0
      BY <1>1, <1>3, <2>2 DEF Line, Core, LinesSound
    <2>3. CASE i \in ItemsOf[o] /\ items[i].received # 0
      <3>1. orders[o] # "NONE"
        BY <1>1, <2>3 DEF Core, Blank
      <3> QED
        BY <1>1, <2>3, <3>1, OneOrder
    <2> QED
      BY <2>1, <2>2, <2>3
  <1>7. DOMAIN returns \subseteq DOMAIN returns'
    BY <1>1 DEF ReturnWritten
  <1> QED
    BY <1>1, <1>2, <1>4, <1>5, <1>6, <1>7, ReceiptsKeep

-----------------------------------------------------------------------------

\* At the start the tables are empty.
LEMMA CoreStarts == Init => Core
  <1> SUFFICES ASSUME Init PROVE Core
    OBVIOUS
  <1>0. /\ mix \in Mixes /\ receipts = << >> /\ returns = << >>
        /\ orders = [o \in Orders |-> "NONE"]
        /\ items = [i \in Items |-> [quantity |-> 0, received |-> 0, returned |-> 0]]
        /\ stock = [r \in Warehouses |-> [NoPosition EXCEPT !.exists = TRUE,
                                                          !.current = Initial[r]]]
        /\ job = [w \in Workers |-> Idle]
    BY DEF Init
  <1>1. Rows
    <2>1. job \in [Workers -> Job(mix.kinds)]
      BY <1>0, IdleIsAJob
    <2>2. items \in [Items -> Line] /\ orders \in [Orders -> OrderStatus]
      <3>1. [quantity |-> 0, received |-> 0, returned |-> 0] \in Line
        BY DEF Line
      <3> QED
        BY <1>0, <3>1 DEF OrderStatus
    <2>3. receipts \in Seq(Receipt) /\ returns \in Seq(Return)
      <3>1. << >> \in Seq(Receipt) /\ << >> \in Seq(Return)
        OBVIOUS
      <3> QED
        BY <1>0, <3>1
    <2>4. stock \in [Warehouses -> Positions]
      <3> SUFFICES ASSUME NEW r \in Warehouses
                   PROVE  [NoPosition EXCEPT !.exists = TRUE, !.current = Initial[r]] \in Positions
        BY <1>0
      <3>1. << >> \in Seq(Movements) /\ Initial[r] \in Int
        BY PlansAssumption
      <3>2. NoPosition \in Positions
        BY <3>1 DEF Positions, NoPosition
      <3> DEFINE c == Initial[r]
      <3>3. c \in Int
        BY <3>1
      <3> HIDE DEF c
      <3> QED
        BY <3>2, <3>3 DEF Positions, c
    <2> QED
      BY <1>0, <2>1, <2>2, <2>3, <2>4 DEF Rows
  <1>2. LinesSound /\ Present /\ Blank
    <2>1. \A o \in Orders : ItemsOf[o] \in SUBSET Items
      BY PlansAssumption
    <2>2. \A i \in Items : /\ items[i].quantity = 0 /\ items[i].received = 0
                            /\ items[i].returned = 0
      BY <1>0
    <2>3. LinesSound /\ Blank
      BY <2>1, <2>2 DEF LinesSound, Blank, AtLeastZero
    <2>4. DOMAIN receipts = {}
      <3>1. Len(receipts) = 0
        BY <1>0
      <3>2. DOMAIN receipts = 1 .. Len(receipts)
        BY <1>1, RowNumbers DEF Rows
      <3> QED
        BY <3>1, <3>2
    <2> QED
      BY <2>3, <2>4 DEF Present
  <1>3. Jobs
    BY IdleIsAJob DEF Init, Jobs, Working, OrderWork, ReturnWork
  <1> QED
    BY <1>1, <1>2, <1>3 DEF Core

\* Every step about orders keeps Core.
LEMMA OrderStepKeeps ==
  ASSUME Core, NEW w \in Workers, OrderStep(w)
  PROVE  Core'
  BY CreateOrderKeeps, DestroyOrderKeeps, LoadOrderKeeps, LoadUpdateKeeps, WriteStatusKeeps,
     CheckKeeps, UpdateLinesKeeps, CancelOrderKeeps DEF OrderStep

\* Every step about receipts keeps it.
LEMMA ReceiptStepKeeps ==
  ASSUME Core, NEW w \in Workers, ReceiptStep(w)
  PROVE  Core'
  BY StartReceiptKeeps, CreateReceiptKeeps, LoadReceiptKeeps, EditReceiptKeeps,
     DestroyReceiptKeeps, CancelReceiptKeeps, ExecuteReceiptKeeps DEF ReceiptStep

\* Every step about returns keeps it.
LEMMA ReturnStepKeeps ==
  ASSUME Core, NEW w \in Workers, ReturnStep(w)
  PROVE  Core'
  BY StartReturnKeeps, LoadReturnKeeps, DestroyReturnKeeps, CheckKeeps, SaveReturnKeeps,
     CompleteReturnKeeps DEF ReturnStep

\* A step that changes nothing keeps it.
LEMMA CoreStutters == Core /\ UNCHANGED vars => Core'
  BY DEF vars, Core, Rows, LinesSound, Jobs, Working, Present, Blank

\* Every step keeps Core.
LEMMA CoreKeeps == Core /\ [Next]_vars => Core'
  BY OrderStepKeeps, ReceiptStepKeeps, ReturnStepKeeps, AbortKeeps, CoreStutters DEF Next

\* Core holds in every behaviour.
LEMMA CoreHolds == Spec => []Core
  BY CoreStarts, CoreKeeps, PTL DEF Spec

\* Core gives the type invariant, and that lines are sound.
LEMMA CoreTypes == Core => TypeOK /\ LinesSound
  <1> SUFFICES ASSUME Core PROVE TypeOK /\ LinesSound
    OBVIOUS
  <1>1. Line \in SUBSET OrderLines
    BY DEF Line, OrderLines
  <1> QED
    BY <1>1, RowTypes DEF Core, Rows, TypeOK, Receipt, Return, Job

(***************************************************************************)
(* Whatever overlaps, and whatever is edited or deleted by hand: the rows  *)
(* are of their types, no line receives more than is ordered now and none  *)
(* gives back more than it received (Fits, made under the locks, and       *)
(* Allocated, see execute_receipt and complete_order).                     *)
(***************************************************************************)
THEOREM LinesStaySound == Spec => [](TypeOK /\ LinesSound)
  BY CoreHolds, CoreTypes, PTL

-----------------------------------------------------------------------------
(* Why the stock follows the lines. *)

\* A receipt that may be deleted is not one that was executed.
Kept == \A m \in Mixes : "destroy_receipt" \in m.kinds => m.billing

\* A receipt stands for line i, and nobody deletes it.
StandsFor(n, i) ==
  /\ receipts[n].status # Gone /\ receipts[n].lines[i] > 0
  /\ mix.billing => receipts[n].billed

\* For every line that received goods there is such a receipt, so that the
\* line is not replaced.
Witnessed ==
  \A i \in Items : items[i].received > 0 => \E n \in DOMAIN receipts : StandsFor(n, i)

Grounded == Witnessed /\ StockFollowsLines

\* What came in on a line and did not go back.
Net(i) == items[i].received - items[i].returned

\* What a step that moves no goods must see to.
LEMMA GroundedStays ==
  ASSUME Core, Core', Grounded, UNCHANGED <<mix, stock>>,
         DOMAIN receipts \subseteq DOMAIN receipts',
         \A n \in DOMAIN receipts :
           receipts[n].status # Gone => /\ receipts'[n].status # Gone
                                        /\ receipts'[n].lines = receipts[n].lines
                                        /\ receipts[n].billed => receipts'[n].billed,
         \A i \in Items : \/ items'[i] = items[i]
                          \/ /\ items[i].received = 0 /\ items[i].returned = 0
                             /\ items'[i].received = 0 /\ items'[i].returned = 0
  PROVE  Grounded'
  <1>1. Witnessed'
    BY DEF Grounded, Witnessed, StandsFor
  <1>2. \A i \in Items : items'[i].received - items'[i].returned
                           = items[i].received - items[i].returned
    OBVIOUS
  <1>3. [i \in Items |-> items'[i].received - items'[i].returned]
          = [i \in Items |-> items[i].received - items[i].returned]
    BY <1>2
  <1>4. StockFollowsLines'
    BY <1>3 DEF Grounded, StockFollowsLines
  <1> QED
    BY <1>1, <1>4 DEF Grounded

\* A step that touches neither lines, stock nor receipts.
LEMMA GroundedRests ==
  ASSUME Core, Core', Grounded, UNCHANGED <<mix, stock, items, receipts>>
  PROVE  Grounded'
  BY GroundedStays

\* Lines that no receipt names received nothing.
LEMMA FreeIsEmpty ==
  ASSUME Core, Grounded, NEW o \in Orders, LinesFree(o)
  PROVE  \A i \in ItemsOf[o] : items[i].received = 0 /\ items[i].returned = 0
  <1> SUFFICES ASSUME NEW i \in ItemsOf[o]
               PROVE  items[i].received = 0 /\ items[i].returned = 0
    OBVIOUS
  <1>1. i \in Items
    BY RowTypes DEF Core
  <1>2. items[i] \in Line /\ items[i].returned <= items[i].received
    BY <1>1, RowTypes DEF Core, LinesSound
  <1>3. ~ (items[i].received > 0)
    <2>1. SUFFICES ASSUME items[i].received > 0 PROVE FALSE
      OBVIOUS
    <2>2. PICK n \in DOMAIN receipts : StandsFor(n, i)
      BY <1>1, <2>1 DEF Grounded, Witnessed
    <2>3. receipts[n].status # Gone /\ receipts[n].lines[i] > 0 /\ receipts[n].lines[i] = 0
      BY <2>2 DEF StandsFor, LinesFree
    <2>4. receipts[n].lines[i] \in Nat
      BY <1>1, RowTypes DEF Core, Receipt
    <2> QED
      BY <2>3, <2>4
  <1> QED
    BY <1>2, <1>3 DEF Line

\* Lines are made or replaced only where nothing was received.
LEMMA GroundedFresh ==
  ASSUME Core, Core', Grounded, NEW o \in Orders, NEW plan \in [Items -> Int],
         items' = FreshItems(o, plan), orders[o] = "NONE" \/ LinesFree(o),
         UNCHANGED <<mix, stock, receipts>>
  PROVE  Grounded'
  <1>1. /\ \A i \in ItemsOf[o] : items'[i].received = 0 /\ items'[i].returned = 0
        /\ \A i \in Items \ ItemsOf[o] : items'[i] = items[i]
    BY Fresh
  <1>2. \A i \in ItemsOf[o] : items[i].received = 0 /\ items[i].returned = 0
    BY FreeIsEmpty DEF Core, Blank
  <1> QED
    BY <1>1, <1>2, GroundedStays

\* Requests about orders leave the goods where they are.
LEMMA OrderStepGrounds ==
  ASSUME Core, Core', Grounded, NEW w \in Workers, OrderStep(w)
  PROVE  Grounded'
  <1>1. ASSUME NEW o \in Orders, NEW plan \in Plans, CreateOrder(w, o, plan)
        PROVE  Grounded'
    <2>1. plan \in [Items -> Int]
      BY PlansAssumption
    <2> QED
      BY <1>1, <2>1, GroundedFresh DEF CreateOrder
  <1>2. ASSUME NEW o \in Orders, DestroyOrder(w, o)
        PROVE  Grounded'
    <2>1. [i \in Items |-> 0] \in [Items -> Int]
      OBVIOUS
    <2> QED
      BY <1>2, <2>1, GroundedFresh DEF DestroyOrder
  <1>3. ASSUME NEW plan \in Plans, UpdateLines(w, plan)
        PROVE  Grounded'
    <2>1. plan \in [Items -> Int]
      BY PlansAssumption
    <2>2. /\ job[w].kind = "update" /\ LinesFree(job[w].order)
          /\ items' = FreshItems(job[w].order, plan) /\ UNCHANGED <<mix, receipts, stock>>
      BY <1>3 DEF UpdateLines, At
    <2>3. job[w].order \in Orders
      BY <2>2 DEF Core, Jobs, Working, OrderWork
    <2> QED
      BY <2>1, <2>2, <2>3, GroundedFresh
  <1>4. CASE CancelOrder(w)
    <2>1. /\ receipts' = DraftsCancelled(job[w].order) /\ UNCHANGED <<mix, items, stock>>
      BY <1>4 DEF CancelOrder
    <2>2. /\ DOMAIN receipts' = DOMAIN receipts
          /\ \A n \in DOMAIN receipts :
               /\ receipts'[n].lines = receipts[n].lines
               /\ receipts'[n].billed = receipts[n].billed
               /\ receipts'[n].status \in {receipts[n].status, "CANCELLED"}
      BY <2>1, DraftsAreCancelled
    <2>3. \A n \in DOMAIN receipts :
            receipts[n].status # Gone => /\ receipts'[n].status # Gone
                                         /\ receipts'[n].lines = receipts[n].lines
                                         /\ receipts[n].billed => receipts'[n].billed
      BY <2>2 DEF Gone
    <2> QED
      BY <2>1, <2>2, <2>3, GroundedStays
  <1>5. ASSUME UNCHANGED <<mix, items, receipts, stock>>
        PROVE  Grounded'
    BY <1>5, GroundedRests
  <1> QED
    BY <1>1, <1>2, <1>3, <1>4, <1>5
       DEF OrderStep, LoadOrder, LoadUpdate, SubmitOrder, ApproveOrder, RejectOrder, CloseOrder,
           WriteStatus, CheckReceived, UpdateHeader

\* Goods come in: the stock of one warehouse and the lines grow alike.
LEMMA GoodsMove ==
  ASSUME Core, Core', Grounded, NEW r \in Warehouses, NEW d \in Int,
         NEW more \in [Items -> Int], SumFunction(more) = d,
         stock'[r].current = stock[r].current + d,
         \A s \in Warehouses \ {r} : stock'[s] = stock[s],
         \A i \in Items : Net(i)' = Net(i) + more[i]
  PROVE  StockFollowsLines'
  <1> DEFINE f == [s \in Warehouses |-> stock[s].current - Initial[s]]
             g == [s \in Warehouses |-> stock'[s].current - Initial[s]]
             h == [i \in Items |-> items[i].received - items[i].returned]
             k == [i \in Items |-> items'[i].received - items'[i].returned]
  <1>1. IsFiniteSet(Warehouses) /\ IsFiniteSet(Items) /\ Initial \in [Warehouses -> Nat]
    BY PlansAssumption
  <1>2. /\ \A s \in Warehouses : stock[s].current \in Int /\ stock'[s].current \in Int
        /\ \A i \in Items : items[i] \in Line /\ items'[i] \in Line
    BY DEF Core, Rows, Positions
  <1>3. f \in [Warehouses -> Int] /\ g \in [Warehouses -> Int]
    BY <1>1, <1>2
  <1>4. h \in [Items -> Int] /\ k \in [Items -> Int]
    BY <1>2 DEF Line
  <1>5. g[r] - f[r] = d /\ \A s \in Warehouses \ {r} : g[s] = f[s]
    BY <1>1, <1>2
  <1>6. \A i \in Items : k[i] = h[i] + more[i]
    BY DEF Net
  <1>7. SumFunction(f) = SumFunction(h)
    BY DEF Grounded, StockFollowsLines
  <1>8. SUFFICES SumFunction(g) = SumFunction(k)
    BY DEF StockFollowsLines
  <1> HIDE DEF f, g, h, k
  <1>9. SumFunction(g) = SumFunction(f) + (g[r] - f[r])
    BY <1>1, <1>3, <1>5, SumChange
  <1>10. SumFunction(k) = SumFunction(h) + SumFunction(more)
    BY <1>1, <1>4, <1>6, SumPlus
  <1> QED
    BY <1>5, <1>7, <1>9, <1>10

\* What a receipt brings is on its lines and in its warehouse.
LEMMA ExecuteReceiptGrounds ==
  ASSUME Core, Core', Grounded, NEW w \in Workers, ExecuteReceipt(w)
  PROVE  Grounded'
  <1> DEFINE n == job[w].number
             r == receipts[n]
             q == SumFunction(r.lines)
  <1>1. /\ n \in DOMAIN receipts /\ r \in Receipt /\ r.status = "DRAFT" /\ q \in Nat
        /\ stock'[r.warehouse].current = stock[r.warehouse].current + q
        /\ \A s \in Warehouses \ {r.warehouse} : stock'[s] = stock[s]
        /\ \A i \in Items : /\ items'[i].returned = items[i].returned
                            /\ items'[i].received = items[i].received + r.lines[i]
        /\ DOMAIN receipts' = DOMAIN receipts
        /\ \A k \in DOMAIN receipts \ {n} : receipts'[k] = receipts[k]
        /\ receipts'[n].lines = r.lines /\ receipts'[n].status = "COMPLETED"
        /\ receipts'[n].billed = (r.billed \/ mix.billing)
        /\ UNCHANGED mix
    BY Executed
  <1>2. r.warehouse \in Warehouses /\ r.lines \in [Items -> Nat]
    BY <1>1 DEF Receipt
  <1>3. \A i \in Items : items[i] \in Line
    BY RowTypes DEF Core
  <1>4. StockFollowsLines'
    <2>1. q \in Int /\ r.lines \in [Items -> Int] /\ SumFunction(r.lines) = q
      BY <1>1, <1>2
    <2>2. \A i \in Items : Net(i)' = Net(i) + r.lines[i]
      <3> SUFFICES ASSUME NEW i \in Items PROVE Net(i)' = Net(i) + r.lines[i]
        OBVIOUS
      <3>1. items[i].received \in Nat /\ items[i].returned \in Nat /\ r.lines[i] \in Nat
        BY <1>2, <1>3 DEF Line
      <3> HIDE DEF r
      <3> QED
        BY <1>1, <3>1 DEF Net
    <2> HIDE DEF q, r
    <2> QED
      BY <1>1, <1>2, <2>1, <2>2, GoodsMove
  <1>5. Witnessed'
    <2> SUFFICES ASSUME NEW i \in Items, items'[i].received > 0
                 PROVE  \E k \in DOMAIN receipts' : StandsFor(k, i)'
      BY DEF Witnessed
    <2>1. items[i].received \in Nat /\ r.lines[i] \in Nat
      BY <1>2, <1>3 DEF Line
    <2> HIDE DEF n, r, q
    <2>2. CASE r.lines[i] > 0
      <3>1. PICK k : k = n
        OBVIOUS
      <3>2. StandsFor(k, i)'
        BY <1>1, <2>2, <3>1 DEF StandsFor, Gone
      <3> QED
        BY <1>1, <3>1, <3>2
    <2>3. CASE ~ (r.lines[i] > 0)
      <3>1. items[i].received > 0
        BY <1>1, <2>1, <2>3
      <3>2. PICK k \in DOMAIN receipts : StandsFor(k, i)
        BY <3>1 DEF Grounded, Witnessed
      <3>3. k # n
        BY <2>3, <3>2 DEF StandsFor, r
      <3>4. StandsFor(k, i)'
        BY <1>1, <3>2, <3>3 DEF StandsFor
      <3> QED
        BY <1>1, <3>4
    <2> QED
      BY <2>2, <2>3
  <1> QED
    BY <1>4, <1>5 DEF Grounded

\* The other requests about receipts bring nothing.
LEMMA ReceiptStepGrounds ==
  ASSUME Kept, Core, Core', Grounded, NEW w \in Workers, ReceiptStep(w)
  PROVE  Grounded'
  <1>1. ASSUME NEW cart \in mix.carts, NEW r \in mix.warehouses, CreateReceipt(w, cart, r)
        PROVE  Grounded'
    <2>1. /\ DOMAIN receipts' = DOMAIN receipts \cup {Len(receipts) + 1}
          /\ \A n \in DOMAIN receipts : receipts'[n] = receipts[n]
          /\ UNCHANGED <<mix, items, stock>>
      BY <1>1, CreatedReceipt
    <2> QED
      BY <2>1, GroundedStays
  <1>2. ASSUME NEW n \in DOMAIN receipts, NEW status \in ReceiptStatus, NEW o \in Orders,
               NEW r \in mix.warehouses, EditReceipt(w, n, status, o, r)
        PROVE  Grounded'
    <2>1. /\ receipts' = [receipts EXCEPT ![n].status = status, ![n].order = o,
                                          ![n].warehouse = r]
          /\ UNCHANGED <<mix, items, stock>> /\ status # Gone /\ receipts[n] \in Receipt
      BY <1>2, RowTypes DEF EditReceipt, ReceiptStatus, Gone, Core
    <2>2. /\ DOMAIN receipts' = DOMAIN receipts
          /\ \A k \in DOMAIN receipts \ {n} : receipts'[k] = receipts[k]
          /\ receipts'[n] = [receipts[n] EXCEPT !.status = status, !.order = o, !.warehouse = r]
      BY <2>1
    <2>3. /\ receipts'[n].status = status /\ receipts'[n].lines = receipts[n].lines
          /\ receipts'[n].billed = receipts[n].billed
      BY <2>1, <2>2 DEF Receipt
    <2> QED
      BY <2>1, <2>2, <2>3, GroundedStays
  <1>3. CASE CancelReceipt(w)
    <2> DEFINE n == job[w].number
    <2>1. /\ job[w].kind = "cancel_receipt"
          /\ receipts' = [receipts EXCEPT ![n].status = "CANCELLED"]
          /\ UNCHANGED <<mix, items, stock>>
      BY <1>3 DEF CancelReceipt, At
    <2>2. n \in DOMAIN receipts
      BY <2>1 DEF Core, Jobs, Working
    <2>3. receipts[n] \in Receipt
      BY <2>2, RowTypes DEF Core
    <2> HIDE DEF n
    <2>4. /\ DOMAIN receipts' = DOMAIN receipts
          /\ \A k \in DOMAIN receipts \ {n} : receipts'[k] = receipts[k]
          /\ receipts'[n] = [receipts[n] EXCEPT !.status = "CANCELLED"]
      BY <2>1, <2>2
    <2>5. /\ receipts'[n].status # Gone /\ receipts'[n].lines = receipts[n].lines
          /\ receipts'[n].billed = receipts[n].billed
      BY <2>3, <2>4 DEF Receipt, Gone
    <2> QED
      BY <2>1, <2>4, <2>5, GroundedStays
  <1>4. ASSUME NEW n \in DOMAIN receipts, DestroyReceipt(w, n)
        PROVE  Grounded'
    <2>1. /\ MayStart(w, "destroy_receipt") /\ ~ receipts[n].billed
          /\ receipts' = [receipts EXCEPT ![n].status = Gone]
          /\ UNCHANGED <<mix, items, stock>>
      BY <1>4 DEF DestroyReceipt
    <2>2. mix.billing
      BY <2>1 DEF Kept, MayStart, Core, Rows
    <2>3. /\ DOMAIN receipts' = DOMAIN receipts
          /\ \A k \in DOMAIN receipts \ {n} : receipts'[k] = receipts[k]
      BY <2>1
    <2>4. ASSUME NEW i \in Items, items'[i].received > 0
          PROVE  \E k \in DOMAIN receipts' : StandsFor(k, i)'
      <3>1. PICK k \in DOMAIN receipts : StandsFor(k, i)
        BY <2>1, <2>4 DEF Grounded, Witnessed
      <3>2. k # n
        BY <2>1, <2>2, <3>1 DEF StandsFor
      <3>3. StandsFor(k, i)'
        BY <2>1, <2>3, <3>1, <3>2 DEF StandsFor
      <3> QED
        BY <2>3, <3>3
    <2>5. Witnessed'
      BY <2>4 DEF Witnessed
    <2>6. StockFollowsLines'
      BY <2>1 DEF Grounded, StockFollowsLines
    <2> QED
      BY <2>5, <2>6 DEF Grounded
  <1>5. ASSUME UNCHANGED <<mix, items, receipts, stock>>
        PROVE  Grounded'
    BY <1>5, GroundedRests
  <1> QED
    BY <1>1, <1>2, <1>3, <1>4, <1>5, ExecuteReceiptGrounds
       DEF ReceiptStep, StartReceipt, LoadReceipt

\* What a return takes is off its lines and out of its warehouse.
LEMMA ReturnStepGrounds ==
  ASSUME Core, Core', Grounded, NEW w \in Workers, ReturnStep(w)
  PROVE  Grounded'
  <1>1. CASE CompleteReturn(w)
    <2> DEFINE o == job[w].order
               r == job[w].warehouse
               q == job[w].qty
               from == Allocated(o, q)
               more == [i \in Items |-> IF i \in ItemsOf[o] THEN - from[i] ELSE 0]
               back == [i \in ItemsOf[o] |-> - from[i]]
               none == [i \in ItemsOf[o] |-> 0]
    <2>1. /\ o \in Orders /\ r \in Warehouses /\ q \in Nat \ {0}
          /\ from \in [ItemsOf[o] -> Nat] /\ SumFunction(from) = q
          /\ stock'[r].current = stock[r].current - q
          /\ \A s \in Warehouses \ {r} : stock'[s] = stock[s]
          /\ \A i \in Items : items'[i].received = items[i].received
          /\ \A i \in ItemsOf[o] : items'[i].returned = items[i].returned + from[i]
          /\ \A i \in Items \ ItemsOf[o] : items'[i] = items[i]
          /\ UNCHANGED <<mix, receipts>>
      BY <1>1, Completed
    <2> HIDE DEF o, r, q, from
    <2>2. ItemsOf[o] \in SUBSET Items /\ IsFiniteSet(Items) /\ IsFiniteSet(ItemsOf[o])
      <3>1. ItemsOf[o] \in SUBSET Items /\ IsFiniteSet(Items)
        BY <2>1, RowTypes, PlansAssumption DEF Core
      <3> QED
        BY <3>1, FS_Subset
    <2>3. more \in [Items -> Int] /\ back \in [ItemsOf[o] -> Int] /\ none \in [ItemsOf[o] -> Int]
      BY <2>1
    <2>4. /\ \A i \in ItemsOf[o] : more[i] = back[i] /\ none[i] = back[i] + from[i]
          /\ \A i \in Items \ ItemsOf[o] : more[i] = 0
      BY <2>1, <2>2
    <2>5. \A i \in Items : Net(i)' = Net(i) + more[i]
      <3> SUFFICES ASSUME NEW i \in Items PROVE Net(i)' = Net(i) + more[i]
        OBVIOUS
      <3>1. items[i].received \in Nat /\ items[i].returned \in Nat
        BY RowTypes DEF Core, Line
      <3>2. CASE i \in ItemsOf[o]
        <4>1. from[i] \in Nat /\ more[i] = - from[i]
          BY <2>1, <3>2
        <4> HIDE DEF more
        <4> QED
          BY <2>1, <3>1, <3>2, <4>1 DEF Net
      <3>3. CASE i \notin ItemsOf[o]
        BY <2>1, <3>1, <3>3 DEF Net
      <3> QED
        BY <3>2, <3>3
    <2>6. \A i \in ItemsOf[o] : none[i] = 0
      OBVIOUS
    <2> HIDE DEF more, back, none
    <2>7. SumFunction(more) = SumFunction(back)
      BY <2>2, <2>3, <2>4, SumWithin
    <2>8. SumFunction(none) = 0
      BY <2>2, <2>3, <2>6, SumZero
    <2>9. SumFunction(none) = SumFunction(back) + SumFunction(from)
      <3>1. from \in [ItemsOf[o] -> Int]
        BY <2>1
      <3> QED
        BY <2>2, <2>3, <2>4, <3>1, SumPlus
    <2>10. SumFunction(back) \in Int
      BY <2>2, <2>3, SumType
    <2>11. SumFunction(more) = - q
      BY <2>1, <2>7, <2>8, <2>9, <2>10
    <2>12. stock[r].current \in Int
      BY <2>1 DEF Core, Rows, Positions
    <2>13. - q \in Int /\ stock'[r].current = stock[r].current + (- q)
      BY <2>1, <2>12
    <2>14. StockFollowsLines'
      BY <2>1, <2>3, <2>5, <2>11, <2>13, GoodsMove
    <2>15. Witnessed'
      BY <2>1 DEF Grounded, Witnessed, StandsFor
    <2> QED
      BY <2>14, <2>15 DEF Grounded
  <1>2. ASSUME UNCHANGED <<mix, items, receipts, stock>>
        PROVE  Grounded'
    BY <1>2, GroundedRests
  <1> QED
    BY <1>1, <1>2
       DEF ReturnStep, StartReturn, LoadReturn, DestroyReturn, CheckReturnable, CreateReturn,
           SubmitReturn, ApproveReturn, SaveReturn, CancelReturn, EditReturn

\* At the start nothing was received.
LEMMA GroundedStarts == Init => Grounded
  <1> SUFFICES ASSUME Init PROVE Grounded
    OBVIOUS
  <1> DEFINE f == [r \in Warehouses |-> stock[r].current - Initial[r]]
             h == [i \in Items |-> items[i].received - items[i].returned]
  <1>1. \A i \in Items : items[i].received = 0 /\ items[i].returned = 0
    BY DEF Init
  <1>2. \A r \in Warehouses : stock[r].current = Initial[r]
    <2>1. \A r \in Warehouses : stock[r] = [NoPosition EXCEPT !.exists = TRUE,
                                                           !.current = Initial[r]]
      BY DEF Init
    <2> QED
      BY <2>1 DEF NoPosition
  <1>3. /\ \A r \in Warehouses : Initial[r] \in Int
        /\ IsFiniteSet(Warehouses) /\ IsFiniteSet(Items)
    BY PlansAssumption
  <1>4. /\ \A r \in Warehouses : stock[r].current - Initial[r] = 0
        /\ \A i \in Items : items[i].received - items[i].returned = 0
    BY <1>1, <1>2, <1>3
  <1>5. /\ f \in [Warehouses -> Int] /\ \A r \in Warehouses : f[r] = 0
        /\ h \in [Items -> Int] /\ \A i \in Items : h[i] = 0
    BY <1>4
  <1>6. Witnessed
    BY <1>1 DEF Witnessed
  <1>7. SumFunction(f) = 0 /\ SumFunction(h) = 0
    <2> HIDE DEF f, h
    <2> QED
      BY <1>3, <1>5, SumZero
  <1> QED
    BY <1>6, <1>7 DEF Grounded, StockFollowsLines

\* Where completed documents are kept, every step accounts for the goods.
LEMMA GroundedKeeps ==
  ASSUME Kept
  PROVE  Core /\ Core' /\ Grounded /\ [Next]_vars => Grounded'
  <1> SUFFICES ASSUME Core, Core', Grounded, [Next]_vars PROVE Grounded'
    OBVIOUS
  <1>1. CASE UNCHANGED vars
    BY <1>1, GroundedRests DEF vars
  <1>2. ASSUME NEW w \in Workers, Abort(w)
        PROVE  Grounded'
    BY <1>2, GroundedRests DEF Abort
  <1> QED
    BY <1>1, <1>2, OrderStepGrounds, ReceiptStepGrounds, ReturnStepGrounds DEF Next

(***************************************************************************)
(* Whatever overlaps, and whatever is edited by hand: the lines are sound  *)
(* and the stock is what they say came in and did not go back.  A line     *)
(* that received goods is replaced only if no receipt names it any more    *)
(* (PROTECT); where receipts may be deleted, the policies must bill them,  *)
(* so that the payable keeps those that were executed.                     *)
(***************************************************************************)
THEOREM StockIsOnTheLines ==
  ASSUME \A m \in Mixes : "destroy_receipt" \in m.kinds => m.billing
  PROVE  Spec => []LinesFollowGoods
  <1>1. Core /\ Core' /\ Grounded /\ [Next]_vars => Grounded'
    BY GroundedKeeps DEF Kept
  <1>2. Core /\ Grounded => LinesFollowGoods
    BY DEF Core, Grounded, LinesFollowGoods
  <1> QED
    BY <1>1, <1>2, CoreHolds, GroundedStarts, PTL DEF Spec

-----------------------------------------------------------------------------
(* What the receipts say, in the documented flow. *)

\* The statuses of an order that may still be rewritten, and of one that is received.
Early == {"DRAFT", "PENDING_APPROVAL", "REJECTED"}
Open  == {"APPROVED", "PARTIALLY_RECEIVED"}
Full  == {"RECEIVED", "CLOSED"}

\* The requests that overlap with nothing do not.
Alone ==
  \A w \in Workers :
    job[w].kind \notin mix.racing \cup {"idle"} => \A v \in Workers \ {w} : job[v] = Idle

\* What the request of w has read of the status of its order, or of its
\* receipt, is true still, as far as it matters.
Knows(w) ==
  LET j == job[w] IN
  /\ j.kind \in {"submit", "approve", "cancel"} =>
       j.to \in Targets[j.kind] /\ j.to \in Transitions[orders[j.order]]
  /\ j.kind \in {"reject", "update"} =>
       orders[j.order] \in Early /\ j.to \in {"DRAFT", "REJECTED"}
  /\ j.kind = "close" => orders[j.order] \in Full /\ j.to = "CLOSED"
  /\ j.kind = "create_receipt" => orders[j.order] \in Open \cup Full
  /\ j.kind = "cancel_receipt" => receipts[j.number].status = "DRAFT"

Knowing == \A w \in Workers : Knows(w)

\* A receipt is of lines of its order; drafts are of orders that are open.
ReceiptRows ==
  \A n \in DOMAIN receipts :
    /\ receipts[n].status # Gone
    /\ \A i \in Items : receipts[n].lines[i] > 0 => i \in ItemsOf[receipts[n].order]
    /\ \E i \in Items : receipts[n].lines[i] > 0
    /\ receipts[n].status = "DRAFT" => orders[receipts[n].order] \in Open

AllIn(o)  == \A i \in ItemsOf[o] : items[i].received >= items[i].quantity
NoneIn(o) == \A i \in ItemsOf[o] : items[i].received = 0

Telling ==
  \A o \in Orders :
    /\ orders[o] \in Full => AllIn(o)
    /\ orders[o] = "PARTIALLY_RECEIVED" => ~ AllIn(o) /\ ~ NoneIn(o)
    /\ orders[o] \notin Full \cup {"PARTIALLY_RECEIVED"} => NoneIn(o)

Flow ==
  /\ Alone /\ Knowing
  /\ ReceiptRows /\ ReceivedOnce /\ DraftsFit /\ Telling

\* Requests end, or go on as they are.
LEMMA AloneRests ==
  ASSUME Alone, UNCHANGED mix,
         \A v \in Workers : job'[v] = Idle \/ job'[v] = job[v]
  PROVE  Alone'
  BY IdleIsAJob DEF Alone

\* A request that starts is alone, if its kind is not to overlap.
LEMMA AloneStarts ==
  ASSUME Alone, UNCHANGED mix, NEW w \in Workers, NEW kind, MayStart(w, kind),
         job'[w].kind = kind, \A v \in Workers \ {w} : job'[v] = job[v]
  PROVE  Alone'
  BY IdleIsAJob DEF Alone, MayStart

\* A request that goes on stays so.
LEMMA AloneChecks ==
  ASSUME Alone, UNCHANGED mix, NEW w \in Workers, job[w].kind # "idle",
         job'[w].kind = job[w].kind, \A v \in Workers \ {w} : job'[v] = job[v]
  PROVE  Alone'
  BY IdleIsAJob DEF Alone

\* Beside a request under way only those that may overlap are.
LEMMA Beside ==
  ASSUME Documented, Alone, NEW w \in Workers, job[w].kind # "idle",
         NEW v \in Workers \ {w}
  PROVE  job[v].kind \notin {"submit", "approve", "cancel", "cancel_receipt"}
  <1>1. job[w] # Idle
    BY IdleIsAJob
  <1>2. job[v].kind \in mix.racing \cup {"idle"}
    BY <1>1 DEF Alone
  <1> QED
    BY <1>2 DEF Documented

\* In the documented flow nothing is changed by hand.
LEMMA NotByHand ==
  ASSUME Documented, NEW w \in Workers, NEW kind \in ByHand
  PROVE  ~ MayStart(w, kind)
  BY DEF Documented, MayStart

\* In the documented flow nobody edits a return.
LEMMA NobodyEdits ==
  ASSUME Documented, Core, NEW w \in Workers
  PROVE  job[w].kind # "edit_return"
  <1>1. job[w].kind \in mix.kinds \cup {"idle"}
    BY RowTypes DEF Core, Job
  <1> QED
    BY <1>1 DEF Documented, ByHand

\* What a request has read is still so when orders and receipts are not
\* written.
LEMMA KnowsRests ==
  ASSUME UNCHANGED <<orders, receipts>>, NEW v \in Workers, Knows(v),
         job'[v] = Idle \/ SameWork(job'[v], job[v])
  PROVE  Knows(v)'
  <1>1. CASE job'[v] = Idle
    BY <1>1, IdleIsAJob DEF Knows
  <1>2. CASE SameWork(job'[v], job[v])
    BY <1>2 DEF Knows, SameWork
  <1> QED
    BY <1>1, <1>2

\* While a request under way is done, orders move forward only.
LEMMA KnowsStays ==
  ASSUME Documented, Alone, Knowing, NEW w \in Workers, job[w].kind # "idle", job'[w] = Idle,
         \A v \in Workers : job'[v] = Idle \/ job'[v] = job[v],
         \A o \in Orders : /\ orders[o] \in Early => orders'[o] \in Early
                           /\ orders[o] \in Full => orders'[o] \in Full
                           /\ orders[o] \in Open \cup Full => orders'[o] \in Open \cup Full,
         Core
  PROVE  Knowing'
  <1> SUFFICES ASSUME NEW v \in Workers PROVE Knows(v)'
    BY DEF Knowing
  <1>1. CASE job'[v] = Idle
    BY <1>1, IdleIsAJob DEF Knows
  <1>2. CASE job'[v] = job[v] /\ v # w
    <2>1. job[v].kind \notin {"submit", "approve", "cancel", "cancel_receipt"}
      BY <1>2, Beside
    <2>2. Knows(v) /\ Working(v)
      BY DEF Knowing, Core, Jobs
    <2> QED
      BY <1>2, <2>1, <2>2 DEF Knows, Working, OrderWork
  <1> QED
    BY <1>1, <1>2

\* Where nobody else is at work nobody has anything to know.
LEMMA KnowsNothing ==
  ASSUME \A v \in Workers : job'[v] = Idle
  PROVE  Knowing'
  BY IdleIsAJob DEF Knowing, Knows

-----------------------------------------------------------------------------
(* The quantities on receipts, as columns. *)

\* What a receipt in one of the statuses has of line i.
Lines(i, statuses) == [r \in Receipt |-> IF r.status \in statuses THEN r.lines[i] ELSE 0]

\* What receipts of some statuses carry of a line is a column.
LEMMA LinesColumn ==
  ASSUME NEW i \in Items, NEW S
  PROVE  /\ Lines(i, S) \in [Receipt -> Nat] /\ IsColumn(Lines(i, S), Receipt)
         /\ \A r \in Receipt : Lines(i, S)[r] = IF r.status \in S THEN r.lines[i] ELSE 0
         /\ \A r \in Receipt : r.lines[i] \in Nat
  <1>1. \A r \in Receipt : r.lines[i] \in Nat
    BY DEF Receipt
  <1>2. \A r \in Receipt : Lines(i, S)[r] = IF r.status \in S THEN r.lines[i] ELSE 0
    BY DEF Lines
  <1>3. Lines(i, S) \in [Receipt -> Nat]
    BY <1>1 DEF Lines
  <1> QED
    BY <1>1, <1>2, <1>3 DEF IsColumn

\* Its total is the sum over those receipts.
LEMMA ColumnOf ==
  ASSUME NEW rs \in Seq(Receipt), NEW i \in Items, NEW S
  PROVE  /\ SumFunction([n \in DOMAIN rs |-> IF rs[n].status \in S THEN rs[n].lines[i] ELSE 0])
              = Column(rs, Lines(i, S))
         /\ AreRows(rs, Receipt) /\ Column(rs, Lines(i, S)) \in Nat
  <1>1. AreRows(rs, Receipt)
    BY RowsOf
  <1>2. \A n \in DOMAIN rs :
          Lines(i, S)[rs[n]] = IF rs[n].status \in S THEN rs[n].lines[i] ELSE 0
    BY <1>1, LinesColumn DEF AreRows
  <1>3. [n \in DOMAIN rs |-> IF rs[n].status \in S THEN rs[n].lines[i] ELSE 0]
          = [n \in DOMAIN rs |-> Lines(i, S)[rs[n]]]
    BY <1>2
  <1>4. Column(rs, Lines(i, S)) \in Nat
    BY <1>1, LinesColumn, ColumnType
  <1> QED
    BY <1>1, <1>3, <1>4 DEF Column

\* What receipts carry of a line is the total of its column.
LEMMA OnReceiptsNow ==
  ASSUME Core, NEW i \in Items, NEW S
  PROVE  /\ OnReceipts(i, S) = Column(receipts, Lines(i, S)) /\ OnReceipts(i, S) \in Nat
         /\ AreRows(receipts, Receipt)
  <1>1. receipts \in Seq(Receipt)
    BY DEF Core, Rows
  <1> QED
    BY <1>1, ColumnOf DEF OnReceipts

\* So it is before and after a step.
LEMMA OnReceiptsIs ==
  ASSUME Core, Core', NEW i \in Items, NEW S
  PROVE  /\ OnReceipts(i, S) = Column(receipts, Lines(i, S)) /\ OnReceipts(i, S) \in Nat
         /\ OnReceipts(i, S)' = Column(receipts', Lines(i, S)) /\ OnReceipts(i, S)' \in Nat
         /\ AreRows(receipts, Receipt) /\ AreRows(receipts', Receipt)
  <1>1. receipts' \in Seq(Receipt)
    BY DEF Core, Rows
  <1>2. OnReceipts(i, S)' =
          SumFunction([n \in DOMAIN receipts' |->
                         IF receipts'[n].status \in S THEN receipts'[n].lines[i] ELSE 0])
    BY DEF OnReceipts
  <1>3. /\ OnReceipts(i, S)' = Column(receipts', Lines(i, S))
        /\ AreRows(receipts', Receipt) /\ Column(receipts', Lines(i, S)) \in Nat
    BY <1>1, <1>2, ColumnOf
  <1> QED
    BY <1>3, OnReceiptsNow

\* What is completed and what is a draft, apart and together; a draft is
\* part of the drafts.
LEMMA DraftsAndCompleted ==
  ASSUME Core, NEW i \in Items
  PROVE  /\ OnReceipts(i, {"COMPLETED", "DRAFT"})
              = OnReceipts(i, {"COMPLETED"}) + OnReceipts(i, {"DRAFT"})
         /\ \A n \in DOMAIN receipts :
              receipts[n].status = "DRAFT" => receipts[n].lines[i] <= OnReceipts(i, {"DRAFT"})
  <1> DEFINE K == DOMAIN receipts
             f(S) == [n \in K |-> IF receipts[n].status \in S THEN receipts[n].lines[i] ELSE 0]
             c == f({"COMPLETED"})
             d == f({"DRAFT"})
             e == f({"COMPLETED", "DRAFT"})
  <1>1. IsFiniteSet(K) /\ \A n \in K : receipts[n].lines[i] \in Nat
    BY RowNumbers, LinesColumn DEF Core, Rows
  <1>2. c \in [K -> Nat] /\ d \in [K -> Nat] /\ e \in [K -> Nat]
    BY <1>1
  <1>3. c \in [K -> Int] /\ d \in [K -> Int] /\ e \in [K -> Int]
    BY <1>1
  <1>4. \A n \in K : e[n] = c[n] + d[n]
    BY <1>1
  <1>5. \A n \in K : receipts[n].status = "DRAFT" => d[n] = receipts[n].lines[i]
    OBVIOUS
  <1>6. /\ OnReceipts(i, {"COMPLETED", "DRAFT"}) = SumFunction(e)
        /\ OnReceipts(i, {"COMPLETED"}) = SumFunction(c)
        /\ OnReceipts(i, {"DRAFT"}) = SumFunction(d)
    BY DEF OnReceipts
  <1> HIDE DEF K, f, c, d, e
  <1>7. SumFunction(e) = SumFunction(c) + SumFunction(d)
    BY <1>1, <1>3, <1>4, SumPlus
  <1>8. \A n \in K : d[n] <= SumFunction(d)
    BY <1>1, <1>2, SumHolds
  <1> QED
    BY <1>5, <1>6, <1>7, <1>8 DEF K

DraftsCounted ==
  \A i \in Items :
    /\ OnReceipts(i, {"COMPLETED", "DRAFT"})
         = OnReceipts(i, {"COMPLETED"}) + OnReceipts(i, {"DRAFT"})
    /\ \A n \in DOMAIN receipts :
         receipts[n].status = "DRAFT" => receipts[n].lines[i] <= OnReceipts(i, {"DRAFT"})

\* What completed receipts and drafts carry adds up, and no draft carries more
\* than all do.
LEMMA DraftsAreCounted == Core => DraftsCounted
  BY DraftsAndCompleted DEF DraftsCounted

\* No receipt names the line.
LEMMA NothingOnReceipts ==
  ASSUME Core, NEW i \in Items, NEW S, \A n \in DOMAIN receipts : receipts[n].lines[i] = 0
  PROVE  OnReceipts(i, S) = 0
  <1> DEFINE f == [n \in DOMAIN receipts |->
                     IF receipts[n].status \in S THEN receipts[n].lines[i] ELSE 0]
             K == DOMAIN receipts
  <1>1. f \in [K -> Int] /\ \A n \in K : f[n] = 0
    OBVIOUS
  <1>2. IsFiniteSet(K)
    BY RowNumbers DEF Core, Rows
  <1>3. OnReceipts(i, S) = SumFunction(f)
    BY DEF OnReceipts
  <1> HIDE DEF f, K
  <1> QED
    BY <1>1, <1>2, <1>3, SumZero

-----------------------------------------------------------------------------
(* The documented flow: steps that touch no receipt. *)

\* No receipt, and no order, is touched.
LEMMA FlowReads ==
  ASSUME Core, Core', Flow, UNCHANGED <<mix, orders, receipts>>, Alone', Knowing',
         \A i \in Items : /\ items'[i].received = items[i].received
                          /\ items'[i].quantity = items[i].quantity
  PROVE  Flow'
  <1>1. \A o \in Orders : ItemsOf[o] \in SUBSET Items
    BY RowTypes DEF Core
  <1>2. \A i \in Items : /\ OnReceipts(i, {"COMPLETED"})' = OnReceipts(i, {"COMPLETED"})
                         /\ OnReceipts(i, {"COMPLETED", "DRAFT"})'
                              = OnReceipts(i, {"COMPLETED", "DRAFT"})
    BY DEF OnReceipts
  <1>3. ReceivedOnce' /\ DraftsFit'
    BY <1>2 DEF Flow, ReceivedOnce, DraftsFit
  <1>4. \A o \in Orders : (AllIn(o)' <=> AllIn(o)) /\ (NoneIn(o)' <=> NoneIn(o))
    BY <1>1 DEF AllIn, NoneIn
  <1>5. Telling'
    BY <1>4 DEF Flow, Telling
  <1>6. ReceiptRows'
    BY DEF Flow, ReceiptRows
  <1> QED
    BY <1>3, <1>5, <1>6 DEF Flow

\* The status of an order is written that has no draft receipts.
LEMMA FlowStatus ==
  ASSUME Core, Core', Flow, UNCHANGED <<mix, items, receipts>>, Alone', Knowing',
         NEW o \in Orders, orders[o] \notin Open \/ orders'[o] \in Open,
         \A p \in Orders \ {o} : orders'[p] = orders[p],
         \/ orders'[o] \in Full /\ AllIn(o)
         \/ orders'[o] \notin Full \cup {"PARTIALLY_RECEIVED"} /\ NoneIn(o)
  PROVE  Flow'
  <1>1. \A i \in Items : /\ OnReceipts(i, {"COMPLETED"})' = OnReceipts(i, {"COMPLETED"})
                         /\ OnReceipts(i, {"COMPLETED", "DRAFT"})'
                              = OnReceipts(i, {"COMPLETED", "DRAFT"})
    BY DEF OnReceipts
  <1>2. ReceivedOnce' /\ DraftsFit'
    BY <1>1 DEF Flow, ReceivedOnce, DraftsFit
  <1>3. \A p \in Orders : (AllIn(p)' <=> AllIn(p)) /\ (NoneIn(p)' <=> NoneIn(p))
    BY DEF AllIn, NoneIn
  <1>4. Telling'
    BY <1>3 DEF Flow, Telling, Full
  <1>5. \A n \in DOMAIN receipts : receipts[n].order \in Orders
    BY RowTypes DEF Core, Receipt
  <1>6. ReceiptRows'
    BY <1>5 DEF Flow, ReceiptRows
  <1> QED
    BY <1>2, <1>4, <1>6 DEF Flow

\* Lines are made for an order that nothing was received on.
LEMMA FlowFresh ==
  ASSUME Core, Core', Flow, UNCHANGED <<mix, receipts>>, Alone', Knowing',
         NEW o \in Orders, orders[o] \notin Open, orders'[o] \in Early,
         \A p \in Orders \ {o} : orders'[p] = orders[p],
         NEW plan \in [Items -> Int], items' = FreshItems(o, plan),
         \A n \in DOMAIN receipts : \A i \in ItemsOf[o] : receipts[n].lines[i] = 0
  PROVE  Flow'
  <1>1. /\ \A i \in ItemsOf[o] : /\ items'[i].received = 0 /\ items'[i].returned = 0
                                 /\ items'[i].quantity = plan[i]
        /\ \A i \in Items \ ItemsOf[o] : items'[i] = items[i]
    BY Fresh
  <1>2. \A p \in Orders : ItemsOf[p] \in SUBSET Items
    BY RowTypes DEF Core
  <1>3. \A i \in Items : /\ OnReceipts(i, {"COMPLETED"})' = OnReceipts(i, {"COMPLETED"})
                         /\ OnReceipts(i, {"COMPLETED", "DRAFT"})'
                              = OnReceipts(i, {"COMPLETED", "DRAFT"})
    BY DEF OnReceipts
  <1>4. \A i \in ItemsOf[o] : /\ OnReceipts(i, {"COMPLETED"}) = 0
                              /\ OnReceipts(i, {"COMPLETED", "DRAFT"}) = 0
    BY <1>2, NothingOnReceipts
  <1>5. ReceivedOnce'
    BY <1>1, <1>2, <1>3, <1>4 DEF Flow, ReceivedOnce
  <1>6. DraftsFit'
    BY <1>1, <1>2, <1>3, <1>4 DEF Flow, DraftsFit, AtLeastZero
  <1>7. NoneIn(o)'
    BY <1>1 DEF NoneIn
  <1>8. \A p \in Orders \ {o} : (AllIn(p)' <=> AllIn(p)) /\ (NoneIn(p)' <=> NoneIn(p))
    <2>1. \A p \in Orders \ {o} : \A i \in ItemsOf[p] : i \in Items \ ItemsOf[o]
      BY <1>2, OneOrder
    <2> QED
      BY <1>1, <2>1 DEF AllIn, NoneIn
  <1>9. Telling'
    BY <1>7, <1>8 DEF Flow, Telling, Full, Early
  <1>10. \A n \in DOMAIN receipts : receipts[n].order \in Orders
    BY RowTypes DEF Core, Receipt
  <1>11. ReceiptRows'
    BY <1>10 DEF Flow, ReceiptRows
  <1> QED
    BY <1>5, <1>6, <1>9, <1>11 DEF Flow

-----------------------------------------------------------------------------
(* The documented flow: orders and receipts. *)

\* The end of a request.
LEMMA FlowEnds ==
  ASSUME Documented, Core, Flow, UNCHANGED mix, NEW w \in Workers, Done(w)
  PROVE  /\ Alone'
         /\ \A v \in Workers : job'[v] = Idle \/ job'[v] = job[v]
         /\ job'[w] = Idle
  <1>1. job'[w] = Idle /\ \A v \in Workers : job'[v] = Idle \/ job'[v] = job[v]
    BY DoneIdles DEF Core
  <1>2. Alone'
    BY <1>1, AloneRests DEF Flow
  <1> QED
    BY <1>1, <1>2

\* One receipt changes its status.
LEMMA ReceiptChanged ==
  ASSUME Core, Core', NEW n \in DOMAIN receipts, DOMAIN receipts' = DOMAIN receipts,
         \A k \in DOMAIN receipts \ {n} : receipts'[k] = receipts[k],
         receipts'[n].lines = receipts[n].lines, NEW i \in Items, NEW S
  PROVE  OnReceipts(i, S)' =
           OnReceipts(i, S) + ((IF receipts'[n].status \in S THEN receipts[n].lines[i] ELSE 0)
                               - (IF receipts[n].status \in S THEN receipts[n].lines[i] ELSE 0))
  <1> DEFINE c == Lines(i, S)
  <1>1. /\ OnReceipts(i, S) = Column(receipts, c) /\ OnReceipts(i, S)' = Column(receipts', c)
        /\ AreRows(receipts, Receipt) /\ AreRows(receipts', Receipt)
    BY OnReceiptsIs
  <1>2. RowChanged(receipts, receipts', n)
    BY DEF RowChanged
  <1>3. IsColumn(c, Receipt)
    BY LinesColumn
  <1>4. /\ c[receipts'[n]] = IF receipts'[n].status \in S THEN receipts[n].lines[i] ELSE 0
        /\ c[receipts[n]] = IF receipts[n].status \in S THEN receipts[n].lines[i] ELSE 0
    BY <1>1, LinesColumn DEF AreRows
  <1> HIDE DEF c
  <1>5. Column(receipts', c) = Column(receipts, c) + (c[receipts'[n]] - c[receipts[n]])
    BY <1>1, <1>2, <1>3, ColumnChanged
  <1> QED
    BY <1>1, <1>4, <1>5

\* A receipt is drafted for an order that takes them, within what is open.
LEMMA CreateReceiptFlows ==
  ASSUME Documented, Core, Core', Flow, NEW w \in Workers, NEW cart \in mix.carts,
         NEW r \in mix.warehouses, CreateReceipt(w, cart, r)
  PROVE  Flow'
  <1> DEFINE new == Len(receipts) + 1
             o == job[w].order
  <1>1. /\ o \in Orders /\ cart \in [Items -> Nat]
        /\ \A i \in Items \ ItemsOf[o] : cart[i] = 0
        /\ \E i \in ItemsOf[o] : cart[i] > 0
        /\ \A i \in ItemsOf[o] : cart[i] > 0 => cart[i] <= Receivable(i)
        /\ DOMAIN receipts' = DOMAIN receipts \cup {new} /\ new \notin DOMAIN receipts
        /\ \A n \in DOMAIN receipts : receipts'[n] = receipts[n]
        /\ receipts'[new].lines = cart /\ receipts'[new].status = "DRAFT"
        /\ receipts'[new].order = o
        /\ Done(w) /\ UNCHANGED <<mix, orders, items, returns, stock>>
    BY CreatedReceipt
  <1>2. job[w].kind = "create_receipt"
    BY DEF CreateReceipt, At
  <1>3. Knows(w)
    BY DEF Flow, Knowing
  <1>4. orders[o] \in Open \cup Full
    BY <1>2, <1>3 DEF Knows
  <1>5. Alone' /\ Knowing'
    <2>1. /\ Alone' /\ job'[w] = Idle
          /\ \A v \in Workers : job'[v] = Idle \/ job'[v] = job[v]
      BY <1>1, FlowEnds
    <2> QED
      BY <1>1, <1>2, <2>1, KnowsStays DEF Flow
  <1> HIDE DEF new, o
  <1>6. ItemsOf[o] \in SUBSET Items
    BY <1>1, RowTypes DEF Core
  <1>7. \A i \in Items : /\ items[i].received \in Nat /\ items[i].quantity \in Int
                         /\ items[i].received = OnReceipts(i, {"COMPLETED"})
                         /\ OnReceipts(i, {"DRAFT"}) \in Nat
                         /\ OnReceipts(i, {"COMPLETED"}) \in Nat
                         /\ OnReceipts(i, {"COMPLETED", "DRAFT"}) \in Nat
                         /\ OnReceipts(i, {"COMPLETED", "DRAFT"})
                              = OnReceipts(i, {"COMPLETED"}) + OnReceipts(i, {"DRAFT"})
    BY OnReceiptsNow, DraftsAndCompleted, RowTypes DEF Core, Line, Flow, ReceivedOnce
  <1>8. orders[o] \in Open
    <2>1. SUFFICES ASSUME orders[o] \in Full PROVE FALSE
      BY <1>4
    <2>2. PICK i \in ItemsOf[o] : cart[i] > 0
      BY <1>1
    <2>3. cart[i] <= items[i].quantity - items[i].received - OnReceipts(i, {"DRAFT"})
      BY <1>1, <2>2 DEF Receivable
    <2>4. items[i].received >= items[i].quantity
      BY <1>1, <2>1, <2>2 DEF Flow, Telling, AllIn
    <2>5. cart[i] \in Nat /\ i \in Items
      BY <1>1, <1>6
    <2> QED
      BY <1>7, <2>2, <2>3, <2>4, <2>5
  <1>9. ReceiptRows'
    <2>1. \A i \in Items : cart[i] > 0 => i \in ItemsOf[o]
      BY <1>1
    <2>2. \E i \in Items : cart[i] > 0
      BY <1>1, <1>6
    <2> QED
      BY <1>1, <1>8, <2>1, <2>2 DEF Flow, ReceiptRows, Gone
  <1>10. ASSUME NEW i \in Items
         PROVE  /\ OnReceipts(i, {"COMPLETED"})' = OnReceipts(i, {"COMPLETED"})
                /\ OnReceipts(i, {"COMPLETED", "DRAFT"})'
                     = OnReceipts(i, {"COMPLETED", "DRAFT"}) + cart[i]
    <2> DEFINE c == Lines(i, {"COMPLETED"})
               d == Lines(i, {"COMPLETED", "DRAFT"})
    <2>1. /\ OnReceipts(i, {"COMPLETED"}) = Column(receipts, c)
          /\ OnReceipts(i, {"COMPLETED"})' = Column(receipts', c)
          /\ OnReceipts(i, {"COMPLETED", "DRAFT"}) = Column(receipts, d)
          /\ OnReceipts(i, {"COMPLETED", "DRAFT"})' = Column(receipts', d)
          /\ AreRows(receipts, Receipt) /\ AreRows(receipts', Receipt)
      BY OnReceiptsIs
    <2>2. RowAdded(receipts, receipts', new)
      BY <1>1 DEF RowAdded
    <2>3. IsColumn(c, Receipt) /\ IsColumn(d, Receipt)
      BY LinesColumn
    <2>4. c[receipts'[new]] = 0 /\ d[receipts'[new]] = cart[i]
      <3>1. receipts'[new] \in Receipt
        BY <1>1, <2>1 DEF AreRows
      <3> QED
        BY <1>1, <3>1, LinesColumn
    <2> HIDE DEF c, d
    <2>5. /\ Column(receipts', c) = Column(receipts, c) + c[receipts'[new]]
          /\ Column(receipts', d) = Column(receipts, d) + d[receipts'[new]]
      BY <2>1, <2>2, <2>3, ColumnMade
    <2>6. Column(receipts, c) \in Int
      BY <2>1, <2>3, ColumnSums
    <2> QED
      BY <2>1, <2>4, <2>5, <2>6
  <1>11. ReceivedOnce'
    BY <1>1, <1>10 DEF Flow, ReceivedOnce
  <1>12. DraftsFit'
    <2> SUFFICES ASSUME NEW i \in Items
                 PROVE  OnReceipts(i, {"COMPLETED", "DRAFT"})' <= AtLeastZero(items'[i].quantity)
      BY DEF DraftsFit
    <2>1. items'[i].quantity = items[i].quantity /\ cart[i] \in Nat
      BY <1>1
    <2>2. OnReceipts(i, {"COMPLETED", "DRAFT"}) <= AtLeastZero(items[i].quantity)
      BY DEF Flow, DraftsFit
    <2>3. CASE cart[i] = 0
      BY <1>7, <1>10, <2>1, <2>2, <2>3
    <2>4. CASE cart[i] > 0
      <3>1. cart[i] <= items[i].quantity - items[i].received - OnReceipts(i, {"DRAFT"})
        BY <1>1, <2>4 DEF Receivable
      <3> QED
        BY <1>7, <1>10, <2>1, <3>1 DEF AtLeastZero
    <2> QED
      BY <2>1, <2>3, <2>4
  <1>13. Telling'
    BY <1>1 DEF Flow, Telling, AllIn, NoneIn
  <1> QED
    BY <1>5, <1>9, <1>11, <1>12, <1>13 DEF Flow

\* A receipt is cancelled.
LEMMA CancelReceiptFlows ==
  ASSUME Documented, Core, Core', Flow, NEW w \in Workers, CancelReceipt(w)
  PROVE  Flow'
  <1> DEFINE n == job[w].number
  <1>1. /\ job[w].kind = "cancel_receipt"
        /\ receipts' = [receipts EXCEPT ![n].status = "CANCELLED"] /\ Done(w)
        /\ UNCHANGED <<mix, orders, items, returns, stock>>
    BY DEF CancelReceipt, At
  <1>2. n \in DOMAIN receipts /\ receipts[n].status = "DRAFT"
    <2>1. Knows(w) /\ Working(w)
      BY DEF Flow, Knowing, Core, Jobs
    <2> QED
      BY <1>1, <2>1 DEF Knows, Working
  <1>3. Alone' /\ Knowing'
    <2>1. /\ Alone' /\ job'[w] = Idle
          /\ \A v \in Workers : job'[v] = Idle \/ job'[v] = job[v]
      BY <1>1, FlowEnds
    <2> QED
      BY <1>1, <2>1, KnowsStays DEF Flow
  <1> HIDE DEF n
  <1>4. receipts[n] \in Receipt
    BY <1>2, RowTypes DEF Core
  <1>5. /\ DOMAIN receipts' = DOMAIN receipts
        /\ \A k \in DOMAIN receipts \ {n} : receipts'[k] = receipts[k]
        /\ receipts'[n] = [receipts[n] EXCEPT !.status = "CANCELLED"]
    BY <1>1, <1>2
  <1>6. /\ receipts'[n].status = "CANCELLED" /\ receipts'[n].lines = receipts[n].lines
        /\ receipts'[n].order = receipts[n].order
    BY <1>4, <1>5 DEF Receipt
  <1>7. ASSUME NEW i \in Items
        PROVE  /\ OnReceipts(i, {"COMPLETED"})' = OnReceipts(i, {"COMPLETED"})
               /\ OnReceipts(i, {"COMPLETED", "DRAFT"})' <= OnReceipts(i, {"COMPLETED", "DRAFT"})
    <2>1. ASSUME NEW S
          PROVE  OnReceipts(i, S)' = OnReceipts(i, S) +
                   ((IF receipts'[n].status \in S THEN receipts[n].lines[i] ELSE 0)
                    - (IF receipts[n].status \in S THEN receipts[n].lines[i] ELSE 0))
      <3>1. n \in DOMAIN receipts /\ DOMAIN receipts' = DOMAIN receipts
        BY <1>2, <1>5
      <3>2. \A k \in DOMAIN receipts \ {n} : receipts'[k] = receipts[k]
        BY <1>5
      <3>3. receipts'[n].lines = receipts[n].lines
        BY <1>6
      <3> QED
        BY <3>1, <3>2, <3>3, ReceiptChanged
    <2>2. /\ receipts[n].lines[i] \in Nat /\ OnReceipts(i, {"COMPLETED"}) \in Nat
          /\ OnReceipts(i, {"COMPLETED", "DRAFT"}) \in Nat
      BY <1>4, LinesColumn, OnReceiptsNow
    <2>3. OnReceipts(i, {"COMPLETED"})' = OnReceipts(i, {"COMPLETED"}) + (0 - 0)
      BY <1>2, <1>6, <2>1
    <2>4. OnReceipts(i, {"COMPLETED", "DRAFT"})'
            = OnReceipts(i, {"COMPLETED", "DRAFT"}) + (0 - receipts[n].lines[i])
      BY <1>2, <1>6, <2>1
    <2> QED
      BY <2>2, <2>3, <2>4
  <1>8. ReceivedOnce'
    BY <1>1, <1>7 DEF Flow, ReceivedOnce
  <1>9. DraftsFit'
    <2> SUFFICES ASSUME NEW i \in Items
                 PROVE  OnReceipts(i, {"COMPLETED", "DRAFT"})' <= AtLeastZero(items'[i].quantity)
      BY DEF DraftsFit
    <2>1. /\ OnReceipts(i, {"COMPLETED", "DRAFT"}) <= AtLeastZero(items[i].quantity)
          /\ items'[i].quantity = items[i].quantity
      BY <1>1 DEF Flow, DraftsFit
    <2>2. /\ OnReceipts(i, {"COMPLETED", "DRAFT"}) \in Nat
          /\ OnReceipts(i, {"COMPLETED", "DRAFT"})' \in Nat /\ items[i].quantity \in Int
      BY OnReceiptsIs, RowTypes DEF Core, Line
    <2> QED
      BY <1>7, <2>1, <2>2 DEF AtLeastZero
  <1>10. ReceiptRows'
    BY <1>1, <1>5, <1>6 DEF Flow, ReceiptRows, Gone
  <1>11. Telling'
    BY <1>1 DEF Flow, Telling, AllIn, NoneIn
  <1> QED
    BY <1>3, <1>8, <1>9, <1>10, <1>11 DEF Flow

\* A column of which no row adds more comes to no more.
LEMMA ColumnLess ==
  ASSUME NEW T, NEW s, NEW t, AreRows(s, T), AreRows(t, T), NEW c, IsColumn(c, T),
         DOMAIN t = DOMAIN s, \A i \in DOMAIN s : c[t[i]] <= c[s[i]]
  PROVE  Column(t, c) <= Column(s, c)
  <1> DEFINE K == DOMAIN s
             f == [i \in DOMAIN t |-> c[t[i]]]
             g == [i \in K |-> c[s[i]]]
  <1>1. /\ f \in [K -> Int] /\ g \in [K -> Int] /\ \A i \in K : f[i] <= g[i]
        /\ IsFiniteSet(K)
    BY DEF AreRows, IsColumn
  <1>2. Column(t, c) = SumFunction(f) /\ Column(s, c) = SumFunction(g)
    BY DEF Column
  <1> HIDE DEF K, f, g
  <1> QED
    BY <1>1, <1>2, SumMonotone

\* An order is cancelled of which nothing was received.
LEMMA CancelOrderFlows ==
  ASSUME Documented, Core, Core', Flow, NEW w \in Workers, CancelOrder(w)
  PROVE  Flow'
  <1> DEFINE o == job[w].order
  <1>1. /\ job[w].kind = "cancel" /\ receipts' = DraftsCancelled(o)
        /\ SetStatus(w) /\ Done(w) /\ UNCHANGED <<mix, items, returns, stock>>
    BY DEF CancelOrder, At
  <1>2. /\ o \in Orders /\ orders'[o] = job[w].to
        /\ \A p \in Orders \ {o} : orders'[p] = orders[p]
    BY <1>1, OrdersSet DEF OrderWork
  <1>3. job[w].to = "CANCELLED" /\ orders[o] \in {"DRAFT", "PENDING_APPROVAL", "APPROVED", "REJECTED"}
    <2>1. Knows(w) /\ orders[o] \in OrderStatus
      BY <1>2 DEF Flow, Knowing, Core, Rows
    <2>2. job[w].to \in Targets["cancel"] /\ job[w].to \in Transitions[orders[o]]
      BY <1>1, <2>1 DEF Knows
    <2>3. job[w].to = "CANCELLED"
      BY <2>2 DEF Targets
    <2> HIDE DEF o
    <2> QED
      BY <2>1, <2>2, <2>3 DEF Transitions, OrderStatus
  <1>4. /\ receipts' \in Seq(Receipt) /\ DOMAIN receipts' = DOMAIN receipts
        /\ \A n \in DOMAIN receipts :
             /\ receipts'[n].lines = receipts[n].lines
             /\ receipts'[n].order = receipts[n].order
             /\ receipts'[n].status = IF receipts[n].order = o /\ receipts[n].status = "DRAFT"
                                      THEN "CANCELLED" ELSE receipts[n].status
    BY <1>1, DraftsAreCancelled
  <1>5. Alone' /\ Knowing'
    <2>1. /\ Alone' /\ job'[w] = Idle
          /\ \A v \in Workers : job'[v] = Idle \/ job'[v] = job[v]
      BY <1>1, FlowEnds
    <2>2. \A v \in Workers \ {w} : job[v] = Idle
      BY <1>1 DEF Flow, Alone, Documented
    <2> QED
      BY <2>1, <2>2, KnowsNothing
  <1> HIDE DEF o
  <1>6. ASSUME NEW i \in Items
        PROVE  /\ OnReceipts(i, {"COMPLETED"})' = OnReceipts(i, {"COMPLETED"})
               /\ OnReceipts(i, {"COMPLETED", "DRAFT"})' <= OnReceipts(i, {"COMPLETED", "DRAFT"})
    <2> DEFINE c == Lines(i, {"COMPLETED"})
               d == Lines(i, {"COMPLETED", "DRAFT"})
    <2>1. /\ OnReceipts(i, {"COMPLETED"}) = Column(receipts, c)
          /\ OnReceipts(i, {"COMPLETED"})' = Column(receipts', c)
          /\ OnReceipts(i, {"COMPLETED", "DRAFT"}) = Column(receipts, d)
          /\ OnReceipts(i, {"COMPLETED", "DRAFT"})' = Column(receipts', d)
          /\ AreRows(receipts, Receipt) /\ AreRows(receipts', Receipt)
      BY OnReceiptsIs
    <2>2. IsColumn(c, Receipt) /\ IsColumn(d, Receipt)
      BY LinesColumn
    <2>3. \A n \in DOMAIN receipts : c[receipts'[n]] = c[receipts[n]] /\ d[receipts'[n]] <= d[receipts[n]]
      <3> SUFFICES ASSUME NEW n \in DOMAIN receipts
                   PROVE  c[receipts'[n]] = c[receipts[n]] /\ d[receipts'[n]] <= d[receipts[n]]
        OBVIOUS
      <3>1. receipts[n] \in Receipt /\ receipts'[n] \in Receipt
        BY <1>4, <2>1 DEF AreRows
      <3>2. \A r \in Receipt :
              /\ r.lines[i] \in Nat
              /\ c[r] = IF r.status \in {"COMPLETED"} THEN r.lines[i] ELSE 0
              /\ d[r] = IF r.status \in {"COMPLETED", "DRAFT"} THEN r.lines[i] ELSE 0
        BY LinesColumn
      <3>3. /\ receipts'[n].lines[i] = receipts[n].lines[i]
            /\ \/ receipts'[n].status = receipts[n].status
               \/ receipts'[n].status = "CANCELLED" /\ receipts[n].status = "DRAFT"
        BY <1>4
      <3> HIDE DEF c, d
      <3>4. receipts[n].lines[i] \in Nat /\ c[receipts[n]] \in Nat /\ d[receipts[n]] \in Nat
        BY <3>1, <3>2
      <3>5. CASE receipts'[n].status = receipts[n].status
        BY <3>1, <3>2, <3>3, <3>4, <3>5
      <3>6. CASE receipts'[n].status = "CANCELLED" /\ receipts[n].status = "DRAFT"
        BY <3>1, <3>2, <3>3, <3>4, <3>6
      <3> QED
        BY <3>3, <3>5, <3>6
    <2> HIDE DEF c, d
    <2>4. Column(receipts', c) = Column(receipts, c)
      BY <1>4, <2>3, ColumnKept
    <2>5. Column(receipts', d) <= Column(receipts, d)
      BY <1>4, <2>1, <2>2, <2>3, ColumnLess
    <2> QED
      BY <2>1, <2>4, <2>5
  <1>7. ReceivedOnce'
    BY <1>1, <1>6 DEF Flow, ReceivedOnce
  <1>8. DraftsFit'
    <2> SUFFICES ASSUME NEW i \in Items
                 PROVE  OnReceipts(i, {"COMPLETED", "DRAFT"})' <= AtLeastZero(items'[i].quantity)
      BY DEF DraftsFit
    <2>1. /\ OnReceipts(i, {"COMPLETED", "DRAFT"}) <= AtLeastZero(items[i].quantity)
          /\ items'[i].quantity = items[i].quantity
      BY <1>1 DEF Flow, DraftsFit
    <2>2. /\ OnReceipts(i, {"COMPLETED", "DRAFT"}) \in Nat
          /\ OnReceipts(i, {"COMPLETED", "DRAFT"})' \in Nat /\ items[i].quantity \in Int
      BY OnReceiptsIs, RowTypes DEF Core, Line
    <2> QED
      BY <1>6, <2>1, <2>2 DEF AtLeastZero
  <1>9. ReceiptRows'
    <2> SUFFICES ASSUME NEW n \in DOMAIN receipts
                 PROVE  /\ receipts'[n].status # Gone
                        /\ \A i \in Items : receipts'[n].lines[i] > 0
                                            => i \in ItemsOf[receipts'[n].order]
                        /\ \E i \in Items : receipts'[n].lines[i] > 0
                        /\ receipts'[n].status = "DRAFT" => orders'[receipts'[n].order] \in Open
      BY <1>4 DEF ReceiptRows
    <2>1. receipts[n].order \in Orders
      BY RowTypes DEF Core, Receipt
    <2> QED
      BY <1>2, <1>4, <2>1 DEF Flow, ReceiptRows, Gone
  <1>10. Telling'
    <2>1. \A p \in Orders : (AllIn(p)' <=> AllIn(p)) /\ (NoneIn(p)' <=> NoneIn(p))
      BY <1>1 DEF AllIn, NoneIn
    <2>2. NoneIn(o)
      BY <1>2, <1>3 DEF Flow, Telling, Full
    <2> QED
      BY <1>2, <1>3, <2>1, <2>2 DEF Flow, Telling, Full
  <1> QED
    BY <1>5, <1>7, <1>8, <1>9, <1>10 DEF Flow

\* A receipt is executed: the order's status follows its lines.
LEMMA ExecuteReceiptFlows ==
  ASSUME Documented, Core, Core', Flow, NEW w \in Workers, ExecuteReceipt(w)
  PROVE  Flow'
  <1>0. PICK n, r, o : n = job[w].number /\ r = receipts[n] /\ o = r.order
    OBVIOUS
  <1>1. /\ job[w].kind = "complete_receipt"
        /\ n \in DOMAIN receipts /\ r \in Receipt /\ r.status = "DRAFT"
        /\ \A i \in Items : /\ items'[i].quantity = items[i].quantity
                            /\ items'[i].received = items[i].received + r.lines[i]
                            /\ items'[i].received <= AtLeastZero(items'[i].quantity)
        /\ Done(w) /\ UNCHANGED <<mix, returns>>
    BY <1>0, Executed
  <1>2. /\ DOMAIN receipts' = DOMAIN receipts
        /\ \A k \in DOMAIN receipts \ {n} : receipts'[k] = receipts[k]
        /\ receipts'[n].lines = r.lines /\ receipts'[n].status = "COMPLETED"
        /\ receipts'[n].order = o
        /\ orders'[o] = ReceivedStatus(o, items')
        /\ \A p \in Orders \ {o} : orders'[p] = orders[p]
    BY <1>0, Executed
  <1>3. /\ o \in Orders /\ orders[o] \in Open
        /\ \A i \in Items : r.lines[i] > 0 => i \in ItemsOf[o]
        /\ \E i \in Items : r.lines[i] > 0
        /\ \A i \in Items : r.lines[i] \in Nat
    BY <1>0, <1>1 DEF Flow, ReceiptRows, Receipt
  <1>4. orders'[o] \in {"RECEIVED", "PARTIALLY_RECEIVED"}
    BY <1>2 DEF ReceivedStatus
  <1>5. Alone' /\ Knowing'
    <2>1. /\ Alone' /\ job'[w] = Idle
          /\ \A v \in Workers : job'[v] = Idle \/ job'[v] = job[v]
      BY <1>1, FlowEnds
    <2>2. \A p \in Orders : /\ orders[p] \in Early => orders'[p] \in Early
                            /\ orders[p] \in Full => orders'[p] \in Full
                            /\ orders[p] \in Open \cup Full => orders'[p] \in Open \cup Full
      BY <1>2, <1>3, <1>4 DEF Open, Full, Early
    <2>3. Knowing'
      BY <1>1, <2>1, <2>2, KnowsStays DEF Flow
    <2> QED
      BY <2>1, <2>3
  <1>6. \A i \in Items : items[i] \in Line /\ items[i].received \in Nat /\ items[i].quantity \in Int
    BY RowTypes DEF Core, Line
  <1>7. ASSUME NEW i \in Items
        PROVE  /\ OnReceipts(i, {"COMPLETED"})' = OnReceipts(i, {"COMPLETED"}) + r.lines[i]
               /\ OnReceipts(i, {"COMPLETED", "DRAFT"})' = OnReceipts(i, {"COMPLETED", "DRAFT"})
    <2>1. ASSUME NEW S
          PROVE  OnReceipts(i, S)' = OnReceipts(i, S) +
                   ((IF receipts'[n].status \in S THEN receipts[n].lines[i] ELSE 0)
                    - (IF receipts[n].status \in S THEN receipts[n].lines[i] ELSE 0))
      <3>1. n \in DOMAIN receipts /\ DOMAIN receipts' = DOMAIN receipts
        BY <1>1, <1>2
      <3>2. \A k \in DOMAIN receipts \ {n} : receipts'[k] = receipts[k]
        BY <1>2
      <3>3. receipts'[n].lines = receipts[n].lines
        BY <1>0, <1>2
      <3> QED
        BY <3>1, <3>2, <3>3, ReceiptChanged
    <2>2. /\ r.lines[i] \in Nat /\ OnReceipts(i, {"COMPLETED"}) \in Nat
          /\ OnReceipts(i, {"COMPLETED", "DRAFT"}) \in Nat
      BY <1>3, OnReceiptsNow
    <2>3. receipts'[n].status = "COMPLETED" /\ receipts[n].status = "DRAFT" /\ receipts[n] = r
      BY <1>0, <1>1, <1>2
    <2>4. OnReceipts(i, {"COMPLETED"})' = OnReceipts(i, {"COMPLETED"}) + (r.lines[i] - 0)
      BY <2>1, <2>3
    <2>5. OnReceipts(i, {"COMPLETED", "DRAFT"})'
            = OnReceipts(i, {"COMPLETED", "DRAFT"}) + (r.lines[i] - r.lines[i])
      BY <2>1, <2>3
    <2> QED
      BY <2>2, <2>4, <2>5
  <1>8. ReceivedOnce'
    BY <1>1, <1>7 DEF Flow, ReceivedOnce
  <1>9. DraftsFit'
    BY <1>1, <1>7 DEF Flow, DraftsFit
  <1>10. \A p \in Orders \ {o} : \A i \in ItemsOf[p] : items'[i].received = items[i].received
    <2> SUFFICES ASSUME NEW p \in Orders \ {o}, NEW i \in ItemsOf[p]
                 PROVE  items'[i].received = items[i].received
      OBVIOUS
    <2>1. i \in Items /\ i \notin ItemsOf[o]
      BY <1>3, RowTypes, OneOrder DEF Core
    <2> QED
      BY <1>1, <1>3, <1>6, <2>1
  <1>11. AllIn(o)' <=> orders'[o] = "RECEIVED"
    BY <1>2 DEF AllIn, ReceivedStatus
  <1>12. ~ NoneIn(o)'
    <2>1. PICK i \in Items : r.lines[i] > 0
      BY <1>3
    <2>2. i \in ItemsOf[o] /\ items'[i].received > 0
      BY <1>1, <1>3, <1>6, <2>1
    <2> QED
      BY <2>2 DEF NoneIn
  <1>13. Telling'
    <2>1. \A p \in Orders : ItemsOf[p] \in SUBSET Items
      BY RowTypes DEF Core
    <2>2. \A p \in Orders \ {o} : (AllIn(p)' <=> AllIn(p)) /\ (NoneIn(p)' <=> NoneIn(p))
      BY <1>1, <1>10, <2>1 DEF AllIn, NoneIn
    <2> QED
      BY <1>2, <1>4, <1>11, <1>12, <2>2 DEF Flow, Telling, Full
  <1>14. DraftsCounted'
    BY DraftsAreCounted, PTL
  <1>15. ASSUME NEW k \in DOMAIN receipts', receipts'[k].status = "DRAFT"
         PROVE  orders'[receipts'[k].order] \in Open
    <2>1. k \in DOMAIN receipts /\ k # n /\ receipts'[k] = receipts[k]
      BY <1>2, <1>15
    <2>2. receipts[k].order \in Orders /\ receipts'[k] = receipts[k]
      BY <2>1, RowTypes DEF Core, Receipt
    <2>3. CASE receipts[k].order # o
      BY <1>2, <1>15, <2>1, <2>2, <2>3 DEF Flow, ReceiptRows
    <2>4. CASE receipts[k].order = o
      <3>1. PICK i \in Items : receipts[k].lines[i] > 0 /\ i \in ItemsOf[o]
        BY <2>1, <2>4 DEF Flow, ReceiptRows
      <3>2. receipts'[k].lines[i] <= OnReceipts(i, {"DRAFT"})'
        BY <1>15, <1>14 DEF DraftsCounted
      <3>3. OnReceipts(i, {"COMPLETED", "DRAFT"})'
              = OnReceipts(i, {"COMPLETED"})' + OnReceipts(i, {"DRAFT"})'
        BY <1>14 DEF DraftsCounted
      <3>4. /\ OnReceipts(i, {"COMPLETED", "DRAFT"})' <= AtLeastZero(items'[i].quantity)
            /\ items'[i].received = OnReceipts(i, {"COMPLETED"})'
        BY <1>8, <1>9 DEF ReceivedOnce, DraftsFit
      <3>5. /\ receipts[k].lines[i] \in Nat /\ OnReceipts(i, {"DRAFT"})' \in Nat
            /\ OnReceipts(i, {"COMPLETED"})' \in Nat /\ items'[i].quantity \in Int
        BY <1>1, <1>6, <2>1, RowTypes, OnReceiptsIs DEF Core, Receipt
      <3>6. items'[i].received < items'[i].quantity
        BY <2>1, <3>1, <3>2, <3>3, <3>4, <3>5 DEF AtLeastZero
      <3>7. ~ (items'[i].received >= items'[i].quantity)
        BY <3>4, <3>5, <3>6
      <3>8. ~ AllIn(o)'
        BY <3>1, <3>7 DEF AllIn
      <3> QED
        BY <1>4, <1>11, <2>1, <2>4, <3>8 DEF Open
    <2> QED
      BY <2>3, <2>4
  <1>16. ReceiptRows'
    <2>1. \A k \in DOMAIN receipts : /\ receipts'[k].status # Gone
                                     /\ receipts'[k].lines = receipts[k].lines
                                     /\ receipts'[k].order = receipts[k].order
      BY <1>0, <1>2 DEF Flow, ReceiptRows, Gone
    <2> QED
      BY <1>2, <1>15, <2>1 DEF Flow, ReceiptRows
  <1> QED
    BY <1>5, <1>8, <1>9, <1>13, <1>16 DEF Flow

\* A request begins.
LEMMA FlowLoads ==
  ASSUME Core, Core', Flow, NEW w \in Workers, NEW kind, MayStart(w, kind),
         NEW j, job' = [job EXCEPT ![w] = j], j.kind = kind,
         UNCHANGED <<mix, orders, items, receipts>>, Knows(w)'
  PROVE  Flow'
  <1>1. job'[w] = j /\ \A v \in Workers \ {w} : job'[v] = job[v]
    BY DEF Core, Rows
  <1>2. Alone'
    BY <1>1, AloneStarts DEF Flow
  <1>3. ASSUME NEW v \in Workers \ {w} PROVE Knows(v)'
    <2>1. Knows(v) /\ SameWork(job'[v], job[v])
      BY <1>1 DEF Flow, Knowing, SameWork
    <2> QED
      BY <2>1, KnowsRests
  <1>4. Knowing'
    BY <1>3 DEF Knowing
  <1> QED
    BY <1>2, <1>4, FlowReads

\* get_object of an order: the status is one the request is allowed for.
LEMMA LoadOrderFlows ==
  ASSUME Core, Core', Flow, NEW w \in Workers, NEW o \in Orders, NEW kind \in DOMAIN Targets,
         NEW to \in Targets[kind], LoadOrder(w, kind, o, to)
  PROVE  Flow'
  <1> DEFINE j == [Idle EXCEPT !.kind = kind, !.phase = "loaded", !.order = o, !.to = to]
  <1>1. /\ job' = [job EXCEPT ![w] = j] /\ MayStart(w, kind) /\ to \in Transitions[orders[o]]
        /\ UNCHANGED <<mix, orders, items, receipts>>
    BY DEF LoadOrder
  <1>2. j.kind = kind /\ j.order = o /\ j.to = to
    BY DEF Idle
  <1>3. kind \in {"submit", "approve", "reject", "close", "cancel"} /\ orders[o] \in OrderStatus
    BY DEF Targets, Core, Rows
  <1> HIDE DEF j
  <1>4. job'[w] = j
    BY <1>1 DEF Core, Rows
  <1>5. CASE kind \in {"submit", "approve", "cancel"}
    <2>1. Knows(w)'
      BY <1>1, <1>2, <1>4, <1>5 DEF Knows
    <2> QED
      BY <1>1, <1>2, <2>1, FlowLoads
  <1>6. CASE kind = "reject"
    <2>1. to = "REJECTED"
      BY <1>6 DEF Targets
    <2>2. orders[o] \in Early
      BY <1>1, <1>3, <2>1 DEF Transitions, OrderStatus, Early
    <2>3. Knows(w)'
      BY <1>1, <1>2, <1>4, <1>6, <2>1, <2>2 DEF Knows
    <2> QED
      BY <1>1, <1>2, <2>3, FlowLoads
  <1>7. CASE kind = "close"
    <2>1. to = "CLOSED"
      BY <1>7 DEF Targets
    <2>2. orders[o] \in Full
      BY <1>1, <1>3, <2>1 DEF Transitions, OrderStatus, Full
    <2>3. Knows(w)'
      BY <1>1, <1>2, <1>4, <1>7, <2>1, <2>2 DEF Knows
    <2> QED
      BY <1>1, <1>2, <2>3, FlowLoads
  <1> QED
    BY <1>3, <1>5, <1>6, <1>7

\* The other requests that begin.
LEMMA OtherLoadsFlow ==
  ASSUME Core, Core', Flow, NEW w \in Workers,
         \/ \E o \in Orders : LoadUpdate(w, o) \/ StartReceipt(w, o)
         \/ \E n \in DOMAIN receipts :
              \E kind \in {"complete_receipt", "cancel_receipt"} : LoadReceipt(w, kind, n)
         \/ \E o \in Orders, r \in mix.warehouses, qty \in mix.quantities :
              StartReturn(w, o, r, qty)
         \/ \E n \in DOMAIN returns :
              \E kind \in DOMAIN ReturnTarget \cup {"edit_return"} : LoadReturn(w, kind, n)
  PROVE  Flow'
  <1>0. ASSUME NEW j, job' = [job EXCEPT ![w] = j] PROVE job'[w] = j
    BY <1>0 DEF Core, Rows
  <1>1. ASSUME NEW o \in Orders, LoadUpdate(w, o) PROVE Flow'
    <2> DEFINE j == [Idle EXCEPT !.kind = "update", !.phase = "loaded", !.order = o,
                                 !.to = "DRAFT"]
    <2>1. /\ job' = [job EXCEPT ![w] = j] /\ MayStart(w, "update")
          /\ orders[o] \in {"DRAFT", "REJECTED"} /\ UNCHANGED <<mix, orders, items, receipts>>
      BY <1>1 DEF LoadUpdate
    <2>2. j.kind = "update" /\ j.order = o /\ j.to = "DRAFT"
      BY DEF Idle
    <2> HIDE DEF j
    <2>3. Knows(w)'
      BY <1>0, <2>1, <2>2 DEF Knows, Early
    <2> QED
      BY <2>1, <2>2, <2>3, FlowLoads
  <1>2. ASSUME NEW o \in Orders, StartReceipt(w, o) PROVE Flow'
    <2> DEFINE j == [Idle EXCEPT !.kind = "create_receipt", !.phase = "loaded", !.order = o]
    <2>1. /\ job' = [job EXCEPT ![w] = j] /\ MayStart(w, "create_receipt")
          /\ orders[o] \in Open /\ UNCHANGED <<mix, orders, items, receipts>>
      BY <1>2 DEF StartReceipt, Open
    <2>2. j.kind = "create_receipt" /\ j.order = o
      BY DEF Idle
    <2> HIDE DEF j
    <2>3. Knows(w)'
      BY <1>0, <2>1, <2>2 DEF Knows
    <2> QED
      BY <2>1, <2>2, <2>3, FlowLoads
  <1>3. ASSUME NEW n \in DOMAIN receipts, NEW kind \in {"complete_receipt", "cancel_receipt"},
               LoadReceipt(w, kind, n)
        PROVE  Flow'
    <2> DEFINE j == [Idle EXCEPT !.kind = kind, !.phase = "loaded", !.number = n]
    <2>1. /\ job' = [job EXCEPT ![w] = j] /\ MayStart(w, kind)
          /\ receipts[n].status = "DRAFT" /\ UNCHANGED <<mix, orders, items, receipts>>
      BY <1>3 DEF LoadReceipt
    <2>2. j.kind = kind /\ j.number = n
      BY DEF Idle
    <2> HIDE DEF j
    <2>3. Knows(w)'
      BY <1>0, <2>1, <2>2 DEF Knows
    <2> QED
      BY <2>1, <2>2, <2>3, FlowLoads
  <1>4. ASSUME NEW o \in Orders, NEW r \in mix.warehouses, NEW qty \in mix.quantities,
               StartReturn(w, o, r, qty)
        PROVE  Flow'
    <2> DEFINE j == [Idle EXCEPT !.kind = "create_return", !.phase = "loaded", !.order = o,
                                 !.warehouse = r, !.qty = qty]
    <2>1. /\ job' = [job EXCEPT ![w] = j] /\ MayStart(w, "create_return")
          /\ UNCHANGED <<mix, orders, items, receipts>>
      BY <1>4 DEF StartReturn
    <2>2. j.kind = "create_return"
      BY DEF Idle
    <2> HIDE DEF j
    <2>3. Knows(w)'
      BY <1>0, <2>1, <2>2 DEF Knows
    <2> QED
      BY <2>1, <2>2, <2>3, FlowLoads
  <1>5. ASSUME NEW n \in DOMAIN returns, NEW kind \in DOMAIN ReturnTarget \cup {"edit_return"},
               LoadReturn(w, kind, n)
        PROVE  Flow'
    <2> DEFINE j == [kind |-> kind, phase |-> "loaded", order |-> returns[n].order,
                     number |-> n, to |-> returns[n].status,
                     warehouse |-> returns[n].warehouse, qty |-> returns[n].qty]
    <2>1. /\ job' = [job EXCEPT ![w] = j] /\ MayStart(w, kind)
          /\ UNCHANGED <<mix, orders, items, receipts>>
      BY <1>5 DEF LoadReturn
    <2>2. j.kind = kind /\ kind \in ReturnWork
      BY DEF ReturnTarget, ReturnWork
    <2> HIDE DEF j
    <2>3. Knows(w)'
      BY <1>0, <2>1, <2>2 DEF Knows, ReturnWork
    <2> QED
      BY <2>1, <2>2, <2>3, FlowLoads
  <1> QED
    BY <1>1, <1>2, <1>3, <1>4, <1>5

\* The checks of the requests under way.
LEMMA ChecksFlow ==
  ASSUME Core, Core', Flow, NEW w \in Workers, CheckReceived(w) \/ CheckReturnable(w)
  PROVE  Flow'
  <1>1. /\ job' = [job EXCEPT ![w].phase = "checked"] /\ job[w].kind # "idle"
        /\ UNCHANGED <<mix, orders, items, receipts>>
    BY DEF CheckReceived, CheckReturnable, At
  <1>2. /\ SameWork(job'[w], job[w]) /\ \A v \in Workers \ {w} : job'[v] = job[v]
    BY <1>1, Checked DEF Core
  <1>3. Alone'
    BY <1>1, <1>2, AloneChecks DEF Flow, SameWork
  <1>4. \A v \in Workers : SameWork(job'[v], job[v]) /\ Knows(v)
    BY <1>2 DEF SameWork, Flow, Knowing
  <1>5. Knowing'
    BY <1>1, <1>4, KnowsRests DEF Knowing
  <1> QED
    BY <1>1, <1>3, <1>5, FlowReads

\* A request ends that has touched no order and no receipt.
LEMMA EndsFlow ==
  ASSUME Documented, Core, Core', Flow, NEW w \in Workers, Done(w),
         UNCHANGED <<mix, orders, receipts>>,
         \A i \in Items : /\ items'[i].received = items[i].received
                          /\ items'[i].quantity = items[i].quantity
  PROVE  Flow'
  <1>1. Alone' /\ \A v \in Workers : job'[v] = Idle \/ job'[v] = job[v]
    BY FlowEnds
  <1>2. \A v \in Workers : Knows(v) /\ (job'[v] = Idle \/ SameWork(job'[v], job[v]))
    BY <1>1 DEF SameWork, Flow, Knowing
  <1>3. Knowing'
    BY <1>2, KnowsRests DEF Knowing
  <1> QED
    BY <1>1, <1>3, FlowReads

\* Requests that write the status of an order: it is what they read it to be.
LEMMA WriteStatusFlows ==
  ASSUME Documented, Core, Core', Flow, NEW w \in Workers,
         SubmitOrder(w) \/ ApproveOrder(w) \/ RejectOrder(w) \/ CloseOrder(w) \/ UpdateHeader(w)
  PROVE  Flow'
  <1>0. PICK o, to : o = job[w].order /\ to = job[w].to
    OBVIOUS
  <1>1. /\ job[w].kind \in {"submit", "approve", "reject", "close", "update"}
        /\ SetStatus(w) /\ Done(w) /\ UNCHANGED <<mix, items, receipts>>
    BY DEF SubmitOrder, ApproveOrder, RejectOrder, CloseOrder, UpdateHeader, WriteStatus, At
  <1>2. /\ o \in Orders /\ orders'[o] = to /\ orders[o] \in OrderStatus
        /\ \A p \in Orders \ {o} : orders'[p] = orders[p]
    BY <1>0, <1>1, OrdersSet DEF OrderWork, Core, Rows
  <1>3. Knows(w)
    BY DEF Flow, Knowing
  <1>4. Alone' /\ job'[w] = Idle /\ \A v \in Workers : job'[v] = Idle \/ job'[v] = job[v]
    BY <1>1, FlowEnds
  <1>5. CASE job[w].kind \in {"submit", "approve"}
    <2>1. to \in Targets[job[w].kind] /\ to \in Transitions[orders[o]]
      BY <1>0, <1>3, <1>5 DEF Knows
    <2>2. to \in {"PENDING_APPROVAL", "APPROVED"}
      BY <1>5, <2>1 DEF Targets
    <2>3. orders[o] \in {"DRAFT", "PENDING_APPROVAL"}
      BY <1>2, <2>1, <2>2 DEF Transitions, OrderStatus
    <2>4. \A v \in Workers \ {w} : job[v] = Idle
      BY <1>5 DEF Flow, Alone, Documented
    <2>5. Knowing'
      BY <1>4, <2>4, KnowsNothing
    <2>6. NoneIn(o) /\ orders[o] \notin Open
      BY <1>2, <2>3 DEF Flow, Telling, Full, Open
    <2>7. orders'[o] \notin Full \cup {"PARTIALLY_RECEIVED"}
      BY <1>2, <2>2 DEF Full
    <2> QED
      BY <1>1, <1>2, <1>4, <2>5, <2>6, <2>7, FlowStatus
  <1>6. CASE job[w].kind \in {"reject", "update"}
    <2>1. to \in {"DRAFT", "REJECTED"} /\ orders[o] \in Early
      BY <1>0, <1>3, <1>6 DEF Knows
    <2>2. Knowing'
      BY <1>1, <1>2, <1>4, <2>1, KnowsStays DEF Flow, Early, Full, Open
    <2>3. NoneIn(o) /\ orders[o] \notin Open
      BY <1>2, <2>1 DEF Flow, Telling, Full, Open, Early
    <2>4. orders'[o] \notin Full \cup {"PARTIALLY_RECEIVED"}
      BY <1>2, <2>1 DEF Full
    <2> QED
      BY <1>1, <1>2, <1>4, <2>2, <2>3, <2>4, FlowStatus
  <1>7. CASE job[w].kind = "close"
    <2>1. to = "CLOSED" /\ orders[o] \in Full
      BY <1>0, <1>3, <1>7 DEF Knows
    <2>2. Knowing'
      BY <1>1, <1>2, <1>4, <2>1, KnowsStays DEF Flow, Early, Full, Open
    <2>3. AllIn(o) /\ orders[o] \notin Open /\ orders'[o] \in Full
      BY <1>2, <2>1 DEF Flow, Telling, Full, Open
    <2> QED
      BY <1>1, <1>2, <1>4, <2>2, <2>3, FlowStatus
  <1> QED
    BY <1>1, <1>5, <1>6, <1>7

\* The lines of an order are replaced before anything was received.
LEMMA UpdateLinesFlows ==
  ASSUME Documented, Core, Core', Flow, NEW w \in Workers, NEW plan \in Plans,
         UpdateLines(w, plan)
  PROVE  Flow'
  <1>0. PICK o : o = job[w].order
    OBVIOUS
  <1>1. /\ job[w].kind = "update" /\ SetStatus(w) /\ items' = FreshItems(o, plan)
        /\ LinesFree(o) /\ UNCHANGED <<mix, receipts>>
    BY <1>0 DEF UpdateLines, At
  <1>2. job'[w] = Idle /\ \A v \in Workers : job'[v] = Idle \/ job'[v] = job[v]
    BY DEF UpdateLines
  <1>3. plan \in [Items -> Int]
    BY PlansAssumption
  <1>4. Knows(w)
    BY DEF Flow, Knowing
  <1>5. /\ o \in Orders /\ orders'[o] \in {"DRAFT", "REJECTED"} /\ orders[o] \in Early
        /\ \A p \in Orders \ {o} : orders'[p] = orders[p]
    BY <1>0, <1>1, <1>4, OrdersSet DEF OrderWork, Knows
  <1>6. Alone'
    BY <1>1, <1>2, AloneRests DEF Flow
  <1>7. Knowing'
    BY <1>1, <1>2, <1>5, KnowsStays DEF Flow, Early, Full, Open
  <1>8. \A n \in DOMAIN receipts : \A i \in ItemsOf[o] : receipts[n].lines[i] = 0
    BY <1>1 DEF LinesFree, Flow, ReceiptRows
  <1>9. orders[o] \notin Open /\ orders'[o] \in Early
    BY <1>5 DEF Early, Open
  <1> QED
    BY <1>1, <1>3, <1>5, <1>6, <1>7, <1>8, <1>9, FlowFresh

\* A new order has received nothing.
LEMMA CreateOrderFlows ==
  ASSUME Documented, Core, Core', Flow, NEW w \in Workers, NEW o \in Orders,
         NEW plan \in Plans, CreateOrder(w, o, plan)
  PROVE  Flow'
  <1>1. /\ orders[o] = "NONE" /\ orders' = [orders EXCEPT ![o] = "DRAFT"]
        /\ items' = FreshItems(o, plan) /\ MayStart(w, "create")
        /\ UNCHANGED <<mix, receipts, job>>
    BY DEF CreateOrder
  <1>2. plan \in [Items -> Int]
    BY PlansAssumption
  <1>3. orders'[o] \in Early /\ orders[o] \notin Open /\ \A p \in Orders \ {o} : orders'[p] = orders[p]
    BY <1>1 DEF Core, Rows, Open, Early
  <1>4. \A v \in Workers : job'[v] = Idle
    BY <1>1 DEF MayStart, Documented
  <1>5. Alone' /\ Knowing'
    BY <1>1, <1>4, AloneRests, KnowsNothing DEF Flow
  <1>6. \A n \in DOMAIN receipts : \A i \in ItemsOf[o] : receipts[n].lines[i] = 0
    <2> SUFFICES ASSUME NEW n \in DOMAIN receipts, NEW i \in ItemsOf[o]
                 PROVE  receipts[n].lines[i] = 0
      OBVIOUS
    <2>1. receipts[n].lines[i] \in Nat
      BY RowTypes DEF Core, Receipt
    <2>2. ~ (receipts[n].lines[i] > 0)
      BY <1>1 DEF Core, Present, Flow, ReceiptRows
    <2> QED
      BY <2>1, <2>2
  <1> QED
    BY <1>1, <1>2, <1>3, <1>5, <1>6, FlowFresh

\* Every step about orders keeps Flow.
LEMMA OrderStepFlows ==
  ASSUME Documented, Core, Core', Flow, NEW w \in Workers, OrderStep(w)
  PROVE  Flow'
  <1>1. ASSUME NEW o \in Orders PROVE ~ DestroyOrder(w, o)
    BY NotByHand DEF DestroyOrder, ByHand, Deletions
  <1> QED
    BY <1>1, CreateOrderFlows, LoadOrderFlows, OtherLoadsFlow, WriteStatusFlows, ChecksFlow,
       UpdateLinesFlows, CancelOrderFlows DEF OrderStep

\* Every step about receipts keeps it.
LEMMA ReceiptStepFlows ==
  ASSUME Documented, Core, Core', Flow, NEW w \in Workers, ReceiptStep(w)
  PROVE  Flow'
  <1>1. ASSUME NEW n \in DOMAIN receipts
        PROVE  /\ ~ DestroyReceipt(w, n)
               /\ \A status, o, r : ~ EditReceipt(w, n, status, o, r)
    BY NotByHand DEF DestroyReceipt, EditReceipt, ByHand, Deletions
  <1> QED
    BY <1>1, OtherLoadsFlow, CreateReceiptFlows, CancelReceiptFlows, ExecuteReceiptFlows
       DEF ReceiptStep

\* Every step about returns keeps it.
LEMMA ReturnStepFlows ==
  ASSUME Documented, Core, Core', Flow, NEW w \in Workers, ReturnStep(w)
  PROVE  Flow'
  <1>1. ASSUME NEW n \in DOMAIN returns PROVE ~ DestroyReturn(w, n)
    BY NotByHand DEF DestroyReturn, ByHand, Deletions
  <1>2. ASSUME \/ CreateReturn(w) \/ SubmitReturn(w) \/ ApproveReturn(w) \/ CancelReturn(w)
               \/ \E o \in Orders, r \in mix.warehouses : EditReturn(w, o, r)
        PROVE  Flow'
    <2>1. Done(w) /\ UNCHANGED <<mix, orders, items, receipts, stock>>
      BY <1>2, CreatedReturn, SavedReturn
    <2> QED
      BY <2>1, EndsFlow
  <1>3. ASSUME CompleteReturn(w) PROVE Flow'
    <2>1. /\ Done(w) /\ UNCHANGED <<mix, orders, receipts>>
          /\ \A i \in Items : /\ items'[i].received = items[i].received
                              /\ items'[i].quantity = items[i].quantity
      BY <1>3, Completed
    <2> QED
      BY <2>1, EndsFlow
  <1> QED
    BY <1>1, <1>2, <1>3, OtherLoadsFlow, ChecksFlow DEF ReturnStep

\* Every step of the documented flow keeps Flow.
LEMMA FlowKeeps == Documented /\ Core /\ Core' /\ Flow /\ [Next]_vars => Flow'
  <1> SUFFICES ASSUME Documented, Core, Core', Flow, [Next]_vars PROVE Flow'
    OBVIOUS
  <1>1. ASSUME NEW w \in Workers, Abort(w) PROVE Flow'
    BY <1>1, EndsFlow DEF Abort
  <1>2. CASE UNCHANGED vars
    <2>1. Alone' /\ \A v \in Workers : Knows(v) /\ SameWork(job'[v], job[v])
      BY <1>2 DEF vars, Flow, Alone, Knowing, SameWork
    <2>2. Knowing'
      BY <1>2, <2>1, KnowsRests DEF Knowing, vars
    <2> QED
      BY <1>2, <2>1, <2>2, FlowReads DEF vars
  <1> QED
    BY <1>1, <1>2, OrderStepFlows, ReceiptStepFlows, ReturnStepFlows DEF Next

\* At the start there is nothing.
LEMMA Nothing ==
  ASSUME Init
  PROVE  /\ DOMAIN receipts = {} /\ DOMAIN returns = {}
         /\ \A i \in Items : /\ items[i].received = 0 /\ items[i].returned = 0
                             /\ items[i].quantity = 0
         /\ \A o \in Orders : orders[o] = "NONE"
         /\ \A w \in Workers : job[w] = Idle
         /\ \A S : \A i \in Items : OnReceipts(i, S) = 0
         /\ \A o, n, S : OnReturns(o, n, S) = 0
  <1>1. receipts = << >> /\ returns = << >>
    BY DEF Init
  <1>2. DOMAIN receipts = {} /\ DOMAIN returns = {}
    <2>1. Core
      BY CoreStarts
    <2>2. Len(receipts) = 0 /\ Len(returns) = 0
      BY <1>1
    <2>3. DOMAIN receipts = 1 .. Len(receipts) /\ DOMAIN returns = 1 .. Len(returns)
      BY <2>1, RowNumbers DEF Core, Rows
    <2> QED
      BY <2>2, <2>3
  <1>3. \A S : \A i \in Items : OnReceipts(i, S) = 0
    BY <1>2, SumEmpty DEF OnReceipts
  <1>4. \A o, n, S : OnReturns(o, n, S) = 0
    BY <1>2, SumEmpty DEF OnReturns
  <1> QED
    BY <1>2, <1>3, <1>4 DEF Init

\* At the start no order is there.
LEMMA FlowStarts == Init => Flow
  <1> SUFFICES ASSUME Init PROVE Flow
    OBVIOUS
  <1>1. Alone /\ Knowing
    BY Nothing, IdleIsAJob DEF Alone, Knowing, Knows
  <1>2. ReceiptRows
    BY Nothing DEF ReceiptRows
  <1>3. ReceivedOnce
    <2>1. \A i \in Items : OnReceipts(i, {"COMPLETED"}) = 0 /\ items[i].received = 0
      BY Nothing
    <2> QED
      BY <2>1 DEF ReceivedOnce
  <1>4. DraftsFit
    <2>1. \A i \in Items : OnReceipts(i, {"COMPLETED", "DRAFT"}) = 0 /\ items[i].quantity = 0
      BY Nothing
    <2> QED
      BY <2>1 DEF DraftsFit, AtLeastZero
  <1>5. Telling
    <2>1. \A o \in Orders : NoneIn(o) /\ orders[o] = "NONE"
      <3>1. \A o \in Orders : ItemsOf[o] \in SUBSET Items
        BY PlansAssumption
      <3> QED
        BY <3>1, Nothing DEF NoneIn
    <2> QED
      BY <2>1 DEF Telling, Full
  <1> QED
    BY <1>1, <1>2, <1>3, <1>4, <1>5 DEF Flow

\* The mix of a behaviour is fixed.
LEMMA SameMix == [Next]_vars => UNCHANGED mix
  <1> SUFFICES ASSUME [Next]_vars PROVE UNCHANGED mix
    OBVIOUS
  <1>1. ASSUME NEW w \in Workers, OrderStep(w) PROVE UNCHANGED mix
    BY <1>1 DEF OrderStep, CreateOrder, DestroyOrder, LoadOrder, LoadUpdate, SubmitOrder,
                ApproveOrder, RejectOrder, CloseOrder, WriteStatus, CheckReceived,
                UpdateHeader, UpdateLines, CancelOrder
  <1>2. ASSUME NEW w \in Workers, ReceiptStep(w) PROVE UNCHANGED mix
    BY <1>2 DEF ReceiptStep, StartReceipt, CreateReceipt, LoadReceipt, EditReceipt,
                DestroyReceipt, CancelReceipt, ExecuteReceipt
  <1>3. ASSUME NEW w \in Workers, ReturnStep(w) PROVE UNCHANGED mix
    BY <1>3 DEF ReturnStep, StartReturn, LoadReturn, DestroyReturn, CheckReturnable,
                CreateReturn, SubmitReturn, ApproveReturn, SaveReturn, CancelReturn,
                EditReturn, CompleteReturn
  <1>4. ASSUME NEW w \in Workers, Abort(w) PROVE UNCHANGED mix
    BY <1>4 DEF Abort
  <1> QED
    BY <1>1, <1>2, <1>3, <1>4 DEF Next, vars

\* Flow holds in every behaviour of the documented flow.
LEMMA FlowHolds == Spec => [](Documented => Flow)
  <1>1. [Next]_vars => (Documented' <=> Documented)
    BY SameMix DEF Documented
  <1> QED
    BY <1>1, CoreHolds, FlowStarts, FlowKeeps, PTL DEF Spec

\* The status of an order tells what was received of it.
LEMMA FlowTells == Core /\ Flow => StatusTellsReceipts
  <1> SUFFICES ASSUME Core, Flow, NEW o \in Orders
               PROVE  LET all  == \A i \in ItemsOf[o] : items[i].received >= items[i].quantity
                          none == \A i \in ItemsOf[o] : items[i].received = 0
                      IN  CASE orders[o] \in {"RECEIVED", "CLOSED"}  -> all
                            [] orders[o] = "PARTIALLY_RECEIVED"      -> ~ all /\ ~ none
                            [] orders[o] = "CANCELLED"               ->
                                 none /\ \A n \in DOMAIN receipts :
                                   receipts[n].order = o => receipts[n].status # "DRAFT"
                            [] OTHER                                 -> none
    BY DEF StatusTellsReceipts
  <1>1. /\ orders[o] \in {"RECEIVED", "CLOSED"} => AllIn(o)
        /\ orders[o] = "PARTIALLY_RECEIVED" => ~ AllIn(o) /\ ~ NoneIn(o)
        /\ orders[o] \notin {"RECEIVED", "CLOSED", "PARTIALLY_RECEIVED"} => NoneIn(o)
    BY DEF Flow, Telling, Full
  <1>2. orders[o] = "CANCELLED" =>
          \A n \in DOMAIN receipts : receipts[n].order = o => receipts[n].status # "DRAFT"
    BY DEF Flow, ReceiptRows, Open
  <1> QED
    BY <1>1, <1>2 DEF AllIn, NoneIn

(***************************************************************************)
(* In the documented flow the status of an order tells how much of it has  *)
(* come in, and a cancelled order has no receipt left to execute, however  *)
(* receipts are made and executed beside an update, a rejection or a       *)
(* closing of their order.                                                 *)
(***************************************************************************)
THEOREM StatusIsTold == Spec => []StatusTellsReceipts
  <1>1. ~ Documented => StatusTellsReceipts
    BY DEF StatusTellsReceipts
  <1> QED
    BY <1>1, FlowTells, FlowHolds, CoreHolds, PTL

-----------------------------------------------------------------------------
(* What the returns say, in the documented flow. *)

\* The statuses that a return may leave.
Pending == {"DRAFT", "PENDING_APPROVAL", "APPROVED"}

\* What the request of w has read of its return is true still; a return is
\* completed by one request; the quantity of a return about to be made fits.
KnowsReturn(w) ==
  LET j == job[w] IN
  /\ j.kind \in DOMAIN ReturnTarget =>
       /\ returns[j.number].status \in Pending
       /\ returns[j.number].order = j.order /\ returns[j.number].qty = j.qty
  /\ j.kind = "create_return" /\ j.phase = "checked" => j.qty <= Returnable(j.order, 0)
  /\ j.kind = "complete_return" =>
       \A v \in Workers \ {w} :
         job[v].kind = "complete_return" => job[v].number # j.number

Returning ==
  /\ \A w \in Workers : KnowsReturn(w)
  /\ ReturnedOnce /\ ReturnsCovered

\* What a return in one of the statuses is of order o.
Owed(o, statuses) ==
  [r \in Return |-> IF r.order = o /\ r.status \in statuses THEN r.qty ELSE 0]

\* What returns of an order in some statuses come to is a column.
LEMMA OwedColumn ==
  ASSUME NEW o \in Orders, NEW S
  PROVE  /\ Owed(o, S) \in [Return -> Nat] /\ IsColumn(Owed(o, S), Return)
         /\ \A r \in Return :
              Owed(o, S)[r] = IF r.order = o /\ r.status \in S THEN r.qty ELSE 0
  <1>1. \A r \in Return : r.qty \in Nat
    BY DEF Return
  <1>2. \A r \in Return : Owed(o, S)[r] = IF r.order = o /\ r.status \in S THEN r.qty ELSE 0
    BY DEF Owed
  <1>3. Owed(o, S) \in [Return -> Nat]
    BY <1>1 DEF Owed
  <1> QED
    BY <1>2, <1>3 DEF IsColumn

\* Its total is the sum over those returns.
LEMMA OwedOf ==
  ASSUME NEW rs \in Seq(Return), NEW o \in Orders, NEW S
  PROVE  /\ SumFunction([k \in DOMAIN rs |->
                           IF k # 0 /\ rs[k].order = o /\ rs[k].status \in S
                           THEN rs[k].qty ELSE 0])
              = Column(rs, Owed(o, S))
         /\ AreRows(rs, Return) /\ Column(rs, Owed(o, S)) \in Nat
  <1>1. AreRows(rs, Return)
    BY RowsOf
  <1>2. \A k \in DOMAIN rs : k # 0
    BY RowNumbers
  <1>3. \A k \in DOMAIN rs :
          Owed(o, S)[rs[k]] = IF rs[k].order = o /\ rs[k].status \in S THEN rs[k].qty ELSE 0
    BY <1>1, OwedColumn DEF AreRows
  <1>4. [k \in DOMAIN rs |-> IF k # 0 /\ rs[k].order = o /\ rs[k].status \in S
                             THEN rs[k].qty ELSE 0]
          = [k \in DOMAIN rs |-> Owed(o, S)[rs[k]]]
    BY <1>2, <1>3
  <1>5. Column(rs, Owed(o, S)) \in Nat
    BY <1>1, OwedColumn, ColumnType
  <1> QED
    BY <1>1, <1>4, <1>5 DEF Column

\* What returns of an order come to is the total of its column.
LEMMA OnReturnsNow ==
  ASSUME Core, NEW o \in Orders, NEW S
  PROVE  /\ OnReturns(o, 0, S) = Column(returns, Owed(o, S)) /\ OnReturns(o, 0, S) \in Nat
         /\ AreRows(returns, Return)
  <1>1. returns \in Seq(Return)
    BY DEF Core, Rows
  <1> QED
    BY <1>1, OwedOf, ZenonT(60) DEF OnReturns

\* So it is before and after a step.
LEMMA OnReturnsIs ==
  ASSUME Core, Core', NEW o \in Orders, NEW S
  PROVE  /\ OnReturns(o, 0, S) = Column(returns, Owed(o, S)) /\ OnReturns(o, 0, S) \in Nat
         /\ OnReturns(o, 0, S)' = Column(returns', Owed(o, S)) /\ OnReturns(o, 0, S)' \in Nat
         /\ AreRows(returns, Return) /\ AreRows(returns', Return)
  <1>1. returns' \in Seq(Return)
    BY DEF Core, Rows
  <1>2. OnReturns(o, 0, S)' =
          SumFunction([k \in DOMAIN returns' |->
                         IF k # 0 /\ returns'[k].order = o /\ returns'[k].status \in S
                         THEN returns'[k].qty ELSE 0])
    BY DEF OnReturns
  <1>3. /\ OnReturns(o, 0, S)' = Column(returns', Owed(o, S))
        /\ AreRows(returns', Return) /\ Column(returns', Owed(o, S)) \in Nat
    BY <1>1, <1>2, OwedOf
  <1> QED
    BY <1>3, OnReturnsNow

\* A return is written, its order and its quantity kept.
LEMMA ReturnChanged ==
  ASSUME Core, Core', NEW n \in DOMAIN returns, DOMAIN returns' = DOMAIN returns,
         \A k \in DOMAIN returns \ {n} : returns'[k] = returns[k],
         returns'[n].order = returns[n].order, returns'[n].qty = returns[n].qty,
         NEW p \in Orders, NEW S
  PROVE  OnReturns(p, 0, S)' =
           OnReturns(p, 0, S) +
             ((IF returns[n].order = p /\ returns'[n].status \in S
               THEN returns[n].qty ELSE 0)
              - (IF returns[n].order = p /\ returns[n].status \in S
                 THEN returns[n].qty ELSE 0))
  <1> DEFINE c == Owed(p, S)
  <1>1. /\ OnReturns(p, 0, S) = Column(returns, c) /\ OnReturns(p, 0, S)' = Column(returns', c)
        /\ AreRows(returns, Return) /\ AreRows(returns', Return)
    BY OnReturnsIs
  <1>2. RowChanged(returns, returns', n)
    BY DEF RowChanged
  <1>3. IsColumn(c, Return)
    BY OwedColumn
  <1>4. /\ c[returns'[n]] = IF returns[n].order = p /\ returns'[n].status \in S
                            THEN returns[n].qty ELSE 0
        /\ c[returns[n]] = IF returns[n].order = p /\ returns[n].status \in S
                           THEN returns[n].qty ELSE 0
    BY <1>1, OwedColumn DEF AreRows
  <1> HIDE DEF c
  <1>5. Column(returns', c) = Column(returns, c) + (c[returns'[n]] - c[returns[n]])
    BY <1>1, <1>2, <1>3, ColumnChanged
  <1> QED
    BY <1>1, <1>4, <1>5

\* What the lines of an order received and gave back.
BackOf(o) == SumFunction([i \in ItemsOf[o] |-> items[i].returned])

\* What the lines of an order received and gave back come to integers.
LEMMA LineSums ==
  ASSUME Core, Core', NEW o \in Orders
  PROVE  /\ ReceivedOf(o) \in Int /\ ReceivedOf(o)' \in Int
         /\ BackOf(o) \in Int /\ BackOf(o)' \in Int
         /\ (\A i \in Items : items[i].received <= items'[i].received)
              => ReceivedOf(o) <= ReceivedOf(o)'
         /\ (\A i \in Items : items[i].returned = items'[i].returned)
              => BackOf(o)' = BackOf(o)
  <1> DEFINE K == ItemsOf[o]
             f == [i \in K |-> items[i].received]
             g == [i \in K |-> items'[i].received]
             b == [i \in K |-> items[i].returned]
             c == [i \in K |-> items'[i].returned]
  <1>1. K \in SUBSET Items /\ IsFiniteSet(K)
    <2>1. K \in SUBSET Items /\ IsFiniteSet(Items)
      BY RowTypes, PlansAssumption DEF Core
    <2> QED
      BY <2>1, FS_Subset
  <1>2. \A i \in K : items[i] \in Line /\ items'[i] \in Line
    BY <1>1 DEF Core, Rows
  <1>3. f \in [K -> Int] /\ g \in [K -> Int] /\ b \in [K -> Int] /\ c \in [K -> Int]
    BY <1>2 DEF Line
  <1>4. /\ (\A i \in Items : items[i].received <= items'[i].received)
             => \A i \in K : f[i] <= g[i]
        /\ (\A i \in Items : items[i].returned = items'[i].returned) => b = c
    BY <1>1
  <1>5. /\ ReceivedOf(o) = SumFunction(f) /\ ReceivedOf(o)' = SumFunction(g)
        /\ BackOf(o) = SumFunction(b) /\ BackOf(o)' = SumFunction(c)
    BY DEF ReceivedOf, BackOf
  <1> HIDE DEF K, f, g, b, c
  <1> QED
    BY <1>1, <1>3, <1>4, <1>5, SumType, SumMonotone

\* Nothing is returned, and no line loses what it received.
LEMMA ReturningRests ==
  ASSUME Core, Core', Returning, UNCHANGED returns,
         \A v \in Workers : KnowsReturn(v)',
         \A i \in Items : /\ items[i].received <= items'[i].received
                          /\ items[i].returned = items'[i].returned
  PROVE  Returning'
  <1>1. \A o, n, S : OnReturns(o, n, S)' = OnReturns(o, n, S)
    BY DEF OnReturns
  <1>2. \A o \in Orders : /\ ReceivedOf(o) <= ReceivedOf(o)' /\ BackOf(o)' = BackOf(o)
                          /\ ReceivedOf(o) \in Int /\ ReceivedOf(o)' \in Int
    BY LineSums
  <1>3. ReturnedOnce'
    <2>1. \A o \in Orders : BackOf(o) = OnReturns(o, 0, {"COMPLETED"})
      BY DEF Returning, ReturnedOnce, BackOf
    <2>2. \A o \in Orders : BackOf(o)' = OnReturns(o, 0, {"COMPLETED"})'
      BY <1>1, <1>2, <2>1
    <2> QED
      BY <2>2 DEF ReturnedOnce, BackOf
  <1>4. ReturnsCovered'
    <2> SUFFICES ASSUME NEW o \in Orders
                 PROVE  OnReturns(o, 0, NotCancelled)' <= ReceivedOf(o)'
      BY DEF ReturnsCovered, NotCancelled
    <2>1. OnReturns(o, 0, NotCancelled) <= ReceivedOf(o) /\ OnReturns(o, 0, NotCancelled) \in Nat
      BY OnReturnsNow DEF Returning, ReturnsCovered
    <2>2. OnReturns(o, 0, NotCancelled)' = OnReturns(o, 0, NotCancelled)
      BY <1>1 DEF NotCancelled
    <2> QED
      BY <1>2, <2>1, <2>2
  <1> QED
    BY <1>3, <1>4 DEF Returning

\* What a request about a return read is still so when returns are not written
\* and no line loses what it received.
LEMMA KnowsReturnRests ==
  ASSUME Core, Core', Returning, UNCHANGED returns,
         \A v \in Workers : job'[v] = Idle \/ job'[v] = job[v],
         \A i \in Items : items[i].received <= items'[i].received
  PROVE  \A v \in Workers : KnowsReturn(v)'
  <1> SUFFICES ASSUME NEW v \in Workers PROVE KnowsReturn(v)'
    OBVIOUS
  <1>0. "idle" \notin DOMAIN ReturnTarget
    BY DEF ReturnTarget
  <1>1. CASE job'[v] = Idle
    BY <1>0, <1>1, IdleIsAJob DEF KnowsReturn
  <1>2. CASE job'[v] = job[v]
    <2>1. KnowsReturn(v)
      BY DEF Returning
    <2>2. ASSUME job[v].kind = "create_return", job[v].phase = "checked"
          PROVE  job[v].qty <= Returnable(job[v].order, 0)'
      <3>0. PICK o, q : o = job[v].order /\ q = job[v].qty
        OBVIOUS
      <3>1. o \in Orders /\ q \in Nat
        BY <2>2, <3>0 DEF Core, Jobs, Working
      <3>2. q <= ReceivedOf(o) - OnReturns(o, 0, NotCancelled)
        BY <2>1, <2>2, <3>0 DEF KnowsReturn, Returnable
      <3>3. OnReturns(o, 0, NotCancelled)' = OnReturns(o, 0, NotCancelled)
        BY DEF OnReturns, NotCancelled
      <3>4. ReceivedOf(o) <= ReceivedOf(o)' /\ ReceivedOf(o) \in Int /\ ReceivedOf(o)' \in Int
        BY <3>1, LineSums
      <3>5. OnReturns(o, 0, NotCancelled) \in Nat
        BY <3>1, OnReturnsNow
      <3>6. q <= ReceivedOf(o)' - OnReturns(o, 0, NotCancelled)'
        BY <3>1, <3>2, <3>3, <3>4, <3>5
      <3>7. q <= Returnable(o, 0)'
        BY <3>6 DEF Returnable
      <3> QED
        BY <3>0, <3>7, <1>2 DEF Returnable, OnReturns, ReceivedOf
    <2>3. ASSUME job[v].kind = "complete_return", NEW u \in Workers \ {v},
                 job'[u].kind = "complete_return"
          PROVE  job'[u].number # job[v].number
      BY <2>1, <2>3, IdleIsAJob DEF KnowsReturn
    <2>4. job[v].kind = "create_return" /\ job[v].phase = "checked"
            => job'[v].qty <= Returnable(job[v].order, 0)'
      BY <1>2, <2>2
    <2> QED
      BY <1>2, <2>1, <2>3, <2>4 DEF KnowsReturn, Returnable, ReceivedOf, OnReturns
  <1> QED
    BY <1>1, <1>2

\* A request begins, or goes on.
LEMMA KnowsReturnStarts ==
  ASSUME Core, Core', Returning, UNCHANGED <<items, returns>>, NEW w \in Workers,
         \A v \in Workers \ {w} : job'[v] = job[v], KnowsReturn(w)'
  PROVE  Returning'
  <1>1. ASSUME NEW v \in Workers \ {w} PROVE KnowsReturn(v)'
    <2>1. KnowsReturn(v) /\ job'[v] = job[v]
      BY DEF Returning
    <2>2. \A o, n : Returnable(o, n)' = Returnable(o, n)
      BY DEF Returnable, ReceivedOf, OnReturns
    <2>3. ASSUME job[v].kind = "complete_return", NEW u \in Workers \ {v},
                 job'[u].kind = "complete_return"
          PROVE  job'[u].number # job'[v].number
      BY <2>1, <2>3 DEF KnowsReturn
    <2>4. job[v].kind = "create_return" /\ job[v].phase = "checked"
            => job[v].qty <= Returnable(job[v].order, 0)
      BY <2>1 DEF KnowsReturn
    <2> QED
      BY <2>1, <2>2, <2>3, <2>4 DEF KnowsReturn
  <1>2. \A v \in Workers : KnowsReturn(v)'
    BY <1>1
  <1>3. \A i \in Items : /\ items[i].received <= items'[i].received
                         /\ items[i].returned = items'[i].returned
    BY RowTypes DEF Core, Line
  <1> QED
    BY <1>2, <1>3, ReturningRests

\* The kinds of request that know nothing of a return.
LEMMA NoReturnKnown ==
  ASSUME NEW w \in Workers,
         job'[w].kind \notin DOMAIN ReturnTarget \cup {"create_return"}
  PROVE  KnowsReturn(w)'
  BY DEF KnowsReturn, ReturnTarget

\* Requests that begin, but those about returns that exist.
LEMMA LoadsReturning ==
  ASSUME Core, Core', Returning, NEW w \in Workers,
         \/ \E o \in Orders : \E kind \in DOMAIN Targets : \E to \in Targets[kind] :
              LoadOrder(w, kind, o, to)
         \/ \E o \in Orders : LoadUpdate(w, o) \/ StartReceipt(w, o)
         \/ \E n \in DOMAIN receipts :
              \E kind \in {"complete_receipt", "cancel_receipt"} : LoadReceipt(w, kind, n)
         \/ \E o \in Orders, r \in mix.warehouses, qty \in mix.quantities :
              StartReturn(w, o, r, qty)
  PROVE  Returning'
  <1>1. \E j : /\ job' = [job EXCEPT ![w] = j]
               /\ j.kind \in DOMAIN Targets \cup {"update", "create_receipt",
                                "complete_receipt", "cancel_receipt", "create_return"}
               /\ j.phase = "loaded"
               /\ UNCHANGED <<items, returns>>
    <2>1. ASSUME NEW o \in Orders, NEW kind \in DOMAIN Targets, NEW to \in Targets[kind],
                 LoadOrder(w, kind, o, to)
          PROVE  <1>1!:
      <3> DEFINE j == [Idle EXCEPT !.kind = kind, !.phase = "loaded", !.order = o, !.to = to]
      <3>1. job' = [job EXCEPT ![w] = j] /\ UNCHANGED <<items, returns>>
        BY <2>1 DEF LoadOrder
      <3>2. j.kind = kind /\ j.phase = "loaded"
        BY DEF Idle
      <3> HIDE DEF j
      <3> QED
        BY <3>1, <3>2
    <2>2. ASSUME NEW o \in Orders, LoadUpdate(w, o)
          PROVE  <1>1!:
      <3> DEFINE j == [Idle EXCEPT !.kind = "update", !.phase = "loaded", !.order = o,
                                   !.to = "DRAFT"]
      <3>1. job' = [job EXCEPT ![w] = j] /\ UNCHANGED <<items, returns>>
        BY <2>2 DEF LoadUpdate
      <3>2. j.kind = "update" /\ j.phase = "loaded"
        BY DEF Idle
      <3> HIDE DEF j
      <3> QED
        BY <3>1, <3>2
    <2>3. ASSUME NEW o \in Orders, StartReceipt(w, o)
          PROVE  <1>1!:
      <3> DEFINE j == [Idle EXCEPT !.kind = "create_receipt", !.phase = "loaded", !.order = o]
      <3>1. job' = [job EXCEPT ![w] = j] /\ UNCHANGED <<items, returns>>
        BY <2>3 DEF StartReceipt
      <3>2. j.kind = "create_receipt" /\ j.phase = "loaded"
        BY DEF Idle
      <3> HIDE DEF j
      <3> QED
        BY <3>1, <3>2
    <2>4. ASSUME NEW n \in DOMAIN receipts,
                 NEW kind \in {"complete_receipt", "cancel_receipt"}, LoadReceipt(w, kind, n)
          PROVE  <1>1!:
      <3> DEFINE j == [Idle EXCEPT !.kind = kind, !.phase = "loaded", !.number = n]
      <3>1. job' = [job EXCEPT ![w] = j] /\ UNCHANGED <<items, returns>>
        BY <2>4 DEF LoadReceipt
      <3>2. j.kind = kind /\ j.phase = "loaded"
        BY DEF Idle
      <3> HIDE DEF j
      <3> QED
        BY <3>1, <3>2
    <2>5. ASSUME NEW o \in Orders, NEW r \in mix.warehouses, NEW qty \in mix.quantities,
                 StartReturn(w, o, r, qty)
          PROVE  <1>1!:
      <3> DEFINE j == [Idle EXCEPT !.kind = "create_return", !.phase = "loaded", !.order = o,
                                   !.warehouse = r, !.qty = qty]
      <3>1. job' = [job EXCEPT ![w] = j] /\ UNCHANGED <<items, returns>>
        BY <2>5 DEF StartReturn
      <3>2. j.kind = "create_return" /\ j.phase = "loaded"
        BY DEF Idle
      <3> HIDE DEF j
      <3> QED
        BY <3>1, <3>2
    <2> QED
      BY <2>1, <2>2, <2>3, <2>4, <2>5
  <1>2. PICK j : /\ job' = [job EXCEPT ![w] = j]
                 /\ j.kind \in DOMAIN Targets \cup {"update", "create_receipt",
                                  "complete_receipt", "cancel_receipt", "create_return"}
                 /\ j.phase = "loaded"
                 /\ UNCHANGED <<items, returns>>
    BY <1>1
  <1>3. job'[w] = j /\ \A v \in Workers \ {w} : job'[v] = job[v]
    BY <1>2 DEF Core, Rows
  <1>4. KnowsReturn(w)'
    BY <1>2, <1>3 DEF KnowsReturn, Targets, ReturnTarget
  <1> QED
    BY <1>2, <1>3, <1>4, KnowsReturnStarts

\* get_object of a return.
LEMMA LoadReturnReturning ==
  ASSUME Documented, Core, Core', Returning, NEW w \in Workers, NEW n \in DOMAIN returns,
         NEW kind \in DOMAIN ReturnTarget \cup {"edit_return"}, LoadReturn(w, kind, n)
  PROVE  Returning'
  <1> DEFINE j == [kind |-> kind, phase |-> "loaded", order |-> returns[n].order,
                   number |-> n, to |-> returns[n].status,
                   warehouse |-> returns[n].warehouse, qty |-> returns[n].qty]
  <1>1. /\ job' = [job EXCEPT ![w] = j] /\ kind \in DOMAIN ReturnTarget
        /\ ReturnTarget[kind] \in ReturnTransitions[returns[n].status]
        /\ kind = "complete_return" => ReturnFree(w, n)
        /\ UNCHANGED <<items, returns>>
    BY NotByHand DEF LoadReturn, ByHand
  <1>2. j.kind = kind /\ j.order = returns[n].order /\ j.number = n /\ j.qty = returns[n].qty
    OBVIOUS
  <1> HIDE DEF j
  <1>3. job'[w] = j /\ \A v \in Workers \ {w} : job'[v] = job[v]
    BY <1>1 DEF Core, Rows
  <1>4. returns[n].status \in Pending
    <2>1. returns[n].status \in ReturnStatus \cup {Gone}
      BY RowTypes DEF Core, Return
    <2> QED
      BY <1>1, <2>1, ReturnLoads DEF Pending, ReturnTarget
  <1>5. kind # "create_return"
    BY <1>1 DEF ReturnTarget
  <1>6. kind = "complete_return" =>
          \A v \in Workers \ {w} : job'[v].kind = "complete_return" => job'[v].number # n
    BY <1>1, <1>3 DEF ReturnFree
  <1>7. KnowsReturn(w)'
    BY <1>1, <1>2, <1>3, <1>4, <1>5, <1>6 DEF KnowsReturn
  <1> QED
    BY <1>1, <1>3, <1>7, KnowsReturnStarts

\* The checks: a return under way fits beside the open ones.
LEMMA ChecksReturning ==
  ASSUME Core, Core', Returning, NEW w \in Workers, CheckReceived(w) \/ CheckReturnable(w)
  PROVE  Returning'
  <1>1. /\ job' = [job EXCEPT ![w].phase = "checked"]
        /\ UNCHANGED <<items, returns>>
        /\ job[w].kind = "create_return" =>
             job[w].qty <= Returnable(job[w].order, job[w].number)
    BY DEF CheckReceived, CheckReturnable, At
  <1>2. /\ SameWork(job'[w], job[w]) /\ \A v \in Workers \ {w} : job'[v] = job[v]
    BY <1>1, Checked DEF Core
  <1>3. KnowsReturn(w)'
    <2>1. KnowsReturn(w)
      BY DEF Returning
    <2>2. job[w].kind = "create_return" => job[w].qty <= Returnable(job[w].order, 0)
      BY <1>1 DEF Core, Jobs, Working
    <2>3. \A o : Returnable(o, 0)' = Returnable(o, 0)
      BY <1>1 DEF Returnable, ReceivedOf, OnReturns
    <2>4. job[w].kind = "complete_return" =>
            \A v \in Workers \ {w} :
              job'[v].kind = "complete_return" => job'[v].number # job[w].number
      BY <1>2, <2>1 DEF KnowsReturn
    <2> QED
      BY <1>1, <1>2, <2>1, <2>2, <2>3, <2>4 DEF KnowsReturn, SameWork
  <1> QED
    BY <1>1, <1>2, <1>3, KnowsReturnStarts

\* A request ends that has touched no return.
LEMMA EndsReturning ==
  ASSUME Core, Core', Returning, UNCHANGED returns,
         \A v \in Workers : job'[v] = Idle \/ job'[v] = job[v],
         \A i \in Items : /\ items[i].received <= items'[i].received
                          /\ items[i].returned = items'[i].returned
  PROVE  Returning'
  BY KnowsReturnRests, ReturningRests

\* Lines that are not written received and gave back what they did.
LEMMA LinesRest ==
  ASSUME Core
  PROVE  \A i \in Items : /\ items[i].received <= items[i].received
                          /\ items[i].returned = items[i].returned
  BY RowTypes DEF Core, Line

\* New lines take the place of lines that nothing was received on.
LEMMA FreshReturning ==
  ASSUME Core, Core', Returning, UNCHANGED returns,
         \A v \in Workers : job'[v] = Idle \/ job'[v] = job[v],
         NEW o \in Orders, NoneIn(o), NEW plan \in [Items -> Int], items' = FreshItems(o, plan)
  PROVE  Returning'
  <1>1. \A i \in ItemsOf[o] : /\ items'[i].received = 0 /\ items'[i].returned = 0
                              /\ items[i].received = 0
    BY Fresh DEF NoneIn
  <1>2. \A i \in Items \ ItemsOf[o] : items'[i] = items[i]
    BY Fresh
  <1>3. \A i \in Items : /\ items[i].received \in Nat /\ items[i].returned \in Nat
                         /\ items[i].returned <= items[i].received
    BY RowTypes DEF Core, LinesSound, Line
  <1>4. ItemsOf[o] \in SUBSET Items
    BY RowTypes DEF Core
  <1>5. \A i \in Items : /\ items[i].received <= items'[i].received
                         /\ items[i].returned = items'[i].returned
    BY <1>1, <1>2, <1>3, <1>4
  <1> QED
    BY <1>5, EndsReturning

\* Every step about orders keeps Returning.
LEMMA OrderStepReturning ==
  ASSUME Documented, Core, Core', Flow, Returning, NEW w \in Workers, OrderStep(w)
  PROVE  Returning'
  <1>1. ASSUME NEW o \in Orders PROVE ~ DestroyOrder(w, o)
    BY NotByHand DEF DestroyOrder, ByHand, Deletions
  <1>2. ASSUME NEW o \in Orders, NEW plan \in Plans, CreateOrder(w, o, plan)
        PROVE  Returning'
    <2>1. /\ orders[o] = "NONE" /\ items' = FreshItems(o, plan) /\ UNCHANGED <<returns, job>>
      BY <1>2 DEF CreateOrder
    <2>2. plan \in [Items -> Int]
      BY PlansAssumption
    <2>3. NoneIn(o)
      BY <2>1 DEF Flow, Telling, Full
    <2> QED
      BY <2>1, <2>2, <2>3, FreshReturning
  <1>3. ASSUME NEW plan \in Plans, UpdateLines(w, plan)
        PROVE  Returning'
    <2>0. PICK o : o = job[w].order
      OBVIOUS
    <2>1. /\ job[w].kind = "update" /\ items' = FreshItems(o, plan) /\ UNCHANGED returns
          /\ \A v \in Workers : job'[v] = Idle \/ job'[v] = job[v]
      BY <1>3, <2>0 DEF UpdateLines, At
    <2>2. plan \in [Items -> Int]
      BY PlansAssumption
    <2>3. o \in Orders /\ orders[o] \in Early
      BY <2>0, <2>1 DEF Core, Jobs, Working, OrderWork, Flow, Knowing, Knows
    <2>4. NoneIn(o)
      BY <2>3 DEF Flow, Telling, Full, Early
    <2> QED
      BY <2>1, <2>2, <2>3, <2>4, FreshReturning
  <1>4. ASSUME \/ SubmitOrder(w) \/ ApproveOrder(w) \/ RejectOrder(w) \/ CloseOrder(w)
               \/ UpdateHeader(w) \/ CancelOrder(w)
        PROVE  Returning'
    <2>1. Done(w) /\ UNCHANGED <<mix, items, returns>>
      BY <1>4 DEF SubmitOrder, ApproveOrder, RejectOrder, CloseOrder, UpdateHeader,
                  WriteStatus, CancelOrder
    <2>2. \A v \in Workers : job'[v] = Idle \/ job'[v] = job[v]
      BY <2>1, DoneIdles DEF Core
    <2> QED
      BY <2>1, <2>2, LinesRest, EndsReturning
  <1> QED
    BY <1>1, <1>2, <1>3, <1>4, LoadsReturning, ChecksReturning DEF OrderStep

\* Every step about receipts keeps it.
LEMMA ReceiptStepReturning ==
  ASSUME Documented, Core, Core', Flow, Returning, NEW w \in Workers, ReceiptStep(w)
  PROVE  Returning'
  <1>1. ASSUME NEW n \in DOMAIN receipts
        PROVE  /\ ~ DestroyReceipt(w, n)
               /\ \A status, o, r : ~ EditReceipt(w, n, status, o, r)
    BY NotByHand DEF DestroyReceipt, EditReceipt, ByHand, Deletions
  <1>2. ASSUME \/ \E cart \in mix.carts, r \in mix.warehouses : CreateReceipt(w, cart, r)
               \/ CancelReceipt(w)
        PROVE  Returning'
    <2>1. Done(w) /\ UNCHANGED <<mix, items, returns>>
      BY <1>2 DEF CreateReceipt, CancelReceipt
    <2>2. \A v \in Workers : job'[v] = Idle \/ job'[v] = job[v]
      BY <2>1, DoneIdles DEF Core
    <2> QED
      BY <2>1, <2>2, LinesRest, EndsReturning
  <1>3. ASSUME ExecuteReceipt(w) PROVE Returning'
    <2>1. PICK r : r = receipts[job[w].number]
      OBVIOUS
    <2>2. /\ r \in Receipt /\ Done(w) /\ UNCHANGED returns
          /\ \A i \in Items : /\ items'[i].returned = items[i].returned
                              /\ items'[i].received = items[i].received + r.lines[i]
      BY <1>3, <2>1, Executed
    <2>3. \A i \in Items : /\ r.lines[i] \in Nat
                           /\ items[i].received \in Nat
      BY <2>2, RowTypes DEF Receipt, Core, Line
    <2>4. \A i \in Items : /\ items[i].received <= items'[i].received
                           /\ items[i].returned = items'[i].returned
      BY <2>2, <2>3
    <2>5. \A v \in Workers : job'[v] = Idle \/ job'[v] = job[v]
      BY <2>2, DoneIdles DEF Core
    <2> QED
      BY <2>2, <2>4, <2>5, EndsReturning
  <1> QED
    BY <1>1, <1>2, <1>3, LoadsReturning DEF ReceiptStep

\* Only completions of other returns go on beside a request about a return.
LEMMA BesideReturn ==
  ASSUME Documented, Alone, NEW w \in Workers,
         job[w].kind \in DOMAIN ReturnTarget \cup {"create_return"}, NEW v \in Workers \ {w}
  PROVE  /\ job[w].kind # "complete_return" => job[v] = Idle
         /\ job[v].kind \in DOMAIN ReturnTarget \cup {"create_return"} =>
              job[v].kind = "complete_return"
  <1>1. job[w].kind # "idle" /\ job[w] # Idle
    BY IdleIsAJob DEF ReturnTarget
  <1>2. job[w].kind # "complete_return" => job[w].kind \notin mix.racing
    BY DEF Documented, ReturnTarget
  <1>3. job[v].kind \in mix.racing \cup {"idle"}
    BY <1>1 DEF Alone
  <1> QED
    BY <1>1, <1>2, <1>3 DEF Alone, Documented, ReturnTarget

\* The other requests know what they knew once w has written its return.
LEMMA OthersKnow ==
  ASSUME Documented, Core, Alone, Returning, NEW w \in Workers,
         job[w].kind \in DOMAIN ReturnTarget \cup {"create_return"}, Done(w),
         \A k \in DOMAIN returns : k # job[w].number => returns'[k] = returns[k]
  PROVE  \A v \in Workers : KnowsReturn(v)'
  <1> SUFFICES ASSUME NEW v \in Workers PROVE KnowsReturn(v)'
    OBVIOUS
  <1>0. "idle" \notin DOMAIN ReturnTarget
    BY DEF ReturnTarget
  <1>1. job'[w] = Idle /\ \A u \in Workers \ {w} : job'[u] = job[u]
    BY DoneIdles DEF Core
  <1>2. CASE job'[v] = Idle
    BY <1>0, <1>2, IdleIsAJob DEF KnowsReturn
  <1>3. CASE job'[v] # Idle
    <2>1. v # w /\ job'[v] = job[v] /\ job[v] # Idle
      BY <1>1, <1>3
    <2>2. job[w].kind = "complete_return"
      BY <2>1, BesideReturn
    <2>3. job[v].kind \in DOMAIN ReturnTarget \cup {"create_return"} =>
            job[v].kind = "complete_return"
      BY <2>1, BesideReturn
    <2>4. KnowsReturn(v)
      BY DEF Returning
    <2>5. CASE job[v].kind \notin DOMAIN ReturnTarget \cup {"create_return"}
      BY <2>1, <2>5, NoReturnKnown
    <2>6. CASE job[v].kind = "complete_return"
      <3>1. job[v].number # job[w].number
        BY <2>1, <2>2, <2>4, <2>6 DEF KnowsReturn
      <3>2. job[v].number \in DOMAIN returns
        BY <2>6 DEF Core, Jobs, Working, ReturnWork
      <3>3. returns'[job[v].number] = returns[job[v].number]
        BY <3>1, <3>2
      <3>4. \A u \in Workers \ {v} :
              job'[u].kind = "complete_return" => job'[u].number # job[v].number
        BY <1>1, <2>4, <2>6, IdleIsAJob DEF KnowsReturn
      <3> QED
        BY <2>1, <2>4, <2>6, <3>3, <3>4 DEF KnowsReturn
    <2> QED
      BY <2>3, <2>5, <2>6
  <1> QED
    BY <1>2, <1>3

\* A return is drafted, within what can be returned.
LEMMA CreateReturnReturning ==
  ASSUME Documented, Core, Core', Flow, Returning, NEW w \in Workers, CreateReturn(w)
  PROVE  Returning'
  <1>0. PICK o, q, new : o = job[w].order /\ q = job[w].qty /\ new = Len(returns) + 1
    OBVIOUS
  <1>1. /\ job[w].kind = "create_return" /\ job[w].phase = "checked"
        /\ DOMAIN returns' = DOMAIN returns \cup {new} /\ new \notin DOMAIN returns
        /\ \A n \in DOMAIN returns : returns'[n] = returns[n]
        /\ returns'[new].status = "DRAFT" /\ returns'[new].order = o
        /\ returns'[new].qty = q
        /\ Done(w) /\ UNCHANGED <<mix, orders, items, receipts, stock>>
    BY <1>0, CreatedReturn
  <1>2. o \in Orders /\ q \in Nat
    BY <1>0, <1>1 DEF Core, Jobs, Working
  <1>3. \A v \in Workers : KnowsReturn(v)'
    BY <1>1, OthersKnow DEF Flow
  <1>4. q <= ReceivedOf(o) - OnReturns(o, 0, NotCancelled)
    BY <1>0, <1>1 DEF Returning, KnowsReturn, Returnable
  <1>5. ASSUME NEW p \in Orders, NEW S
        PROVE  OnReturns(p, 0, S)' =
                 OnReturns(p, 0, S) + (IF o = p /\ "DRAFT" \in S THEN q ELSE 0)
    <2> DEFINE c == Owed(p, S)
    <2>1. /\ OnReturns(p, 0, S) = Column(returns, c)
          /\ OnReturns(p, 0, S)' = Column(returns', c)
          /\ AreRows(returns, Return) /\ AreRows(returns', Return)
      BY OnReturnsIs
    <2>2. RowAdded(returns, returns', new) /\ new \in DOMAIN returns'
      BY <1>1 DEF RowAdded
    <2>3. IsColumn(c, Return)
      BY OwedColumn
    <2>4. c[returns'[new]] = IF o = p /\ "DRAFT" \in S THEN q ELSE 0
      BY <1>1, <2>1, <2>2, OwedColumn DEF AreRows
    <2> HIDE DEF c
    <2>5. Column(returns', c) = Column(returns, c) + c[returns'[new]]
      BY <2>1, <2>2, <2>3, ColumnMade
    <2> QED
      BY <2>1, <2>4, <2>5
  <1>6. ReturnedOnce'
    <2> SUFFICES ASSUME NEW p \in Orders
                 PROVE  BackOf(p)' = OnReturns(p, 0, {"COMPLETED"})'
      BY DEF ReturnedOnce, BackOf
    <2>1. BackOf(p) = OnReturns(p, 0, {"COMPLETED"})
      BY DEF Returning, ReturnedOnce, BackOf
    <2>2. OnReturns(p, 0, {"COMPLETED"})' = OnReturns(p, 0, {"COMPLETED"}) + 0
      <3>1. "DRAFT" \notin {"COMPLETED"}
        OBVIOUS
      <3> QED
        BY <1>5, <3>1
    <2>3. OnReturns(p, 0, {"COMPLETED"}) \in Nat
      BY OnReturnsNow
    <2>4. BackOf(p)' = BackOf(p)
      BY <1>1 DEF BackOf
    <2> QED
      BY <2>1, <2>2, <2>3, <2>4
  <1>7. ReturnsCovered'
    <2> SUFFICES ASSUME NEW p \in Orders
                 PROVE  OnReturns(p, 0, NotCancelled)' <= ReceivedOf(p)'
      BY DEF ReturnsCovered, NotCancelled
    <2>1. "DRAFT" \in NotCancelled
      BY DEF NotCancelled, ReturnStatus
    <2>2. OnReturns(p, 0, NotCancelled)' =
            OnReturns(p, 0, NotCancelled) + (IF o = p THEN q ELSE 0)
      <3> DEFINE S == NotCancelled
      <3>1. OnReturns(p, 0, S)' = OnReturns(p, 0, S) + (IF o = p /\ "DRAFT" \in S THEN q ELSE 0)
        BY <1>5 DEF NotCancelled, OnReturns
      <3> QED
        BY <2>1, <3>1
    <2>3. OnReturns(p, 0, NotCancelled) \in Nat /\ ReceivedOf(p) \in Int
      BY OnReturnsNow, LineSums
    <2>4. OnReturns(p, 0, NotCancelled) <= ReceivedOf(p)
      BY DEF Returning, ReturnsCovered
    <2>5. ReceivedOf(p)' = ReceivedOf(p)
      BY <1>1 DEF ReceivedOf
    <2> QED
      BY <1>2, <1>4, <2>2, <2>3, <2>4, <2>5
  <1> QED
    BY <1>3, <1>6, <1>7 DEF Returning

\* A return that is pending takes a status that is not COMPLETED.
LEMMA SavedReturning ==
  ASSUME Documented, Core, Core', Flow, Returning, NEW w \in Workers,
         \/ SubmitReturn(w) \/ ApproveReturn(w) \/ CancelReturn(w)
         \/ \E o \in Orders, r \in mix.warehouses : EditReturn(w, o, r)
  PROVE  Returning'
  <1>0. PICK n, o : n = job[w].number /\ o = returns[n].order
    OBVIOUS
  <1>1. job[w].kind \in {"submit_return", "approve_return", "cancel_return"}
    BY SavedReturn, NobodyEdits
  <1>2. /\ returns[n].status \in Pending /\ job[w].order = o
        /\ n \in DOMAIN returns
    BY <1>0, <1>1 DEF Returning, KnowsReturn, ReturnTarget, Core, Jobs, Working, ReturnWork
  <1>3. o \in Orders /\ returns[n].qty \in Nat
    BY <1>0, <1>2, RowTypes DEF Core, Return
  <1>4. /\ Done(w) /\ UNCHANGED <<mix, orders, items, receipts, stock>>
        /\ \E status \in {"PENDING_APPROVAL", "APPROVED", "CANCELLED"} :
             ReturnWritten(n, status, o)
    BY <1>0, <1>1, <1>2, SavedReturn
  <1>5. PICK status \in {"PENDING_APPROVAL", "APPROVED", "CANCELLED"} :
          ReturnWritten(n, status, o)
    BY <1>4
  <1>6. \A v \in Workers : KnowsReturn(v)'
    <2>1. \A k \in DOMAIN returns : k # job[w].number => returns'[k] = returns[k]
      BY <1>0, <1>5 DEF ReturnWritten
    <2> QED
      BY <1>1, <1>4, <2>1, OthersKnow DEF Flow, ReturnTarget
  <1>7. ASSUME NEW p \in Orders, NEW S
        PROVE  OnReturns(p, 0, S)' =
                 OnReturns(p, 0, S) +
                   ((IF o = p /\ status \in S THEN returns[n].qty ELSE 0)
                    - (IF o = p /\ returns[n].status \in S THEN returns[n].qty ELSE 0))
    <2>1. /\ n \in DOMAIN returns /\ DOMAIN returns' = DOMAIN returns
          /\ returns'[n].status = status
      BY <1>5 DEF ReturnWritten
    <2>2. \A k \in DOMAIN returns \ {n} : returns'[k] = returns[k]
      BY <1>5 DEF ReturnWritten
    <2>3. returns'[n].order = returns[n].order /\ returns[n].order = o
      BY <1>0, <1>5 DEF ReturnWritten
    <2>4. returns'[n].qty = returns[n].qty
      BY <1>5 DEF ReturnWritten
    <2>5. OnReturns(p, 0, S)' =
            OnReturns(p, 0, S) +
              ((IF returns[n].order = p /\ returns'[n].status \in S
                THEN returns[n].qty ELSE 0)
               - (IF returns[n].order = p /\ returns[n].status \in S
                  THEN returns[n].qty ELSE 0))
      BY <2>1, <2>2, <2>3, <2>4, ReturnChanged
    <2> QED
      BY <2>1, <2>3, <2>5
  <1>8. ReturnedOnce'
    <2> SUFFICES ASSUME NEW p \in Orders
                 PROVE  BackOf(p)' = OnReturns(p, 0, {"COMPLETED"})'
      BY DEF ReturnedOnce, BackOf
    <2>1. BackOf(p) = OnReturns(p, 0, {"COMPLETED"})
      BY DEF Returning, ReturnedOnce, BackOf
    <2>2. status \notin {"COMPLETED"} /\ returns[n].status \notin {"COMPLETED"}
      BY <1>2 DEF Pending
    <2>3. OnReturns(p, 0, {"COMPLETED"})' = OnReturns(p, 0, {"COMPLETED"}) + (0 - 0)
      BY <1>7, <2>2
    <2>4. OnReturns(p, 0, {"COMPLETED"}) \in Nat
      BY OnReturnsNow
    <2>5. BackOf(p)' = BackOf(p)
      BY <1>4 DEF BackOf
    <2> QED
      BY <2>1, <2>3, <2>4, <2>5
  <1>9. ReturnsCovered'
    <2> SUFFICES ASSUME NEW p \in Orders
                 PROVE  OnReturns(p, 0, NotCancelled)' <= ReceivedOf(p)'
      BY DEF ReturnsCovered, NotCancelled
    <2>1. returns[n].status \in NotCancelled
      BY <1>2 DEF Pending, NotCancelled, ReturnStatus
    <2>2. OnReturns(p, 0, NotCancelled)' =
            OnReturns(p, 0, NotCancelled) +
              ((IF o = p /\ status \in NotCancelled THEN returns[n].qty ELSE 0)
               - (IF o = p THEN returns[n].qty ELSE 0))
      <3> DEFINE S == NotCancelled
      <3>1. OnReturns(p, 0, S)' =
              OnReturns(p, 0, S) +
                ((IF o = p /\ status \in S THEN returns[n].qty ELSE 0)
                 - (IF o = p /\ returns[n].status \in S THEN returns[n].qty ELSE 0))
        BY <1>7 DEF NotCancelled
      <3> QED
        BY <2>1, <3>1
    <2>3. OnReturns(p, 0, NotCancelled) \in Nat /\ ReceivedOf(p) \in Int
      BY OnReturnsNow, LineSums
    <2>4. OnReturns(p, 0, NotCancelled) <= ReceivedOf(p)
      BY DEF Returning, ReturnsCovered
    <2>5. ReceivedOf(p)' = ReceivedOf(p)
      BY <1>4 DEF ReceivedOf
    <2> QED
      BY <1>3, <2>2, <2>3, <2>4, <2>5
  <1> QED
    BY <1>6, <1>8, <1>9 DEF Returning

\* A return is completed: what its lines give back is its quantity.
LEMMA CompleteReturnReturning ==
  ASSUME Documented, Core, Core', Flow, Returning, NEW w \in Workers, CompleteReturn(w)
  PROVE  Returning'
  <1>0. PICK n, o, q, from : n = job[w].number /\ o = job[w].order /\ q = job[w].qty
                             /\ from = Allocated(o, q)
    OBVIOUS
  <1>1. /\ job[w].kind = "complete_return"
        /\ o \in Orders /\ q \in Nat
        /\ from \in [ItemsOf[o] -> Nat] /\ SumFunction(from) = q
        /\ \A i \in Items : items'[i].received = items[i].received
        /\ \A i \in ItemsOf[o] : items'[i].returned = items[i].returned + from[i]
        /\ \A i \in Items \ ItemsOf[o] : items'[i] = items[i]
        /\ ReturnWritten(n, "COMPLETED", returns[n].order)
        /\ Done(w) /\ UNCHANGED <<mix, orders, receipts>>
    BY <1>0, Completed
  <1>2. /\ returns[n].status \in Pending /\ returns[n].order = o /\ returns[n].qty = q
    BY <1>0, <1>1 DEF Returning, KnowsReturn, ReturnTarget
  <1>3. \A v \in Workers : KnowsReturn(v)'
    <2>1. \A k \in DOMAIN returns : k # job[w].number => returns'[k] = returns[k]
      BY <1>0, <1>1 DEF ReturnWritten
    <2> QED
      BY <1>1, <2>1, OthersKnow DEF Flow, ReturnTarget
  <1>4. ASSUME NEW p \in Orders, NEW S
        PROVE  OnReturns(p, 0, S)' =
                 OnReturns(p, 0, S) +
                   ((IF o = p /\ "COMPLETED" \in S THEN q ELSE 0)
                    - (IF o = p /\ returns[n].status \in S THEN q ELSE 0))
    <2>1. /\ n \in DOMAIN returns /\ DOMAIN returns' = DOMAIN returns
          /\ returns'[n].status = "COMPLETED"
      BY <1>1 DEF ReturnWritten
    <2>2. \A k \in DOMAIN returns \ {n} : returns'[k] = returns[k]
      BY <1>1 DEF ReturnWritten
    <2>3. returns'[n].order = returns[n].order /\ returns[n].order = o
      BY <1>1, <1>2 DEF ReturnWritten
    <2>4. returns'[n].qty = returns[n].qty
      BY <1>1 DEF ReturnWritten
    <2>5. OnReturns(p, 0, S)' =
            OnReturns(p, 0, S) +
              ((IF returns[n].order = p /\ returns'[n].status \in S
                THEN returns[n].qty ELSE 0)
               - (IF returns[n].order = p /\ returns[n].status \in S
                  THEN returns[n].qty ELSE 0))
      BY <2>1, <2>2, <2>3, <2>4, ReturnChanged
    <2> QED
      BY <1>2, <2>1, <2>3, <2>5
  <1>5. /\ BackOf(o)' = BackOf(o) + q
        /\ \A p \in Orders \ {o} : BackOf(p)' = BackOf(p)
    <2>1. ASSUME NEW p \in Orders \ {o} PROVE BackOf(p)' = BackOf(p)
      <3>1. \A i \in ItemsOf[p] : i \in Items \ ItemsOf[o]
        BY <1>1, RowTypes, OneOrder DEF Core
      <3>2. [i \in ItemsOf[p] |-> items'[i].returned] = [i \in ItemsOf[p] |-> items[i].returned]
        BY <1>1, <3>1
      <3> QED
        BY <3>2 DEF BackOf
    <2>2. BackOf(o)' = BackOf(o) + q
      <3> DEFINE K == ItemsOf[o]
                 b == [i \in K |-> items[i].returned]
                 c == [i \in K |-> items'[i].returned]
      <3>1. K \in SUBSET Items /\ IsFiniteSet(K)
        <4>1. K \in SUBSET Items /\ IsFiniteSet(Items)
          BY <1>1, RowTypes, PlansAssumption DEF Core
        <4> QED
          BY <4>1, FS_Subset
      <3>2. \A i \in K : items[i] \in Line /\ items'[i] \in Line
        BY <3>1 DEF Core, Rows
      <3>3. b \in [K -> Int] /\ c \in [K -> Int] /\ from \in [K -> Int]
        BY <1>1, <3>2 DEF Line
      <3>4. \A i \in K : c[i] = b[i] + from[i]
        BY <1>1
      <3>5. BackOf(o) = SumFunction(b) /\ BackOf(o)' = SumFunction(c)
        BY DEF BackOf
      <3> HIDE DEF K, b, c
      <3>6. SumFunction(c) = SumFunction(b) + SumFunction(from)
        BY <3>1, <3>3, <3>4, SumPlus
      <3> QED
        BY <1>1, <3>5, <3>6
    <2> QED
      BY <2>1, <2>2
  <1>6. ReturnedOnce'
    <2> SUFFICES ASSUME NEW p \in Orders
                 PROVE  BackOf(p)' = OnReturns(p, 0, {"COMPLETED"})'
      BY DEF ReturnedOnce, BackOf
    <2>1. BackOf(p) = OnReturns(p, 0, {"COMPLETED"})
      BY DEF Returning, ReturnedOnce, BackOf
    <2>2. OnReturns(p, 0, {"COMPLETED"})'
            = OnReturns(p, 0, {"COMPLETED"}) + ((IF o = p THEN q ELSE 0) - 0)
      <3>1. returns[n].status \notin {"COMPLETED"} /\ "COMPLETED" \in {"COMPLETED"}
        BY <1>2 DEF Pending
      <3> QED
        BY <1>4, <3>1
    <2>3. OnReturns(p, 0, {"COMPLETED"}) \in Nat
      BY OnReturnsNow
    <2> QED
      BY <1>1, <1>5, <2>1, <2>2, <2>3
  <1>7. ReturnsCovered'
    <2> SUFFICES ASSUME NEW p \in Orders
                 PROVE  OnReturns(p, 0, NotCancelled)' <= ReceivedOf(p)'
      BY DEF ReturnsCovered, NotCancelled
    <2>1. returns[n].status \in NotCancelled /\ "COMPLETED" \in NotCancelled
      BY <1>2 DEF Pending, NotCancelled, ReturnStatus
    <2>2. OnReturns(p, 0, NotCancelled)' =
            OnReturns(p, 0, NotCancelled) +
              ((IF o = p THEN q ELSE 0) - (IF o = p THEN q ELSE 0))
      <3> DEFINE S == NotCancelled
      <3>1. OnReturns(p, 0, S)' =
              OnReturns(p, 0, S) +
                ((IF o = p /\ "COMPLETED" \in S THEN q ELSE 0)
                 - (IF o = p /\ returns[n].status \in S THEN q ELSE 0))
        BY <1>4 DEF NotCancelled
      <3> QED
        BY <2>1, <3>1
    <2>3. OnReturns(p, 0, NotCancelled) \in Nat
      BY OnReturnsNow
    <2>4. OnReturns(p, 0, NotCancelled) <= ReceivedOf(p)
      BY DEF Returning, ReturnsCovered
    <2>5. ReceivedOf(p)' = ReceivedOf(p)
      <3>1. ItemsOf[p] \in SUBSET Items
        BY RowTypes DEF Core
      <3>2. [i \in ItemsOf[p] |-> items'[i].received] = [i \in ItemsOf[p] |-> items[i].received]
        BY <1>1, <3>1
      <3> QED
        BY <3>2 DEF ReceivedOf
    <2> QED
      BY <1>1, <2>2, <2>3, <2>4, <2>5
  <1> QED
    BY <1>3, <1>6, <1>7 DEF Returning

\* Every step about returns keeps it.
LEMMA ReturnStepReturning ==
  ASSUME Documented, Core, Core', Flow, Returning, NEW w \in Workers, ReturnStep(w)
  PROVE  Returning'
  <1>1. ASSUME NEW n \in DOMAIN returns PROVE ~ DestroyReturn(w, n)
    BY NotByHand DEF DestroyReturn, ByHand, Deletions
  <1> QED
    BY <1>1, LoadsReturning, LoadReturnReturning, ChecksReturning, CreateReturnReturning,
       SavedReturning, CompleteReturnReturning DEF ReturnStep

\* Every step of the documented flow keeps Returning.
LEMMA ReturningKeeps == Documented /\ Core /\ Core' /\ Flow /\ Returning /\ [Next]_vars => Returning'
  <1> SUFFICES ASSUME Documented, Core, Core', Flow, Returning, [Next]_vars PROVE Returning'
    OBVIOUS
  <1>1. ASSUME NEW w \in Workers, Abort(w) PROVE Returning'
    <2>1. Done(w) /\ UNCHANGED <<mix, items, returns>>
      BY <1>1 DEF Abort
    <2>2. \A v \in Workers : job'[v] = Idle \/ job'[v] = job[v]
      BY <2>1, DoneIdles DEF Core
    <2> QED
      BY <2>1, <2>2, LinesRest, EndsReturning
  <1>2. CASE UNCHANGED vars
    BY <1>2, LinesRest, EndsReturning DEF vars
  <1> QED
    BY <1>1, <1>2, OrderStepReturning, ReceiptStepReturning, ReturnStepReturning DEF Next

\* At the start there are no returns.
LEMMA ReturningStarts == Init => Returning
  <1> SUFFICES ASSUME Init PROVE Returning
    OBVIOUS
  <1>1. \A w \in Workers : KnowsReturn(w)
    BY Nothing, IdleIsAJob DEF KnowsReturn, ReturnTarget
  <1>2. ASSUME NEW o \in Orders
        PROVE  BackOf(o) = 0 /\ ReceivedOf(o) = 0
    <2> DEFINE K == ItemsOf[o]
               f == [i \in K |-> items[i].returned]
               g == [i \in K |-> items[i].received]
    <2>1. K \in SUBSET Items /\ IsFiniteSet(K)
      <3>1. K \in SUBSET Items /\ IsFiniteSet(Items)
        BY PlansAssumption
      <3> QED
        BY <3>1, FS_Subset
    <2>2. /\ f \in [K -> Int] /\ \A i \in K : f[i] = 0
          /\ g \in [K -> Int] /\ \A i \in K : g[i] = 0
      BY <2>1, Nothing
    <2>3. BackOf(o) = SumFunction(f) /\ ReceivedOf(o) = SumFunction(g)
      BY DEF BackOf, ReceivedOf
    <2> HIDE DEF K, f, g
    <2> QED
      BY <2>1, <2>2, <2>3, SumZero
  <1>3. ReturnedOnce
    <2>1. \A o \in Orders : OnReturns(o, 0, {"COMPLETED"}) = 0
      BY Nothing
    <2> QED
      BY <1>2, <2>1 DEF ReturnedOnce, BackOf
  <1>4. ReturnsCovered
    <2>1. \A o \in Orders : OnReturns(o, 0, NotCancelled) = 0
      BY Nothing
    <2> QED
      BY <1>2, <2>1 DEF ReturnsCovered
  <1> QED
    BY <1>1, <1>3, <1>4 DEF Returning

\* Returning holds in every behaviour of the documented flow.
LEMMA ReturningHolds == Spec => [](Documented => Flow /\ Returning)
  <1>1. [Next]_vars => (Documented' <=> Documented)
    BY SameMix DEF Documented
  <1> QED
    BY <1>1, CoreHolds, FlowHolds, ReturningStarts, ReturningKeeps, PTL DEF Spec

(***************************************************************************)
(* In the documented flow goods move once: what the lines of an order      *)
(* received is on the receipts executed, line by line, and what they gave  *)
(* back is on the returns completed.  The status is tested again under the *)
(* lock (StillDraft), and one completion at a time holds a return.         *)
(***************************************************************************)
THEOREM GoodsMoveJustOnce == Spec => []GoodsMoveOnce
  <1>1. Core /\ (Documented => Flow /\ Returning) => GoodsMoveOnce
    BY CoreTypes DEF GoodsMoveOnce, Flow, Returning
  <1> QED
    BY <1>1, CoreHolds, ReturningHolds, PTL

(***************************************************************************)
(* In the documented flow every draft receipt can be executed and every    *)
(* return that is not cancelled is of goods that came in.  Receipts are    *)
(* made under the locks of the lines; a return is made on the strength of  *)
(* an unlocked check, which stands because only completions overlap with   *)
(* other requests about returns.                                           *)
(***************************************************************************)
THEOREM QuantitiesStillFit == Spec => []QuantitiesFit
  <1>1. (Documented => Flow /\ Returning) => QuantitiesFit
    BY DEF QuantitiesFit, Flow, Returning
  <1> QED
    BY <1>1, ReturningHolds, PTL
=============================================================================
