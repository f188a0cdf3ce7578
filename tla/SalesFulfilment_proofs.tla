------------------------ MODULE SalesFulfilment_proofs ------------------------
(***************************************************************************)
(* Theorems about SalesFulfilment, for any orders, lines, quantities,      *)
(* warehouses and workers, and any number of outbound orders.              *)
(*                                                                         *)
(* The first part needs little: outbound orders are made from sales orders *)
(* (FromOrders) and what approves or cancels them overlaps with nothing    *)
(* (DecidedAlone).  It gives the types; the life of an outbound order and  *)
(* that goods leave once ask, too, that none is deleted after it was       *)
(* completed (CompletedStay).                                              *)
(*                                                                         *)
(* The second part says which requests may overlap without stock being     *)
(* promised twice, or more being requested than was ordered:               *)
(* HarmlessOverlap, with OrdersStay and LinesNamedOnce.                    *)
(*                                                                         *)
(* The third part is about the status of an order: what is over stays over *)
(* under the same hypotheses, and what the status tells of the shipments   *)
(* is true if completions also wait for each other (CompletesAlone).       *)
(***************************************************************************)
EXTENDS SalesFulfilment, SequenceTheorems, TableTheorems

\* No outbound order is made by hand or given another sales order.
FromOrders == \A M \in Mixes : M \cap {"manual", "edit_outbound"} = {}

\* Approving and cancelling an outbound order overlap with nothing.
DecidedAlone == {"approve_outbound", "cancel_outbound"} \cap Racing = {}

\* What is completed is not deleted: a receivable always refers to it, or deletions
\* are not asked for.
CompletedStay == FALSE \notin AutoBilling \/ \A M \in Mixes : "destroy_outbound" \notin M

\* complete_order commits, with a receivable or without.
Commits(w) == \E billing \in AutoBilling : CommitOutbound(w, billing)

-----------------------------------------------------------------------------
(* The invariant. *)

OrderRequests == {"update", "submit", "approve", "reject", "allocate", "create_outbound",
                  "cancel", "close"}

StatusRequests == {"submit_outbound", "approve_outbound", "cancel_outbound"}

Requested == {"create", "complete"} \cup OrderRequests \cup StatusRequests

LineTables == {t \in UNION {[S -> Lines] : S \in SUBSET Nat} : IsFiniteSet(DOMAIN t)}

Row == [status : OutboundStatus, order : Orders \cup {NoOrder}, warehouse : Warehouses,
        lines : LineTables, billed : BOOLEAN]

\* Some of the order lines, and what was read of them.
ReadLines == {<< >>} \cup UNION {[S -> Progress] : S \in SUBSET Items}

Job == [kind : {"idle"} \cup Requested,
        phase : {"idle", "loaded", "read", "checked", "shipped", "saved", "counted"},
        order : Orders \cup {NoOrder}, number : Nat, seen : OrderStatus,
        cart : Carts \cup {<< >>}, items : ReadLines,
        onHand : {<< >>} \cup [Warehouses -> Int]]

\* An outbound order is of an order and carries lines of it that are in its
\* warehouse; the order stays while the outbound order does.  What has been billed
\* has been completed, and the other way round where billing is automatic.
Sane(x) ==
  /\ x.order \in Orders
  /\ \A k \in DOMAIN x.lines : /\ x.lines[k].item \in ItemSet(x.order)
                               /\ RowOf[x.lines[k].item] = x.warehouse
  /\ x.status # "DELETED" => orders[x.order] # "NONE"
  /\ x.billed => x.status = "COMPLETED"
  /\ x.status = "COMPLETED" => x.billed \/ FALSE \in AutoBilling

Rows ==
  /\ outbounds \in Seq(Row)
  /\ \A n \in DOMAIN outbounds : Sane(outbounds[n])

Tables ==
  /\ orders \in [Orders -> OrderStatus]
  /\ items \in [Items -> Progress]
  /\ stock \in [Warehouses -> Positions]
  /\ opening \in Openings
  /\ requests \in Mixes

\* A request makes its order, or is about one that is there.
OrderServed(w) ==
  /\ job[w].kind = "create" => job[w].order \in Orders /\ orders[job[w].order] = "NONE"
  /\ job[w].kind \in OrderRequests => job[w].order \in Orders /\ orders[job[w].order] # "NONE"
  /\ job[w].kind = "create_outbound" => /\ job[w].cart \in Carts
                                        /\ ItemsIn(job[w].cart) \subseteq ItemSet(job[w].order)
  /\ job[w].phase = "read" => job[w].kind \in {"create", "update", "submit"}
  /\ job[w].kind = "cancel" /\ job[w].phase = "checked" => job[w].items \in [Items -> Progress]

\* A completion: the outbound order is approved; once it has the Inventory row,
\* what it will write to the order lines is what they are with its lines shipped.
Ships(w) ==
  /\ job[w].number \in DOMAIN outbounds
  /\ outbounds[job[w].number].status = "APPROVED"
  /\ outbounds[job[w].number].order = job[w].order
  /\ job[w].phase \in {"checked", "shipped", "saved", "counted"}
  /\ job[w].phase # "checked" =>
       /\ DOMAIN job[w].items = ItemsIn(outbounds[job[w].number].lines)
       /\ \A i \in DOMAIN job[w].items :
            job[w].items[i] = Moved(items[i], QtyIn(outbounds[job[w].number].lines, i))
  /\ job[w].phase = "counted" => job[w].seen \in {"SHIPPED", "PARTIALLY_SHIPPED", "ALLOCATED"}

\* The status of the outbound order that a request moves.
Moves(w) ==
  /\ job[w].kind \in StatusRequests => job[w].number \in DOMAIN outbounds
  /\ job[w].kind = "submit_outbound" => outbounds[job[w].number].status \in {"DRAFT", "PENDING"}
  /\ job[w].kind = "approve_outbound" => outbounds[job[w].number].status = "PENDING"
  /\ job[w].kind = "cancel_outbound" => outbounds[job[w].number].status \in Open

Serves(w) ==
  /\ job[w].kind = "idle" <=> job[w] = Idle
  /\ job[w].kind \in requests \cup {"idle"}
  /\ job[w].number \in {0} \cup DOMAIN outbounds
  /\ OrderServed(w)
  /\ job[w].kind = "complete" => Ships(w)
  /\ Moves(w)

\* Two requests overlap only if both may, and make different orders, complete
\* different outbound orders and hold different Inventory rows.
Apart(v, w) ==
  /\ job[v] = Idle \/ job[w] = Idle \/ (job[v].kind \in Racing /\ job[w].kind \in Racing)
  /\ job[v].kind = "create" /\ job[w].kind = "create" => job[v].order # job[w].order
  /\ job[v].kind = "complete" /\ job[w].kind = "complete" =>
       /\ job[v].number # job[w].number
       /\ job[v].phase # "checked" /\ job[w].phase # "checked" =>
            outbounds[job[v].number].warehouse # outbounds[job[w].number].warehouse

Serving ==
  /\ job \in [Workers -> Job]
  /\ \A w \in Workers : Serves(w)
  /\ \A v, w \in Workers : v # w => Apart(v, w)

Core == Tables /\ Rows /\ Serving

-----------------------------------------------------------------------------
(* What is sent and what is read. *)

\* The requests get_object serves for a sales order.
LEMMA OrderKinds == DOMAIN AllowedFrom = OrderRequests
  BY DEF AllowedFrom, OrderRequests

\* The requests that move an outbound order.
LEMMA StatusKinds == DOMAIN Target = StatusRequests
  BY DEF Target, StatusRequests

\* None of them is for an order that is not there.
LEMMA AllowedStatus ==
  ASSUME NEW kind \in OrderRequests
  PROVE  AllowedFrom[kind] \subseteq OrderStatus \ {"NONE"}
  BY DEF AllowedFrom, OrderRequests, OrderStatus

\* The statuses they write; none completes or deletes.
LEMMA TargetIs ==
  ASSUME NEW kind \in StatusRequests
  PROVE  /\ kind = "submit_outbound" => Target[kind] = "PENDING"
         /\ kind = "approve_outbound" => Target[kind] = "APPROVED"
         /\ kind = "cancel_outbound" => Target[kind] = "CANCELLED"
         /\ Target[kind] \in OutboundStatus \ {"COMPLETED", "DELETED"}
  BY DEF Target, StatusRequests, OutboundStatus

\* The statuses from which a request may move an outbound order.
LEMMA MayMove ==
  ASSUME NEW kind \in StatusRequests, NEW status \in OutboundStatus,
         Target[kind] \in Transitions[status]
  PROVE  /\ kind = "submit_outbound" => status = "DRAFT"
         /\ kind = "approve_outbound" => status = "PENDING"
         /\ kind = "cancel_outbound" => status \in Open
  BY TargetIs DEF Transitions, StatusRequests, OutboundStatus, Open

\* An idle worker's job is a job, and of no request.
LEMMA IdleIs ==
  /\ Idle \in Job /\ Idle.kind = "idle" /\ Idle.phase = "idle" /\ Idle.number = 0
  /\ "idle" \notin Requested
  BY DEF Idle, Job, Requested, OrderRequests, StatusRequests, OrderStatus, ReadLines

\* The lines of a request or of an outbound order.
LEMMA LineTable ==
  ASSUME NEW t \in LineTables
  PROVE  /\ IsFiniteSet(DOMAIN t) /\ DOMAIN t \subseteq Nat
         /\ \A k \in DOMAIN t : /\ t[k] \in Lines /\ t[k].qty \in Nat /\ t[k].qty > 0
                                /\ t[k].item \in Items \cup {NoItem}
  <1>1. PICK S \in SUBSET Nat : t \in [S -> Lines] /\ IsFiniteSet(DOMAIN t)
    BY DEF LineTables
  <1>2. DOMAIN t = S /\ \A k \in S : t[k] \in Lines
    BY <1>1
  <1> QED
    BY <1>1, <1>2 DEF Lines

\* The lines of a request for outbound orders name order lines.
LEMMA CartLines ==
  ASSUME NEW cart \in Carts
  PROVE  /\ IsFiniteSet(DOMAIN cart) /\ DOMAIN cart \subseteq Nat
         /\ \A k \in DOMAIN cart : /\ cart[k] \in Lines /\ cart[k].item \in Items
                                   /\ cart[k].qty \in Nat \ {0}
  <1> DEFINE L == [item : Items, qty : Nat \ {0}]
  <1>1. cart \in Seq(L)
    BY LinesAssumption
  <1>2. IsFiniteSet(DOMAIN cart) /\ DOMAIN cart \in SUBSET Nat /\ \A k \in DOMAIN cart : cart[k] \in L
    <2> HIDE DEF L
    <2> QED
      BY <1>1, RowNumbers
  <1> QED
    BY <1>2 DEF Lines

\* The lines of a request on one warehouse are lines, numbered as they were
\* sent.
LEMMA PartLines ==
  ASSUME NEW cart \in Carts, NEW r
  PROVE  /\ Part(cart, r) \in LineTables
         /\ \A k \in DOMAIN Part(cart, r) : /\ k \in DOMAIN cart /\ Part(cart, r)[k] = cart[k]
                                            /\ RowOf[cart[k].item] = r
  <1> DEFINE D == {k \in DOMAIN cart : RowOf[cart[k].item] = r}
  <1>1. IsFiniteSet(D) /\ D \in SUBSET Nat
    BY CartLines, FS_Subset
  <1>2. Part(cart, r) = [k \in D |-> cart[k]]
    BY DEF Part
  <1>3. Part(cart, r) \in [D -> Lines]
    BY <1>2, CartLines
  <1> QED
    BY <1>1, <1>2, <1>3 DEF LineTables

\* Items of lines.
LEMMA ItemsInType ==
  ASSUME NEW x \in Row, Sane(x)
  PROVE  /\ ItemsIn(x.lines) \subseteq ItemSet(x.order)
         /\ \A i \in ItemsIn(x.lines) : RowOf[i] = x.warehouse
         /\ \A k \in DOMAIN x.lines : x.lines[k].item \in ItemsIn(x.lines)
         /\ ItemSet(x.order) \subseteq Items
  <1>1. ItemSet(x.order) \subseteq Items
    BY LinesAssumption, RowNumbers DEF Sane, ItemSet, Range
  <1> QED
    BY <1>1, LinesAssumption DEF Sane, ItemsIn

\* The lines of an order are order lines.
LEMMA OrderItems ==
  ASSUME NEW o \in Orders
  PROVE  ItemSet(o) \subseteq Items
  BY LinesAssumption, RowNumbers DEF ItemSet, Range

-----------------------------------------------------------------------------
(* Quantities of lines. *)

\* What the lines come to is a number.
LEMMA TotalType ==
  ASSUME NEW t \in LineTables
  PROVE  TotalQty(t) \in Nat
  <1> DEFINE f == [k \in DOMAIN t |-> t[k].qty]
  <1>1. f \in [DOMAIN t -> Nat] /\ IsFiniteSet(DOMAIN t)
    BY LineTable
  <1> HIDE DEF f
  <1>2. SumFunction(f) \in Nat
    BY <1>1, SumType
  <1> QED
    BY <1>2 DEF TotalQty, f

\* What the lines carry of an order line is a number, zero if none names it,
\* and no less than any of them.
LEMMA QtyType ==
  ASSUME NEW t \in LineTables, NEW i
  PROVE  /\ QtyIn(t, i) \in Nat
         /\ (\A k \in DOMAIN t : t[k].item # i) => QtyIn(t, i) = 0
         /\ \A k \in DOMAIN t : t[k].item = i => t[k].qty <= QtyIn(t, i)
  <1> DEFINE D == {k \in DOMAIN t : t[k].item = i}
             f == [k \in D |-> t[k].qty]
  <1>1. IsFiniteSet(D)
    BY LineTable, FS_Subset
  <1>2. f \in [D -> Nat] /\ DOMAIN f = D /\ \A k \in D : f[k] = t[k].qty
    BY LineTable
  <1>3. QtyIn(t, i) = SumFunction(f)
    BY DEF QtyIn
  <1>4. (\A k \in DOMAIN t : t[k].item # i) => D = {}
    OBVIOUS
  <1>5. \A k \in DOMAIN t : t[k].item = i => k \in D
    OBVIOUS
  <1> HIDE DEF D, f
  <1>6. SumFunction(f) \in Nat
    BY <1>1, <1>2, SumType
  <1>7. D = {} => SumFunction(f) = 0
    BY <1>2, SumEmpty
  <1>8. \A k \in D : f[k] <= SumFunction(f)
    BY <1>1, <1>2, SumHolds
  <1> QED
    BY <1>2, <1>3, <1>4, <1>5, <1>6, <1>7, <1>8

-----------------------------------------------------------------------------
(* What a step of one request leaves of the others. *)

\* What Core says of rows and jobs, in the form the proofs use.
LEMMA CoreTypes ==
  ASSUME Core
  PROVE  /\ \A n \in DOMAIN outbounds : outbounds[n] \in Row /\ Sane(outbounds[n])
         /\ DOMAIN outbounds \subseteq Nat /\ DOMAIN outbounds = 1 .. Len(outbounds)
         /\ Len(outbounds) \in Nat /\ 0 \notin DOMAIN outbounds
         /\ \A w \in Workers : job[w] \in Job /\ Serves(w)
  BY RowNumbers DEF Core, Rows, Serving

\* At the start nothing is made and nobody is served.
LEMMA InitCore == Init => Core
  <1> SUFFICES ASSUME Init PROVE Core
    OBVIOUS
  <1>1. outbounds = << >> /\ DOMAIN outbounds = {} /\ \A w \in Workers : job[w] = Idle
    <2>1. outbounds = << >>
      BY DEF Init
    <2>2. DOMAIN outbounds = {}
      BY <2>1
    <2>3. \A w \in Workers : job[w] = Idle
      BY DEF Init
    <2> QED
      BY <2>1, <2>2, <2>3
  <1>2. Rows
    BY <1>1 DEF Rows
  <1>3. Tables
    <2>1. NoPosition \in Positions
      BY DEF NoPosition, Positions
    <2>2. opening \in [Warehouses -> Nat]
      BY LinesAssumption DEF Init
    <2>3. \A r \in Warehouses : [NoPosition EXCEPT !.exists = TRUE, !.current = opening[r]] \in Positions
      <3> SUFFICES ASSUME NEW r \in Warehouses
                   PROVE  [NoPosition EXCEPT !.exists = TRUE, !.current = opening[r]] \in Positions
        OBVIOUS
      <3>1. opening[r] \in Int
        BY <2>2
      <3> QED
        BY <2>1, <3>1 DEF Positions
    <2>4. stock \in [Warehouses -> Positions]
      BY <2>3 DEF Init
    <2>5. "NONE" \in OrderStatus /\ [allocated |-> 0, shipped |-> 0] \in Progress
      BY DEF OrderStatus, Progress
    <2>6. orders \in [Orders -> OrderStatus] /\ items \in [Items -> Progress]
      BY <2>5 DEF Init
    <2> QED
      BY <2>4, <2>6 DEF Init, Tables
  <1>4. job \in [Workers -> Job]
    BY IdleIs DEF Init
  <1>5. \A w \in Workers : Serves(w)
    BY <1>1, IdleIs DEF Serves, OrderServed, Moves, Requested
  <1>6. \A v, w \in Workers : Apart(v, w)
    BY <1>1, IdleIs DEF Apart
  <1> QED
    BY <1>2, <1>3, <1>4, <1>5, <1>6 DEF Core, Serving

\* Steps of a request that only read.
Quiet == UNCHANGED <<orders, items, outbounds, stock, given>>

\* A step that only reads keeps Core if it does for the worker's own request.
LEMMA QuietServes ==
  ASSUME Core, NEW w \in Workers, NEW j \in Job, job' = [job EXCEPT ![w] = j], Quiet,
         Serves(w)', \A v \in Workers \ {w} : Apart(v, w)' /\ Apart(w, v)'
  PROVE  Core'
  <1>1. /\ job' \in [Workers -> Job] /\ job'[w] = j
        /\ \A v \in Workers \ {w} : job'[v] = job[v]
    BY DEF Core, Serving
  <1>2. Tables' /\ Rows'
    BY DEF Core, Tables, Rows, Sane, Quiet, given
  <1>3. \A v \in Workers : Serves(v)'
    <2> SUFFICES ASSUME NEW v \in Workers \ {w} PROVE Serves(v)'
      OBVIOUS
    <2>1. Serves(v) /\ job'[v] = job[v]
      BY <1>1 DEF Core, Serving
    <2> QED
      BY <2>1 DEF Serves, OrderServed, Ships, Moves, Quiet, given
  <1>4. \A u, v \in Workers \ {w} : u # v => Apart(u, v)'
    <2> SUFFICES ASSUME NEW u \in Workers \ {w}, NEW v \in Workers \ {w}, u # v PROVE Apart(u, v)'
      OBVIOUS
    <2>1. Apart(u, v) /\ job'[u] = job[u] /\ job'[v] = job[v] /\ outbounds' = outbounds
      BY <1>1 DEF Core, Serving, Quiet
    <2> QED
      BY <2>1 DEF Apart
  <1> QED
    BY <1>1, <1>2, <1>3, <1>4 DEF Core, Serving

\* A request begins.
LEMMA BeginServes ==
  ASSUME Core, NEW w \in Workers, NEW j \in Job, MayStart(w, j.kind),
         job' = [job EXCEPT ![w] = j], Quiet, Serves(w)', j.kind # "idle",
         j.kind = "create" => \A v \in Workers : ~ Creating(v, j.order),
         j.kind = "complete" => OutboundFree(w, j.number) /\ j.phase = "checked"
  PROVE  Core'
  <1>1. job'[w] = j /\ \A v \in Workers \ {w} : job'[v] = job[v]
    BY DEF Core, Serving
  <1> SUFFICES ASSUME NEW v \in Workers \ {w} PROVE Apart(v, w)' /\ Apart(w, v)'
    BY QuietServes
  <1>2. job[v] = Idle \/ (job[v].kind \in Racing /\ j.kind \in Racing)
    BY DEF MayStart
  <1>3. j.kind = "create" => ~ (job[v].kind = "create" /\ job[v].order = j.order)
    BY DEF Creating
  <1>4. j.kind = "complete" => ~ (job[v].kind = "complete" /\ job[v].number = j.number)
    BY DEF OutboundFree, Completing
  <1> QED
    BY <1>1, <1>2, <1>3, <1>4 DEF Apart

\* A request goes on.
LEMMA GoOnServes ==
  ASSUME Core, NEW w \in Workers, NEW j \in Job, job[w].kind # "idle",
         job' = [job EXCEPT ![w] = j], Quiet, Serves(w)',
         j.kind = job[w].kind, j.order = job[w].order, j.number = job[w].number,
         job[w].kind = "complete" /\ job[w].phase = "checked" =>
           RowFree(w, outbounds[job[w].number].warehouse)
  PROVE  Core'
  <1>1. job'[w] = j /\ \A v \in Workers \ {w} : job'[v] = job[v]
    BY DEF Core, Serving
  <1> SUFFICES ASSUME NEW v \in Workers \ {w} PROVE Apart(v, w)' /\ Apart(w, v)'
    BY QuietServes
  <1>2. Apart(v, w) /\ Apart(w, v) /\ outbounds' = outbounds /\ job[w] # Idle
    BY IdleIs DEF Core, Serving, Quiet
  <1>3. job[w].kind = "complete" /\ job[w].phase = "checked" /\ job[v].kind = "complete"
          /\ job[v].phase # "checked"
        => outbounds[job[v].number].warehouse # outbounds[job[w].number].warehouse
    BY DEF RowFree, Completing
  <1> QED
    BY <1>1, <1>2, <1>3 DEF Apart

\* What the others count on is left alone by a step.
Leaves(v) ==
  /\ job[v].kind = "create" => orders'[job[v].order] = "NONE"
  /\ job[v].kind \in OrderRequests => orders'[job[v].order] # "NONE"
  /\ job[v].kind = "complete" =>
       /\ outbounds'[job[v].number].status = "APPROVED"
       /\ job[v].phase # "checked" => \A i \in DOMAIN job[v].items : items'[i] = items[i]
  /\ job[v].kind = "submit_outbound" => outbounds'[job[v].number].status \in {"DRAFT", "PENDING"}
  /\ job[v].kind \in {"approve_outbound", "cancel_outbound"} =>
       outbounds'[job[v].number].status = outbounds[job[v].number].status

\* Outbound orders stay where they are.
RowsStay ==
  \A n \in DOMAIN outbounds :
    /\ n \in DOMAIN outbounds' /\ outbounds'[n].order = outbounds[n].order
    /\ outbounds'[n].warehouse = outbounds[n].warehouse /\ outbounds'[n].lines = outbounds[n].lines

\* A request ends with a step that writes.
LEMMA DoneServes ==
  ASSUME Core, NEW w \in Workers, Done(w), Tables', Rows', requests' = requests, RowsStay,
         \A v \in Workers \ {w} : Leaves(v)
  PROVE  Core'
  <1>1. /\ job' \in [Workers -> Job] /\ job'[w] = Idle
        /\ \A v \in Workers \ {w} : job'[v] = job[v]
    BY IdleIs DEF Core, Serving, Done
  <1>2. Serves(w)'
    BY <1>1, IdleIs DEF Serves, OrderServed, Moves, Requested
  <1>3. \A v \in Workers \ {w} : Serves(v)'
    <2> SUFFICES ASSUME NEW v \in Workers \ {w} PROVE Serves(v)'
      OBVIOUS
    <2>1. Serves(v) /\ job'[v] = job[v] /\ Leaves(v)
      BY <1>1 DEF Core, Serving
    <2>2. OrderServed(v)'
      BY <2>1 DEF Serves, OrderServed, Leaves
    <2>3. job[v].kind = "complete" => Ships(v)'
      BY <2>1 DEF Serves, Ships, Leaves, RowsStay
    <2>4. Moves(v)'
      BY <2>1 DEF Serves, Moves, Leaves, RowsStay, StatusRequests
    <2>5. job[v].number \in {0} \cup DOMAIN outbounds'
      BY <2>1 DEF Serves, RowsStay
    <2> QED
      BY <2>1, <2>2, <2>3, <2>4, <2>5 DEF Serves
  <1>4. \A u, v \in Workers : u # v => Apart(u, v)'
    <2> SUFFICES ASSUME NEW u \in Workers, NEW v \in Workers, u # v PROVE Apart(u, v)'
      OBVIOUS
    <2>1. CASE u = w \/ v = w
      BY <1>1, <2>1, IdleIs DEF Apart
    <2>2. CASE u # w /\ v # w
      <3>1. /\ Apart(u, v) /\ job'[u] = job[u] /\ job'[v] = job[v] /\ Serves(u) /\ Serves(v)
        BY <1>1, <2>2 DEF Core, Serving
      <3> QED
        BY <3>1 DEF Apart, Serves, Ships, RowsStay
    <2> QED
      BY <2>1, <2>2
  <1> QED
    BY <1>1, <1>2, <1>3, <1>4 DEF Core, Serving

\* Nobody is served after a step of a request that is served alone.
LEMMA NobodyServes ==
  ASSUME Core, Tables', Rows', requests' = requests, job' = job,
         \A v \in Workers : job[v] = Idle
  PROVE  Core'
  <1>1. \A w \in Workers : Serves(w)'
    BY IdleIs DEF Serves, OrderServed, Moves, Requested
  <1>2. \A v, w \in Workers : Apart(v, w)'
    BY IdleIs DEF Apart
  <1> QED
    BY <1>1, <1>2 DEF Core, Serving

-----------------------------------------------------------------------------
(* Steps that only read. *)

\* A worker's job, and what is true of the request it serves.
LEMMA JobOf ==
  ASSUME Core, NEW w \in Workers
  PROVE  job[w] \in Job /\ Serves(w)
  BY CoreTypes

\* A request for a new order arrives.
LEMMA StartCreateKeeps ==
  ASSUME Core, NEW w \in Workers, NEW o \in Orders, StartCreate(w, o)
  PROVE  Core' /\ Quiet
  <1> DEFINE j == [Idle EXCEPT !.kind = "create", !.phase = "loaded", !.order = o]
  <1>1. /\ j \in Job /\ j.kind = "create" /\ j.order = o /\ j.number = 0 /\ j.phase = "loaded"
    BY IdleIs DEF Job, Requested
  <1>2. /\ MayStart(w, "create") /\ job' = [job EXCEPT ![w] = j] /\ Quiet /\ orders[o] = "NONE"
        /\ \A v \in Workers : ~ Creating(v, o)
    BY DEF StartCreate, Quiet
  <1> HIDE DEF j
  <1>3. job'[w] = j
    BY <1>2 DEF Core, Serving
  <1>4. Serves(w)'
    BY <1>1, <1>2, <1>3, IdleIs
       DEF Serves, OrderServed, Moves, MayStart, Quiet, given, OrderRequests, StatusRequests
  <1> QED
    BY <1>1, <1>2, <1>4, BeginServes

\* The stock is read.
LEMMA ReadStockKeeps ==
  ASSUME Core, NEW w \in Workers, ReadStock(w)
  PROVE  Core' /\ Quiet
  <1> DEFINE hand == [r \in Warehouses |-> stock[r].current]
             j == [job[w] EXCEPT !.phase = "read", !.onHand = hand]
  <1>1. hand \in [Warehouses -> Int]
    BY DEF Core, Tables, Positions
  <1> HIDE DEF hand
  <1>2. /\ j \in Job /\ j.kind = job[w].kind /\ j.order = job[w].order /\ j.number = job[w].number
        /\ j.cart = job[w].cart /\ j.phase = "read"
    BY <1>1, JobOf DEF Job
  <1>3. job' = [job EXCEPT ![w] = j] /\ Quiet /\ job[w].kind \in {"create", "update", "submit"}
    BY DEF ReadStock, Quiet, At, hand
  <1> HIDE DEF j
  <1>4. job'[w] = j
    BY <1>3 DEF Core, Serving
  <1>5. Serves(w)'
    BY <1>2, <1>3, <1>4, IdleIs, JobOf
       DEF Serves, OrderServed, Moves, Quiet, given, OrderRequests, StatusRequests
  <1> QED
    BY <1>2, <1>3, <1>5, GoOnServes

\* What is promised of it is read.
LEMMA CheckSellableKeeps ==
  ASSUME Core, NEW w \in Workers, CheckSellable(w)
  PROVE  Core' /\ Quiet
  <1>1. job[w].phase = "read" /\ job[w].kind \in {"create", "update", "submit"}
    BY JobOf, IdleIs DEF CheckSellable, Serves, OrderServed
  <1> DEFINE j == [job[w] EXCEPT !.phase = "checked", !.onHand = << >>]
  <1>2. /\ j \in Job /\ j.kind = job[w].kind /\ j.order = job[w].order /\ j.number = job[w].number
        /\ j.cart = job[w].cart /\ j.phase = "checked"
    BY JobOf DEF Job
  <1>3. job' = [job EXCEPT ![w] = j] /\ Quiet
    BY DEF CheckSellable, Quiet
  <1> HIDE DEF j
  <1>4. job'[w] = j
    BY <1>3 DEF Core, Serving
  <1>5. Serves(w)'
    BY <1>1, <1>2, <1>3, <1>4, IdleIs, JobOf
       DEF Serves, OrderServed, Moves, Quiet, given, OrderRequests, StatusRequests
  <1> QED
    BY <1>1, <1>2, <1>3, <1>5, GoOnServes

\* get_object of a sales order.
LEMMA LoadOrderKeeps ==
  ASSUME Core, NEW w \in Workers, NEW kind \in OrderRequests, NEW o \in Orders,
         NEW cart \in Carts \cup {<< >>}, kind = "create_outbound" => cart \in Carts,
         LoadOrder(w, kind, o, cart)
  PROVE  Core' /\ Quiet
  <1> DEFINE lines == IF cart = << >> THEN << >> ELSE items
             j == [Idle EXCEPT !.kind = kind, !.phase = "loaded", !.order = o,
                               !.seen = orders[o], !.cart = cart, !.items = lines]
  <1>1. lines \in ReadLines /\ orders[o] \in OrderStatus
    <2>1. items \in [Items -> Progress]
      BY DEF Core, Tables
    <2>2. items \in UNION {[S -> Progress] : S \in SUBSET Items}
      BY <2>1
    <2> QED
      BY <2>2 DEF Core, Tables, ReadLines
  <1>2. orders[o] # "NONE"
    BY AllowedStatus DEF LoadOrder
  <1>3. job' = [job EXCEPT ![w] = j] /\ Quiet /\ MayStart(w, kind)
        /\ ItemsIn(cart) \subseteq ItemSet(o)
    BY DEF LoadOrder, Quiet
  <1> HIDE DEF lines
  <1>4. /\ j \in Job /\ j.kind = kind /\ j.order = o /\ j.number = 0 /\ j.cart = cart
        /\ j.phase = "loaded"
    BY <1>1, IdleIs DEF Job, Requested
  <1> HIDE DEF j
  <1>5. job'[w] = j
    BY <1>3 DEF Core, Serving
  <1>6. Serves(w)'
    BY <1>2, <1>3, <1>4, <1>5, IdleIs
       DEF Serves, OrderServed, Moves, MayStart, Quiet, given, OrderRequests, StatusRequests
  <1> QED
    BY <1>3, <1>4, <1>6, BeginServes DEF OrderRequests

\* The reads of cancel_order.
LEMMA CheckCancelKeeps ==
  ASSUME Core, NEW w \in Workers, CheckCancel(w)
  PROVE  Core' /\ Quiet
  <1> DEFINE j == [job[w] EXCEPT !.phase = "checked", !.items = items]
  <1>1. items \in ReadLines /\ items \in [Items -> Progress]
    BY DEF Core, Tables, ReadLines
  <1>2. /\ j \in Job /\ j.kind = job[w].kind /\ j.order = job[w].order /\ j.number = job[w].number
        /\ j.cart = job[w].cart /\ j.phase = "checked" /\ j.items = items
    BY <1>1, JobOf DEF Job
  <1>3. job' = [job EXCEPT ![w] = j] /\ Quiet /\ job[w].kind = "cancel"
    BY DEF CheckCancel, Quiet, At
  <1> HIDE DEF j
  <1>4. job'[w] = j
    BY <1>3 DEF Core, Serving
  <1>5. Serves(w)'
    BY <1>1, <1>2, <1>3, <1>4, IdleIs, JobOf
       DEF Serves, OrderServed, Moves, Quiet, given, OrderRequests, StatusRequests
  <1> QED
    BY <1>2, <1>3, <1>5, GoOnServes

\* The check of what can still be requested.
LEMMA CheckPendingKeeps ==
  ASSUME Core, NEW w \in Workers, CheckPending(w)
  PROVE  Core' /\ Quiet
  <1> DEFINE j == [job[w] EXCEPT !.phase = "checked"]
  <1>2. /\ j \in Job /\ j.kind = job[w].kind /\ j.order = job[w].order /\ j.number = job[w].number
        /\ j.cart = job[w].cart /\ j.phase = "checked"
    BY JobOf DEF Job
  <1>3. job' = [job EXCEPT ![w] = j] /\ Quiet /\ job[w].kind = "create_outbound"
    BY DEF CheckPending, Quiet, At
  <1> HIDE DEF j
  <1>4. job'[w] = j
    BY <1>3 DEF Core, Serving
  <1>5. Serves(w)'
    BY <1>2, <1>3, <1>4, IdleIs, JobOf
       DEF Serves, OrderServed, Moves, Quiet, given, OrderRequests, StatusRequests
  <1> QED
    BY <1>2, <1>3, <1>5, GoOnServes

\* get_object of an outbound order.
LEMMA LoadOutboundKeeps ==
  ASSUME Core, NEW w \in Workers, NEW kind \in StatusRequests, NEW n \in DOMAIN outbounds,
         LoadOutbound(w, kind, n)
  PROVE  Core' /\ Quiet
  <1> DEFINE j == [Idle EXCEPT !.kind = kind, !.phase = "loaded", !.number = n]
  <1>1. /\ j \in Job /\ j.kind = kind /\ j.number = n /\ j.phase = "loaded"
    BY IdleIs, CoreTypes DEF Job, Requested
  <1>2. MayStart(w, kind) /\ job' = [job EXCEPT ![w] = j] /\ Quiet
    BY DEF LoadOutbound, Quiet
  <1> HIDE DEF j
  <1>3. job'[w] = j
    BY <1>2 DEF Core, Serving
  <1>4. /\ kind = "submit_outbound" => outbounds[n].status = "DRAFT"
        /\ kind = "approve_outbound" => outbounds[n].status = "PENDING"
        /\ kind = "cancel_outbound" => outbounds[n].status \in Open
    <2>1. outbounds[n].status \in OutboundStatus /\ Target[kind] \in Transitions[outbounds[n].status]
      BY CoreTypes DEF Row, LoadOutbound
    <2> QED
      BY <2>1, MayMove
  <1>5. OrderServed(w)' /\ Moves(w)'
    BY <1>1, <1>2, <1>3, <1>4 DEF OrderServed, Moves, OrderRequests, StatusRequests, Quiet
  <1>6. Serves(w)'
    BY <1>1, <1>2, <1>3, <1>5, IdleIs DEF Serves, MayStart, StatusRequests, Quiet, given
  <1> QED
    BY <1>1, <1>2, <1>6, BeginServes DEF StatusRequests

\* complete_order takes the outbound order, which is approved.
LEMMA CheckOutboundKeeps ==
  ASSUME Core, NEW w \in Workers, NEW n \in DOMAIN outbounds, CheckOutbound(w, n)
  PROVE  Core' /\ Quiet
  <1> DEFINE j == [Idle EXCEPT !.kind = "complete", !.phase = "checked", !.number = n,
                               !.order = outbounds[n].order]
  <1>1. n \in Nat /\ outbounds[n] \in Row
    BY CoreTypes
  <1>2. /\ j \in Job /\ j.kind = "complete" /\ j.number = n /\ j.phase = "checked"
        /\ j.order = outbounds[n].order
    BY <1>1, IdleIs DEF Job, Requested, Row
  <1>3. /\ MayStart(w, "complete") /\ job' = [job EXCEPT ![w] = j] /\ Quiet
        /\ OutboundFree(w, n) /\ outbounds[n].status = "APPROVED"
    BY DEF CheckOutbound, Quiet, Executable
  <1> HIDE DEF j
  <1>4. job'[w] = j
    BY <1>3 DEF Core, Serving
  <1>5. Serves(w)'
    BY <1>2, <1>3, <1>4, IdleIs
       DEF Serves, OrderServed, Moves, Ships, MayStart, Quiet, given, OrderRequests, StatusRequests
  <1> QED
    BY <1>2, <1>3, <1>5, BeginServes

\* An order line with some of it shipped.
LEMMA MovedType ==
  ASSUME NEW line \in Progress, NEW q \in Nat
  PROVE  /\ Moved(line, q) \in Progress /\ Moved(line, q).shipped = line.shipped + q
         /\ q <= line.allocated => Moved(line, q).allocated = line.allocated - q
  BY DEF Progress, Moved, AtLeastZero

\* It takes the Inventory row and works out what to write to the order lines.
LEMMA ShipLinesKeeps ==
  ASSUME Core, NEW w \in Workers, ShipLines(w)
  PROVE  Core' /\ Quiet
  <1> DEFINE n == job[w].number
             lines == outbounds[n].lines
             will == [i \in ItemsIn(lines) |-> Moved(items[i], QtyIn(lines, i))]
             j == [job[w] EXCEPT !.phase = "shipped", !.items = will]
  <1>1. /\ job[w] \in Job /\ Serves(w) /\ job[w].kind = "complete" /\ job[w].phase = "checked"
        /\ Ships(w) /\ n \in DOMAIN outbounds
    BY JobOf DEF ShipLines, At, Serves, Ships
  <1>2. outbounds[n] \in Row /\ Sane(outbounds[n]) /\ lines \in LineTables
    BY <1>1, CoreTypes DEF Row
  <1>3. ItemsIn(lines) \in SUBSET Items
    BY <1>2, ItemsInType
  <1>4. \A i \in ItemsIn(lines) : Moved(items[i], QtyIn(lines, i)) \in Progress
    <2> SUFFICES ASSUME NEW i \in ItemsIn(lines) PROVE Moved(items[i], QtyIn(lines, i)) \in Progress
      OBVIOUS
    <2>1. items[i] \in Progress
      BY <1>3 DEF Core, Tables
    <2> QED
      BY <1>2, <2>1, QtyType, MovedType
  <1>5. will \in ReadLines
    <2>1. will \in [ItemsIn(lines) -> Progress]
      BY <1>4
    <2> HIDE DEF will, lines, n
    <2> QED
      BY <1>3, <2>1 DEF ReadLines
  <1>6. /\ job' = [job EXCEPT ![w] = j] /\ Quiet /\ RowFree(w, outbounds[n].warehouse)
    BY DEF ShipLines, Quiet
  <1>7. /\ DOMAIN will = ItemsIn(lines)
        /\ \A i \in DOMAIN will : will[i] = Moved(items[i], QtyIn(lines, i))
    OBVIOUS
  <1> HIDE DEF will
  <1>8. /\ j \in Job /\ j.kind = job[w].kind /\ j.order = job[w].order /\ j.number = n
        /\ j.phase = "shipped" /\ j.items = will
    BY <1>1, <1>5 DEF Job
  <1> HIDE DEF j
  <1>9. job'[w] = j
    BY <1>6 DEF Core, Serving
  <1>10. UNCHANGED <<items, outbounds, orders, requests>>
    BY <1>6 DEF Quiet, given
  <1>11. Ships(w)'
    <2> HIDE DEF n, lines
    <2>1. /\ n \in DOMAIN outbounds /\ outbounds[n].status = "APPROVED"
          /\ outbounds[n].order = job[w].order /\ lines = outbounds[n].lines
      BY <1>1 DEF Ships, n, lines
    <2> QED
      BY <1>7, <1>8, <1>9, <1>10, <2>1 DEF Ships
  <1>12. OrderServed(w)' /\ Moves(w)'
    BY <1>1, <1>8, <1>9 DEF OrderServed, Moves, OrderRequests, StatusRequests
  <1>13. Serves(w)'
    BY <1>1, <1>8, <1>9, <1>10, <1>11, <1>12, IdleIs DEF Serves
  <1> QED
    BY <1>1, <1>6, <1>8, <1>13, GoOnServes

\* It takes the order lines.
LEMMA SaveItemsKeeps ==
  ASSUME Core, NEW w \in Workers, SaveItems(w)
  PROVE  Core' /\ Quiet
  <1> DEFINE j == [job[w] EXCEPT !.phase = "saved"]
  <1>1. /\ job[w] \in Job /\ Serves(w) /\ job[w].kind = "complete" /\ job[w].phase = "shipped"
        /\ Ships(w)
    BY JobOf DEF SaveItems, At, Serves
  <1>2. /\ j \in Job /\ j.kind = job[w].kind /\ j.order = job[w].order /\ j.number = job[w].number
        /\ j.phase = "saved" /\ j.items = job[w].items
    BY <1>1 DEF Job
  <1>3. job' = [job EXCEPT ![w] = j] /\ Quiet
    BY DEF SaveItems, Quiet
  <1> HIDE DEF j
  <1>4. job'[w] = j
    BY <1>3 DEF Core, Serving
  <1>5. Ships(w)'
    BY <1>1, <1>2, <1>3, <1>4 DEF Ships, Quiet
  <1>6. Serves(w)'
    BY <1>1, <1>2, <1>3, <1>4, <1>5, IdleIs
       DEF Serves, OrderServed, Moves, Quiet, given, OrderRequests, StatusRequests
  <1> QED
    BY <1>1, <1>2, <1>3, <1>6, GoOnServes

\* It counts the lines, and keeps the status that follows.
LEMMA CountShippedKeeps ==
  ASSUME Core, NEW w \in Workers, CountShipped(w)
  PROVE  /\ Core' /\ Quiet
         /\ job[w].order \in Orders /\ job'[w].seen = StatusOf(w, job[w].order)
  <1> DEFINE o == job[w].order
             seen == IF o = NoOrder THEN "NONE" ELSE StatusOf(w, o)
             j == [job[w] EXCEPT !.phase = "counted", !.seen = seen]
  <1>1. /\ job[w] \in Job /\ Serves(w) /\ job[w].kind = "complete" /\ job[w].phase = "saved"
        /\ Ships(w)
    BY JobOf DEF CountShipped, At, Serves
  <1>2. o \in Orders /\ o # NoOrder
    <2>1. o \in Orders
      BY <1>1, CoreTypes DEF Ships, Sane
    <2> QED
      BY <2>1, LinesAssumption
  <1>3. seen = StatusOf(w, o) /\ seen \in {"SHIPPED", "PARTIALLY_SHIPPED", "ALLOCATED"}
    BY <1>2 DEF StatusOf
  <1>4. job' = [job EXCEPT ![w] = j] /\ Quiet
    BY DEF CountShipped, Quiet
  <1> HIDE DEF seen
  <1>5. /\ j \in Job /\ j.kind = job[w].kind /\ j.order = o /\ j.number = job[w].number
        /\ j.phase = "counted" /\ j.items = job[w].items /\ j.seen = seen
    BY <1>1, <1>3 DEF Job, OrderStatus
  <1> HIDE DEF j
  <1>6. job'[w] = j
    BY <1>4 DEF Core, Serving
  <1>7. Ships(w)'
    BY <1>1, <1>3, <1>4, <1>5, <1>6 DEF Ships, Quiet
  <1>8. Serves(w)'
    BY <1>1, <1>4, <1>5, <1>6, <1>7, IdleIs
       DEF Serves, OrderServed, Moves, Quiet, given, OrderRequests, StatusRequests
  <1>9. Core'
    BY <1>1, <1>4, <1>5, <1>8, GoOnServes
  <1> QED
    BY <1>2, <1>3, <1>4, <1>5, <1>6, <1>9

\* A request that ends without writing leaves the others what they count on.
LEMMA QuietLeaves ==
  ASSUME Core, NEW v \in Workers, UNCHANGED <<orders, items, outbounds>>
  PROVE  Leaves(v)
  BY JobOf DEF Leaves, Serves, OrderServed, Ships, Moves

\* A request that is given up changes nothing.
LEMMA AbortKeeps ==
  ASSUME Core, NEW w \in Workers, Abort(w)
  PROVE  Core' /\ Quiet
  <1>1. Done(w) /\ Quiet
    BY DEF Abort, Quiet
  <1>2. Tables' /\ Rows' /\ requests' = requests /\ RowsStay
    BY <1>1 DEF Core, Tables, Rows, Sane, Quiet, given, RowsStay
  <1> QED
    BY <1>1, <1>2, QuietLeaves, DoneServes DEF Quiet

-----------------------------------------------------------------------------
(* Steps that write an order. *)

\* Order lines held by a completion are left alone.
Untouched(w) ==
  \A v \in Workers \ {w} : job[v].kind = "complete" /\ job[v].phase # "checked" =>
     \A i \in DOMAIN job[v].items : items'[i] = items[i]

\* Where the rows of an order can be written no completion holds a line of it.
LEMMA FreeLines ==
  ASSUME Core, NEW w \in Workers, NEW o \in Orders, OrderFree(w, o) \/ Unreferenced(o),
         \A i \in Items \ ItemSet(o) : items'[i] = items[i]
  PROVE  Untouched(w)
  <1> SUFFICES ASSUME NEW v \in Workers \ {w}, job[v].kind = "complete", job[v].phase # "checked",
                      NEW i \in DOMAIN job[v].items
               PROVE  items'[i] = items[i]
    BY DEF Untouched
  <1> DEFINE x == outbounds[job[v].number]
  <1>1. Ships(v)
    BY JobOf DEF Serves
  <1>2. /\ job[v].number \in DOMAIN outbounds /\ x.status = "APPROVED" /\ x \in Row /\ Sane(x)
        /\ i \in ItemsIn(x.lines)
    BY <1>1, CoreTypes DEF Ships
  <1>3. i \in Items /\ RowOf[i] = x.warehouse
    BY <1>2, ItemsInType
  <1>4. i \notin ItemSet(o)
    <2>1. CASE OrderFree(w, o)
      BY <2>1, <1>3 DEF OrderFree, RowFree, Completing
    <2>2. CASE Unreferenced(o)
      BY <2>2, <1>2 DEF Unreferenced
    <2> QED
      BY <2>1, <2>2
  <1> QED
    BY <1>3, <1>4

\* A request writes the status of its order, and maybe its lines and the stock.
LEMMA OrderWritten ==
  ASSUME Core, NEW w \in Workers, job[w].kind \in {"create"} \cup OrderRequests,
         NEW status \in OrderStatus \ {"NONE"}, SetStatus(w, status),
         items' \in [Items -> Progress], Untouched(w), stock' \in [Warehouses -> Positions],
         Done(w), UNCHANGED <<outbounds, given>>
  PROVE  Core'
  <1> DEFINE o == job[w].order
  <1>1. /\ o \in Orders
        /\ job[w].kind = "create" => orders[o] = "NONE"
        /\ job[w].kind # "create" => orders[o] # "NONE"
    BY JobOf DEF Serves, OrderServed
  <1>2. /\ orders' \in [Orders -> OrderStatus] /\ orders'[o] = status
        /\ \A p \in Orders \ {o} : orders'[p] = orders[p]
    BY <1>1 DEF Core, Tables, SetStatus
  <1>3. Tables'
    BY <1>2 DEF Core, Tables, given
  <1>4. Rows' /\ RowsStay /\ requests' = requests
    <2>1. \A n \in DOMAIN outbounds : Sane(outbounds[n])'
      BY <1>2, CoreTypes DEF Sane
    <2> QED
      BY <2>1 DEF Core, Rows, RowsStay, given
  <1>5. ASSUME NEW v \in Workers \ {w}
        PROVE  Leaves(v)
    <2>1. Serves(v) /\ Apart(v, w)
      BY DEF Core, Serving
    <2>2. job[v].kind = "create" => job[v].order \in Orders \ {o}
      BY <1>1, <2>1 DEF Serves, OrderServed, Apart
    <2>3. job[v].kind \in OrderRequests => orders'[job[v].order] # "NONE"
      BY <1>1, <1>2, <2>1 DEF Serves, OrderServed
    <2> QED
      BY <1>2, <2>1, <2>2, <2>3 DEF Leaves, Untouched, Serves, OrderServed, Ships, Moves
  <1> QED
    BY <1>3, <1>4, <1>5, DoneServes

\* The lines of an order as they are when just written.
LEMMA FreshType ==
  ASSUME Core, NEW o \in Orders
  PROVE  /\ FreshItems(o) \in [Items -> Progress]
         /\ \A i \in ItemSet(o) : FreshItems(o)[i] = [allocated |-> 0, shipped |-> 0]
         /\ \A i \in Items \ ItemSet(o) : FreshItems(o)[i] = items[i]
  <1>1. ItemSet(o) \subseteq Items /\ items \in [Items -> Progress]
    BY OrderItems DEF Core, Tables
  <1>2. [allocated |-> 0, shipped |-> 0] \in Progress
    BY DEF Progress
  <1> QED
    BY <1>1, <1>2 DEF FreshItems

\* The outbound orders, under way or gone, of an order that is not there.
LEMMA NoneOf ==
  ASSUME Core, NEW o \in Orders, orders[o] = "NONE" \/ Unreferenced(o)
  PROVE  \A n \in DOMAIN outbounds : outbounds[n].order = o => outbounds[n].status = "DELETED"
  BY CoreTypes DEF Sane, Unreferenced

\* create_order makes an order that was not there.
LEMMA CreateOrderKeeps ==
  ASSUME Core, NEW w \in Workers, CreateOrder(w)
  PROVE  /\ Core' /\ UNCHANGED <<outbounds, stock, opening>>
         /\ job[w].order \in Orders /\ items' = FreshItems(job[w].order)
         /\ orders[job[w].order] = "NONE"
  <1> DEFINE o == job[w].order
  <1>1. /\ job[w].kind = "create" /\ SetStatus(w, "DRAFT") /\ items' = FreshItems(o) /\ Done(w)
        /\ UNCHANGED <<outbounds, stock, given>>
    BY DEF CreateOrder, At
  <1>2. o \in Orders /\ orders[o] = "NONE"
    BY <1>1, JobOf DEF Serves, OrderServed
  <1>3. Unreferenced(o) \/ \A n \in DOMAIN outbounds : outbounds[n].status # "DELETED" => outbounds[n].order # o
    BY <1>2, NoneOf
  <1>4. Untouched(w)
    <2> SUFFICES ASSUME NEW v \in Workers \ {w}, job[v].kind = "complete", job[v].phase # "checked",
                        NEW i \in DOMAIN job[v].items
                 PROVE  items'[i] = items[i]
      BY DEF Untouched
    <2> DEFINE x == outbounds[job[v].number]
    <2>1. Ships(v)
      BY JobOf DEF Serves
    <2>2. /\ job[v].number \in DOMAIN outbounds /\ x.status = "APPROVED" /\ x \in Row /\ Sane(x)
          /\ i \in ItemsIn(x.lines)
      BY <2>1, CoreTypes DEF Ships
    <2>3. i \in Items /\ i \in ItemSet(x.order) /\ x.order \in Orders
      BY <2>2, ItemsInType DEF Sane
    <2>4. x.order # o
      BY <1>2, <2>2 DEF Sane
    <2>5. i \notin ItemSet(o)
      BY <1>2, <2>3, <2>4, LinesAssumption
    <2> QED
      BY <1>1, <1>2, <2>3, <2>5, FreshType
  <1>5. items' \in [Items -> Progress] /\ stock' \in [Warehouses -> Positions]
    BY <1>1, <1>2, FreshType DEF Core, Tables
  <1>6. "DRAFT" \in OrderStatus \ {"NONE"}
    BY DEF OrderStatus
  <1>7. Core'
    BY <1>1, <1>4, <1>5, <1>6, OrderWritten
  <1> QED
    BY <1>1, <1>2, <1>7 DEF given

\* update_order may replace the lines, if no outbound order names them.
LEMMA UpdateOrderKeeps ==
  ASSUME Core, NEW w \in Workers, UpdateOrder(w)
  PROVE  /\ Core' /\ UNCHANGED <<outbounds, stock, opening>>
         /\ job[w].order \in Orders
         /\ \/ items' = items
            \/ items' = FreshItems(job[w].order) /\ Unreferenced(job[w].order)
  <1> DEFINE o == job[w].order
  <1>1. /\ job[w].kind = "update" /\ SetStatus(w, "DRAFT") /\ Done(w)
        /\ UNCHANGED <<outbounds, stock, given>>
        /\ items' = items \/ (Unreferenced(o) /\ items' = FreshItems(o))
    BY DEF UpdateOrder, At
  <1>2. o \in Orders
    BY <1>1, JobOf DEF Serves, OrderServed, OrderRequests
  <1>3. Untouched(w)
    BY <1>1, <1>2, FreshType, FreeLines DEF Untouched
  <1>4. items' \in [Items -> Progress] /\ stock' \in [Warehouses -> Positions]
    BY <1>1, <1>2, FreshType DEF Core, Tables
  <1>5. "DRAFT" \in OrderStatus \ {"NONE"} /\ "update" \in OrderRequests
    BY DEF OrderStatus, OrderRequests
  <1>6. Core'
    BY <1>1, <1>3, <1>4, <1>5, OrderWritten
  <1> QED
    BY <1>1, <1>2, <1>6 DEF given

\* submit_order, approve_order, reject_order and close_order.
LEMMA StatusWritten ==
  ASSUME Core, NEW w \in Workers,
         SubmitOrder(w) \/ ApproveOrder(w) \/ RejectOrder(w) \/ CloseOrder(w)
  PROVE  /\ Core' /\ UNCHANGED <<items, outbounds, stock, opening>>
         /\ job[w].order \in Orders
         /\ job[w].kind \in {"submit", "approve", "reject", "close"}
         /\ \E status \in OrderStatus :
              /\ SetStatus(w, status)
              /\ job[w].kind \in {"submit", "approve"} => status \in {"PENDING_APPROVAL", "APPROVED"}
              /\ job[w].kind = "reject" => status = "REJECTED"
              /\ job[w].kind = "close" => status = "CLOSED"
  <1>1. PICK status :
          /\ status \in {"PENDING_APPROVAL", "APPROVED", "REJECTED", "CLOSED"} /\ SetStatus(w, status)
          /\ job[w].kind \in {"submit", "approve", "reject", "close"}
          /\ job[w].kind \in {"submit", "approve"} => status \in {"PENDING_APPROVAL", "APPROVED"}
          /\ job[w].kind = "reject" => status = "REJECTED"
          /\ job[w].kind = "close" => status = "CLOSED"
    BY DEF SubmitOrder, ApproveOrder, RejectOrder, CloseOrder, WriteStatus, At
  <1>2. Done(w) /\ UNCHANGED <<items, outbounds, stock, given>>
    BY DEF SubmitOrder, ApproveOrder, RejectOrder, CloseOrder, WriteStatus
  <1>3. job[w].kind \in OrderRequests /\ status \in OrderStatus \ {"NONE"}
    BY <1>1 DEF OrderRequests, OrderStatus
  <1>4. job[w].order \in Orders
    BY <1>3, JobOf DEF Serves, OrderServed
  <1>5. Untouched(w) /\ items' \in [Items -> Progress] /\ stock' \in [Warehouses -> Positions]
    BY <1>2 DEF Core, Tables, Untouched
  <1>6. Core'
    BY <1>1, <1>2, <1>3, <1>5, OrderWritten
  <1> QED
    BY <1>1, <1>2, <1>3, <1>4, <1>6 DEF given

\* What the lines of an order on a row add up to.
LEMMA OnRowType ==
  ASSUME NEW o \in Orders, NEW r, NEW f, \A i \in ItemSet(o) : f[i] \in Int
  PROVE  OnRow(o, r, f) \in Int
  <1> DEFINE S == {i \in ItemSet(o) : RowOf[i] = r}
             g == [i \in S |-> f[i]]
  <1>1. IsFiniteSet(S)
    BY OrderItems, LinesAssumption, FS_Subset
  <1>2. g \in [S -> Int]
    OBVIOUS
  <1> HIDE DEF S, g
  <1>3. SumFunction(g) \in Int
    BY <1>1, <1>2, SumType
  <1> QED
    BY <1>3 DEF OnRow, S, g

\* What reserve_stock, release_stock and ship_stock do to a position.
LEMMA PositionsKept ==
  ASSUME NEW pos \in Positions, NEW q \in Int
  PROVE  /\ ReserveStock(pos, q) \in Positions /\ ReserveStock(pos, q).current = pos.current
         /\ ReserveStock(pos, q).locked = pos.locked + q
         /\ ReleaseStock(pos, q) \in Positions /\ ReleaseStock(pos, q).current = pos.current
         /\ q <= pos.locked => ReleaseStock(pos, q).locked = pos.locked - q
         /\ ShipStock(pos, q) \in Positions /\ ShipStock(pos, q).current = pos.current - q
         /\ q <= pos.locked => ShipStock(pos, q).locked = pos.locked - q
  <1> DEFINE less == AtLeastZero(pos.locked - q)
             rest == pos.current - q
             more == pos.locked + q
  <1>0. /\ pos.current \in Int /\ pos.locked \in Int /\ less \in Int /\ rest \in Int /\ more \in Int
        /\ q <= pos.locked => less = pos.locked - q
    BY DEF Positions, AtLeastZero
  <1> HIDE DEF less, rest, more
  <1>1. ReserveStock(pos, q) \in Positions /\ ReserveStock(pos, q).current = pos.current
        /\ ReserveStock(pos, q).locked = more
    BY <1>0 DEF ReserveStock, Positions, more
  <1>2. ReleaseStock(pos, q) \in Positions /\ ReleaseStock(pos, q).current = pos.current
        /\ ReleaseStock(pos, q).locked = less
    BY <1>0 DEF ReleaseStock, Positions, less
  <1>3. ShipStock(pos, q) \in Positions /\ ShipStock(pos, q).current = rest
        /\ ShipStock(pos, q).locked = less
    BY <1>0 DEF ShipStock, Positions, less, rest
  <1> QED
    BY <1>0, <1>1, <1>2, <1>3 DEF rest, more

\* allocate_stock reserves the whole of every line, on its warehouse.
LEMMA AllocateStockKeeps ==
  ASSUME Core, NEW w \in Workers, AllocateStock(w)
  PROVE  /\ Core' /\ UNCHANGED <<outbounds, opening>>
         /\ job[w].order \in Orders /\ job[w].kind = "allocate" /\ SetStatus(w, "ALLOCATED")
         /\ \A r \in Warehouses :
              /\ stock'[r].current = stock[r].current
              /\ stock'[r].locked = stock[r].locked + OnRow(job[w].order, r, Quantity)
         /\ \A i \in Items :
              /\ items'[i].shipped = items[i].shipped
              /\ items'[i].allocated =
                   IF i \in ItemSet(job[w].order) THEN Quantity[i] ELSE items[i].allocated
  <1> DEFINE o == job[w].order
             qty(r) == OnRow(o, r, Quantity)
  <1>1. /\ job[w].kind = "allocate" /\ SetStatus(w, "ALLOCATED") /\ Done(w) /\ OrderFree(w, o)
        /\ stock' = [r \in Warehouses |-> ReserveStock(stock[r], qty(r))]
        /\ items' = [i \in Items |-> IF i \in ItemSet(o)
                                     THEN [items[i] EXCEPT !.allocated = Quantity[i]]
                                     ELSE items[i]]
        /\ UNCHANGED <<outbounds, given>>
    BY DEF AllocateStock, At
  <1>2. o \in Orders
    BY <1>1, JobOf DEF Serves, OrderServed, OrderRequests
  <1>3. \A r \in Warehouses : qty(r) \in Int /\ stock[r] \in Positions
    <2>1. \A i \in ItemSet(o) : Quantity[i] \in Int
      BY <1>2, OrderItems, LinesAssumption
    <2> QED
      BY <1>2, <2>1, OnRowType DEF Core, Tables
  <1> HIDE DEF qty
  <1>4. /\ stock' \in [Warehouses -> Positions]
        /\ \A r \in Warehouses : /\ stock'[r].current = stock[r].current
                                 /\ stock'[r].locked = stock[r].locked + qty(r)
    BY <1>1, <1>3, PositionsKept
  <1>5. ASSUME NEW i \in Items
        PROVE  /\ items'[i] \in Progress /\ items'[i].shipped = items[i].shipped
               /\ items'[i].allocated = IF i \in ItemSet(o) THEN Quantity[i] ELSE items[i].allocated
               /\ i \notin ItemSet(o) => items'[i] = items[i]
    <2>1. items[i] \in Progress /\ Quantity[i] \in Int
      BY LinesAssumption DEF Core, Tables
    <2> QED
      BY <1>1, <2>1 DEF Progress
  <1>6. items' \in [Items -> Progress]
    BY <1>1, <1>5
  <1>7. Untouched(w)
    BY <1>1, <1>2, <1>5, FreeLines
  <1>8. "ALLOCATED" \in OrderStatus \ {"NONE"} /\ "allocate" \in OrderRequests
    BY DEF OrderStatus, OrderRequests
  <1>9. Core'
    BY <1>1, <1>4, <1>6, <1>7, <1>8, OrderWritten
  <1> QED
    BY <1>1, <1>2, <1>4, <1>5, <1>9 DEF given, qty

\* cancel_order leaves what is in the warehouses and what was shipped.
LEMMA CancelOrderKeeps ==
  ASSUME Core, NEW w \in Workers, CancelOrder(w)
  PROVE  /\ Core' /\ UNCHANGED <<outbounds, opening>>
         /\ job[w].order \in Orders /\ SetStatus(w, "CANCELLED")
         /\ \A r \in Warehouses : stock'[r].current = stock[r].current
         /\ \A i \in Items : items'[i].shipped = items[i].shipped
  <1> DEFINE o == job[w].order
             alloc == [i \in Items |-> job[w].items[i].allocated]
             qty(r) == OnRow(o, r, alloc)
  <1>1. /\ job[w].kind = "cancel" /\ SetStatus(w, "CANCELLED") /\ Done(w)
        /\ \/ /\ OrderFree(w, o)
              /\ stock' = [r \in Warehouses |-> ReleaseStock(stock[r], qty(r))]
              /\ items' = Deallocated(o, job[w].items)
           \/ UNCHANGED <<stock, items>>
        /\ UNCHANGED <<outbounds, given>>
    BY DEF CancelOrder, At
  <1>2. o \in Orders /\ job[w].items \in [Items -> Progress]
    BY <1>1, JobOf DEF Serves, OrderServed, OrderRequests, CancelOrder, At
  <1>3. CASE UNCHANGED <<stock, items>>
    <2>1. /\ Untouched(w) /\ items' \in [Items -> Progress] /\ stock' \in [Warehouses -> Positions]
          /\ "CANCELLED" \in OrderStatus \ {"NONE"} /\ "cancel" \in OrderRequests
      BY <1>3 DEF Core, Tables, Untouched, OrderStatus, OrderRequests
    <2>2. Core'
      BY <1>1, <2>1, OrderWritten
    <2> QED
      BY <1>1, <1>2, <1>3, <2>2 DEF given
  <1>4. CASE /\ OrderFree(w, o)
             /\ stock' = [r \in Warehouses |-> ReleaseStock(stock[r], qty(r))]
             /\ items' = Deallocated(o, job[w].items)
    <2>1. ASSUME NEW i \in Items
          PROVE  /\ items'[i] \in Progress /\ items'[i].shipped = items[i].shipped
                 /\ i \notin ItemSet(o) => items'[i] = items[i]
      <3>1. items[i] \in Progress
        BY DEF Core, Tables
      <3> QED
        BY <1>4, <3>1 DEF Deallocated, Progress
    <2>2. items' \in [Items -> Progress]
      BY <1>4, <2>1 DEF Deallocated
    <2>3. \A r \in Warehouses : qty(r) \in Int /\ stock[r] \in Positions
      <3>1. \A i \in ItemSet(o) : alloc[i] \in Int
        BY <1>2, OrderItems DEF Progress
      <3> HIDE DEF alloc
      <3> QED
        BY <1>2, <3>1, OnRowType DEF Core, Tables
    <2> HIDE DEF qty
    <2>4. /\ stock' \in [Warehouses -> Positions]
          /\ \A r \in Warehouses : stock'[r].current = stock[r].current
      BY <1>4, <2>3, PositionsKept
    <2>5. Untouched(w)
      BY <1>2, <1>4, <2>1, FreeLines
    <2>6. "CANCELLED" \in OrderStatus \ {"NONE"} /\ "cancel" \in OrderRequests
      BY DEF OrderStatus, OrderRequests
    <2>7. Core'
      BY <1>1, <2>2, <2>4, <2>5, <2>6, OrderWritten
    <2> QED
      BY <1>1, <1>2, <2>1, <2>4, <2>7 DEF given
  <1> QED
    BY <1>1, <1>3, <1>4

-----------------------------------------------------------------------------
(* Outbound orders are made. *)

\* The elements of a finite set one after the other.
LEMMA SetInTurn ==
  ASSUME NEW S, IsFiniteSet(S)
  PROVE  \E k \in Nat : /\ SetToSeq(S) \in [1 .. k -> S] /\ SetToSeq(S) \in Seq(S)
                        /\ Len(SetToSeq(S)) = k
                        /\ \A a, b \in 1 .. k : SetToSeq(S)[a] = SetToSeq(S)[b] => a = b
  <1> DEFINE k == Cardinality(S)
  <1>1. k \in Nat /\ \E f \in [1 .. k -> S] : IsInjective(f)
    BY FS_CardinalityType DEF ExistsBijection, Bijection, Injection
  <1>2. SetToSeq(S) \in [1 .. k -> S] /\ IsInjective(SetToSeq(S))
    BY <1>1 DEF SetToSeq
  <1> HIDE DEF k
  <1>3. PICK s : s = SetToSeq(S)
    OBVIOUS
  <1>4. s \in Seq(S) /\ Len(s) = k /\ \A a, b \in 1 .. k : s[a] = s[b] => a = b
    BY <1>1, <1>2, <1>3 DEF IsInjective
  <1> QED
    BY <1>1, <1>2, <1>3, <1>4

\* The outbound orders with others behind them.
LEMMA RowsBehind ==
  ASSUME NEW s \in Seq(Row), NEW k \in Nat, NEW new \in [1 .. k -> Row], NEW t, t = s \o new
  PROVE  /\ t \in Seq(Row) /\ DOMAIN s \subseteq DOMAIN t
         /\ \A n \in DOMAIN s : t[n] = s[n]
         /\ \A n \in DOMAIN t \ DOMAIN s : n - Len(s) \in 1 .. k /\ t[n] = new[n - Len(s)]
  <1>1. new \in Seq(Row) /\ Len(new) = k
    OBVIOUS
  <1>2. /\ t \in Seq(Row) /\ Len(t) = Len(s) + k
        /\ \A i \in 1 .. Len(s) + k : t[i] = IF i <= Len(s) THEN s[i] ELSE new[i - Len(s)]
    BY <1>1, ConcatProperties
  <1>3. Len(s) \in Nat /\ DOMAIN s = 1 .. Len(s) /\ DOMAIN t = 1 .. (Len(s) + k)
    BY <1>2, RowNumbers
  <1> QED
    BY <1>2, <1>3

\* A new outbound order.
MadeOf(x, o, cart) ==
  /\ x \in Row /\ x.status = "DRAFT" /\ ~ x.billed /\ x.order = o
  /\ x.warehouse \in {RowOf[i] : i \in ItemsIn(cart)} /\ x.lines = Part(cart, x.warehouse)

\* An outbound order made from an order is of it.
LEMMA MadeSane ==
  ASSUME NEW cart \in Carts, NEW o \in Orders, ItemsIn(cart) \subseteq ItemSet(o), NEW x,
         MadeOf(x, o, cart), orders[o] # "NONE"
  PROVE  Sane(x)
  <1>1. \A k \in DOMAIN x.lines : /\ k \in DOMAIN cart /\ x.lines[k] = cart[k]
                                  /\ RowOf[cart[k].item] = x.warehouse
    BY PartLines DEF MadeOf
  <1>2. \A k \in DOMAIN cart : cart[k].item \in ItemsIn(cart)
    BY CartLines, LinesAssumption DEF ItemsIn
  <1> QED
    BY <1>1, <1>2 DEF MadeOf, Sane

\* create_order makes outbound orders of different warehouses, with the lines of each.
LEMMA CreateOutboundKeeps ==
  ASSUME Core, NEW w \in Workers, CreateOutbound(w)
  PROVE  /\ Core' /\ UNCHANGED <<orders, items, stock, opening>>
         /\ job[w].kind = "create_outbound" /\ job[w].phase = "checked"
         /\ job[w].order \in Orders /\ job[w].cart \in Carts
         /\ DOMAIN outbounds \subseteq DOMAIN outbounds'
         /\ \A n \in DOMAIN outbounds : outbounds'[n] = outbounds[n]
         /\ \A n \in DOMAIN outbounds' \ DOMAIN outbounds :
              MadeOf(outbounds'[n], job[w].order, job[w].cart)
         /\ \A m, n \in DOMAIN outbounds' \ DOMAIN outbounds :
              outbounds'[m].warehouse = outbounds'[n].warehouse => m = n
  <1> DEFINE o == job[w].order
             cart == job[w].cart
             places == {RowOf[i] : i \in ItemsIn(cart)}
             rows == SetToSeq(places)
             new == [k \in DOMAIN rows |-> Outbound(o, rows[k], Part(cart, rows[k]))]
  <1>1. /\ job[w].kind = "create_outbound" /\ job[w].phase = "checked"
        /\ outbounds' = outbounds \o new /\ Done(w) /\ UNCHANGED <<orders, items, stock, given>>
    BY DEF CreateOutbound, At
  <1>2. /\ o \in Orders /\ orders[o] # "NONE" /\ cart \in Carts
        /\ ItemsIn(cart) \subseteq ItemSet(o)
    BY <1>1, JobOf DEF Serves, OrderServed, OrderRequests
  <1>3. places \subseteq Warehouses /\ IsFiniteSet(places)
    <2>1. ItemsIn(cart) \subseteq Items
      BY <1>2, OrderItems
    <2>2. IsFiniteSet(ItemsIn(cart))
      BY <2>1, LinesAssumption, FS_Subset
    <2>3. IsFiniteSet(places)
      <3> DEFINE I == ItemsIn(cart)
                 f == [i \in I |-> RowOf[i]]
      <3>1. f \in Surjection(I, places)
        BY DEF Surjection
      <3> HIDE DEF I, f, places
      <3> QED
        BY <2>2, <3>1, FS_Surjection DEF I
    <2> QED
      BY <2>1, <2>3, LinesAssumption
  <1>4. PICK k \in Nat : /\ rows \in [1 .. k -> places] /\ rows \in Seq(places) /\ Len(rows) = k
                         /\ \A a, b \in 1 .. k : rows[a] = rows[b] => a = b
    <2> HIDE DEF places
    <2> QED
      BY <1>3, SetInTurn
  <1>5. DOMAIN rows = 1 .. k
    BY <1>4
  <1> HIDE DEF rows
  <1>6. ASSUME NEW a \in 1 .. k
        PROVE  MadeOf(new[a], o, cart) /\ new[a].warehouse = rows[a]
    <2>1. rows[a] \in places /\ rows[a] \in Warehouses
      BY <1>3, <1>4, <1>5
    <2>2. new[a] = Outbound(o, rows[a], Part(cart, rows[a]))
      BY <1>5
    <2>3. Part(cart, rows[a]) \in LineTables
      BY <1>2, PartLines
    <2>4. PICK x : x = new[a]
      OBVIOUS
    <2>5. PICK p : p = Part(cart, rows[a])
      OBVIOUS
    <2>6. x = [status |-> "DRAFT", order |-> o, warehouse |-> rows[a], lines |-> p, billed |-> FALSE]
      BY <2>2, <2>4, <2>5 DEF Outbound
    <2>7. /\ x \in Row /\ x.status = "DRAFT" /\ ~ x.billed /\ x.order = o
          /\ x.warehouse = rows[a] /\ x.lines = p
      BY <1>2, <2>1, <2>3, <2>5, <2>6 DEF Row, OutboundStatus
    <2> QED
      BY <2>1, <2>4, <2>5, <2>7 DEF MadeOf
  <1>7. new \in [1 .. k -> Row]
    <2>1. new = [a \in 1 .. k |-> new[a]]
      BY <1>5
    <2>2. \A a \in 1 .. k : new[a] \in Row
      BY <1>6 DEF MadeOf
    <2> HIDE DEF new
    <2> QED
      BY <2>1, <2>2
  <1> HIDE DEF new
  <1>8. PICK t : t = outbounds'
    OBVIOUS
  <1>9. /\ t \in Seq(Row) /\ DOMAIN outbounds \subseteq DOMAIN t
        /\ \A n \in DOMAIN outbounds : t[n] = outbounds[n]
        /\ \A n \in DOMAIN t \ DOMAIN outbounds :
             n - Len(outbounds) \in 1 .. k /\ t[n] = new[n - Len(outbounds)]
    <2>1. outbounds \in Seq(Row) /\ t = outbounds \o new
      BY <1>1, <1>8 DEF Core, Rows
    <2> QED
      BY <1>7, <2>1, RowsBehind
  <1>10. /\ \A n \in DOMAIN t \ DOMAIN outbounds : MadeOf(t[n], o, cart)
         /\ \A m, n \in DOMAIN t \ DOMAIN outbounds : t[m].warehouse = t[n].warehouse => m = n
    <2>1. \A n \in DOMAIN t \ DOMAIN outbounds : MadeOf(t[n], o, cart)
      BY <1>6, <1>9
    <2>2. ASSUME NEW m \in DOMAIN t \ DOMAIN outbounds, NEW n \in DOMAIN t \ DOMAIN outbounds,
                 t[m].warehouse = t[n].warehouse
          PROVE  m = n
      <3> DEFINE a == m - Len(outbounds)
                 b == n - Len(outbounds)
      <3>1. m - Len(outbounds) = n - Len(outbounds)
        <4>1. a \in 1 .. k /\ b \in 1 .. k /\ t[m] = new[a] /\ t[n] = new[b]
          BY <1>9
        <4> HIDE DEF a, b
        <4>2. rows[a] = rows[b]
          BY <1>6, <2>2, <4>1
        <4>3. a = b
          BY <1>4, <4>1, <4>2
        <4> QED
          BY <4>3 DEF a, b
      <3>2. m \in Int /\ n \in Int /\ Len(outbounds) \in Int
        BY <1>9, CoreTypes, RowNumbers
      <3> QED
        BY <3>1, <3>2
    <2> QED
      BY <2>1, <2>2
  <1>11. \A n \in DOMAIN t : Sane(t[n])
    BY <1>2, <1>9, <1>10, CoreTypes, MadeSane
  <1>12. Rows'
    BY <1>1, <1>8, <1>9, <1>11 DEF Rows, Sane
  <1>13. Tables' /\ requests' = requests
    BY <1>1 DEF Core, Tables, given
  <1>14. RowsStay
    BY <1>8, <1>9 DEF RowsStay
  <1>15. \A v \in Workers : Leaves(v)
    BY <1>1, <1>8, <1>9, JobOf DEF Leaves, Serves, OrderServed, Ships, Moves, StatusRequests
  <1>16. Core'
    BY <1>1, <1>12, <1>13, <1>14, <1>15, DoneServes
  <1> QED
    BY <1>1, <1>2, <1>8, <1>9, <1>10, <1>16 DEF given

-----------------------------------------------------------------------------
(* Outbound orders get another status. *)

\* The outbound order n is as it was but for its status and whether it is billed.
Restated(t, n) ==
  /\ t \in Seq(Row) /\ RowChanged(outbounds, t, n) /\ Len(t) = Len(outbounds)
  /\ t[n].order = outbounds[n].order /\ t[n].warehouse = outbounds[n].warehouse
  /\ t[n].lines = outbounds[n].lines

\* A row is replaced by one of the same order, warehouse and lines.
LEMMA RowRestated ==
  ASSUME Core, NEW n \in DOMAIN outbounds, NEW x \in Row, NEW t, t = [outbounds EXCEPT ![n] = x],
         x.order = outbounds[n].order, x.warehouse = outbounds[n].warehouse,
         x.lines = outbounds[n].lines
  PROVE  Restated(t, n) /\ t[n] = x
  <1>1. outbounds \in Seq(Row)
    BY DEF Core, Rows
  <1>2. t \in [DOMAIN outbounds -> Row] /\ t[n] = x /\ \A i \in DOMAIN outbounds \ {n} : t[i] = outbounds[i]
    BY CoreTypes
  <1>3. t \in Seq(Row) /\ Len(t) = Len(outbounds) /\ DOMAIN t = DOMAIN outbounds
    BY <1>1, <1>2, RowsKept
  <1> QED
    BY <1>2, <1>3 DEF Restated, RowChanged

\* So it is when only its status is saved.
LEMMA StatusSaved ==
  ASSUME Core, NEW n \in DOMAIN outbounds, NEW s \in OutboundStatus, NEW t,
         t = [outbounds EXCEPT ![n].status = s]
  PROVE  Restated(t, n) /\ t[n].status = s /\ t[n].billed = outbounds[n].billed
  <1> DEFINE x == [outbounds[n] EXCEPT !.status = s]
  <1>1. outbounds[n] \in Row
    BY CoreTypes
  <1>2. /\ x \in Row /\ x.order = outbounds[n].order /\ x.warehouse = outbounds[n].warehouse
        /\ x.lines = outbounds[n].lines /\ x.status = s /\ x.billed = outbounds[n].billed
    BY <1>1 DEF Row
  <1>3. t = [outbounds EXCEPT ![n] = x]
    OBVIOUS
  <1> HIDE DEF x
  <1> QED
    BY <1>2, <1>3, RowRestated

\* The other outbound orders are as they were.
LEMMA RowsRestated ==
  ASSUME Core, NEW n \in DOMAIN outbounds, Restated(outbounds', n)
  PROVE  /\ RowsStay /\ DOMAIN outbounds' = DOMAIN outbounds
         /\ \A m \in DOMAIN outbounds \ {n} : outbounds'[m] = outbounds[m]
  BY DEF Restated, RowChanged, RowsStay

\* submit_order, approve_order and cancel_order of an outbound order.
LEMMA MoveOutboundKeeps ==
  ASSUME Core, DecidedAlone, NEW w \in Workers, NEW kind \in StatusRequests, MoveOutbound(w, kind)
  PROVE  /\ Core' /\ UNCHANGED <<orders, items, stock, opening>>
         /\ job[w].number \in DOMAIN outbounds /\ Restated(outbounds', job[w].number)
         /\ \/ /\ outbounds[job[w].number].status = "DRAFT"
               /\ outbounds'[job[w].number].status = "PENDING"
            \/ /\ outbounds[job[w].number].status = "PENDING"
               /\ outbounds'[job[w].number].status \in {"PENDING", "APPROVED"}
            \/ /\ outbounds[job[w].number].status \in Open
               /\ outbounds'[job[w].number].status = "CANCELLED"
  <1> DEFINE n == job[w].number
             to == Target[kind]
  <1>1. /\ job[w].kind = kind /\ OutboundFree(w, n) /\ Done(w)
        /\ outbounds' = [outbounds EXCEPT ![n].status = to]
        /\ UNCHANGED <<orders, items, stock, given>>
    BY DEF MoveOutbound, At
  <1>2. n \in DOMAIN outbounds /\ Moves(w)
    BY <1>1, JobOf DEF Serves, Moves
  <1>3. /\ kind = "submit_outbound" => to = "PENDING"
        /\ kind = "approve_outbound" => to = "APPROVED"
        /\ kind = "cancel_outbound" => to = "CANCELLED"
        /\ to \in OutboundStatus \ {"COMPLETED", "DELETED"}
    BY TargetIs
  <1> HIDE DEF to
  <1>4. /\ Restated(outbounds', n) /\ outbounds'[n].status = to
        /\ outbounds'[n].billed = outbounds[n].billed
    <2>1. PICK t : t = outbounds'
      OBVIOUS
    <2>2. t = [outbounds EXCEPT ![n].status = to]
      BY <1>1, <2>1
    <2>3. to \in OutboundStatus /\ n \in DOMAIN outbounds
      BY <1>2, <1>3
    <2> HIDE DEF n
    <2>4. Restated(t, n) /\ t[n].status = to /\ t[n].billed = outbounds[n].billed
      BY <2>2, <2>3, StatusSaved, ZenonT(60)
    <2> QED
      BY <2>1, <2>4
  <1>5. outbounds[n].status \in Open
    BY <1>1, <1>2 DEF Moves, Open, StatusRequests
  <1>6. Sane(outbounds'[n])
    <2>1. Sane(outbounds[n]) /\ ~ outbounds[n].billed
      BY <1>2, <1>5, CoreTypes DEF Sane, Open, Row
    <2> QED
      BY <1>3, <1>4, <1>5, <2>1 DEF Restated, Sane, Open
  <1>7. Rows'
    <2>1. \A m \in DOMAIN outbounds : Sane(outbounds'[m])
      BY <1>2, <1>4, <1>6, CoreTypes, RowsRestated
    <2>2. \A m \in DOMAIN outbounds' : Sane(outbounds[m])'
      BY <1>1, <1>2, <1>4, <2>1, RowsRestated DEF Sane
    <2> QED
      BY <1>4, <2>2 DEF Rows, Restated
  <1>8. Tables' /\ requests' = requests /\ RowsStay
    BY <1>1, <1>2, <1>4, RowsRestated DEF Core, Tables, given
  <1>9. ASSUME NEW v \in Workers \ {w}
        PROVE  Leaves(v)
    <2>1. Serves(v) /\ Apart(v, w) /\ job[w] # Idle
      BY <1>1, IdleIs DEF Core, Serving, StatusRequests
    <2>2. job[v].kind = "complete" => job[v].number # n
      BY <1>1 DEF OutboundFree, Completing
    <2>3. job[v].kind \notin {"approve_outbound", "cancel_outbound"}
      BY <2>1, IdleIs DEF DecidedAlone, Apart
    <2>4. job[v].kind = "submit_outbound" => to = "PENDING"
      <3>1. job[v].kind = "submit_outbound" => kind \in Racing
        BY <1>1, <2>1, IdleIs DEF Apart
      <3> QED
        BY <1>3, <3>1 DEF DecidedAlone, StatusRequests
    <2>5. \A m \in DOMAIN outbounds \ {n} : outbounds'[m] = outbounds[m]
      BY <1>2, <1>4, RowsRestated
    <2> QED
      BY <1>1, <1>4, <2>1, <2>2, <2>3, <2>4, <2>5
         DEF Leaves, Serves, OrderServed, Ships, Moves, StatusRequests
  <1>10. Core'
    BY <1>1, <1>7, <1>8, <1>9, DoneServes
  <1>11. \/ outbounds[n].status = "DRAFT" /\ outbounds'[n].status = "PENDING"
         \/ outbounds[n].status = "PENDING" /\ outbounds'[n].status \in {"PENDING", "APPROVED"}
         \/ outbounds[n].status \in Open /\ outbounds'[n].status = "CANCELLED"
    BY <1>1, <1>2, <1>3, <1>4 DEF Moves, StatusRequests
  <1> QED
    BY <1>1, <1>2, <1>4, <1>10, <1>11 DEF given

\* A request that is served with one step, alone.
LEMMA NobodyElse ==
  ASSUME Core, NEW w \in Workers, NEW kind, MayStart(w, kind), kind \notin Racing
  PROVE  \A v \in Workers : job[v] = Idle
  BY DEF MayStart

\* Deleting an order writes its lines, to which no outbound order refers.
LEMMA DestroyOrderKeeps ==
  ASSUME Core, NEW w \in Workers, NEW o \in Orders, DestroyOrder(w, o)
  PROVE  /\ Core' /\ UNCHANGED <<outbounds, stock, opening>>
         /\ items' = FreshItems(o) /\ Unreferenced(o)
         /\ "destroy" \in requests
  <1>1. /\ MayStart(w, "destroy") /\ Unreferenced(o) /\ orders' = [orders EXCEPT ![o] = "NONE"]
        /\ items' = FreshItems(o) /\ UNCHANGED <<outbounds, stock, given, job>>
    BY DEF DestroyOrder
  <1>2. \A v \in Workers : job[v] = Idle
    BY <1>1, RacingAssumption, NobodyElse
  <1>3. orders' \in [Orders -> OrderStatus] /\ \A p \in Orders \ {o} : orders'[p] = orders[p]
    BY <1>1 DEF Core, Tables, OrderStatus
  <1>4. Tables'
    BY <1>1, <1>3, FreshType DEF Core, Tables, given
  <1>5. Rows'
    <2>1. \A n \in DOMAIN outbounds : Sane(outbounds[n])'
      <3> SUFFICES ASSUME NEW n \in DOMAIN outbounds PROVE Sane(outbounds[n])'
        OBVIOUS
      <3>1. Sane(outbounds[n]) /\ (outbounds[n].status # "DELETED" => outbounds[n].order # o)
        BY <1>1, CoreTypes DEF Unreferenced
      <3> QED
        BY <1>1, <1>3, <3>1 DEF Sane
    <2> QED
      BY <1>1, <2>1 DEF Core, Rows
  <1>6. Core'
    BY <1>1, <1>2, <1>4, <1>5, NobodyServes DEF given
  <1> QED
    BY <1>1, <1>6 DEF given, MayStart

\* What is deleted was not completed, unless nothing was billed for it.
LEMMA DestroyOutboundKeeps ==
  ASSUME Core, NEW w \in Workers, NEW n \in DOMAIN outbounds, DestroyOutbound(w, n)
  PROVE  /\ Core' /\ UNCHANGED <<orders, items, stock, opening>>
         /\ Restated(outbounds', n)
         /\ outbounds[n].status # "DELETED" /\ outbounds'[n].status = "DELETED"
         /\ CompletedStay => outbounds[n].status # "COMPLETED"
  <1>1. /\ MayStart(w, "destroy_outbound") /\ outbounds' = [outbounds EXCEPT ![n].status = "DELETED"]
        /\ outbounds[n].status # "DELETED" /\ ~ outbounds[n].billed
        /\ UNCHANGED <<orders, items, stock, given, job>>
    BY DEF DestroyOutbound
  <1>2. \A v \in Workers : job[v] = Idle
    BY <1>1, RacingAssumption, NobodyElse
  <1>3. /\ Restated(outbounds', n) /\ outbounds'[n].status = "DELETED"
        /\ outbounds'[n].billed = outbounds[n].billed
    <2>1. PICK t : t = outbounds'
      OBVIOUS
    <2>2. PICK s \in OutboundStatus : s = "DELETED"
      BY DEF OutboundStatus
    <2>3. t = [outbounds EXCEPT ![n].status = s]
      BY <1>1, <2>1, <2>2
    <2>4. Restated(t, n) /\ t[n].status = s /\ t[n].billed = outbounds[n].billed
      BY <2>3, StatusSaved, ZenonT(60)
    <2> QED
      BY <2>1, <2>2, <2>4
  <1>4. /\ Sane(outbounds'[n])
        /\ CompletedStay => outbounds[n].status # "COMPLETED"
    <2>1. Sane(outbounds[n])
      BY CoreTypes
    <2>2. "destroy_outbound" \in requests /\ requests \in Mixes
      BY <1>1 DEF MayStart, Core, Tables
    <2> QED
      BY <1>1, <1>3, <2>1, <2>2 DEF Restated, Sane, CompletedStay
  <1>5. Rows'
    <2>1. \A m \in DOMAIN outbounds : Sane(outbounds'[m])
      BY <1>3, <1>4, CoreTypes, RowsRestated
    <2>2. \A m \in DOMAIN outbounds' : Sane(outbounds[m])'
      BY <1>1, <1>3, <2>1, RowsRestated DEF Sane
    <2> QED
      BY <1>3, <2>2 DEF Rows, Restated
  <1>6. Tables'
    BY <1>1 DEF Core, Tables, given
  <1>7. Core'
    BY <1>1, <1>2, <1>5, <1>6, NobodyServes DEF given
  <1> QED
    BY <1>1, <1>3, <1>4, <1>7 DEF given

-----------------------------------------------------------------------------
(* complete_order commits. *)

\* The commit of complete_order: one outbound order, one warehouse, and the
\* order lines it carries.
LEMMA CommitOutboundKeeps ==
  ASSUME Core, DecidedAlone, NEW w \in Workers, Commits(w)
  PROVE  /\ Core' /\ UNCHANGED opening
         /\ job[w].kind = "complete" /\ job[w].phase = "counted" /\ Ships(w)
         /\ job[w].order \in Orders /\ SetStatus(w, job[w].seen)
         /\ Restated(outbounds', job[w].number)
         /\ outbounds[job[w].number].status = "APPROVED"
         /\ outbounds'[job[w].number].status = "COMPLETED"
         /\ LET x == outbounds[job[w].number] IN
            /\ \A r \in Warehouses \ {x.warehouse} : stock'[r] = stock[r]
            /\ stock'[x.warehouse] = ShipStock(stock[x.warehouse], TotalQty(x.lines))
            /\ \A i \in Items \ ItemsIn(x.lines) : items'[i] = items[i]
            /\ \A i \in ItemsIn(x.lines) : items'[i] = Moved(items[i], QtyIn(x.lines, i))
  <1> DEFINE n == job[w].number
             o == job[w].order
             x == outbounds[n]
  <1>0. PICK billing \in AutoBilling : CommitOutbound(w, billing)
    BY DEF Commits
  <1> DEFINE y == [x EXCEPT !.status = "COMPLETED", !.billed = billing]
  <1>1. /\ job[w].kind = "complete" /\ job[w].phase = "counted" /\ Serves(w) /\ Ships(w)
        /\ n \in DOMAIN outbounds /\ x.status = "APPROVED" /\ x.order = o
        /\ DOMAIN job[w].items = ItemsIn(x.lines)
        /\ \A i \in DOMAIN job[w].items : job[w].items[i] = Moved(items[i], QtyIn(x.lines, i))
        /\ job[w].seen \in {"SHIPPED", "PARTIALLY_SHIPPED", "ALLOCATED"}
    BY <1>0, JobOf DEF CommitOutbound, At, Serves, Ships
  <1>2. x \in Row /\ Sane(x) /\ o \in Orders /\ o # NoOrder /\ orders[o] # "NONE"
    <2>1. x \in Row /\ Sane(x) /\ o \in Orders /\ orders[o] # "NONE"
      BY <1>1, CoreTypes DEF Sane
    <2> QED
      BY <2>1, LinesAssumption
  <1>3. /\ outbounds' = [outbounds EXCEPT ![n].status = "COMPLETED", ![n].billed = billing]
        /\ stock' = [stock EXCEPT ![x.warehouse] = ShipStock(stock[x.warehouse], TotalQty(x.lines))]
        /\ items' = [i \in Items |-> SeenItem(w, i)]
        /\ orders' = [orders EXCEPT ![o] = job[w].seen] /\ Done(w) /\ UNCHANGED given
    BY <1>0, <1>2, LinesAssumption DEF CommitOutbound
  <1>4. /\ y \in Row /\ y.status = "COMPLETED" /\ y.billed = billing /\ y.order = o
        /\ y.warehouse = x.warehouse /\ y.lines = x.lines
    BY <1>1, <1>2, LinesAssumption DEF Row, OutboundStatus
  <1>5. outbounds' = [outbounds EXCEPT ![n] = y]
    BY <1>1, <1>2, <1>3
  <1> HIDE DEF y
  <1>6. Restated(outbounds', n) /\ outbounds'[n] = y
    <2>1. PICK t : t = outbounds'
      OBVIOUS
    <2>2. t = [outbounds EXCEPT ![n] = y]
      BY <1>5, <2>1
    <2>3. n \in DOMAIN outbounds /\ y.order = outbounds[n].order
          /\ y.warehouse = outbounds[n].warehouse /\ y.lines = outbounds[n].lines
      BY <1>1, <1>4
    <2> HIDE DEF n
    <2>4. Restated(t, n) /\ t[n] = y
      BY <1>4, <2>2, <2>3, RowRestated
    <2> QED
      BY <2>1, <2>4
  <1>7. /\ orders' \in [Orders -> OrderStatus] /\ orders'[o] = job[w].seen
        /\ \A p \in Orders \ {o} : orders'[p] = orders[p]
    BY <1>1, <1>2, <1>3 DEF Core, Tables, OrderStatus
  <1>8. /\ \A i \in Items \ ItemsIn(x.lines) : items'[i] = items[i]
        /\ \A i \in ItemsIn(x.lines) : items'[i] = Moved(items[i], QtyIn(x.lines, i))
        /\ items' \in [Items -> Progress]
    <2>1. x.lines \in LineTables /\ ItemsIn(x.lines) \subseteq Items
      BY <1>2, ItemsInType DEF Row
    <2>2. items \in [Items -> Progress]
      BY DEF Core, Tables
    <2> HIDE DEF n, x
    <2>3. ASSUME NEW i \in Items
          PROVE  /\ i \in ItemsIn(x.lines) => items'[i] = Moved(items[i], QtyIn(x.lines, i))
                 /\ i \notin ItemsIn(x.lines) => items'[i] = items[i]
                 /\ items'[i] \in Progress
      <3>1. items'[i] = SeenItem(w, i)
        BY <1>3
      <3>2. CASE i \in ItemsIn(x.lines)
        <4>1. items'[i] = Moved(items[i], QtyIn(x.lines, i))
          BY <1>1, <3>1, <3>2 DEF SeenItem
        <4>2. items[i] \in Progress /\ QtyIn(x.lines, i) \in Nat
          BY <2>1, <2>2, QtyType
        <4>3. Moved(items[i], QtyIn(x.lines, i)) \in Progress
          BY <4>2, MovedType
        <4> QED
          BY <3>2, <4>1, <4>3
      <3>3. CASE i \notin ItemsIn(x.lines)
        BY <1>1, <2>2, <3>1, <3>3 DEF SeenItem
      <3> QED
        BY <3>2, <3>3
    <2>4. items' = [i \in Items |-> items'[i]]
      BY <1>3
    <2> QED
      BY <2>1, <2>3, <2>4
  <1>9. /\ \A r \in Warehouses \ {x.warehouse} : stock'[r] = stock[r]
        /\ stock'[x.warehouse] = ShipStock(stock[x.warehouse], TotalQty(x.lines))
        /\ stock' \in [Warehouses -> Positions]
    <2>1. x.warehouse \in Warehouses /\ TotalQty(x.lines) \in Int
      BY <1>2, TotalType DEF Row
    <2>2. ShipStock(stock[x.warehouse], TotalQty(x.lines)) \in Positions
      BY <2>1, PositionsKept DEF Core, Tables
    <2> QED
      BY <1>3, <2>1, <2>2 DEF Core, Tables
  <1>10. Tables' /\ requests' = requests /\ RowsStay
    BY <1>1, <1>3, <1>6, <1>7, <1>8, <1>9, RowsRestated DEF Core, Tables, given
  <1>11. Rows'
    <2>1. \A m \in DOMAIN outbounds : Sane(outbounds'[m])
      <3>1. Sane(y)
        <4>1. y.status = "COMPLETED" /\ (y.billed \/ FALSE \in AutoBilling)
          BY <1>4, LinesAssumption
        <4>2. /\ y.order \in Orders /\ orders[y.order] # "NONE"
              /\ \A k \in DOMAIN y.lines : /\ y.lines[k].item \in ItemSet(y.order)
                                           /\ RowOf[y.lines[k].item] = y.warehouse
          BY <1>1, <1>2, <1>4 DEF Sane
        <4> HIDE DEF n, o
        <4> QED
          BY <4>1, <4>2 DEF Sane
      <3> QED
        BY <1>1, <1>6, <3>1, CoreTypes, RowsRestated
    <2>2. \A m \in DOMAIN outbounds' : Sane(outbounds[m])'
      <3> SUFFICES ASSUME NEW m \in DOMAIN outbounds' PROVE Sane(outbounds[m])'
        OBVIOUS
      <3>1. m \in DOMAIN outbounds
        BY <1>1, <1>6, RowsRestated
      <3>2. PICK z : z = outbounds'[m]
        OBVIOUS
      <3>3. Sane(z)
        BY <2>1, <3>1, <3>2
      <3>4. orders'[z.order] = "NONE" => orders[z.order] = "NONE"
        BY <1>1, <1>2, <1>7, <3>3 DEF Sane
      <3> QED
        BY <3>2, <3>3, <3>4 DEF Sane
    <2> QED
      BY <1>6, <2>2 DEF Rows, Restated
  <1>12. ASSUME NEW v \in Workers \ {w}
         PROVE  Leaves(v)
    <2>1. Serves(v) /\ Apart(v, w) /\ job[w] # Idle
      BY <1>1, IdleIs DEF Core, Serving
    <2>2. \A m \in DOMAIN outbounds \ {n} : outbounds'[m] = outbounds[m]
      BY <1>1, <1>6, RowsRestated
    <2>3. ASSUME job[v].kind = "complete"
          PROVE  /\ outbounds'[job[v].number].status = "APPROVED"
                 /\ job[v].phase # "checked" => \A i \in DOMAIN job[v].items : items'[i] = items[i]
      <3> DEFINE z == outbounds[job[v].number]
      <3>1. Ships(v) /\ job[v].number # n
        BY <1>1, <2>1, <2>3 DEF Serves, Apart
      <3>2. z \in Row /\ Sane(z) /\ outbounds'[job[v].number] = z
        BY <2>2, <3>1, CoreTypes DEF Ships
      <3>3. ASSUME job[v].phase # "checked", NEW i \in DOMAIN job[v].items
            PROVE  items'[i] = items[i]
        <4>1. i \in ItemsIn(z.lines) /\ z.warehouse # x.warehouse
          BY <1>1, <2>1, <2>3, <3>1, <3>3 DEF Ships, Apart
        <4>2. i \in Items /\ RowOf[i] = z.warehouse
          BY <3>2, <4>1, ItemsInType
        <4>3. i \notin ItemsIn(x.lines)
          BY <1>2, <4>1, <4>2, ItemsInType
        <4> QED
          BY <1>8, <4>2, <4>3
      <3> QED
        BY <3>1, <3>2, <3>3 DEF Ships
    <2>4. job[v].kind \notin {"approve_outbound", "cancel_outbound"}
      BY <2>1, IdleIs DEF DecidedAlone, Apart
    <2>5. job[v].kind = "submit_outbound" => job[v].number \in DOMAIN outbounds \ {n}
      BY <1>1, <2>1 DEF Serves, Moves, StatusRequests
    <2>6. /\ job[v].kind = "create" => orders'[job[v].order] = "NONE"
          /\ job[v].kind \in OrderRequests => orders'[job[v].order] # "NONE"
      BY <1>1, <1>2, <1>7, <2>1 DEF Serves, OrderServed
    <2> QED
      BY <2>1, <2>2, <2>3, <2>4, <2>5, <2>6 DEF Leaves, Serves, Moves
  <1>13. Core'
    BY <1>3, <1>10, <1>11, <1>12, DoneServes
  <1> QED
    BY <1>1, <1>2, <1>3, <1>4, <1>6, <1>8, <1>9, <1>13 DEF given, SetStatus

-----------------------------------------------------------------------------
(* Every step. *)

Loads(w) ==
  \/ \E o \in Orders :
       \/ StartCreate(w, o)
       \/ \E kind \in OrderRequests \ {"create_outbound"} : LoadOrder(w, kind, o, << >>)
       \/ \E cart \in Carts : LoadOrder(w, "create_outbound", o, cart)
  \/ \E n \in DOMAIN outbounds :
       \/ \E kind \in StatusRequests : LoadOutbound(w, kind, n)
       \/ CheckOutbound(w, n)

Reads(w) ==
  \/ Loads(w)
  \/ ReadStock(w) \/ CheckSellable(w) \/ CheckCancel(w) \/ CheckPending(w)
  \/ ShipLines(w) \/ SaveItems(w) \/ CountShipped(w)
  \/ Abort(w)

WritesStatus(w) == SubmitOrder(w) \/ ApproveOrder(w) \/ RejectOrder(w) \/ CloseOrder(w)

WritesOrder(w) ==
  CreateOrder(w) \/ UpdateOrder(w) \/ WritesStatus(w) \/ AllocateStock(w) \/ CancelOrder(w)

Destroys(w) ==
  \/ \E o \in Orders : DestroyOrder(w, o)
  \/ \E n \in DOMAIN outbounds : DestroyOutbound(w, n)

WritesOutbounds(w) ==
  CreateOutbound(w) \/ Commits(w) \/ \E kind \in StatusRequests : MoveOutbound(w, kind)

\* Without requests by hand a step reads, writes orders, deletes or writes
\* outbound orders.
LEMMA NextIs ==
  ASSUME Core, FromOrders, Next
  PROVE  \E w \in Workers : Reads(w) \/ WritesOrder(w) \/ Destroys(w) \/ WritesOutbounds(w)
  <1>1. PICK w \in Workers : OrderStep(w) \/ OutboundStep(w) \/ Abort(w)
    BY DEF Next
  <1>2. requests \cap {"manual", "edit_outbound"} = {}
    BY DEF FromOrders, Core, Tables
  <1>3. CASE OrderStep(w)
    <2>1. \/ \E o \in Orders : \/ StartCreate(w, o)
                               \/ DestroyOrder(w, o)
                               \/ \E kind \in DOMAIN AllowedFrom \ {"create_outbound"} :
                                    LoadOrder(w, kind, o, << >>)
                               \/ \E cart \in Carts : LoadOrder(w, "create_outbound", o, cart)
          \/ CreateOrder(w) \/ ReadStock(w) \/ CheckSellable(w) \/ UpdateOrder(w)
          \/ WritesStatus(w) \/ AllocateStock(w) \/ CheckCancel(w) \/ CancelOrder(w)
      BY <1>3 DEF OrderStep, WritesStatus
    <2>2. Loads(w) \/ Destroys(w) \/ CheckCancel(w) \/ ReadStock(w) \/ CheckSellable(w)
            \/ WritesOrder(w)
      BY <2>1, OrderKinds DEF Loads, Destroys, WritesOrder
    <2> QED
      BY <2>2 DEF Reads
  <1>4. CASE OutboundStep(w)
    <2>1. ~ \E r \in Warehouses, qty \in ManualQuantities : \/ \E o \in Orders : CreateManual(w, o, r, qty)
                                                            \/ CreateLoose(w, r, qty)
      BY <1>2 DEF CreateManual, CreateLoose, MayStart
    <2>2. ~ \E o \in Orders \cup {NoOrder}, r \in Warehouses : EditOutbound(w, o, r)
      BY JobOf DEF EditOutbound, At, Job, Requested, OrderRequests, StatusRequests
    <2>3. ~ \E n \in DOMAIN outbounds : LoadEdit(w, n)
      BY <1>2 DEF LoadEdit, MayStart
    <2>4. SubmitOutbound(w) \/ ApproveOutbound(w) \/ CancelOutbound(w)
          => \E kind \in StatusRequests : MoveOutbound(w, kind)
      BY DEF SubmitOutbound, ApproveOutbound, CancelOutbound, StatusRequests
    <2>5. \/ \E n \in DOMAIN outbounds : \/ \E kind \in DOMAIN Target : LoadOutbound(w, kind, n)
                                         \/ DestroyOutbound(w, n)
                                         \/ CheckOutbound(w, n)
          \/ CheckPending(w) \/ CreateOutbound(w) \/ ShipLines(w) \/ SaveItems(w)
          \/ CountShipped(w) \/ Commits(w)
          \/ \E kind \in StatusRequests : MoveOutbound(w, kind)
      BY <1>4, <2>1, <2>2, <2>3, <2>4 DEF OutboundStep, Commits
    <2>6. Loads(w) \/ Destroys(w) \/ WritesOutbounds(w) \/ CheckPending(w) \/ ShipLines(w)
            \/ SaveItems(w) \/ CountShipped(w)
      BY <2>5, StatusKinds DEF Loads, Destroys, WritesOutbounds
    <2> QED
      BY <2>6 DEF Reads
  <1> QED
    BY <1>1, <1>3, <1>4 DEF Reads

\* Requests that begin.
LEMMA LoadsKeep ==
  ASSUME Core, NEW w \in Workers, Loads(w)
  PROVE  Core' /\ Quiet
  <1>1. ASSUME NEW o \in Orders, StartCreate(w, o)
        PROVE  Core' /\ Quiet
    BY <1>1, StartCreateKeeps
  <1>2. ASSUME NEW o \in Orders, NEW kind \in OrderRequests \ {"create_outbound"},
               LoadOrder(w, kind, o, << >>)
        PROVE  Core' /\ Quiet
    <2>1. << >> \in Carts \cup {<< >>}
      OBVIOUS
    <2> QED
      BY <1>2, <2>1, LoadOrderKeeps
  <1>3. ASSUME NEW o \in Orders, NEW cart \in Carts, LoadOrder(w, "create_outbound", o, cart)
        PROVE  Core' /\ Quiet
    <2>1. "create_outbound" \in OrderRequests
      BY DEF OrderRequests
    <2> QED
      BY <1>3, <2>1, LoadOrderKeeps
  <1>4. ASSUME NEW n \in DOMAIN outbounds, NEW kind \in StatusRequests, LoadOutbound(w, kind, n)
        PROVE  Core' /\ Quiet
    BY <1>4, LoadOutboundKeeps
  <1>5. ASSUME NEW n \in DOMAIN outbounds, CheckOutbound(w, n)
        PROVE  Core' /\ Quiet
    BY <1>5, CheckOutboundKeeps
  <1> QED
    BY <1>1, <1>2, <1>3, <1>4, <1>5 DEF Loads

\* Steps that only read.
LEMMA ReadsKeep ==
  ASSUME Core, NEW w \in Workers, Reads(w)
  PROVE  Core' /\ Quiet
  BY LoadsKeep, ReadStockKeeps, CheckSellableKeeps, CheckCancelKeeps, CheckPendingKeeps,
     ShipLinesKeeps, SaveItemsKeeps, CountShippedKeeps, AbortKeeps DEF Reads

\* The types hold, and so does what the requests under way know.
LEMMA CoreKept ==
  ASSUME Core, FromOrders, DecidedAlone, [Next]_vars
  PROVE  Core'
  <1>1. CASE UNCHANGED vars
    <2>1. UNCHANGED <<orders, items, outbounds, stock, opening, requests, job>>
      BY <1>1 DEF vars, given
    <2>2. Tables' /\ Rows'
      BY <2>1 DEF Core, Tables, Rows, Sane
    <2>3. \A w \in Workers : Serves(w)'
      BY <2>1, JobOf DEF Serves, OrderServed, Ships, Moves
    <2>4. \A v, w \in Workers : v # w => Apart(v, w)'
      BY <2>1 DEF Core, Serving, Apart
    <2> QED
      BY <2>1, <2>2, <2>3, <2>4 DEF Core, Serving
  <1>2. CASE Next
    <2>1. PICK w \in Workers : Reads(w) \/ WritesOrder(w) \/ Destroys(w) \/ WritesOutbounds(w)
      BY <1>2, NextIs
    <2>2. CASE Reads(w)
      BY <2>2, ReadsKeep
    <2>3. CASE WritesOrder(w)
      BY <2>3, CreateOrderKeeps, UpdateOrderKeeps, StatusWritten, AllocateStockKeeps,
         CancelOrderKeeps DEF WritesOrder, WritesStatus
    <2>4. CASE Destroys(w)
      BY <2>4, DestroyOrderKeeps, DestroyOutboundKeeps DEF Destroys
    <2>5. CASE WritesOutbounds(w)
      BY <2>5, CreateOutboundKeeps, CommitOutboundKeeps, MoveOutboundKeeps DEF WritesOutbounds
    <2> QED
      BY <2>1, <2>2, <2>3, <2>4, <2>5
  <1> QED
    BY <1>1, <1>2

\* The types hold in every behaviour, and what the requests under way know.
THEOREM CoreHolds ==
  ASSUME FromOrders, DecidedAlone
  PROVE  Spec => []Core
  <1>1. Core /\ [Next]_vars => Core'
    BY CoreKept
  <1> QED
    BY InitCore, <1>1, PTL DEF Spec

-----------------------------------------------------------------------------
(* What the outbound orders carry. *)

\* Of an order line, on those in one of the statuses.
OfItem(i, statuses) ==
  [x \in Row |-> IF x.status \in statuses THEN QtyIn(x.lines, i) ELSE 0]

\* Of a warehouse, on those that were completed.
OfPlace(r) ==
  [x \in Row |-> IF x.status = "COMPLETED" /\ x.warehouse = r THEN TotalQty(x.lines) ELSE 0]

\* The columns hold numbers, those that their names say.
LEMMA ColumnsAre ==
  /\ \A i, statuses : /\ OfItem(i, statuses) \in [Row -> Nat]
                      /\ \A x \in Row : OfItem(i, statuses)[x] =
                           IF x.status \in statuses THEN QtyIn(x.lines, i) ELSE 0
  /\ \A r : /\ OfPlace(r) \in [Row -> Nat]
            /\ \A x \in Row : OfPlace(r)[x] =
                 IF x.status = "COMPLETED" /\ x.warehouse = r THEN TotalQty(x.lines) ELSE 0
  <1>1. \A x \in Row : /\ TotalQty(x.lines) \in Nat
                       /\ \A i : QtyIn(x.lines, i) \in Nat
    BY TotalType, QtyType DEF Row
  <1> QED
    BY <1>1 DEF OfItem, OfPlace

\* The quantity on outbound orders is the total of a column.
LEMMA OnOutboundsIs ==
  ASSUME NEW t \in Seq(Row), NEW i, NEW statuses
  PROVE  SumFunction([n \in {n \in DOMAIN t : t[n].status \in statuses} |-> QtyIn(t[n].lines, i)])
           = Column(t, OfItem(i, statuses))
  <1> DEFINE c == OfItem(i, statuses)
             S == DOMAIN t
             T == {n \in S : t[n].status \in statuses}
             f == [n \in S |-> c[t[n]]]
             g == [n \in T |-> QtyIn(t[n].lines, i)]
  <1>1. IsFiniteSet(S) /\ T \in SUBSET S /\ \A n \in S : t[n] \in Row
    BY RowNumbers
  <1>2. /\ f \in [S -> Int] /\ g \in [T -> Int]
        /\ \A n \in T : f[n] = g[n]
        /\ \A n \in S \ T : f[n] = 0
    <2>1. ASSUME NEW n \in S
          PROVE  /\ QtyIn(t[n].lines, i) \in Nat
                 /\ c[t[n]] = IF t[n].status \in statuses THEN QtyIn(t[n].lines, i) ELSE 0
      <3>1. t[n] \in Row /\ t[n].lines \in LineTables
        BY <1>1 DEF Row
      <3> QED
        BY <3>1, ColumnsAre, QtyType
    <2> HIDE DEF c
    <2> QED
      BY <2>1
  <1>3. IsFiniteSet(S) /\ T \in SUBSET S
    BY <1>1
  <1> HIDE DEF S, T, f, g
  <1>4. SumFunction(f) = SumFunction(g)
    BY <1>2, <1>3, TermsWithin
  <1> QED
    BY <1>4 DEF f, g, S, T, Column

\* What outbound orders carry of a line is the total of its column.
LEMMA OnOutboundsColumn ==
  ASSUME Core, NEW i, NEW statuses
  PROVE  OnOutbounds(i, statuses) = Column(outbounds, OfItem(i, statuses))
  BY OnOutboundsIs DEF Core, Rows, OnOutbounds

\* What completed outbound orders carry from a warehouse is too.
LEMMA LeftIs ==
  ASSUME Core, NEW r
  PROVE  SumFunction([n \in {n \in DOMAIN outbounds : /\ outbounds[n].status = "COMPLETED"
                                                      /\ outbounds[n].warehouse = r} |->
                        TotalQty(outbounds[n].lines)])
           = Column(outbounds, OfPlace(r))
  <1> DEFINE c == OfPlace(r)
             S == DOMAIN outbounds
             T == {n \in S : outbounds[n].status = "COMPLETED" /\ outbounds[n].warehouse = r}
             f == [n \in S |-> c[outbounds[n]]]
             g == [n \in T |-> TotalQty(outbounds[n].lines)]
  <1>1. IsFiniteSet(S) /\ T \in SUBSET S /\ \A n \in S : outbounds[n] \in Row
    BY RowNumbers DEF Core, Rows
  <1>2. /\ f \in [S -> Int] /\ g \in [T -> Int]
        /\ \A n \in T : f[n] = g[n]
        /\ \A n \in S \ T : f[n] = 0
    <2>1. \A n \in S : /\ TotalQty(outbounds[n].lines) \in Nat
                       /\ c[outbounds[n]] =
                            IF outbounds[n].status = "COMPLETED" /\ outbounds[n].warehouse = r
                            THEN TotalQty(outbounds[n].lines) ELSE 0
      BY <1>1, ColumnsAre, TotalType DEF Row
    <2> HIDE DEF c
    <2> QED
      BY <2>1
  <1>3. IsFiniteSet(S) /\ T \in SUBSET S
    BY <1>1
  <1> HIDE DEF S, T, f, g
  <1>4. SumFunction(f) = SumFunction(g)
    BY <1>2, <1>3, TermsWithin
  <1> QED
    BY <1>4 DEF f, g, S, T, Column

\* The total when an outbound order is given another status.
LEMMA ColumnRestated ==
  ASSUME Core, NEW n \in DOMAIN outbounds, NEW t, Restated(t, n), NEW c \in [Row -> Nat]
  PROVE  /\ Column(t, c) = Column(outbounds, c) + (c[t[n]] - c[outbounds[n]])
         /\ Column(t, c) \in Nat /\ Column(outbounds, c) \in Nat
         /\ c[t[n]] \in Nat /\ c[outbounds[n]] \in Nat
  <1>1. AreRows(outbounds, Row) /\ AreRows(t, Row) /\ RowChanged(outbounds, t, n) /\ IsColumn(c, Row)
    BY RowsOf DEF Core, Rows, Restated, IsColumn
  <1>2. c[t[n]] \in Nat /\ c[outbounds[n]] \in Nat
    BY <1>1 DEF AreRows, RowChanged
  <1> QED
    BY <1>1, <1>2, ColumnChanged, ColumnType

\* A column of the new outbound orders that all are zero in.
LEMMA ColumnBehind ==
  ASSUME NEW s \in Seq(Row), NEW t \in Seq(Row), DOMAIN s \subseteq DOMAIN t,
         \A n \in DOMAIN s : t[n] = s[n], NEW c \in [Row -> Nat],
         \A n \in DOMAIN t \ DOMAIN s : c[t[n]] = 0
  PROVE  Column(t, c) = Column(s, c)
  <1> DEFINE S == DOMAIN t
             T == DOMAIN s
             f == [n \in S |-> c[t[n]]]
             g == [n \in T |-> c[s[n]]]
  <1>1. IsFiniteSet(S) /\ T \in SUBSET S /\ (\A n \in S : t[n] \in Row) /\ (\A n \in T : s[n] \in Row)
    BY RowNumbers
  <1>2. /\ f \in [S -> Int] /\ g \in [T -> Int]
        /\ \A n \in T : f[n] = g[n]
        /\ \A n \in S \ T : f[n] = 0
    BY <1>1
  <1>3. IsFiniteSet(S) /\ T \in SUBSET S
    BY <1>1
  <1> HIDE DEF S, T, f, g
  <1>4. SumFunction(f) = SumFunction(g)
    BY <1>2, <1>3, TermsWithin
  <1> QED
    BY <1>4 DEF f, g, S, T, Column

-----------------------------------------------------------------------------
(* Goods leave once. *)

Shipped(i) == Column(outbounds, OfItem(i, {"COMPLETED"}))

Left(r) == Column(outbounds, OfPlace(r))

Leave ==
  /\ \A i \in Items : items[i].shipped = Shipped(i)
  /\ \A r \in Warehouses : opening[r] - stock[r].current = Left(r)

\* The outbound orders of its order have another status: they carry nothing.
LEMMA NoneIn ==
  ASSUME Core, NEW o \in Orders, NEW i \in ItemSet(o), NEW statuses,
         \A n \in DOMAIN outbounds : outbounds[n].order = o => outbounds[n].status \notin statuses
  PROVE  Column(outbounds, OfItem(i, statuses)) = 0
  <1> DEFINE c == OfItem(i, statuses)
             f == [n \in DOMAIN outbounds |-> c[outbounds[n]]]
  <1>1. ASSUME NEW n \in DOMAIN outbounds
        PROVE  f[n] = 0
    <2>1. outbounds[n] \in Row /\ Sane(outbounds[n])
      BY CoreTypes
    <2>2. CASE outbounds[n].order = o
      BY <2>1, <2>2, ColumnsAre
    <2>3. CASE outbounds[n].order # o
      <3>1. \A k \in DOMAIN outbounds[n].lines : outbounds[n].lines[k].item # i
        BY <2>1, <2>3, LinesAssumption DEF Sane
      <3>2. QtyIn(outbounds[n].lines, i) = 0
        BY <2>1, <3>1, QtyType DEF Row
      <3> QED
        BY <2>1, <3>2, ColumnsAre
    <2> QED
      BY <2>2, <2>3
  <1>2. IsFiniteSet(DOMAIN outbounds)
    BY RowNumbers DEF Core, Rows
  <1>3. f \in [DOMAIN outbounds -> Int]
    BY <1>1
  <1> HIDE DEF f
  <1>4. SumFunction(f) = 0
    BY <1>1, <1>2, <1>3, SumZero
  <1> QED
    BY <1>4 DEF f, Column

\* Nothing of a line was completed of which no outbound order is left.
LEMMA NoneShipped ==
  ASSUME Core, NEW o \in Orders, NEW i \in ItemSet(o), orders[o] = "NONE" \/ Unreferenced(o),
         NEW statuses, "DELETED" \notin statuses
  PROVE  Column(outbounds, OfItem(i, statuses)) = 0
  <1>1. \A n \in DOMAIN outbounds : outbounds[n].order = o => outbounds[n].status \notin statuses
    BY NoneOf
  <1> QED
    BY <1>1, NoneIn

\* Lines that are written afresh.
LEMMA FreshLeaves ==
  ASSUME Core, Leave, NEW o \in Orders, orders[o] = "NONE" \/ Unreferenced(o),
         items' = FreshItems(o), UNCHANGED <<outbounds, stock, opening>>
  PROVE  Leave'
  <1>1. ASSUME NEW i \in Items
        PROVE  items'[i].shipped = Shipped(i)
    <2>1. CASE i \in ItemSet(o)
      BY <2>1, FreshType, NoneShipped DEF Shipped
    <2>2. CASE i \notin ItemSet(o)
      BY <2>2, FreshType DEF Leave
    <2> QED
      BY <2>1, <2>2
  <1> QED
    BY <1>1 DEF Leave, Shipped, Left

\* A step that ships nothing and makes no outbound order.
LEMMA SameLeaves ==
  ASSUME Leave, \A i \in Items : items'[i].shipped = items[i].shipped,
         \A r \in Warehouses : stock'[r].current = stock[r].current,
         UNCHANGED <<outbounds, opening>>
  PROVE  Leave'
  BY DEF Leave, Shipped, Left

\* An outbound order moves between statuses other than COMPLETED.
LEMMA RestatedLeaves ==
  ASSUME Core, Leave, NEW n \in DOMAIN outbounds, Restated(outbounds', n),
         outbounds[n].status # "COMPLETED", outbounds'[n].status # "COMPLETED",
         UNCHANGED <<items, stock, opening>>
  PROVE  Leave'
  <1>1. outbounds[n] \in Row /\ outbounds'[n] \in Row
    BY CoreTypes, RowNumbers DEF Restated, RowChanged
  <1>2. ASSUME NEW c \in [Row -> Nat], c[outbounds[n]] = 0, c[outbounds'[n]] = 0
        PROVE  Column(outbounds', c) = Column(outbounds, c)
    <2>1. PICK t : t = outbounds'
      OBVIOUS
    <2>2. Column(t, c) = Column(outbounds, c) + (c[t[n]] - c[outbounds[n]]) /\ Column(outbounds, c) \in Nat
      BY <2>1, ColumnRestated
    <2> QED
      BY <1>2, <2>1, <2>2
  <1>3. ASSUME NEW i \in Items
        PROVE  Shipped(i)' = Shipped(i)
    <2>1. PICK c \in [Row -> Nat] : c = OfItem(i, {"COMPLETED"})
      BY ColumnsAre
    <2>2. c[outbounds[n]] = 0 /\ c[outbounds'[n]] = 0
      BY <1>1, <2>1, ColumnsAre
    <2> QED
      BY <1>2, <2>1, <2>2 DEF Shipped
  <1>4. ASSUME NEW r \in Warehouses
        PROVE  Left(r)' = Left(r)
    <2>1. PICK c \in [Row -> Nat] : c = OfPlace(r)
      BY ColumnsAre
    <2>2. c[outbounds[n]] = 0 /\ c[outbounds'[n]] = 0
      BY <1>1, <2>1, ColumnsAre
    <2> QED
      BY <1>2, <2>1, <2>2 DEF Left
  <1> QED
    BY <1>3, <1>4 DEF Leave

\* A new outbound order has shipped nothing.
LEMMA MadeLeaves ==
  ASSUME Core, Leave, NEW w \in Workers, CreateOutbound(w)
  PROVE  Leave'
  <1>1. /\ Core' /\ UNCHANGED <<items, stock, opening>>
        /\ DOMAIN outbounds \subseteq DOMAIN outbounds'
        /\ \A n \in DOMAIN outbounds : outbounds'[n] = outbounds[n]
        /\ \A n \in DOMAIN outbounds' \ DOMAIN outbounds :
             MadeOf(outbounds'[n], job[w].order, job[w].cart)
    BY CreateOutboundKeeps
  <1>2. PICK t : t = outbounds'
    OBVIOUS
  <1>3. outbounds \in Seq(Row) /\ t \in Seq(Row)
    BY <1>1, <1>2 DEF Core, Rows
  <1>4. \A n \in DOMAIN t \ DOMAIN outbounds : t[n] \in Row /\ t[n].status = "DRAFT"
    BY <1>1, <1>2, <1>3, RowNumbers DEF MadeOf
  <1>5. ASSUME NEW c \in [Row -> Nat], \A x \in Row : x.status = "DRAFT" => c[x] = 0
        PROVE  Column(outbounds', c) = Column(outbounds, c)
    BY <1>1, <1>2, <1>3, <1>4, <1>5, ColumnBehind
  <1>6. ASSUME NEW i \in Items
        PROVE  Shipped(i)' = Shipped(i)
    <2>1. PICK c \in [Row -> Nat] : c = OfItem(i, {"COMPLETED"})
      BY ColumnsAre
    <2>2. \A x \in Row : x.status = "DRAFT" => c[x] = 0
      BY <2>1, ColumnsAre
    <2> QED
      BY <1>5, <2>1, <2>2 DEF Shipped
  <1>7. ASSUME NEW r \in Warehouses
        PROVE  Left(r)' = Left(r)
    <2>1. PICK c \in [Row -> Nat] : c = OfPlace(r)
      BY ColumnsAre
    <2>2. \A x \in Row : x.status = "DRAFT" => c[x] = 0
      BY <2>1, ColumnsAre
    <2> QED
      BY <1>5, <2>1, <2>2 DEF Left
  <1> QED
    BY <1>1, <1>6, <1>7 DEF Leave

\* What is completed leaves.
LEMMA CommitLeaves ==
  ASSUME Core, DecidedAlone, Leave, NEW w \in Workers, Commits(w)
  PROVE  Leave'
  <1> DEFINE n == job[w].number
             x == outbounds[n]
  <1>1. /\ n \in DOMAIN outbounds /\ UNCHANGED opening
        /\ Restated(outbounds', n) /\ x.status = "APPROVED" /\ outbounds'[n].status = "COMPLETED"
        /\ \A r \in Warehouses \ {x.warehouse} : stock'[r] = stock[r]
        /\ stock'[x.warehouse] = ShipStock(stock[x.warehouse], TotalQty(x.lines))
        /\ \A i \in Items \ ItemsIn(x.lines) : items'[i] = items[i]
        /\ \A i \in ItemsIn(x.lines) : items'[i] = Moved(items[i], QtyIn(x.lines, i))
    BY CommitOutboundKeeps DEF Ships
  <1>2. x \in Row /\ Sane(x) /\ x.lines \in LineTables /\ x.warehouse \in Warehouses
    BY <1>1, CoreTypes DEF Row
  <1>3. PICK y : y = outbounds'[n]
    OBVIOUS
  <1>4. /\ y \in Row /\ y.status = "COMPLETED" /\ y.lines = x.lines /\ y.warehouse = x.warehouse
    BY <1>1, <1>3, RowNumbers DEF Restated, RowChanged
  <1>5. ASSUME NEW c \in [Row -> Nat]
        PROVE  /\ Column(outbounds', c) = Column(outbounds, c) + (c[y] - c[x])
               /\ Column(outbounds, c) \in Nat
    <2>1. PICK t : t = outbounds'
      OBVIOUS
    <2>2. Restated(t, n) /\ t[n] = y /\ n \in DOMAIN outbounds
      BY <1>1, <1>3, <2>1
    <2>3. /\ Column(t, c) = Column(outbounds, c) + (c[t[n]] - c[outbounds[n]])
          /\ Column(outbounds, c) \in Nat
      <3> HIDE DEF n
      <3> QED
        BY <2>2, ColumnRestated
    <2> QED
      BY <2>1, <2>2, <2>3
  <1> HIDE DEF n, x
  <1>6. ASSUME NEW i \in Items
        PROVE  items'[i].shipped = Shipped(i)'
    <2>1. PICK c \in [Row -> Nat] : c = OfItem(i, {"COMPLETED"})
      BY ColumnsAre
    <2>2. c[x] = 0 /\ c[y] = QtyIn(x.lines, i)
      BY <1>1, <1>2, <1>4, <2>1, ColumnsAre
    <2>3. QtyIn(x.lines, i) \in Nat /\ items[i] \in Progress
      BY <1>2, QtyType DEF Core, Tables
    <2>4. items'[i].shipped = items[i].shipped + QtyIn(x.lines, i)
      <3>1. CASE i \in ItemsIn(x.lines)
        BY <1>1, <2>3, <3>1, MovedType
      <3>2. CASE i \notin ItemsIn(x.lines)
        <4>1. QtyIn(x.lines, i) = 0
          BY <1>2, <3>2, QtyType, ItemsInType
        <4> QED
          BY <1>1, <2>3, <3>2, <4>1 DEF Progress
      <3> QED
        BY <3>1, <3>2
    <2>5. items[i].shipped = Column(outbounds, c) /\ Shipped(i)' = Column(outbounds', c)
      BY <2>1 DEF Leave, Shipped
    <2>6. Column(outbounds', c) = Column(outbounds, c) + (c[y] - c[x]) /\ Column(outbounds, c) \in Nat
      BY <1>5
    <2> QED
      BY <2>2, <2>3, <2>4, <2>5, <2>6
  <1>7. ASSUME NEW r \in Warehouses
        PROVE  opening'[r] - stock'[r].current = Left(r)'
    <2>1. PICK c \in [Row -> Nat] : c = OfPlace(r)
      BY ColumnsAre
    <2>2. c[x] = 0 /\ c[y] = IF x.warehouse = r THEN TotalQty(x.lines) ELSE 0
      BY <1>1, <1>2, <1>4, <2>1, ColumnsAre
    <2>3. TotalQty(x.lines) \in Nat /\ stock[r].current \in Int /\ opening[r] \in Int
      BY <1>2, TotalType, LinesAssumption DEF Core, Tables, Positions
    <2>4. stock'[r].current = IF x.warehouse = r THEN stock[r].current - TotalQty(x.lines)
                                                 ELSE stock[r].current
      <3>1. stock[r] \in Positions /\ TotalQty(x.lines) \in Int
        BY <2>3 DEF Core, Tables
      <3> QED
        BY <1>1, <3>1, PositionsKept
    <2>5. opening[r] - stock[r].current = Column(outbounds, c) /\ Left(r)' = Column(outbounds', c)
      BY <2>1 DEF Leave, Left
    <2>6. Column(outbounds', c) = Column(outbounds, c) + (c[y] - c[x]) /\ Column(outbounds, c) \in Nat
      BY <1>5
    <2>7. opening' = opening
      BY <1>1
    <2> QED
      BY <2>2, <2>3, <2>4, <2>5, <2>6, <2>7
  <1> QED
    BY <1>6, <1>7 DEF Leave

\* At the start nothing has left.
LEMMA InitLeave == Init => Leave
  <1> SUFFICES ASSUME Init PROVE Leave
    OBVIOUS
  <1>1. /\ outbounds = << >> /\ opening \in [Warehouses -> Nat]
        /\ \A i \in Items : items[i].shipped = 0
        /\ \A r \in Warehouses : stock[r].current = opening[r]
    BY LinesAssumption DEF Init, NoPosition
  <1>2. DOMAIN outbounds = {}
    BY <1>1
  <1> QED
    BY <1>1, <1>2, ColumnEmpty DEF Leave, Shipped, Left

\* Goods leave once, whatever step is taken.
LEMMA LeaveKept ==
  ASSUME Core, FromOrders, DecidedAlone, CompletedStay, Leave, [Next]_vars
  PROVE  Leave'
  <1>1. CASE UNCHANGED vars
    BY <1>1 DEF vars, given, Leave, Shipped, Left
  <1>2. CASE Next
    <2>1. PICK w \in Workers : Reads(w) \/ WritesOrder(w) \/ Destroys(w) \/ WritesOutbounds(w)
      BY <1>2, NextIs
    <2>2. CASE Reads(w)
      BY <2>2, ReadsKeep, SameLeaves DEF Quiet, given
    <2>3. CASE CreateOrder(w)
      BY <2>3, CreateOrderKeeps, FreshLeaves
    <2>4. CASE UpdateOrder(w)
      BY <2>4, UpdateOrderKeeps, FreshLeaves, SameLeaves
    <2>5. CASE WritesStatus(w)
      BY <2>5, StatusWritten, SameLeaves DEF WritesStatus
    <2>6. CASE AllocateStock(w)
      BY <2>6, AllocateStockKeeps, SameLeaves
    <2>7. CASE CancelOrder(w)
      BY <2>7, CancelOrderKeeps, SameLeaves
    <2>8. ASSUME NEW o \in Orders, DestroyOrder(w, o)
          PROVE  Leave'
      BY <2>8, DestroyOrderKeeps, FreshLeaves
    <2>9. ASSUME NEW n \in DOMAIN outbounds, DestroyOutbound(w, n)
          PROVE  Leave'
      BY <2>9, DestroyOutboundKeeps, RestatedLeaves
    <2>10. ASSUME NEW kind \in StatusRequests, MoveOutbound(w, kind)
           PROVE  Leave'
      BY <2>10, MoveOutboundKeeps, RestatedLeaves DEF Open
    <2> QED
      BY <2>1, <2>2, <2>3, <2>4, <2>5, <2>6, <2>7, <2>8, <2>9, <2>10, MadeLeaves, CommitLeaves
         DEF WritesOrder, Destroys, WritesOutbounds
  <1> QED
    BY <1>1, <1>2

(***************************************************************************)
(* Goods leave once: what was shipped of every order line, and what left   *)
(* every warehouse, is what the completed outbound orders carry, however   *)
(* the requests for orders and outbound orders overlap and whatever else   *)
(* is deleted (complete_order, create_outbound_order).                     *)
(***************************************************************************)
THEOREM GoodsLeave ==
  ASSUME FromOrders, DecidedAlone, CompletedStay
  PROVE  Spec => []GoodsLeaveOnce
  <1>1. Init => Core /\ Leave
    BY InitCore, InitLeave
  <1>2. Core /\ Leave /\ [Next]_vars => (Core /\ Leave)'
    BY CoreKept, LeaveKept
  <1>3. Core /\ Leave => GoodsLeaveOnce
    BY OnOutboundsColumn, LeftIs
       DEF GoodsLeaveOnce, ShippedOnce, StockLeftOnce, Leave, Shipped, Left
  <1> QED
    BY <1>1, <1>2, <1>3, PTL DEF Spec

(***************************************************************************)
(* Every variable keeps its type, and a request under way is of a kind     *)
(* that arrives and about orders and outbound orders that exist.           *)
(***************************************************************************)
THEOREM Types ==
  ASSUME FromOrders, DecidedAlone
  PROVE  Spec => []TypeOK
  <1>1. ASSUME Core
        PROVE  TypeOK
    <2>1. \A n \in DOMAIN outbounds :
             /\ outbounds[n].status \in OutboundStatus
             /\ outbounds[n].order \in Orders \cup {NoOrder}
             /\ outbounds[n].warehouse \in Warehouses
             /\ \A k \in DOMAIN outbounds[n].lines : outbounds[n].lines[k] \in Lines
             /\ outbounds[n].billed \in BOOLEAN
      BY <1>1, CoreTypes, LineTable DEF Row
    <2>2. \A w \in Workers : /\ job[w].kind \in requests \cup {"idle"}
                             /\ job[w].order \in Orders \cup {NoOrder}
                             /\ job[w].number \in {0} \cup DOMAIN outbounds
      BY <1>1, JobOf DEF Serves, Job
    <2> QED
      BY <1>1, <2>1, <2>2, CoreTypes DEF TypeOK, Core, Tables
  <1> QED
    BY <1>1, CoreHolds, PTL

\* Outbound orders move along the transitions.
LEMMA LifeStep ==
  ASSUME Core, FromOrders, DecidedAlone, CompletedStay, Next, NEW n \in DOMAIN outbounds
  PROVE  \/ outbounds'[n].status \in Transitions[outbounds[n].status] \cup {outbounds[n].status}
         \/ outbounds[n].status # "COMPLETED" /\ outbounds'[n].status = "DELETED"
  <1>1. PICK w \in Workers : Reads(w) \/ WritesOrder(w) \/ Destroys(w) \/ WritesOutbounds(w)
    BY NextIs
  <1>2. CASE Reads(w)
    BY <1>2, ReadsKeep DEF Quiet
  <1>3. CASE WritesOrder(w)
    BY <1>3, CreateOrderKeeps, UpdateOrderKeeps, StatusWritten, AllocateStockKeeps,
       CancelOrderKeeps DEF WritesOrder, WritesStatus
  <1>4. CASE Destroys(w)
    <2>1. ASSUME NEW m \in DOMAIN outbounds, DestroyOutbound(w, m)
          PROVE  outbounds'[n] = outbounds[n] \/ (n = m /\ outbounds[n].status # "COMPLETED"
                                                   /\ outbounds'[n].status = "DELETED")
      BY <2>1, DestroyOutboundKeeps, RowsRestated
    <2> QED
      BY <1>4, <2>1, DestroyOrderKeeps DEF Destroys
  <1>5. CASE CreateOutbound(w)
    BY <1>5, CreateOutboundKeeps
  <1>6. CASE Commits(w)
    <2>1. \/ outbounds'[n] = outbounds[n]
          \/ outbounds[n].status = "APPROVED" /\ outbounds'[n].status = "COMPLETED"
      BY <1>6, CommitOutboundKeeps, RowsRestated DEF Ships
    <2> QED
      BY <2>1 DEF Transitions
  <1>7. ASSUME NEW kind \in StatusRequests, MoveOutbound(w, kind)
        PROVE  outbounds'[n].status \in Transitions[outbounds[n].status] \cup {outbounds[n].status}
    <2>1. \/ outbounds'[n] = outbounds[n]
          \/ /\ outbounds[n].status = "DRAFT" /\ outbounds'[n].status = "PENDING"
          \/ /\ outbounds[n].status = "PENDING" /\ outbounds'[n].status \in {"PENDING", "APPROVED"}
          \/ /\ outbounds[n].status \in Open /\ outbounds'[n].status = "CANCELLED"
      BY <1>7, MoveOutboundKeeps, RowsRestated
    <2> QED
      BY <2>1 DEF Transitions, Open
  <1> QED
    BY <1>1, <1>2, <1>3, <1>4, <1>5, <1>6, <1>7 DEF WritesOutbounds

(***************************************************************************)
(* STATUS_TRANSITIONS is kept: no step, of whichever request and however   *)
(* stale what it read, takes an outbound order out of COMPLETED or         *)
(* CANCELLED; only what is not completed is deleted.                       *)
(***************************************************************************)
THEOREM OutboundLife ==
  ASSUME FromOrders, DecidedAlone, CompletedStay
  PROVE  Spec => OutboundLifecycle
  <1>1. Core /\ [Next]_vars =>
          [\A n \in DOMAIN outbounds :
             \/ outbounds'[n].status \in Transitions[outbounds[n].status] \cup {outbounds[n].status}
             \/ outbounds[n].status # "COMPLETED" /\ outbounds'[n].status = "DELETED"]_vars
    BY LifeStep
  <1> QED
    BY <1>1, CoreHolds, PTL DEF Spec, OutboundLifecycle

-----------------------------------------------------------------------------
(***************************************************************************)
(* The second part: stock is never promised twice.  What is served alone   *)
(* decides what may be ordered, reserved and requested; the requests of    *)
(* Harmless overlap; no order is deleted, and no list of lines names an    *)
(* order line twice.                                                       *)
(***************************************************************************)
Harmless == {"submit", "approve", "reject", "close", "submit_outbound", "complete"}

HarmlessOverlap == Racing \subseteq Harmless

OrdersStay == \A M \in Mixes : "destroy" \notin M

LinesNamedOnce ==
  \A cart \in Carts : \A k, l \in DOMAIN cart : cart[k].item = cart[l].item => k = l

-----------------------------------------------------------------------------
(* What the order lines come to. *)

\* Of a quantity of every order line, what is on a warehouse.
Of(d, r) == SumFunction([i \in Items |-> IF RowOf[i] = r THEN d[i] ELSE 0])

\* What a quantity comes to on a warehouse is a number.
LEMMA OfType ==
  ASSUME NEW D \in {Nat, Int}, NEW d \in [Items -> D], NEW r
  PROVE  Of(d, r) \in D
  <1> DEFINE f == [i \in Items |-> IF RowOf[i] = r THEN d[i] ELSE 0]
  <1>1. f \in [Items -> D]
    OBVIOUS
  <1>2. IsFiniteSet(Items)
    BY LinesAssumption
  <1> HIDE DEF f
  <1>3. SumFunction(f) \in D
    BY <1>1, <1>2, SumType
  <1> QED
    BY <1>3 DEF f, Of

\* The sum of two quantities comes to the sum.
LEMMA OfPlus ==
  ASSUME NEW d \in [Items -> Int], NEW e \in [Items -> Int], NEW h \in [Items -> Int], NEW r,
         \A i \in Items : RowOf[i] = r => h[i] = d[i] + e[i]
  PROVE  Of(h, r) = Of(d, r) + Of(e, r)
  <1> DEFINE F(k) == [i \in Items |-> IF RowOf[i] = r THEN k[i] ELSE 0]
  <1>1. PICK a, b, c : a = F(d) /\ b = F(e) /\ c = F(h)
    OBVIOUS
  <1>2. /\ a \in [Items -> Int] /\ b \in [Items -> Int] /\ c \in [Items -> Int]
        /\ \A i \in Items : c[i] = a[i] + b[i]
    BY <1>1
  <1>3. IsFiniteSet(Items)
    BY LinesAssumption
  <1>4. SumFunction(c) = SumFunction(a) + SumFunction(b)
    BY <1>2, <1>3, SumPlus
  <1> QED
    BY <1>1, <1>4 DEF Of

\* More of every line is more on the warehouse.
LEMMA OfMonotone ==
  ASSUME NEW d \in [Items -> Int], NEW e \in [Items -> Int], NEW r,
         \A i \in Items : RowOf[i] = r => d[i] <= e[i]
  PROVE  Of(d, r) <= Of(e, r)
  <1> DEFINE F(k) == [i \in Items |-> IF RowOf[i] = r THEN k[i] ELSE 0]
  <1>1. PICK a, b : a = F(d) /\ b = F(e)
    OBVIOUS
  <1>2. /\ a \in [Items -> Int] /\ b \in [Items -> Int]
        /\ \A i \in Items : a[i] <= b[i]
    BY <1>1
  <1>3. IsFiniteSet(Items)
    BY LinesAssumption
  <1>4. SumFunction(a) <= SumFunction(b)
    BY <1>2, <1>3, SumMonotone
  <1> QED
    BY <1>1, <1>4 DEF Of

\* What some of the lines of a warehouse come to.
LEMMA OfPart ==
  ASSUME NEW d \in [Items -> Int], NEW r, NEW S \in SUBSET Items,
         \A i \in Items \ S : RowOf[i] = r => d[i] = 0, NEW h,
         h = [i \in {i \in S : RowOf[i] = r} |-> d[i]]
  PROVE  SumFunction(h) = Of(d, r)
  <1> DEFINE T == {i \in S : RowOf[i] = r}
             f == [i \in Items |-> IF RowOf[i] = r THEN d[i] ELSE 0]
  <1>1. /\ T \in SUBSET Items /\ f \in [Items -> Int] /\ h \in [T -> Int]
        /\ \A i \in T : f[i] = h[i]
        /\ \A i \in Items \ T : f[i] = 0
    OBVIOUS
  <1>2. IsFiniteSet(Items)
    BY LinesAssumption
  <1> HIDE DEF f, T
  <1>3. SumFunction(f) = SumFunction(h)
    BY <1>1, <1>2, TermsWithin
  <1> QED
    BY <1>3 DEF f, Of

\* A quantity on the lines of an order, and on no other.
OnlyOf(o, f) == [i \in Items |-> IF i \in ItemSet(o) THEN f[i] ELSE 0]

\* What the lines of one order come to on a warehouse.
LEMMA OnRowIs ==
  ASSUME NEW o \in Orders, NEW r, NEW f, \A i \in ItemSet(o) : f[i] \in Int
  PROVE  OnlyOf(o, f) \in [Items -> Int] /\ OnRow(o, r, f) = Of(OnlyOf(o, f), r)
  <1> DEFINE S == ItemSet(o)
             d == OnlyOf(o, f)
             h == [i \in {i \in S : RowOf[i] = r} |-> f[i]]
  <1>1. S \in SUBSET Items
    BY OrderItems
  <1>2. d \in [Items -> Int] /\ (\A i \in S : d[i] = f[i]) /\ \A i \in Items \ S : d[i] = 0
    BY <1>1 DEF OnlyOf
  <1>3. h = [i \in {i \in S : RowOf[i] = r} |-> d[i]]
    BY <1>2
  <1>4. PICK k : k = h
    OBVIOUS
  <1> HIDE DEF d, S
  <1>5. SumFunction(k) = Of(d, r)
    BY <1>1, <1>2, <1>3, <1>4, OfPart
  <1> QED
    BY <1>2, <1>4, <1>5 DEF OnRow, S, d

\* The lines of an outbound order, line by line of the order.
Carried(t) == [i \in Items |-> QtyIn(t, i)]

\* What an outbound order carries, by order line, is on its warehouse.
LEMMA CarriedIs ==
  ASSUME NEW x \in Row, Sane(x), NEW r
  PROVE  /\ Carried(x.lines) \in [Items -> Nat]
         /\ Of(Carried(x.lines), r) = IF r = x.warehouse THEN TotalQty(x.lines) ELSE 0
  <1> DEFINE t == x.lines
             D == DOMAIN t
             g == Carried(t)
             q == [k \in D |-> t[k].qty]
             kind == [k \in D |-> t[k].item]
  <1>1. t \in LineTables /\ IsFiniteSet(D) /\ IsFiniteSet(Items)
    BY LineTable, LinesAssumption DEF Row
  <1>2. \A k \in D : t[k].item \in Items /\ RowOf[t[k].item] = x.warehouse /\ t[k].qty \in Nat
    BY <1>1, LineTable, ItemsInType DEF Sane
  <1>3. /\ g \in [Items -> Nat] /\ g \in [Items -> Int] /\ q \in [D -> Int] /\ kind \in [D -> Items]
    BY <1>1, <1>2, QtyType DEF Carried
  <1>4. \A i \in Items : g[i] = SumFunction([k \in {k \in D : kind[k] = i} |-> q[k]])
    <2> SUFFICES ASSUME NEW i \in Items
                 PROVE  g[i] = SumFunction([k \in {k \in D : kind[k] = i} |-> q[k]])
      OBVIOUS
    <2>1. [k \in {k \in D : kind[k] = i} |-> q[k]] = [k \in {k \in D : t[k].item = i} |-> t[k].qty]
      OBVIOUS
    <2> QED
      BY <2>1 DEF Carried, QtyIn
  <1>5. \A i \in Items : RowOf[i] # x.warehouse => g[i] = 0
    <2> SUFFICES ASSUME NEW i \in Items, RowOf[i] # x.warehouse PROVE g[i] = 0
      OBVIOUS
    <2>1. \A k \in D : t[k].item # i
      BY <1>2
    <2> QED
      BY <1>1, <2>1, QtyType DEF Carried
  <1>6. TotalQty(t) = SumFunction(q)
    BY DEF TotalQty
  <1> HIDE DEF g, q, kind, D, t
  <1>7. SumFunction(q) = SumFunction(g)
    BY <1>1, <1>3, <1>4, SumGrouped
  <1>8. CASE r = x.warehouse
    <2> DEFINE f == [i \in Items |-> IF RowOf[i] = r THEN g[i] ELSE 0]
    <2>1. f = g
      BY <1>3, <1>5, <1>8
    <2> QED
      BY <1>3, <1>6, <1>7, <1>8, <2>1 DEF Of, g, t
  <1>9. CASE r # x.warehouse
    <2> DEFINE f == [i \in Items |-> IF RowOf[i] = r THEN g[i] ELSE 0]
    <2>1. f \in [Items -> Int] /\ \A i \in Items : f[i] = 0
      BY <1>3, <1>5, <1>9
    <2> HIDE DEF f
    <2>2. SumFunction(f) = 0
      BY <1>1, <2>1, SumZero
    <2> QED
      BY <1>3, <1>9, <2>2 DEF Of, f, g, t
  <1> QED
    BY <1>8, <1>9

-----------------------------------------------------------------------------
(* What is promised. *)

\* What is still to be shipped of the orders in S, by the order lines t.
Outstanding(t, S) ==
  [i \in Items |-> IF \E o \in S : i \in ItemSet(o) THEN Quantity[i] - t[i].shipped ELSE 0]

Owed(t, S, r) == Of(Outstanding(t, S), r)

OutstandingOrders == {o \in Orders : orders[o] \in OpenCommitment}

\* The orders that are open, or may become so again by a request under way.
Pledged ==
  {o \in Orders : \/ orders[o] \in OpenCommitment
                  \/ \E w \in Workers : job[w].kind \in {"submit", "approve"} /\ job[w].order = o}

\* What is still to ship of every line is a number.
LEMMA OutstandingType ==
  ASSUME NEW t \in [Items -> Progress], NEW S
  PROVE  Outstanding(t, S) \in [Items -> Int]
  BY LinesAssumption DEF Outstanding, Progress

\* More orders are owed more, since no line is shipped beyond what was ordered.
LEMMA OwedMonotone ==
  ASSUME NEW t \in [Items -> Progress], \A i \in Items : t[i].shipped <= Quantity[i],
         NEW S, NEW T, S \subseteq T, NEW r
  PROVE  Owed(t, S, r) <= Owed(t, T, r)
  <1>1. \A i \in Items : Outstanding(t, S)[i] <= Outstanding(t, T)[i]
    BY LinesAssumption DEF Outstanding, Progress
  <1>2. Outstanding(t, S) \in [Items -> Int] /\ Outstanding(t, T) \in [Items -> Int]
    BY OutstandingType
  <1> QED
    BY <1>1, <1>2, OfMonotone DEF Owed

\* What is owed depends on what was shipped, not on what is allocated.
LEMMA OwedSame ==
  ASSUME NEW t, NEW u, \A i \in Items : u[i].shipped = t[i].shipped, NEW S, NEW r
  PROVE  Owed(u, S, r) = Owed(t, S, r)
  <1>1. Outstanding(u, S) = Outstanding(t, S)
    BY DEF Outstanding
  <1> QED
    BY <1>1 DEF Owed

\* What is shipped is not owed any more.
LEMMA OwedLess ==
  ASSUME NEW t \in [Items -> Progress], NEW u \in [Items -> Progress], NEW d \in [Items -> Int],
         \A i \in Items : u[i].shipped = t[i].shipped + d[i], NEW S,
         \A i \in Items : d[i] # 0 => \E o \in S : i \in ItemSet(o), NEW r
  PROVE  Owed(t, S, r) = Owed(u, S, r) + Of(d, r)
  <1>1. \A i \in Items : Outstanding(t, S)[i] = Outstanding(u, S)[i] + d[i]
    BY LinesAssumption DEF Outstanding, Progress
  <1>2. Outstanding(t, S) \in [Items -> Int] /\ Outstanding(u, S) \in [Items -> Int]
    BY OutstandingType
  <1> QED
    BY <1>1, <1>2, OfPlus DEF Owed

\* An order more that has not shipped anything.
LEMMA OwedMore ==
  ASSUME NEW t \in [Items -> Progress], NEW S \in SUBSET Orders, NEW o \in Orders \ S, NEW r,
         \A i \in ItemSet(o) : t[i].shipped = 0
  PROVE  Owed(t, S \cup {o}, r) = Owed(t, S, r) + OnRow(o, r, Quantity)
  <1> DEFINE e == OnlyOf(o, Quantity)
  <1>1. e \in [Items -> Int] /\ OnRow(o, r, Quantity) = Of(e, r)
    <2>1. \A i \in ItemSet(o) : Quantity[i] \in Int
      BY LinesAssumption, OrderItems
    <2> QED
      BY <2>1, OnRowIs
  <1>2. \A i \in Items : Outstanding(t, S \cup {o})[i] = Outstanding(t, S)[i] + e[i]
    <2> SUFFICES ASSUME NEW i \in Items
                 PROVE  Outstanding(t, S \cup {o})[i] = Outstanding(t, S)[i] + e[i]
      OBVIOUS
    <2>1. Quantity[i] \in Int /\ t[i].shipped \in Int
      BY LinesAssumption DEF Progress
    <2>2. CASE i \in ItemSet(o)
      <3>1. ~ \E p \in S : i \in ItemSet(p)
        BY <2>2, LinesAssumption
      <3> QED
        BY <2>1, <2>2, <3>1 DEF Outstanding, OnlyOf
    <2>3. CASE i \notin ItemSet(o)
      BY <2>1, <2>3 DEF Outstanding, OnlyOf
    <2> QED
      BY <2>2, <2>3
  <1>3. Outstanding(t, S) \in [Items -> Int] /\ Outstanding(t, S \cup {o}) \in [Items -> Int]
    BY OutstandingType
  <1>4. PICK a, b : a = Outstanding(t, S) /\ b = Outstanding(t, S \cup {o})
    OBVIOUS
  <1> HIDE DEF e
  <1>5. Of(b, r) = Of(a, r) + Of(e, r)
    <2>1. /\ a \in [Items -> Int] /\ b \in [Items -> Int] /\ e \in [Items -> Int]
          /\ \A i \in Items : b[i] = a[i] + e[i]
      BY <1>1, <1>2, <1>3, <1>4
    <2> QED
      BY <2>1, OfPlus
  <1> QED
    BY <1>1, <1>4, <1>5 DEF Owed

\* get_open_sales_commitment_quantity is what the open orders have outstanding.
LEMMA CommitmentIs ==
  ASSUME items \in [Items -> Progress], NEW o, NEW r
  PROVE  Commitment(r, o) = Owed(items, OutstandingOrders \ {o}, r)
  <1> DEFINE P == OutstandingOrders \ {o}
             S == UNION {ItemSet(p) : p \in P}
             d == Outstanding(items, P)
             h == [i \in {i \in S : RowOf[i] = r} |-> Quantity[i] - items[i].shipped]
  <1>1. P = {p \in Orders \ {o} : orders[p] \in OpenCommitment}
    BY DEF OutstandingOrders
  <1>2. S \in SUBSET Items
    BY OrderItems DEF OutstandingOrders
  <1>3. d \in [Items -> Int]
    BY OutstandingType
  <1>4. \A i \in S : d[i] = Quantity[i] - items[i].shipped
    BY <1>2 DEF Outstanding
  <1>5. \A i \in Items \ S : d[i] = 0
    BY DEF Outstanding
  <1>6. h = [i \in {i \in S : RowOf[i] = r} |-> d[i]]
    BY <1>4
  <1>7. Commitment(r, o) = SumFunction(h)
    BY <1>1 DEF Commitment
  <1>8. PICK k : k = h
    OBVIOUS
  <1> HIDE DEF d, S, P
  <1>9. SumFunction(k) = Of(d, r)
    BY <1>2, <1>3, <1>5, <1>6, <1>8, OfPart
  <1> QED
    BY <1>7, <1>8, <1>9 DEF Owed, d, P

-----------------------------------------------------------------------------
(* The invariant of the second part. *)

\* Orders that have not reserved anything yet.
Before == {"NONE", "DRAFT", "PENDING_APPROVAL", "APPROVED", "REJECTED"}

\* What is requested of a line is allocated, and the line is not exceeded.
Fit ==
  \A i \in Items : /\ Column(outbounds, OfItem(i, Open)) <= items[i].allocated
                   /\ items[i].shipped + items[i].allocated <= Quantity[i]

\* The status of an order tells what its lines hold.
Held ==
  \A o \in Orders : \A i \in ItemSet(o) :
    /\ orders[o] \in Locking => items[i].allocated = Quantity[i] - items[i].shipped
    /\ orders[o] \notin Locking => items[i].allocated = 0
    /\ orders[o] \in Before => items[i].shipped = 0

Filled == \A n \in DOMAIN outbounds : DOMAIN outbounds[n].lines # {}

Allocated(t) == [i \in Items |-> t[i].allocated]

Backed == \A r \in Warehouses : stock[r].locked = Of(Allocated(items), r)

Promised == \A r \in Warehouses : Owed(items, Pledged, r) <= stock[r].current

InStock == [r \in Warehouses |-> stock[r].current]

\* What the order asks of a warehouse is there beside what is owed to those in S.
RoomFor(o, t, S, onHand) ==
  \A r \in Warehouses :
    OnRow(o, r, Quantity) > 0 => OnRow(o, r, Quantity) + Owed(t, S \ {o}, r) <= onHand[r]

\* What has been read by a request that waits for nobody is still so.
KnowsAlone(w) ==
  /\ job[w].kind = "update" => orders[job[w].order] \in {"DRAFT", "REJECTED"}
  /\ job[w].kind = "allocate" => orders[job[w].order] = "APPROVED"
  /\ job[w].kind \in {"create", "update"} /\ job[w].phase = "read" => job[w].onHand = InStock
  /\ job[w].kind \in {"create", "update"} /\ job[w].phase = "checked" =>
       RoomFor(job[w].order, items, OutstandingOrders, InStock)
  /\ job[w].kind = "create_outbound" =>
       /\ orders[job[w].order] \in Locking
       /\ \A k \in DOMAIN job[w].cart :
            job[w].items[job[w].cart[k].item].shipped = items[job[w].cart[k].item].shipped
  /\ job[w].kind = "create_outbound" /\ job[w].phase = "checked" =>
       \A k \in DOMAIN job[w].cart :
         /\ items[job[w].cart[k].item].shipped + job[w].cart[k].qty
              + Column(outbounds, OfItem(job[w].cart[k].item, Open))
              <= Quantity[job[w].cart[k].item]
  /\ job[w].kind = "cancel" =>
       orders[job[w].order] = job[w].seen /\ job[w].seen \in Before \cup Locking
  /\ job[w].kind = "cancel" /\ job[w].phase = "checked" =>
       /\ job[w].items = items
       /\ job[w].seen \in Locking =>
            \A n \in DOMAIN outbounds :
              outbounds[n].order = job[w].order => outbounds[n].status \notin Open

\* What is left of it when others are served meanwhile.
KnowsRacing(w) ==
  /\ job[w].kind \in {"submit", "approve", "reject"} => orders[job[w].order] \in Before
  /\ job[w].kind = "close" => orders[job[w].order] \in {"SHIPPED", "CLOSED"}
  /\ job[w].kind = "complete" /\ job[w].phase = "counted" /\ job[w].seen = "SHIPPED" =>
       \A i \in ItemSet(job[w].order) : SeenItem(w, i).shipped >= Quantity[i]

Knows(w) == KnowsAlone(w) /\ KnowsRacing(w)

Known == \A w \in Workers : Knows(w)

Sure == Fit /\ Held /\ Filled /\ Backed /\ Promised /\ Known

Whole == Core /\ Sure

-----------------------------------------------------------------------------
(* The start, and what the others know. *)

\* Nothing of any line is nothing on the warehouse.
LEMMA OfZero ==
  ASSUME NEW d, \A i \in Items : d[i] = 0, NEW r
  PROVE  Of(d, r) = 0
  <1> DEFINE f == [i \in Items |-> IF RowOf[i] = r THEN d[i] ELSE 0]
  <1>1. f \in [Items -> Int] /\ \A i \in Items : f[i] = 0
    OBVIOUS
  <1>2. IsFiniteSet(Items)
    BY LinesAssumption
  <1> HIDE DEF f
  <1>3. SumFunction(f) = 0
    BY <1>1, <1>2, SumZero
  <1> QED
    BY <1>3 DEF Of, f

\* At the start no order is there and nothing is reserved.
LEMMA InitSure == Init => Sure
  <1> SUFFICES ASSUME Init PROVE Sure
    OBVIOUS
  <1>1. /\ \A o \in Orders : orders[o] = "NONE"
        /\ \A i \in Items : items[i].shipped = 0 /\ items[i].allocated = 0
        /\ outbounds = << >> /\ opening \in [Warehouses -> Nat]
        /\ \A r \in Warehouses : stock[r].current = opening[r] /\ stock[r].locked = 0
        /\ \A w \in Workers : job[w] = Idle
    BY LinesAssumption DEF Init, NoPosition
  <1>2. DOMAIN outbounds = {}
    BY <1>1
  <1>3. Fit
    BY <1>1, <1>2, LinesAssumption, ColumnEmpty DEF Fit
  <1>4. Held
    BY <1>1, OrderItems DEF Held, Locking
  <1>5. Filled
    BY <1>2 DEF Filled
  <1>6. Backed
    <2>1. \A i \in Items : Allocated(items)[i] = 0
      BY <1>1 DEF Allocated
    <2> QED
      BY <1>1, <2>1, OfZero DEF Backed
  <1>7. Promised
    <2>1. Pledged = {}
      BY <1>1, IdleIs DEF Pledged, OpenCommitment
    <2>2. \A i \in Items : Outstanding(items, Pledged)[i] = 0
      BY <2>1 DEF Outstanding
    <2>3. \A r \in Warehouses : Owed(items, Pledged, r) = 0
      BY <2>2, OfZero DEF Owed
    <2> QED
      BY <1>1, <2>3 DEF Promised
  <1>8. Known
    BY <1>1, IdleIs DEF Known, Knows, KnowsAlone, KnowsRacing
  <1> QED
    BY <1>3, <1>4, <1>5, <1>6, <1>7, <1>8 DEF Sure

\* The worker begins a request, or is serving one.
Acts(w) == job[w] # Idle \/ \E kind : MayStart(w, kind)

\* Beside the worker that acts only what may overlap is under way.
LEMMA OthersAre ==
  ASSUME Core, HarmlessOverlap, NEW w \in Workers, Acts(w), NEW v \in Workers \ {w}
  PROVE  job[v].kind \in {"idle"} \cup Harmless
  <1>1. CASE job[w] # Idle
    <2>1. Apart(v, w)
      BY DEF Core, Serving
    <2> QED
      BY <1>1, <2>1, IdleIs DEF Apart, HarmlessOverlap
  <1>2. CASE \E kind : MayStart(w, kind)
    BY <1>2, IdleIs DEF MayStart, HarmlessOverlap
  <1> QED
    BY <1>1, <1>2 DEF Acts

\* Who serves nobody knows nothing.
LEMMA IdleKnows ==
  ASSUME NEW w \in Workers, job'[w] = Idle
  PROVE  Knows(w)'
  BY IdleIs DEF Knows, KnowsAlone, KnowsRacing

\* What others know is still so.
LEMMA OthersKnow ==
  ASSUME Core, HarmlessOverlap, NEW w \in Workers, Acts(w), NEW v \in Workers \ {w},
         job'[v] = job[v],
         job[v].kind \in {"submit", "approve", "reject"} => orders'[job[v].order] \in Before,
         job[v].kind = "close" => orders'[job[v].order] \in {"SHIPPED", "CLOSED"},
         job[v].kind = "complete" /\ job[v].phase = "counted" /\ job[v].seen = "SHIPPED" =>
           \A i \in ItemSet(job[v].order) : SeenItem(v, i)'.shipped >= Quantity[i]
  PROVE  Knows(v)'
  <1>1. job[v].kind \in {"idle"} \cup Harmless
    BY OthersAre
  <1>2. KnowsAlone(v)'
    BY <1>1 DEF KnowsAlone, Harmless
  <1>3. KnowsRacing(v)'
    BY DEF KnowsRacing
  <1> QED
    BY <1>2, <1>3 DEF Knows

\* Who stands alone when somebody acts is the one that acts.
LEMMA NobodyKnows ==
  ASSUME Core, NEW w \in Workers, job[w].kind \notin Racing, job[w] # Idle,
         NEW v \in Workers \ {w}
  PROVE  job[v] = Idle
  BY DEF Core, Serving, Apart

\* A step that writes neither orders nor order lines.
LEMMA OthersKnowTheSame ==
  ASSUME Core, Known, HarmlessOverlap, NEW w \in Workers, Acts(w), NEW v \in Workers \ {w},
         job'[v] = job[v], UNCHANGED <<orders, items>>
  PROVE  Knows(v)'
  <1>1. KnowsRacing(v)
    BY DEF Known, Knows
  <1>2. \A i : SeenItem(v, i)' = SeenItem(v, i)
    BY DEF SeenItem
  <1> QED
    BY <1>1, <1>2, OthersKnow DEF KnowsRacing

\* A step that only reads.
LEMMA QuietSure ==
  ASSUME Core, Sure, HarmlessOverlap, NEW w \in Workers, Acts(w), Quiet,
         \A v \in Workers \ {w} : job'[v] = job[v], Knows(w)',
         job'[w].kind \in {"submit", "approve"} =>
           \/ job'[w].kind = job[w].kind /\ job'[w].order = job[w].order
           \/ orders[job'[w].order] \in OpenCommitment
  PROVE  Sure'
  <1>1. UNCHANGED <<orders, items, outbounds, stock>>
    BY DEF Quiet
  <1>2. Fit' /\ Held' /\ Filled' /\ Backed'
    BY <1>1 DEF Sure, Fit, Held, Filled, Backed
  <1>3. Known'
    <2>1. \A v \in Workers \ {w} : Knows(v)'
      BY <1>1, OthersKnowTheSame DEF Sure
    <2> QED
      BY <2>1 DEF Known
  <1>4. Pledged' \subseteq Pledged
    BY <1>1 DEF Pledged
  <1>5. Promised'
    <2>1. PICK P, R : P = Pledged /\ R = Pledged'
      OBVIOUS
    <2>2. items \in [Items -> Progress] /\ \A i \in Items : items[i].shipped <= Quantity[i]
      <3>1. \A i \in Items : /\ Column(outbounds, OfItem(i, Open)) \in Nat
                             /\ items[i] \in Progress /\ Quantity[i] \in Nat
        BY ColumnsAre, ColumnType, RowsOf, LinesAssumption DEF Core, Rows, Tables
      <3> QED
        BY <3>1 DEF Sure, Fit, Progress, Core, Tables
    <2>3. ASSUME NEW r \in Warehouses
          PROVE  Owed(items, R, r) <= stock[r].current
      <3>1. Owed(items, R, r) <= Owed(items, P, r)
        BY <1>4, <2>1, <2>2, OwedMonotone
      <3>2. Owed(items, P, r) <= stock[r].current
        BY <2>1 DEF Sure, Promised
      <3>3. /\ Owed(items, R, r) \in Int /\ Owed(items, P, r) \in Int /\ stock[r].current \in Int
        BY <2>2, OutstandingType, OfType DEF Owed, Core, Tables, Positions
      <3> QED
        BY <3>1, <3>2, <3>3
    <2> QED
      BY <1>1, <2>1, <2>3 DEF Promised
  <1> QED
    BY <1>2, <1>3, <1>5 DEF Sure

-----------------------------------------------------------------------------
(* What a request has read. *)

\* The job of a worker is replaced.
LEMMA NewJob ==
  ASSUME Core, NEW w \in Workers, NEW j, job' = [job EXCEPT ![w] = j]
  PROVE  job'[w] = j /\ \A v \in Workers \ {w} : job'[v] = job[v]
  BY DEF Core, Serving

\* A request for a new order arrives.
LEMMA StartCreateSure ==
  ASSUME Core, Sure, HarmlessOverlap, NEW w \in Workers, NEW o \in Orders, StartCreate(w, o)
  PROVE  Sure'
  <1> DEFINE j == [Idle EXCEPT !.kind = "create", !.phase = "loaded", !.order = o]
  <1>1. j.kind = "create" /\ j.phase = "loaded"
    BY IdleIs DEF Job
  <1>2. MayStart(w, "create") /\ job' = [job EXCEPT ![w] = j] /\ Quiet
    BY DEF StartCreate, Quiet
  <1> HIDE DEF j
  <1>3. job'[w] = j /\ \A v \in Workers \ {w} : job'[v] = job[v]
    BY <1>2, NewJob
  <1>4. Knows(w)'
    BY <1>1, <1>3 DEF Knows, KnowsAlone, KnowsRacing
  <1> QED
    BY <1>1, <1>2, <1>3, <1>4, QuietSure DEF Acts

\* The statuses a request is loaded from.
LEMMA AllowedIs ==
  /\ AllowedFrom["update"] = {"DRAFT", "REJECTED"}
  /\ AllowedFrom["submit"] = {"DRAFT"}
  /\ AllowedFrom["approve"] = {"PENDING_APPROVAL"}
  /\ AllowedFrom["reject"] = {"PENDING_APPROVAL"}
  /\ AllowedFrom["allocate"] = {"APPROVED"}
  /\ AllowedFrom["create_outbound"] = Locking
  /\ AllowedFrom["cancel"] \subseteq Before \cup Locking
  /\ AllowedFrom["close"] = {"SHIPPED"}
  BY DEF AllowedFrom, Locking, Before

\* get_object of a sales order: its status is what the request was allowed for.
LEMMA LoadOrderSure ==
  ASSUME Core, Sure, HarmlessOverlap, NEW w \in Workers, NEW kind \in OrderRequests,
         NEW o \in Orders, NEW cart \in Carts \cup {<< >>}, LoadOrder(w, kind, o, cart)
  PROVE  Sure'
  <1> DEFINE lines == IF cart = << >> THEN << >> ELSE items
             j == [Idle EXCEPT !.kind = kind, !.phase = "loaded", !.order = o,
                               !.seen = orders[o], !.cart = cart, !.items = lines]
  <1>1. /\ j.kind = kind /\ j.phase = "loaded" /\ j.order = o /\ j.seen = orders[o]
        /\ j.cart = cart /\ j.items = lines
    BY IdleIs DEF Job
  <1>2. /\ MayStart(w, kind) /\ orders[o] \in AllowedFrom[kind] /\ Quiet
        /\ job' = [job EXCEPT ![w] = j]
    BY DEF LoadOrder, Quiet
  <1> HIDE DEF j
  <1>3. job'[w] = j /\ \A v \in Workers \ {w} : job'[v] = job[v]
    BY <1>2, NewJob
  <1>4. UNCHANGED <<orders, items, outbounds, stock>>
    BY <1>2 DEF Quiet
  <1>5. \A k \in DOMAIN cart : lines[cart[k].item].shipped = items[cart[k].item].shipped
    OBVIOUS
  <1> HIDE DEF lines
  <1>6. KnowsAlone(w)'
    <2>1. /\ kind = "update" => orders[o] \in {"DRAFT", "REJECTED"}
          /\ kind = "allocate" => orders[o] = "APPROVED"
          /\ kind = "create_outbound" => orders[o] \in Locking
          /\ kind = "cancel" => orders[o] \in Before \cup Locking
      BY <1>2, AllowedIs
    <2> QED
      BY <1>1, <1>3, <1>4, <1>5, <2>1 DEF KnowsAlone
  <1>7. KnowsRacing(w)'
    <2>1. /\ kind \in {"submit", "approve", "reject"} => orders[o] \in Before
          /\ kind = "close" => orders[o] \in {"SHIPPED", "CLOSED"}
      BY <1>2, AllowedIs DEF Before
    <2> QED
      BY <1>1, <1>3, <1>4, <2>1 DEF KnowsRacing
  <1>8. kind \in {"submit", "approve"} => orders[o] \in OpenCommitment
    BY <1>2, AllowedIs DEF OpenCommitment
  <1> QED
    BY <1>1, <1>2, <1>3, <1>6, <1>7, <1>8, QuietSure DEF Knows, Acts

\* get_object of an outbound order.
LEMMA LoadOutboundSure ==
  ASSUME Core, Sure, HarmlessOverlap, NEW w \in Workers, NEW kind \in StatusRequests,
         NEW n \in DOMAIN outbounds, LoadOutbound(w, kind, n)
  PROVE  Sure'
  <1> DEFINE j == [Idle EXCEPT !.kind = kind, !.phase = "loaded", !.number = n]
  <1>1. j.kind = kind /\ j.phase = "loaded"
    BY IdleIs DEF Job
  <1>2. MayStart(w, kind) /\ job' = [job EXCEPT ![w] = j] /\ Quiet
    BY DEF LoadOutbound, Quiet
  <1> HIDE DEF j
  <1>3. job'[w] = j /\ \A v \in Workers \ {w} : job'[v] = job[v]
    BY <1>2, NewJob
  <1>4. Knows(w)'
    BY <1>1, <1>3 DEF Knows, KnowsAlone, KnowsRacing, StatusRequests
  <1> QED
    BY <1>1, <1>2, <1>3, <1>4, QuietSure DEF Acts, StatusRequests

\* complete_order takes the outbound order.
LEMMA CheckOutboundSure ==
  ASSUME Core, Sure, HarmlessOverlap, NEW w \in Workers, NEW n \in DOMAIN outbounds,
         CheckOutbound(w, n)
  PROVE  Sure'
  <1> DEFINE j == [Idle EXCEPT !.kind = "complete", !.phase = "checked", !.number = n,
                               !.order = outbounds[n].order]
  <1>1. j.kind = "complete" /\ j.phase = "checked"
    BY IdleIs DEF Job
  <1>2. MayStart(w, "complete") /\ job' = [job EXCEPT ![w] = j] /\ Quiet
    BY DEF CheckOutbound, Quiet
  <1> HIDE DEF j
  <1>3. job'[w] = j /\ \A v \in Workers \ {w} : job'[v] = job[v]
    BY <1>2, NewJob
  <1>4. Knows(w)'
    BY <1>1, <1>3 DEF Knows, KnowsAlone, KnowsRacing
  <1> QED
    BY <1>1, <1>2, <1>3, <1>4, QuietSure DEF Acts

\* A request under way reads on.
LEMMA ReadOnSure ==
  ASSUME Core, Sure, HarmlessOverlap, NEW w \in Workers, job[w].kind # "idle",
         NEW j, job' = [job EXCEPT ![w] = j], Quiet,
         j.kind = job[w].kind, j.order = job[w].order, Knows(w)'
  PROVE  Sure'
  <1>1. job'[w] = j /\ \A v \in Workers \ {w} : job'[v] = job[v]
    BY NewJob
  <1>2. Acts(w)
    BY IdleIs DEF Acts
  <1> QED
    BY <1>1, <1>2, QuietSure

\* The stock is read.
LEMMA ReadStockSure ==
  ASSUME Core, Sure, HarmlessOverlap, NEW w \in Workers, ReadStock(w)
  PROVE  Sure'
  <1> DEFINE j == [job[w] EXCEPT !.phase = "read", !.onHand = InStock]
  <1>1. /\ job[w].kind \in {"create", "update", "submit"} /\ job' = [job EXCEPT ![w] = j] /\ Quiet
    BY DEF ReadStock, At, Quiet, InStock
  <1>2. /\ j.kind = job[w].kind /\ j.order = job[w].order /\ j.phase = "read"
        /\ j.onHand = InStock
    BY JobOf DEF Job
  <1> HIDE DEF j
  <1>3. job'[w] = j /\ UNCHANGED <<orders, stock>>
    BY <1>1, NewJob DEF Quiet
  <1>4. Knows(w)
    BY DEF Sure, Known
  <1>5. InStock' = InStock
    BY <1>3 DEF InStock
  <1>6. Knows(w)'
    BY <1>1, <1>2, <1>3, <1>4, <1>5 DEF Knows, KnowsAlone, KnowsRacing
  <1> QED
    BY <1>1, <1>2, <1>6, ReadOnSure

\* What is found sellable is there.
LEMMA SellableIs ==
  ASSUME items \in [Items -> Progress], NEW o \in Orders, NEW h,
         \A r \in Warehouses : h[r] \in Int, Sellable(o, h)
  PROVE  RoomFor(o, items, OutstandingOrders, h)
  <1> SUFFICES ASSUME NEW r \in Warehouses, OnRow(o, r, Quantity) > 0
               PROVE  OnRow(o, r, Quantity) + Owed(items, OutstandingOrders \ {o}, r) <= h[r]
    BY DEF RoomFor
  <1>1. OnRow(o, r, Quantity) <= h[r] - Commitment(r, o)
    BY DEF Sellable
  <1>2. Commitment(r, o) = Owed(items, OutstandingOrders \ {o}, r)
    BY CommitmentIs
  <1>3. Owed(items, OutstandingOrders \ {o}, r) \in Int
    BY OutstandingType, OfType DEF Owed
  <1>4. OnRow(o, r, Quantity) \in Int
    BY OnRowType, LinesAssumption, OrderItems
  <1> QED
    BY <1>1, <1>2, <1>3, <1>4

\* What is promised is read; alone, the request knows there is room.
LEMMA CheckSellableSure ==
  ASSUME Core, Sure, HarmlessOverlap, NEW w \in Workers, CheckSellable(w)
  PROVE  Sure'
  <1> DEFINE j == [job[w] EXCEPT !.phase = "checked", !.onHand = << >>]
             o == job[w].order
  <1>1. /\ job[w].kind \in {"create", "update", "submit"} /\ job[w].phase = "read"
        /\ Sellable(o, job[w].onHand) /\ o \in Orders
        /\ job' = [job EXCEPT ![w] = j] /\ Quiet
    BY JobOf DEF CheckSellable, Quiet, Serves, OrderServed, OrderRequests
  <1>2. j.kind = job[w].kind /\ j.order = o /\ j.phase = "checked"
    BY JobOf DEF Job
  <1> HIDE DEF j
  <1>3. job'[w] = j /\ UNCHANGED <<orders, items, stock>>
    BY <1>1, NewJob DEF Quiet
  <1>4. Knows(w)
    BY DEF Sure, Known
  <1>5. InStock' = InStock /\ OutstandingOrders' = OutstandingOrders
    BY <1>3 DEF InStock, OutstandingOrders
  <1>6. job[w].kind \in {"create", "update"} => RoomFor(o, items, OutstandingOrders, InStock)
    <2>1. items \in [Items -> Progress] /\ \A r \in Warehouses : InStock[r] \in Int
      BY DEF InStock, Core, Tables, Positions
    <2>2. job[w].kind \in {"create", "update"} => Sellable(o, InStock)
      BY <1>1, <1>4 DEF Knows, KnowsAlone
    <2> HIDE DEF o
    <2> QED
      BY <1>1, <2>1, <2>2, SellableIs
  <1>7. Knows(w)'
    <2>1. KnowsAlone(w)'
      BY <1>1, <1>2, <1>3, <1>4, <1>5, <1>6 DEF Knows, KnowsAlone
    <2>2. KnowsRacing(w)'
      BY <1>1, <1>2, <1>3, <1>4 DEF Knows, KnowsRacing
    <2> QED
      BY <2>1, <2>2 DEF Knows
  <1> QED
    BY <1>1, <1>2, <1>7, ReadOnSure

\* cancel_order, alone, knows the lines and that no outbound order is open.
LEMMA CheckCancelSure ==
  ASSUME Core, Sure, HarmlessOverlap, NEW w \in Workers, CheckCancel(w)
  PROVE  Sure'
  <1> DEFINE j == [job[w] EXCEPT !.phase = "checked", !.items = items]
  <1>1. /\ job[w].kind = "cancel" /\ job' = [job EXCEPT ![w] = j] /\ Quiet
        /\ job[w].seen \in Locking =>
             \A n \in DOMAIN outbounds :
               outbounds[n].order = job[w].order => outbounds[n].status \notin Open
    BY DEF CheckCancel, At, Quiet
  <1>2. /\ j.kind = "cancel" /\ j.order = job[w].order /\ j.phase = "checked" /\ j.items = items
        /\ j.seen = job[w].seen
    BY <1>1, JobOf DEF Job
  <1> HIDE DEF j
  <1>3. job'[w] = j /\ UNCHANGED <<orders, items, outbounds>>
    BY <1>1, NewJob DEF Quiet
  <1>4. orders[job[w].order] = job[w].seen /\ job[w].seen \in Before \cup Locking
    BY <1>1 DEF Sure, Known, Knows, KnowsAlone
  <1>5. Knows(w)'
    BY <1>1, <1>2, <1>3, <1>4 DEF Knows, KnowsAlone, KnowsRacing
  <1> QED
    BY <1>1, <1>2, <1>5, ReadOnSure

\* create_outbound_order, alone, knows that what it asks for is within the
\* order.
LEMMA CheckPendingSure ==
  ASSUME Core, Sure, HarmlessOverlap, NEW w \in Workers, CheckPending(w)
  PROVE  Sure'
  <1> DEFINE j == [job[w] EXCEPT !.phase = "checked"]
             cart == job[w].cart
  <1>1. /\ job[w].kind = "create_outbound" /\ job' = [job EXCEPT ![w] = j] /\ Quiet
        /\ \A k \in DOMAIN cart :
             cart[k].qty <= Pending(cart[k].item, job[w].items[cart[k].item].shipped)
    BY DEF CheckPending, At, Quiet
  <1>2. /\ j.kind = "create_outbound" /\ j.order = job[w].order /\ j.phase = "checked"
        /\ j.items = job[w].items /\ j.cart = cart
    BY <1>1, JobOf DEF Job
  <1> HIDE DEF j
  <1>3. job'[w] = j /\ UNCHANGED <<orders, items, outbounds>>
    BY <1>1, NewJob DEF Quiet
  <1>4. /\ orders[job[w].order] \in Locking
        /\ \A k \in DOMAIN cart : job[w].items[cart[k].item].shipped = items[cart[k].item].shipped
    BY <1>1 DEF Sure, Known, Knows, KnowsAlone
  <1>5. ASSUME NEW k \in DOMAIN cart
        PROVE  items[cart[k].item].shipped + cart[k].qty
                 + Column(outbounds, OfItem(cart[k].item, Open)) <= Quantity[cart[k].item]
    <2>1. PICK i : i = cart[k].item
      OBVIOUS
    <2>2. cart \in Carts
      BY <1>1, JobOf DEF Serves, OrderServed
    <2>3. i \in Items /\ cart[k].qty \in Nat
      <3> HIDE DEF cart
      <3> QED
        BY <2>1, <2>2, CartLines
    <2>4. items[i].shipped \in Int /\ Quantity[i] \in Int
      BY <2>3, LinesAssumption DEF Core, Tables, Progress
    <2>5. Column(outbounds, OfItem(i, Open)) \in Nat
      BY ColumnsAre, ColumnType, RowsOf DEF Core, Rows
    <2>6. cart[k].qty <= Pending(i, items[i].shipped)
      BY <1>1, <1>4, <2>1
    <2>7. Pending(i, items[i].shipped) = Quantity[i] - items[i].shipped - Column(outbounds, OfItem(i, Open))
      BY OnOutboundsColumn DEF Pending
    <2> HIDE DEF cart
    <2> QED
      BY <2>1, <2>3, <2>4, <2>5, <2>6, <2>7
  <1>7. Knows(w)'
    <2> HIDE DEF cart
    <2>1. KnowsAlone(w)'
      BY <1>2, <1>3, <1>4, <1>5 DEF KnowsAlone, cart
    <2> QED
      BY <1>2, <1>3, <2>1 DEF Knows, KnowsRacing
  <1> QED
    BY <1>1, <1>2, <1>7, ReadOnSure

\* The steps of complete_order before its commit.
LEMMA CompletionSure ==
  ASSUME Core, Sure, HarmlessOverlap, NEW w \in Workers,
         ShipLines(w) \/ SaveItems(w) \/ CountShipped(w)
  PROVE  Sure'
  <1>1. job[w].kind = "complete" /\ Quiet /\ Serves(w) /\ job[w] \in Job /\ Ships(w)
    BY JobOf DEF ShipLines, SaveItems, CountShipped, At, Quiet, Serves
  <1>2. \E j : /\ job' = [job EXCEPT ![w] = j] /\ j.kind = "complete" /\ j.order = job[w].order
               /\ \/ j.phase # "counted"
                  \/ j.items = job[w].items /\ j.seen = StatusOf(w, j.order)
    <2>1. CASE ShipLines(w)
      <3> DEFINE lines == outbounds[job[w].number].lines
                 will == [i \in ItemsIn(lines) |-> Moved(items[i], QtyIn(lines, i))]
                 j == [job[w] EXCEPT !.phase = "shipped", !.items = will]
      <3>1. job' = [job EXCEPT ![w] = j]
        BY <2>1 DEF ShipLines
      <3>2. j.kind = "complete" /\ j.order = job[w].order /\ j.phase # "counted"
        BY <1>1 DEF Job
      <3> HIDE DEF j
      <3> QED
        BY <3>1, <3>2
    <2>2. CASE SaveItems(w)
      <3> DEFINE j == [job[w] EXCEPT !.phase = "saved"]
      <3>1. job' = [job EXCEPT ![w] = j]
        BY <2>2 DEF SaveItems
      <3>2. j.kind = "complete" /\ j.order = job[w].order /\ j.phase # "counted"
        BY <1>1 DEF Job
      <3> HIDE DEF j
      <3> QED
        BY <3>1, <3>2
    <2>3. CASE CountShipped(w)
      <3> DEFINE seen == StatusOf(w, job[w].order)
                 j == [job[w] EXCEPT !.phase = "counted", !.seen = seen]
      <3>1. job[w].order # NoOrder
        BY <2>3, CountShippedKeeps, LinesAssumption
      <3>2. job' = [job EXCEPT ![w] = j]
        BY <2>3, <3>1 DEF CountShipped
      <3>3. j.kind = "complete" /\ j.order = job[w].order /\ j.items = job[w].items /\ j.seen = seen
        BY <1>1 DEF Job
      <3> HIDE DEF j
      <3> QED
        BY <3>2, <3>3
    <2> QED
      BY <2>1, <2>2, <2>3
  <1>3. PICK j : /\ job' = [job EXCEPT ![w] = j] /\ j.kind = "complete" /\ j.order = job[w].order
                 /\ \/ j.phase # "counted"
                    \/ j.items = job[w].items /\ j.seen = StatusOf(w, j.order)
    BY <1>2
  <1>4. job'[w] = j /\ UNCHANGED items
    BY <1>1, <1>3, NewJob DEF Quiet
  <1>5. Knows(w)'
    <2>1. j.phase = "counted" /\ j.seen = "SHIPPED" =>
            \A i \in ItemSet(j.order) : SeenItem(w, i)'.shipped >= Quantity[i]
      <3> SUFFICES ASSUME j.phase = "counted", j.seen = "SHIPPED", NEW i \in ItemSet(j.order)
                   PROVE  SeenItem(w, i)'.shipped >= Quantity[i]
        OBVIOUS
      <3>1. SeenItem(w, i)' = SeenItem(w, i)
        BY <1>3, <1>4 DEF SeenItem
      <3>2. SeenItem(w, i).shipped >= Quantity[i]
        BY <1>3 DEF StatusOf
      <3> QED
        BY <3>1, <3>2
    <2> QED
      BY <1>3, <1>4, <2>1 DEF Knows, KnowsAlone, KnowsRacing
  <1> QED
    BY <1>1, <1>3, <1>5, ReadOnSure

\* A request that is given up.
LEMMA AbortSure ==
  ASSUME Core, Sure, HarmlessOverlap, NEW w \in Workers, Abort(w)
  PROVE  Sure'
  <1>1. job[w] # Idle /\ job' = [job EXCEPT ![w] = Idle] /\ Quiet
    BY DEF Abort, Done, Quiet
  <1>2. job'[w] = Idle /\ \A v \in Workers \ {w} : job'[v] = job[v]
    BY <1>1, NewJob
  <1> QED
    BY <1>1, <1>2, IdleKnows, IdleIs, QuietSure DEF Acts

\* Steps that only read.
LEMMA ReadsSure ==
  ASSUME Core, Sure, HarmlessOverlap, NEW w \in Workers, Reads(w)
  PROVE  Sure'
  <1>1. CASE Loads(w)
    <2>1. ASSUME NEW o \in Orders, NEW kind \in OrderRequests \ {"create_outbound"},
                 LoadOrder(w, kind, o, << >>)
          PROVE  Sure'
      <3>1. << >> \in Carts \cup {<< >>}
        OBVIOUS
      <3> QED
        BY <2>1, <3>1, LoadOrderSure
    <2>2. ASSUME NEW o \in Orders, NEW cart \in Carts, LoadOrder(w, "create_outbound", o, cart)
          PROVE  Sure'
      <3>1. "create_outbound" \in OrderRequests
        BY DEF OrderRequests
      <3> QED
        BY <2>2, <3>1, LoadOrderSure
    <2> QED
      BY <1>1, <2>1, <2>2, StartCreateSure, LoadOutboundSure, CheckOutboundSure DEF Loads
  <1> QED
    BY <1>1, ReadStockSure, CheckSellableSure, CheckCancelSure, CheckPendingSure, CompletionSure,
       AbortSure DEF Reads

-----------------------------------------------------------------------------
(* What is written one field at a time. *)

\* What Fit bounds are numbers, and no line is shipped beyond what was ordered.
LEMMA Bounds ==
  ASSUME Core, Fit
  PROVE  /\ items \in [Items -> Progress]
         /\ \A i \in Items : /\ items[i].shipped \in Int /\ items[i].allocated \in Nat
                             /\ Quantity[i] \in Nat /\ Quantity[i] > 0
                             /\ Column(outbounds, OfItem(i, Open)) \in Nat
                             /\ items[i].shipped <= Quantity[i]
         /\ \A r \in Warehouses : stock[r].current \in Int /\ stock[r].locked \in Int
  <1>1. \A i \in Items : /\ Column(outbounds, OfItem(i, Open)) \in Nat
                         /\ items[i] \in Progress /\ Quantity[i] \in Nat /\ Quantity[i] > 0
    BY ColumnsAre, ColumnType, RowsOf, LinesAssumption DEF Core, Rows, Tables
  <1>2. \A i \in Items : /\ items[i].allocated \in Nat /\ items[i].shipped \in Int
                         /\ items[i].shipped <= Quantity[i]
    BY <1>1 DEF Fit, Progress
  <1> QED
    BY <1>1, <1>2 DEF Core, Tables, Positions

\* Nobody new is owed anything, and nothing leaves.
LEMMA PromisedStays ==
  ASSUME Core, Sure, Pledged' \subseteq Pledged,
         \A i \in Items : items'[i].shipped = items[i].shipped,
         \A r \in Warehouses : stock'[r].current = stock[r].current
  PROVE  Promised'
  <1>1. PICK P, R : P = Pledged /\ R = Pledged'
    OBVIOUS
  <1>2. /\ items \in [Items -> Progress]
        /\ \A i \in Items : items[i].shipped <= Quantity[i]
        /\ \A r \in Warehouses : stock[r].current \in Int
    BY Bounds DEF Sure
  <1>3. ASSUME NEW r \in Warehouses
        PROVE  Owed(items', R, r) <= stock'[r].current
    <2>1. Owed(items, R, r) <= Owed(items, P, r)
      BY <1>1, <1>2, OwedMonotone
    <2>2. Owed(items, P, r) <= stock[r].current
      BY <1>1 DEF Sure, Promised
    <2>3. Owed(items, R, r) \in Int /\ Owed(items, P, r) \in Int
      BY <1>2, OutstandingType, OfType DEF Owed
    <2>4. PICK u : u = items'
      OBVIOUS
    <2>5. Owed(u, R, r) = Owed(items, R, r)
      BY <2>4, OwedSame
    <2> QED
      BY <1>2, <2>1, <2>2, <2>3, <2>4, <2>5
  <1> QED
    BY <1>1, <1>3 DEF Promised

\* Nothing is reserved or released.
LEMMA BackedStays ==
  ASSUME Sure, \A i \in Items : items'[i].allocated = items[i].allocated,
         \A r \in Warehouses : stock'[r].locked = stock[r].locked
  PROVE  Backed'
  <1>1. Allocated(items') = Allocated(items)
    BY DEF Allocated
  <1> QED
    BY <1>1 DEF Sure, Backed

\* submit_order, approve_order, reject_order and close_order.
LEMMA StatusSure ==
  ASSUME Core, Sure, HarmlessOverlap, NEW w \in Workers, WritesStatus(w)
  PROVE  Sure'
  <1> DEFINE o == job[w].order
  <1>1. /\ UNCHANGED <<items, outbounds, stock>> /\ o \in Orders
        /\ job[w].kind \in {"submit", "approve", "reject", "close"}
    BY StatusWritten DEF WritesStatus
  <1>2. PICK s \in OrderStatus :
          /\ SetStatus(w, s)
          /\ job[w].kind \in {"submit", "approve"} => s \in {"PENDING_APPROVAL", "APPROVED"}
          /\ job[w].kind = "reject" => s = "REJECTED"
          /\ job[w].kind = "close" => s = "CLOSED"
    BY StatusWritten DEF WritesStatus
  <1>3. orders'[o] = s /\ \A p \in Orders \ {o} : orders'[p] = orders[p]
    BY <1>1, <1>2 DEF SetStatus, Core, Tables
  <1>4. /\ job[w].kind # "close" => orders[o] \in Before /\ s \in Before
        /\ job[w].kind = "close" => orders[o] \in {"SHIPPED", "CLOSED"} /\ s = "CLOSED"
    BY <1>1, <1>2 DEF Sure, Known, Knows, KnowsRacing, Before
  <1>5. job' = [job EXCEPT ![w] = Idle]
    BY DEF WritesStatus, SubmitOrder, ApproveOrder, RejectOrder, CloseOrder, WriteStatus, Done
  <1>6. job'[w] = Idle /\ \A v \in Workers \ {w} : job'[v] = job[v]
    BY <1>5, NewJob
  <1>7. Acts(w)
    BY <1>1, IdleIs DEF Acts
  <1>8. Fit' /\ Filled' /\ Backed'
    BY <1>1 DEF Sure, Fit, Filled, Backed
  <1>9. Held'
    <2> SUFFICES ASSUME NEW p \in Orders, NEW i \in ItemSet(p)
                 PROVE  /\ orders'[p] \in Locking => items[i].allocated = Quantity[i] - items[i].shipped
                        /\ orders'[p] \notin Locking => items[i].allocated = 0
                        /\ orders'[p] \in Before => items[i].shipped = 0
      BY <1>1 DEF Held
    <2>1. /\ orders[p] \in Locking => items[i].allocated = Quantity[i] - items[i].shipped
          /\ orders[p] \notin Locking => items[i].allocated = 0
          /\ orders[p] \in Before => items[i].shipped = 0
      BY DEF Sure, Held
    <2>2. orders'[p] = orders[p] \/ (orders[p] \in Before /\ orders'[p] \in Before)
            \/ (orders[p] \in {"SHIPPED", "CLOSED"} /\ orders'[p] = "CLOSED")
      BY <1>3, <1>4
    <2> QED
      BY <2>1, <2>2 DEF Before, Locking
  <1>10. Known'
    <2>1. ASSUME NEW v \in Workers \ {w}
          PROVE  Knows(v)'
      <3>1. KnowsRacing(v)
        BY DEF Sure, Known, Knows
      <3>2. job[v].kind \in {"submit", "approve", "reject", "close"} => job[v].order \in Orders
        BY JobOf DEF Serves, OrderServed, OrderRequests
      <3>3. /\ job[v].kind \in {"submit", "approve", "reject"} => orders'[job[v].order] \in Before
            /\ job[v].kind = "close" => orders'[job[v].order] \in {"SHIPPED", "CLOSED"}
        BY <1>3, <1>4, <3>1, <3>2 DEF KnowsRacing, Before
      <3>4. job[v].kind = "complete" /\ job[v].phase = "counted" /\ job[v].seen = "SHIPPED" =>
              \A i \in ItemSet(job[v].order) : SeenItem(v, i)'.shipped >= Quantity[i]
        <4>1. \A i : SeenItem(v, i)' = SeenItem(v, i)
          BY <1>1, <1>6 DEF SeenItem
        <4> QED
          BY <3>1, <4>1 DEF KnowsRacing
      <3> QED
        BY <1>6, <1>7, <3>3, <3>4, OthersKnow
    <2> QED
      BY <1>6, <2>1, IdleKnows DEF Known
  <1>11. Promised'
    <2>1. Pledged' \subseteq Pledged
      <3> SUFFICES ASSUME NEW p \in Orders, p \in Pledged' PROVE p \in Pledged
        BY DEF Pledged
      <3>1. \/ orders'[p] \in OpenCommitment
            \/ \E v \in Workers \ {w} : job[v].kind \in {"submit", "approve"} /\ job[v].order = p
        BY <1>6, IdleIs DEF Pledged
      <3>2. CASE p = o /\ orders'[p] \in OpenCommitment
        <4>1. job[w].kind \in {"submit", "approve"}
          BY <1>1, <1>2, <1>3, <3>2 DEF OpenCommitment
        <4> QED
          BY <3>2, <4>1 DEF Pledged
      <3> QED
        BY <1>3, <3>1, <3>2 DEF Pledged
    <2> QED
      BY <1>1, <2>1, PromisedStays
  <1> QED
    BY <1>8, <1>9, <1>10, <1>11 DEF Sure

\* An open outbound order moves on, or another one is put aside.
LEMMA RestatedFit ==
  ASSUME Core, Sure, NEW n \in DOMAIN outbounds, Restated(outbounds', n), UNCHANGED items,
         outbounds[n].status \in Open \/ outbounds'[n].status \notin Open
  PROVE  Fit' /\ Filled'
  <1>1. PICK t : t = outbounds'
    OBVIOUS
  <1>2. /\ Restated(t, n) /\ t[n].lines = outbounds[n].lines /\ t[n] \in Row /\ outbounds[n] \in Row
        /\ outbounds[n].status \in Open \/ t[n].status \notin Open
    BY <1>1, CoreTypes, RowNumbers DEF Restated, RowChanged
  <1>3. ASSUME NEW i \in Items
        PROVE  Column(t, OfItem(i, Open)) <= Column(outbounds, OfItem(i, Open))
               /\ Column(t, OfItem(i, Open)) \in Nat
    <2>1. PICK c \in [Row -> Nat] : c = OfItem(i, Open)
      BY ColumnsAre
    <2>2. /\ Column(t, c) = Column(outbounds, c) + (c[t[n]] - c[outbounds[n]])
          /\ Column(t, c) \in Nat /\ Column(outbounds, c) \in Nat
          /\ c[t[n]] \in Nat /\ c[outbounds[n]] \in Nat
      BY <1>2, ColumnRestated
    <2>3. /\ c[t[n]] = IF t[n].status \in Open THEN QtyIn(t[n].lines, i) ELSE 0
          /\ c[outbounds[n]] = IF outbounds[n].status \in Open THEN QtyIn(outbounds[n].lines, i) ELSE 0
      BY <1>2, <2>1, ColumnsAre
    <2>4. c[t[n]] <= c[outbounds[n]]
      BY <1>2, <2>2, <2>3
    <2> QED
      BY <2>1, <2>2, <2>4
  <1>4. \A i \in Items : Column(t, OfItem(i, Open)) <= items[i].allocated
    <2> SUFFICES ASSUME NEW i \in Items PROVE Column(t, OfItem(i, Open)) <= items[i].allocated
      OBVIOUS
    <2>1. /\ Column(outbounds, OfItem(i, Open)) \in Nat /\ items[i].allocated \in Nat
          /\ Column(outbounds, OfItem(i, Open)) <= items[i].allocated
      BY Bounds DEF Sure, Fit
    <2>2. /\ Column(t, OfItem(i, Open)) <= Column(outbounds, OfItem(i, Open))
          /\ Column(t, OfItem(i, Open)) \in Nat
      BY <1>3
    <2> QED
      BY <2>1, <2>2
  <1>5. Fit'
    BY <1>1, <1>4 DEF Sure, Fit
  <1>6. Filled'
    BY <1>2, <1>1 DEF Sure, Filled, Restated, RowChanged
  <1> QED
    BY <1>5, <1>6

\* An outbound order is submitted, approved or cancelled.
LEMMA MoveSure ==
  ASSUME Core, Sure, HarmlessOverlap, DecidedAlone, NEW w \in Workers, NEW kind \in StatusRequests,
         MoveOutbound(w, kind)
  PROVE  Sure'
  <1>1. /\ UNCHANGED <<orders, items, stock>> /\ job[w].number \in DOMAIN outbounds
        /\ Restated(outbounds', job[w].number) /\ outbounds[job[w].number].status \in Open
    BY MoveOutboundKeeps DEF Open
  <1>2. job[w].kind = kind /\ job' = [job EXCEPT ![w] = Idle]
    BY DEF MoveOutbound, At, Done
  <1>3. job'[w] = Idle /\ \A v \in Workers \ {w} : job'[v] = job[v]
    BY <1>2, NewJob
  <1>4. Acts(w)
    BY <1>2, IdleIs DEF Acts, StatusRequests
  <1>5. Fit' /\ Filled'
    <2>1. PICK n \in DOMAIN outbounds : n = job[w].number
      BY <1>1
    <2> QED
      BY <1>1, <2>1, RestatedFit
  <1>6. Held' /\ Backed'
    BY <1>1 DEF Sure, Held, Backed
  <1>7. Known'
    <2>1. \A v \in Workers \ {w} : Knows(v)'
      BY <1>1, <1>3, <1>4, OthersKnowTheSame DEF Sure
    <2> QED
      BY <1>3, <2>1, IdleKnows DEF Known
  <1>8. Promised'
    <2>1. Pledged' \subseteq Pledged
      BY <1>1, <1>3, IdleIs DEF Pledged
    <2> QED
      BY <1>1, <2>1, PromisedStays
  <1> QED
    BY <1>5, <1>6, <1>7, <1>8 DEF Sure

\* An outbound order is deleted.
LEMMA DestroyOutboundSure ==
  ASSUME Core, Sure, HarmlessOverlap, NEW w \in Workers, NEW n \in DOMAIN outbounds,
         DestroyOutbound(w, n)
  PROVE  Sure'
  <1>1. /\ UNCHANGED <<orders, items, stock>> /\ Restated(outbounds', n)
        /\ outbounds'[n].status \notin Open
    BY DestroyOutboundKeeps DEF Open
  <1>2. MayStart(w, "destroy_outbound") /\ job' = job
    BY DEF DestroyOutbound
  <1>3. \A v \in Workers : job'[v] = Idle
    BY <1>2, RacingAssumption, NobodyElse
  <1>4. Fit' /\ Filled'
    BY <1>1, RestatedFit
  <1>5. Held' /\ Backed'
    BY <1>1 DEF Sure, Held, Backed
  <1>6. Known'
    BY <1>3, IdleKnows DEF Known
  <1>7. Promised'
    <2>1. Pledged' \subseteq Pledged
      BY <1>1, <1>2 DEF Pledged
    <2> QED
      BY <1>1, <2>1, PromisedStays
  <1> QED
    BY <1>4, <1>5, <1>6, <1>7 DEF Sure

-----------------------------------------------------------------------------
(* What a request that is served alone writes. *)

ServedAlone == {"create", "update", "allocate", "create_outbound", "cancel"}

\* After it nobody is served, and only open orders are owed.
LEMMA AloneDone ==
  ASSUME Core, HarmlessOverlap, NEW w \in Workers, job[w].kind \in ServedAlone, Done(w)
  PROVE  Known' /\ Pledged' = OutstandingOrders'
  <1>1. job[w].kind \notin Racing /\ job[w] # Idle
    BY IdleIs DEF ServedAlone, HarmlessOverlap, Harmless
  <1>2. \A v \in Workers \ {w} : job[v] = Idle
    BY <1>1, NobodyKnows
  <1>3. job' = [job EXCEPT ![w] = Idle]
    BY DEF Done
  <1>4. \A v \in Workers : job'[v] = Idle
    BY <1>2, <1>3, NewJob
  <1>5. Known'
    BY <1>4, IdleKnows DEF Known
  <1>6. Pledged' = OutstandingOrders'
    BY <1>4, IdleIs DEF Pledged, OutstandingOrders
  <1> QED
    BY <1>5, <1>6

\* What is owed to the open orders but one is there.
LEMMA OthersPromised ==
  ASSUME Core, Sure, NEW o, NEW r \in Warehouses
  PROVE  /\ Owed(items, OutstandingOrders \ {o}, r) <= stock[r].current
         /\ Owed(items, OutstandingOrders \ {o}, r) \in Int
  <1>1. PICK P, S : P = Pledged /\ S = OutstandingOrders \ {o}
    OBVIOUS
  <1>2. S \subseteq P
    BY <1>1 DEF Pledged, OutstandingOrders
  <1>3. /\ items \in [Items -> Progress] /\ stock[r].current \in Int
        /\ \A i \in Items : items[i].shipped <= Quantity[i]
    BY Bounds DEF Sure
  <1>4. Owed(items, S, r) <= Owed(items, P, r)
    BY <1>2, <1>3, OwedMonotone
  <1>5. Owed(items, P, r) <= stock[r].current
    BY <1>1 DEF Sure, Promised
  <1>6. Owed(items, S, r) \in Int /\ Owed(items, P, r) \in Int
    BY <1>3, OutstandingType, OfType DEF Owed
  <1> QED
    BY <1>1, <1>3, <1>4, <1>5, <1>6

\* An order that has shipped nothing is written as a draft.
LEMMA DraftSure ==
  ASSUME Core, Sure, HarmlessOverlap, NEW w \in Workers, NEW o \in Orders, o = job[w].order,
         job[w].kind \in {"create", "update"}, job[w].phase = "checked",
         orders[o] \in {"NONE", "DRAFT", "REJECTED"}, SetStatus(w, "DRAFT"), Done(w),
         items' = items \/ items' = FreshItems(o), UNCHANGED <<outbounds, stock>>
  PROVE  Sure'
  <1>1. orders'[o] = "DRAFT" /\ \A p \in Orders \ {o} : orders'[p] = orders[p]
    BY DEF SetStatus, Core, Tables
  <1>2. ASSUME NEW i \in Items
        PROVE  items'[i].shipped = items[i].shipped /\ items'[i].allocated = items[i].allocated
    <2>1. i \in ItemSet(o) => items[i].shipped = 0 /\ items[i].allocated = 0
      BY DEF Sure, Held, Before, Locking
    <2> QED
      BY <2>1, FreshType
  <1>3. Fit' /\ Filled'
    BY <1>2 DEF Sure, Fit, Filled
  <1>4. Held'
    <2> SUFFICES ASSUME NEW p \in Orders, NEW i \in ItemSet(p)
                 PROVE  /\ orders'[p] \in Locking => items'[i].allocated = Quantity[i] - items'[i].shipped
                        /\ orders'[p] \notin Locking => items'[i].allocated = 0
                        /\ orders'[p] \in Before => items'[i].shipped = 0
      BY DEF Held
    <2>1. /\ orders[p] \in Locking => items[i].allocated = Quantity[i] - items[i].shipped
          /\ orders[p] \notin Locking => items[i].allocated = 0
          /\ orders[p] \in Before => items[i].shipped = 0
      BY DEF Sure, Held
    <2>2. i \in Items
      BY OrderItems
    <2> QED
      BY <1>1, <1>2, <2>1, <2>2 DEF Before, Locking
  <1>5. Backed'
    BY <1>2, BackedStays
  <1>6. Known' /\ Pledged' = OutstandingOrders'
    BY AloneDone DEF ServedAlone
  <1>7. Promised'
    <2>1. PICK S, R : S = OutstandingOrders \ {o} /\ R = Pledged'
      OBVIOUS
    <2>2. R = S \cup {o} /\ S \in SUBSET Orders /\ o \notin S
      BY <1>1, <1>6, <2>1 DEF OutstandingOrders, OpenCommitment
    <2>3. RoomFor(o, items, OutstandingOrders, InStock)
      BY DEF Sure, Known, Knows, KnowsAlone
    <2>4. ASSUME NEW r \in Warehouses
          PROVE  Owed(items', R, r) <= stock'[r].current
      <3>1. PICK u : u = items'
        OBVIOUS
      <3>2. Owed(u, R, r) = Owed(items, R, r)
        BY <1>2, <3>1, OwedSame
      <3>3. Owed(items, R, r) = Owed(items, S, r) + OnRow(o, r, Quantity)
        <4>1. \A i \in ItemSet(o) : items[i].shipped = 0
          BY DEF Sure, Held, Before
        <4>2. items \in [Items -> Progress]
          BY DEF Core, Tables
        <4> QED
          BY <2>2, <4>1, <4>2, OwedMore
      <3>4. Owed(items, S, r) <= stock[r].current /\ Owed(items, S, r) \in Int
        BY <2>1, OthersPromised
      <3>5. OnRow(o, r, Quantity) > 0 => OnRow(o, r, Quantity) + Owed(items, S, r) <= stock[r].current
        BY <2>1, <2>3 DEF RoomFor, InStock
      <3>6. OnRow(o, r, Quantity) \in Int /\ stock[r].current \in Int
        BY OnRowType, LinesAssumption, OrderItems DEF Core, Tables, Positions
      <3> QED
        BY <3>1, <3>2, <3>3, <3>4, <3>5, <3>6
    <2> QED
      BY <2>1, <2>4 DEF Promised
  <1> QED
    BY <1>3, <1>4, <1>5, <1>6, <1>7 DEF Sure

\* create_order writes a draft there is room for.
LEMMA CreateOrderSure ==
  ASSUME Core, Sure, HarmlessOverlap, NEW w \in Workers, CreateOrder(w)
  PROVE  Sure'
  <1>1. PICK o \in Orders : o = job[w].order
    BY CreateOrderKeeps
  <1>2. /\ job[w].kind = "create" /\ job[w].phase = "checked" /\ orders[o] = "NONE"
        /\ SetStatus(w, "DRAFT") /\ Done(w) /\ items' = FreshItems(o)
        /\ UNCHANGED <<outbounds, stock>>
    BY <1>1, CreateOrderKeeps DEF CreateOrder, At
  <1> QED
    BY <1>1, <1>2, DraftSure

\* update_order does.
LEMMA UpdateOrderSure ==
  ASSUME Core, Sure, HarmlessOverlap, NEW w \in Workers, UpdateOrder(w)
  PROVE  Sure'
  <1>1. PICK o \in Orders : o = job[w].order
    BY UpdateOrderKeeps
  <1>2. /\ job[w].kind = "update" /\ job[w].phase = "checked"
        /\ SetStatus(w, "DRAFT") /\ Done(w)
        /\ items' = items \/ items' = FreshItems(o)
        /\ UNCHANGED <<outbounds, stock>>
    BY <1>1, UpdateOrderKeeps DEF UpdateOrder, At
  <1>3. orders[o] \in {"DRAFT", "REJECTED"}
    BY <1>1, <1>2 DEF Sure, Known, Knows, KnowsAlone
  <1> QED
    BY <1>1, <1>2, <1>3, DraftSure

-----------------------------------------------------------------------------
(* Stock is reserved, and released. *)

\* What is reserved for an order is reserved for its lines.
LEMMA BackedMoves ==
  ASSUME Core, Sure, NEW e \in [Items -> Int], items' \in [Items -> Progress],
         \A i \in Items : items'[i].allocated = items[i].allocated + e[i],
         \A r \in Warehouses : stock'[r].locked = stock[r].locked + Of(e, r)
  PROVE  Backed'
  <1>1. PICK a, b : a = Allocated(items) /\ b = Allocated(items')
    OBVIOUS
  <1>2. a \in [Items -> Int] /\ b \in [Items -> Int] /\ \A i \in Items : b[i] = a[i] + e[i]
    BY <1>1 DEF Allocated, Core, Tables, Progress
  <1>3. ASSUME NEW r \in Warehouses
        PROVE  stock'[r].locked = Of(b, r)
    <2>1. Of(b, r) = Of(a, r) + Of(e, r)
      BY <1>2, OfPlus
    <2>2. stock[r].locked = Of(a, r)
      BY <1>1 DEF Sure, Backed
    <2> QED
      BY <2>1, <2>2
  <1> QED
    BY <1>1, <1>3 DEF Backed

\* allocate_stock reserves just what the order becomes owed.
LEMMA AllocateSure ==
  ASSUME Core, Sure, HarmlessOverlap, NEW w \in Workers, AllocateStock(w)
  PROVE  Sure'
  <1>1. PICK o \in Orders : o = job[w].order
    BY AllocateStockKeeps
  <1>2. /\ Core' /\ UNCHANGED outbounds /\ job[w].kind = "allocate" /\ SetStatus(w, "ALLOCATED")
        /\ \A r \in Warehouses : /\ stock'[r].current = stock[r].current
                                 /\ stock'[r].locked = stock[r].locked + OnRow(o, r, Quantity)
        /\ \A i \in Items : /\ items'[i].shipped = items[i].shipped
                            /\ items'[i].allocated = IF i \in ItemSet(o) THEN Quantity[i]
                                                                        ELSE items[i].allocated
    BY <1>1, AllocateStockKeeps
  <1>3. orders'[o] = "ALLOCATED" /\ \A p \in Orders \ {o} : orders'[p] = orders[p]
    BY <1>1, <1>2 DEF SetStatus, Core, Tables
  <1>4. orders[o] = "APPROVED"
    BY <1>1, <1>2 DEF Sure, Known, Knows, KnowsAlone
  <1>5. \A i \in ItemSet(o) : items[i].allocated = 0 /\ items[i].shipped = 0 /\ i \in Items
    BY <1>4, OrderItems DEF Sure, Held, Before, Locking
  <1>6. Fit'
    <2> SUFFICES ASSUME NEW i \in Items
                 PROVE  /\ Column(outbounds, OfItem(i, Open)) <= items'[i].allocated
                        /\ items'[i].shipped + items'[i].allocated <= Quantity[i]
      BY <1>2 DEF Fit
    <2>1. /\ Column(outbounds, OfItem(i, Open)) <= items[i].allocated
          /\ items[i].shipped + items[i].allocated <= Quantity[i]
      BY DEF Sure, Fit
    <2>2. /\ items[i].shipped \in Int /\ items[i].allocated \in Int /\ Quantity[i] \in Nat
          /\ Column(outbounds, OfItem(i, Open)) \in Nat
      BY Bounds DEF Sure
    <2> QED
      BY <1>2, <1>5, <2>1, <2>2
  <1>7. Held'
    <2> SUFFICES ASSUME NEW p \in Orders, NEW i \in ItemSet(p)
                 PROVE  /\ orders'[p] \in Locking => items'[i].allocated = Quantity[i] - items'[i].shipped
                        /\ orders'[p] \notin Locking => items'[i].allocated = 0
                        /\ orders'[p] \in Before => items'[i].shipped = 0
      BY DEF Held
    <2>1. i \in Items /\ Quantity[i] \in Int
      BY OrderItems, LinesAssumption
    <2>2. CASE p = o
      <3>1. items'[i].allocated = Quantity[i] /\ items'[i].shipped = 0
        BY <1>2, <1>5, <2>1, <2>2
      <3> QED
        BY <1>3, <2>1, <2>2, <3>1 DEF Before, Locking
    <2>3. CASE p # o
      <3>1. i \notin ItemSet(o)
        BY <2>3, LinesAssumption
      <3>2. items'[i].allocated = items[i].allocated /\ items'[i].shipped = items[i].shipped
        BY <1>2, <2>1, <3>1
      <3> QED
        BY <1>3, <2>3, <3>2 DEF Sure, Held
    <2> QED
      BY <2>2, <2>3
  <1>8. Filled'
    BY <1>2 DEF Sure, Filled
  <1>9. Backed'
    <2>1. PICK e : e = OnlyOf(o, Quantity)
      OBVIOUS
    <2>2. \A i \in ItemSet(o) : Quantity[i] \in Int
      BY LinesAssumption, OrderItems
    <2>3. e \in [Items -> Int] /\ \A r : OnRow(o, r, Quantity) = Of(e, r)
      BY <2>1, <2>2, OnRowIs
    <2>4. items' \in [Items -> Progress]
      BY <1>2 DEF Core, Tables
    <2>5. \A i \in Items : items'[i].allocated = items[i].allocated + e[i]
      <3> SUFFICES ASSUME NEW i \in Items PROVE items'[i].allocated = items[i].allocated + e[i]
        OBVIOUS
      <3>1. items[i].allocated \in Int /\ Quantity[i] \in Int
        BY LinesAssumption DEF Core, Tables, Progress
      <3> QED
        BY <1>2, <1>5, <2>1, <3>1 DEF OnlyOf
    <2>6. \A r \in Warehouses : stock'[r].locked = stock[r].locked + Of(e, r)
      BY <1>2, <2>3
    <2> QED
      BY <2>3, <2>4, <2>5, <2>6, BackedMoves
  <1>10. Known' /\ Pledged' = OutstandingOrders'
    <2>1. Done(w)
      BY DEF AllocateStock
    <2> QED
      BY <1>2, <2>1, AloneDone DEF ServedAlone
  <1>11. Promised'
    <2>1. Pledged' \subseteq Pledged
      BY <1>3, <1>4, <1>10 DEF Pledged, OutstandingOrders, OpenCommitment
    <2> QED
      BY <1>2, <2>1, PromisedStays
  <1> QED
    BY <1>6, <1>7, <1>8, <1>9, <1>10, <1>11 DEF Sure

\* cancel_order releases just what the lines had allocated.
LEMMA CancelSure ==
  ASSUME Core, Sure, HarmlessOverlap, NEW w \in Workers, CancelOrder(w)
  PROVE  Sure'
  <1>1. PICK o \in Orders : o = job[w].order
    BY CancelOrderKeeps
  <1>2. /\ Core' /\ UNCHANGED outbounds /\ job[w].kind = "cancel" /\ job[w].phase = "checked"
        /\ SetStatus(w, "CANCELLED") /\ Done(w)
        /\ \A r \in Warehouses : stock'[r].current = stock[r].current
        /\ \A i \in Items : items'[i].shipped = items[i].shipped
    BY <1>1, CancelOrderKeeps DEF CancelOrder, At
  <1>3. /\ job[w].items = items /\ orders[o] = job[w].seen
        /\ orders[o] \in Locking =>
             \A n \in DOMAIN outbounds : outbounds[n].order = o => outbounds[n].status \notin Open
    BY <1>1, <1>2 DEF Sure, Known, Knows, KnowsAlone
  <1>4. PICK a : a = Allocated(items)
    OBVIOUS
  <1>5. IF orders[o] \in Locking
        THEN /\ stock' = [r \in Warehouses |-> ReleaseStock(stock[r], OnRow(o, r, a))]
             /\ items' = Deallocated(o, items)
        ELSE UNCHANGED <<stock, items>>
    BY <1>1, <1>3, <1>4 DEF CancelOrder, Allocated
  <1>6. orders'[o] = "CANCELLED" /\ \A p \in Orders \ {o} : orders'[p] = orders[p]
    BY <1>1, <1>2 DEF SetStatus, Core, Tables
  <1>7. a \in [Items -> Nat] /\ \A i \in Items : a[i] = items[i].allocated
    BY <1>4, Bounds DEF Sure, Allocated
  <1>8. \A i \in Items : items'[i].allocated = IF i \in ItemSet(o) THEN 0 ELSE items[i].allocated
    <2>1. CASE orders[o] \in Locking
      <3> SUFFICES ASSUME NEW i \in Items
                   PROVE  items'[i].allocated = IF i \in ItemSet(o) THEN 0 ELSE items[i].allocated
        OBVIOUS
      <3>1. items[i] \in Progress /\ items[i].allocated \in Nat
        BY <1>7 DEF Core, Tables
      <3> QED
        BY <1>5, <2>1, <3>1 DEF Deallocated, Progress
    <2>2. CASE orders[o] \notin Locking
      BY <1>5, <2>2 DEF Sure, Held
    <2> QED
      BY <2>1, <2>2
  <1>9. Fit'
    <2> SUFFICES ASSUME NEW i \in Items
                 PROVE  /\ Column(outbounds, OfItem(i, Open)) <= items'[i].allocated
                        /\ items'[i].shipped + items'[i].allocated <= Quantity[i]
      BY <1>2 DEF Fit
    <2>1. /\ Column(outbounds, OfItem(i, Open)) <= items[i].allocated
          /\ items[i].shipped + items[i].allocated <= Quantity[i]
      BY DEF Sure, Fit
    <2>2. /\ items[i].shipped \in Int /\ items[i].allocated \in Nat /\ Quantity[i] \in Nat
          /\ Column(outbounds, OfItem(i, Open)) \in Nat
      BY Bounds DEF Sure
    <2>3. i \in ItemSet(o) => Column(outbounds, OfItem(i, Open)) = 0
      <3>1. CASE orders[o] \in Locking
        BY <1>3, <3>1, NoneIn
      <3>2. CASE orders[o] \notin Locking
        BY <2>1, <2>2, <3>2 DEF Sure, Held
      <3> QED
        BY <3>1, <3>2
    <2> QED
      BY <1>2, <1>8, <2>1, <2>2, <2>3
  <1>10. Held'
    <2> SUFFICES ASSUME NEW p \in Orders, NEW i \in ItemSet(p)
                 PROVE  /\ orders'[p] \in Locking => items'[i].allocated = Quantity[i] - items'[i].shipped
                        /\ orders'[p] \notin Locking => items'[i].allocated = 0
                        /\ orders'[p] \in Before => items'[i].shipped = 0
      BY DEF Held
    <2>1. i \in Items
      BY OrderItems
    <2>2. CASE p = o
      BY <1>6, <1>8, <2>1, <2>2 DEF Before, Locking
    <2>3. CASE p # o
      <3>1. i \notin ItemSet(o)
        BY <2>3, LinesAssumption
      <3>2. items'[i].allocated = items[i].allocated /\ items'[i].shipped = items[i].shipped
        BY <1>2, <1>8, <2>1, <3>1
      <3> QED
        BY <1>6, <2>3, <3>2 DEF Sure, Held
    <2> QED
      BY <2>2, <2>3
  <1>11. Filled'
    BY <1>2 DEF Sure, Filled
  <1>12. Backed'
    <2>1. CASE orders[o] \notin Locking
      BY <1>5, <2>1 DEF Sure, Backed
    <2>2. CASE orders[o] \in Locking
      <3>1. PICK e, b : e = OnlyOf(o, a) /\ b = Allocated(items')
        OBVIOUS
      <3>2. e \in [Items -> Int] /\ \A r : OnRow(o, r, a) = Of(e, r)
        BY <1>7, <3>1, OnRowIs, OrderItems
      <3>3. /\ b \in [Items -> Int] /\ a \in [Items -> Int]
            /\ \A i \in Items : b[i] = IF i \in ItemSet(o) THEN 0 ELSE a[i]
        BY <1>2, <1>7, <1>8, <3>1 DEF Allocated, Core, Tables, Progress
      <3>4. \A i \in Items : a[i] = b[i] + e[i] /\ e[i] <= a[i]
        BY <1>7, <3>1, <3>3 DEF OnlyOf
      <3>5. ASSUME NEW r \in Warehouses
            PROVE  stock'[r].locked = Of(b, r)
        <4>1. Of(a, r) = Of(b, r) + Of(e, r)
          BY <3>2, <3>3, <3>4, OfPlus
        <4>2. Of(e, r) <= Of(a, r)
          BY <3>2, <3>3, <3>4, OfMonotone
        <4>3. stock[r].locked = Of(a, r)
          BY <1>4 DEF Sure, Backed
        <4>4. Of(e, r) \in Int /\ Of(b, r) \in Int /\ stock[r] \in Positions
          BY <3>2, <3>3, OfType DEF Core, Tables
        <4>5. stock'[r] = ReleaseStock(stock[r], Of(e, r))
          BY <1>5, <2>2, <3>2
        <4>6. stock'[r].locked = stock[r].locked - Of(e, r)
          <5>1. PICK pos \in Positions, q \in Int : pos = stock[r] /\ q = Of(e, r)
            BY <4>4
          <5>2. q <= pos.locked
            BY <4>2, <4>3, <5>1
          <5>3. ReleaseStock(pos, q).locked = pos.locked - q
            BY <5>2, PositionsKept
          <5> QED
            BY <4>5, <5>1, <5>3
        <4> QED
          BY <4>1, <4>3, <4>4, <4>6
      <3> QED
        BY <3>1, <3>5 DEF Backed
    <2> QED
      BY <2>1, <2>2
  <1>13. Known' /\ Pledged' = OutstandingOrders'
    BY <1>2, AloneDone DEF ServedAlone
  <1>14. Promised'
    <2>1. Pledged' \subseteq Pledged
      BY <1>6, <1>13 DEF Pledged, OutstandingOrders, OpenCommitment
    <2> QED
      BY <1>2, <2>1, PromisedStays
  <1> QED
    BY <1>9, <1>10, <1>11, <1>12, <1>13, <1>14 DEF Sure

-----------------------------------------------------------------------------
(* Outbound orders are requested. *)

\* A column of which only one of the new outbound orders has something.
LEMMA ColumnBehindOne ==
  ASSUME NEW s \in Seq(Row), NEW t \in Seq(Row), DOMAIN s \subseteq DOMAIN t,
         \A n \in DOMAIN s : t[n] = s[n], NEW c \in [Row -> Nat],
         NEW m \in DOMAIN t \ DOMAIN s,
         \A n \in DOMAIN t \ DOMAIN s : n # m => c[t[n]] = 0
  PROVE  Column(t, c) = Column(s, c) + c[t[m]]
  <1> DEFINE S == DOMAIN t
             T == DOMAIN s
             f == [n \in S |-> c[t[n]]]
             h == [n \in T |-> c[s[n]]]
  <1>1. IsFiniteSet(S) /\ T \in SUBSET S /\ (\A n \in S : t[n] \in Row) /\ (\A n \in T : s[n] \in Row)
    BY RowNumbers
  <1>2. /\ f \in [S -> Int] /\ h \in [T -> Int] /\ f[m] = c[t[m]]
        /\ \A n \in T : f[n] = h[n]
        /\ \A n \in S \ T : n # m => f[n] = 0
    BY <1>1
  <1>3. IsFiniteSet(S) /\ T \in SUBSET S /\ m \in S \ T
    BY <1>1
  <1> HIDE DEF S, T, f, h
  <1>4. SumFunction(f) = SumFunction(h) + f[m]
    <2>1. /\ IsFiniteSet(S) /\ T \in SUBSET S /\ m \in S \ T
          /\ f \in [S -> Int] /\ h \in [T -> Int]
          /\ \A n \in T : f[n] = h[n]
          /\ \A n \in S \ T : n # m => f[n] = 0
          => SumFunction(f) = SumFunction(h) + f[m]
      BY TermsAndOne, SMTT(60)
    <2> QED
      BY <1>2, <1>3, <2>1
  <1> QED
    BY <1>2, <1>4 DEF f, h, S, T, Column

\* What the lines of a warehouse have of a line named once.
LEMMA QtyOnce ==
  ASSUME LinesNamedOnce, NEW cart \in Carts, NEW r, NEW k \in DOMAIN cart
  PROVE  QtyIn(Part(cart, r), cart[k].item) <= cart[k].qty
  <1> DEFINE t == Part(cart, r)
             D == {j \in DOMAIN t : t[j].item = cart[k].item}
             f == [j \in D |-> t[j].qty]
  <1>1. /\ t \in LineTables
        /\ \A j \in DOMAIN t : j \in DOMAIN cart /\ t[j] = cart[j]
    BY PartLines
  <1>2. cart[k].qty \in Nat /\ cart[k].qty > 0
    BY CartLines
  <1>3. \A j \in D : j = k
    BY <1>1 DEF LinesNamedOnce
  <1>4. QtyIn(t, cart[k].item) = SumFunction(f)
    BY DEF QtyIn
  <1>5. CASE D = {}
    <2>1. DOMAIN f = {}
      BY <1>5
    <2> HIDE DEF f
    <2>2. SumFunction(f) = 0
      BY <2>1, SumEmpty
    <2> QED
      BY <1>2, <1>4, <2>2
  <1>6. CASE D # {}
    <2>1. D = {k}
      BY <1>3, <1>6
    <2>2. f \in [{k} -> Int] /\ f[k] = cart[k].qty
      BY <1>1, <1>2, <2>1
    <2> HIDE DEF f
    <2>3. SumFunction(f) = cart[k].qty
      BY <2>2, SumOne
    <2> QED
      BY <1>2, <1>4, <2>3
  <1> QED
    BY <1>5, <1>6

\* A new outbound order has lines, all of its warehouse and all of the request.
LEMMA MadeLines ==
  ASSUME NEW cart \in Carts, NEW o, NEW x, MadeOf(x, o, cart)
  PROVE  /\ DOMAIN x.lines # {}
         /\ \A k \in DOMAIN x.lines : /\ k \in DOMAIN cart /\ x.lines[k] = cart[k]
                                      /\ RowOf[cart[k].item] = x.warehouse
  <1>1. PICK k \in DOMAIN cart : RowOf[cart[k].item] = x.warehouse
    BY DEF MadeOf, ItemsIn
  <1>2. k \in DOMAIN Part(cart, x.warehouse)
    BY <1>1 DEF Part
  <1> QED
    BY <1>2, PartLines DEF MadeOf

\* The outbound orders made from an order stay within what is allocated.
LEMMA CreateOutboundSure ==
  ASSUME Core, Sure, HarmlessOverlap, LinesNamedOnce, NEW w \in Workers, CreateOutbound(w)
  PROVE  Sure'
  <1>1. PICK cart, o : cart = job[w].cart /\ o = job[w].order
    OBVIOUS
  <1>2. PICK t : t = outbounds'
    OBVIOUS
  <1>3. /\ Core' /\ UNCHANGED <<orders, items, stock>>
        /\ job[w].kind = "create_outbound" /\ job[w].phase = "checked"
        /\ o \in Orders /\ cart \in Carts
        /\ DOMAIN outbounds \subseteq DOMAIN t /\ \A n \in DOMAIN outbounds : t[n] = outbounds[n]
        /\ \A n \in DOMAIN t \ DOMAIN outbounds : MadeOf(t[n], o, cart)
        /\ \A m, n \in DOMAIN t \ DOMAIN outbounds : m # n => t[m].warehouse # t[n].warehouse
    BY <1>1, <1>2, CreateOutboundKeeps
  <1>4. outbounds \in Seq(Row) /\ t \in Seq(Row) /\ \A n \in DOMAIN t : t[n] \in Row
    BY <1>2, <1>3, RowNumbers DEF Core, Rows
  <1>5. /\ orders[o] \in Locking /\ ItemsIn(cart) \subseteq ItemSet(o)
        /\ \A k \in DOMAIN cart : items[cart[k].item].shipped + cart[k].qty
                                    + Column(outbounds, OfItem(cart[k].item, Open))
                                    <= Quantity[cart[k].item]
    BY <1>1, <1>3, JobOf DEF Sure, Known, Knows, KnowsAlone, Serves, OrderServed
  <1>6. ASSUME NEW i \in Items
        PROVE  Column(t, OfItem(i, Open)) <= items[i].allocated
    <2>1. PICK c \in [Row -> Nat] : c = OfItem(i, Open)
      BY ColumnsAre
    <2>2. /\ Column(outbounds, c) <= items[i].allocated
          /\ Column(outbounds, c) \in Nat /\ items[i].allocated \in Nat
          /\ items[i].shipped \in Int /\ Quantity[i] \in Nat
      BY <2>1, Bounds DEF Sure, Fit
    <2>3. \A x \in Row : c[x] \in Nat /\ (c[x] # 0 => c[x] = QtyIn(x.lines, i))
      BY <2>1, ColumnsAre
    <2>4. \A n \in DOMAIN t \ DOMAIN outbounds : c[t[n]] # 0 =>
             /\ t[n].warehouse = RowOf[i]
             /\ \E k \in DOMAIN cart : cart[k].item = i /\ c[t[n]] <= cart[k].qty
      <3> SUFFICES ASSUME NEW n \in DOMAIN t \ DOMAIN outbounds, c[t[n]] # 0
                   PROVE  /\ t[n].warehouse = RowOf[i]
                          /\ \E k \in DOMAIN cart : cart[k].item = i /\ c[t[n]] <= cart[k].qty
        OBVIOUS
      <3>1. PICK x \in Row : x = t[n] /\ MadeOf(x, o, cart)
        BY <1>3, <1>4
      <3>2. QtyIn(x.lines, i) # 0 /\ x.lines \in LineTables /\ c[x] = QtyIn(x.lines, i)
        BY <2>3, <3>1 DEF Row
      <3>3. PICK k \in DOMAIN x.lines : x.lines[k].item = i
        BY <3>2, QtyType
      <3>4. k \in DOMAIN cart /\ cart[k].item = i /\ RowOf[i] = x.warehouse
        BY <1>3, <3>1, <3>3, MadeLines
      <3>5. QtyIn(Part(cart, x.warehouse), cart[k].item) <= cart[k].qty
        BY <1>3, <3>4, QtyOnce
      <3>6. x.lines = Part(cart, x.warehouse)
        BY <3>1 DEF MadeOf
      <3> QED
        BY <3>1, <3>2, <3>4, <3>5, <3>6
    <2>5. CASE \A n \in DOMAIN t \ DOMAIN outbounds : c[t[n]] = 0
      <3>1. Column(t, c) = Column(outbounds, c)
        BY <1>3, <1>4, <2>5, ColumnBehind
      <3> QED
        BY <2>1, <2>2, <3>1
    <2>6. CASE \E n \in DOMAIN t \ DOMAIN outbounds : c[t[n]] # 0
      <3>1. PICK m \in DOMAIN t \ DOMAIN outbounds : c[t[m]] # 0
        BY <2>6
      <3>2. \A n \in DOMAIN t \ DOMAIN outbounds : n # m => c[t[n]] = 0
        BY <1>3, <2>4, <3>1
      <3>3. Column(t, c) = Column(outbounds, c) + c[t[m]]
        BY <1>3, <1>4, <3>2, ColumnBehindOne
      <3>4. PICK k \in DOMAIN cart : cart[k].item = i /\ c[t[m]] <= cart[k].qty
        BY <2>4, <3>1
      <3>5. c[t[m]] \in Nat /\ cart[k].qty \in Nat
        BY <1>3, <1>4, <2>3, CartLines
      <3>6. items[i].allocated = Quantity[i] - items[i].shipped
        <4>1. i \in ItemsIn(cart)
          BY <3>4, LinesAssumption DEF ItemsIn
        <4> QED
          BY <1>3, <1>5, <4>1 DEF Sure, Held
      <3>7. items[i].shipped + cart[k].qty + Column(outbounds, c) <= Quantity[i]
        BY <1>5, <2>1, <3>4
      <3> QED
        BY <2>1, <2>2, <3>3, <3>4, <3>5, <3>6, <3>7
    <2> QED
      BY <2>5, <2>6
  <1>7. Fit'
    BY <1>2, <1>3, <1>6 DEF Sure, Fit
  <1>8. Filled'
    <2>1. \A n \in DOMAIN t : DOMAIN t[n].lines # {}
      BY <1>3, MadeLines DEF Sure, Filled
    <2> QED
      BY <1>2, <2>1 DEF Filled
  <1>9. Held' /\ Backed'
    BY <1>3 DEF Sure, Held, Backed
  <1>10. Known' /\ Pledged' = OutstandingOrders'
    <2>1. Done(w)
      BY DEF CreateOutbound
    <2> QED
      BY <1>3, <2>1, AloneDone DEF ServedAlone
  <1>11. Promised'
    <2>1. Pledged' \subseteq Pledged
      BY <1>3, <1>10 DEF Pledged, OutstandingOrders
    <2> QED
      BY <1>3, <2>1, PromisedStays
  <1> QED
    BY <1>7, <1>8, <1>9, <1>10, <1>11 DEF Sure

-----------------------------------------------------------------------------
(* What was requested is shipped. *)

\* An open outbound order is of an order that holds stock, and within it.
LEMMA OpenLocks ==
  ASSUME Core, Sure, NEW n \in DOMAIN outbounds, outbounds[n].status \in Open
  PROVE  /\ orders[outbounds[n].order] \in Locking
         /\ \A i \in Items : QtyIn(outbounds[n].lines, i) <= items[i].allocated
  <1>1. PICK x \in Row : x = outbounds[n] /\ Sane(x) /\ x.lines \in LineTables /\ x.status \in Open
    BY CoreTypes DEF Row
  <1>2. ASSUME NEW i \in Items
        PROVE  QtyIn(x.lines, i) <= items[i].allocated
    <2>1. PICK c \in [Row -> Nat] : c = OfItem(i, Open)
      BY ColumnsAre
    <2> DEFINE S == DOMAIN outbounds
               f == [m \in S |-> c[outbounds[m]]]
    <2>2. IsFiniteSet(S) /\ n \in S /\ f \in [S -> Nat] /\ f[n] = c[x]
      BY <1>1, RowNumbers DEF Core, Rows
    <2>3. Column(outbounds, c) = SumFunction(f)
      BY DEF Column
    <2> HIDE DEF S, f
    <2>4. f[n] <= SumFunction(f)
      BY <2>2, SumHolds
    <2>5. c[x] = QtyIn(x.lines, i)
      BY <1>1, <2>1, ColumnsAre
    <2>6. /\ Column(outbounds, c) <= items[i].allocated /\ Column(outbounds, c) \in Nat
          /\ items[i].allocated \in Nat /\ QtyIn(x.lines, i) \in Nat
      BY <1>1, <2>1, Bounds, QtyType DEF Sure, Fit
    <2> QED
      BY <2>2, <2>3, <2>4, <2>5, <2>6
  <1>3. orders[x.order] \in Locking
    <2>1. PICK k \in DOMAIN x.lines : TRUE
      BY <1>1 DEF Sure, Filled
    <2>2. PICK i \in Items : i = x.lines[k].item /\ i \in ItemSet(x.order)
      BY <1>1, <2>1, OrderItems DEF Sane
    <2>3. QtyIn(x.lines, i) \in Nat /\ x.lines[k].qty \in Nat /\ x.lines[k].qty > 0
          /\ x.lines[k].qty <= QtyIn(x.lines, i)
      BY <1>1, <2>1, <2>2, LineTable, QtyType
    <2>4. items[i].allocated \in Nat
      BY Bounds DEF Sure
    <2>5. items[i].allocated # 0
      BY <1>2, <2>3, <2>4
    <2> QED
      BY <1>1, <2>2, <2>5 DEF Sure, Held, Sane
  <1> QED
    BY <1>1, <1>2, <1>3

\* complete_order takes from the stock, the reservation and the open requests
\* what it adds to what was shipped.
LEMMA CommitSure ==
  ASSUME Core, Sure, HarmlessOverlap, DecidedAlone, NEW w \in Workers, Commits(w)
  PROVE  Sure'
  <1>1. PICK n \in DOMAIN outbounds : n = job[w].number
    BY CommitOutboundKeeps DEF Ships
  <1>2. PICK o, x, y, s : o = job[w].order /\ x = outbounds[n] /\ y = outbounds'[n] /\ s = job[w].seen
    OBVIOUS
  <1>3. PICK t, u : t = outbounds' /\ u = items'
    OBVIOUS
  <1>4. /\ Core' /\ job[w].kind = "complete" /\ job[w].phase = "counted" /\ Ships(w)
        /\ o \in Orders /\ SetStatus(w, s) /\ Restated(t, n)
        /\ x.status = "APPROVED" /\ y.status = "COMPLETED"
        /\ \A r \in Warehouses \ {x.warehouse} : stock'[r] = stock[r]
        /\ stock'[x.warehouse] = ShipStock(stock[x.warehouse], TotalQty(x.lines))
        /\ \A i \in Items \ ItemsIn(x.lines) : u[i] = items[i]
        /\ \A i \in ItemsIn(x.lines) : u[i] = Moved(items[i], QtyIn(x.lines, i))
    BY <1>1, <1>2, <1>3, CommitOutboundKeeps
  <1>5. x \in Row /\ Sane(x) /\ x.lines \in LineTables /\ x.warehouse \in Warehouses /\ x.order = o
    BY <1>1, <1>2, <1>4, CoreTypes DEF Row, Ships
  <1>6. s \in {"SHIPPED", "PARTIALLY_SHIPPED", "ALLOCATED"}
    BY <1>1, <1>2, <1>4 DEF Ships
  <1>7. y \in Row /\ y.lines = x.lines /\ t[n] = y
    BY <1>2, <1>3, <1>4, RowNumbers DEF Restated, RowChanged
  <1>8. orders'[o] = s /\ \A p \in Orders \ {o} : orders'[p] = orders[p]
    BY <1>2, <1>4 DEF SetStatus, Core, Tables
  <1>9. /\ orders[o] \in Locking
        /\ \A i \in Items : QtyIn(x.lines, i) <= items[i].allocated
    BY <1>2, <1>4, <1>5, OpenLocks DEF Open
  <1>10. PICK d \in [Items -> Nat] : /\ d = Carried(x.lines)
                                     /\ \A i \in Items : d[i] = QtyIn(x.lines, i)
                                     /\ \A r : Of(d, r) = IF r = x.warehouse THEN TotalQty(x.lines) ELSE 0
    BY <1>5, CarriedIs DEF Carried
  <1>11. \A i \in Items : d[i] # 0 => i \in ItemsIn(x.lines) /\ i \in ItemSet(o)
    <2> SUFFICES ASSUME NEW i \in Items, d[i] # 0 PROVE i \in ItemsIn(x.lines) /\ i \in ItemSet(o)
      OBVIOUS
    <2>1. QtyIn(x.lines, i) # 0
      BY <1>10
    <2> QED
      BY <1>5, <2>1, QtyType, ItemsInType
  <1>12. ASSUME NEW i \in Items
         PROVE  /\ u[i].shipped = items[i].shipped + d[i]
                /\ u[i].allocated = items[i].allocated - d[i]
                /\ d[i] <= items[i].allocated
    <2>1. items[i] \in Progress /\ d[i] \in Nat /\ d[i] <= items[i].allocated
      BY <1>9, <1>10 DEF Core, Tables
    <2>2. CASE i \in ItemsIn(x.lines)
      BY <1>4, <1>10, <2>1, <2>2, MovedType
    <2>3. CASE i \notin ItemsIn(x.lines)
      BY <1>4, <1>11, <2>1, <2>3 DEF Progress
    <2> QED
      BY <2>1, <2>2, <2>3
  <1>13. u \in [Items -> Progress]
    BY <1>3, <1>4 DEF Core, Tables
  <1>14. Fit'
    <2>1. ASSUME NEW i \in Items
          PROVE  /\ Column(t, OfItem(i, Open)) <= u[i].allocated
                 /\ u[i].shipped + u[i].allocated <= Quantity[i]
      <3>1. PICK c \in [Row -> Nat] : c = OfItem(i, Open)
        BY ColumnsAre
      <3>2. c[x] = d[i] /\ c[y] = 0
        BY <1>4, <1>5, <1>7, <1>10, <3>1, ColumnsAre DEF Open
      <3>3. Column(t, c) = Column(outbounds, c) + (c[y] - c[x]) /\ Column(outbounds, c) \in Nat
        BY <1>2, <1>4, <1>7, ColumnRestated
      <3>4. /\ Column(outbounds, c) <= items[i].allocated
            /\ items[i].shipped + items[i].allocated <= Quantity[i]
        BY <3>1 DEF Sure, Fit
      <3>5. /\ items[i].shipped \in Int /\ items[i].allocated \in Nat /\ Quantity[i] \in Nat
            /\ d[i] \in Nat
        BY Bounds DEF Sure
      <3> QED
        BY <1>12, <3>1, <3>2, <3>3, <3>4, <3>5
    <2> QED
      BY <1>3, <2>1 DEF Fit
  <1>15. Held'
    <2>1. ASSUME NEW p \in Orders, NEW i \in ItemSet(p)
          PROVE  /\ orders'[p] \in Locking => u[i].allocated = Quantity[i] - u[i].shipped
                 /\ orders'[p] \notin Locking => u[i].allocated = 0
                 /\ orders'[p] \in Before => u[i].shipped = 0
      <3>1. i \in Items
        BY OrderItems
      <3>2. /\ items[i].shipped \in Int /\ items[i].allocated \in Nat /\ Quantity[i] \in Nat
            /\ d[i] \in Nat
        BY <3>1, Bounds DEF Sure
      <3>3. CASE p # o
        <4>1. i \notin ItemSet(o)
          BY <1>4, <3>3, LinesAssumption
        <4>2. d[i] = 0
          BY <1>11, <3>1, <4>1
        <4>3. u[i].shipped = items[i].shipped /\ u[i].allocated = items[i].allocated
          BY <1>12, <3>1, <3>2, <4>2
        <4> QED
          BY <1>8, <3>3, <4>3 DEF Sure, Held
      <3>4. CASE p = o
        <4>1. items[i].allocated = Quantity[i] - items[i].shipped
          BY <1>9, <3>4 DEF Sure, Held
        <4>2. u[i].allocated = Quantity[i] - u[i].shipped /\ u[i].allocated >= 0 /\ u[i].shipped \in Int
          BY <1>12, <3>1, <3>2, <4>1
        <4>3. s = "SHIPPED" => u[i].shipped >= Quantity[i]
          <5>1. u = [j \in Items |-> SeenItem(w, j)]
            BY <1>3 DEF Commits, CommitOutbound
          <5>2. s = "SHIPPED" => SeenItem(w, i).shipped >= Quantity[i]
            BY <1>2, <1>4, <3>4 DEF Sure, Known, Knows, KnowsRacing
          <5> QED
            BY <3>1, <5>1, <5>2
        <4>4. s = "SHIPPED" => u[i].allocated = 0
          BY <3>2, <4>2, <4>3
        <4> QED
          BY <1>6, <1>8, <3>4, <4>2, <4>4 DEF Before, Locking
      <3> QED
        BY <3>3, <3>4
    <2> QED
      BY <1>3, <2>1 DEF Held
  <1>16. Filled'
    <2>1. \A m \in DOMAIN t : DOMAIN t[m].lines # {}
      BY <1>4 DEF Sure, Filled, Restated, RowChanged
    <2> QED
      BY <1>3, <2>1 DEF Filled
  <1>17. PICK a, b : a = Allocated(items) /\ b = Allocated(u)
    OBVIOUS
  <1>18. /\ a \in [Items -> Int] /\ b \in [Items -> Int] /\ d \in [Items -> Int]
         /\ \A i \in Items : a[i] = b[i] + d[i] /\ d[i] <= a[i]
    <2>1. /\ a \in [Items -> Int] /\ b \in [Items -> Int] /\ d \in [Items -> Int]
          /\ \A i \in Items : a[i] = items[i].allocated /\ b[i] = u[i].allocated
      BY <1>13, <1>17 DEF Allocated, Core, Tables, Progress
    <2>2. \A i \in Items : a[i] \in Int /\ b[i] \in Int /\ d[i] \in Int
      BY <2>1
    <2>3. \A i \in Items : a[i] = b[i] + d[i] /\ d[i] <= a[i]
      <3> SUFFICES ASSUME NEW i \in Items PROVE a[i] = b[i] + d[i] /\ d[i] <= a[i]
        OBVIOUS
      <3> QED
        BY <1>12, <2>1, <2>2
    <2> QED
      BY <2>1, <2>3
  <1>19. ASSUME NEW r \in Warehouses
         PROVE  /\ stock'[r].current = stock[r].current - Of(d, r)
                /\ stock'[r].locked = Of(b, r)
                /\ Of(d, r) \in Int
    <2>1. Of(a, r) = Of(b, r) + Of(d, r)
      BY <1>18, OfPlus
    <2>2. Of(d, r) <= Of(a, r)
      BY <1>18, OfMonotone
    <2>3. stock[r].locked = Of(a, r)
      BY <1>17 DEF Sure, Backed
    <2>4. /\ Of(b, r) \in Int /\ Of(d, r) \in Int /\ stock[r] \in Positions
          /\ stock[r].current \in Int
      BY <1>18, OfType DEF Core, Tables, Positions
    <2>5. CASE r = x.warehouse
      <3>1. stock'[r] = ShipStock(stock[r], Of(d, r))
        BY <1>4, <1>10, <2>5
      <3>2. stock'[r].locked = stock[r].locked - Of(d, r) /\ stock'[r].current = stock[r].current - Of(d, r)
        <4>1. PICK pos \in Positions, q \in Int : pos = stock[r] /\ q = Of(d, r)
          BY <2>4
        <4>2. q <= pos.locked
          BY <2>2, <2>3, <4>1
        <4>3. ShipStock(pos, q).current = pos.current - q /\ ShipStock(pos, q).locked = pos.locked - q
          BY <4>2, PositionsKept
        <4> QED
          BY <3>1, <4>1, <4>3
      <3> QED
        BY <2>1, <2>3, <2>4, <3>2
    <2>6. CASE r # x.warehouse
      <3>1. stock'[r] = stock[r] /\ Of(d, r) = 0
        BY <1>4, <1>10, <2>6
      <3> QED
        BY <2>1, <2>3, <2>4, <3>1
    <2> QED
      BY <2>5, <2>6
  <1>20. Backed'
    BY <1>3, <1>17, <1>19 DEF Backed
  <1>21. job' = [job EXCEPT ![w] = Idle]
    BY DEF Commits, CommitOutbound, Done
  <1>22. job'[w] = Idle /\ \A v \in Workers \ {w} : job'[v] = job[v]
    BY <1>21, NewJob
  <1>23. Known'
    <2>1. ASSUME NEW v \in Workers \ {w}
          PROVE  Knows(v)'
      <3>1. KnowsRacing(v) /\ Acts(w)
        BY <1>4, IdleIs DEF Sure, Known, Knows, Acts
      <3>2. job[v].kind \in {"submit", "approve", "reject", "close"} => job[v].order \in Orders
        BY JobOf DEF Serves, OrderServed, OrderRequests
      <3>3. job[v].kind \in {"submit", "approve", "reject", "close"} => job[v].order # o
        BY <1>9, <3>1 DEF KnowsRacing, Before, Locking
      <3>4. /\ job[v].kind \in {"submit", "approve", "reject"} => orders'[job[v].order] \in Before
            /\ job[v].kind = "close" => orders'[job[v].order] \in {"SHIPPED", "CLOSED"}
        BY <1>8, <3>1, <3>2, <3>3 DEF KnowsRacing
      <3>5. job[v].kind = "complete" /\ job[v].phase = "counted" /\ job[v].seen = "SHIPPED" =>
              \A i \in ItemSet(job[v].order) : SeenItem(v, i)'.shipped >= Quantity[i]
        <4> SUFFICES ASSUME job[v].kind = "complete", job[v].phase = "counted",
                            job[v].seen = "SHIPPED", NEW i \in ItemSet(job[v].order)
                     PROVE  SeenItem(v, i)'.shipped >= Quantity[i]
          OBVIOUS
        <4>1. SeenItem(v, i).shipped >= Quantity[i]
          BY <3>1 DEF KnowsRacing
        <4>2. i \in Items
          BY JobOf, OrderItems, CoreTypes DEF Serves, Ships, Sane
        <4>3. /\ items[i].shipped \in Int /\ d[i] \in Nat /\ Quantity[i] \in Int
          BY <4>2, Bounds DEF Sure
        <4>4. u[i].shipped = items[i].shipped + d[i]
          BY <1>12, <4>2
        <4>5. SeenItem(v, i)' = IF i \in DOMAIN job[v].items THEN job[v].items[i] ELSE u[i]
          BY <1>3, <1>22 DEF SeenItem
        <4>6. CASE i \in DOMAIN job[v].items
          BY <4>1, <4>5, <4>6 DEF SeenItem
        <4>7. CASE i \notin DOMAIN job[v].items
          <5>1. items[i].shipped >= Quantity[i]
            BY <4>1, <4>7 DEF SeenItem
          <5> QED
            BY <4>3, <4>4, <4>5, <4>7, <5>1
        <4> QED
          BY <4>6, <4>7
      <3> QED
        BY <1>22, <3>1, <3>4, <3>5, OthersKnow
    <2> QED
      BY <1>22, <2>1, IdleKnows DEF Known
  <1>24. Promised'
    <2>1. PICK P, R : P = Pledged /\ R = Pledged'
      OBVIOUS
    <2>2. o \in P
      BY <1>4, <1>9, <2>1 DEF Pledged, OpenCommitment, Locking
    <2>3. R \subseteq P
      <3> SUFFICES ASSUME NEW p \in Orders, p \in R PROVE p \in P
        BY <2>1 DEF Pledged
      <3>1. \/ orders'[p] \in OpenCommitment
            \/ \E v \in Workers \ {w} : job[v].kind \in {"submit", "approve"} /\ job[v].order = p
        BY <1>22, <2>1, IdleIs DEF Pledged
      <3> QED
        BY <1>8, <2>1, <2>2, <3>1 DEF Pledged
    <2>4. ASSUME NEW r \in Warehouses
          PROVE  Owed(u, R, r) <= stock'[r].current
      <3>1. items \in [Items -> Progress] /\ \A i \in Items : u[i].shipped <= Quantity[i]
        <4>1. \A i \in Items : u[i].shipped + u[i].allocated <= Quantity[i]
          BY <1>3, <1>14 DEF Fit
        <4>2. ASSUME NEW i \in Items
              PROVE  u[i].shipped <= Quantity[i]
          <5>1. /\ u[i].shipped \in Int /\ u[i].allocated \in Int /\ Quantity[i] \in Int
                /\ items[i].allocated \in Nat /\ d[i] \in Nat
            BY <1>13, Bounds DEF Sure, Progress
          <5> QED
            BY <1>12, <4>1, <5>1
        <4> QED
          BY <4>2 DEF Core, Tables
      <3>2. Owed(u, R, r) <= Owed(u, P, r)
        BY <1>13, <2>3, <3>1, OwedMonotone
      <3>3. Owed(items, P, r) = Owed(u, P, r) + Of(d, r)
        <4>1. \A i \in Items : u[i].shipped = items[i].shipped + d[i]
          BY <1>12
        <4>2. \A i \in Items : d[i] # 0 => \E p \in P : i \in ItemSet(p)
          BY <1>11, <2>2
        <4> QED
          BY <1>13, <1>18, <3>1, <4>1, <4>2, OwedLess, SMTT(30)
      <3>4. Owed(items, P, r) <= stock[r].current
        BY <2>1 DEF Sure, Promised
      <3>5. /\ Owed(u, R, r) \in Int /\ Owed(u, P, r) \in Int /\ stock[r].current \in Int
        BY <1>13, OutstandingType, OfType DEF Owed, Core, Tables, Positions
      <3>6. stock'[r].current = stock[r].current - Of(d, r) /\ Of(d, r) \in Int
        BY <1>19
      <3> QED
        BY <3>2, <3>3, <3>4, <3>5, <3>6
    <2> QED
      BY <1>3, <2>1, <2>4 DEF Promised
  <1> QED
    BY <1>14, <1>15, <1>16, <1>20, <1>23, <1>24 DEF Sure

-----------------------------------------------------------------------------
(* Every step, and what follows. *)

\* What is promised is there, whatever step is taken.
LEMMA SureKept ==
  ASSUME Core, Sure, FromOrders, HarmlessOverlap, OrdersStay, LinesNamedOnce, [Next]_vars
  PROVE  Sure'
  <1>0. DecidedAlone
    BY DEF HarmlessOverlap, Harmless, DecidedAlone
  <1>1. CASE UNCHANGED vars
    <2>1. UNCHANGED <<orders, items, outbounds, stock, job>>
      BY <1>1 DEF vars, given
    <2>2. Fit' /\ Held' /\ Filled' /\ Backed'
      BY <2>1 DEF Sure, Fit, Held, Filled, Backed
    <2>3. Promised'
      BY <2>1 DEF Sure, Promised, Pledged
    <2>4. Known'
      <3>1. InStock' = InStock /\ OutstandingOrders' = OutstandingOrders
        BY <2>1 DEF InStock, OutstandingOrders
      <3>2. ASSUME NEW w \in Workers
            PROVE  Knows(w)'
        <4>1. KnowsAlone(w) /\ KnowsRacing(w)
          BY DEF Sure, Known, Knows
        <4>2. KnowsAlone(w)'
          BY <2>1, <3>1, <4>1 DEF KnowsAlone
        <4>3. KnowsRacing(w)'
          BY <2>1, <4>1 DEF KnowsRacing, SeenItem
        <4> QED
          BY <4>2, <4>3 DEF Knows
      <3> QED
        BY <3>2 DEF Known
    <2> QED
      BY <2>2, <2>3, <2>4 DEF Sure
  <1>2. CASE Next
    <2>1. PICK w \in Workers : Reads(w) \/ WritesOrder(w) \/ Destroys(w) \/ WritesOutbounds(w)
      BY <1>2, NextIs
    <2>2. CASE Reads(w)
      BY <2>2, ReadsSure
    <2>3. CASE WritesOrder(w)
      BY <2>3, CreateOrderSure, UpdateOrderSure, StatusSure, AllocateSure, CancelSure DEF WritesOrder
    <2>4. CASE Destroys(w)
      <3>1. ~ \E o \in Orders : DestroyOrder(w, o)
        BY DestroyOrderKeeps DEF OrdersStay, Core, Tables
      <3> QED
        BY <2>4, <3>1, DestroyOutboundSure DEF Destroys
    <2>5. CASE WritesOutbounds(w)
      BY <1>0, <2>5, CreateOutboundSure, CommitSure, MoveSure DEF WritesOutbounds
    <2> QED
      BY <2>1, <2>2, <2>3, <2>4, <2>5
  <1> QED
    BY <1>1, <1>2

\* So does the invariant of the second part.
THEOREM WholeHolds ==
  ASSUME FromOrders, HarmlessOverlap, OrdersStay, LinesNamedOnce
  PROVE  Spec => []Whole
  <1>1. DecidedAlone
    BY DEF HarmlessOverlap, Harmless, DecidedAlone
  <1>2. Init => Whole
    BY InitCore, InitSure DEF Whole
  <1>3. Whole /\ [Next]_vars => Whole'
    BY <1>1, CoreKept, SureKept DEF Whole
  <1> QED
    BY <1>2, <1>3, PTL DEF Spec

(***************************************************************************)
(* No more is shipped of an order line, or still requested on open         *)
(* outbound orders, than was ordered: two requests for outbound orders,    *)
(* or one and a completion, never take the same quantity twice             *)
(* (create_outbound_order, complete_order).                                *)
(***************************************************************************)
THEOREM NeverBeyondOrdered ==
  ASSUME FromOrders, HarmlessOverlap, OrdersStay, LinesNamedOnce
  PROVE  Spec => []WithinOrdered
  <1>1. ASSUME Whole
        PROVE  WithinOrdered
    <2> SUFFICES ASSUME NEW i \in Items
                 PROVE  items[i].shipped + OnOutbounds(i, Open) <= Quantity[i]
      BY DEF WithinOrdered
    <2>1. OnOutbounds(i, Open) = Column(outbounds, OfItem(i, Open))
      BY <1>1, OnOutboundsColumn DEF Whole
    <2>2. /\ items[i].shipped \in Int /\ items[i].allocated \in Nat /\ Quantity[i] \in Nat
          /\ Column(outbounds, OfItem(i, Open)) \in Nat
      BY <1>1, Bounds DEF Whole, Sure
    <2>3. /\ Column(outbounds, OfItem(i, Open)) <= items[i].allocated
          /\ items[i].shipped + items[i].allocated <= Quantity[i]
      BY <1>1 DEF Whole, Sure, Fit
    <2> QED
      BY <2>1, <2>2, <2>3
  <1> QED
    BY <1>1, WholeHolds, PTL

(***************************************************************************)
(* The stock is never promised twice: locked_qty of every warehouse is     *)
(* what its order lines have allocated, and what the open orders still     *)
(* have to ship from it is in it, while submissions, approvals and         *)
(* completions overlap (allocate_stock, release_allocated_stock,           *)
(* ship_stock, get_open_sales_commitment_quantity).                        *)
(***************************************************************************)
THEOREM StockIsSound ==
  ASSUME FromOrders, HarmlessOverlap, OrdersStay, LinesNamedOnce
  PROVE  Spec => []StockSound
  <1>1. DecidedAlone
    BY DEF HarmlessOverlap, Harmless, DecidedAlone
  <1>2. Spec => []TypeOK
    BY <1>1, Types
  <1>3. ASSUME Whole
        PROVE  ReservationsBacked
    <2> SUFFICES ASSUME NEW r \in Warehouses
                 PROVE  stock[r].locked =
                          SumFunction([i \in {i \in Items : RowOf[i] = r} |-> items[i].allocated])
      BY DEF ReservationsBacked
    <2>1. PICK a : a = Allocated(items)
      OBVIOUS
    <2>2. a \in [Items -> Int] /\ \A i \in Items : a[i] = items[i].allocated
      BY <1>3, <2>1, Bounds DEF Allocated, Whole, Sure
    <2>3. PICK h : h = [i \in {i \in Items : RowOf[i] = r} |-> items[i].allocated]
      OBVIOUS
    <2>4. h = [i \in {i \in Items : RowOf[i] = r} |-> a[i]]
      BY <2>2, <2>3
    <2>5. SumFunction(h) = Of(a, r)
      BY <2>2, <2>4, OfPart
    <2> QED
      BY <1>3, <2>1, <2>3, <2>5 DEF Whole, Sure, Backed
  <1>4. ASSUME Whole
        PROVE  CommitmentsCovered
    <2> SUFFICES ASSUME NEW r \in Warehouses PROVE Commitment(r, NoOrder) <= stock[r].current
      BY DEF CommitmentsCovered
    <2>1. items \in [Items -> Progress]
      BY <1>3, <1>4 DEF Whole, Core, Tables
    <2>2. Commitment(r, NoOrder) = Owed(items, OutstandingOrders \ {NoOrder}, r)
      BY <2>1, CommitmentIs
    <2>3. Owed(items, OutstandingOrders \ {NoOrder}, r) <= stock[r].current
      BY <1>4, OthersPromised DEF Whole
    <2> QED
      BY <2>2, <2>3
  <1>5. Whole => ReservationsBacked /\ CommitmentsCovered
    BY <1>3, <1>4
  <1>6. TypeOK /\ ReservationsBacked /\ CommitmentsCovered => StockSound
    BY DEF StockSound
  <1> QED
    BY <1>2, <1>5, <1>6, WholeHolds, PTL

-----------------------------------------------------------------------------
(***************************************************************************)
(* The third part: the status of an order is true of it.  What the lines   *)
(* of an order hold is part of the invariant above, and so is that the     *)
(* orders that are over are written by nobody.  What the status tells of   *)
(* the shipments needs that completions wait for each other                *)
(* (CompletesAlone): each counts the lines without those the other has not *)
(* committed.                                                              *)
(***************************************************************************)
\* Completions overlap with nothing.
CompletesAlone == "complete" \notin Racing

\* An order without lines is refused (the create view, update_order).
OrdersHaveLines == \A o \in Orders : ItemSet(o) # {}

\* What the requests that write an order do to its status; nothing is shipped.
LEMMA OrderMoves ==
  ASSUME Core, Sure, NEW w \in Workers, WritesOrder(w)
  PROVE  /\ \A i \in Items : items'[i].shipped = items[i].shipped
         /\ \E o \in Orders, s \in OrderStatus :
              /\ orders'[o] = s /\ \A p \in Orders \ {o} : orders'[p] = orders[p]
              /\ \/ orders[o] \in Before /\ s \in Before
                 \/ orders[o] = "APPROVED" /\ s = "ALLOCATED"
                 \/ orders[o] \in {"SHIPPED", "CLOSED"} /\ s = "CLOSED"
                 \/ orders[o] \in Before \cup Locking /\ s = "CANCELLED"
  <1> DEFINE o == job[w].order
  <1>1. ASSUME NEW s, o \in Orders, SetStatus(w, s)
        PROVE  orders'[o] = s /\ \A p \in Orders \ {o} : orders'[p] = orders[p]
    BY <1>1 DEF SetStatus, Core, Tables
  <1>2. ASSUME o \in Orders, orders[o] \in Before, items' = FreshItems(o)
        PROVE  \A i \in Items : items'[i].shipped = items[i].shipped
    <2>1. \A i \in ItemSet(o) : items[i].shipped = 0
      BY <1>2 DEF Sure, Held
    <2> QED
      BY <1>2, <2>1, FreshType
  <1>3. KnowsAlone(w) /\ KnowsRacing(w)
    BY DEF Sure, Known, Knows
  <1>4. CASE CreateOrder(w)
    <2>1. o \in Orders /\ items' = FreshItems(o) /\ orders[o] \in Before /\ SetStatus(w, "DRAFT")
      BY <1>4, CreateOrderKeeps DEF CreateOrder, Before
    <2> QED
      BY <1>1, <1>2, <2>1 DEF Before, OrderStatus
  <1>5. CASE UpdateOrder(w)
    <2>1. o \in Orders /\ (items' = items \/ items' = FreshItems(o)) /\ SetStatus(w, "DRAFT")
      BY <1>5, UpdateOrderKeeps DEF UpdateOrder
    <2>2. orders[o] \in Before
      BY <1>3, <1>5 DEF UpdateOrder, At, KnowsAlone, Before
    <2> QED
      BY <1>1, <1>2, <2>1, <2>2 DEF Before, OrderStatus
  <1>6. CASE WritesStatus(w)
    <2>1. PICK s \in OrderStatus :
            /\ SetStatus(w, s)
            /\ job[w].kind \in {"submit", "approve"} => s \in {"PENDING_APPROVAL", "APPROVED"}
            /\ job[w].kind = "reject" => s = "REJECTED"
            /\ job[w].kind = "close" => s = "CLOSED"
      BY <1>6, StatusWritten DEF WritesStatus
    <2>2. o \in Orders /\ items' = items /\ job[w].kind \in {"submit", "approve", "reject", "close"}
      BY <1>6, StatusWritten DEF WritesStatus
    <2>3. /\ job[w].kind # "close" => orders[o] \in Before /\ s \in Before
          /\ job[w].kind = "close" => orders[o] \in {"SHIPPED", "CLOSED"} /\ s = "CLOSED"
      BY <1>3, <2>1, <2>2 DEF KnowsRacing, Before
    <2> QED
      BY <1>1, <2>1, <2>2, <2>3
  <1>7. CASE AllocateStock(w)
    <2>1. /\ o \in Orders /\ SetStatus(w, "ALLOCATED")
          /\ \A i \in Items : items'[i].shipped = items[i].shipped
      BY <1>7, AllocateStockKeeps
    <2>2. orders[o] = "APPROVED"
      BY <1>3, <1>7 DEF AllocateStock, At, KnowsAlone
    <2> QED
      BY <1>1, <2>1, <2>2 DEF OrderStatus
  <1>8. CASE CancelOrder(w)
    <2>1. /\ o \in Orders /\ SetStatus(w, "CANCELLED")
          /\ \A i \in Items : items'[i].shipped = items[i].shipped
      BY <1>8, CancelOrderKeeps
    <2>2. orders[o] \in Before \cup Locking
      BY <1>3, <1>8 DEF CancelOrder, At, KnowsAlone
    <2> QED
      BY <1>1, <2>1, <2>2 DEF OrderStatus
  <1> QED
    BY <1>4, <1>5, <1>6, <1>7, <1>8 DEF WritesOrder

\* A shipment of an order writes the order while it holds stock, and its lines.
LEMMA CommitMoves ==
  ASSUME Core, Sure, DecidedAlone, NEW w \in Workers, Commits(w)
  PROVE  \E o \in Orders :
           /\ o = job[w].order /\ orders[o] \in Locking
           /\ orders'[o] = job[w].seen /\ \A p \in Orders \ {o} : orders'[p] = orders[p]
           /\ \A i \in Items \ ItemSet(o) : items'[i] = items[i]
           /\ \A i \in Items : items'[i] = SeenItem(w, i)
           /\ job[w].kind = "complete" /\ job[w].phase = "counted"
           /\ job[w].seen \in {"SHIPPED", "PARTIALLY_SHIPPED", "ALLOCATED"}
  <1>1. PICK n \in DOMAIN outbounds : n = job[w].number
    BY CommitOutboundKeeps DEF Ships
  <1>2. PICK x, o : x = outbounds[n] /\ o = job[w].order
    OBVIOUS
  <1>3. /\ job[w].kind = "complete" /\ job[w].phase = "counted" /\ Ships(w)
        /\ o \in Orders /\ SetStatus(w, job[w].seen) /\ x.status = "APPROVED"
        /\ \A i \in Items \ ItemsIn(x.lines) : items'[i] = items[i]
    BY <1>1, <1>2, CommitOutboundKeeps
  <1>4. x \in Row /\ Sane(x) /\ x.order = o
    BY <1>1, <1>2, <1>3, CoreTypes DEF Ships
  <1>5. ItemsIn(x.lines) \subseteq ItemSet(o)
    BY <1>4, ItemsInType
  <1>6. orders[o] \in Locking
    BY <1>1, <1>2, <1>3, <1>4, OpenLocks DEF Open
  <1>7. \A i \in Items : items'[i] = SeenItem(w, i)
    BY DEF Commits, CommitOutbound
  <1> QED
    BY <1>2, <1>3, <1>5, <1>6, <1>7 DEF SetStatus, Ships, Core, Tables

\* Of what is over nothing is written.
LEMMA FinishedStep ==
  ASSUME Core, Sure, FromOrders, HarmlessOverlap, OrdersStay, Next,
         NEW o \in Orders, orders[o] \in {"CANCELLED", "CLOSED"}
  PROVE  orders'[o] = orders[o]
  <1>0. DecidedAlone
    BY DEF HarmlessOverlap, Harmless, DecidedAlone
  <1>1. PICK w \in Workers : Reads(w) \/ WritesOrder(w) \/ Destroys(w) \/ WritesOutbounds(w)
    BY NextIs
  <1>2. CASE Reads(w)
    BY <1>2, ReadsKeep DEF Quiet
  <1>3. CASE WritesOrder(w)
    <2>1. PICK p \in Orders, s \in OrderStatus :
            /\ orders'[p] = s /\ \A q \in Orders \ {p} : orders'[q] = orders[q]
            /\ \/ orders[p] \in Before /\ s \in Before
               \/ orders[p] = "APPROVED" /\ s = "ALLOCATED"
               \/ orders[p] \in {"SHIPPED", "CLOSED"} /\ s = "CLOSED"
               \/ orders[p] \in Before \cup Locking /\ s = "CANCELLED"
      BY <1>3, OrderMoves
    <2> QED
      BY <2>1 DEF Before, Locking
  <1>4. CASE Destroys(w)
    <2>1. ~ \E p \in Orders : DestroyOrder(w, p)
      BY DestroyOrderKeeps DEF OrdersStay, Core, Tables
    <2> QED
      BY <1>4, <2>1, DestroyOutboundKeeps DEF Destroys
  <1>5. CASE Commits(w)
    BY <1>0, <1>5, CommitMoves DEF Locking
  <1> QED
    BY <1>0, <1>1, <1>2, <1>3, <1>4, <1>5, CreateOutboundKeeps, MoveOutboundKeeps DEF WritesOutbounds

(***************************************************************************)
(* A cancelled or closed order stays so: whatever was read of it before,   *)
(* no submission, approval, rejection, closing or completion under way at  *)
(* the time brings it back, and no update, allocation or cancellation that *)
(* waits its turn (cancel_order, close_order, complete_order).             *)
(***************************************************************************)
THEOREM FinishedStay ==
  ASSUME FromOrders, HarmlessOverlap, OrdersStay, LinesNamedOnce
  PROVE  Spec => FinishedOrdersStay
  <1>1. Whole /\ [Next]_vars =>
          [~ Edits => \A o \in Orders :
             orders[o] \in {"CANCELLED", "CLOSED"} => orders'[o] \in {orders[o], "NONE"}]_vars
    BY FinishedStep DEF Whole
  <1> QED
    BY <1>1, WholeHolds, PTL DEF Spec, FinishedOrdersStay

(***************************************************************************)
(* A line has allocated what is left to ship while its order is ALLOCATED  *)
(* or PARTIALLY_SHIPPED, and nothing before and after, though completions  *)
(* overlap (allocate_stock, release_allocated_stock, complete_order).      *)
(***************************************************************************)
THEOREM AllocationHolds ==
  ASSUME FromOrders, HarmlessOverlap, OrdersStay, LinesNamedOnce
  PROVE  Spec => []AllocationMatchesStatus
  <1>1. Whole => AllocationMatchesStatus
    BY DEF Whole, Sure, Held, AllocationMatchesStatus
  <1> QED
    BY <1>1, WholeHolds, PTL

-----------------------------------------------------------------------------
(* The status tells what was shipped. *)

\* Nothing is left to ship.
AllShipped(o) == \A i \in ItemSet(o) : items[i].shipped >= Quantity[i]

\* The status tells whether none, some or all of the lines were shipped; an
\* order of which everything was shipped is not cancelled.
Told ==
  \A o \in Orders :
    /\ orders[o] = "ALLOCATED" => \A i \in ItemSet(o) : items[i].shipped = 0
    /\ orders[o] = "PARTIALLY_SHIPPED" => \E i \in ItemSet(o) : items[i].shipped # 0
    /\ orders[o] \in {"SHIPPED", "CLOSED"} => AllShipped(o)
    /\ orders[o] \in {"PARTIALLY_SHIPPED", "CANCELLED"} => ~ AllShipped(o)

\* What a completion counted is still so.
Counted ==
  \A w \in Workers :
    job[w].kind = "complete" /\ job[w].phase = "counted" => job[w].seen = StatusOf(w, job[w].order)

\* Beside a completion nobody acts.
LEMMA CompletingAlone ==
  ASSUME Core, CompletesAlone, NEW v \in Workers, NEW w \in Workers \ {v},
         job[v].kind = "complete"
  PROVE  ~ Acts(w)
  BY IdleIs DEF Core, Serving, Apart, Acts, MayStart, CompletesAlone

\* A step is of a worker that begins a request or serves one; the others'
\* requests stay as they are, and only CountShipped counts.
LEMMA StepOfOne ==
  ASSUME Core, NEW w \in Workers,
         Reads(w) \/ WritesOrder(w) \/ Destroys(w) \/ WritesOutbounds(w)
  PROVE  /\ Acts(w)
         /\ \A v \in Workers \ {w} : job'[v] = job[v]
         /\ CountShipped(w) \/ job'[w].phase # "counted"
  <1>1. /\ Idle.phase = "idle" /\ job \in [Workers -> Job]
        /\ \A j \in Job : j.kind # "idle" => j # Idle
    BY IdleIs DEF Core, Serving
  <1>2. job[w].kind # "idle" => Acts(w)
    BY IdleIs DEF Acts
  <1>3. CASE Loads(w)
    <2>1. PICK kind, j : /\ MayStart(w, kind) /\ job' = [job EXCEPT ![w] = j]
                         /\ j.phase # "counted"
      <3>1. ASSUME NEW o \in Orders, StartCreate(w, o)
            PROVE  \E kind, j : /\ MayStart(w, kind) /\ job' = [job EXCEPT ![w] = j]
                                /\ j.phase # "counted"
        <4>1. [Idle EXCEPT !.kind = "create", !.phase = "loaded", !.order = o].phase # "counted"
          BY DEF Idle
        <4> QED
          BY <3>1, <4>1 DEF StartCreate
      <3>2. ASSUME NEW kind, NEW o, NEW cart, LoadOrder(w, kind, o, cart)
            PROVE  \E k, j : /\ MayStart(w, k) /\ job' = [job EXCEPT ![w] = j]
                             /\ j.phase # "counted"
        <4>1. PICK lines : job' = [job EXCEPT ![w] = [Idle EXCEPT !.kind = kind, !.phase = "loaded",
                                     !.order = o, !.seen = orders[o], !.cart = cart, !.items = lines]]
          BY <3>2 DEF LoadOrder
        <4>2. [Idle EXCEPT !.kind = kind, !.phase = "loaded", !.order = o, !.seen = orders[o],
                           !.cart = cart, !.items = lines].phase # "counted"
          BY DEF Idle
        <4>3. MayStart(w, kind)
          BY <3>2 DEF LoadOrder
        <4> QED
          BY <4>1, <4>2, <4>3
      <3>3. ASSUME NEW kind, NEW n, LoadOutbound(w, kind, n)
            PROVE  \E k, j : /\ MayStart(w, k) /\ job' = [job EXCEPT ![w] = j]
                             /\ j.phase # "counted"
        <4>1. [Idle EXCEPT !.kind = kind, !.phase = "loaded", !.number = n].phase # "counted"
          BY DEF Idle
        <4> QED
          BY <3>3, <4>1 DEF LoadOutbound
      <3>4. ASSUME NEW n, CheckOutbound(w, n)
            PROVE  \E k, j : /\ MayStart(w, k) /\ job' = [job EXCEPT ![w] = j]
                             /\ j.phase # "counted"
        <4>1. [Idle EXCEPT !.kind = "complete", !.phase = "checked", !.number = n,
                           !.order = outbounds[n].order].phase # "counted"
          BY DEF Idle
        <4>2. PICK j : j = [Idle EXCEPT !.kind = "complete", !.phase = "checked", !.number = n,
                                        !.order = outbounds[n].order]
          OBVIOUS
        <4>3. MayStart(w, "complete") /\ job' = [job EXCEPT ![w] = j]
          BY <3>4, <4>2 DEF CheckOutbound
        <4> QED
          BY <4>1, <4>2, <4>3
      <3> QED
        BY <1>3, <3>1, <3>2, <3>3, <3>4 DEF Loads
    <2> QED
      BY <1>1, <2>1 DEF Acts
  <1>4. CASE ReadStock(w) \/ CheckSellable(w) \/ CheckCancel(w) \/ CheckPending(w)
    <2>1. job[w].kind # "idle"
      BY <1>4, JobOf, IdleIs DEF ReadStock, CheckSellable, CheckCancel, CheckPending, At, Serves
    <2>2. /\ \A v \in Workers \ {w} : job'[v] = job[v]
          /\ job'[w].phase \in {"read", "checked"}
      BY <1>1, <1>4 DEF ReadStock, CheckSellable, CheckCancel, CheckPending, Job
    <2> QED
      BY <1>2, <2>1, <2>2
  <1>5. CASE ShipLines(w) \/ SaveItems(w)
    <2>1. /\ job[w].kind # "idle" /\ \A v \in Workers \ {w} : job'[v] = job[v]
          /\ job'[w].phase \in {"shipped", "saved"}
      BY <1>1, <1>5 DEF ShipLines, SaveItems, At, Job
    <2> QED
      BY <1>2, <2>1
  <1>6. CASE CountShipped(w)
    <2>1. job[w].kind # "idle" /\ \A v \in Workers \ {w} : job'[v] = job[v]
      BY <1>1, <1>6 DEF CountShipped, At
    <2> QED
      BY <1>2, <1>6, <2>1
  <1>7. CASE Abort(w) \/ WritesOrder(w) \/ WritesOutbounds(w)
    <2>1. job[w] # Idle
      <3>1. CASE Abort(w)
        BY <3>1 DEF Abort
      <3>2. CASE WritesOrder(w)
        BY <3>2, IdleIs DEF WritesOrder, WritesStatus, CreateOrder, UpdateOrder, SubmitOrder,
           ApproveOrder, RejectOrder, CloseOrder, WriteStatus, AllocateStock, CancelOrder, At
      <3>3. CASE WritesOutbounds(w)
        <4>1. CreateOutbound(w) \/ Commits(w) => job[w].kind # "idle"
          BY DEF CreateOutbound, Commits, CommitOutbound, At
        <4>2. ASSUME NEW kind \in StatusRequests, MoveOutbound(w, kind)
              PROVE  job[w].kind # "idle"
          BY <4>2 DEF MoveOutbound, At, StatusRequests
        <4> QED
          BY <3>3, <4>1, <4>2, IdleIs DEF WritesOutbounds
      <3> QED
        BY <1>7, <3>1, <3>2, <3>3
    <2>2. Done(w)
      BY <1>7 DEF Abort, WritesOrder, WritesStatus, CreateOrder, UpdateOrder, SubmitOrder,
         ApproveOrder, RejectOrder, CloseOrder, WriteStatus, AllocateStock, CancelOrder,
         WritesOutbounds, CreateOutbound, Commits, CommitOutbound, MoveOutbound
    <2> QED
      BY <1>1, <2>1, <2>2 DEF Done, Acts
  <1>8. CASE Destroys(w)
    <2>1. job' = job /\ job[w] = Idle /\ \E kind : MayStart(w, kind)
      <3>1. ASSUME NEW o \in Orders, DestroyOrder(w, o)
            PROVE  job' = job /\ MayStart(w, "destroy")
        BY <3>1 DEF DestroyOrder
      <3>2. ASSUME NEW n \in DOMAIN outbounds, DestroyOutbound(w, n)
            PROVE  job' = job /\ MayStart(w, "destroy_outbound")
        BY <3>2 DEF DestroyOutbound
      <3>3. \E kind : job' = job /\ MayStart(w, kind)
        BY <1>8, <3>1, <3>2 DEF Destroys
      <3> QED
        BY <3>3 DEF MayStart
    <2> QED
      BY <1>1, <2>1 DEF Acts
  <1> QED
    BY <1>3, <1>4, <1>5, <1>6, <1>7, <1>8 DEF Reads

\* Nobody else ships, or counts, between a completion's count and its commit.
LEMMA CountedKept ==
  ASSUME Core, Counted, CompletesAlone, NEW w \in Workers,
         Reads(w) \/ WritesOrder(w) \/ Destroys(w) \/ WritesOutbounds(w)
  PROVE  Counted'
  <1> SUFFICES ASSUME NEW v \in Workers, job'[v].kind = "complete", job'[v].phase = "counted"
               PROVE  (job[v].seen = StatusOf(v, job[v].order))'
    BY DEF Counted
  <1>1. v = w
    BY StepOfOne, CompletingAlone
  <1>2. CountShipped(w)
    BY <1>1, StepOfOne
  <1>3. /\ job'[w].seen = StatusOf(w, job[w].order) /\ items' = items
        /\ job'[w].items = job[w].items /\ job'[w].order = job[w].order
    <2>1. job'[w].items = job[w].items /\ job'[w].order = job[w].order
      BY <1>2, JobOf DEF CountShipped, Core, Serving, Job
    <2> QED
      BY <1>2, <2>1, CountShippedKeeps DEF Quiet
  <1>4. \A i : SeenItem(w, i)' = SeenItem(w, i)
    BY <1>3 DEF SeenItem
  <1> QED
    BY <1>1, <1>3, <1>4 DEF StatusOf

\* No less than nothing was shipped.
Shippings == \A i \in Items : items[i].shipped >= 0

\* What is written to a line afresh is nothing, and a completion adds to it.
LEMMA ShippingsKept ==
  ASSUME Core, FromOrders, DecidedAlone, Shippings, [Next]_vars
  PROVE  Shippings'
  <1>1. ASSUME \A i \in Items : items'[i].shipped = items[i].shipped
        PROVE  Shippings'
    BY <1>1 DEF Shippings
  <1>2. ASSUME NEW o \in Orders, items' = FreshItems(o)
        PROVE  Shippings'
    BY <1>2 DEF Shippings, FreshItems
  <1>3. CASE UNCHANGED vars
    BY <1>1, <1>3 DEF vars
  <1>4. CASE Next
    <2>1. PICK w \in Workers : Reads(w) \/ WritesOrder(w) \/ Destroys(w) \/ WritesOutbounds(w)
      BY <1>4, NextIs
    <2>2. CASE Reads(w)
      BY <1>1, <2>2, ReadsKeep DEF Quiet
    <2>3. CASE WritesOrder(w)
      BY <1>1, <1>2, <2>3, CreateOrderKeeps, UpdateOrderKeeps, StatusWritten, AllocateStockKeeps,
         CancelOrderKeeps DEF WritesOrder, WritesStatus
    <2>4. CASE Destroys(w)
      BY <1>1, <1>2, <2>4, DestroyOrderKeeps, DestroyOutboundKeeps DEF Destroys
    <2>5. CASE CreateOutbound(w) \/ \E kind \in StatusRequests : MoveOutbound(w, kind)
      BY <1>1, <2>5, CreateOutboundKeeps, MoveOutboundKeeps
    <2>6. CASE Commits(w)
      <3>1. PICK n \in DOMAIN outbounds : n = job[w].number
        BY <2>6, CommitOutboundKeeps DEF Ships
      <3>2. PICK x \in Row : x = outbounds[n]
        BY CoreTypes
      <3>3. /\ \A i \in Items \ ItemsIn(x.lines) : items'[i] = items[i]
            /\ \A i \in ItemsIn(x.lines) : items'[i] = Moved(items[i], QtyIn(x.lines, i))
        BY <2>6, <3>1, <3>2, CommitOutboundKeeps
      <3>4. ASSUME NEW i \in ItemsIn(x.lines), i \in Items
            PROVE  items'[i].shipped >= 0
        <4>1. QtyIn(x.lines, i) \in Nat /\ items[i] \in Progress /\ items[i].shipped >= 0
          BY <3>2, <3>4, QtyType DEF Row, Core, Tables, Shippings
        <4>2. items'[i].shipped = items[i].shipped + QtyIn(x.lines, i)
          BY <3>3, <3>4, <4>1, MovedType
        <4> QED
          BY <4>1, <4>2 DEF Progress
      <3> QED
        BY <3>3, <3>4 DEF Shippings
    <2> QED
      BY <2>1, <2>2, <2>3, <2>4, <2>5, <2>6 DEF WritesOutbounds
  <1> QED
    BY <1>3, <1>4

\* The requests for an order ship nothing; a completion writes what it counted.
LEMMA ToldKept ==
  ASSUME Core, Sure, Shippings', Told, Counted, FromOrders, HarmlessOverlap, OrdersStay,
         OrdersHaveLines, NEW w \in Workers,
         Reads(w) \/ WritesOrder(w) \/ Destroys(w) \/ WritesOutbounds(w)
  PROVE  Told'
  <1>0. DecidedAlone
    BY DEF HarmlessOverlap, Harmless, DecidedAlone
  <1> DEFINE ToldOf(p) ==
        /\ orders[p] = "ALLOCATED" => \A i \in ItemSet(p) : items[i].shipped = 0
        /\ orders[p] = "PARTIALLY_SHIPPED" => \E i \in ItemSet(p) : items[i].shipped # 0
        /\ orders[p] \in {"SHIPPED", "CLOSED"} => AllShipped(p)
        /\ orders[p] \in {"PARTIALLY_SHIPPED", "CANCELLED"} => ~ AllShipped(p)
  <1>1. ASSUME NEW p \in Orders, orders'[p] = orders[p],
               \A i \in ItemSet(p) : items'[i].shipped = items[i].shipped
        PROVE  ToldOf(p)'
    <2>1. ToldOf(p)
      BY DEF Told
    <2>2. AllShipped(p)' <=> AllShipped(p)
      BY <1>1 DEF AllShipped
    <2> QED
      BY <1>1, <2>1, <2>2
  <1>2. CASE UNCHANGED <<orders, items>>
    BY <1>1, <1>2 DEF Told
  <1>3. CASE WritesOrder(w)
    <2>1. PICK o \in Orders, s \in OrderStatus :
            /\ orders'[o] = s /\ \A p \in Orders \ {o} : orders'[p] = orders[p]
            /\ \/ orders[o] \in Before /\ s \in Before
               \/ orders[o] = "APPROVED" /\ s = "ALLOCATED"
               \/ orders[o] \in {"SHIPPED", "CLOSED"} /\ s = "CLOSED"
               \/ orders[o] \in Before \cup Locking /\ s = "CANCELLED"
      BY <1>3, OrderMoves
    <2>2. \A p \in Orders : \A i \in ItemSet(p) : items'[i].shipped = items[i].shipped
      BY <1>3, OrderMoves, OrderItems
    <2>3. AllShipped(o)' <=> AllShipped(o)
      BY <2>2 DEF AllShipped
    <2>4. orders[o] \in Before \cup {"ALLOCATED"} => \A i \in ItemSet(o) : items[i].shipped = 0
      BY DEF Sure, Held, Told
    <2>5. (\A i \in ItemSet(o) : items[i].shipped = 0) => ~ AllShipped(o)
      <3> SUFFICES ASSUME \A i \in ItemSet(o) : items[i].shipped = 0, AllShipped(o)
                   PROVE  FALSE
        OBVIOUS
      <3>1. PICK i \in ItemSet(o) : i \in Items
        BY OrderItems DEF OrdersHaveLines
      <3>2. items[i].shipped = 0 /\ items[i].shipped >= Quantity[i]
        BY DEF AllShipped
      <3>3. Quantity[i] \in Nat /\ Quantity[i] > 0
        BY <3>1, Bounds DEF Sure
      <3> QED
        BY <3>2, <3>3
    <2>6. ToldOf(o)
      BY DEF Told
    <2>7. ToldOf(o)'
      <3>1. CASE orders[o] \in Before /\ s \in Before
        BY <2>1, <3>1 DEF Before
      <3>2. CASE orders[o] = "APPROVED" /\ s = "ALLOCATED"
        BY <2>1, <2>2, <2>4, <3>2 DEF Before
      <3>3. CASE orders[o] \in {"SHIPPED", "CLOSED"} /\ s = "CLOSED"
        BY <2>1, <2>3, <2>6, <3>3
      <3>4. CASE orders[o] \in Before \cup Locking /\ s = "CANCELLED"
        BY <2>1, <2>3, <2>4, <2>5, <2>6, <3>4 DEF Locking
      <3> QED
        BY <2>1, <3>1, <3>2, <3>3, <3>4
    <2>8. \A p \in Orders : ToldOf(p)'
      BY <1>1, <2>1, <2>2, <2>7
    <2> QED
      BY <2>8 DEF Told
  <1>4. CASE Commits(w)
    <2>1. PICK o \in Orders :
            /\ o = job[w].order
            /\ orders'[o] = job[w].seen /\ \A p \in Orders \ {o} : orders'[p] = orders[p]
            /\ \A i \in Items \ ItemSet(o) : items'[i] = items[i]
            /\ \A i \in Items : items'[i] = SeenItem(w, i)
            /\ job[w].kind = "complete" /\ job[w].phase = "counted"
      BY <1>0, <1>4, CommitMoves
    <2>2. orders'[o] = StatusOf(w, o)
      BY <2>1 DEF Counted
    <2>3. \A i \in ItemSet(o) : /\ i \in Items /\ SeenItem(w, i) = items'[i]
                                /\ items'[i].shipped \in Nat /\ Quantity[i] \in Nat
      <3>1. Core'
        BY <1>0, <1>4, CommitOutboundKeeps
      <3>2. \A i \in Items : items'[i].shipped \in Nat
        BY <3>1 DEF Core, Tables, Progress, Shippings
      <3> QED
        BY <2>1, <3>2, OrderItems, LinesAssumption
    <2>4. /\ orders'[o] = "SHIPPED" => AllShipped(o)'
          /\ orders'[o] # "SHIPPED" => ~ AllShipped(o)'
      BY <2>2, <2>3 DEF StatusOf, AllShipped
    <2>5. orders'[o] = "PARTIALLY_SHIPPED" => \E i \in ItemSet(o) : items'[i].shipped # 0
      BY <2>2, <2>3 DEF StatusOf
    <2>6. orders'[o] = "ALLOCATED" => \A i \in ItemSet(o) : items'[i].shipped = 0
      BY <2>2, <2>3 DEF StatusOf
    <2>7. orders'[o] \in {"SHIPPED", "PARTIALLY_SHIPPED", "ALLOCATED"}
      BY <2>2 DEF StatusOf
    <2>8. ToldOf(o)'
      BY <2>4, <2>5, <2>6, <2>7
    <2>9. ASSUME NEW p \in Orders \ {o}
          PROVE  ToldOf(p)'
      <3>1. \A i \in ItemSet(p) : i \in Items /\ i \notin ItemSet(o)
        BY OrderItems, LinesAssumption
      <3> QED
        BY <1>1, <2>1, <3>1
    <2>10. \A p \in Orders : ToldOf(p)'
      BY <2>8, <2>9
    <2> QED
      BY <2>10 DEF Told
  <1>5. ~ \E o \in Orders : DestroyOrder(w, o)
    BY DestroyOrderKeeps DEF OrdersStay, Core, Tables
  <1>6. Reads(w) \/ Destroys(w) \/ (WritesOutbounds(w) /\ ~ Commits(w))
        => UNCHANGED <<orders, items>>
    BY <1>0, <1>5, ReadsKeep, DestroyOutboundKeeps, CreateOutboundKeeps, MoveOutboundKeeps
       DEF Quiet, Destroys, WritesOutbounds
  <1> QED
    BY <1>2, <1>3, <1>4, <1>6

\* The invariant of the third part.
Telling == Whole /\ Shippings /\ Told /\ Counted

\* At the start nothing was shipped.
LEMMA InitShippings == Init => Shippings
  <1> SUFFICES ASSUME Init PROVE Shippings
    OBVIOUS
  <1>1. \A i \in Items : items[i] = [allocated |-> 0, shipped |-> 0]
    BY DEF Init
  <1>2. \A i \in Items : items[i].shipped = 0
    BY <1>1
  <1> QED
    BY <1>2 DEF Shippings

\* No order is there at the start.
LEMMA InitTold == Init => Told /\ Counted
  <1> SUFFICES ASSUME Init PROVE Told /\ Counted
    OBVIOUS
  <1>1. /\ \A o \in Orders : orders[o] = "NONE"
        /\ \A w \in Workers : job[w] = Idle
    BY DEF Init
  <1> QED
    BY <1>1, IdleIs DEF Told, Counted

\* Every step keeps it.
LEMMA TellingKept ==
  ASSUME Telling, FromOrders, HarmlessOverlap, CompletesAlone, OrdersStay, LinesNamedOnce,
         OrdersHaveLines, [Next]_vars
  PROVE  Telling'
  <1>0. DecidedAlone
    BY DEF HarmlessOverlap, Harmless, DecidedAlone
  <1>1. (Whole /\ Shippings)'
    BY <1>0, CoreKept, SureKept, ShippingsKept DEF Telling, Whole
  <1>2. CASE UNCHANGED vars
    <2>1. UNCHANGED <<orders, items, job>>
      BY <1>2 DEF vars
    <2>2. Told'
      BY <2>1 DEF Telling, Told, AllShipped
    <2>3. Counted'
      BY <2>1 DEF Telling, Counted, StatusOf, SeenItem
    <2> QED
      BY <1>1, <2>2, <2>3 DEF Telling
  <1>3. CASE Next
    <2>1. PICK w \in Workers : Reads(w) \/ WritesOrder(w) \/ Destroys(w) \/ WritesOutbounds(w)
      BY <1>3, NextIs DEF Telling, Whole
    <2>2. Told' /\ Counted'
      BY <1>1, <2>1, ToldKept, CountedKept DEF Telling, Whole
    <2> QED
      BY <1>1, <2>2 DEF Telling
  <1> QED
    BY <1>2, <1>3

(***************************************************************************)
(* The status of an order is true: its lines hold what is left to ship     *)
(* while it is ALLOCATED or PARTIALLY_SHIPPED and nothing otherwise, and   *)
(* SHIPPED, PARTIALLY_SHIPPED and what comes before tell how much of it    *)
(* was shipped, while submissions, approvals, rejections and closings      *)
(* overlap with each other (allocate_stock, cancel_order, and what         *)
(* complete_order writes to the order).                                    *)
(***************************************************************************)
THEOREM StatusHolds ==
  ASSUME FromOrders, HarmlessOverlap, CompletesAlone, OrdersStay, LinesNamedOnce,
         OrdersHaveLines
  PROVE  Spec => []StatusIsTrue
  <1>1. DecidedAlone
    BY DEF HarmlessOverlap, Harmless, DecidedAlone
  <1>2. Init => Telling
    BY InitCore, InitSure, InitShippings, InitTold DEF Telling, Whole
  <1>3. Telling /\ [Next]_vars => Telling'
    BY TellingKept
  <1>4. ASSUME Telling
        PROVE  AllocationMatchesStatus
    BY <1>4 DEF Telling, Whole, Sure, Held, AllocationMatchesStatus
  <1>5. ASSUME Telling
        PROVE  StatusTellsProgress
    <2> SUFFICES ASSUME NEW o \in Orders
                 PROVE  LET all  == \A i \in ItemSet(o) : items[i].shipped >= Quantity[i]
                            none == \A i \in ItemSet(o) : items[i].shipped = 0
                        IN  CASE orders[o] \in {"SHIPPED", "CLOSED"}  -> all
                              [] orders[o] = "PARTIALLY_SHIPPED"      -> ~ all /\ ~ none
                              [] orders[o] = "CANCELLED"              -> ~ all
                              [] OTHER                                -> none
      BY DEF StatusTellsProgress
    <2>1. orders[o] \in Before \cup {"ALLOCATED", "PARTIALLY_SHIPPED", "SHIPPED", "CLOSED", "CANCELLED"}
      BY <1>5 DEF Telling, Whole, Core, Tables, OrderStatus, Before
    <2>2. /\ orders[o] \in Before \cup {"ALLOCATED"} => \A i \in ItemSet(o) : items[i].shipped = 0
          /\ orders[o] = "PARTIALLY_SHIPPED" => \E i \in ItemSet(o) : items[i].shipped # 0
          /\ orders[o] \in {"SHIPPED", "CLOSED"} => AllShipped(o)
          /\ orders[o] \in {"PARTIALLY_SHIPPED", "CANCELLED"} => ~ AllShipped(o)
      BY <1>5 DEF Telling, Whole, Sure, Held, Told
    <2> QED
      BY <2>1, <2>2 DEF AllShipped, Before
  <1>6. Telling => StatusIsTrue
    BY <1>4, <1>5 DEF StatusIsTrue
  <1> QED
    BY <1>2, <1>3, <1>6, PTL DEF Spec
=============================================================================
