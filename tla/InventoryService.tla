-------------------------- MODULE InventoryService --------------------------
(***************************************************************************)
(* InventoryService under concurrent requests.                             *)
(*                                                                         *)
(* Every request that moves stock is one database transaction (the         *)
(* outermost @transaction.atomic of the business service) that makes a     *)
(* list of InventoryService calls, its plan.  PostgreSQL runs them at READ *)
(* COMMITTED: a statement sees what is committed plus the transaction's    *)
(* own writes, and a row written or read FOR UPDATE stays locked to the    *)
(* end of the transaction.  A worker is one gunicorn thread serving one    *)
(* such request; an editor is one that saves a product's master data.      *)
(*                                                                         *)
(* The statements of a call that other transactions can tell apart are     *)
(* separate steps:                                                         *)
(*   LockRow       SELECT ... FOR UPDATE of the Inventory row, the checks  *)
(*                 and the UPDATE of the row now held                      *)
(*   TakeNumber    CodeRuleService.generate and the InventoryTransaction   *)
(*   SumStock      the SUM(current_qty) of _sync_product_stock_cache       *)
(*   SaveProduct   the UPDATE of Product.current_stock                     *)
(***************************************************************************)
EXTENDS StockRow, FiniteSets, FiniteSetsExt

CONSTANTS Warehouses, Products,
          Workers,        \* threads serving requests that move stock
          Editors,        \* threads serving product master data edits
          Plans,          \* the call lists of the business transactions
          MaxMovements,   \* bound: no request starts after so many movements
          NoOwner         \* the owner of a free lock

Rows == Warehouses \X Products

ASSUME PlansAssumption == Plans \subseteq Seq(Calls(Rows))
ASSUME QuantityAssumption ==
  \A list \in Plans : \A i \in DOMAIN list :
    list[i].kind # "change" => list[i].qty > 0
ASSUME NoOwnerAssumption == NoOwner \notin Workers \cup Editors

VARIABLES
  stock,        \* committed: the stock position of every row
  sequence,     \* committed: CodeRule.current_sequence of each rule
  cache,        \* committed: Product.current_stock
  rowLock,      \* which worker holds each Inventory row
  ruleLock,     \* which worker holds each CodeRule row
  productLock,  \* which worker holds each Product row
  pc,           \* where each worker stands in its current call
  plan,         \* what each worker still has to do: call Head(plan) is next
  mine,         \* uncommitted: each worker's version of the rows it holds
  taken,        \* uncommitted: each worker's version of the rules it holds
  counted,      \* uncommitted: the sum a worker wrote, or read to write
  loaded        \* the current_stock in the Product object an editor loaded

committed == <<stock, sequence, cache>>
locks     == <<rowLock, ruleLock, productLock>>
private   == <<pc, plan, mine, taken, counted>>
vars      == <<committed, locks, private, loaded>>

\* Mutation of SeenNo: the number already taken is read from the database.
CommittedNo(w, c) == sequence[c]

\* What the worker's statements read: its own version, else the committed.
Seen(w, r)    == IF rowLock[r] = w THEN mine[w][r] ELSE stock[r]
SeenNo(w, c)  == IF ruleLock[c] = w THEN taken[w][c] ELSE sequence[c]

\* SUM(current_qty) over the Inventory rows of one product.
TotalOf(p, pos) == MapThenSumSet(LAMBDA h : pos[<<h, p>>].current, Warehouses)

Product(c) == c.row[2]

NotLoaded == -1

\* Mutation of Free: nothing is locked.
Unlocked(lock, x, w) == TRUE

Free(lock, x, w) == lock[x] \in {NoOwner, w}

MovementCount == MapThenSumSet(LAMBDA r : Len(stock[r].log), Rows)

-----------------------------------------------------------------------------

Blank == [r \in Rows |-> NoPosition]
\* Mutation of NoNumbers: the sequences start one too low.
BelowZero == [c \in Rules |-> -1]

NoNumbers == [c \in Rules |-> 0]

Init ==
  /\ stock = Blank
  /\ sequence = NoNumbers
  /\ cache = [p \in Products |-> 0]
  /\ rowLock = [r \in Rows |-> NoOwner]
  /\ ruleLock = [c \in Rules |-> NoOwner]
  /\ productLock = [p \in Products |-> NoOwner]
  /\ pc = [w \in Workers |-> "idle"]
  /\ plan = [w \in Workers |-> << >>]
  /\ mine = [w \in Workers |-> Blank]
  /\ taken = [w \in Workers |-> NoNumbers]
  /\ counted = [w \in Workers |-> [p \in Products |-> 0]]
  /\ loaded = [e \in Editors |-> [p \in Products |-> NotLoaded]]

\* A request arrives and its service method opens a transaction.
Begin(w, list) ==
  /\ pc[w] = "idle"
  /\ MovementCount < MaxMovements
  /\ pc' = [pc EXCEPT ![w] = "call"]
  /\ plan' = [plan EXCEPT ![w] = list]
  /\ UNCHANGED <<committed, locks, mine, taken, counted, loaded>>

\* The call at hand is done; go on with the rest of the plan.
NextCall(w) ==
  /\ pc' = [pc EXCEPT ![w] = "call"]
  /\ plan' = [plan EXCEPT ![w] = Tail(@)]

\* select_for_update on the Inventory row, the method's checks, save().
LockRow(w) ==
  LET c == Head(plan[w]) IN
  /\ pc[w] = "call" /\ plan[w] # << >>
  /\ Free(rowLock, c.row, w)
  /\ Accepts(c, Seen(w, c.row))
  /\ rowLock' = [rowLock EXCEPT ![c.row] = w]
  /\ mine' = [mine EXCEPT ![w][c.row] = Saved(c, Seen(w, c.row))]
  /\ IF IsMovement(c)
     THEN pc' = [pc EXCEPT ![w] = "number"] /\ UNCHANGED plan
     ELSE NextCall(w)
  /\ UNCHANGED <<committed, ruleLock, productLock, taken, counted, loaded>>

\* CodeRuleService.generate, and the movement created with that number.
TakeNumber(w) ==
  LET c == Head(plan[w])
      n == SeenNo(w, RuleOf(c)) + 1 IN
  /\ pc[w] = "number"
  /\ Free(ruleLock, RuleOf(c), w)
  /\ ruleLock' = [ruleLock EXCEPT ![RuleOf(c)] = w]
  /\ taken' = [taken EXCEPT ![w][RuleOf(c)] = n]
  /\ mine' = [mine EXCEPT ![w][c.row] = Record(c, @, n)]
  /\ pc' = [pc EXCEPT ![w] = "sum"]
  /\ UNCHANGED <<committed, rowLock, productLock, plan, counted, loaded>>

\* The aggregate query of _sync_product_stock_cache: it waits for no lock.
SumStock(w) ==
  LET p == Product(Head(plan[w])) IN
  /\ pc[w] = "sum"
  /\ counted' = [counted EXCEPT ![w][p] = TotalOf(p, [r \in Rows |-> Seen(w, r)])]
  /\ pc' = [pc EXCEPT ![w] = "product"]
  /\ UNCHANGED <<committed, locks, plan, mine, taken, loaded>>

\* product.save(update_fields=['current_stock']).
SaveProduct(w) ==
  LET p == Product(Head(plan[w])) IN
  /\ pc[w] = "product"
  /\ Free(productLock, p, w)
  /\ productLock' = [productLock EXCEPT ![p] = w]
  /\ NextCall(w)
  /\ UNCHANGED <<committed, rowLock, ruleLock, mine, taken, counted, loaded>>

\* The transaction ends: its locks are released, its versions are dropped.
Finish(w) ==
  /\ rowLock' = [r \in Rows |-> IF rowLock[r] = w THEN NoOwner ELSE rowLock[r]]
  /\ ruleLock' = [c \in Rules |-> IF ruleLock[c] = w THEN NoOwner ELSE ruleLock[c]]
  /\ productLock' =
       [p \in Products |-> IF productLock[p] = w THEN NoOwner ELSE productLock[p]]
  /\ pc' = [pc EXCEPT ![w] = "idle"]
  /\ plan' = [plan EXCEPT ![w] = << >>]
  /\ mine' = [mine EXCEPT ![w] = Blank]
  /\ taken' = [taken EXCEPT ![w] = NoNumbers]
  /\ counted' = [counted EXCEPT ![w] = [p \in Products |-> 0]]
  /\ UNCHANGED loaded

Commit(w) ==
  /\ pc[w] = "call" /\ plan[w] = << >>
  /\ stock' = [r \in Rows |-> Seen(w, r)]
  /\ sequence' = [c \in Rules |-> SeenNo(w, c)]
  /\ cache' = [p \in Products |-> IF productLock[p] = w THEN counted[w][p] ELSE cache[p]]
  /\ Finish(w)

\* A call raises: the row it must get() is not there, or a check fails.
Reject(w) ==
  LET c == Head(plan[w]) IN
  /\ pc[w] = "call" /\ plan[w] # << >>
  /\ \/ NeedsRow(c) /\ ~ Seen(w, c.row).exists
     \/ Free(rowLock, c.row, w) /\ ~ Accepts(c, Seen(w, c.row))
  /\ Finish(w)
  /\ UNCHANGED committed

-----------------------------------------------------------------------------
(***************************************************************************)
(* Lock waits.  The lock a worker's next statement needs, when another     *)
(* transaction holds it, names the transaction it waits for.  PostgreSQL   *)
(* ends one transaction of every waiting cycle with an error, which the    *)
(* view turns into a 400 after the rollback.                               *)
(***************************************************************************)
Holder(w) ==
  LET c == Head(plan[w]) IN
  CASE pc[w] = "call" /\ plan[w] # << >> -> rowLock[c.row]
    [] pc[w] = "number"                  -> ruleLock[RuleOf(c)]
    [] pc[w] = "product"                 -> productLock[Product(c)]
    [] OTHER                             -> NoOwner

WaitsFor(w) == IF Holder(w) = w THEN NoOwner ELSE Holder(w)

\* Mutation of InCycle: no deadlock detection.
NeverInCycle(w) == FALSE

InCycle(w) ==
  \E S \in SUBSET Workers : w \in S /\ {WaitsFor(x) : x \in S} = S

BreakDeadlock(w) ==
  /\ InCycle(w)
  /\ Finish(w)
  /\ UNCHANGED committed

\* gunicorn kills a worker past its timeout: the connection is lost and the
\* database rolls the transaction back, wherever it stands.
Kill(w) ==
  /\ pc[w] # "idle"
  /\ Finish(w)
  /\ UNCHANGED committed

-----------------------------------------------------------------------------
(***************************************************************************)
(* ProductViewSet.update: get_object loads the whole product, then the     *)
(* serializer saves every column of it, current_stock among them.          *)
(***************************************************************************)
LoadProduct(e, p) ==
  /\ loaded[e][p] = NotLoaded
  /\ loaded' = [loaded EXCEPT ![e][p] = cache[p]]
  /\ UNCHANGED <<committed, locks, private>>

StoreProduct(e, p) ==
  /\ loaded[e][p] # NotLoaded
  /\ productLock[p] = NoOwner
  /\ cache' = [cache EXCEPT ![p] = loaded[e][p]]
  /\ loaded' = [loaded EXCEPT ![e][p] = NotLoaded]
  /\ UNCHANGED <<stock, sequence, locks, private>>

-----------------------------------------------------------------------------

Progress(w) ==
  \/ LockRow(w)
  \/ TakeNumber(w)
  \/ SumStock(w)
  \/ SaveProduct(w)
  \/ Commit(w)
  \/ Reject(w)

Work(w) ==
  \/ \E list \in Plans : Begin(w, list)
  \/ Progress(w)
  \/ BreakDeadlock(w)
  \/ Kill(w)

Edit(e) == \E p \in Products : LoadProduct(e, p) \/ StoreProduct(e, p)

Next ==
  \/ \E w \in Workers : Work(w)
  \/ \E e \in Editors : Edit(e)

Spec == Init /\ [][Next]_vars

(***************************************************************************)
(* A worker whose statement can run keeps running; PostgreSQL queues lock  *)
(* requests in order, so a lock that is released again and again is        *)
(* granted in the end (strong fairness), and its deadlock detector runs.   *)
(* Nothing is assumed of arriving requests, kills and edits.               *)
(***************************************************************************)
FairSpec ==
  /\ Spec
  /\ \A w \in Workers : SF_vars(Progress(w)) /\ WF_vars(BreakDeadlock(w))

-----------------------------------------------------------------------------

\* Type invariant.
TypeOK ==
  /\ stock \in [Rows -> Positions]
  /\ sequence \in [Rules -> Nat]
  /\ DOMAIN cache = Products
  /\ rowLock \in [Rows -> Workers \cup {NoOwner}]
  /\ ruleLock \in [Rules -> Workers \cup {NoOwner}]
  /\ productLock \in [Products -> Workers \cup {NoOwner}]
  /\ pc \in [Workers -> {"idle", "call", "number", "sum", "product"}]
  /\ plan \in [Workers -> Seq(Calls(Rows))]
  /\ mine \in [Workers -> [Rows -> Positions]]
  /\ taken \in [Workers -> [Rules -> Nat]]

(***************************************************************************)
(* No overselling, whatever the interleaving: the committed stock promised *)
(* to orders is never more than the committed stock on the shelf, and      *)
(* neither is negative (select_for_update, the checks of the four calls    *)
(* and Inventory.clean together).                                          *)
(***************************************************************************)
NeverOversold == \A r \in Rows : Sound(stock[r])

(***************************************************************************)
(* The movements are the source of truth: on every row they form an        *)
(* unbroken chain from zero to the committed quantity, no change of the    *)
(* quantity without its movement and no movement without its change.       *)
(***************************************************************************)
LedgerExplainsStock == \A r \in Rows : Explained(stock[r])

(***************************************************************************)
(* Transaction numbers are unique over all positions: the CodeRule row is  *)
(* held from generate to the end of the transaction that uses the number.  *)
(***************************************************************************)
NumbersUnique ==
  \A r, s \in Rows : \A i \in DOMAIN stock[r].log, j \in DOMAIN stock[s].log :
    /\ stock[r].log[i].rule = stock[s].log[j].rule
    /\ stock[r].log[i].no = stock[s].log[j].no
    => r = s /\ i = j

(***************************************************************************)
(* Product.current_stock is the sum of the product's stock whenever no     *)
(* transaction is under way.                                               *)
(***************************************************************************)
CacheFresh ==
  (\A w \in Workers : pc[w] = "idle") =>
    \A p \in Products : cache[p] = TotalOf(p, stock)

(***************************************************************************)
(* Concurrent transactions amount to some serial order of the same plans,  *)
(* and a transaction that fails or is killed leaves no trace on the        *)
(* positions or the number sequences.                                      *)
(***************************************************************************)
Ledger == INSTANCE InventoryLedger
            WITH Warehouses <- Warehouses, Products <- Products, Plans <- Plans,
                 stock <- stock, sequence <- sequence
Serializable == Ledger!Spec

\* Every transaction ends, in a commit or in a rollback: no request waits
\* for ever for a lock.
TransactionsEnd == \A w \in Workers : pc[w] # "idle" ~> pc[w] = "idle"
=============================================================================
