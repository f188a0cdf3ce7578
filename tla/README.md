# Formal models of erp_api

TLA+ models of the multi-tenant ERP back end in `src/`, the TLC runs that check
them on small instances and the TLAPS proofs about them. The code is Django and
Django REST framework on PostgreSQL, served by gunicorn (`src/gunicorn.conf.py`:
4 workers of 2 threads, timeout 120 s). There are no background queues: whatever
can go wrong beyond a sequential bug goes wrong between concurrent HTTP requests,
or between a request and the failure that ends it.

Paths below are relative to the repository.

## 1. Inventory of the system

### How a request is served

A view set method loads the document with `get_object()` and then calls a method
of a service class. The service method is `@transaction.atomic`; the view is not
(`ATOMIC_REQUESTS` is off), so `get_object()` runs in autocommit mode, before the
transaction and **without a lock**. PostgreSQL runs at READ COMMITTED. A service
that wants a fresh row asks for it with `select_for_update`. Three shapes occur:

| shape | who | consequence |
|---|---|---|
| lock, then read, then check, then write | `InventoryService.*_stock` and `*_stocktake`, `complete_order` of outbounds and sales returns, start, completion and cancellation of transfers, receipts, write-offs and refunds, `execute_payment`, `_post_once`, `CodeRuleService.generate` | safe against other lockers |
| check the object the view loaded, then write | most other status changes of sales, purchase, outbound, transfer and return documents, `submit_payment`, the inherited `update` of every view set | the status may be out of date |
| read rows or an aggregate without a lock, then write | `_sync_product_stock_cache`, `normalize_and_validate_sellable_items`, `create_from_sales_order`, `ensure_stocktake_items`, `generate_ar_from_order`, `_sync_pending_supplier_refunds`, `validate_parent`, `put` of a data policy | write skew |

`Model.save()` without `update_fields` writes every column back, including the
ones the request never looked at, and inserts the row again if it was deleted.

### Components

| component | state | operations | hard behaviour | what makes it correct |
|---|---|---|---|---|
| inventory: stock service (`business_apps/inventory/services.py`) | `Inventory` (current, locked), `InventoryTransaction`, `Product.current_stock` | `change_stock`, `reserve_stock`, `release_stock`, `ship_stock` | several rows in one transaction, opposite lock orders, deadlocks, a derived cache | never oversold; the movements explain the stock; the outcome is serial; every transaction ends |
| inventory: stocktakes | `Stocktake`, its lines | create, read, submit, approve, complete, enter counts, add lines, edit, delete | lines made on first sight, booked quantity frozen long before it is posted | booked once, posted once; a count stands once it is submitted |
| inventory: products and warehouses | `Product`, `Warehouse` | CRUD, enable and disable | full-row saves of a row that holds a cache | the cache is never rolled back by an edit |
| sales orders (`business_apps/sales`) | order status, `allocated_quantity` and `shipped_quantity` of its lines | create, update, submit, approve, reject, allocate, create outbound, cancel, close, delete | stale status, write skew on what is sellable | reservations follow the status; nothing is promised twice |
| supply_chain: outbound orders | outbound status and lines | create, create by hand, edit, submit, approve, complete, cancel, delete | completion races with everything else | shipped exactly once, never more than ordered |
| supply_chain: transfers | status, two warehouses, who did what | create, update, submit, approve, start, complete, cancel, delete | stock leaves in one transaction and arrives in another | what left arrives or comes back, once; duties are separated |
| supply_chain: sales returns | status, quantity | create, submit, approve, complete, cancel | quantities checked before the return is locked | the goods come back once, at most what was delivered |
| supply_chain: purchase returns | status, quantity, `returned_quantity` of the order's lines | create, edit, submit, approve, complete, cancel, delete | quantities checked before the lines are locked | sent back once, at most what was received |
| supply_chain: alerts and trace | derived rows | scan, resolve | - | - |
| purchase | order status, `received_quantity` of its lines, receipts | create, update, submit, approve, reject, cancel, close, delete; create, execute, cancel, edit, delete a receipt | stale status, partial receipts side by side, edits by hand | received once, at most what was ordered; the status tells it |
| ar_receivable | receivables, receipts, write-offs, customer refunds, `Customer.current_balance` | bill, receive, write off, reverse for a return, refund | a balance moved by differences, negative receivables | billed once, paid once; the balance is what the rows say |
| ap_payable | payables, payments, allocations, credit notes, supplier refunds | make, offset, pay, allocate, reverse, refund | draft refunds resized without a lock | nothing used beyond its amount; the sub-ledger moves as the ledger |
| finance | `CashAccount.current_balance` | receipts, payments and refunds move it | lost update of a balance | balance equals the movements |
| accounting | vouchers, posting log, periods, subjects | post eight kinds of event, close, open | a document posted twice or into a closed period | one voucher for each document, none into a closed month |
| platform: code rules | `CodeRule.current_sequence` | `generate` | shared by all numbering | numbers are unique |
| platform: dictionaries, files | cached dictionaries | CRUD, invalidate | invalidation before commit | the cache is never stale for ever |
| erp_auth | users, roles, departments, data policies and grants of a tenant | CRUD, login | rows deleted under those that name them, cycles, permissions that follow the modules | references close over permissions; departments are trees; grants stand |
| tenant | configuration snapshot, module states | apply, bind, refresh, clear | the configuration is copied to three places | what is enabled is what was applied last |
| crm, supplier, organization, system, reports | plain records, logs, aggregates | CRUD | the credit check on a lagging balance | - |
| authentication | platform users, tokens | login | - | - |
| modules (`core_apps/modules`, the `module.py` of every app) | the registry, made once at start | load, sort, check | dependency order, cycles, codes that name each other across apps | what is accepted can be loaded, and every reference in it ends somewhere |
| blueprints, configuration | versions and their configurations | create, clone, edit, publish, delete, validate | publication decided on what was read earlier; a configuration normalised by what it enables | one version published; nothing enabled without what it needs |
| generation | jobs, tenants made from them, packages of code | plan, deploy, export, retry | a failure rolls its own record back; what is left of an app in a package | a package loads; a tenant runs what its last job generated |
| policies | - | resolve a switch of the configuration | - | constants of the other modules |

`PROJECT.json` lists all of them with their status, and under `hazards` every
place where this code is exposed to something hard to test, with the line and
the properties that cover it.

### How the components interact

Sales orders reserve, release and (through outbound orders) ship stock by calling
`InventoryService` inside their own transaction; purchase receipts, transfers,
returns and stocktakes call `change_stock` the same way. Completing an outbound
order also writes the lines and the status of its sales order and creates a
receivable; completing a receipt of goods creates a payable; returns reverse
them. Each of these, and each receipt or payment of money, posts a voucher in the
same transaction where the policy says so. All of them number their documents
with `CodeRuleService` or a maximum of their own. A version of a blueprint is
generated into a tenant, whose roles and permissions follow the modules it enables,
or into a package of code with the apps it needs.

## 2. Modules

```
StockRow                     one stock position and the four calls on it (no state)
  |-- InventoryLedger        abstract: business transactions one at a time
  |-- InventoryService       detailed: the same statement by statement, with row locks
  |     `-- MCInventory                instances for TLC
  |-- SalesFulfilment        sales orders and outbound orders over stock positions
  |     |-- MCSales                    instances for TLC
  |     `-- SalesFulfilment_proofs     theorems
  |-- Procurement            purchase orders, receipts and returns over stock positions
  |     |-- MCProcurement              instances for TLC
  |     `-- Procurement_proofs         theorems
  |-- Transfers ---.
  |-- Stocktakes --+-- WarehouseDocuments    both on the same stock
  |                      |-- MCWarehouse                  instances for TLC
  |                      `-- WarehouseDocuments_proofs    theorems
  `-- Receivables            billing, receipts, write-offs, sales returns, refunds
        |-- MCReceivables              instances for TLC
        `-- Receivables_proofs         theorems
GeneralLedger                abstract: balances changed by whole vouchers
  |-- Payables               payables, credit notes, payments, refunds: implements it
  |     |-- MCPayables                 instances for TLC
  |     `-- Payables_proofs            theorems
  `-- Posting                vouchers, periods, subjects: implements it
        `-- MCPosting                  instances for TLC
Tenancy                      configuration, users, roles, departments, grants
  `-- MCTenancy              instances for TLC
Manifests ---.               order and checks of manifests, closure of a selection
Catalog -----+-- Blueprints  versions, generations, tenants, packages
                   `-- MCBlueprints    instances for TLC
TableTheorems                lemmas on rows and sums of their columns, for the proofs
Services_proofs              theorems about InventoryService and Posting
Platform_proofs              theorems about Tenancy and Blueprints
```

Every module of requests has the same frame. `job[w]` is the request worker `w` is
serving, with what it has read; `MayStart` says that a request of a kind may begin
beside those under way, which `Requests` (what arrives) and `Racing` (what may
overlap) parameterise; `Abort` ends one whose later check fails. A method that locks
its row before it reads is one step. A method that decides on the object the view
loaded is two: `Load...`, then the write. A method that reads twice has a step for
each reading. `Posting` and `Blueprints` are proved about beside another module and
name some of this differently: their workers are `Threads`, and in `Blueprints` the
requests are `serving[w]`, begun where `MayServe` lets them, and the mixes `Trials`.

**StockRow** holds what the four methods of `InventoryService` do to one
`Inventory` row and the movements written for it: what is accepted (`Accepts`),
the saved row (`Saved`), the movement (`Record`). A position is a record
`[exists, current, locked, log]`; `log` holds the `InventoryTransaction` rows
with number, quantity, before and after.

**InventoryLedger** is what the stock service promises. A step takes one *plan*
(the list of calls a business transaction makes) and runs it entirely, or, when
one of its calls would raise, not at all.

**InventoryService** interleaves such plans. Its state is the committed database
(`stock`, `sequence`, `cache`), the row locks (`rowLock`, `ruleLock`,
`productLock`) and what each worker has not committed (`mine`, `taken`,
`counted`).

| action | code |
|---|---|
| `Begin` | a request opens its `transaction.atomic` block |
| `LockRow` | `select_for_update` on the `Inventory` row, the checks, `save()` with `full_clean` |
| `TakeNumber` | `CodeRuleService.generate` and the movement created with the number |
| `SumStock` | the `SUM(current_qty)` of `_sync_product_stock_cache`, which waits for no lock |
| `SaveProduct` | `product.save(update_fields=["current_stock"])` |
| `Commit`, `Reject` | the block ends, or an exception rolls it back |
| `BreakDeadlock` | PostgreSQL aborts one transaction of a waiting cycle |
| `Kill` | gunicorn kills the worker, the database rolls back |
| `LoadProduct`, `StoreProduct` | `ProductViewSet.update`: load the whole product, save every column |

Statements between which no other transaction can tell a difference (the checks
and the `UPDATE` of a row that is already held) are one step. A row's insertion by
`get_or_create` is treated as taking its lock: the unique index makes a second
inserter wait for the first, and the `select_for_update` that follows reads the
committed row.

**SalesFulfilment** models `SalesOrderService` and `OutboundService`: the status
the view loaded (`seen`), the order lines (`items`), the requested lines (`cart`).
Only `complete_order` takes locks; `OutboundFree`, `RowFree` and `ItemFree` are
those locks, held from the phase that takes them to the commit. The stock it
starts from and the kinds of request that arrive are chosen in `Init` (`Openings`,
`Mixes`), so that one run holds several instances.

| action | code |
|---|---|
| `StartCreate`, `CreateOrder` | `create_order` |
| `ReadStock`, `CheckSellable` | `normalize_and_validate_sellable_items`: the stock is read first, what other orders hold of it next |
| `LoadOrder` | `get_object()` of an order action, with the status check |
| `UpdateOrder`, `SubmitOrder` | `update_order`, `submit_order` |
| `ApproveOrder`, `RejectOrder`, `CloseOrder` | `approve_order`, `reject_order`, `close_order` |
| `AllocateStock` | `allocate_order`: `reserve_stock` per line, lines and status saved |
| `CheckCancel`, `CancelOrder` | `cancel_order` with `release_allocated_stock` |
| `CheckPending`, `CreateOutbound` | `create_from_sales_order`, one outbound per warehouse |
| `CreateManual`, `CreateLoose` | the outbound view set's `create`, with or without a sales order, and `_bind_sales_order_items` |
| `LoadEdit`, `EditOutbound` | the inherited `update`: sales order and warehouse replaced, every column saved |
| `SubmitOutbound`, `ApproveOutbound`, `CancelOutbound` | the status changes on the loaded object |
| `CheckOutbound`, `ShipLines`, `SaveItems`, `CountShipped`, `CommitOutbound` | `complete_order`: lock the outbound, `ship_stock`, add to the lines, derive the order's status, commit |
| `DestroyOrder`, `DestroyOutbound` | the inherited `destroy`, with its protected foreign keys |

**Procurement** models `PurchaseOrderService` and `PurchaseReturnService`.
`items[i]` is an order line: quantity, received and returned quantity. The long
transactions lock before they read (`create_receipt` the lines, `execute_receipt`
the receipt, the order and its lines), so each is one step after the view's load;
only the completion of a return checks quantities before it locks the lines, and
is two.

| action | code |
|---|---|
| `CreateOrder`, `DestroyOrder` | `create_order`, the view set's `destroy` of a draft |
| `LoadOrder`, `LoadUpdate`, `StartReceipt`, `LoadReceipt`, `LoadReturn`, `StartReturn` | what the view loads, with the status check on it |
| `SubmitOrder`, `ApproveOrder`, `RejectOrder`, `CloseOrder` | the status changes on the loaded object |
| `CheckReceived`, then `UpdateHeader`, `UpdateLines` or `CancelOrder` | `update_order` and `cancel_order`: the unlocked look at completed receipts, then the writes |
| `CreateReceipt` | `create_receipt` |
| `ExecuteReceipt` | `execute_receipt`: stock, lines, receipt, payable, status of the order |
| `CancelReceipt` | `cancel_receipt` on the loaded object |
| `EditReceipt`, `EditReturn` | the inherited `update`: what their serializers leave writable |
| `CheckReturnable` | `_validate_return_quantities` in creation, submission and completion |
| `CreateReturn`, `SubmitReturn`, `ApproveReturn`, `CancelReturn` | the methods of those names |
| `CompleteReturn` | `complete_order` of a return from the locks on the lines to the commit |
| `DestroyReceipt`, `DestroyReturn` | the inherited `destroy` |

Replacing the lines of an order ends the receipt creations that have loaded the old
ones: `create_receipt` does not find them among the locked lines and fails.

**Transfers** and **Stocktakes** model `TransferService` and the stocktake half of
`InventoryService` with their view sets; **WarehouseDocuments** instantiates both
over one `stock`, with workers for each (`Carriers`, `Counters`), and states what
the two promise together.

| action | code |
|---|---|
| `CreateOrder` | `create_order` with `validate_stock_availability` |
| `LoadTransfer`, then `UpdateOrder`, `SubmitOrder`, `ApproveOrder` | `update_order`, `submit_order`, `approve_order` on the loaded row |
| `StartTransfer`, `CompleteTransfer`, `CancelTransfer` | the methods of those names, under the row lock, with `change_stock` |
| `DestroyTransfer`, `DestroyStocktake` | the inherited `destroy` |
| `CreateStocktake`, `LoadStocktake` | `perform_create`; `retrieve` and `complete` up to `ensure_stocktake_items` |
| `FindNoLines`, `FillLines`, `Respond` | `ensure_stocktake_items`: `exists()`, then `bulk_create`; the response |
| `SubmitStocktake`, `ApproveStocktake`, `CompleteStocktake` | the methods of those names, under the row lock; `change_stock` for every line that differs |
| `AddItems`, `LoadCounts`, `UpdateItems` | `add_items`, which looks at no status, and `update_items`, which trusts the one it loaded |
| `LoadEdit`, `EditStocktake` | the inherited `update` |

Users matter here, because the rules of separation compare them: the approver of
a transfer may not start it, who started it may not receive it, and the creator
and submitter of a stocktake may not approve it.

**Receivables** models `ARService` and `SalesReturnService` for one sales order of
one customer. An outbound order is here a delivery (`CompleteOutbound`), which
bills what has left where that is automatic. A receivable is
`[source, outbound, amount, written]`; a negative amount is a red one, made when a
return finds nothing left to lower.

| action | code |
|---|---|
| `CompleteOutbound`, `BillsOutbound` | the end of `OutboundService.complete_order`, `generate_ar_from_outbound` |
| `LoadBilling`, `GenerateFromOrder` | `generate_ar_from_order`: its tests, then the row and the balance |
| `CheckReturn`, `CreateReturn` | `create_order` of a sales return: quantities tested, then written |
| `LoadReturn`, then `SubmitReturn`, `ApproveReturn`, `CancelReturn` | the methods on the loaded object |
| `LockReturn`, `CompleteReturn` | `complete_order`: the lock and the tests; stock, `reverse_ar_for_sales_return`, status |
| `CreateReceipt`, `ApproveReceipt`, `ExecuteReceipt` | the methods of those names; execution moves the cash account |
| `WriteOff` | `write_off`, with the row locks of both sides |
| `CreateRefund`, `SubmitRefund`, `ApproveRefund`, `ExecuteRefund` | the `*_customer_refund` methods |

**Payables** models `APService` for the orders of one supplier. `LockNotes` and
`GenerateFromReceipt` are `generate_ap_from_receipt` with
`apply_open_credit_notes`: the notes are locked and their draft refunds read
without a lock, then payable, notes and drafts are written. `LockRefund` and
`ExecuteRefund` split `execute_supplier_refund` the same way. `ReverseForReturn`
is `reverse_ap_for_purchase_return`; `LoadPayment` and `SubmitPayment` are
`submit_payment` on the loaded row; `CreatePayment`, `ApprovePayment`,
`ExecutePayment`, `AllocatePayment`, `CreateRefund`, `SubmitRefund` and
`ApproveRefund` bear the names of the methods.

**GeneralLedger** is what the books promise: the balances of the subjects change
by whole vouchers, each with one line in debit and one in credit, taken from the
`line_specs` of `VoucherService`.

**Posting** models `PostingService`, `PeriodService` and the account subjects for
any documents. `Execute` is the execution of a document up to its voucher, under
the lock of its row; `EnsureOpen` locks and tests the period; `PostVoucher` writes
voucher, log, document and balances and commits; `ExecuteOnly` is an execution
that posts nothing, because posting is off or the log has the event already;
`Refuse` is a closed period or a missing subject, `Fail` any other failure.
`LoadDocument` and `SaveDocument` are the inherited `update` of a document, whose
status may be sent for a receipt of goods only (`StatusSent`);
`CreatePeriod`, `LoadPeriod`, `SavePeriod` and `DestroyPeriod` are those of a period:
an edit may send any status and another month, writes what it loaded for what it did
not send, takes the vouchers of a moved period along, and is refused where the other
month has a period;
`ClosePeriod` and `OpenPeriod` the actions, `EnableSubject`, `DestroySubject` and
`InitSubjects` those of subjects; `PassMonth` is the clock.

**Tenancy** models one tenant: what `tenant/services.py` does with its
configuration, and what the serializers and views of `erp_auth` do with users,
roles, departments and data permissions. Rows keep their ids; a deleted row is
`live = FALSE`, and what refers to it is set to null or deleted with it as its
foreign key says.

| action | code |
|---|---|
| `Apply`, `Bind`, `RefreshAdmin`, `SyncRoles`, `ClearData`, `Toggle` | `apply_blueprint_version`, `bind_instance_to_tenant`, the refresh of the administrator, the synchronisation of roles, `clear_tenant_data`, a module state edited |
| `LoadLogin`, `SaveLogin` | `ERPLoginView`: a super administrator's role is filled when he logs in |
| `LoadUser`, `CreateUser`, `UpdateUser`, `MoveUser`, `LoadRemoval`, `DestroyUser` | `ERPUserWriteSerializer`, `ERPUserViewSet.destroy` |
| `LoadRole`, `CreateRole`, `UpdateRole`, `LoadRoleRemoval`, `DestroyRole` | `ERPRoleSerializer`, `ERPRoleViewSet.destroy` |
| `LoadDepartment`, `CreateDepartment`, `UpdateDepartment`, `LoadDissolution`, `DestroyDepartment` | `ERPDepartmentWriteSerializer`, `ERPDepartmentViewSet.destroy` |
| `PutPolicy`, `LoadGrant`, `CreateGrant`, `DestroyGrant` | `ERPDataResourceView.put`, `ERPDataSpecialGrantSerializer` |

Each request of this module validates first, in the serializer, and writes after:
hence `Load...`. `Expanded` is `expand_permission_ids_with_dependencies`, `Filled`
is `ensure_super_admin_role`, `EnsureAdmin` is `ensure_tenant_super_admin`.

**Manifests** holds the algorithms of `core_apps/modules` and of the planner, in
the order the code makes its visits, with what they should compute beside them
(`Behind`, `DependenciesFirst`). **Catalog** is what the twenty `module.py` files
and the catalogue of features declare: needs, menus, permissions, what a feature
takes out of a package, what the forms refer to. **Blueprints** puts versions,
generations and tenants on top:

| action | code |
|---|---|
| `Create`, `Clone`, `InsertVersion` | `create_version`, `clone_version`: tests, published versions and next number are read, then the row is written |
| `LoadPublish`, `PublishVersion` | `publish_blueprint_version`; it unpublishes those it found published |
| `LoadEdit`, `SaveEdit`, `Republish` | the update of a version: saved whole, published flag included, and only then validated for publication |
| `DestroyVersion` | the inherited `destroy`, with the protected references of jobs and snapshots |
| `LoadGeneration`, `LoadRetry`, then `CreateSaas` or `ExportCode` | `create_generation` with `_execute_saas` or `_execute_code_export` |
| `LoadApply`, `ApplyVersion` | `apply_version` and `create_from_version` of a tenant |
| `SetStatus`, `DestroyTenant` | update and destroy of a tenant |
| `Refuse` | a number taken meanwhile, a row gone, a generation that fails |

`BlueprintsInit` chooses the dependencies among the business apps and loads them: where the
loader refuses them `registry` stays empty, and nothing is served.

### Abstractions

- A refused request changes nothing, and is no step.
- One tenant, and in the runs one product; outside `InventoryService` an
  `Inventory` row is therefore a warehouse, and the lines an outbound order takes
  from a row are shipped in one step (the row lock of the first is held to the
  commit). A transfer has one line, the sales order of `Receivables` too.
- Quantities and amounts are integers. In the database they are decimals with a
  fixed number of places, which is integers counted in the last one; the widths
  are not modelled. In `Receivables` and `Payables` goods cost one unit apiece.
- Prices, permissions, the rule that the approver is not the submitter (except
  in transfers and stocktakes, where properties are about it) and approval logs
  appear as "the request may be refused".
- Where a module is about one component, the call into another is its effect on
  the state of this one: in `SalesFulfilment` the receivable is a mark (`billed`, made
  by a completion where the policies say so, `AutoBilling`), in `Procurement` the
  payable is (`billed`, made where the mix says `billing`), in `Receivables` the
  voucher is left out. Its failure is `Abort`. A receivable or payable made later, by
  hand, only protects a completed row the more, and is left out.
- Policies are constants or choices: `RequiresAllocation` TRUE in the runs, the
  default; `Approval(s)`, `AutoBilling`, `Partial` and `AutoPosting` take both values.
- The lines of a purchase order may be ordered in any quantity, zero and less
  included, because neither `create_order` nor `update_order` tests it (`Plans`; one
  of the plans of the run has a line of -1). `LinesFollowGoods` and `QuantitiesFit`
  count such a line as one of which nothing is ordered. Those of a sales order are
  positive, which its methods do test.
- A deletion of a sales, purchase or warehouse document never overlaps with
  another request (the assumptions on `Racing`). Django's `save()` of a row
  deleted in the meantime would insert it again; `Tenancy` models that for
  departments and `Blueprints` for versions, where nothing else prevents it.
- In `Tenancy` two permissions of each module stand for all: one a role is given
  and one it implies. Modules nothing can leave out are not told apart. What
  `apply_blueprint_version` refuses when the inventory mode changes, and the
  default warehouse it makes, are left out; the limit of users stays as it is.
- In `Blueprints` there is one blueprint, and a version's number is a natural
  number. A configuration is its mode, modules and features and whether the rest of
  it is complete; only features something depends on are told apart. A failed
  generation leaves nothing (its record of the failure is rolled back with it), so
  every job there is has succeeded. The package is its list of apps and what is cut
  from their manifests, not the text of its files.

## 3. Runs

| run | expects | instance | shows |
|---|---|---|---|
| `inventory_tx` | pass | two request threads, one editor, five plans over two rows in opposite orders, at most 4 movements | `TypeOK`, `NeverOversold`, `LedgerExplainsStock`, `NumbersUnique`, `Serializable` (the refinement of `InventoryLedger`), `TransactionsEnd` |
| `inventory_cache_ship` | violation | two threads, plans with a shipment among them, no editor | `CacheFresh` fails: the finding below |
| `sales_serial` | pass | one order of two lines in two warehouses, two outbounds, every kind of request, one at a time | `StatusIsTrue`: reservations follow the status and the status tells what was shipped; `FinishedOrdersStay` |
| `sales_overlap` | pass | two orders, stock for both or for one of them, three outbounds, two workers, the kinds that are harmless together overlap | `GoodsLeaveOnce`, `WithinOrdered`, `StockSound` (reservations backed, commitments covered), `OutboundLifecycle` |
| `procurement_flow` | pass | one order of two lines. Flow: two warehouses, three receipts, two returns, the harmless kinds overlap, no payables. Overlap: two receipts of one unit, one return, one warehouse; everything but three status changes overlaps, edits and deletions too, with payables | `GoodsMoveOnce`, `QuantitiesFit` (drafts within what is ordered, returns within what came) and `StatusTellsReceipts` in the first; in both `LinesFollowGoods`: no line over-received or over-returned, and the stock follows the lines |
| `warehouse_flow` | pass | one transfer and one stocktake of two lines over two warehouses, every kind of request, one of each component at a time; and two carriers whose requests on the transfer all overlap, deletions apart | `CountedOnce`, `StockExplained` (where transfers overlap: they never make goods), `CountsStand` |
| `receivables` | pass | an order delivered in two parts, two returns, a receipt, two refunds, four receivables; money, deliveries and completions of returns overlap | `BalanceExplained`, `MoneySettlesOnce`, `BilledOnce`, `GoodsReturnOnce` |
| `payables` | pass | two orders, two payables, a payment, two credit notes, two refunds; all but submitting a payment and making a refund overlap | `SubLedgerSound`, `PaymentsSettleOnce`, `MovesAsTheLedger` (the refinement of `GeneralLedger`), `ExecutedStays` |
| `posting` | pass | a receipt of goods and its payment; two months; all but editing a period overlaps | `PostedOnce`, `NotOvertaken`, `ClosedTakesNothing`, `BooksKept` (the refinement of `GeneralLedger`), `ExecutionsEnd` |
| `tenancy` | pass | two modules, two users, two roles, two departments, two grants; seven mixes of requests | `ConfigurationApplied`, `ReferencesFollow`, `DepartmentsAreTrees`, `GrantsStand` |
| `blueprints` | pass | five mixes: packages under every way three apps may need each other; packages and tenants from the apps as declared, for every set of them that has what it needs; versions, generations, and versions applied by hand, with overlapping requests | `PackagesComplete`, `OnePublished`, `GenerationsSound`, `ReferencesReached` |
| `exported_manifests` | violation | the packages of the apps as declared | `PackagesLoad` fails: the second finding below |

Every passing run fires every action of its module, and for every property of
every passing run `PROJECT.json` names a mutation of the code's model that the run
detects.

**Why the bounds are enough.** Two workers are the smallest number that shows
every conflict between two transactions, and the code has no step that behaves
differently with a third: a lock has one owner and a waiter. Two rows give
opposite lock orders, hence deadlocks, and a sum over rows some of which are
held by somebody else. Four movements let two business transactions of two
movements each overlap after stock exists (six in the cache run, where a third
is needed to expose the loss). A sales order of quantity 2 and 1 in two warehouses
is the smallest that can be partially shipped both within a line and between
lines, and that is split into two outbound orders; the second order competes for
one of the warehouses. Purchasing uses the same quantities, with a plan that
lowers one of them on update; three receipts are a full set of partial ones and
two returns compete for one received quantity. Deliveries of 2 and 1 with returns
of 1 or 2 lower one receivable, two of them, or more than is left of both, which
makes a red one and a refund; two refunds compete for it. Two payables and two
notes let one note serve two payables and one payable use two notes. Two months
are one that is closed and one that is open. Two departments are the smallest
cycle; two roles are the system role and one by hand. The second warehouse of
the transfers starts without an `Inventory` row, so `get_or_create` makes one.
Where transfers do not overlap they carry one unit (`Modest`) and need approval; where
they do they carry one or two, may need none, and nothing is counted meanwhile.
Three apps give every shape a cycle and a missing or shared dependency can have;
the apps as declared are taken in every set that is closed under their needs, with
all features, none or those on by default, and all apps with one feature off. Two
versions compete for publication, and a third is made while they do; two jobs are
a generation and its retry.

The bounds are guards on making one more row (`MaxOutbounds`, `MaxTransfers`,
`MaxStocktakes`, `MaxLines`, `MaxReceivables`, `MaxReceipts`, `MaxReturns`,
`MaxRefunds`, `MaxAccounts`, `MaxPayments`, `MaxNotes`, `MaxUsers`, `MaxRoles`,
`MaxDepartments`, `MaxGrants`, `MaxTenants`; `receipts` and `returns` of the mixes
of `Procurement`, `versions` and `jobs` of those of `Blueprints`) or on starting one
more transaction (`MaxMovements`);
a request they stop ends with `Abort`, and what is past them may finish. `Limit`
of `Tenancy` is `Tenant.user_limit`, not a bound. Deadlock checking is off because
the bounds stop the system, and because a closed order has no next request.

**Fairness.** `InventoryService` (for `TransactionsEnd` only): a thread whose next
statement can run does run it (strong fairness of `Progress`, because a lock it
waits for may be taken and released by others: PostgreSQL grants waiting lock
requests in order), and the deadlock detector runs (weak fairness of
`BreakDeadlock`). `Posting` (for `ExecutionsEnd` only): strong fairness of
`Serve(w)`, the next statement of the request a worker is serving, for the same
reason: the lock of a period is given to who waits for it. Nothing is assumed
about arrivals, kills, failures or edits.

### Which requests may overlap

`Racing` names the kinds that overlap in a run; the code restricts none. Every
property was tried with every kind and every pair of kinds and two workers; the
pairs below break one, and are excluded from the passing runs. They are facts
about the code as much as the passing runs are: adding the kinds to `Racing` in
the `.cfg` shows each of them.

Sales, on two instances: one order with ample stock, and two orders with stock for
one of them (`cancel` with itself needs two orders with ample stock):

| overlap | breaks | because |
|---|---|---|
| `allocate` with itself | `StockSound` | both saw APPROVED, both reserve |
| `create_outbound` with itself | `WithinOrdered` | both saw the same pending quantity |
| `cancel` with itself (two orders) | `StockSound` | the second release takes another order's reservation |
| `create` or `update` with `create` or `update` | `StockSound` | write skew on what is sellable |
| `create` with `complete` | `StockSound` | the stock was read before the shipment, the commitments after it |
| `submit`, `approve`, `reject` or `update` with `cancel` | `FinishedOrdersStay` | a stale status is written back over CANCELLED |
| `submit_outbound` with `approve_outbound`; either with `cancel_outbound` | `OutboundLifecycle` | stale status |
| `approve_outbound` or `cancel_outbound` with `complete` | `GoodsLeaveOnce`, `OutboundLifecycle` | COMPLETED is overwritten, although the stock has left |
| `complete` with itself | only `StatusIsTrue` | the lines are counted before the other commits: an order shipped whole stays PARTIALLY_SHIPPED, and can be neither closed nor shipped further |

Purchasing, on the first instance of `procurement_flow` with one warehouse:

| overlap | breaks | because |
|---|---|---|
| `cancel_receipt` with `complete_receipt` | `GoodsMoveOnce` | COMPLETED is overwritten with CANCELLED |
| `cancel` with `create_receipt` | `StatusTellsReceipts` | the draft is made after the drafts were cancelled |
| `cancel` with `complete_receipt` | `StatusTellsReceipts` | the look at completed receipts was too early: goods came in for a CANCELLED order |
| `create_return` with itself | `QuantitiesFit` | write skew on what may be returned |
| `submit_return`, `approve_return` or `cancel_return` with `complete_return` | `GoodsMoveOnce` | a stale status is written over COMPLETED |

Three kinds together break more: `submit`, `approve` or `update` with
`create_receipt` and `complete_receipt` writes an early status over
PARTIALLY_RECEIVED. The mix `Flow` therefore overlaps `update`, `reject` and
`close` with the creation and execution of receipts and the completion of returns,
and serves the other kinds alone. `LinesFollowGoods` survives all of this (the mix
`Overlap`), because
the lines are counted under their locks. It needs the payable that protects a
completed receipt. Without it TLC finds an order that a stale `update_order` turns
back into a draft, whose completed receipt and then the order itself are deleted,
while the goods stay in stock.

Warehouses:

| overlap | breaks | because |
|---|---|---|
| `submit` or `approve` with `start` of a transfer | the last part of `StockExplained` | IN_TRANSIT is overwritten: the goods leave again |
| `retrieve` or `create` of a stocktake with `retrieve` | `CountedOnce` | both saw no lines, both add them |
| `complete` with `create`, `retrieve` or itself | `CountedOnce` | the same, and the doubled lines are posted |
| `submit` with `update_items` | `CountsStand` | DRAFT when the counts were loaded, submitted when they are saved |
| `complete` with `edit` | `CountedOnce` | the edit saves the status it loaded, APPROVED: posted again |

Receivables and payables:

| overlap | breaks | because |
|---|---|---|
| `generate` with itself | `BilledOnce` | neither saw a receivable of the order |
| `create_return` with itself | `GoodsReturnOnce` | write skew on what may be returned |
| `submit_return`, `approve_return` or `cancel_return` with `complete_return` | `GoodsReturnOnce` | a stale status is written over COMPLETED |
| `submit_payment` with `execute_payment` | `ExecutedStays` | a payment that has left is PENDING_APPROVAL again (`executed_at` keeps it from leaving twice) |
| `create_refund` with `receive` or `execute_refund` | `SubLedgerSound` | the draft is made after the drafts were read: it asks for more than is left, and can never be executed |

Posting: `edit_period` beside anything breaks `ClosedTakesNothing`, because an
update that sends no status saves the one it loaded, OPEN, over a closing.

Tenancy:

| overlap | breaks | because |
|---|---|---|
| `create_grant` with itself | `GrantsStand` | duplicates: no unique constraint covers the subject |
| `put_policy` with `create_grant` | `GrantsStand` | the grant is made after the grants were deleted |
| `edit_department` with itself | `DepartmentsAreTrees` | each moved below the other; the next check of a parent never ends |
| `login` with `apply` or `bind` | `ConfigurationApplied` | the permissions of the older configuration are written after the newer one's |

Blueprints:

| overlap | breaks | because |
|---|---|---|
| any two of publishing, creating as published and editing as published | `OnePublished` | neither saw the other published |

Two requests of `create_saas` for one tenant are not in that table: of two that
overlap, the job made first may be the one that applies last, and the tenant then
runs what the older job generated. `CreateSaas` makes the job and the snapshot in one
step, so the model cannot show it, and `BlueprintsAssumption` keeps the kind from
overlapping with itself.

### Facts that bound what the runs claim

Each of these needs no concurrency; TLC shows them on the instances above with
the request added.

- Deleting an ALLOCATED sales order leaves `locked_qty` behind, and an outbound
  order made by hand from another warehouse than the line's ships stock that is
  reserved there for somebody else: `StockSound` is claimed without either.
- An outbound order can be pointed at another sales order or warehouse whatever
  its status; after such an edit the sales order's status no longer follows from
  its lines. `FinishedOrdersStay` is stated for behaviours without edits.
- Destroying a transfer that is IN_TRANSIT loses its goods for good. The deleted
  row still explains the stock, which is what `StockExplained` says.
- Lines can be added to a stocktake in any status, and `UpdateItems` of the other
  lines stops at DRAFT: `CountsStand` lets lines be appended, never changed.
- `write_off` accepts a red receivable (kind `write_off_red`, requested by no
  run): it compares the amount with what is still due to the customer and lowers
  `current_balance`, which the settling of a refund raises (`execute_customer_refund`).
  `BalanceExplained` fails at once.
- `generate_ar_from_order` refuses an order that has any receivable, so goods that
  left while billing was not automatic are never billed once another receivable of
  the order exists, a red one of a return included. `BilledOnce` says "at most".
- `write_off` asks that a receipt is approved, not that its money has come.
- `allocate_payment` accepts negative shares and payables of another supplier; the
  model draws positive shares of one supplier.
- A document of amount zero can never be executed while posting is automatic:
  `create_voucher` refuses it. In `Posting` it is a document with no `Execute`.
- The edit of a period may set its status, so that an old form sent again reopens a
  closed month with nothing beside it, and may move the period, its vouchers with it,
  to a month that has none. `ClosedTakesNothing` counts an edit that sets another
  status than it found as a closing or a reopening, and a closed period that is moved
  as closed where it is then. What the property excludes is a voucher in a period
  nobody asked to open again.
- A document's date may be changed after it was posted; the voucher stays where it is.
- Where receivables are not made automatically (`AutoBilling` FALSE) nothing protects a
  completed outbound order: it can be deleted, the goods having left.
  `GoodsLeaveOnce` and `OutboundLifecycle` are checked without such deletions.
  `sales_serial` has them, under both policies: what an order's status and lines say
  stays true (`StatusIsTrue`, `FinishedOrdersStay`).
- Applying a blueprint fills the role of one super administrator only, the first
  by id. Custom roles are not filled or closed again when modules are enabled
  later: `ReferencesFollow` is stated for a configuration that stays.
- A user can be created with no role; the request then fails after the row was
  committed (`is_feature_enabled` is called with an argument it does not take),
  which is how `CreateUser` is modelled.
- `ensure_tenant_super_admin` fails while a demoted user is named "admin"; the last
  super administrator can be stripped of the role.

- The update of a version saves it as published before it is validated: an invalid
  one stays published beside the one that was. `OnePublished` is stated where edits
  bring valid configurations. The next number is one more than that of the version
  made last, so after a lower number chosen by hand it may be taken; the request
  then fails.
- Retrying a job, a successful one too, makes another tenant when none is given.
- `apply_version` and `create_from_version` ask neither that a version is published
  nor that its modules have what they need: the part of `GenerationsSound` about
  tenants and `ReferencesReached` are stated without them.
- With `system.user_management` off nobody can be given `system:user:reference`, the
  list of users that five forms offer; `ReferencesReached` leaves that code out.
- A package never holds `core_apps/erp_auth` and `core_apps/generation`, although
  apps it keeps import from them; `PackagesComplete` is about manifests.
- `reapply_blueprint_version` calls a function with an argument it does not take, and
  no request makes the instances it is for; neither is modelled.
- `validate_blueprint_config` writes into the defaults of the shared catalogue it
  was handed; a configuration is here a value of its own.

### Findings

`Product.current_stock` is documented as the total over the warehouses
(`src/business_apps/inventory/models.py:62`) and is not, after a shipment beside a
receipt: `inventory_cache_ship`. Two `change_stock` transactions are ordered by the
`CodeRule` row they share, so the second sums after the first has committed (with
`Plans <- ChangePlans` the invariant holds). `ship_stock` numbers with another
rule, so nothing orders the sum of one against the commit of the other.

An exported package is documented to lose "registration entries for pages, menus,
and permission declarations" of the features that are off
(`src/core_apps/generation/exporters.py:485`): `exported_manifests`. The code that
is appended to an app's `module.py` drops the menus of the pages a feature names,
and of the permissions only those it names. With `sales.approval` off, which is the
default, the menu `sales:order` is gone and `sales:order:view` and its siblings
still have it as their parent; `_ensure_permission_integrity`
(`src/core_apps/modules/checks.py:182`) then refuses the manifests when the package
starts. The same holds of `purchase.approval`, `purchase.partial_receipt` and
`inventory.stocktake`. Where nothing is pruned the package loads, which
`PackagesComplete` says.

## 4. Proofs

`Services_proofs` proves of `InventoryService`, for any sets of warehouses, products,
workers and editors, any plans and any `MaxMovements`:

| theorem | statement |
|---|---|
| `TypeCorrect` | `Spec => []TypeOK` |
| `StockNeverOversold` | `Spec => []NeverOversold` |
| `StockExplained` | `Spec => []LedgerExplainsStock` |
| `NumbersAreUnique` | `Spec => []NumbersUnique` |
| `Invariance` | `Spec => []IInv`, the inductive invariant the first three rest on |

**Assumptions.** A plan is a sequence of calls on existing warehouses and products
(`PlansAssumption`); quantities of reservations, releases and shipments are
positive (`QuantityAssumption`: the serializers require it, `change_stock` takes
either sign); the owner of a free lock is no worker (`NoOwnerAssumption`).
TLC evaluates them in every run.

**The argument.** None of the three safety properties is inductive: they speak of
the committed stock, which `Commit` overwrites with versions nobody else sees.
`IInv` is the conjunction of

- `TypeOK`,
- `PlanInv`: the calls a worker still has to make keep the assumption on quantities,
  a worker in the middle of a call has that call at the head of its plan, and one
  about to record a movement holds the row it is for,
- `MineInv`: every version of a row a worker holds is sound, and its movements
  explain it, up to the one movement (`Unrecorded`) that is saved on the row and not
  yet recorded when the worker is at `number`,
- `StockInv`: committed positions are sound and explained.

`Commit` then only moves sound versions into the database. The steps are shown one
invariant at a time (`TypeStep`, `PlanStep`, `MineStep`, `StockStep`), each with
one case per action; lemmas about one position (`SavedSound`, `SavedMoves`,
`RecordChained`) carry what the four calls do.

Unique numbers need a second invariant, `NumInv`, proved under `IInv`: every number
committed in a movement is at most the committed sequence of its rule, a worker that
holds a rule has taken it at least that far, a version a worker holds extends the
committed log of that row by numbers beyond the committed sequence of rules the
same worker holds, and those numbers are unique over all rows it holds.

The same module proves of `Posting`, for any documents, amounts, months, threads,
settings and kinds of request (`PostingAssumption` only says what the constants are):

| theorem | statement |
|---|---|
| `PostingTypesHold` | `PostingSpec => []PostingTypeOK` |
| `OneVoucherEach` | `PostingSpec => []PostedOnce` |
| `NobodyOvertaken` | `PostingSpec => []NotOvertaken` |
| `ClosedPeriodsTakeNothing` | `PostingSpec => ClosedTakesNothing`, if `edit_period` is not in `Racing` |
| `ImplementsTheLedger` | `PostingSpec => BooksKept`: Posting implements GeneralLedger |

`PostedOnce` needs that the log knows the document of every voucher
(`LogComplete`). `NotOvertaken` needs the lock it is about: no two executions under
way are of one document (`HeldByOne`). For `ClosedTakesNothing` three facts are
carried together (`Closing`): a period is held by one posting and is not closed
while it is (`PeriodsHeld`), what an edit has loaded is still so when nothing else
is served (`EditsFresh`: the month it found the row at and the status it had), and a
month closed on request is CLOSED in its row (`ShutIsClosed`). The refinement needs that what is being posted is worth something
(`Worth`), since a voucher of the ledger has an amount of the bounded set; a step
is then `PostVoucher`, which is `Entered`, or leaves the balances alone.

The other proof modules stand on `TableTheorems`: rows kept in a sequence, in the
order they were made, and `SumFunction` over a column of them. The community
modules define that sum by a recursive function on the subsets of its domain. Its
facts (one term more, one changed, sums that add up, sums over groups) are proved
from that definition without an induction schema, by a least counterexample: a set
of finite sets that is not empty has a minimal one, which is a theorem of the
library. Each module then has, for every action, the change of each column.

What some theorems assume of `Racing`, `Mixes` or `Requests` is what the tables of
section 3 ask for. The constants of the run named beside a property satisfy it, so
that the theorem extends that run to every value of the other constants.

`Payables_proofs`, for any orders, amounts, workers and any number of rows:

| theorem | statement | assumes |
|---|---|---|
| `NeverOverdrawn` | `Spec => [](TypeOK /\ NothingOverdrawn)` | |
| `SettledOnce`, `CashIsExplained` | `Spec => []PaymentsSettleOnce`, `Spec => []CashExplained` | |
| `RowsAreALedger` | `Spec => MovesAsTheLedger`: Payables implements GeneralLedger | |
| `SubLedgerIsSound` | `Spec => []SubLedgerSound` | `create_refund` does not overlap |
| `ExecutedStaysExecuted` | `Spec => ExecutedStays` | `submit_payment` does not overlap |

`IInv` is `Rows` (types, and refunds name notes that are there), `NothingOverdrawn`,
`AllocatedLater` and `Locked`: two requests hold different notes, and what a request
has read of the drafts under such a lock is not paid meanwhile. Paid sums need no
more, because every step moves two columns alike: `SettleGap` and `CashGap` never
change. The refinement is the same argument with the three balances of the ledger,
one step for one voucher. That drafts fit (`Fits`) needs that the drafts a request
knows are all there are of the notes it holds; `create_refund` is what breaks it.

`Procurement_proofs`, for any orders, lines, warehouses, mixes and workers:

| theorem | statement | assumes |
|---|---|---|
| `LinesStaySound` | `Spec => [](TypeOK /\ LinesSound)` | |
| `StockIsOnTheLines` | `Spec => []LinesFollowGoods` | where receipts are deleted by hand, there are payables |
| `StatusIsTold` | `Spec => []StatusTellsReceipts` | |
| `GoodsMoveJustOnce` | `Spec => []GoodsMoveOnce` | |
| `QuantitiesStillFit` | `Spec => []QuantitiesFit` | |

`Core` has the types, the sound lines, and what a request works on: it is there, and
an order that is not has no lines. `Grounded` adds why a line that received goods is
never replaced: a receipt that stands for it, which its payable protects. The last
three properties are about mixes that are `Documented` and are proved for those:
`Flow` says what a request still knows of the status it read (`Knowing`), that drafts
are of open orders, that drafts fit and that the status tells the receipts; none of
these is inductive alone. `Returning` is the same for the returns, whose quantities
are read twice.

`Receivables_proofs`, for any deliveries, amounts, workers and number of rows:

| theorem | statement | assumes |
|---|---|---|
| `MoneySettles` | `Spec => []MoneySettlesOnce` | |
| `BalanceIsExplained` | `Spec => []BalanceExplained` | `write_off_red` is not requested |
| `GoodsAreBilledOnce` | `Spec => []BilledOnce` | `generate` does not overlap |
| `GoodsComeBackOnce` | `Spec => []GoodsReturnOnce` | `create_return` and the three requests that write the status of a return unlocked do not overlap |

`Core` has the types, `NeverOverpaid` and what the lock on a return protects: it is
APPROVED, has the quantity that was read, and no two requests hold it. Three
differences (`UsedGap`, `CashGap`, `BalanceGap`) are left alone by every step; the
exception is a receipt written off a red receivable, which moves the balance the
wrong way (section 3). `BilledWithin` bounds what is asked for by what was delivered,
the request to bill the order that is under way included; `ComesBack` bounds the open
returns, with the quantity a creation has just tested.

`SalesFulfilment_proofs`, for any orders, lines, warehouses, openings and workers:

| theorem | statement | assumes |
|---|---|---|
| `Types` | `Spec => []TypeOK` | `FromOrders`, `DecidedAlone` |
| `GoodsLeave` | `Spec => []GoodsLeaveOnce` | the same and `CompletedStay` |
| `OutboundLife` | `Spec => OutboundLifecycle` | the same and `CompletedStay` |
| `NeverBeyondOrdered` | `Spec => []WithinOrdered` | `FromOrders`, `HarmlessOverlap`, `OrdersStay`, `LinesNamedOnce` |
| `StockIsSound` | `Spec => []StockSound` | the same |
| `FinishedStay` | `Spec => FinishedOrdersStay` | the same |
| `AllocationHolds` | `Spec => []AllocationMatchesStatus` | the same |
| `StatusHolds` | `Spec => []StatusIsTrue` | the same, `CompletesAlone` and `OrdersHaveLines` |

`FromOrders`: no outbound order is made by hand or given another sales order.
`DecidedAlone`: approving and cancelling one overlaps with nothing. `CompletedStay`:
receivables are made automatically, or no outbound order is deleted. Then `Core` (types,
rows that name what is there, and for every request under way what the locks and the
kinds that may run beside it leave true of what it read) is inductive, and with it,
where completed orders stay, `Leave`: what was shipped of a line and what left a
warehouse are columns of the completed outbound orders.

The others need that the requests which plan, reserve, request and cancel are
served alone (`HarmlessOverlap` names those that may overlap). They assume two things
more, the second found by a proof step that could not be made: no order is deleted
(`OrdersStay`: deleting an allocated order loses its reservation), and no list of
lines names an order line twice (`LinesNamedOnce`: the check of
`create_from_sales_order` is made line by line, and two that fit may not fit
together). `Sure` was model-checked before it was proved and is the conjunction of

- `Fit`: of every line, what open outbound orders ask for is allocated, and shipped
  and allocated together are within what was ordered,
- `Held`: the status of an order tells what its lines have allocated and shipped,
- `Filled`: no outbound order is empty,
- `Backed`: the locked quantity of a warehouse is what its lines have allocated,
- `Promised`: what is owed to orders that are open, or that a submission or approval
  under way may open again (`Pledged`), is in stock,
- `Known`: what each request has read is still so, as far as it will use it.

From it follows what the writers of an order find: whoever sets a status finds one it
may be set from (`OrderMoves`), and a completion finds its order holding stock
(`CommitMoves`), so an order that is over is written by nobody. `StatusIsTrue` says
more of completions than the locks give, since two of them that ship different
warehouses for one order each count the lines without the other's; it is proved where
they wait for each other (`CompletesAlone`), and of orders that have lines
(`OrdersHaveLines`, which the `create` view and `update_order` ask for: of an order
without lines nothing and everything is shipped). `Telling` adds to `Sure` that the
status tells what was shipped (`Told`), that what a completion counted is still so
(`Counted`), and that shipped quantities are natural numbers (`Shippings`). The run
`sales_serial` checks both properties for one request at a time, manual outbound
orders and deletions included, which the theorems leave out; `sales_overlap` with
completions served alone was also checked for them before the proof.

`WarehouseDocuments_proofs`, for any warehouses, users, workers and any number of
transfers, stocktakes and lines:

| theorem | statement | assumes |
|---|---|---|
| `TheStockIsExplained` | `Spec => []StockExplained` | |
| `EachIsCountedOnce` | `Spec => []CountedOnce` | `FillsAlone`: `create`, `retrieve` and `complete` of stocktakes do not overlap |
| `WhatWasCountedStands` | `Spec => CountsStand` | `SubmitsOrUpdatesAlone`: `submit` or `update_items` does not overlap |

The assumption on constants is new: the warehouses are finitely many and somebody
serves transfers (`InitialAssumption`). The bounds `Modest`, `MaxTransfers`,
`MaxStocktakes` and `MaxLines` are constants and may be anything; that stocktakes
stand still while transfers overlap is part of the model, and so of the theorems.

Completing a stocktake folds `change_stock` over its lines. `PostedLines` says what
the fold comes to: the position moves by the sum of the differences. It is proved
without induction, from the recursive function by which the community modules define
the fold: the closed form satisfies its equation (`ClosedIsPosting`), and two
functions that do are equal, since there is no least set on which they differ
(`PostingIsClosed`). `Explains` is the invariant of the first theorem: types, what a
request under way knows (`Transferring`, `Counting`), that stock and goods in transit
are within what the books started from and stocktakes posted, and, where transfers do
not overlap, the equation of every warehouse (`Told`). A step about transfers is a
`CarrierEffect`: one row is saved, one warehouse moves, and what comes in was under
way; one about stocktakes is a `CounterEffect`: one row is saved, and one warehouse
moves by what the row says was posted. `CountFine` carries `CountedOnce`: nothing is
posted of a stocktake that is not completed, a request that found no lines is alone
and there still are none, an edit writes back COMPLETED just where it stands, and
counts are entered where nothing was posted. `AllStand` carries `CountsStand`: while
counts are entered the stocktake is a draft. Both were model-checked with two workers
and the kinds they assume overlapping before they were proved.

`Platform_proofs` proves of `Tenancy`, for any modules, resources, workers, mixes and
bounds:

| theorem | statement | assumes |
|---|---|---|
| `TenancyTrees` | `Spec => []DepartmentsAreTrees` | `edit_department` does not overlap with itself |
| `TenancyGrants` | `Spec => []GrantsStand` | `create_grant` overlaps neither with itself nor with `put_policy` |
| `TenancyReferences` | `Spec => []ReferencesFollow` | |
| `TenancyConfigured` | `Spec => []ConfigurationApplied` | `login` overlaps with neither `apply` nor `bind` |

Types, and that each request names rows that were made (`Core`), are inductive alone;
each theorem adds what it needs:

- `Forest`: above every department is a department that exists (`Founded`), none is
  above itself (`Acyclic`), users are in departments that exist (`Placed`), and while
  a department is being moved it is not above its new place (`MovesFit`). The last is
  what a second edit breaks, and what a destroy does not: it shortens no path.
- `Granting`: resources of grants are special and subjects exist (`Standing`), no two
  are alike (`Single`), and a grant that passed its checks is still of a special resource
  and the first of its kind (`AsksFit`), which a policy that is set, or another grant
  that is made, before it is saved would undo.
- `Following`: the codes of every role hold what they imply, those of roles that are
  switched off too, and the login that synchronises a role holds exactly what is enabled.
- `Applying`: there is one system role at most, and where there is one somebody has it
  (`Administered`); once a configuration is applied the switches are its own and that
  role holds what is enabled (`ConfigFollowed`); and no request under way edits or
  destroys the role or an administrator, or is a login with the codes of an earlier
  configuration (`KeepsTo`).

The departments above one are a recursive function of the model. `Up` is the least set
that is closed under being above; `RiseExists`, `UpLeast` and `CountUp` say that it is
what the function computes, with a minimal counterexample where one expects induction.

Of `Blueprints`, for any manifests, configurations, threads, labels and rows:

| theorem | statement |
|---|---|
| `PublicationAlone` | `BlueprintsSpec => [](PublishesAlone => OnePublished)` |
| `GenerationsStaySound` | `BlueprintsSpec => []GenerationsSound` |
| `PackagesStayComplete` | `BlueprintsSpec => []PackagesComplete` |

`BlueprintsAssumption` says what the constants are, that the core package is accepted
when the registry loads it, and that `create_saas` does not overlap with itself
(section 3). `PublishesAlone` is about the mix of a behaviour, a variable that never
changes: create, edit and publish do not overlap with each other, though clones,
deletions, deployments and generations may overlap with all of them. `Fits` has the
types and what each request knows: a generation under way has a configuration from
which something can be generated, and rows that exist, while the version it came from
may be edited. `Orders` carries the first theorem: there is one writer at most, what
it found published is all there is besides what it publishes, and what an edit brings
is generable, so that it is not found invalid after it was published. `Runs` carries
the last part of the second: the configuration of each tenant is that of its latest
job. That what was generated is closed under dependencies is `BehindWithin`: a set
closed under one step holds all that is behind its members, through the stages of the
recursive function that collects them (`StagesExist`), of a graph that is finite.

`PackagesStayComplete` is about the three depth-first visits of the code: that of the
loader, that of its check for cycles and that of the planner, each a recursive function
that folds itself over what a module needs. They are proved about together. `VisitTyped`,
`VisitOnward` and `VisitFalls` say of a visit, given by its parts, that a rank falls
from a module to those visited within; `VisitExists` then constructs the function, one
rank after the other, and the definition's own `CHOOSE` is shown to satisfy its equation
(`VisitedSolved`, `SortedSolved`, `ExploredSolved`). For the planner and the loader the
rank is how many modules are behind one (`DepthFalls`), which needs a graph without
cycles; for the check, which is there to find them, it is the room that is left among
the modules not being visited (`RoomFalls`). What a visit does is then a rank-by-rank argument:
`VisitedGathers` (a closed set stays closed and gains what is behind the module, no
more), `SortedLists` (what is listed is listed after what it needs, once),
`ExploredClears` (either it raises, and some module is behind itself, or what it visited
is clear of cycles). `CyclesDetected`, `LoadOrderListed` and `ResolvedGathers` put them
together, `FirstRegistered` says what the program starts with, and `PackageIsWell`
says it of the package of any configuration. `Informed` carries it along the steps: no
version, request or job names a module that is not registered, and the package of an
export is that of its configuration. That no page is in the pruned codes of two features
(`PrunesApart`) is a fact about the manifests of the repository. Two things are assumed
of the constants, and TLC evaluates them for the instances: that the core package is
accepted, and (`LoadsAssumption`) that the menus and permissions of the apps fit together in
every set of apps that is closed under the graph that was chosen; that `validate_modules`
accepts the whole is not proved from the twelve manifests.

**Only model-checked.** `TransactionsEnd` and `ExecutionsEnd` (liveness is out of
the prover's reach); `Serializable` (its plans are run by a fold over calls that may
fail, whose value for every plan is an induction over data); `ReferencesReached` (a fact
about the permission codes the apps of the repository declare, for each set of apps that
is closed: it has no parameter to prove it for, and TLC enumerates the sets).

## 5. Not modelled

- In the components that are modelled: direct writes to `Inventory` through the
  REST resource (a full `ModelViewSet` that bypasses the service and its
  movements), `CodeRule` resets by date and edits by hand, attachments, statistics,
  prices, due dates, exports; the inherited update and destroy of sales returns,
  receipts, receivables, payables, refunds and, in `Payables`, payments.
- crm's credit check (`src/business_apps/crm/services.py:107`) compares an amount with
  a balance that only grows when goods have left; it promises no bound that could be
  stated. Numbers by `generate_no`
  sort as text and repeat after 9999 of a day.
- In blueprints and configuration: the blueprint's own record, system instances,
  templates, field rules, numbers by rule and the resolution of single settings. In
  generation: the text of the files and the page that lists jobs. In modules: the
  checks of routes and public services.
- policies enter as constants or choices of the request; the registry that finds
  the implementation of one is a look-up.
- reports, supplier, organization, system, files, dictionaries and authentication
  are records, logs and aggregates that nothing in the flows above reads back.

`PROJECT.json` gives each of them its reason.

Next: that the manifests fit together in every closed set of apps (`LoadsAssumption`),
from the declarations of `Catalog`; the inherited updates of the documents of money.

## 6. Running it

```
tlc -workers 2 -config inventory_tx.cfg MCInventory.tla
tlc -workers 2 -config sales_overlap.cfg MCSales.tla
tlc -workers 2 -config tenancy.cfg MCTenancy.tla
tlc -workers 2 -config blueprints.cfg MCBlueprints.tla
tlapm TableTheorems.tla
tlapm Services_proofs.tla
tlapm Payables_proofs.tla
tlapm Procurement_proofs.tla
tlapm Receivables_proofs.tla
tlapm SalesFulfilment_proofs.tla
tlapm WarehouseDocuments_proofs.tla
tlapm Platform_proofs.tla
```
Each run ends within three minutes on two cores, most of them within one; the
largest are `procurement_flow`, `sales_serial` and `tenancy`, each with more than half
a million states. From nothing, the proofs of `TableTheorems`
take about a minute, those of the other modules two to ten.
