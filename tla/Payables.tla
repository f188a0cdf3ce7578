------------------------------ MODULE Payables ------------------------------
(***************************************************************************)
(* What is owed to one supplier: APService, with the purchase orders whose *)
(* receipts make payables and whose returns take them back.                *)
(*                                                                         *)
(* Goods cost one unit of money apiece.  Procurement says which receipts   *)
(* and returns happen; here they are steps that make goods come in and go  *)
(* back.  A return lowers what is unpaid of its order; the rest becomes a  *)
(* credit note, used by later payables of any order or paid back.          *)
(*                                                                         *)
(* The methods lock the rows they decide on, save two.  submit_payment     *)
(* decides on the payment the view loaded.  _sync_pending_supplier_refunds *)
(* resizes the refunds it read as drafts, without locking them: the steps  *)
(* that use a credit note hold the lock of the note between the reading of *)
(* its drafts and the writing.  Who acts is left out, as in Receivables.   *)
(***************************************************************************)
EXTENDS Integers, Sequences, FiniteSets, Functions

CONSTANTS Orders,              \* purchase orders of the supplier
          Opening,             \* current_balance of the cash account
          Amounts,             \* quantities, amounts of payments and allocations
          Approval, Partial,   \* values the settings of the policies may have
          Requests, Racing,    \* the kinds of request, and those that may overlap
          Workers,
          MaxAccounts, MaxPayments, MaxNotes, MaxRefunds,   \* bounds: rows ever made
          NoOrder

ASSUME PayablesAssumption ==
  /\ Opening \in Nat
  /\ Amounts \subseteq Nat \ {0} /\ \A n \in Amounts : 1 .. n \subseteq Amounts
  /\ Approval \cup Partial \subseteq BOOLEAN
  /\ Racing \subseteq Requests
  /\ IsFiniteSet(Orders) /\ NoOrder \notin Orders

VARIABLES
  received,   \* the goods each order's receipts brought in
  returned,   \* the goods each order's returns took back
  accounts,   \* the APAccount rows in the order they were made
  payments,   \* the APPayment rows
  notes,      \* the SupplierCreditNote rows
  refunds,    \* the SupplierRefund rows
  cash,       \* CashAccount.current_balance
  job         \* the request each worker is serving

goods == <<received, returned>>
vars == <<received, returned, accounts, payments, notes, refunds, cash, job>>

Idle == [kind |-> "idle", number |-> 0, order |-> NoOrder, qty |-> 0,
         notes |-> {}, drafts |-> {}]

\* The request may be served beside those under way.
MayStart(w, kind) ==
  /\ kind \in Requests
  /\ job[w] = Idle
  /\ \A v \in Workers \ {w} :
       job[v] = Idle \/ (kind \in Racing /\ job[v].kind \in Racing)

Done(w) == job' = [job EXCEPT ![w] = Idle]

Lesser(a, b) == IF a < b THEN a ELSE b

AtLeastZero(n) == IF n < 0 THEN 0 ELSE n

Total(s, amount(_)) == SumFunction([i \in DOMAIN s |-> amount(s[i])])

\* APAccount.balance_amount, unallocated_amount, remaining_amount.
Unpaid(a)      == a.total - a.paid
Unallocated(p) == p.amount - p.allocated
Remaining(c)   == c.amount - c.used

Init ==
  /\ received = [o \in Orders |-> 0]
  /\ returned = [o \in Orders |-> 0]
  /\ accounts = << >> /\ payments = << >> /\ notes = << >> /\ refunds = << >>
  /\ cash = Opening
  /\ job = [w \in Workers |-> Idle]

-----------------------------------------------------------------------------
(* Credit notes. *)

\* Mutation of NotesFree: the notes are read without a lock.
NotesUnlocked(ns) == TRUE

\* select_for_update of the notes waits for who holds them.
NotesFree(ns) == \A v \in Workers : job[v].notes \cap ns = {}

\* The refunds of the notes that are drafts at the moment.
DraftsOf(ns) == {k \in DOMAIN refunds : refunds[k].note \in ns /\ refunds[k].status = "DRAFT"}

\* Mutation of Synced: drafts keep the amount they were made with.
NotSynced(changed, drafts) == refunds

\* _sync_pending_supplier_refunds, for the notes that were changed.
Synced(changed, drafts) ==
  [k \in DOMAIN refunds |->
     LET left == Remaining(changed[refunds[k].note]) IN
     IF k \notin drafts THEN refunds[k]
     ELSE IF left > 0 THEN [refunds[k] EXCEPT !.amount = left]
     ELSE [refunds[k] EXCEPT !.status = "CANCELLED"]]

\* What apply_open_credit_notes takes of note n for a payable of qty: oldest first.
Offset(ns, n, qty) ==
  Lesser(Remaining(notes[n]),
         AtLeastZero(qty - SumFunction([m \in {m \in ns : m < n} |-> Remaining(notes[m])])))

Using(ns, qty) ==
  [n \in DOMAIN notes |->
     IF n \in ns THEN [notes[n] EXCEPT !.used = @ + Offset(ns, n, qty)] ELSE notes[n]]

\* execute_receipt, up to the lock on the supplier's notes.
LockNotes(w, o, qty) ==
  /\ MayStart(w, "receive")
  /\ Len(accounts) < MaxAccounts
  /\ NotesFree(DOMAIN notes)
  /\ job' = [job EXCEPT ![w] = [Idle EXCEPT !.kind = "receive", !.order = o, !.qty = qty,
                                            !.notes = DOMAIN notes,
                                            !.drafts = DraftsOf(DOMAIN notes)]]
  /\ UNCHANGED <<goods, accounts, payments, notes, refunds, cash>>

\* generate_ap_from_receipt: a payable, less the credit that is open.
GenerateFromReceipt(w) ==
  LET j       == job[w]
      used    == Using(j.notes, j.qty)
      touched == {n \in j.notes : used[n] # notes[n]}
      credit  == SumFunction([n \in j.notes |-> Offset(j.notes, n, j.qty)])
  IN  /\ j.kind = "receive"
      /\ Len(accounts) < MaxAccounts
      /\ received' = [received EXCEPT ![j.order] = @ + j.qty]
      /\ notes' = used
      /\ refunds' = Synced(used, {k \in j.drafts : refunds[k].note \in touched})
      /\ accounts' = Append(accounts, [order |-> j.order, total |-> j.qty - credit,
                                       paid |-> 0])
      /\ Done(w)
      /\ UNCHANGED <<returned, payments, cash>>

Adjustable(o, i) == IF accounts[i].order = o THEN AtLeastZero(Unpaid(accounts[i])) ELSE 0

\* What reverse_ap_for_purchase_return takes off the i-th payable: oldest first.
Adjustment(o, i, qty) ==
  Lesser(Adjustable(o, i),
         AtLeastZero(qty - SumFunction([j \in 1..(i - 1) |-> Adjustable(o, j)])))

\* PurchaseReturnService.complete_order, on the books of the supplier.
ReverseForReturn(w, o, qty) ==
  LET rest == qty - SumFunction([i \in DOMAIN accounts |-> Adjustment(o, i, qty)])
  IN  /\ MayStart(w, "return")
      /\ qty <= received[o] - returned[o]
      /\ returned' = [returned EXCEPT ![o] = @ + qty]
      /\ accounts' = [i \in DOMAIN accounts |->
                        [accounts[i] EXCEPT !.total = @ - Adjustment(o, i, qty)]]
      /\ IF rest > 0
         THEN /\ Len(notes) < MaxNotes /\ Len(refunds) < MaxRefunds
              /\ notes' = Append(notes, [amount |-> rest, used |-> 0])
              /\ refunds' = Append(refunds, [note |-> Len(notes) + 1, amount |-> rest,
                                             status |-> "DRAFT", account |-> FALSE])
         ELSE UNCHANGED <<notes, refunds>>
      /\ UNCHANGED <<received, payments, cash, job>>

-----------------------------------------------------------------------------
(* Supplier refunds. *)

RefundStatus == {"DRAFT", "PENDING_APPROVAL", "APPROVED", "COMPLETED", "CANCELLED"}

\* create_supplier_refund, from the endpoint: all the credit, as often as asked.
CreateRefund(w, n) ==
  /\ MayStart(w, "create_refund")
  /\ Len(refunds) < MaxRefunds
  /\ Remaining(notes[n]) > 0
  /\ refunds' = Append(refunds, [note |-> n, amount |-> Remaining(notes[n]),
                                 status |-> "DRAFT", account |-> FALSE])
  /\ UNCHANGED <<goods, accounts, payments, notes, cash, job>>

\* submit_supplier_refund and approve_supplier_refund.
MoveRefund(w, kind, k, from, to) ==
  /\ MayStart(w, kind)
  /\ refunds[k].status = from
  /\ refunds' = [refunds EXCEPT ![k].status = to]
  /\ UNCHANGED <<goods, accounts, payments, notes, cash, job>>

SubmitRefund(w, k)  == MoveRefund(w, "submit_refund", k, "DRAFT", "PENDING_APPROVAL")
ApproveRefund(w, k) == MoveRefund(w, "approve_refund", k, "PENDING_APPROVAL", "APPROVED")

\* The credit that is left covers the refund.
Refundable(k) == Remaining(notes[refunds[k].note]) >= refunds[k].amount

\* execute_supplier_refund, up to the drafts of the note.
LockRefund(w, k) ==
  LET ns == {refunds[k].note} IN
  /\ MayStart(w, "execute_refund")
  /\ NotesFree(ns)
  /\ refunds[k].status = "APPROVED"
  /\ Refundable(k)
  /\ job' = [job EXCEPT ![w] = [Idle EXCEPT !.kind = "execute_refund", !.number = k,
                                            !.qty = refunds[k].amount,
                                            !.notes = ns, !.drafts = DraftsOf(ns)]]
  /\ UNCHANGED <<goods, accounts, payments, notes, refunds, cash>>

\* The rest of it: the supplier's money is in the account, if one is named.
ExecuteRefund(w, account) ==
  LET j    == job[w]
      used == [n \in DOMAIN notes |->
                 IF n \in j.notes THEN [notes[n] EXCEPT !.used = @ + j.qty] ELSE notes[n]]
  IN  /\ j.kind = "execute_refund"
      /\ cash' = IF account THEN cash + j.qty ELSE cash
      /\ notes' = used
      /\ refunds' = [Synced(used, j.drafts) EXCEPT ![j.number].status = "COMPLETED",
                                                   ![j.number].account = account]
      /\ Done(w)
      /\ UNCHANGED <<goods, accounts, payments>>

-----------------------------------------------------------------------------
(* Payments and their allocation. *)

PaymentStatus == {"DRAFT", "PENDING_APPROVAL", "APPROVED", "COMPLETED"}

CreatePayment(w, amount, account) ==
  /\ MayStart(w, "create_payment")
  /\ Len(payments) < MaxPayments
  /\ payments' = Append(payments, [amount |-> amount, allocated |-> 0, status |-> "DRAFT",
                                   account |-> account, executed |-> FALSE])
  /\ UNCHANGED <<goods, accounts, notes, refunds, cash, job>>

\* Mutation of Submittable: a payment is submitted again.
NotCompleted(p) == payments[p].status # "COMPLETED"

Submittable(p) == payments[p].status = "DRAFT"

\* submit_payment, the test of the payment the view loaded.
LoadPayment(w, p) ==
  /\ MayStart(w, "submit_payment")
  /\ Submittable(p)
  /\ job' = [job EXCEPT ![w] = [Idle EXCEPT !.kind = "submit_payment", !.number = p]]
  /\ UNCHANGED <<goods, accounts, payments, notes, refunds, cash>>

\* Its save: approved at once where the policy asks for no approval.
SubmitPayment(w, approval) ==
  /\ job[w].kind = "submit_payment"
  /\ payments' = [payments EXCEPT ![job[w].number].status =
                    IF approval THEN "PENDING_APPROVAL" ELSE "APPROVED"]
  /\ Done(w)
  /\ UNCHANGED <<goods, accounts, notes, refunds, cash>>

ApprovePayment(w, p) ==
  /\ MayStart(w, "approve_payment")
  /\ payments[p].status = "PENDING_APPROVAL"
  /\ payments' = [payments EXCEPT ![p].status = "APPROVED"]
  /\ UNCHANGED <<goods, accounts, notes, refunds, cash, job>>

Executable(p) == payments[p].status = "APPROVED" /\ ~ payments[p].executed

Affords(p) == payments[p].account => cash >= payments[p].amount

\* execute_payment: the money has left the account.
ExecutePayment(w, p) ==
  /\ MayStart(w, "execute_payment")
  /\ Executable(p)
  /\ Affords(p)
  /\ cash' = IF payments[p].account THEN cash - payments[p].amount ELSE cash
  /\ payments' = [payments EXCEPT ![p].executed = TRUE]
  /\ UNCHANGED <<goods, accounts, notes, refunds, job>>

\* Mutation of Together: the payment is charged with one share of a request.
LargestShare(share) == CHOOSE n \in {share[i] : i \in DOMAIN share} :
                         \A i \in DOMAIN share : share[i] <= n

\* What the shares of a request come to.
Together(share) == SumFunction(share)

\* allocate_payment: a payment that is executed settles one payable or several.
AllocatePayment(w, p, share, partial) ==
  LET allocated == payments[p].allocated + Together(share)
  IN  /\ MayStart(w, "allocate")
      /\ payments[p].executed
      /\ Together(share) <= Unallocated(payments[p])
      /\ \A i \in DOMAIN share : /\ share[i] <= Unpaid(accounts[i])
                                 /\ partial \/ share[i] = Unpaid(accounts[i])
      /\ accounts' = [i \in DOMAIN accounts |->
                        IF i \in DOMAIN share
                        THEN [accounts[i] EXCEPT !.paid = @ + share[i]] ELSE accounts[i]]
      /\ payments' = [payments EXCEPT ![p].allocated = allocated,
                        ![p].status = IF allocated >= payments[p].amount
                                      THEN "COMPLETED" ELSE @]
      /\ UNCHANGED <<goods, notes, refunds, cash, job>>

\* The method fails after it has begun: nothing is kept.
Abort(w) ==
  /\ job[w] # Idle
  /\ Done(w)
  /\ UNCHANGED <<goods, accounts, payments, notes, refunds, cash>>

-----------------------------------------------------------------------------

GoodsStep(w) ==
  \/ \E o \in Orders, qty \in Amounts : LockNotes(w, o, qty) \/ ReverseForReturn(w, o, qty)
  \/ GenerateFromReceipt(w)

RefundStep(w) ==
  \/ \E n \in DOMAIN notes : CreateRefund(w, n)
  \/ \E k \in DOMAIN refunds : SubmitRefund(w, k) \/ ApproveRefund(w, k) \/ LockRefund(w, k)
  \/ \E account \in BOOLEAN : ExecuteRefund(w, account)

PaymentStep(w) ==
  \/ \E amount \in Amounts, account \in BOOLEAN : CreatePayment(w, amount, account)
  \/ \E approval \in Approval : SubmitPayment(w, approval)
  \/ \E p \in DOMAIN payments :
       \/ LoadPayment(w, p)
       \/ ApprovePayment(w, p)
       \/ ExecutePayment(w, p)
       \/ \E is \in (SUBSET DOMAIN accounts) \ {{}}, partial \in Partial :
            \E share \in [is -> Amounts] : AllocatePayment(w, p, share, partial)

Next == \E w \in Workers : GoodsStep(w) \/ RefundStep(w) \/ PaymentStep(w) \/ Abort(w)

Spec == Init /\ [][Next]_vars

-----------------------------------------------------------------------------

\* Type invariant.
TypeOK ==
  /\ received \in [Orders -> Nat] /\ returned \in [Orders -> Nat]
  /\ \A i \in DOMAIN accounts : accounts[i] \in [order : Orders, total : Nat, paid : Nat]
  /\ \A p \in DOMAIN payments :
       payments[p] \in [amount : Amounts, allocated : Nat, status : PaymentStatus,
                        account : BOOLEAN, executed : BOOLEAN]
  /\ \A n \in DOMAIN notes : notes[n] \in [amount : Nat \ {0}, used : Nat]
  /\ \A k \in DOMAIN refunds :
       refunds[k] \in [note : DOMAIN notes, amount : Nat \ {0}, status : RefundStatus,
                       account : BOOLEAN]
  /\ cash \in Nat

RefundedBy(r) == IF r.status = "COMPLETED" THEN r.amount ELSE 0

(***************************************************************************)
(* Nothing is used beyond what it is: payables are not paid beyond their   *)
(* total, though returns lower it; payments and credit notes do not settle *)
(* more than their amount, though several requests draw on them at once.   *)
(***************************************************************************)
NothingOverdrawn ==
  /\ \A i \in DOMAIN accounts : Unpaid(accounts[i]) >= 0
  /\ \A p \in DOMAIN payments : Unallocated(payments[p]) >= 0
  /\ \A n \in DOMAIN notes : Remaining(notes[n]) >= 0

\* What payables were paid is what payments were allocated.
PaymentsSettleOnce ==
  Total(accounts, LAMBDA a : a.paid) = Total(payments, LAMBDA p : p.allocated)

(***************************************************************************)
(* The cash account holds what it held, less the payments executed and     *)
(* with the refunds received, each once: even a payment that is submitted  *)
(* again after it was executed does not leave twice.                       *)
(***************************************************************************)
CashExplained ==
  cash = Opening
    - Total(payments, LAMBDA p : IF p.executed /\ p.account THEN p.amount ELSE 0)
    + Total(refunds, LAMBDA r : IF r.account THEN RefundedBy(r) ELSE 0)

\* The subjects of the ledger as the rows show them: what payables leave to be paid,
\* less the payments and the credit that are still open.
Balances ==
  [s \in {"1405", "1122", "2202", "6001", "cash"} |->
     CASE s = "1405" -> SumFunction([o \in Orders |-> received[o] - returned[o]])
       [] s = "2202" -> Total(notes, Remaining) - Total(accounts, Unpaid)
                          + Total(payments, LAMBDA p : IF p.executed THEN Unallocated(p) ELSE 0)
       [] s = "cash" -> Total(refunds, RefundedBy)
                          - Total(payments, LAMBDA p : IF p.executed THEN p.amount ELSE 0)
       [] OTHER -> 0]

Ledger == INSTANCE GeneralLedger
            WITH Events <- {"PURCHASE_RECEIPT", "AP_PAYMENT", "SUPPLIER_REFUND",
                            "PURCHASE_RETURN"},
                 Amounts <- Amounts,
                 balance <- Balances

(***************************************************************************)
(* The rows of the supplier move as the general ledger does: goods that    *)
(* come in or go back, payments and refunds each change the payable, the   *)
(* goods and the cash by one voucher, and everything between them (credit  *)
(* offset, drafts resized, payments allocated) changes neither.  No credit *)
(* is lost and none is used twice.                                         *)
(***************************************************************************)
MovesAsTheLedger == Ledger!Spec

(***************************************************************************)
(* A draft refund asks for no more than the credit that is left: this is   *)
(* what _sync_pending_supplier_refunds is for.                             *)
(***************************************************************************)
DraftRefundsFit == \A k \in DOMAIN refunds : refunds[k].status = "DRAFT" => Refundable(k)

(***************************************************************************)
(* The sub-ledger is sound: nothing is used beyond what it is, the cash    *)
(* account holds what moved, draft refunds fit the credit that is left.    *)
(***************************************************************************)
SubLedgerSound == TypeOK /\ NothingOverdrawn /\ CashExplained /\ DraftRefundsFit

(***************************************************************************)
(* A payment that has left the account is not open again.                  *)
(***************************************************************************)
ExecutedStays ==
  [][\A p \in DOMAIN payments :
       payments[p].executed => payments'[p].status \in {payments[p].status, "COMPLETED"}]_vars
=============================================================================
