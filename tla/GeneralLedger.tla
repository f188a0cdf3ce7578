--------------------------- MODULE GeneralLedger ---------------------------
(***************************************************************************)
(* What the books promise: the balances of the subjects change by the      *)
(* vouchers of business events only, one at a time, each with one line in  *)
(* debit and one in credit of the same amount.                             *)
(*                                                                         *)
(* Posting implements it with documents, periods and a log of what was     *)
(* posted.  Payables, which writes no vouchers itself, implements it too:  *)
(* its rows always come to what the subject 2202 would show if every event *)
(* of theirs was posted.                                                   *)
(***************************************************************************)
EXTENDS Integers

CONSTANTS Events,    \* the events of the business at hand
          Amounts    \* bound: the amounts of their vouchers

\* The subjects of the vouchers: 1001 and 1002 are one, "cash".
Subjects == {"1405", "1122", "2202", "6001", "cash"}

Entry(debit, credit) == [debit |-> debit, credit |-> credit]

\* The line_specs of VoucherService, one pair for each event.
Lines == [PURCHASE_RECEIPT |-> Entry("1405", "2202"),
          SALES_OUTBOUND   |-> Entry("1122", "6001"),
          AR_RECEIPT       |-> Entry("cash", "1122"),
          AP_PAYMENT       |-> Entry("2202", "cash"),
          CUSTOMER_REFUND  |-> Entry("1122", "cash"),
          SUPPLIER_REFUND  |-> Entry("cash", "2202"),
          SALES_RETURN     |-> Entry("6001", "1122"),
          PURCHASE_RETURN  |-> Entry("2202", "1405")]

VARIABLE balance   \* debits less credits of each subject

\* The balances with one voucher more.
Entered(b, event, amount) ==
  [s \in Subjects |-> IF s = Lines[event].debit THEN b[s] + amount
                      ELSE IF s = Lines[event].credit THEN b[s] - amount ELSE b[s]]

Init == balance = [s \in Subjects |-> 0]

Next == \E event \in Events, amount \in Amounts : balance' = Entered(balance, event, amount)

Spec == Init /\ [][Next]_balance
=============================================================================
