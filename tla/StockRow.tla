------------------------------ MODULE StockRow ------------------------------
(***************************************************************************)
(* One stock position and the four calls of InventoryService on it.        *)
(*                                                                         *)
(* A position is the Inventory row of one (warehouse, product) pair        *)
(* together with the InventoryTransaction rows written for that pair.  The *)
(* operators say what a call does to a position; who may run them, and     *)
(* when, is the business of the modules that extend this one.              *)
(***************************************************************************)
EXTENDS Integers, Sequences

(***************************************************************************)
(* CodeRule rows that number the movements: change_stock uses the default  *)
(* of _build_transaction_payload, ship_stock passes SHIPMENT.              *)
(***************************************************************************)
Rules == {"INVENTORY_TRANSACTION", "SHIPMENT"}

Kinds == {"change", "reserve", "release", "ship"}

\* A call names the position (<<warehouse, product>>) and the quantity.
Calls(R) == [kind : Kinds, row : R, qty : Int]

\* An InventoryTransaction: its number (rule and sequence) and quantities.
Movements == [rule : Rules, no : Nat, quantity : Int, before : Int, after : Int]

Positions == [exists : BOOLEAN, current : Int, locked : Int, log : Seq(Movements)]

\* No Inventory row yet: get_or_create will insert it with zeros.
NoPosition == [exists |-> FALSE, current |-> 0, locked |-> 0, log |-> << >>]

Available(pos) == pos.current - pos.locked

\* Mutation of Clean: reservations are forgotten.
CleanCurrent(pos) == pos.current >= 0

\* Inventory.clean, which Inventory.save runs through full_clean.
Clean(pos) == Available(pos) >= 0

AtLeastZero(n) == IF n < 0 THEN 0 ELSE n

\* change_stock and ship_stock write a movement; the other two only lock.
IsMovement(c) == c.kind \in {"change", "ship"}

\* The signed quantity of the movement.
Delta(c) == IF c.kind = "ship" THEN -c.qty ELSE c.qty

RuleOf(c) == IF c.kind = "ship" THEN "SHIPMENT" ELSE "INVENTORY_TRANSACTION"

\* change_stock and reserve_stock get_or_create the row, the others get it.
NeedsRow(c) == c.kind \in {"release", "ship"}

(***************************************************************************)
(* The row as each call saves it (the movement is appended by Record).     *)
(***************************************************************************)
ChangeStock(pos, q)  == [pos EXCEPT !.exists = TRUE, !.current = @ + q]
ReserveStock(pos, q) == [pos EXCEPT !.exists = TRUE, !.locked = @ + q]
ReleaseStock(pos, q) == [pos EXCEPT !.locked = AtLeastZero(@ - q)]

ShipStock(pos, q)    == [pos EXCEPT !.locked = AtLeastZero(@ - q),
                                    !.current = @ - q]

Saved(c, pos) ==
  CASE c.kind = "change"  -> ChangeStock(pos, c.qty)
    [] c.kind = "reserve" -> ReserveStock(pos, c.qty)
    [] c.kind = "release" -> ReleaseStock(pos, c.qty)
    [] c.kind = "ship"    -> ShipStock(pos, c.qty)

(***************************************************************************)
(* The call raises nothing: the row is there when it must be, the checks   *)
(* of the method pass, the saved row is clean, and a movement is not of    *)
(* quantity zero (InventoryTransaction.clean).                             *)
(***************************************************************************)
Accepts(c, pos) ==
  /\ NeedsRow(c) => pos.exists
  /\ c.kind = "reserve" => Available(pos) >= c.qty
  /\ IsMovement(c) => Delta(c) # 0 /\ pos.current + Delta(c) >= 0
  /\ Clean(Saved(c, pos))

\* Mutation of Record: before_qty is read after the row is saved.
RecordLate(c, pos, n) ==
  [pos EXCEPT !.log = Append(@, [rule     |-> RuleOf(c),
                                 no       |-> n,
                                 quantity |-> Delta(c),
                                 before   |-> pos.current,
                                 after    |-> pos.current])]

\* _build_transaction_payload and _create_transaction, on the saved row.
Record(c, pos, n) ==
  [pos EXCEPT !.log = Append(@, [rule     |-> RuleOf(c),
                                 no       |-> n,
                                 quantity |-> Delta(c),
                                 before   |-> pos.current - Delta(c),
                                 after    |-> pos.current])]

(***************************************************************************)
(* What a position must always satisfy.                                    *)
(***************************************************************************)

\* Never oversold: what is promised to orders is on the shelf.
Sound(pos) == 0 <= pos.locked /\ pos.locked <= pos.current

\* The quantity after the last movement.
EndOf(log) == IF log = << >> THEN 0 ELSE log[Len(log)].after

\* Each movement starts where the one before it ended, and moves by its
\* quantity.
Chained(log) ==
  \A i \in 1..Len(log) :
    /\ log[i].after = log[i].before + log[i].quantity
    /\ log[i].before = IF i = 1 THEN 0 ELSE log[i - 1].after

\* The movements account for the present quantity.
Explained(pos) == Chained(pos.log) /\ pos.current = EndOf(pos.log)
=============================================================================
