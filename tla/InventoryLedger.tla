-------------------------- MODULE InventoryLedger --------------------------
(***************************************************************************)
(* What InventoryService promises: business transactions on stock happen   *)
(* one at a time, each of them entirely or not at all.                     *)
(*                                                                         *)
(* A plan is the list of calls one business transaction makes (the items   *)
(* of an order being allocated, an outbound being completed, a stocktake   *)
(* being posted).  A step runs a whole plan on the stored positions.  The  *)
(* module InventoryService interleaves the same plans statement by         *)
(* statement under row locks and is checked to implement this one.         *)
(***************************************************************************)
EXTENDS StockRow, SequencesExt

CONSTANTS Warehouses, Products, Plans

VARIABLES stock,      \* the stock position of every (warehouse, product)
          sequence    \* CodeRule.current_sequence of the two rules

vars == <<stock, sequence>>

Rows == Warehouses \X Products

(***************************************************************************)
(* One call, run alone on the database s; ok turns FALSE when it raises.   *)
(***************************************************************************)
RunCall(s, c) ==
  LET saved == Saved(c, s.stock[c.row])
      n     == s.sequence[RuleOf(c)] + 1
  IN  IF ~ (s.ok /\ Accepts(c, s.stock[c.row]))
      THEN [s EXCEPT !.ok = FALSE]
      ELSE IF IsMovement(c)
           THEN [s EXCEPT !.stock[c.row] = Record(c, saved, n),
                          !.sequence[RuleOf(c)] = n]
           ELSE [s EXCEPT !.stock[c.row] = saved]

RunPlan(plan) ==
  FoldLeft(RunCall, [stock |-> stock, sequence |-> sequence, ok |-> TRUE], plan)

Init ==
  /\ stock = [r \in Rows |-> NoPosition]
  /\ sequence = [c \in Rules |-> 0]

Run(plan) ==
  LET end == RunPlan(plan)
  IN  /\ end.ok
      /\ stock' = end.stock
      /\ sequence' = end.sequence

Next == \E plan \in Plans : Run(plan)

Spec == Init /\ [][Next]_vars
=============================================================================
