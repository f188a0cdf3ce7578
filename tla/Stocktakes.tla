----------------------------- MODULE Stocktakes -----------------------------
(***************************************************************************)
(* Stocktakes: StocktakeViewSet and the methods of InventoryService it     *)
(* calls.                                                                  *)
(*                                                                         *)
(* submit_stocktake, approve_stocktake and complete_stocktake lock the row *)
(* and read it again: one step each.  ensure_stocktake_items, which every  *)
(* read of a stocktake runs too, looks for lines in one statement and adds *)
(* them in another; update_items and the inherited update act on what they *)
(* loaded.  IN_PROGRESS is a status no code writes, and is left out.       *)
(*                                                                         *)
(* There is one product, so a warehouse has one Inventory row, and a fresh *)
(* stocktake one line.  A request whose check fails is no step here.       *)
(***************************************************************************)
EXTENDS StockRow, Functions, SequencesExt

CONSTANTS Warehouses,
          Counts,          \* the quantities a counter may enter
          Users,
          Approvals,       \* stocktake_approval_enabled(), the values it may have
          Requests,        \* the kinds of request that arrive
          Racing,          \* the kinds that may overlap with each other
          Workers,
          MaxStocktakes,   \* bound: stocktakes ever made
          MaxLines,        \* bound: lines of one stocktake
          NoUser, NoPlace

\* Assumed of the constants, by the modules that instantiate this one.
StocktakesAssumption ==
  /\ Counts \subseteq Nat
  /\ Approvals \subseteq BOOLEAN
  /\ Racing \subseteq Requests \ {"destroy"}
  /\ NoUser \notin Users /\ NoPlace \notin Warehouses

VARIABLES
  stocktakes,   \* the Stocktake rows and their lines, in the order they were made
  stock,        \* the stock position of every warehouse, movements left out
  job           \* the request each worker is serving, and the row it loaded

vars == <<stocktakes, stock, job>>

StocktakeStatus == {"DRAFT", "PENDING_APPROVAL", "APPROVED", "COMPLETED"}

\* booked: the line was made from the books, not added by hand.
CountLines == [system : Int, actual : Int, booked : BOOLEAN]

\* posted is what the movements written for the stocktake add up to in each
\* warehouse, upto the number of lines they were written for; a deleted row
\* keeps its last contents.
StocktakeRows ==
  [status : StocktakeStatus, warehouse : Warehouses, creator : Users,
   submitter : Users \cup {NoUser}, approver : Users \cup {NoUser},
   lines : Seq(CountLines), posted : [Warehouses -> Int], upto : Nat,
   deleted : BOOLEAN]

Blank == [status |-> "DRAFT", warehouse |-> NoPlace, creator |-> NoUser,
          submitter |-> NoUser, approver |-> NoUser, lines |-> << >>,
          posted |-> [r \in Warehouses |-> 0], upto |-> 0, deleted |-> FALSE]

Idle == [kind |-> "idle", phase |-> "idle", number |-> 0, row |-> Blank]

\* The request may be served beside those under way.
MayStart(w, kind) ==
  /\ kind \in Requests
  /\ job[w] = Idle
  /\ \A v \in Workers \ {w} :
       job[v] = Idle \/ (kind \in Racing /\ job[v].kind \in Racing)

At(w, kind, phase) == job[w].kind = kind /\ job[w].phase = phase

Done(w) == job' = [job EXCEPT ![w] = Idle]

Enter(w, kind, phase, n) ==
  job' = [job EXCEPT ![w] = [kind |-> kind, phase |-> phase, number |-> n,
                             row |-> stocktakes[n]]]

Difference(line) == line.actual - line.system

Init ==
  /\ stocktakes = << >>
  /\ job = [w \in Workers |-> Idle]

\* perform_create saves the row, and fills it in a transaction of its own.
CreateStocktake(w, u, r) ==
  /\ MayStart(w, "create")
  /\ Len(stocktakes) < MaxStocktakes
  /\ stocktakes' = Append(stocktakes, [Blank EXCEPT !.warehouse = r, !.creator = u])
  /\ job' = [job EXCEPT ![w] = [kind |-> "create", phase |-> "ensure",
                                number |-> Len(stocktakes'), row |-> Last(stocktakes')]]
  /\ UNCHANGED stock

\* retrieve and complete fill the stocktake first.
LoadStocktake(w, kind, n) ==
  /\ MayStart(w, kind)
  /\ ~ stocktakes[n].deleted
  /\ Enter(w, kind, "ensure", n)
  /\ UNCHANGED <<stocktakes, stock>>

\* Mutation of FindNoLines: lines are added to those that are there.
FindAny(w) ==
  /\ job[w].phase = "ensure"
  /\ job' = [job EXCEPT ![w].phase = "empty"]
  /\ UNCHANGED <<stocktakes, stock>>

\* ensure_stocktake_items: does the stocktake have lines?
FindNoLines(w) ==
  LET none == stocktakes[job[w].number].lines = << >> IN
  /\ job[w].phase = "ensure"
  /\ job' = [job EXCEPT ![w].phase = IF none THEN "empty" ELSE "filled"]
  /\ UNCHANGED <<stocktakes, stock>>

\* ensure_stocktake_items: a line for every Inventory row of the warehouse.
FillLines(w) ==
  LET n == job[w].number
      r == job[w].row.warehouse
      q == stock[r].current
  IN  /\ job[w].phase = "empty"
      /\ stocktakes' =
           [stocktakes EXCEPT ![n].lines =
              IF stock[r].exists THEN Append(@, [system |-> q, actual |-> q, booked |-> TRUE])
                                  ELSE @]
      /\ job' = [job EXCEPT ![w].phase = "filled"]
      /\ UNCHANGED stock

\* The response of create and retrieve.
Respond(w) ==
  /\ At(w, "create", "filled") \/ At(w, "retrieve", "filled")
  /\ Done(w)
  /\ UNCHANGED <<stocktakes, stock>>

\* submit_stocktake, under the lock of the row.
SubmitStocktake(w, n, u, approval) ==
  /\ MayStart(w, "submit")
  /\ ~ stocktakes[n].deleted
  /\ stocktakes[n].status = "DRAFT"
  /\ stocktakes' =
       [stocktakes EXCEPT ![n].status = IF approval THEN "PENDING_APPROVAL" ELSE "APPROVED",
                          ![n].submitter = u,
                          ![n].approver = IF approval THEN NoUser ELSE u]
  /\ UNCHANGED <<stock, job>>

\* approve_stocktake, under the lock of the row.
ApproveStocktake(w, n, u) ==
  /\ MayStart(w, "approve")
  /\ ~ stocktakes[n].deleted
  /\ stocktakes[n].status = "PENDING_APPROVAL"
  /\ u \notin {stocktakes[n].creator, stocktakes[n].submitter}
  /\ stocktakes' = [stocktakes EXCEPT ![n].status = "APPROVED", ![n].approver = u]
  /\ UNCHANGED <<stock, job>>

\* The row after change_stock was called for every line that differs.
PostLine(s, line) ==
  LET d == Difference(line) IN
  IF d = 0 THEN s
  ELSE [pos |-> ChangeStock(s.pos, d),
        ok  |-> s.ok /\ Accepts([kind |-> "change", qty |-> d], s.pos)]

Posted(lines, pos) == FoldLeft(PostLine, [pos |-> pos, ok |-> TRUE], lines)

\* complete_stocktake: under the lock of the row every difference is posted.
CompleteStocktake(w) ==
  LET n    == job[w].number
      take == stocktakes[n]
      end  == Posted(take.lines, stock[take.warehouse])
  IN  /\ At(w, "complete", "filled")
      /\ take.status = "APPROVED"
      /\ end.ok
      /\ stock' = [stock EXCEPT ![take.warehouse] = end.pos]
      /\ stocktakes' = [stocktakes EXCEPT ![n].status = "COMPLETED",
                                          ![n].posted[take.warehouse] =
                                            @ + end.pos.current - stock[take.warehouse].current,
                                          ![n].upto = Len(take.lines)]
      /\ Done(w)

\* add_items: no status is looked at, and the system quantity is the client's.
AddItems(w, n, system, actual) ==
  /\ MayStart(w, "add_items")
  /\ ~ stocktakes[n].deleted
  /\ Len(stocktakes[n].lines) < MaxLines
  /\ stocktakes' = [stocktakes EXCEPT ![n].lines =
                      Append(@, [system |-> system, actual |-> actual, booked |-> FALSE])]
  /\ UNCHANGED <<stock, job>>

\* Mutation of LoadCounts: counts may be entered in any status.
LoadAnyCounts(w, n) ==
  /\ MayStart(w, "update_items")
  /\ ~ stocktakes[n].deleted
  /\ Enter(w, "update_items", "loaded", n)
  /\ UNCHANGED <<stocktakes, stock>>

\* update_items: the status of the row that was loaded lets the counts be entered.
LoadCounts(w, n) ==
  /\ MayStart(w, "update_items")
  /\ ~ stocktakes[n].deleted
  /\ stocktakes[n].status = "DRAFT"
  /\ Enter(w, "update_items", "loaded", n)
  /\ UNCHANGED <<stocktakes, stock>>

UpdateItems(w, i, actual) ==
  /\ At(w, "update_items", "loaded")
  /\ i \in DOMAIN job[w].row.lines
  /\ stocktakes' = [stocktakes EXCEPT ![job[w].number].lines[i].actual = actual]
  /\ Done(w)
  /\ UNCHANGED stock

\* The inherited update: a full save of the row that was loaded, with another
\* warehouse; the lines are rows of their own.
LoadEdit(w, n) ==
  /\ MayStart(w, "edit")
  /\ ~ stocktakes[n].deleted
  /\ Enter(w, "edit", "loaded", n)
  /\ UNCHANGED <<stocktakes, stock>>

EditStocktake(w, r) ==
  LET n == job[w].number IN
  /\ At(w, "edit", "loaded")
  /\ stocktakes' = [stocktakes EXCEPT ![n] =
                      [job[w].row EXCEPT !.warehouse = r,
                                         !.lines = stocktakes[n].lines,
                                         !.posted = stocktakes[n].posted,
                                         !.upto = stocktakes[n].upto]]
  /\ Done(w)
  /\ UNCHANGED stock

\* The inherited destroy: the row and its lines, whatever the status.
DestroyStocktake(w, n) ==
  /\ MayStart(w, "destroy")
  /\ ~ stocktakes[n].deleted
  /\ stocktakes' = [stocktakes EXCEPT ![n].deleted = TRUE]
  /\ UNCHANGED <<stock, job>>

\* A check of the method fails after the row is loaded.
Abort(w) ==
  /\ job[w] # Idle
  /\ Done(w)
  /\ UNCHANGED <<stocktakes, stock>>

StocktakeStep(w) ==
  \/ \E u \in Users, r \in Warehouses : CreateStocktake(w, u, r)
  \/ \E n \in DOMAIN stocktakes :
       \/ \E kind \in {"retrieve", "complete"} : LoadStocktake(w, kind, n)
       \/ \E u \in Users :
            \/ \E approval \in Approvals : SubmitStocktake(w, n, u, approval)
            \/ ApproveStocktake(w, n, u)
       \/ \E system, actual \in Counts : AddItems(w, n, system, actual)
       \/ LoadCounts(w, n)
       \/ LoadEdit(w, n)
       \/ DestroyStocktake(w, n)
  \/ FindNoLines(w)
  \/ FillLines(w)
  \/ Respond(w)
  \/ CompleteStocktake(w)
  \/ \E i \in 1..MaxLines, actual \in Counts : UpdateItems(w, i, actual)
  \/ \E r \in Warehouses : EditStocktake(w, r)
  \/ Abort(w)

Next == \E w \in Workers : StocktakeStep(w)

-----------------------------------------------------------------------------

TypeOK ==
  /\ stocktakes \in Seq(StocktakeRows)
  /\ \A w \in Workers :
       /\ job[w].kind \in Requests \cup {"idle"}
       /\ job[w].phase \in {"idle", "ensure", "empty", "filled", "loaded"}
       /\ job[w].number \in {0} \cup DOMAIN stocktakes

\* What the stocktakes wrote to the books of a warehouse.
NetCounted(r) == SumFunction([n \in DOMAIN stocktakes |-> stocktakes[n].posted[r]])

(***************************************************************************)
(* A stocktake is posted once: the movements written for it add up to the  *)
(* differences of the lines it had when it was completed.                  *)
(***************************************************************************)
PostedOnce ==
  \A n \in DOMAIN stocktakes :
    LET counted == SubSeq(stocktakes[n].lines, 1, stocktakes[n].upto) IN
    SumFunction(stocktakes[n].posted) =
      SumFunction([i \in DOMAIN counted |-> Difference(counted[i])])

(***************************************************************************)
(* The lines of a stocktake are made from the books once, however many     *)
(* requests read it and whatever was added by hand.                        *)
(***************************************************************************)
BookedOnce ==
  \A n \in DOMAIN stocktakes : \A i, j \in DOMAIN stocktakes[n].lines :
    stocktakes[n].lines[i].booked /\ stocktakes[n].lines[j].booked => i = j

(***************************************************************************)
(* What was counted stands once it was submitted: lines may still be       *)
(* added, but none that the approver saw is changed or lost.               *)
(***************************************************************************)
CountsStand ==
  [][\A n \in DOMAIN stocktakes :
       stocktakes[n].status # "DRAFT" =>
         IsPrefix(stocktakes[n].lines, stocktakes'[n].lines)]_vars
=============================================================================
