--------------------------- MODULE Services_proofs ---------------------------
(***************************************************************************)
(* Proofs about the two services every document calls: InventoryService,   *)
(* which moves stock, and Posting, which writes vouchers.  For any         *)
(* warehouses, products, workers and plans, committed stock is never       *)
(* oversold, the movements of a position explain its quantity, and their   *)
(* numbers are unique; for any documents, months and threads, a document   *)
(* is posted once, into an open month, and the books balance.              *)
(***************************************************************************)
EXTENDS InventoryService, Posting, TLAPS

-----------------------------------------------------------------------------
(***************************************************************************)
(* Lemmas about one position.                                              *)
(***************************************************************************)

\* The row each call saves, field by field.
LEMMA SavedFields ==
  ASSUME NEW R, NEW c \in Calls(R), NEW pos \in Positions
  PROVE  /\ Saved(c, pos) \in Positions
         /\ Saved(c, pos).log = pos.log
         /\ Saved(c, pos).current =
              IF c.kind = "change" THEN pos.current + c.qty
              ELSE IF c.kind = "ship" THEN pos.current - c.qty ELSE pos.current
         /\ Saved(c, pos).locked =
              IF c.kind = "change" THEN pos.locked
              ELSE IF c.kind = "reserve" THEN pos.locked + c.qty
              ELSE AtLeastZero(pos.locked - c.qty)
<1>1. c.kind \in Kinds /\ c.qty \in Int
  BY DEF Calls
<1>2. pos = [exists |-> pos.exists, current |-> pos.current,
             locked |-> pos.locked, log |-> pos.log]
      /\ pos.exists \in BOOLEAN /\ pos.current \in Int /\ pos.locked \in Int
      /\ pos.log \in Seq(Movements)
  BY DEF Positions
<1>3. AtLeastZero(pos.locked - c.qty) \in Int
  BY <1>1, <1>2 DEF AtLeastZero
<1>4. CASE c.kind = "change"
  <2>1. Saved(c, pos) = [exists |-> TRUE, current |-> pos.current + c.qty,
                         locked |-> pos.locked, log |-> pos.log]
    BY <1>2, <1>4 DEF Saved, ChangeStock
  <2> QED BY <1>1, <1>2, <1>4, <2>1 DEF Positions
<1>5. CASE c.kind = "reserve"
  <2>1. Saved(c, pos) = [exists |-> TRUE, current |-> pos.current,
                         locked |-> pos.locked + c.qty, log |-> pos.log]
    BY <1>2, <1>5 DEF Saved, ReserveStock
  <2> QED BY <1>1, <1>2, <1>5, <2>1 DEF Positions
<1>6. CASE c.kind = "release"
  <2>1. Saved(c, pos) = [exists |-> pos.exists, current |-> pos.current,
                         locked |-> AtLeastZero(pos.locked - c.qty), log |-> pos.log]
    BY <1>2, <1>6 DEF Saved, ReleaseStock
  <2> QED BY <1>1, <1>2, <1>3, <1>6, <2>1 DEF Positions
<1>7. CASE c.kind = "ship"
  <2>1. Saved(c, pos) = [exists |-> pos.exists, current |-> pos.current - c.qty,
                         locked |-> AtLeastZero(pos.locked - c.qty), log |-> pos.log]
    BY <1>2, <1>7 DEF Saved, ShipStock
  <2> QED BY <1>1, <1>2, <1>3, <1>7, <2>1 DEF Positions
<1> QED BY <1>1, <1>4, <1>5, <1>6, <1>7 DEF Kinds

\* An accepted call leaves a sound position sound.
LEMMA SavedSound ==
  ASSUME NEW R, NEW c \in Calls(R), NEW pos \in Positions,
         c.kind # "change" => c.qty > 0,
         Sound(pos), Accepts(c, pos)
  PROVE  Sound(Saved(c, pos))
<1>1. c.kind \in Kinds /\ c.qty \in Int /\ pos.locked \in Int /\ pos.current \in Int
  BY DEF Calls, Positions
<1>2. Saved(c, pos).current \in Int /\ Saved(c, pos).locked \in Int
  BY SavedFields DEF Positions
<1>3. Saved(c, pos).locked <= Saved(c, pos).current
  BY <1>2 DEF Accepts, Clean, Available
<1>4. 0 <= Saved(c, pos).locked
  BY <1>1, SavedFields DEF Sound, AtLeastZero, Kinds
<1> QED BY <1>3, <1>4 DEF Sound

\* A call leaves the movements alone, and moves the quantity by Delta when
\* it is a movement, not at all otherwise.
LEMMA SavedMoves ==
  ASSUME NEW R, NEW c \in Calls(R), NEW pos \in Positions
  PROVE  /\ Saved(c, pos).log = pos.log
         /\ IsMovement(c) => Saved(c, pos).current = pos.current + Delta(c)
         /\ ~ IsMovement(c) => Saved(c, pos).current = pos.current
<1>1. c.kind \in Kinds /\ c.qty \in Int /\ pos.current \in Int
  BY DEF Calls, Positions
<1> QED BY <1>1, SavedFields DEF IsMovement, Delta, Kinds

\* Recording the movement keeps the type and the row.
LEMMA RecordType ==
  ASSUME NEW R, NEW c \in Calls(R), NEW pos \in Positions, NEW n \in Nat
  PROVE  /\ Record(c, pos, n) \in Positions
         /\ Record(c, pos, n).current = pos.current
         /\ Record(c, pos, n).locked = pos.locked
         /\ Len(Record(c, pos, n).log) = Len(pos.log) + 1
         /\ \A i \in 1..Len(pos.log) : Record(c, pos, n).log[i] = pos.log[i]
         /\ Record(c, pos, n).log[Len(pos.log) + 1].no = n
         /\ Record(c, pos, n).log[Len(pos.log) + 1].rule = RuleOf(c)
         /\ Record(c, pos, n).log[Len(pos.log) + 1].after = pos.current
         /\ Record(c, pos, n).log[Len(pos.log) + 1].before = pos.current - Delta(c)
         /\ Record(c, pos, n).log[Len(pos.log) + 1].quantity = Delta(c)
<1> DEFINE m == [rule |-> RuleOf(c), no |-> n, quantity |-> Delta(c),
                 before |-> pos.current - Delta(c), after |-> pos.current]
<1>1. c.qty \in Int /\ pos.current \in Int /\ pos.log \in Seq(Movements)
  BY DEF Calls, Positions
<1>2. Delta(c) \in Int /\ RuleOf(c) \in Rules
  BY <1>1 DEF Delta, RuleOf, Rules
<1>3. m \in Movements
  BY <1>1, <1>2 DEF Movements
<1>4. Record(c, pos, n) = [exists |-> pos.exists, current |-> pos.current,
                           locked |-> pos.locked, log |-> Append(pos.log, m)]
  <2>1. Record(c, pos, n) = [pos EXCEPT !.log = Append(pos.log, m)]
    BY DEF Record
  <2> HIDE DEF m
  <2> QED BY <2>1 DEF Positions
<1>5. Append(pos.log, m) \in Seq(Movements)
  BY <1>1, <1>3
<1>6. Record(c, pos, n) \in Positions
  BY <1>4, <1>5 DEF Positions
<1>7. /\ Len(Append(pos.log, m)) = Len(pos.log) + 1
      /\ \A i \in 1..Len(pos.log) : Append(pos.log, m)[i] = pos.log[i]
      /\ Append(pos.log, m)[Len(pos.log) + 1] = m
  BY <1>1, <1>3
<1> HIDE DEF m
<1>8. /\ Record(c, pos, n).current = pos.current
      /\ Record(c, pos, n).locked = pos.locked
      /\ Record(c, pos, n).log = Append(pos.log, m)
  BY <1>4
<1>9. /\ m.no = n /\ m.rule = RuleOf(c) /\ m.after = pos.current
      /\ m.before = pos.current - Delta(c) /\ m.quantity = Delta(c)
  BY DEF m
<1> QED BY <1>6, <1>7, <1>8, <1>9

\* The quantity after the last movement is an integer.
LEMMA EndOfInt ==
  ASSUME NEW log \in Seq(Movements)
  PROVE  EndOf(log) \in Int
<1>1. Len(log) \in Nat /\ (log # << >> => log[Len(log)] \in Movements)
  OBVIOUS
<1>2. log # << >> => log[Len(log)].after \in Int
  BY <1>1 DEF Movements
<1> QED BY <1>2 DEF EndOf

\* A recorded movement continues the chain.
LEMMA RecordChained ==
  ASSUME NEW R, NEW c \in Calls(R), NEW pos \in Positions, NEW n \in Nat,
         Chained(pos.log), pos.current = EndOf(pos.log) + Delta(c)
  PROVE  /\ Chained(Record(c, pos, n).log)
         /\ Record(c, pos, n).current = EndOf(Record(c, pos, n).log)
<1> DEFINE new == Record(c, pos, n)
           k   == Len(pos.log)
<1>1. /\ pos.log \in Seq(Movements) /\ new.log \in Seq(Movements)
      /\ k \in Nat /\ pos.current \in Int /\ c.qty \in Int
  BY RecordType DEF Positions, Calls
<1>2. Delta(c) \in Int
  BY <1>1 DEF Delta
<1>3. EndOf(pos.log) = IF k = 0 THEN 0 ELSE pos.log[k].after
  BY <1>1 DEF EndOf
<1>5. EndOf(pos.log) \in Int
  BY <1>1, EndOfInt
<1>6. Len(new.log) = k + 1 /\ \A i \in 1..k : new.log[i] = pos.log[i]
  BY RecordType
<1>7. /\ new.log[k + 1].after = pos.current
      /\ new.log[k + 1].before = pos.current - Delta(c)
      /\ new.log[k + 1].quantity = Delta(c)
  BY RecordType
<1>8. pos.current - Delta(c) = EndOf(pos.log)
  BY <1>2, <1>5
<1> HIDE DEF new, k
<1>9. ASSUME NEW i \in 1..Len(new.log)
      PROVE  /\ new.log[i].after = new.log[i].before + new.log[i].quantity
             /\ new.log[i].before = IF i = 1 THEN 0 ELSE new.log[i - 1].after
  <2>1. CASE i = k + 1
    <3>1. new.log[i].after = new.log[i].before + new.log[i].quantity
      BY <1>1, <1>2, <1>7, <2>1
    <3>2. new.log[i].before = EndOf(pos.log)
      BY <1>7, <1>8, <2>1
    <3>3. k > 0 => new.log[i - 1] = pos.log[k]
      <4>1. i - 1 = k /\ (k > 0 => k \in 1..k)
        BY <1>1, <2>1
      <4> QED BY <1>6, <4>1
    <3> QED BY <1>1, <1>3, <2>1, <3>1, <3>2, <3>3
  <2>2. CASE i # k + 1
    <3>1. i \in 1..k /\ (i # 1 => i - 1 \in 1..k)
      BY <1>1, <1>6, <2>2
    <3> QED BY <1>6, <3>1 DEF Chained, k
  <2> QED BY <2>1, <2>2
<1>10. Chained(new.log)
  BY <1>9 DEF Chained
<1>11. EndOf(new.log) = pos.current
  <2>1. new.log # << >>
    BY <1>1, <1>6
  <2> QED BY <1>6, <1>7, <2>1 DEF EndOf
<1> QED BY <1>10, <1>11, RecordType DEF new

-----------------------------------------------------------------------------
(***************************************************************************)
(* The inductive invariant.  NeverOversold and LedgerExplainsStock are not *)
(* inductive: a commit publishes the rows a worker holds, so its private   *)
(* versions must be sound and explained too, except for the one movement   *)
(* it has applied to the row and not yet recorded.                         *)
(***************************************************************************)
PlanInv ==
  \A w \in Workers :
    /\ \A i \in DOMAIN plan[w] : plan[w][i].kind # "change" => plan[w][i].qty > 0
    /\ pc[w] \in {"number", "sum", "product"} => plan[w] # << >>
    /\ pc[w] = "number" =>
         IsMovement(Head(plan[w])) /\ rowLock[Head(plan[w]).row] = w

StockInv == NeverOversold /\ LedgerExplainsStock

Unrecorded(w, r) ==
  IF pc[w] = "number" /\ Head(plan[w]).row = r THEN Delta(Head(plan[w])) ELSE 0

MineInv ==
  \A w \in Workers, r \in Rows : rowLock[r] = w =>
    /\ Sound(mine[w][r])
    /\ Chained(mine[w][r].log)
    /\ mine[w][r].current = EndOf(mine[w][r].log) + Unrecorded(w, r)

IInv == TypeOK /\ PlanInv /\ StockInv /\ MineInv

-----------------------------------------------------------------------------

\* The position of a row that is not there yet is of the type of positions.
LEMMA BlankType == NoPosition \in Positions /\ Blank \in [Rows -> Positions]
  BY DEF NoPosition, Positions, Blank

\* Nothing is promised, and nothing to be explained, on a missing row.
LEMMA BlankSound == Sound(NoPosition) /\ Explained(NoPosition)
  BY DEF NoPosition, Sound, Explained, Chained, EndOf

\* The call at hand is well formed.
LEMMA HeadCall ==
  ASSUME TypeOK, PlanInv, NEW w \in Workers, plan[w] # << >>
  PROVE  /\ Head(plan[w]) \in Calls(Rows)
         /\ Head(plan[w]).row \in Rows
         /\ Product(Head(plan[w])) \in Products
         /\ RuleOf(Head(plan[w])) \in Rules
         /\ Tail(plan[w]) \in Seq(Calls(Rows))
         /\ Head(plan[w]).kind # "change" => Head(plan[w]).qty > 0
         /\ \A i \in DOMAIN Tail(plan[w]) :
              Tail(plan[w])[i].kind # "change" => Tail(plan[w])[i].qty > 0
<1>1. plan[w] \in Seq(Calls(Rows))
  BY DEF TypeOK
<1>2. /\ Head(plan[w]) \in Calls(Rows) /\ Tail(plan[w]) \in Seq(Calls(Rows))
      /\ Head(plan[w]) = plan[w][1] /\ 1 \in DOMAIN plan[w]
      /\ \A i \in DOMAIN Tail(plan[w]) :
           i + 1 \in DOMAIN plan[w] /\ Tail(plan[w])[i] = plan[w][i + 1]
  BY <1>1
<1>3. Head(plan[w]).row \in Rows
  BY <1>2 DEF Calls
<1> QED BY <1>2, <1>3 DEF PlanInv, Rows, Product, RuleOf, Rules

\* What a statement reads is a position, and a sound and explained one
\* unless it is the row whose movement is still to be recorded.
LEMMA SeenPosition ==
  ASSUME IInv, NEW w \in Workers, NEW r \in Rows
  PROVE  /\ Seen(w, r) \in Positions
         /\ Sound(Seen(w, r))
         /\ Chained(Seen(w, r).log)
         /\ pc[w] # "number" => Explained(Seen(w, r))
<1>1. stock[r] \in Positions /\ mine[w][r] \in Positions
  BY DEF IInv, TypeOK
<1>2. CASE rowLock[r] = w
  <2>1. EndOf(mine[w][r].log) \in Int
    BY <1>1, EndOfInt DEF Positions
  <2> QED BY <1>1, <1>2, <2>1 DEF IInv, MineInv, Seen, Explained, Unrecorded
<1>3. CASE rowLock[r] # w
  BY <1>1, <1>3 DEF IInv, StockInv, NeverOversold, LedgerExplainsStock, Explained, Seen
<1> QED BY <1>2, <1>3

-----------------------------------------------------------------------------
\* The end of a transaction keeps the types.
LEMMA FinishType ==
  ASSUME TypeOK, NEW w \in Workers, Finish(w)
  PROVE  /\ rowLock' \in [Rows -> Workers \cup {NoOwner}]
         /\ ruleLock' \in [Rules -> Workers \cup {NoOwner}]
         /\ productLock' \in [Products -> Workers \cup {NoOwner}]
         /\ pc' \in [Workers -> {"idle", "call", "number", "sum", "product"}]
         /\ plan' \in [Workers -> Seq(Calls(Rows))]
         /\ mine' \in [Workers -> [Rows -> Positions]]
         /\ taken' \in [Workers -> [Rules -> Nat]]
<1>1. NoNumbers \in [Rules -> Nat] /\ << >> \in Seq(Calls(Rows))
  BY DEF NoNumbers
<1> QED BY <1>1, BlankType DEF TypeOK, Finish

\* Every step keeps the types.
LEMMA TypeStep == IInv /\ [Next]_vars => TypeOK'
<1> SUFFICES ASSUME IInv, [Next]_vars PROVE TypeOK'
  OBVIOUS
<1> USE DEF IInv
<1>1. ASSUME NEW w \in Workers, NEW list \in Plans, Begin(w, list)
      PROVE  TypeOK'
  BY <1>1, PlansAssumption DEF Begin, TypeOK, committed, locks
<1>2. ASSUME NEW w \in Workers, LockRow(w)
      PROVE  TypeOK'
  <2> DEFINE c == Head(plan[w])
  <2>1. c \in Calls(Rows) /\ c.row \in Rows /\ Tail(plan[w]) \in Seq(Calls(Rows))
    BY <1>2, HeadCall DEF LockRow
  <2>2. Saved(c, Seen(w, c.row)) \in Positions
    BY <2>1, SeenPosition, SavedFields
  <2> HIDE DEF c
  <2>3. mine' = [mine EXCEPT ![w][c.row] = Saved(c, Seen(w, c.row))]
    BY <1>2 DEF LockRow, c
  <2>4. mine' \in [Workers -> [Rows -> Positions]]
    BY <2>1, <2>2, <2>3 DEF TypeOK
  <2>5. rowLock' \in [Rows -> Workers \cup {NoOwner}]
    BY <1>2, <2>1 DEF LockRow, c, TypeOK
  <2>6. /\ pc' \in [Workers -> {"idle", "call", "number", "sum", "product"}]
        /\ plan' \in [Workers -> Seq(Calls(Rows))]
    BY <1>2, <2>1 DEF LockRow, NextCall, c, TypeOK
  <2> QED BY <1>2, <2>4, <2>5, <2>6 DEF LockRow, TypeOK, committed
<1>3. ASSUME NEW w \in Workers, TakeNumber(w)
      PROVE  TypeOK'
  <2> DEFINE c == Head(plan[w])
             n == SeenNo(w, RuleOf(c)) + 1
  <2>1. c \in Calls(Rows) /\ c.row \in Rows /\ RuleOf(c) \in Rules
    BY <1>3, HeadCall DEF TakeNumber, PlanInv
  <2>2. n \in Nat
    BY <2>1 DEF SeenNo, TypeOK
  <2>3. Record(c, mine[w][c.row], n) \in Positions
    BY <2>1, <2>2, RecordType DEF TypeOK
  <2> HIDE DEF c, n
  <2>4. /\ mine' = [mine EXCEPT ![w][c.row] = Record(c, mine[w][c.row], n)]
        /\ taken' = [taken EXCEPT ![w][RuleOf(c)] = n]
        /\ ruleLock' = [ruleLock EXCEPT ![RuleOf(c)] = w]
        /\ pc' = [pc EXCEPT ![w] = "sum"]
        /\ UNCHANGED <<stock, sequence, cache, rowLock, productLock, plan>>
    BY <1>3 DEF TakeNumber, c, n, committed
  <2>5. mine' \in [Workers -> [Rows -> Positions]]
    BY <2>1, <2>3, <2>4 DEF TypeOK
  <2>6. taken' \in [Workers -> [Rules -> Nat]]
    BY <2>1, <2>2, <2>4 DEF TypeOK
  <2> QED BY <2>1, <2>4, <2>5, <2>6 DEF TypeOK
<1>4. ASSUME NEW w \in Workers, SumStock(w)
      PROVE  TypeOK'
  BY <1>4 DEF SumStock, TypeOK, committed, locks
<1>5. ASSUME NEW w \in Workers, SaveProduct(w)
      PROVE  TypeOK'
  <2>1. Product(Head(plan[w])) \in Products /\ Tail(plan[w]) \in Seq(Calls(Rows))
    BY <1>5, HeadCall DEF SaveProduct, PlanInv
  <2> QED BY <1>5, <2>1 DEF SaveProduct, NextCall, TypeOK, committed
<1>6. ASSUME NEW w \in Workers, Commit(w)
      PROVE  TypeOK'
  <2>1. stock' \in [Rows -> Positions]
    BY <1>6, SeenPosition DEF Commit
  <2>2. sequence' \in [Rules -> Nat]
    BY <1>6 DEF Commit, SeenNo, TypeOK
  <2>3. DOMAIN cache' = Products
    BY <1>6 DEF Commit
  <2> QED BY <1>6, <2>1, <2>2, <2>3, FinishType DEF Commit, TypeOK
<1>7. ASSUME NEW w \in Workers, Finish(w), UNCHANGED committed
      PROVE  TypeOK'
  BY <1>7, FinishType DEF TypeOK, committed
<1>8. ASSUME NEW e \in Editors, NEW p \in Products, LoadProduct(e, p) \/ StoreProduct(e, p)
      PROVE  TypeOK'
  BY <1>8 DEF LoadProduct, StoreProduct, TypeOK, committed, locks, private
<1>9. CASE UNCHANGED vars
  BY <1>9 DEF vars, committed, locks, private, TypeOK
<1> QED
  BY <1>1, <1>2, <1>3, <1>4, <1>5, <1>6, <1>7, <1>8, <1>9
  DEF Next, Work, Progress, Edit, Reject, BreakDeadlock, Kill

-----------------------------------------------------------------------------
\* The plans stay well formed, and a movement to be recorded is on a row
\* the worker holds.
LEMMA FinishPlan ==
  ASSUME IInv, NEW w \in Workers, Finish(w)
  PROVE  PlanInv'
<1>1. ASSUME NEW v \in Workers, v # w
      PROVE  plan'[v] = plan[v] /\ pc'[v] = pc[v]
             /\ \A r \in Rows : rowLock'[r] = v <=> rowLock[r] = v
  BY <1>1, NoOwnerAssumption DEF Finish, IInv, TypeOK
<1>2. plan'[w] = << >> /\ pc'[w] = "idle"
  BY DEF Finish, IInv, TypeOK
<1>3. ASSUME NEW v \in Workers, v # w, pc[v] = "number"
      PROVE  Head(plan[v]).row \in Rows
  BY <1>3, HeadCall DEF IInv, PlanInv
<1> QED BY <1>1, <1>2, <1>3 DEF PlanInv, IInv

\* Every step keeps the plans well formed.
LEMMA PlanStep == IInv /\ [Next]_vars => PlanInv'
<1> SUFFICES ASSUME IInv, [Next]_vars PROVE PlanInv'
  OBVIOUS
<1>0. TypeOK /\ PlanInv
  BY DEF IInv
<1>1. ASSUME NEW w \in Workers, NEW list \in Plans, Begin(w, list)
      PROVE  PlanInv'
  BY <1>0, <1>1, QuantityAssumption DEF Begin, PlanInv, TypeOK, locks
<1>2. ASSUME NEW w \in Workers, LockRow(w)
      PROVE  PlanInv'
  <2> DEFINE c == Head(plan[w])
  <2>1. /\ c \in Calls(Rows) /\ c.row \in Rows
        /\ \A i \in DOMAIN Tail(plan[w]) :
             Tail(plan[w])[i].kind # "change" => Tail(plan[w])[i].qty > 0
    BY <1>0, <1>2, HeadCall DEF LockRow
  <2>2. ASSUME NEW v \in Workers, v # w, pc[v] = "number"
        PROVE  Head(plan[v]).row # c.row
    BY <1>0, <1>2, <2>2, NoOwnerAssumption DEF LockRow, Free, PlanInv
  <2>3. ASSUME NEW v \in Workers, v # w
        PROVE  plan'[v] = plan[v] /\ pc'[v] = pc[v]
               /\ (pc[v] = "number" => rowLock'[Head(plan[v]).row] = v)
    <3>1. plan'[v] = plan[v] /\ pc'[v] = pc[v]
      BY <1>0, <1>2, <2>3 DEF LockRow, NextCall, TypeOK
    <3>2. pc[v] = "number" => rowLock'[Head(plan[v]).row] = rowLock[Head(plan[v]).row]
      BY <1>0, <1>2, <2>2, <2>3 DEF LockRow, TypeOK
    <3> QED BY <1>0, <3>1, <3>2 DEF PlanInv
  <2>4. CASE IsMovement(c)
    <3>1. pc'[w] = "number" /\ plan' = plan /\ rowLock'[c.row] = w /\ plan[w] # << >>
      BY <1>0, <1>2, <2>1, <2>4 DEF LockRow, TypeOK
    <3> QED BY <1>0, <2>3, <2>4, <3>1 DEF PlanInv
  <2>5. CASE ~ IsMovement(c)
    <3>1. pc'[w] = "call" /\ plan'[w] = Tail(plan[w])
      BY <1>0, <1>2, <2>5 DEF LockRow, NextCall, TypeOK
    <3> QED BY <1>0, <2>1, <2>3, <3>1 DEF PlanInv
  <2> QED BY <2>4, <2>5
<1>3. ASSUME NEW w \in Workers, TakeNumber(w)
      PROVE  PlanInv'
  BY <1>0, <1>3 DEF TakeNumber, PlanInv, TypeOK
<1>4. ASSUME NEW w \in Workers, SumStock(w)
      PROVE  PlanInv'
  BY <1>0, <1>4 DEF SumStock, PlanInv, TypeOK, locks
<1>5. ASSUME NEW w \in Workers, SaveProduct(w)
      PROVE  PlanInv'
  <2>1. plan[w] # << >>
    BY <1>0, <1>5 DEF SaveProduct, PlanInv
  <2>2. \A i \in DOMAIN Tail(plan[w]) :
          Tail(plan[w])[i].kind # "change" => Tail(plan[w])[i].qty > 0
    BY <1>0, <2>1, HeadCall
  <2>3. pc'[w] = "call" /\ plan'[w] = Tail(plan[w])
    BY <1>0, <1>5 DEF SaveProduct, NextCall, TypeOK
  <2>4. ASSUME NEW v \in Workers, v # w
        PROVE  plan'[v] = plan[v] /\ pc'[v] = pc[v] /\ rowLock' = rowLock
    BY <1>0, <1>5, <2>4 DEF SaveProduct, NextCall, TypeOK
  <2> QED BY <1>0, <2>2, <2>3, <2>4 DEF PlanInv
<1>6. ASSUME NEW w \in Workers, Finish(w)
      PROVE  PlanInv'
  BY <1>6, FinishPlan
<1>7. ASSUME NEW e \in Editors, NEW p \in Products, LoadProduct(e, p) \/ StoreProduct(e, p)
      PROVE  PlanInv'
  BY <1>0, <1>7 DEF LoadProduct, StoreProduct, PlanInv, locks, private
<1>8. CASE UNCHANGED vars
  BY <1>0, <1>8 DEF vars, locks, private, PlanInv
<1> QED
  BY <1>1, <1>2, <1>3, <1>4, <1>5, <1>6, <1>7, <1>8
  DEF Next, Work, Progress, Edit, Commit, Reject, BreakDeadlock, Kill

-----------------------------------------------------------------------------
\* A worker's version of a row it holds stays sound and explained.  The step
\* of one worker cannot touch the versions of another.
LEMMA MineKept ==
  ASSUME IInv, NEW v \in Workers,
         pc'[v] = pc[v], plan'[v] = plan[v], mine'[v] = mine[v],
         \A r \in Rows : rowLock'[r] = v => rowLock[r] = v
  PROVE  \A r \in Rows : rowLock'[r] = v =>
           /\ Sound(mine'[v][r])
           /\ Chained(mine'[v][r].log)
           /\ mine'[v][r].current = EndOf(mine'[v][r].log) + Unrecorded(v, r)'
  BY DEF IInv, MineInv, Unrecorded

\* Every step keeps the uncommitted versions sound and explained.
LEMMA MineStep == IInv /\ [Next]_vars => MineInv'
<1> SUFFICES ASSUME IInv, [Next]_vars PROVE MineInv'
  OBVIOUS
<1>0. TypeOK /\ PlanInv /\ MineInv
  BY DEF IInv
<1>1. ASSUME NEW w \in Workers, NEW list \in Plans, Begin(w, list)
      PROVE  MineInv'
  BY <1>0, <1>1 DEF Begin, MineInv, TypeOK, locks, Unrecorded
<1>2. ASSUME NEW w \in Workers, LockRow(w)
      PROVE  MineInv'
  <2> DEFINE c == Head(plan[w])
             s == Seen(w, c.row)
  <2>1. /\ c \in Calls(Rows) /\ c.row \in Rows
        /\ c.kind # "change" => c.qty > 0
    BY <1>0, <1>2, HeadCall DEF LockRow
  <2>2. /\ s \in Positions /\ Sound(s) /\ Explained(s) /\ Accepts(c, s)
    BY <1>2, <2>1, SeenPosition DEF LockRow
  <2>3. /\ Saved(c, s) \in Positions /\ Sound(Saved(c, s))
        /\ Saved(c, s).log = s.log
    BY <2>1, <2>2, SavedFields, SavedSound
  <2>4. /\ IsMovement(c) => Saved(c, s).current = EndOf(s.log) + Delta(c)
        /\ ~ IsMovement(c) => Saved(c, s).current = EndOf(s.log)
    BY <2>1, <2>2, SavedMoves DEF Explained
  <2>5. EndOf(s.log) \in Int
    BY <2>2, EndOfInt DEF Positions
  <2>6. mine'[w] = [mine[w] EXCEPT ![c.row] = Saved(c, s)]
    BY <1>0, <1>2 DEF LockRow, TypeOK
  <2>7. \A v \in Workers : v # w =>
          pc'[v] = pc[v] /\ plan'[v] = plan[v] /\ mine'[v] = mine[v]
          /\ \A r \in Rows : rowLock'[r] = v => rowLock[r] = v
    BY <1>0, <1>2, <2>1 DEF LockRow, NextCall, TypeOK
  <2>8. ASSUME NEW r \in Rows, rowLock'[r] = w
        PROVE  /\ Sound(mine'[w][r])
               /\ Chained(mine'[w][r].log)
               /\ mine'[w][r].current = EndOf(mine'[w][r].log) + Unrecorded(w, r)'
    <3>1. CASE r = c.row
      <4>1. mine'[w][r] = Saved(c, s)
        BY <1>0, <2>1, <2>6, <3>1 DEF TypeOK
      <4>2. Unrecorded(w, r)' = IF IsMovement(c) THEN Delta(c) ELSE 0
        BY <1>0, <1>2, <3>1 DEF LockRow, NextCall, TypeOK, Unrecorded
      <4> HIDE DEF c, s
      <4> QED BY <2>2, <2>3, <2>4, <2>5, <4>1, <4>2 DEF Explained
    <3>2. CASE r # c.row
      <4>1. rowLock[r] = w /\ mine'[w][r] = mine[w][r]
        BY <1>0, <1>2, <2>1, <2>6, <2>8, <3>2 DEF LockRow, TypeOK
      <4>2. Unrecorded(w, r)' = 0 /\ Unrecorded(w, r) = 0
        BY <1>0, <1>2, <3>2 DEF LockRow, NextCall, TypeOK, Unrecorded
      <4> QED BY <1>0, <4>1, <4>2 DEF MineInv
    <3> QED BY <3>1, <3>2
  <2> QED BY <2>7, <2>8, MineKept DEF MineInv
<1>3. ASSUME NEW w \in Workers, TakeNumber(w)
      PROVE  MineInv'
  <2> DEFINE c == Head(plan[w])
             n == SeenNo(w, RuleOf(c)) + 1
  <2>1. /\ c \in Calls(Rows) /\ c.row \in Rows /\ RuleOf(c) \in Rules
        /\ IsMovement(c) /\ rowLock[c.row] = w
    BY <1>0, <1>3, HeadCall DEF TakeNumber, PlanInv
  <2>2. n \in Nat
    BY <1>0, <2>1 DEF SeenNo, TypeOK
  <2>3. /\ mine[w][c.row] \in Positions
        /\ Sound(mine[w][c.row]) /\ Chained(mine[w][c.row].log)
        /\ mine[w][c.row].current = EndOf(mine[w][c.row].log) + Delta(c)
    BY <1>0, <1>3, <2>1 DEF MineInv, Unrecorded, TakeNumber, TypeOK
  <2>4. /\ Chained(Record(c, mine[w][c.row], n).log)
        /\ Record(c, mine[w][c.row], n).current
             = EndOf(Record(c, mine[w][c.row], n).log)
        /\ Sound(Record(c, mine[w][c.row], n))
        /\ Record(c, mine[w][c.row], n) \in Positions
    <3> DEFINE pos == mine[w][c.row]
    <3> HIDE DEF c, n, pos
    <3>1. pos \in Positions /\ Sound(pos) /\ Chained(pos.log)
          /\ pos.current = EndOf(pos.log) + Delta(c)
      BY <2>3 DEF pos
    <3>2. Chained(Record(c, pos, n).log)
          /\ Record(c, pos, n).current = EndOf(Record(c, pos, n).log)
      BY <2>1, <2>2, <3>1, RecordChained
    <3>3. Record(c, pos, n) \in Positions /\ Sound(Record(c, pos, n))
      BY <2>1, <2>2, <3>1, RecordType DEF Sound
    <3> QED BY <3>2, <3>3 DEF pos
  <2>5. EndOf(Record(c, mine[w][c.row], n).log) \in Int
    BY <2>4, EndOfInt DEF Positions
  <2> HIDE DEF n
  <2>6. mine'[w] = [mine[w] EXCEPT ![c.row] = Record(c, mine[w][c.row], n)]
    BY <1>0, <1>3 DEF TakeNumber, TypeOK, n
  <2>7. \A v \in Workers : v # w =>
          pc'[v] = pc[v] /\ plan'[v] = plan[v] /\ mine'[v] = mine[v]
          /\ \A r \in Rows : rowLock'[r] = v => rowLock[r] = v
    BY <1>0, <1>3 DEF TakeNumber, TypeOK
  <2>8. ASSUME NEW r \in Rows, rowLock'[r] = w
        PROVE  /\ Sound(mine'[w][r])
               /\ Chained(mine'[w][r].log)
               /\ mine'[w][r].current = EndOf(mine'[w][r].log) + Unrecorded(w, r)'
    <3>0. Unrecorded(w, r)' = 0
      BY <1>0, <1>3 DEF TakeNumber, TypeOK, Unrecorded
    <3>1. CASE r = c.row
      <4>1. mine'[w][r] = Record(c, mine[w][c.row], n)
        BY <1>0, <2>1, <2>6, <3>1 DEF TypeOK
      <4> HIDE DEF c
      <4> QED BY <2>4, <2>5, <3>0, <4>1
    <3>2. CASE r # c.row
      <4>1. rowLock[r] = w /\ mine'[w][r] = mine[w][r]
        BY <1>0, <1>3, <2>1, <2>6, <2>8, <3>2 DEF TakeNumber, TypeOK
      <4>2. Unrecorded(w, r) = 0
        BY <3>2 DEF Unrecorded
      <4> QED BY <1>0, <3>0, <4>1, <4>2 DEF MineInv
    <3> QED BY <3>1, <3>2
  <2> QED BY <2>7, <2>8, MineKept DEF MineInv
<1>4. ASSUME NEW w \in Workers, SumStock(w)
      PROVE  MineInv'
  BY <1>0, <1>4 DEF SumStock, MineInv, TypeOK, locks, Unrecorded
<1>5. ASSUME NEW w \in Workers, SaveProduct(w)
      PROVE  MineInv'
  BY <1>0, <1>5 DEF SaveProduct, NextCall, MineInv, TypeOK, Unrecorded
<1>6. ASSUME NEW w \in Workers, Finish(w)
      PROVE  MineInv'
  <2>1. \A r \in Rows : rowLock'[r] # w
    BY <1>6, NoOwnerAssumption DEF Finish
  <2>2. \A v \in Workers : v # w =>
          pc'[v] = pc[v] /\ plan'[v] = plan[v] /\ mine'[v] = mine[v]
          /\ \A r \in Rows : rowLock'[r] = v => rowLock[r] = v
    BY <1>0, <1>6, NoOwnerAssumption DEF Finish, TypeOK
  <2> QED BY <2>1, <2>2, MineKept DEF MineInv
<1>7. ASSUME NEW e \in Editors, NEW p \in Products, LoadProduct(e, p) \/ StoreProduct(e, p)
      PROVE  MineInv'
  BY <1>0, <1>7 DEF LoadProduct, StoreProduct, MineInv, locks, private, Unrecorded
<1>8. CASE UNCHANGED vars
  BY <1>0, <1>8 DEF vars, locks, private, MineInv, Unrecorded
<1> QED
  BY <1>1, <1>2, <1>3, <1>4, <1>5, <1>6, <1>7, <1>8
  DEF Next, Work, Progress, Edit, Commit, Reject, BreakDeadlock, Kill

\* Only a commit changes the committed positions, and what it publishes is
\* what the worker sees.
LEMMA StockStep == IInv /\ [Next]_vars => StockInv'
<1> SUFFICES ASSUME IInv, [Next]_vars PROVE StockInv'
  OBVIOUS
<1>1. ASSUME NEW w \in Workers, Commit(w)
      PROVE  StockInv'
  BY <1>1, SeenPosition DEF Commit, StockInv, NeverOversold, LedgerExplainsStock
<1>2. CASE UNCHANGED stock
  BY <1>2 DEF IInv, StockInv, NeverOversold, LedgerExplainsStock
<1> QED
  BY <1>1, <1>2
  DEF Next, Work, Progress, Edit, Begin, LockRow, TakeNumber, SumStock, SaveProduct,
      Reject, BreakDeadlock, Kill, LoadProduct, StoreProduct, vars, committed

-----------------------------------------------------------------------------

\* The invariant holds of the empty database.
LEMMA InitInv == Init => IInv
<1> SUFFICES ASSUME Init PROVE IInv
  OBVIOUS
<1>1. TypeOK
  BY BlankType DEF Init, TypeOK, NoNumbers
<1>2. StockInv
  BY BlankSound DEF Init, StockInv, NeverOversold, LedgerExplainsStock, Blank
<1>3. MineInv
  BY NoOwnerAssumption DEF Init, MineInv
<1>4. PlanInv
  BY DEF Init, PlanInv
<1> QED BY <1>1, <1>2, <1>3, <1>4 DEF IInv

(***************************************************************************)
(* The invariant holds in every reachable state.                           *)
(***************************************************************************)
THEOREM Invariance == Spec => []IInv
<1>1. IInv /\ [Next]_vars => IInv'
  BY TypeStep, PlanStep, StockStep, MineStep DEF IInv
<1> QED BY <1>1, InitInv, PTL DEF Spec

(***************************************************************************)
(* Type correctness of every variable of the service model.                *)
(***************************************************************************)
THEOREM TypeCorrect == Spec => []TypeOK
<1>1. IInv => TypeOK
  BY DEF IInv
<1> QED BY <1>1, Invariance, PTL

(***************************************************************************)
(* change_stock, reserve_stock, release_stock and ship_stock never commit  *)
(* a row on which more is reserved than is there, or less than nothing.    *)
(***************************************************************************)
THEOREM StockNeverOversold == Spec => []NeverOversold
<1>1. IInv => NeverOversold
  BY DEF IInv, StockInv
<1> QED BY <1>1, Invariance, PTL

(***************************************************************************)
(* The committed InventoryTransaction rows of a position are a chain from  *)
(* zero to its committed current_qty.                                      *)
(***************************************************************************)
THEOREM StockExplained == Spec => []LedgerExplainsStock
<1>1. IInv => LedgerExplainsStock
  BY DEF IInv, StockInv
<1> QED BY <1>1, Invariance, PTL

-----------------------------------------------------------------------------
(***************************************************************************)
(* Unique transaction numbers.  The strengthening: a worker's version of a *)
(* row it holds extends the committed movements, and the movements it adds *)
(* bear numbers of a rule it also holds, above every committed number of   *)
(* that rule and up to the last one it took.                               *)
(***************************************************************************)
Fresh(w, r) == (Len(stock[r].log) + 1)..Len(mine[w][r].log)

NumbersBounded ==
  \A r \in Rows : \A i \in 1..Len(stock[r].log) :
    stock[r].log[i].no <= sequence[stock[r].log[i].rule]

NumbersGrow ==
  \A w \in Workers, c \in Rules : ruleLock[c] = w => sequence[c] <= taken[w][c]

MineExtends(w, r) ==
  /\ Len(stock[r].log) <= Len(mine[w][r].log)
  /\ \A i \in 1..Len(stock[r].log) : mine[w][r].log[i] = stock[r].log[i]

FreshNumbers(w, r) ==
  \A i \in Fresh(w, r) :
    /\ ruleLock[mine[w][r].log[i].rule] = w
    /\ sequence[mine[w][r].log[i].rule] < mine[w][r].log[i].no
    /\ mine[w][r].log[i].no <= taken[w][mine[w][r].log[i].rule]

FreshUnique(w) ==
  \A r, s \in Rows : rowLock[r] = w /\ rowLock[s] = w =>
    \A i \in Fresh(w, r), j \in Fresh(w, s) :
      /\ mine[w][r].log[i].rule = mine[w][s].log[j].rule
      /\ mine[w][r].log[i].no = mine[w][s].log[j].no
      => r = s /\ i = j

NumbersMine ==
  \A w \in Workers :
    /\ \A r \in Rows : rowLock[r] = w => MineExtends(w, r) /\ FreshNumbers(w, r)
    /\ FreshUnique(w)

NumInv == NumbersBounded /\ NumbersUnique /\ NumbersGrow /\ NumbersMine

\* The rule and the number of a movement.
LEMMA MovementFields ==
  ASSUME NEW log \in Seq(Movements)
  PROVE  /\ Len(log) \in Nat /\ DOMAIN log = 1..Len(log)
         /\ \A i \in 1..Len(log) : log[i].rule \in Rules /\ log[i].no \in Nat
<1>1. \A i \in 1..Len(log) : log[i] \in Movements
  OBVIOUS
<1> QED BY <1>1 DEF Movements

\* The rules and numbers of committed and uncommitted movements.
LEMMA LogTypes ==
  ASSUME TypeOK, NEW r \in Rows
  PROVE  /\ stock[r].log \in Seq(Movements)
         /\ Len(stock[r].log) \in Nat
         /\ DOMAIN stock[r].log = 1..Len(stock[r].log)
         /\ \A i \in 1..Len(stock[r].log) :
              /\ stock[r].log[i].rule \in Rules
              /\ stock[r].log[i].no \in Nat
         /\ \A w \in Workers :
              /\ mine[w][r].log \in Seq(Movements)
              /\ Len(mine[w][r].log) \in Nat
              /\ \A i \in 1..Len(mine[w][r].log) :
                   /\ mine[w][r].log[i].rule \in Rules
                   /\ mine[w][r].log[i].no \in Nat
<1>1. stock[r].log \in Seq(Movements) /\ \A w \in Workers : mine[w][r].log \in Seq(Movements)
  BY DEF TypeOK, Positions
<1> QED BY <1>1, MovementFields

\* What concerns one worker survives a step that leaves alone its versions
\* and locks, the committed movements of its rows and the sequences of its
\* rules.
LEMMA NumbersMineKept ==
  ASSUME TypeOK, NumInv, NEW v \in Workers,
         mine'[v] = mine[v], taken'[v] = taken[v],
         \A r \in Rows : rowLock'[r] = v => rowLock[r] = v /\ stock'[r] = stock[r],
         \A c \in Rules : ruleLock[c] = v => ruleLock'[c] = v /\ sequence'[c] = sequence[c]
  PROVE  /\ \A r \in Rows : rowLock'[r] = v => MineExtends(v, r)' /\ FreshNumbers(v, r)'
         /\ FreshUnique(v)'
<1>1. ASSUME NEW r \in Rows, rowLock'[r] = v
      PROVE  MineExtends(v, r)' /\ FreshNumbers(v, r)' /\ Fresh(v, r)' = Fresh(v, r)
  <2>1. stock'[r] = stock[r] /\ rowLock[r] = v /\ Fresh(v, r)' = Fresh(v, r)
    BY <1>1 DEF Fresh
  <2>2. MineExtends(v, r) /\ FreshNumbers(v, r)
    BY <2>1 DEF NumInv, NumbersMine
  <2>3. MineExtends(v, r)'
    BY <2>1, <2>2 DEF MineExtends
  <2>4. \A i \in Fresh(v, r) : mine[v][r].log[i].rule \in Rules
    BY LogTypes DEF Fresh
  <2>5. FreshNumbers(v, r)'
    BY <2>1, <2>2, <2>4 DEF FreshNumbers
  <2> QED BY <2>1, <2>3, <2>5
<1>2. FreshUnique(v)'
  BY <1>1 DEF FreshUnique, NumInv, NumbersMine
<1> QED BY <1>1, <1>2

\* A commit publishes fresh numbers next to committed ones.
LEMMA NumCommit ==
  ASSUME IInv, NumInv, NEW w \in Workers, Commit(w)
  PROVE  NumInv'
<1>0. TypeOK
  BY DEF IInv
<1>1. \A c \in Rules : /\ sequence'[c] = IF ruleLock[c] = w THEN taken[w][c] ELSE sequence[c]
                       /\ sequence[c] <= sequence'[c]
  BY <1>0 DEF Commit, SeenNo, NumInv, NumbersGrow, TypeOK
<1>2. \A r \in Rows : stock'[r] = IF rowLock[r] = w THEN mine[w][r] ELSE stock[r]
  BY DEF Commit, Seen
<1>3. ASSUME NEW r \in Rows, NEW i \in 1..Len(stock'[r].log)
      PROVE  \/ /\ i \in 1..Len(stock[r].log) /\ stock'[r].log[i] = stock[r].log[i]
                /\ stock[r].log[i].no <= sequence[stock[r].log[i].rule]
             \/ /\ rowLock[r] = w /\ i \in Fresh(w, r) /\ stock'[r].log[i] = mine[w][r].log[i]
                /\ ruleLock[mine[w][r].log[i].rule] = w
                /\ sequence[mine[w][r].log[i].rule] < mine[w][r].log[i].no
                /\ mine[w][r].log[i].no <= taken[w][mine[w][r].log[i].rule]
  <2>1. CASE rowLock[r] = w
    <3>1. MineExtends(w, r) /\ FreshNumbers(w, r) /\ stock'[r] = mine[w][r]
      BY <1>2, <2>1 DEF NumInv, NumbersMine
    <3>2. CASE i \in 1..Len(stock[r].log)
      BY <3>1, <3>2 DEF MineExtends, NumInv, NumbersBounded
    <3>3. CASE i \notin 1..Len(stock[r].log)
      <4>1. i \in Fresh(w, r)
        BY <1>0, <1>3, <3>1, <3>3, LogTypes DEF Fresh
      <4> QED BY <2>1, <3>1, <4>1 DEF FreshNumbers
    <3> QED BY <3>2, <3>3
  <2>2. CASE rowLock[r] # w
    BY <1>2, <1>3, <2>2 DEF NumInv, NumbersBounded
  <2> QED BY <2>1, <2>2
<1>4. \A r \in Rows : /\ Len(stock'[r].log) \in Nat
                      /\ DOMAIN stock'[r].log = 1..Len(stock'[r].log)
                      /\ \A i \in 1..Len(stock'[r].log) :
                           stock'[r].log[i].rule \in Rules /\ stock'[r].log[i].no \in Nat
  <2>0. \A r \in Rows : stock'[r] \in Positions
    BY <1>0, <1>2 DEF TypeOK
  <2>1. \A r \in Rows : stock'[r].log \in Seq(Movements)
    BY <2>0 DEF Positions
  <2> QED BY <2>1, MovementFields
<1>5. NumbersBounded'
  <2> SUFFICES ASSUME NEW r \in Rows, NEW i \in 1..Len(stock'[r].log)
               PROVE  stock'[r].log[i].no <= sequence'[stock'[r].log[i].rule]
    BY DEF NumbersBounded
  <2>1. stock'[r].log[i].rule \in Rules /\ stock'[r].log[i].no \in Nat
    BY <1>4
  <2>2. \A c \in Rules : sequence[c] \in Nat /\ taken[w][c] \in Nat /\ sequence'[c] \in Nat
    BY <1>0, <1>1 DEF TypeOK
  <2>3. CASE /\ i \in 1..Len(stock[r].log) /\ stock'[r].log[i] = stock[r].log[i]
             /\ stock[r].log[i].no <= sequence[stock[r].log[i].rule]
    BY <1>1, <2>1, <2>2, <2>3
  <2>4. CASE /\ stock'[r].log[i] = mine[w][r].log[i]
             /\ ruleLock[mine[w][r].log[i].rule] = w
             /\ mine[w][r].log[i].no <= taken[w][mine[w][r].log[i].rule]
    BY <1>1, <2>1, <2>4
  <2> QED BY <1>3, <2>3, <2>4
<1>6. NumbersUnique'
  <2>0. \A r \in Rows : DOMAIN stock'[r].log = 1..Len(stock'[r].log)
    BY <1>4
  <2> SUFFICES ASSUME NEW r \in Rows, NEW s \in Rows,
                      NEW i \in DOMAIN stock'[r].log, NEW j \in DOMAIN stock'[s].log,
                      stock'[r].log[i].rule = stock'[s].log[j].rule,
                      stock'[r].log[i].no = stock'[s].log[j].no
               PROVE  r = s /\ i = j
    BY DEF NumbersUnique
  <2> i \in 1..Len(stock'[r].log) /\ j \in 1..Len(stock'[s].log)
    BY <2>0
  <2> DEFINE Old(t, k) == k \in 1..Len(stock[t].log) /\ stock'[t].log[k] = stock[t].log[k]
             New(t, k) == rowLock[t] = w /\ k \in Fresh(w, t) /\ stock'[t].log[k] = mine[w][t].log[k]
  <2>1. /\ stock'[r].log[i].rule \in Rules /\ stock'[r].log[i].no \in Nat
        /\ sequence[stock'[r].log[i].rule] \in Nat
    BY <1>0, <1>4 DEF TypeOK
  <2>2. /\ Old(r, i) => stock'[r].log[i].no <= sequence[stock'[r].log[i].rule]
        /\ New(r, i) => sequence[stock'[r].log[i].rule] < stock'[r].log[i].no
        /\ Old(r, i) \/ New(r, i)
    BY <1>0, <1>3, LogTypes DEF NumInv, NumbersBounded, NumbersMine, FreshNumbers
  <2>3. /\ Old(s, j) => stock'[s].log[j].no <= sequence[stock'[s].log[j].rule]
        /\ New(s, j) => sequence[stock'[s].log[j].rule] < stock'[s].log[j].no
        /\ Old(s, j) \/ New(s, j)
    BY <1>0, <1>3, LogTypes DEF NumInv, NumbersBounded, NumbersMine, FreshNumbers
  <2>4. (Old(r, i) /\ Old(s, j)) \/ (New(r, i) /\ New(s, j))
    <3> HIDE DEF Old, New
    <3> QED BY <2>1, <2>2, <2>3
  <2>5. CASE Old(r, i) /\ Old(s, j)
    BY <1>0, <2>5, LogTypes, SMTT(30) DEF NumInv, NumbersUnique
  <2>6. CASE New(r, i) /\ New(s, j)
    BY <2>6 DEF NumInv, NumbersMine, FreshUnique
  <2> QED BY <2>4, <2>5, <2>6
<1>7. ASSUME NEW v \in Workers, v # w
      PROVE  /\ mine'[v] = mine[v] /\ taken'[v] = taken[v]
             /\ \A r \in Rows : rowLock'[r] = v => rowLock[r] = v /\ stock'[r] = stock[r]
             /\ \A c \in Rules : ruleLock[c] = v => ruleLock'[c] = v /\ sequence'[c] = sequence[c]
             /\ \A c \in Rules : ruleLock'[c] = v => ruleLock[c] = v
  BY <1>0, <1>1, <1>2, <1>7, NoOwnerAssumption DEF Commit, Finish, TypeOK
<1>8. /\ \A r \in Rows : rowLock'[r] # w
      /\ \A c \in Rules : ruleLock'[c] # w
  BY NoOwnerAssumption DEF Commit, Finish
<1>9. NumbersGrow'
  BY <1>7, <1>8 DEF NumInv, NumbersGrow
<1>10. NumbersMine'
  <2>1. FreshUnique(w)'
    BY <1>8 DEF FreshUnique
  <2> QED BY <1>0, <1>7, <1>8, <2>1, NumbersMineKept DEF NumbersMine
<1> QED BY <1>5, <1>6, <1>9, <1>10 DEF NumInv

\* A transaction that ends without a commit publishes nothing.
LEMMA NumAbort ==
  ASSUME IInv, NumInv, NEW w \in Workers, Finish(w), UNCHANGED committed
  PROVE  NumInv'
<1>0. TypeOK /\ stock' = stock /\ sequence' = sequence
  BY DEF IInv, committed
<1>1. NumbersBounded' /\ NumbersUnique'
  BY <1>0 DEF NumInv, NumbersBounded, NumbersUnique
<1>2. ASSUME NEW v \in Workers, v # w
      PROVE  /\ mine'[v] = mine[v] /\ taken'[v] = taken[v]
             /\ \A r \in Rows : rowLock'[r] = v => rowLock[r] = v
             /\ \A c \in Rules : ruleLock[c] = v <=> ruleLock'[c] = v
  BY <1>0, <1>2, NoOwnerAssumption DEF Finish, TypeOK
<1>3. /\ \A r \in Rows : rowLock'[r] # w
      /\ \A c \in Rules : ruleLock'[c] # w
  BY NoOwnerAssumption DEF Finish
<1>4. NumbersGrow'
  BY <1>0, <1>2, <1>3 DEF NumInv, NumbersGrow
<1>5. FreshUnique(w)'
  BY <1>3 DEF FreshUnique
<1> QED BY <1>0, <1>1, <1>2, <1>3, <1>4, <1>5, NumbersMineKept DEF NumInv, NumbersMine

\* A step that neither takes a number, nor locks or writes a row, nor commits.
LEMMA NumKept ==
  ASSUME NumInv, UNCHANGED <<stock, sequence, rowLock, ruleLock, taken, mine>>
  PROVE  NumInv'
  BY DEF NumInv, NumbersBounded, NumbersUnique, NumbersGrow, NumbersMine, MineExtends,
         FreshNumbers, FreshUnique, Fresh

\* Locking a row brings in its committed movements and adds none.
LEMMA NumLock ==
  ASSUME IInv, NumInv, NEW w \in Workers, LockRow(w)
  PROVE  NumInv'
<1> DEFINE c == Head(plan[w])
<1>0. TypeOK /\ PlanInv
  BY DEF IInv
<1>1. /\ c \in Calls(Rows) /\ c.row \in Rows
      /\ Saved(c, Seen(w, c.row)).log = Seen(w, c.row).log
  BY <1>0, HeadCall, SeenPosition, SavedFields DEF LockRow
<1>2. UNCHANGED <<stock, sequence, ruleLock, taken>>
  BY DEF LockRow, committed
<1>3. ASSUME NEW v \in Workers, v # w
      PROVE  mine'[v] = mine[v] /\ \A r \in Rows : rowLock'[r] = v => rowLock[r] = v
  BY <1>0, <1>1, <1>3 DEF LockRow, TypeOK
<1>4. ASSUME NEW r \in Rows, rowLock'[r] = w
      PROVE  mine'[w][r].log = Seen(w, r).log /\ (r # c.row => rowLock[r] = w)
  <2>1. CASE r = c.row
    BY <1>0, <1>1, <2>1 DEF LockRow, TypeOK
  <2>2. CASE r # c.row
    BY <1>0, <1>1, <1>4, <2>2 DEF LockRow, TypeOK, Seen
  <2> QED BY <2>1, <2>2
<1>5. ASSUME NEW r \in Rows, rowLock'[r] = w
      PROVE  /\ MineExtends(w, r)' /\ FreshNumbers(w, r)'
             /\ rowLock[r] = w =>
                  mine'[w][r].log = mine[w][r].log /\ Fresh(w, r)' = Fresh(w, r)
             /\ rowLock[r] # w => Fresh(w, r)' = {}
  <2>1. CASE rowLock[r] = w
    <3>1. MineExtends(w, r) /\ FreshNumbers(w, r)
      BY <2>1 DEF NumInv, NumbersMine
    <3>2. mine'[w][r].log = mine[w][r].log /\ Fresh(w, r)' = Fresh(w, r)
      BY <1>2, <1>4, <1>5, <2>1 DEF Seen, Fresh
    <3> QED BY <1>2, <2>1, <3>1, <3>2 DEF MineExtends, FreshNumbers
  <2>2. CASE rowLock[r] # w
    <3>1. mine'[w][r].log = stock[r].log /\ Len(stock[r].log) \in Nat
      BY <1>0, <1>4, <1>5, <2>2, LogTypes DEF Seen
    <3>2. Fresh(w, r)' = {}
      BY <1>2, <3>1 DEF Fresh
    <3> QED BY <1>2, <2>2, <3>1, <3>2 DEF MineExtends, FreshNumbers
  <2> QED BY <2>1, <2>2
<1>6. FreshUnique(w)'
  <2> SUFFICES ASSUME NEW r \in Rows, NEW s \in Rows, rowLock'[r] = w, rowLock'[s] = w,
                      NEW i \in Fresh(w, r)', NEW j \in Fresh(w, s)',
                      mine'[w][r].log[i].rule = mine'[w][s].log[j].rule,
                      mine'[w][r].log[i].no = mine'[w][s].log[j].no
               PROVE  r = s /\ i = j
    BY DEF FreshUnique
  <2>1. rowLock[r] = w /\ rowLock[s] = w
    BY <1>5
  <2>2. /\ i \in Fresh(w, r) /\ mine'[w][r].log = mine[w][r].log
        /\ j \in Fresh(w, s) /\ mine'[w][s].log = mine[w][s].log
    BY <1>5, <2>1
  <2>3. FreshUnique(w)
    BY DEF NumInv, NumbersMine
  <2> QED BY <2>1, <2>2, <2>3 DEF FreshUnique
<1>7. NumbersMine'
  BY <1>0, <1>2, <1>3, <1>5, <1>6, NumbersMineKept DEF NumbersMine
<1> QED BY <1>2, <1>7 DEF NumInv, NumbersBounded, NumbersUnique, NumbersGrow

\* A number taken is above every number of its rule the worker can see.
LEMMA NumTake ==
  ASSUME IInv, NumInv, NEW w \in Workers, TakeNumber(w)
  PROVE  NumInv'
<1> DEFINE c == Head(plan[w])
           k == RuleOf(c)
           n == SeenNo(w, k) + 1
           old == mine[w][c.row].log
<1>0. TypeOK /\ PlanInv
  BY DEF IInv
<1>1. /\ c \in Calls(Rows) /\ c.row \in Rows /\ k \in Rules /\ rowLock[c.row] = w
  BY <1>0, HeadCall DEF TakeNumber, PlanInv
<1>2. /\ n \in Nat /\ sequence[k] \in Nat /\ taken[w][k] \in Nat
      /\ sequence[k] < n /\ (ruleLock[k] = w => taken[w][k] < n)
  BY <1>0, <1>1 DEF SeenNo, TypeOK, NumInv, NumbersGrow
<1>3. /\ mine[w][c.row] \in Positions /\ old \in Seq(Movements) /\ Len(old) \in Nat
  BY <1>0, <1>1, LogTypes DEF TypeOK
<1> HIDE DEF n
<1>4. /\ UNCHANGED <<stock, sequence, rowLock>>
      /\ \A v \in Workers : v # w => mine'[v] = mine[v] /\ taken'[v] = taken[v]
      /\ \A r \in Rows : r # c.row => mine'[w][r] = mine[w][r]
      /\ mine'[w][c.row] = Record(c, mine[w][c.row], n)
      /\ taken'[w][k] = n
      /\ ruleLock'[k] = w
      /\ \A d \in Rules : d # k => taken'[w][d] = taken[w][d] /\ ruleLock'[d] = ruleLock[d]
  BY <1>0, <1>1 DEF TakeNumber, TypeOK, committed, n
<1>5. ruleLock[k] \in {NoOwner, w}
  BY DEF TakeNumber, Free
<1>6. NumbersGrow'
  <2> SUFFICES ASSUME NEW v \in Workers, NEW d \in Rules, ruleLock'[d] = v
               PROVE  sequence'[d] <= taken'[v][d]
    BY DEF NumbersGrow
  <2> HIDE DEF c, k
  <2>1. CASE d = k
    BY <1>2, <1>4, <2>1
  <2>2. CASE d # k
    <3>1. ruleLock[d] = v /\ taken'[v][d] = taken[v][d] /\ sequence' = sequence
      BY <1>4, <2>2
    <3> QED BY <3>1 DEF NumInv, NumbersGrow
  <2> QED BY <2>1, <2>2
<1> DEFINE new == mine'[w][c.row].log
<1>7. /\ Len(new) = Len(old) + 1
      /\ \A i \in 1..Len(old) : new[i] = old[i]
      /\ new[Len(old) + 1].no = n /\ new[Len(old) + 1].rule = k
  <2> DEFINE pos == mine[w][c.row]
  <2>1. RuleOf(c) = k /\ old = pos.log /\ new = Record(c, pos, n).log
    BY <1>4
  <2> HIDE DEF c, k, pos, old, new
  <2>2. pos \in Positions
    BY <1>3 DEF pos
  <2>3. /\ Len(Record(c, pos, n).log) = Len(pos.log) + 1
        /\ \A i \in 1..Len(pos.log) : Record(c, pos, n).log[i] = pos.log[i]
        /\ Record(c, pos, n).log[Len(pos.log) + 1].no = n
        /\ Record(c, pos, n).log[Len(pos.log) + 1].rule = RuleOf(c)
    BY <1>1, <1>2, <2>2, RecordType
  <2> QED BY <2>1, <2>3
<1>8. ASSUME NEW r \in Rows, rowLock[r] = w, NEW i \in Fresh(w, r)'
      PROVE  \/ /\ i \in Fresh(w, r) /\ mine'[w][r].log[i] = mine[w][r].log[i]
                /\ mine[w][r].log[i].rule \in Rules
                /\ mine[w][r].log[i].no \in Nat
                /\ (mine[w][r].log[i].rule = k => mine[w][r].log[i].no < n)
             \/ /\ r = c.row /\ i = Len(old) + 1
                /\ mine'[w][r].log[i].no = n /\ mine'[w][r].log[i].rule = k
  <2>0. /\ MineExtends(w, r) /\ FreshNumbers(w, r)
        /\ Len(stock[r].log) \in Nat /\ Len(mine[w][r].log) \in Nat
    BY <1>0, <1>8, LogTypes DEF NumInv, NumbersMine
  <2>1. ASSUME i \in Fresh(w, r)
        PROVE  /\ mine[w][r].log[i].rule \in Rules /\ mine[w][r].log[i].no \in Nat
               /\ (mine[w][r].log[i].rule = k => mine[w][r].log[i].no < n)
               /\ i \in 1..Len(mine[w][r].log)
    <3>1. i \in 1..Len(mine[w][r].log)
      BY <2>0, <2>1 DEF Fresh
    <3>2. mine[w][r].log[i].rule \in Rules /\ mine[w][r].log[i].no \in Nat
      BY <1>0, <3>1, LogTypes
    <3>3. /\ ruleLock[mine[w][r].log[i].rule] = w
          /\ mine[w][r].log[i].no <= taken[w][mine[w][r].log[i].rule]
      BY <2>0, <2>1 DEF FreshNumbers
    <3> QED BY <1>2, <3>1, <3>2, <3>3, SMTT(30)
  <2>2. CASE r # c.row
    BY <1>4, <1>8, <2>1, <2>2 DEF Fresh
  <2>3. CASE r = c.row
    <3>1. i \in (Len(stock[r].log) + 1)..(Len(old) + 1)
      BY <1>4, <1>7, <1>8, <2>3 DEF Fresh
    <3>2. CASE i = Len(old) + 1
      BY <1>7, <2>3, <3>2
    <3>3. CASE i # Len(old) + 1
      <4>1. i \in Fresh(w, r)
        <5> DEFINE from == Len(stock[r].log) + 1
                   end == Len(mine[w][r].log)
        <5>1. old = mine[w][r].log
          BY <2>3
        <5>2. Len(old) = end
          BY <5>1
        <5>3. from \in Nat /\ end \in Nat
          BY <2>0
        <5>4. i \in from..(end + 1) /\ i # end + 1
          BY <3>1, <3>3, <5>2
        <5> HIDE DEF old, c, new, from, end
        <5>5. i \in from..end
          BY <5>3, <5>4
        <5> QED BY <5>5 DEF Fresh, from, end
      <4> QED BY <1>7, <2>1, <2>3, <4>1
    <3> QED BY <3>2, <3>3
  <2> QED BY <2>2, <2>3
<1> HIDE DEF c, k, old, new
<1>9. ASSUME NEW r \in Rows, rowLock'[r] = w
      PROVE  MineExtends(w, r)' /\ FreshNumbers(w, r)'
  <2>1. rowLock[r] = w /\ MineExtends(w, r) /\ FreshNumbers(w, r)
    BY <1>4, <1>9 DEF NumInv, NumbersMine
  <2>2. MineExtends(w, r)'
    <3>1. CASE r = c.row
      <4>1. Len(stock[r].log) \in Nat
        BY <1>0, LogTypes
      <4>2. old = mine[w][r].log /\ new = mine'[w][r].log /\ stock' = stock
        BY <1>4, <3>1 DEF old, new
      <4> QED BY <1>3, <1>7, <2>1, <4>1, <4>2 DEF MineExtends
    <3>2. CASE r # c.row
      BY <1>4, <2>1, <3>2 DEF MineExtends
    <3> QED BY <3>1, <3>2
  <2>3. ASSUME NEW i \in Fresh(w, r)'
        PROVE  /\ ruleLock'[mine'[w][r].log[i].rule] = w
               /\ sequence'[mine'[w][r].log[i].rule] < mine'[w][r].log[i].no
               /\ mine'[w][r].log[i].no <= taken'[w][mine'[w][r].log[i].rule]
    <3>1. CASE /\ i \in Fresh(w, r) /\ mine'[w][r].log[i] = mine[w][r].log[i]
               /\ mine[w][r].log[i].rule \in Rules /\ mine[w][r].log[i].no \in Nat
               /\ (mine[w][r].log[i].rule = k => mine[w][r].log[i].no < n)
      <4>1. /\ ruleLock[mine[w][r].log[i].rule] = w
            /\ sequence[mine[w][r].log[i].rule] < mine[w][r].log[i].no
            /\ mine[w][r].log[i].no <= taken[w][mine[w][r].log[i].rule]
        BY <2>1, <3>1 DEF FreshNumbers
      <4> QED BY <1>2, <1>4, <3>1, <4>1
    <3>2. CASE mine'[w][r].log[i].no = n /\ mine'[w][r].log[i].rule = k
      BY <1>2, <1>4, <3>2
    <3> QED BY <1>8, <2>1, <3>1, <3>2
  <2> QED BY <2>2, <2>3 DEF FreshNumbers
<1>10. FreshUnique(w)'
  <2> SUFFICES ASSUME NEW r \in Rows, NEW s \in Rows, rowLock'[r] = w, rowLock'[s] = w,
                      NEW i \in Fresh(w, r)', NEW j \in Fresh(w, s)',
                      mine'[w][r].log[i].rule = mine'[w][s].log[j].rule,
                      mine'[w][r].log[i].no = mine'[w][s].log[j].no
               PROVE  r = s /\ i = j
    BY DEF FreshUnique
  <2>1. rowLock[r] = w /\ rowLock[s] = w
    BY <1>4
  <2>2. FreshUnique(w)
    BY DEF NumInv, NumbersMine
  <2> DEFINE Kept(t, x) ==
               /\ x \in Fresh(w, t) /\ mine'[w][t].log[x] = mine[w][t].log[x]
               /\ mine[w][t].log[x].no \in Nat
               /\ (mine[w][t].log[x].rule = k => mine[w][t].log[x].no < n)
             Added(t, x) ==
               /\ t = c.row /\ x = Len(old) + 1
               /\ mine'[w][t].log[x].no = n /\ mine'[w][t].log[x].rule = k
  <2>3. Kept(r, i) \/ Added(r, i)
    BY <1>8, <2>1
  <2>4. Kept(s, j) \/ Added(s, j)
    BY <1>8, <2>1
  <2>5. CASE Kept(r, i) /\ Kept(s, j)
    BY <2>1, <2>2, <2>5 DEF FreshUnique
  <2>6. CASE Added(r, i) /\ Added(s, j)
    BY <2>6
  <2>7. ASSUME Kept(r, i), Added(s, j) PROVE FALSE
    <3>1. mine[w][r].log[i].no = n /\ mine[w][r].log[i].rule = k
      BY <2>7
    <3>2. n < n
      BY <2>7, <3>1
    <3> QED BY <1>2, <3>2
  <2>8. ASSUME Added(r, i), Kept(s, j) PROVE FALSE
    <3>1. mine[w][s].log[j].no = n /\ mine[w][s].log[j].rule = k
      BY <2>8
    <3>2. n < n
      BY <2>8, <3>1
    <3> QED BY <1>2, <3>2
  <2> QED BY <2>3, <2>4, <2>5, <2>6, <2>7, <2>8
<1>11. ASSUME NEW v \in Workers, v # w
       PROVE  /\ \A c1 \in Rules : ruleLock[c1] = v => ruleLock'[c1] = v
              /\ mine'[v] = mine[v] /\ taken'[v] = taken[v]
  BY <1>4, <1>5, <1>11, NoOwnerAssumption
<1>12. NumbersMine'
  BY <1>0, <1>4, <1>9, <1>10, <1>11, NumbersMineKept DEF NumbersMine
<1> QED BY <1>4, <1>6, <1>12 DEF NumInv, NumbersBounded, NumbersUnique

(***************************************************************************)
(* No two committed movements of one rule bear the same number, however    *)
(* the transactions that wrote them interleaved.                           *)
(***************************************************************************)
THEOREM NumbersAreUnique == Spec => []NumbersUnique
<1>1. Init => NumInv
  <2> SUFFICES ASSUME Init PROVE NumInv
    OBVIOUS
  <2>1. \A r \in Rows : stock[r].log = << >>
    BY DEF Init, Blank, NoPosition
  <2> QED BY <2>1, NoOwnerAssumption
      DEF Init, NumInv, NumbersBounded, NumbersUnique, NumbersGrow, NumbersMine, FreshUnique
<1>2. IInv /\ NumInv /\ [Next]_vars => NumInv'
  <2> SUFFICES ASSUME IInv, NumInv, [Next]_vars PROVE NumInv'
    OBVIOUS
  <2>1. CASE UNCHANGED <<stock, sequence, rowLock, ruleLock, taken, mine>>
    BY <2>1, NumKept
  <2> QED BY <2>1, NumLock, NumTake, NumCommit, NumAbort
      DEF Next, Work, Progress, Edit, Begin, SumStock, SaveProduct, Reject, BreakDeadlock,
          Kill, LoadProduct, StoreProduct, vars, committed, locks, private
<1>3. NumInv => NumbersUnique
  BY DEF NumInv
<1> QED BY <1>1, <1>2, <1>3, Invariance, PTL DEF Spec
-----------------------------------------------------------------------------
(* Posting: types. *)

\* An entry keeps the balances integers.
LEMMA BalancesStayIntegers ==
  ASSUME NEW b \in [Accounts!Subjects -> Int], NEW event, NEW amount \in Nat
  PROVE  Accounts!Entered(b, event, amount) \in [Accounts!Subjects -> Int]
  BY DEF Accounts!Entered

\* An idle thread's job is a job.
LEMMA IdleIsAJob == Idle \in Jobs
  BY DEF Jobs

\* An edit that follows its row is a job still, and no other job changes.
LEMMA FollowedIs ==
  ASSUME job \in [Threads -> Jobs], NEW m, NEW to \in Months \cup {NoMonth}
  PROVE  /\ Followed(m, to) \in [Threads -> Jobs]
         /\ \A v \in Threads : /\ Followed(m, to)[v].kind = job[v].kind
                               /\ job[v].kind # "edit_period" => Followed(m, to)[v] = job[v]
<1> SUFFICES ASSUME NEW v \in Threads
             PROVE  /\ Followed(m, to)[v] \in Jobs
                    /\ Followed(m, to)[v].kind = job[v].kind
                    /\ job[v].kind # "edit_period" => Followed(m, to)[v] = job[v]
  BY DEF Followed
<1>1. CASE job[v].kind = "edit_period" /\ job[v].month = m
  <2>1. job[v] \in [kind : {"edit_period"}, document : {NoDocument},
                    month : Months \cup {NoMonth}, status : {"OPEN", "CLOSED"},
                    was : {"OPEN", "CLOSED"}, to : Months]
    BY <1>1 DEF Jobs, Idle
  <2>2. [job[v] EXCEPT !.month = to] \in Jobs /\ [job[v] EXCEPT !.month = to].kind = "edit_period"
    BY <2>1 DEF Jobs
  <2> QED BY <1>1, <2>2 DEF Followed
<1>2. CASE ~ (job[v].kind = "edit_period" /\ job[v].month = m)
  BY <1>2 DEF Followed
<1> QED BY <1>1, <1>2

\* So it is when the one that saves is done.
LEMMA SavedJobs ==
  ASSUME job \in [Threads -> Jobs], NEW w \in Threads, SavePeriod(w)
  PROVE  /\ job' \in [Threads -> Jobs] /\ job'[w] = Idle
         /\ job[w].month \in Months \cup {NoMonth} /\ job[w].to \in Months
         /\ job[w].status \in {"OPEN", "CLOSED"}
         /\ \A v \in Threads \ {w} : /\ job'[v].kind = job[v].kind
                                     /\ job[v].kind # "edit_period" => job'[v] = job[v]
<1> DEFINE m  == job[w].month
           to == job[w].to
           f  == Followed(m, to)
<1>1. m \in Months \cup {NoMonth} /\ to \in Months /\ job[w].status \in {"OPEN", "CLOSED"}
  <2>1. job[w] \in Jobs /\ job[w].kind = "edit_period"
    BY DEF SavePeriod
  <2> QED BY <2>1 DEF Jobs, Idle
<1>2. job' = [f EXCEPT ![w] = Idle]
  BY DEF SavePeriod
<1> HIDE DEF m, to
<1>3. /\ f \in [Threads -> Jobs]
      /\ \A v \in Threads : f[v].kind = job[v].kind /\ (job[v].kind # "edit_period" => f[v] = job[v])
  BY <1>1, FollowedIs
<1> HIDE DEF f
<1>4. /\ job' \in [Threads -> Jobs] /\ job'[w] = Idle
      /\ \A v \in Threads \ {w} : job'[v] = f[v]
  BY <1>2, <1>3, IdleIsAJob
<1> QED BY <1>1, <1>3, <1>4 DEF m, to

\* The vouchers of a period that is moved are of another month.
LEMMA SavedVouchers ==
  ASSUME PostingTypeOK, NEW w \in Threads, SavePeriod(w)
  PROVE  /\ vouchers' \in Seq([document : Documents, month : Months])
         /\ Len(vouchers') = Len(vouchers) /\ DOMAIN vouchers' = DOMAIN vouchers
         /\ \A i \in DOMAIN vouchers : vouchers'[i].document = vouchers[i].document
<1> DEFINE R == [document : Documents, month : Months]
           m == job[w].month
           to == job[w].to
           moved(i) == IF vouchers[i].month = m THEN [vouchers[i] EXCEPT !.month = to] ELSE vouchers[i]
<1>1. vouchers \in Seq(R) /\ DOMAIN vouchers = 1 .. Len(vouchers) /\ Len(vouchers) \in Nat
  BY DEF PostingTypeOK
<1>2. to \in Months
  BY SavedJobs DEF PostingTypeOK
<1>3. vouchers' = [i \in 1 .. Len(vouchers) |-> moved(i)]
  BY DEF SavePeriod
<1>4. ASSUME NEW i \in 1 .. Len(vouchers)
      PROVE  moved(i) \in R /\ moved(i).document = vouchers[i].document
  <2>1. vouchers[i] \in R
    <3> HIDE DEF R
    <3> QED BY <1>1
  <2> HIDE DEF m, to
  <2> QED BY <1>2, <2>1
<1> HIDE DEF moved, m, to, R
<1>5. vouchers' \in Seq(R) /\ Len(vouchers') = Len(vouchers)
  BY <1>1, <1>3, <1>4
<1> QED BY <1>1, <1>3, <1>4, <1>5 DEF R

\* The initial state gives every variable a value of its type.
LEMMA InitTypes == PostingInit => PostingTypeOK
  BY PostingAssumption, IdleIsAJob DEF PostingInit, PostingTypeOK, Accounts!Subjects

\* Every step keeps the types.
LEMMA NextTypes == PostingTypeOK /\ [PostingNext]_postingVars => PostingTypeOK'
<1> SUFFICES ASSUME PostingTypeOK, [PostingNext]_postingVars PROVE PostingTypeOK'
  OBVIOUS
<1> USE DEF PostingTypeOK, books
<1>a. ASSUME NEW w \in Threads PROVE [job EXCEPT ![w] = Idle] \in [Threads -> Jobs]
  BY IdleIsAJob
<1>1. CASE UNCHANGED postingVars
  BY <1>1 DEF postingVars
<1>2. CASE PassMonth
  BY <1>2 DEF PassMonth
<1>3. ASSUME NEW w \in Threads, Serve(w) PROVE PostingTypeOK'
  <2>1. CASE EnsureOpen(w)
    <3>1. job[w] \in [kind : {"execute", "post"}, document : Documents, month : Months,
                      status : {"none"}]
      BY <2>1 DEF EnsureOpen, Jobs, Idle
    <3>2. [job[w] EXCEPT !.kind = "post"] \in Jobs
      BY <3>1 DEF Jobs
    <3>3. job' = [job EXCEPT ![w] = [job[w] EXCEPT !.kind = "post"]]
      BY <2>1 DEF EnsureOpen
    <3> QED BY <2>1, <3>2, <3>3 DEF EnsureOpen
  <2>2. CASE PostVoucher(w)
    <3>1. job[w].document \in Documents /\ job[w].month \in Months
      BY <2>2 DEF PostVoucher, Jobs, Idle
    <3>2. balance' \in [Accounts!Subjects -> Int]
      BY <2>2, <3>1, BalancesStayIntegers, PostingAssumption DEF PostVoucher
    <3>3. vouchers' \in Seq([document : Documents, month : Months])
      BY <2>2, <3>1 DEF PostVoucher
    <3> QED BY <2>2, <3>1, <3>2, <3>3, <1>a DEF PostVoucher, Executed, Done
  <2>3. CASE Refuse(w)
    BY <2>3, <1>a DEF Refuse, Done
  <2>4. CASE SaveDocument(w)
    <3>1. job[w].document \in Documents /\ job[w].month \in Months
            /\ job[w].status \in {"APPROVED", "EXECUTED"}
      <4>1. job[w] \in Jobs /\ job[w].kind = "edit"
        BY <2>4, <1>a DEF SaveDocument
      <4> QED BY <4>1 DEF Jobs, Idle
    <3> QED BY <2>4, <3>1, <1>a DEF SaveDocument, Done
  <2>5. CASE SavePeriod(w)
    <3>1. /\ job' \in [Threads -> Jobs] /\ job[w].to \in Months
          /\ job[w].status \in {"OPEN", "CLOSED"}
      BY <2>5, SavedJobs
    <3>2. vouchers' \in Seq([document : Documents, month : Months])
      BY <2>5, SavedVouchers
    <3>3. period' \in [Months -> {"none", "OPEN", "CLOSED"}] /\ shut' \subseteq Months
      BY <2>5, <3>1 DEF SavePeriod
    <3> QED BY <2>5, <3>1, <3>2, <3>3 DEF SavePeriod
  <2> QED BY <1>3, <2>1, <2>2, <2>3, <2>4, <2>5 DEF Serve
<1>4. ASSUME NEW w \in Threads, Fail(w) PROVE PostingTypeOK'
  BY <1>4, <1>a DEF Fail, Done
<1>5. ASSUME NEW w \in Threads, NEW d \in Documents, DocumentStep(w, d) PROVE PostingTypeOK'
  <2>1. ASSUME NEW m \in Months, NEW status \in {"APPROVED", "EXECUTED"},
               LoadDocument(w, d, m, status)
        PROVE  PostingTypeOK'
    BY <2>1 DEF LoadDocument, Jobs
  <2>2. ASSUME NEW auto \in AutoPosting, ExecuteOnly(w, d, auto) PROVE PostingTypeOK'
    BY <2>2 DEF ExecuteOnly, Executed
  <2>3. CASE Execute(w, d)
    <3>1. MonthOf(d) \in Months
      BY DEF MonthOf
    <3> QED BY <2>3, <3>1 DEF Execute, Jobs
  <2> QED BY <1>5, <2>1, <2>2, <2>3 DEF DocumentStep
<1>6. ASSUME NEW w \in Threads, NEW m \in Months, PeriodStep(w, m) PROVE PostingTypeOK'
  <2>1. CASE ClosePeriod(w, m)   BY <2>1 DEF ClosePeriod
  <2>2. CASE OpenPeriod(w, m)    BY <2>2 DEF OpenPeriod
  <2>3. ASSUME NEW status \in {"OPEN", "CLOSED"}, NEW to \in Months, LoadPeriod(w, m, status, to)
        PROVE  PostingTypeOK'
    <3>1. period[m] \in {"OPEN", "CLOSED"}
      BY <2>3 DEF LoadPeriod
    <3>2. [kind |-> "edit_period", document |-> NoDocument, month |-> m, status |-> status,
           was |-> period[m], to |-> to] \in Jobs
      BY <3>1 DEF Jobs
    <3> QED BY <2>3, <3>2 DEF LoadPeriod
  <2>4. CASE DestroyPeriod(w, m)
    <3>1. job' \in [Threads -> Jobs]
      BY <2>4, FollowedIs DEF DestroyPeriod
    <3> QED BY <2>4, <3>1 DEF DestroyPeriod
  <2>5. ASSUME NEW status \in {"OPEN", "CLOSED"}, CreatePeriod(w, m, status) PROVE PostingTypeOK'
    BY <2>5 DEF CreatePeriod
  <2> QED BY <1>6, <2>1, <2>2, <2>3, <2>4, <2>5 DEF PeriodStep
<1>7. ASSUME NEW w \in Threads, SubjectStep(w) PROVE PostingTypeOK'
  <2>1. ASSUME NEW s \in Edited, DestroySubject(w, s) PROVE PostingTypeOK'
    BY <2>1, PostingAssumption DEF DestroySubject
  <2>2. ASSUME NEW s \in Edited, NEW status \in {"enabled", "disabled"},
               EnableSubject(w, s, status)
        PROVE  PostingTypeOK'
    BY <2>2, PostingAssumption DEF EnableSubject
  <2>3. CASE InitSubjects(w)
    BY <2>3 DEF InitSubjects
  <2> QED BY <1>7, <2>1, <2>2, <2>3 DEF SubjectStep
<1> QED BY <1>1, <1>2, <1>3, <1>4, <1>5, <1>6, <1>7 DEF PostingNext

\* The variables keep their types.
THEOREM PostingTypesHold == PostingSpec => []PostingTypeOK
  BY InitTypes, NextTypes, PTL DEF PostingSpec

-----------------------------------------------------------------------------
(* One voucher for each document. *)

\* The log knows the document of every voucher.
LogComplete == \A i \in DOMAIN vouchers : vouchers[i].document \in logged

\* A completed document has its log, and a log is completed once.
LEMMA NextPostsOnce ==
  PostingTypeOK /\ LogComplete /\ PostedOnce /\ [PostingNext]_postingVars => LogComplete' /\ PostedOnce'
<1> SUFFICES ASSUME PostingTypeOK, LogComplete, PostedOnce, [PostingNext]_postingVars
             PROVE  LogComplete' /\ PostedOnce'
  OBVIOUS
<1>1. CASE UNCHANGED <<vouchers, logged>>
  BY <1>1 DEF LogComplete, PostedOnce
<1>2. ASSUME NEW w \in Threads, PostVoucher(w) PROVE LogComplete' /\ PostedOnce'
  <2> DEFINE v == [document |-> job[w].document, month |-> job[w].month]
             n == Len(vouchers)
  <2>1. vouchers' = Append(vouchers, v) /\ v.document \notin logged
          /\ logged' = logged \cup {v.document}
    BY <1>2 DEF PostVoucher, Logged
  <2>2. n \in Nat /\ DOMAIN vouchers = 1 .. n
    BY DEF PostingTypeOK
  <2>3. v \in [document : Documents, month : Months]
    BY <1>2 DEF PostVoucher, PostingTypeOK, Jobs, Idle
  <2> HIDE DEF v
  <2>4. DOMAIN vouchers' = 1 .. n + 1 /\ vouchers'[n + 1] = v
          /\ \A i \in 1 .. n : vouchers'[i] = vouchers[i]
    BY <2>1, <2>2, <2>3 DEF PostingTypeOK
  <2>5. \A i \in 1 .. n : vouchers'[i].document \in logged
    BY <2>2, <2>4 DEF LogComplete
  <2> QED BY <2>1, <2>2, <2>4, <2>5 DEF LogComplete, PostedOnce
<1>3. ASSUME NEW w \in Threads, SavePeriod(w) PROVE LogComplete' /\ PostedOnce'
  <2>1. UNCHANGED logged
    BY <1>3 DEF SavePeriod
  <2> QED BY <1>3, <2>1, SavedVouchers DEF LogComplete, PostedOnce
<1> QED
  BY <1>1, <1>2, <1>3, ZenonT(60) DEF PostingNext, postingVars, books, PassMonth, Serve, EnsureOpen, Refuse,
     SaveDocument, Fail, DocumentStep, LoadDocument, ExecuteOnly, Execute, PeriodStep, ClosePeriod,
     OpenPeriod, LoadPeriod, CreatePeriod, DestroyPeriod, SubjectStep, DestroySubject, EnableSubject,
     InitSubjects

\* A document has one voucher at most (PostingService._post_once).
THEOREM OneVoucherEach == PostingSpec => []PostedOnce
<1>1. PostingInit => LogComplete /\ PostedOnce
  BY DEF PostingInit, LogComplete, PostedOnce
<1> QED BY <1>1, PostingTypesHold, NextPostsOnce, PTL DEF PostingSpec

-----------------------------------------------------------------------------
(* Nobody is overtaken. *)

\* One execution at a time holds the row of a document.
HeldByOne ==
  \A v, w \in Threads :
    Executing(v) /\ Executing(w) /\ job[v].document = job[w].document => v = w

Held == HeldByOne /\ NotOvertaken

\* Two workers never hold the same document.
LEMMA NextHeld == PostingTypeOK /\ Held /\ [PostingNext]_postingVars => Held'
<1> SUFFICES ASSUME PostingTypeOK, Held, [PostingNext]_postingVars PROVE Held'
  OBVIOUS
<1> USE DEF Held, HeldByOne, NotOvertaken, Executing, Request, Logged
<1>a. job \in [Threads -> Jobs]
  BY DEF PostingTypeOK
<1>1. CASE UNCHANGED <<job, logged>>
  BY <1>1
<1>2. ASSUME NEW w \in Threads, job' = [job EXCEPT ![w] = Idle], UNCHANGED logged PROVE Held'
  BY <1>2, <1>a DEF Idle
<1>3. ASSUME NEW w \in Threads, NEW j, job' = [job EXCEPT ![w] = j],
             j.kind \notin {"execute", "post"}, UNCHANGED logged
      PROVE  Held'
  BY <1>3, <1>a
<1>4. ASSUME NEW w \in Threads, NEW d \in Documents, Execute(w, d) PROVE Held'
  <2>1. job'[w].document = d /\ \A v \in Threads \ {w} : job'[v] = job[v]
    BY <1>4, <1>a DEF Execute
  <2>2. d \notin logged /\ UNCHANGED logged
    BY <1>4 DEF Execute, books
  <2>3. \A v \in Threads : Executing(v) => job[v].document # d
    BY <1>4 DEF Execute, DocumentFree
  <2> QED BY <2>1, <2>2, <2>3
<1>5. ASSUME NEW w \in Threads, EnsureOpen(w) PROVE Held'
  <2>1. Executing(w) /\ job'[w].document = job[w].document
          /\ \A v \in Threads \ {w} : job'[v] = job[v]
    BY <1>5, <1>a DEF EnsureOpen, Jobs, Idle
  <2>2. UNCHANGED logged
    BY <1>5 DEF EnsureOpen, books
  <2> QED BY <2>1, <2>2
<1>6. ASSUME NEW w \in Threads, PostVoucher(w) PROVE Held'
  <2>1. Executing(w) /\ logged' = logged \cup {job[w].document}
    BY <1>6 DEF PostVoucher
  <2>2. job'[w] = Idle /\ \A v \in Threads \ {w} : job'[v] = job[v]
    BY <1>6, <1>a DEF PostVoucher, Done
  <2>3. ~ Executing(w)'
    BY <2>2 DEF Idle
  <2> QED BY <2>1, <2>2, <2>3
<1>7. ASSUME NEW w \in Threads, NEW d \in Documents, NEW m, NEW status,
             LoadDocument(w, d, m, status)
      PROVE  Held'
  BY <1>7, <1>3 DEF LoadDocument, books
<1>8. ASSUME NEW w \in Threads, NEW m, NEW status, NEW to, LoadPeriod(w, m, status, to)
      PROVE  Held'
  BY <1>8, <1>3 DEF LoadPeriod, books
<1>9. ASSUME NEW w \in Threads, SavePeriod(w) PROVE Held'
  <2>1. UNCHANGED logged
    BY <1>9 DEF SavePeriod
  <2>2. \A v \in Threads : Executing(v)' => Executing(v) /\ job'[v] = job[v]
    BY <1>9, <1>a, SavedJobs DEF Idle
  <2> QED BY <2>1, <2>2
<1>10. ASSUME NEW w \in Threads, NEW m \in Months, DestroyPeriod(w, m) PROVE Held'
  <2>1. UNCHANGED logged /\ job' = Followed(m, NoMonth)
    BY <1>10 DEF DestroyPeriod, books
  <2>2. \A v \in Threads : Executing(v)' => Executing(v) /\ job'[v] = job[v]
    BY <2>1, <1>a, FollowedIs
  <2> QED BY <2>1, <2>2
<1> QED
  BY <1>1, <1>2, <1>4, <1>5, <1>6, <1>7, <1>8, <1>9, <1>10 DEF PostingNext, postingVars, books, PassMonth,
     Serve, Refuse, SaveDocument, Fail, Done, DocumentStep, ExecuteOnly, PeriodStep, ClosePeriod,
     OpenPeriod, CreatePeriod, SubjectStep, DestroySubject, EnableSubject, InitSubjects

\* An execution that is under way has not been posted by another (select_for_update of
\* the document before its status is read again).
THEOREM NobodyOvertaken == PostingSpec => []NotOvertaken
<1>1. PostingInit => Held
  BY DEF PostingInit, Held, HeldByOne, NotOvertaken, Executing, Request, Idle
<1>2. Held => NotOvertaken
  BY DEF Held
<1> QED BY <1>1, <1>2, PostingTypesHold, NextHeld, PTL DEF PostingSpec

-----------------------------------------------------------------------------
(* Closed periods. *)

\* A posting holds a period that is not closed.
PeriodsHeld == \A w \in Threads : job[w].kind = "post" => period[job[w].month] # "CLOSED"

\* While a period is edited nothing else is served, so it stays as it was loaded.
EditsFresh ==
  \A w \in Threads : job[w].kind = "edit_period" =>
    /\ job[w].month \in Months /\ period[job[w].month] = job[w].was
    /\ \A v \in Threads \ {w} : job[v] = Idle

\* What was closed on request is closed.
ShutIsClosed == \A m \in shut : period[m] = "CLOSED"

Closing == PeriodsHeld /\ EditsFresh /\ ShutIsClosed

NobodyEdits == \A v \in Threads : job[v].kind # "edit_period"

\* Where editing periods overlaps with nothing, nobody edits when a request
\* starts.
LEMMA StartsAlone ==
  ASSUME "edit_period" \notin Racing, NEW w \in Threads, NEW kind, MayStart(w, kind)
  PROVE  /\ NobodyEdits
         /\ kind = "edit_period" => \A v \in Threads \ {w} : job[v] = Idle
  BY DEF NobodyEdits, MayStart, Request, Idle

\* What a posting has read of its period is still so when it is written.
LEMMA NextClosing ==
  ASSUME "edit_period" \notin Racing
  PROVE  PostingTypeOK /\ Closing /\ [PostingNext]_postingVars => Closing'
<1> SUFFICES ASSUME PostingTypeOK, Closing, [PostingNext]_postingVars PROVE Closing'
  OBVIOUS
<1> USE DEF Closing, PeriodsHeld, EditsFresh, ShutIsClosed
<1>a. job \in [Threads -> Jobs] /\ period \in [Months -> {"none", "OPEN", "CLOSED"}]
        /\ shut \subseteq Months
  BY DEF PostingTypeOK
<1>1. CASE UNCHANGED <<job, period, shut>>
  BY <1>1
<1>2. ASSUME NEW w \in Threads, job' = [job EXCEPT ![w] = Idle], UNCHANGED <<period, shut>>
      PROVE  Closing'
  BY <1>2, <1>a DEF Idle
<1>3. ASSUME NEW w \in Threads, NobodyEdits, NEW j, job' = [job EXCEPT ![w] = j],
             j.kind \notin {"post", "edit_period"}, UNCHANGED <<period, shut>>
      PROVE  Closing'
  BY <1>3, <1>a DEF NobodyEdits
<1>4. ASSUME NEW w \in Threads, NEW d \in Documents, DocumentStep(w, d) PROVE Closing'
  <2>1. ASSUME NEW m, NEW status, LoadDocument(w, d, m, status) PROVE Closing'
    BY <2>1, <1>3, StartsAlone DEF LoadDocument
  <2>2. CASE Execute(w, d)
    BY <2>2, <1>3, StartsAlone DEF Execute
  <2> QED BY <1>1, <1>4, <2>1, <2>2 DEF DocumentStep, ExecuteOnly
<1>5. ASSUME NEW w \in Threads, EnsureOpen(w) PROVE Closing'
  <2>1. NobodyEdits
    BY <1>5 DEF EnsureOpen, NobodyEdits, Idle
  <2>2. job'[w].kind = "post" /\ job'[w].month = job[w].month
          /\ \A v \in Threads \ {w} : job'[v] = job[v]
    BY <1>5, <1>a DEF EnsureOpen, Jobs, Idle
  <2>3. period[job[w].month] # "CLOSED" /\ UNCHANGED <<period, shut>>
    BY <1>5 DEF EnsureOpen
  <2> QED BY <2>1, <2>2, <2>3 DEF NobodyEdits
<1>6. ASSUME NEW w \in Threads, PostVoucher(w) PROVE Closing'
  <2> DEFINE m == job[w].month
  <2>1. NobodyEdits
    BY <1>6 DEF PostVoucher, NobodyEdits, Idle
  <2>2. job[w].kind = "post" /\ UNCHANGED shut /\ period' = [period EXCEPT ![m] = "OPEN"]
          /\ job' = [job EXCEPT ![w] = Idle]
    BY <1>6 DEF PostVoucher, Done
  <2>3. m \notin shut
    BY <2>2
  <2>4. \A n \in Months : n # m => period'[n] = period[n]
    BY <2>2, <1>a
  <2>5. \A v \in Threads : v # w => job'[v] = job[v] /\ job[v].kind # "edit_period"
    BY <2>1, <2>2, <1>a DEF NobodyEdits
  <2>6. job'[w].kind = "idle"
    BY <2>2, <1>a DEF Idle
  <2>7. \A v \in Threads : job[v].kind = "post" => job[v].month \in Months
    BY <1>a DEF Jobs, Idle
  <2>8. period'[m] = "OPEN"
    BY <2>2, <2>7, <1>a
  <2> QED BY <1>a, <2>2, <2>3, <2>4, <2>5, <2>6, <2>7, <2>8
<1>7. ASSUME NEW w \in Threads, SavePeriod(w) PROVE Closing'
  <2> DEFINE m  == job[w].month
             to == job[w].to
  <2>1. job[w].kind = "edit_period"
    BY <1>7 DEF SavePeriod
  <2>2. m \in Months /\ period[m] = job[w].was /\ \A v \in Threads \ {w} : job[v] = Idle
    BY <2>1
  <2>3. \A v \in Threads : job'[v].kind \notin {"post", "edit_period"}
    BY <1>7, <1>a, <2>2, SavedJobs DEF Idle
  <2>4. /\ to \in Months /\ (to = m \/ period[to] = "none")
        /\ period' = [k \in Months |-> IF k = to THEN job[w].status
                                       ELSE IF k = m THEN "none" ELSE period[k]]
        /\ shut' = (shut \ {m}) \cup (IF Shuts(w) THEN {to} ELSE {})
    BY <1>7, <1>a, SavedJobs DEF SavePeriod, MonthTaken
  <2>5. to \in shut => to = m
    BY <2>4
  <2>6. Shuts(w) => job[w].status = "CLOSED"
    BY <2>2 DEF Shuts
  <2> HIDE DEF m, to
  <2>7. ASSUME NEW k \in shut' PROVE period'[k] = "CLOSED"
    <3>1. CASE k = to
      BY <2>4, <2>5, <2>6, <3>1
    <3>2. CASE k # to
      BY <1>a, <2>4, <3>2
    <3> QED BY <3>1, <3>2
  <2> QED BY <2>3, <2>7
<1>8. ASSUME NEW w \in Threads, NEW m \in Months, PeriodStep(w, m) PROVE Closing'
  <2>1. CASE ClosePeriod(w, m)
    <3>1. NobodyEdits
      BY <2>1, StartsAlone DEF ClosePeriod
    <3>2. \A v \in Threads : job[v].kind = "post" => job[v].month # m
      BY <2>1 DEF ClosePeriod, PeriodFree
    <3> QED BY <2>1, <3>1, <3>2, <1>a DEF ClosePeriod, NobodyEdits
  <2>2. CASE OpenPeriod(w, m)
    <3>1. NobodyEdits
      BY <2>2, StartsAlone DEF OpenPeriod
    <3> QED BY <2>2, <3>1, <1>a DEF OpenPeriod, NobodyEdits
  <2>3. ASSUME NEW status, NEW to, LoadPeriod(w, m, status, to) PROVE Closing'
    <3>1. NobodyEdits /\ \A v \in Threads \ {w} : job[v] = Idle
      BY <2>3, StartsAlone DEF LoadPeriod
    <3>2. job'[w].kind = "edit_period" /\ job'[w].month = m /\ job'[w].was = period[m]
            /\ \A v \in Threads \ {w} : job'[v] = Idle
      BY <2>3, <3>1, <1>a DEF LoadPeriod
    <3>3. UNCHANGED <<period, shut>>
      BY <2>3 DEF LoadPeriod
    <3> QED BY <3>2, <3>3 DEF Idle
  <2>4. CASE DestroyPeriod(w, m)
    <3>1. NobodyEdits
      BY <2>4, StartsAlone DEF DestroyPeriod
    <3>2. job' = job
      BY <2>4, <3>1, <1>a DEF DestroyPeriod, Followed, NobodyEdits
    <3> QED BY <2>4, <3>1, <3>2, <1>a DEF DestroyPeriod, NobodyEdits
  <2>5. ASSUME NEW status \in {"OPEN", "CLOSED"}, CreatePeriod(w, m, status) PROVE Closing'
    <3>1. NobodyEdits
      BY <2>5, StartsAlone DEF CreatePeriod
    <3>2. \A v \in Threads : job[v].kind = "post" => job[v].month # m
      BY <2>5 DEF CreatePeriod, PeriodFree
    <3>3. period' = [period EXCEPT ![m] = status] /\ UNCHANGED job
            /\ shut' = IF status = "CLOSED" THEN shut \cup {m} ELSE shut
      BY <2>5 DEF CreatePeriod
    <3>4. m \notin shut
      BY <2>5 DEF CreatePeriod
    <3> QED BY <2>5, <3>1, <3>2, <3>3, <3>4, <1>a DEF NobodyEdits
  <2> QED BY <1>8, <2>1, <2>2, <2>3, <2>4, <2>5 DEF PeriodStep
<1> QED
  BY <1>1, <1>2, <1>4, <1>5, <1>6, <1>7, <1>8 DEF PostingNext, postingVars, PassMonth, Serve, Refuse,
     SaveDocument, Fail, Done, SubjectStep, DestroySubject, EnableSubject, InitSubjects

\* Vouchers are appended by PostVoucher only, in a period that is held.
LEMMA PostsAreOpen ==
  PostingTypeOK /\ Closing /\ [PostingNext]_postingVars =>
    (Len(vouchers') > Len(vouchers) => vouchers'[Len(vouchers')].month \notin shut)
<1> SUFFICES ASSUME PostingTypeOK, Closing, [PostingNext]_postingVars, Len(vouchers') > Len(vouchers)
             PROVE  vouchers'[Len(vouchers')].month \notin shut
  OBVIOUS
<1>1. vouchers' # vouchers /\ \A w \in Threads : ~ SavePeriod(w)
  BY SavedVouchers DEF PostingTypeOK
<1>2. PICK w \in Threads : PostVoucher(w)
  BY <1>1, ZenonT(60) DEF PostingNext, postingVars, books, PassMonth, Serve, EnsureOpen, Refuse, SaveDocument,
     Fail, DocumentStep, LoadDocument, ExecuteOnly, Execute, PeriodStep, ClosePeriod,
     OpenPeriod, LoadPeriod, CreatePeriod, DestroyPeriod, SubjectStep, DestroySubject, EnableSubject,
     InitSubjects
<1> DEFINE v == [document |-> job[w].document, month |-> job[w].month]
<1>3. v \in [document : Documents, month : Months]
  BY <1>2 DEF PostVoucher, PostingTypeOK, Jobs, Idle
<1>4. vouchers' = Append(vouchers, v)
  BY <1>2 DEF PostVoucher
<1>5. v.month \notin shut
  BY <1>2 DEF PostVoucher, Closing, PeriodsHeld, ShutIsClosed
<1> HIDE DEF v
<1> QED BY <1>3, <1>4, <1>5 DEF PostingTypeOK

\* Where nothing is served while a period is edited, a period that was closed takes no
\* voucher (PeriodService.ensure_open, close_period).
THEOREM ClosedPeriodsTakeNothing ==
  ASSUME "edit_period" \notin Racing
  PROVE  PostingSpec => ClosedTakesNothing
<1>1. PostingInit => Closing
  BY DEF PostingInit, Closing, PeriodsHeld, EditsFresh, ShutIsClosed, Idle
<1>2. PostingTypeOK /\ Closing /\ [PostingNext]_postingVars => Closing'
  BY NextClosing
<1> QED BY <1>1, <1>2, PostingTypesHold, PostsAreOpen, PTL DEF PostingSpec, ClosedTakesNothing

-----------------------------------------------------------------------------
(* The general ledger. *)

\* What is being posted is worth something.
Worth == \A w \in Threads : Executing(w) => job[w].document \in Documents
                                            /\ Amount[job[w].document] > 0

\* The ledger holds what the completed logs are worth.
LEMMA NextWorth == PostingTypeOK /\ Worth /\ [PostingNext]_postingVars => Worth'
<1> SUFFICES ASSUME PostingTypeOK, Worth, [PostingNext]_postingVars PROVE Worth'
  OBVIOUS
<1> USE DEF Worth, Executing, Request
<1>a. job \in [Threads -> Jobs]
  BY DEF PostingTypeOK
<1>1. CASE UNCHANGED job
  BY <1>1
<1>2. ASSUME NEW w \in Threads, job' = [job EXCEPT ![w] = Idle] PROVE Worth'
  BY <1>2, <1>a DEF Idle
<1>3. ASSUME NEW w \in Threads, NEW j, job' = [job EXCEPT ![w] = j],
             j.kind \notin {"execute", "post"}
      PROVE  Worth'
  BY <1>3, <1>a
<1>4. ASSUME NEW w \in Threads, NEW d \in Documents, Execute(w, d) PROVE Worth'
  <2>1. job'[w].document = d /\ Amount[d] > 0
          /\ \A v \in Threads \ {w} : job'[v] = job[v]
    BY <1>4, <1>a DEF Execute
  <2> QED BY <2>1
<1>5. ASSUME NEW w \in Threads, EnsureOpen(w) PROVE Worth'
  <2>1. Executing(w) /\ job'[w].document = job[w].document
          /\ \A v \in Threads \ {w} : job'[v] = job[v]
    BY <1>5, <1>a DEF EnsureOpen, Jobs, Idle
  <2> QED BY <2>1
<1>6. ASSUME NEW w \in Threads, SavePeriod(w) PROVE Worth'
  BY <1>6, <1>a, SavedJobs DEF Idle
<1>7. ASSUME NEW w \in Threads, NEW m \in Months, DestroyPeriod(w, m) PROVE Worth'
  BY <1>7, <1>a, FollowedIs DEF DestroyPeriod
<1>8. CASE PassMonth
  BY <1>1, <1>8 DEF PassMonth
<1>9. ASSUME NEW w \in Threads, Serve(w) \/ Fail(w) PROVE Worth'
  <2>1. CASE EnsureOpen(w)
    BY <1>5, <2>1
  <2>2. CASE SavePeriod(w)
    BY <1>6, <2>2
  <2>3. CASE PostVoucher(w) \/ Refuse(w) \/ SaveDocument(w) \/ Fail(w)
    BY <1>2, <2>3 DEF PostVoucher, Refuse, SaveDocument, Fail, Done
  <2> QED
    BY <1>9, <2>1, <2>2, <2>3 DEF Serve
<1>10. ASSUME NEW w \in Threads, NEW d \in Documents, DocumentStep(w, d) PROVE Worth'
  <2>1. CASE Execute(w, d)
    BY <1>4, <2>1
  <2>2. ASSUME NEW auto \in AutoPosting, ExecuteOnly(w, d, auto) PROVE Worth'
    BY <1>1, <2>2 DEF ExecuteOnly
  <2>3. ASSUME NEW m \in Months, NEW status, LoadDocument(w, d, m, status) PROVE Worth'
    BY <1>3, <2>3 DEF LoadDocument
  <2> QED
    BY <1>10, <2>1, <2>2, <2>3 DEF DocumentStep
<1>11. ASSUME NEW w \in Threads, NEW m \in Months, PeriodStep(w, m) PROVE Worth'
  <2>1. CASE DestroyPeriod(w, m)
    BY <1>7, <2>1
  <2>2. ASSUME NEW status, NEW to, LoadPeriod(w, m, status, to) PROVE Worth'
    BY <1>3, <2>2 DEF LoadPeriod
  <2>3. ASSUME ClosePeriod(w, m) \/ OpenPeriod(w, m) \/ \E status : CreatePeriod(w, m, status)
        PROVE  Worth'
    BY <1>1, <2>3 DEF ClosePeriod, OpenPeriod, CreatePeriod
  <2> QED
    BY <1>11, <2>1, <2>2, <2>3 DEF PeriodStep
<1>12. ASSUME NEW w \in Threads, SubjectStep(w) PROVE Worth'
  BY <1>1, <1>12 DEF SubjectStep, DestroySubject, EnableSubject, InitSubjects
<1>13. CASE UNCHANGED postingVars
  BY <1>1, <1>13 DEF postingVars
<1> QED
  BY <1>8, <1>9, <1>10, <1>11, <1>12, <1>13 DEF PostingNext

\* A step is a voucher in the ledger, or the ledger does not move.
LEMMA StepsOfTheLedger == Worth /\ [PostingNext]_postingVars => [Accounts!Next]_balance
<1> SUFFICES ASSUME Worth, [PostingNext]_postingVars, balance' # balance PROVE Accounts!Next
  OBVIOUS
<1>1. PICK w \in Threads : PostVoucher(w)
  BY ZenonT(60) DEF PostingNext, postingVars, books, PassMonth, Serve, EnsureOpen, Refuse, SaveDocument,
     SavePeriod, Fail, DocumentStep, LoadDocument, ExecuteOnly, Execute, PeriodStep, ClosePeriod,
     OpenPeriod, LoadPeriod, CreatePeriod, DestroyPeriod, SubjectStep, DestroySubject, EnableSubject,
     InitSubjects
<1> DEFINE d == job[w].document
<1>2. d \in Documents /\ Amount[d] > 0
  BY <1>1 DEF PostVoucher, Worth, Executing, Request
<1>3. Amount[d] \in {Amount[e] : e \in Documents} \ {0}
  BY <1>2, PostingAssumption
<1>4. EventOf[d] \in {EventOf[e] : e \in Documents}
  BY <1>2
<1>5. balance' = Accounts!Entered(balance, EventOf[d], Amount[d])
  BY <1>1 DEF PostVoucher
<1> QED BY <1>3, <1>4, <1>5 DEF Accounts!Next

\* Posting implements the general ledger: the balances are those of the vouchers.
THEOREM ImplementsTheLedger == PostingSpec => BooksKept
<1>1. PostingInit => Accounts!Init /\ Worth
  BY DEF PostingInit, Accounts!Init, Worth, Executing, Request, Idle
<1> QED BY <1>1, PostingTypesHold, NextWorth, StepsOfTheLedger, PTL DEF PostingSpec, BooksKept, Accounts!Spec
=============================================================================
