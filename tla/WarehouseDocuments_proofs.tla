--------------------- MODULE WarehouseDocuments_proofs ---------------------
(***************************************************************************)
(* Theorems about WarehouseDocuments, for any warehouses, users, workers   *)
(* and any number of transfers, stocktakes and lines.                      *)
(*                                                                         *)
(* What the posting of a stocktake comes to is first: the fold over its    *)
(* lines has a closed form.  Then the types, what a step does to the       *)
(* stock and to the columns of the documents, and what the requests that   *)
(* are served alone know.                                                  *)
(***************************************************************************)
EXTENDS WarehouseDocuments, SequenceTheorems, TableTheorems

\* The sums of the three modules are the same operator.
LEMMA SameSums == \A f : T!SumFunction(f) = SumFunction(f) /\ S!SumFunction(f) = SumFunction(f)
  BY DEF T!SumFunction, T!SumFunctionOnSet, T!FoldFunctionOnSet, T!MapThenFoldSet,
         S!SumFunction, S!SumFunctionOnSet, S!FoldFunctionOnSet, S!MapThenFoldSet,
         SumFunction, SumFunctionOnSet, FoldFunctionOnSet, MapThenFoldSet

-----------------------------------------------------------------------------
(* The posting of a stocktake. *)

Line == S!CountLines

\* What each line found.
Found(lines) == [i \in DOMAIN lines |-> lines[i].actual - lines[i].system]

\* The largest of a set, as the fold takes it.
Latest(s) == CHOOSE x \in s : \A y \in s : x >= y

\* The definition the community modules make within LET, by name.
OnePosted(lines, base, s, g) ==
  IF s = {} THEN base ELSE S!PostLine(g[s \ {Latest(s)}], lines[Latest(s)])

IsPosting(lines, base, g) ==
  g = [s \in SUBSET DOMAIN lines |-> OnePosted(lines, base, s, g)]

Posting(lines, base) == CHOOSE g : IsPosting(lines, base, g)

\* The posting as the community modules define it.
LEMMA PostedIs ==
  \A lines, pos :
    S!Posted(lines, pos) = Posting(lines, [pos |-> pos, ok |-> TRUE])[DOMAIN lines]
  BY DEF S!Posted, S!FoldLeft, S!MapThenFoldSet, S!Max, Posting, IsPosting, OnePosted, Latest

\* The position after the lines of s were posted, if none is refused.
After(lines, pos, s) ==
  [exists  |-> IF \E i \in s : Found(lines)[i] # 0 THEN TRUE ELSE pos.exists,
   current |-> pos.current + SumFunctionOnSet(Found(lines), s),
   locked  |-> pos.locked,
   log     |-> pos.log]

Before(s, i) == {j \in s : j < i}

Taken(lines, pos, s) ==
  \A i \in s : Found(lines)[i] # 0 =>
    S!Accepts([kind |-> "change", qty |-> Found(lines)[i]], After(lines, pos, Before(s, i)))

Closed(lines, pos, s) == [pos |-> After(lines, pos, s), ok |-> Taken(lines, pos, s)]

\* The latest of a set of row numbers.
LEMMA LatestOf ==
  ASSUME NEW s, AreNumbers(s), IsFiniteSet(s), s # {}
  PROVE  Latest(s) \in s /\ \A y \in s : y <= Latest(s)
  <1>1. PICK x \in s : \A y \in s : y <= x
    BY LargestOf
  <1>2. \A y \in s : x >= y
    BY <1>1 DEF AreNumbers
  <1>3. Latest(s) \in s /\ \A y \in s : Latest(s) >= y
    BY <1>1, <1>2 DEF Latest
  <1> QED
    BY <1>3 DEF AreNumbers

\* The differences of lines are integers, one for each line.
LEMMA FoundType ==
  ASSUME NEW lines \in Seq(Line)
  PROVE  /\ IsFiniteSet(DOMAIN lines) /\ AreNumbers(DOMAIN lines)
         /\ Found(lines) \in [DOMAIN lines -> Int]
         /\ \A i \in DOMAIN lines : S!Difference(lines[i]) = Found(lines)[i]
         /\ \A i \in DOMAIN lines : lines[i].actual \in Int /\ lines[i].system \in Int
  <1>1. \A i \in DOMAIN lines : lines[i] \in Line
    OBVIOUS
  <1>2. \A i \in DOMAIN lines : lines[i].actual \in Int /\ lines[i].system \in Int
    BY <1>1 DEF Line, S!CountLines
  <1> QED
    BY <1>2, RowNumbers DEF Found, S!Difference, AreNumbers

\* The position after some lines, column by column.
LEMMA AfterType ==
  ASSUME NEW lines \in Seq(Line), NEW pos \in Positions, NEW s \in SUBSET DOMAIN lines
  PROVE  /\ SumFunctionOnSet(Found(lines), s) \in Int
         /\ After(lines, pos, s) \in Positions
  <1>1. IsFiniteSet(s) /\ \A i \in s : Found(lines)[i] \in Int
    BY FoundType, FS_Subset
  <1>2. SumFunctionOnSet(Found(lines), s) \in Int
    BY <1>1, OnSetType
  <1>3. PICK e : e = IF \E i \in s : Found(lines)[i] # 0 THEN TRUE ELSE pos.exists
    OBVIOUS
  <1>4. PICK c : c = pos.current + SumFunctionOnSet(Found(lines), s)
    OBVIOUS
  <1>5. e \in BOOLEAN /\ c \in Int /\ pos.locked \in Int /\ pos.log \in Seq(Movements)
    <2>1. pos.exists \in BOOLEAN /\ pos.current \in Int /\ pos.locked \in Int
          /\ pos.log \in Seq(Movements)
      BY DEF Positions
    <2>2. e \in BOOLEAN
      BY <1>3, <2>1
    <2>3. c \in Int
      BY <1>2, <1>4, <2>1
    <2> QED
      BY <2>1, <2>2, <2>3
  <1>6. After(lines, pos, s) = [exists |-> e, current |-> c, locked |-> pos.locked,
                                log |-> pos.log]
    BY <1>3, <1>4 DEF After
  <1> QED
    BY <1>2, <1>5, <1>6 DEF Positions

\* What change_stock makes of a row, column by column.
LEMMA ChangeRecord ==
  ASSUME NEW p \in Positions, NEW q \in Int
  PROVE  S!ChangeStock(p, q) =
           [exists |-> TRUE, current |-> p.current + q, locked |-> p.locked, log |-> p.log]
  <1>1. PICK c : c = p.current + q
    OBVIOUS
  <1>2. S!ChangeStock(p, q) = [p EXCEPT !.exists = TRUE, !.current = c]
    BY <1>1 DEF S!ChangeStock
  <1>3. PICK log : log = Seq(Movements)
    OBVIOUS
  <1>4. p \in [exists : BOOLEAN, current : Int, locked : Int, log : log]
    BY <1>3 DEF Positions
  <1>5. [p EXCEPT !.exists = TRUE, !.current = c] =
          [exists |-> TRUE, current |-> c, locked |-> p.locked, log |-> p.log]
    <2>1. PICK z : z = [p EXCEPT !.exists = TRUE, !.current = c]
      OBVIOUS
    <2>2. c \in Int
      BY <1>1 DEF Positions
    <2>3. /\ z \in [exists : BOOLEAN, current : Int, locked : Int, log : log]
          /\ z.exists = TRUE /\ z.current = c /\ z.locked = p.locked /\ z.log = p.log
      BY <1>4, <2>1, <2>2
    <2>4. z = [exists |-> z.exists, current |-> z.current, locked |-> z.locked, log |-> z.log]
      BY <2>3
    <2> QED
      BY <2>1, <2>3, <2>4
  <1> QED
    BY <1>1, <1>2, <1>5

\* One line more is posted.
LEMMA AfterOne ==
  ASSUME NEW lines \in Seq(Line), NEW pos \in Positions,
         NEW s \in SUBSET DOMAIN lines, NEW x \in s
  PROVE  After(lines, pos, s) =
           IF Found(lines)[x] = 0 THEN After(lines, pos, s \ {x})
           ELSE S!ChangeStock(After(lines, pos, s \ {x}), Found(lines)[x])
  <1> DEFINE f == Found(lines)
             a == SumFunctionOnSet(f, s)
             b == SumFunctionOnSet(f, s \ {x})
  <1>1. IsFiniteSet(s) /\ IsFiniteSet(s \ {x}) /\ \A i \in s : f[i] \in Int
    BY FoundType, FS_Subset
  <1>2. a = f[x] + b /\ b \in Int
    BY <1>1, OnSetAnyFirst, OnSetType
  <1>3. pos.current \in Int
    BY DEF Positions
  <1>4. f[x] = 0 => ((\E i \in s : f[i] # 0) <=> (\E i \in s \ {x} : f[i] # 0))
    OBVIOUS
  <1>5. f[x] \in Int
    BY <1>1
  <1> HIDE DEF f, a, b
  <1>6. pos.current + a = (pos.current + b) + f[x]
    BY <1>2, <1>3, <1>5
  <1>7. f[x] = 0 => pos.current + a = pos.current + b
    BY <1>2, <1>3, <1>5
  <1>8. After(lines, pos, s) =
          [exists |-> IF \E i \in s : f[i] # 0 THEN TRUE ELSE pos.exists,
           current |-> pos.current + a, locked |-> pos.locked, log |-> pos.log]
    BY DEF After, f, a
  <1>9. After(lines, pos, s \ {x}) =
          [exists |-> IF \E i \in s \ {x} : f[i] # 0 THEN TRUE ELSE pos.exists,
           current |-> pos.current + b, locked |-> pos.locked, log |-> pos.log]
    BY DEF After, f, b
  <1>10. CASE f[x] = 0
    BY <1>4, <1>7, <1>8, <1>9, <1>10 DEF f
  <1>11. CASE f[x] # 0
    <2>1. After(lines, pos, s) =
            [exists |-> TRUE, current |-> pos.current + a, locked |-> pos.locked, log |-> pos.log]
      BY <1>8, <1>11
    <2>2. S!ChangeStock(After(lines, pos, s \ {x}), f[x]) =
            [exists |-> TRUE, current |-> (pos.current + b) + f[x],
             locked |-> pos.locked, log |-> pos.log]
      <3>1. PICK p : p = After(lines, pos, s \ {x})
        OBVIOUS
      <3>2. p \in Positions
        BY <3>1, AfterType
      <3>3. S!ChangeStock(p, f[x]) =
              [exists |-> TRUE, current |-> p.current + f[x], locked |-> p.locked, log |-> p.log]
        BY <1>5, <3>2, ChangeRecord
      <3>4. p.current = pos.current + b /\ p.locked = pos.locked /\ p.log = pos.log
        BY <1>9, <3>1
      <3> QED
        BY <3>1, <3>3, <3>4
    <2> QED
      BY <1>6, <1>11, <2>1, <2>2 DEF f
  <1> QED
    BY <1>10, <1>11

\* No line posted leaves the position.
LEMMA AfterNone ==
  ASSUME NEW lines \in Seq(Line), NEW pos \in Positions
  PROVE  After(lines, pos, {}) = pos
  <1>1. SumFunctionOnSet(Found(lines), {}) = 0
    BY FS_EmptySet, OnSetFirst
  <1>2. pos.current + 0 = pos.current
    BY DEF Positions
  <1>3. After(lines, pos, {}) = [exists |-> pos.exists, current |-> pos.current,
                                 locked |-> pos.locked, log |-> pos.log]
    BY <1>1, <1>2 DEF After
  <1> QED
    BY <1>3 DEF Positions

\* What a line makes of what was posted before it.
LEMMA PostRecord ==
  \A p, k, line, d :
    S!Difference(line) = d /\ d # 0 =>
      S!PostLine([pos |-> p, ok |-> k], line) =
        [pos |-> S!ChangeStock(p, d), ok |-> k /\ S!Accepts([kind |-> "change", qty |-> d], p)]
  BY DEF S!PostLine

\* The closed form is what posting the lines one after another comes to.
LEMMA ClosedIsPosting ==
  ASSUME NEW lines \in Seq(Line), NEW pos \in Positions
  PROVE  IsPosting(lines, [pos |-> pos, ok |-> TRUE],
                   [s \in SUBSET DOMAIN lines |-> Closed(lines, pos, s)])
  <1> DEFINE base == [pos |-> pos, ok |-> TRUE]
             g == [s \in SUBSET DOMAIN lines |-> Closed(lines, pos, s)]
             f == Found(lines)
  <1>1. ASSUME NEW s \in SUBSET DOMAIN lines
        PROVE  Closed(lines, pos, s) = OnePosted(lines, base, s, g)
    <2>1. CASE s = {}
      <3>1. Taken(lines, pos, {}) = TRUE
        BY DEF Taken
      <3>2. After(lines, pos, {}) = pos
        BY AfterNone
      <3> QED
        BY <2>1, <3>1, <3>2 DEF Closed, OnePosted
    <2>2. CASE s # {}
      <3> DEFINE x == Latest(s)
                 u == s \ {x}
      <3>1. IsFiniteSet(s) /\ AreNumbers(s)
        BY FoundType, FS_Subset DEF AreNumbers
      <3>2. x \in s /\ \A y \in s : y <= x
        BY <2>2, <3>1, LatestOf
      <3> HIDE DEF x
      <3>3. g[u] = [pos |-> After(lines, pos, u), ok |-> Taken(lines, pos, u)]
        BY DEF Closed
      <3>4. Before(s, x) = u
        BY <3>1, <3>2 DEF Before, AreNumbers
      <3>5. \A i \in u : Before(u, i) = Before(s, i)
        BY <3>1, <3>2 DEF Before, AreNumbers
      <3> DEFINE call(i) == [kind |-> "change", qty |-> f[i]]
                 taken == S!Accepts(call(x), After(lines, pos, u))
      <3>6. Taken(lines, pos, s) <=> Taken(lines, pos, u) /\ (f[x] # 0 => taken)
        <4> DEFINE P(v, i) == f[i] # 0 => S!Accepts(call(i), After(lines, pos, Before(v, i)))
        <4>1. Taken(lines, pos, s) <=> \A i \in s : P(s, i)
          BY DEF Taken
        <4>2. Taken(lines, pos, u) <=> \A i \in u : P(u, i)
          BY DEF Taken
        <4>3. P(s, x) <=> (f[x] # 0 => taken)
          BY <3>4
        <4>4. \A i \in u : P(s, i) <=> P(u, i)
          BY <3>5
        <4>5. \A i : i \in s <=> i \in u \/ i = x
          BY <3>2
        <4> HIDE DEF P, taken, u
        <4>6. (\A i \in s : P(s, i)) <=> P(s, x) /\ \A i \in u : P(s, i)
          BY <4>5
        <4>7. (\A i \in u : P(s, i)) <=> \A i \in u : P(u, i)
          BY <4>4
        <4> QED
          BY <4>1, <4>2, <4>3, <4>6, <4>7
      <3>7. S!Difference(lines[x]) = f[x]
        BY <3>2, FoundType
      <3>8. CASE f[x] = 0
        <4>1. S!PostLine(g[u], lines[x]) = g[u]
          BY <3>7, <3>8 DEF S!PostLine
        <4>2. After(lines, pos, s) = After(lines, pos, u)
          BY <3>2, <3>8, AfterOne
        <4>3. Taken(lines, pos, s) = Taken(lines, pos, u)
          BY <3>6, <3>8 DEF Taken
        <4> QED
          BY <2>2, <3>3, <4>1, <4>2, <4>3 DEF Closed, OnePosted, x
      <3>9. CASE f[x] # 0
        <4>1. S!PostLine(g[u], lines[x]) =
                [pos |-> S!ChangeStock(After(lines, pos, u), f[x]),
                 ok  |-> Taken(lines, pos, u) /\ taken]
          BY <3>3, <3>7, <3>9, PostRecord
        <4>2. After(lines, pos, s) = S!ChangeStock(After(lines, pos, u), f[x])
          BY <3>2, <3>9, AfterOne
        <4>3. Taken(lines, pos, s) <=> Taken(lines, pos, u) /\ taken
          BY <3>6, <3>9
        <4>4. Taken(lines, pos, s) \in BOOLEAN /\ (Taken(lines, pos, u) /\ taken) \in BOOLEAN
          BY DEF Taken
        <4>5. Taken(lines, pos, s) = (Taken(lines, pos, u) /\ taken)
          BY <4>3, <4>4
        <4> QED
          BY <2>2, <4>1, <4>2, <4>5 DEF Closed, OnePosted, x
      <3> QED
        BY <3>8, <3>9
    <2> QED
      BY <2>1, <2>2
  <1>2. g = [s \in SUBSET DOMAIN lines |-> OnePosted(lines, base, s, g)]
    BY <1>1
  <1> QED
    BY <1>2 DEF IsPosting

\* What satisfies the equation of the posting is the closed form.
LEMMA PostingIsClosed ==
  ASSUME NEW lines \in Seq(Line), NEW pos \in Positions, NEW base,
         base = [pos |-> pos, ok |-> TRUE],
         NEW g, IsPosting(lines, base, g), NEW h, IsPosting(lines, base, h)
  PROVE  \A s \in SUBSET DOMAIN lines : g[s] = h[s]
  <1> DEFINE C == {s \in SUBSET DOMAIN lines : g[s] # h[s]}
  <1>1. SUFFICES ASSUME C # {} PROVE FALSE
    OBVIOUS
  <1>2. PICK t \in C : \A u \in C : ~ (u \subseteq t /\ u # t)
    <2>1. C \subseteq SUBSET DOMAIN lines /\ IsFiniteSet(DOMAIN lines)
      BY FoundType
    <2> HIDE DEF C
    <2> QED
      BY <1>1, <2>1, LeastSet
  <1>3. g[t] = OnePosted(lines, base, t, g) /\ h[t] = OnePosted(lines, base, t, h)
    BY <1>2 DEF IsPosting
  <1>4. t # {}
    BY <1>2, <1>3 DEF OnePosted
  <1>5. IsFiniteSet(t) /\ AreNumbers(t)
    BY <1>2, FoundType, FS_Subset DEF AreNumbers
  <1>6. Latest(t) \in t
    BY <1>4, <1>5, LatestOf
  <1>7. g[t \ {Latest(t)}] = h[t \ {Latest(t)}]
    BY <1>2, <1>6
  <1> QED
    BY <1>2, <1>3, <1>4, <1>7 DEF OnePosted

\* What a stocktake of these lines makes of a position.
LEMMA PostedLines ==
  ASSUME NEW lines \in Seq(Line), NEW pos \in Positions
  PROVE  /\ S!Posted(lines, pos).pos \in Positions
         /\ SumFunction(Found(lines)) \in Int
         /\ S!Posted(lines, pos).pos.current = pos.current + SumFunction(Found(lines))
  <1> DEFINE base == [pos |-> pos, ok |-> TRUE]
             closed == [s \in SUBSET DOMAIN lines |-> Closed(lines, pos, s)]
             p == Posting(lines, base)
             d == DOMAIN lines
  <1>1. IsPosting(lines, base, closed)
    BY ClosedIsPosting
  <1>2. IsPosting(lines, base, p)
    BY <1>1 DEF Posting
  <1>3. p[d] = closed[d]
    <2> HIDE DEF p, closed
    <2> QED
      BY <1>1, <1>2, PostingIsClosed
  <1>4. S!Posted(lines, pos).pos = After(lines, pos, d)
    BY <1>3, PostedIs DEF Closed
  <1>5. DOMAIN Found(lines) = d /\ SumFunctionOnSet(Found(lines), d) = SumFunction(Found(lines))
    BY FoundType DEF SumFunction
  <1>6. SumFunction(Found(lines)) \in Int
    BY FoundType, SumType
  <1>7. /\ After(lines, pos, d) \in Positions
        /\ After(lines, pos, d).current = pos.current + SumFunction(Found(lines))
    BY <1>5, AfterType DEF After
  <1> QED
    BY <1>4, <1>6, <1>7

-----------------------------------------------------------------------------
(* What is always so of the transfers. *)

Carriage == T!TransferRows

CarrierJob == [kind : {"idle", "update", "submit", "approve"}, number : Nat,
               row : Carriage \cup {T!Blank}]

\* What is known of a request under way: what it loaded had the status its method expects.
Carries(w) ==
  /\ carrying[w].kind = "idle" <=> carrying[w] = T!Idle
  /\ carrying[w].kind # "idle" => /\ carrying[w].number \in DOMAIN transfers
                                  /\ carrying[w].row \in Carriage
                                  /\ carrying[w].row.status = T!Expected[carrying[w].kind]

\* Where transfers do not overlap, what was loaded is still so.
CarriesAlone ==
  /\ \A w \in Carriers \ {Carrier} : carrying[w] = T!Idle
  /\ carrying[Carrier].kind # "idle" =>
       transfers[carrying[Carrier].number] = carrying[Carrier].row

Transferring ==
  /\ transfers \in Seq(Carriage)
  /\ carrying \in [Carriers -> CarrierJob]
  /\ \A w \in Carriers : Carries(w)
  /\ ~ overlapping => CarriesAlone

Stocked == stock \in [Warehouses -> Positions] /\ overlapping \in BOOLEAN

\* The worker named in the assumption serves transfers.
LEMMA CarrierIsOne == Carrier \in Carriers
  BY InitialAssumption DEF Carrier

\* The fields of a transfer.
LEMMA CarriageFields ==
  ASSUME NEW t \in Carriage
  PROVE  /\ t.status \in T!TransferStatus
         /\ t.from \in Warehouses /\ t.to \in Warehouses
         /\ t.qty \in Quantities /\ t.qty \in Nat
         /\ t.creator \in Users /\ t.submitter \in Users \cup {NoUser}
         /\ t.approver \in Users \cup {NoUser} /\ t.starter \in Users \cup {NoUser}
         /\ t.receiver \in Users \cup {NoUser} /\ t.deleted \in BOOLEAN
  BY DocumentsAssumption DEF Carriage, T!TransferRows, T!TransfersAssumption

\* Of a transfer, what arrived in warehouse x, what has left it, and what is under way.
Arrived(t, x)  == IF t.to = x /\ t.status = "COMPLETED" THEN t.qty ELSE 0
Departed(t, x) == IF t.from = x /\ t.status \in {"IN_TRANSIT", "COMPLETED"} THEN t.qty ELSE 0
UnderWay(t)    == IF t.status = "IN_TRANSIT" THEN t.qty ELSE 0

\* By how much warehouse x differs where only r moves, by d.
Move(x, r, d) == IF x = r THEN d ELSE 0

\* Only warehouse r moves, by d.
Moved(r, d) ==
  /\ r \in Warehouses /\ d \in Int
  /\ stock' \in [Warehouses -> Positions]
  /\ \A x \in Warehouses : stock'[x].current = stock[x].current + Move(x, r, d)

\* Transfer n is saved as t.
Stored(n, t) ==
  n \in DOMAIN transfers /\ t \in Carriage /\ transfers' = [transfers EXCEPT ![n] = t]

\* The row tells what moved.
Truthful(n, t, r, d) ==
  \A x \in Warehouses :
    (Arrived(t, x) - Departed(t, x)) - (Arrived(transfers[n], x) - Departed(transfers[n], x))
      = Move(x, r, d)

\* What a step about transfers does: a draft is made, nothing is saved, or one
\* row is; what then comes in was under way, and where transfers do not overlap
\* the row tells it.
CarrierEffect ==
  \/ /\ \E t \in Carriage : t.status = "DRAFT" /\ transfers' = Append(transfers, t)
     /\ stock' = stock
  \/ transfers' = transfers /\ stock' = stock
  \/ \E n \in DOMAIN transfers, t \in Carriage, r \in Warehouses, d \in Int :
       /\ Stored(n, t) /\ Moved(r, d)
       /\ d + UnderWay(t) <= UnderWay(transfers[n])
       /\ ~ overlapping => Truthful(n, t, r, d)

\* Where the stock is not written nothing moves.
LEMMA StandsStill ==
  ASSUME Stocked, stock' = stock, NEW r \in Warehouses
  PROVE  Moved(r, 0)
  <1>1. \A x \in Warehouses : stock[x].current \in Int
    BY DEF Stocked, Positions
  <1> QED
    BY <1>1 DEF Stocked, Moved, Move

\* change_stock of one warehouse.
LEMMA ChangeMoves ==
  ASSUME Stocked, NEW r \in Warehouses, NEW q \in Int, NEW p,
         p = S!ChangeStock(stock[r], q), stock' = [stock EXCEPT ![r] = p]
  PROVE  Moved(r, q)
  <1>1. stock[r] \in Positions
    BY DEF Stocked
  <1>2. p = [exists |-> TRUE, current |-> stock[r].current + q,
             locked |-> stock[r].locked, log |-> stock[r].log]
    BY <1>1, ChangeRecord
  <1>3. stock[r].current \in Int /\ stock[r].locked \in Int /\ stock[r].log \in Seq(Movements)
    BY <1>1 DEF Positions
  <1>4. p \in Positions /\ p.current = stock[r].current + q
    BY <1>2, <1>3 DEF Positions
  <1>5. \A x \in Warehouses : stock[x].current \in Int
    BY DEF Stocked, Positions
  <1> QED
    BY <1>4, <1>5 DEF Moved, Move, Stocked

\* A transfer's movement of a warehouse.
LEMMA TransferMoves ==
  ASSUME Stocked, NEW r \in Warehouses, NEW q \in Int, T!Moves(r, q)
  PROVE  Moved(r, q)
  <1>1. PICK p : p = S!ChangeStock(stock[r], q)
    OBVIOUS
  <1>2. T!ChangeStock(stock[r], q) = p
    BY <1>1 DEF T!ChangeStock, S!ChangeStock
  <1>3. stock' = [stock EXCEPT ![r] = T!ChangeStock(stock[r], q)]
    BY DEF T!Moves
  <1> QED
    BY <1>1, <1>2, <1>3, ChangeMoves

-----------------------------------------------------------------------------
(* The steps of transfers. *)

\* The worker may take the step.
Served(w) == w \in Carriers /\ (overlapping \/ w = Carrier)

\* An idle carrier's job, and the statuses the requests expect.
LEMMA IdleCarrier ==
  /\ T!Idle \in CarrierJob /\ T!Idle.kind = "idle"
  /\ DOMAIN T!Expected = {"update", "submit", "approve"}
  /\ T!Expected["update"] = "DRAFT" /\ T!Expected["submit"] = "DRAFT"
  /\ T!Expected["approve"] = "PENDING_APPROVAL"
  BY DEF T!Idle, CarrierJob, T!Expected

\* The fields of a new transfer.
LEMMA BlankFields ==
  /\ DOMAIN T!Blank = {"status", "from", "to", "qty", "creator", "submitter", "approver",
                       "starter", "receiver", "deleted"}
  /\ T!Blank.status = "DRAFT" /\ T!Blank.submitter = NoUser /\ T!Blank.approver = NoUser
  /\ T!Blank.starter = NoUser /\ T!Blank.receiver = NoUser /\ T!Blank.deleted = FALSE
  BY DEF T!Blank

\* The rows are as many or more, and a job ends or is as it was.
LEMMA CarriersRest ==
  ASSUME Transferring, NEW w \in Carriers, Served(w), UNCHANGED overlapping,
         transfers' \in Seq(Carriage), DOMAIN transfers \subseteq DOMAIN transfers',
         carrying' = carrying \/ T!Done(w),
         carrying' = carrying /\ carrying[w] # T!Idle => transfers' = transfers
  PROVE  Transferring'
  <1>1. \A v \in Carriers : carrying'[v] = carrying[v] \/ carrying'[v] = T!Idle
    BY DEF T!Done, Transferring
  <1>2. carrying' \in [Carriers -> CarrierJob]
    BY IdleCarrier DEF T!Done, Transferring
  <1>3. \A v \in Carriers : Carries(v)'
    BY <1>1, IdleCarrier DEF Transferring, Carries
  <1>4. ~ overlapping => CarriesAlone'
    <2> SUFFICES ASSUME ~ overlapping PROVE CarriesAlone'
      OBVIOUS
    <2>1. w = Carrier
      BY DEF Served
    <2>2. \A v \in Carriers \ {Carrier} : carrying'[v] = T!Idle
      BY <1>1 DEF Transferring, CarriesAlone
    <2>3. carrying'[Carrier].kind # "idle" =>
            transfers'[carrying'[Carrier].number] = carrying'[Carrier].row
      <3> SUFFICES ASSUME carrying'[w].kind # "idle" PROVE transfers' = transfers /\ carrying' = carrying
        BY <2>1 DEF Transferring, CarriesAlone
      <3>1. carrying' = carrying
        BY IdleCarrier DEF T!Done, Transferring
      <3>2. carrying[w] # T!Idle
        BY <3>1, IdleCarrier
      <3> QED
        BY <3>1, <3>2
    <2> QED
      BY <2>2, <2>3 DEF CarriesAlone, Carrier
  <1> QED
    BY <1>2, <1>3, <1>4 DEF Transferring

\* A row is saved by a request that ends with it.
LEMMA StoredRests ==
  ASSUME Transferring, NEW w \in Carriers, Served(w), UNCHANGED overlapping,
         NEW n, NEW t, Stored(n, t),
         (carrying' = carrying /\ carrying[w] = T!Idle) \/ T!Done(w)
  PROVE  Transferring'
  <1>1. transfers' \in Seq(Carriage) /\ DOMAIN transfers' = DOMAIN transfers
    <2>1. transfers' \in [DOMAIN transfers -> Carriage]
      BY RowNumbers DEF Stored, Transferring
    <2> QED
      BY <2>1, RowsKept DEF Transferring
  <1>2. carrying' = carrying => carrying[w] = T!Idle
    BY DEF T!Done, Transferring
  <1>3. DOMAIN transfers \subseteq DOMAIN transfers' /\ (carrying' = carrying \/ T!Done(w))
    BY <1>1
  <1>4. carrying' = carrying /\ carrying[w] # T!Idle => transfers' = transfers
    BY <1>2
  <1> QED
    BY <1>1, <1>3, <1>4, CarriersRest

\* create_order: a draft that moves nothing.
LEMMA CreateStep ==
  ASSUME Transferring, Stocked, NEW w \in Carriers, Served(w), UNCHANGED overlapping,
         NEW u \in Users, NEW from \in Warehouses, NEW to \in Warehouses, NEW qty \in Quantities,
         T!CreateOrder(w, u, from, to, qty)
  PROVE  Transferring' /\ CarrierEffect
  <1>1. PICK t : t = [T!Blank EXCEPT !.from = from, !.to = to, !.qty = qty, !.creator = u]
    OBVIOUS
  <1>2. /\ transfers' = Append(transfers, t)
        /\ UNCHANGED <<stock, carrying>> /\ carrying[w] = T!Idle
    BY <1>1 DEF T!CreateOrder, T!MayStart
  <1>3. t = [status |-> "DRAFT", from |-> from, to |-> to, qty |-> qty, creator |-> u,
             submitter |-> NoUser, approver |-> NoUser, starter |-> NoUser,
             receiver |-> NoUser, deleted |-> FALSE]
    BY <1>1 DEF T!Blank
  <1>4. t \in Carriage /\ t.status = "DRAFT"
    BY <1>3 DEF Carriage, T!TransferRows, T!TransferStatus
  <1>5. transfers' \in Seq(Carriage) /\ DOMAIN transfers \subseteq DOMAIN transfers'
    BY <1>2, <1>4, RowMade DEF Transferring
  <1>6. Transferring'
    BY <1>2, <1>5, CarriersRest
  <1> QED
    BY <1>2, <1>4, <1>6 DEF CarrierEffect

\* get_object of a transfer.
LEMMA LoadStep ==
  ASSUME Transferring, Stocked, NEW w \in Carriers, Served(w), UNCHANGED overlapping,
         NEW n \in DOMAIN transfers, NEW kind \in DOMAIN T!Expected, T!LoadTransfer(w, kind, n)
  PROVE  Transferring' /\ CarrierEffect
  <1>1. PICK j : j = [kind |-> kind, number |-> n, row |-> transfers[n]]
    OBVIOUS
  <1>2. /\ carrying' = [carrying EXCEPT ![w] = j] /\ UNCHANGED <<transfers, stock>>
        /\ transfers[n].status = T!Expected[kind]
    BY <1>1 DEF T!LoadTransfer
  <1>3. transfers[n] \in Carriage /\ n \in Nat
    BY RowNumbers DEF Transferring
  <1>4. j \in CarrierJob /\ j.kind = kind /\ kind # "idle" /\ j.number = n /\ j.row = transfers[n]
    BY <1>1, <1>3, IdleCarrier DEF CarrierJob
  <1>5. carrying' \in [Carriers -> CarrierJob]
    BY <1>2, <1>4 DEF Transferring
  <1>6. /\ carrying'[w] = j
        /\ \A v \in Carriers \ {w} : carrying'[v] = carrying[v]
    BY <1>2 DEF Transferring
  <1>7. \A v \in Carriers : Carries(v)'
    <2> TAKE v \in Carriers
    <2>1. CASE v = w
      BY <1>2, <1>3, <1>4, <1>6, <2>1, IdleCarrier DEF Carries
    <2>2. CASE v # w
      BY <1>2, <1>6, <2>2 DEF Carries, Transferring
    <2> QED
      BY <2>1, <2>2
  <1>8. ~ overlapping => CarriesAlone'
    <2> SUFFICES ASSUME ~ overlapping PROVE CarriesAlone'
      OBVIOUS
    <2>1. w = Carrier
      BY DEF Served
    <2>2. \A v \in Carriers \ {Carrier} : carrying'[v] = T!Idle
      BY <1>6, <2>1 DEF Transferring, CarriesAlone
    <2>3. transfers'[carrying'[Carrier].number] = carrying'[Carrier].row
      BY <1>2, <1>4, <1>6, <2>1
    <2> QED
      BY <2>2, <2>3 DEF CarriesAlone, Carrier
  <1> QED
    BY <1>2, <1>5, <1>7, <1>8 DEF Transferring, CarrierEffect

\* A row that moves nothing and tells of nothing is saved over one that may.
LEMMA NothingMoves ==
  ASSUME Transferring, Stocked, UNCHANGED stock, NEW n \in DOMAIN transfers, NEW t \in Carriage,
         transfers' = [transfers EXCEPT ![n] = t],
         t.status \notin {"IN_TRANSIT", "COMPLETED"},
         ~ overlapping => transfers[n].status \notin {"IN_TRANSIT", "COMPLETED"}
  PROVE  CarrierEffect
  <1>1. PICK o : o = transfers[n]
    OBVIOUS
  <1>2. o \in Carriage
    BY <1>1, RowNumbers DEF Transferring
  <1>3. o.from \in Warehouses /\ o.qty \in Nat /\ t.qty \in Nat
    BY <1>2, CarriageFields
  <1>4. Stored(n, t) /\ Moved(o.from, 0)
    BY <1>3, StandsStill DEF Stored
  <1>5. UnderWay(t) = 0 /\ UnderWay(o) \in Nat
    BY <1>3 DEF UnderWay
  <1>6. ~ overlapping => Truthful(n, t, o.from, 0)
    BY <1>1 DEF Truthful, Arrived, Departed, Move
  <1>7. 0 + UnderWay(t) <= UnderWay(transfers[n])
    BY <1>1, <1>5
  <1>8. 0 \in Int
    OBVIOUS
  <1> QED
    BY <1>3, <1>4, <1>6, <1>7, <1>8 DEF CarrierEffect

\* What is known of the row a request is about to save.
LEMMA LoadedRow ==
  ASSUME Transferring, NEW w \in Carriers, Served(w), carrying[w].kind # "idle"
  PROVE  /\ carrying[w].number \in DOMAIN transfers
         /\ transfers[carrying[w].number] \in Carriage /\ carrying[w].row \in Carriage
         /\ carrying[w].row.status = T!Expected[carrying[w].kind]
         /\ ~ overlapping => transfers[carrying[w].number] = carrying[w].row
  BY RowNumbers DEF Transferring, Carries, CarriesAlone, Served

\* update_order writes the draft it loaded back.
LEMMA UpdateStep ==
  ASSUME Transferring, Stocked, NEW w \in Carriers, Served(w), UNCHANGED overlapping,
         NEW from \in Warehouses, NEW to \in Warehouses, NEW qty \in Quantities,
         T!UpdateOrder(w, from, to, qty)
  PROVE  Transferring' /\ CarrierEffect
  <1>1. PICK n : n = carrying[w].number
    OBVIOUS
  <1>2. PICK o : o = carrying[w].row
    OBVIOUS
  <1>3. PICK t : t = [o EXCEPT !.from = from, !.to = to, !.qty = qty]
    OBVIOUS
  <1>4. /\ carrying[w].kind = "update" /\ transfers' = [transfers EXCEPT ![n] = t]
        /\ T!Done(w) /\ UNCHANGED stock
    BY <1>1, <1>2, <1>3 DEF T!UpdateOrder
  <1>5. /\ n \in DOMAIN transfers /\ o \in Carriage /\ o.status = "DRAFT"
        /\ ~ overlapping => transfers[n] = o
    BY <1>1, <1>2, <1>4, LoadedRow, IdleCarrier
  <1>6. t \in Carriage /\ t.status = "DRAFT"
    BY <1>3, <1>5 DEF Carriage, T!TransferRows
  <1>7. Transferring'
    BY <1>4, <1>5, <1>6, StoredRests DEF Stored
  <1>8. CarrierEffect
    BY <1>4, <1>5, <1>6, NothingMoves
  <1> QED
    BY <1>7, <1>8

\* submit_order, on the strength of the status it loaded.
LEMMA SubmitStep ==
  ASSUME Transferring, Stocked, NEW w \in Carriers, Served(w), UNCHANGED overlapping,
         NEW u \in Users, NEW approval \in Approvals, T!SubmitOrder(w, u, approval)
  PROVE  Transferring' /\ CarrierEffect
  <1>1. PICK n : n = carrying[w].number
    OBVIOUS
  <1>2. PICK o : o = transfers[n]
    OBVIOUS
  <1>3. PICK s : s = IF approval THEN "PENDING_APPROVAL" ELSE "APPROVED"
    OBVIOUS
  <1>4. PICK a : a = IF approval THEN o.approver ELSE u
    OBVIOUS
  <1>5. PICK t : t = [o EXCEPT !.status = s, !.submitter = u, !.approver = a]
    OBVIOUS
  <1>6. /\ carrying[w].kind = "submit"
        /\ transfers' = [transfers EXCEPT ![n].status = s, ![n].submitter = u,
                           ![n].approver = IF approval THEN @ ELSE u]
        /\ T!Done(w) /\ UNCHANGED stock
    BY <1>1, <1>3 DEF T!SubmitOrder
  <1>7. /\ n \in DOMAIN transfers /\ o \in Carriage
        /\ ~ overlapping => o.status = "DRAFT"
    BY <1>1, <1>2, <1>6, LoadedRow, IdleCarrier
  <1>8. a \in Users \cup {NoUser} /\ s \in {"PENDING_APPROVAL", "APPROVED"}
    BY <1>3, <1>4, <1>7, CarriageFields
  <1>9. t \in Carriage /\ t.status = s
    BY <1>5, <1>7, <1>8 DEF Carriage, T!TransferRows, T!TransferStatus
  <1>10. transfers' = [transfers EXCEPT ![n] = t]
    BY <1>2, <1>4, <1>5, <1>6, <1>7
  <1>11. Transferring'
    BY <1>6, <1>7, <1>9, <1>10, StoredRests DEF Stored
  <1>12. CarrierEffect
    BY <1>2, <1>6, <1>7, <1>8, <1>9, <1>10, NothingMoves
  <1> QED
    BY <1>11, <1>12

\* approve_order, likewise.
LEMMA ApproveStep ==
  ASSUME Transferring, Stocked, NEW w \in Carriers, Served(w), UNCHANGED overlapping,
         NEW u \in Users, T!ApproveOrder(w, u)
  PROVE  Transferring' /\ CarrierEffect
  <1>1. PICK n : n = carrying[w].number
    OBVIOUS
  <1>2. PICK o : o = transfers[n]
    OBVIOUS
  <1>3. PICK t : t = [o EXCEPT !.status = "APPROVED", !.approver = u]
    OBVIOUS
  <1>4. /\ carrying[w].kind = "approve"
        /\ transfers' = [transfers EXCEPT ![n].status = "APPROVED", ![n].approver = u]
        /\ T!Done(w) /\ UNCHANGED stock
    BY <1>1 DEF T!ApproveOrder
  <1>5. /\ n \in DOMAIN transfers /\ o \in Carriage
        /\ ~ overlapping => o.status = "PENDING_APPROVAL"
    BY <1>1, <1>2, <1>4, LoadedRow, IdleCarrier
  <1>6. t \in Carriage /\ t.status = "APPROVED"
    BY <1>3, <1>5 DEF Carriage, T!TransferRows, T!TransferStatus
  <1>7. transfers' = [transfers EXCEPT ![n] = t]
    BY <1>2, <1>3, <1>4, <1>5
  <1>8. Transferring'
    BY <1>4, <1>5, <1>6, <1>7, StoredRests DEF Stored
  <1>9. CarrierEffect
    BY <1>2, <1>4, <1>5, <1>6, <1>7, NothingMoves
  <1> QED
    BY <1>8, <1>9

\* A step that is served on its own saves one row and tells what it moved.
LEMMA MovesAndTells ==
  ASSUME Transferring, Stocked, NEW w \in Carriers, Served(w), UNCHANGED <<overlapping, carrying>>,
         carrying[w] = T!Idle, NEW n \in DOMAIN transfers, NEW t \in Carriage,
         transfers' = [transfers EXCEPT ![n] = t],
         NEW r \in Warehouses, NEW d \in Int, Moved(r, d),
         d + UnderWay(t) <= UnderWay(transfers[n]), Truthful(n, t, r, d)
  PROVE  Transferring' /\ CarrierEffect
  <1>1. Stored(n, t)
    BY DEF Stored
  <1>2. Transferring'
    BY <1>1, StoredRests
  <1> QED
    BY <1>1, <1>2 DEF CarrierEffect

\* start_transfer takes the goods out of the one warehouse.
LEMMA StartStep ==
  ASSUME Transferring, Stocked, NEW w \in Carriers, Served(w), UNCHANGED overlapping,
         NEW n \in DOMAIN transfers, NEW u \in Users, T!StartTransfer(w, n, u)
  PROVE  Transferring' /\ CarrierEffect
  <1>1. PICK o : o = transfers[n]
    OBVIOUS
  <1>2. PICK t : t = [o EXCEPT !.status = "IN_TRANSIT", !.starter = u]
    OBVIOUS
  <1>3. PICK d : d = - o.qty
    OBVIOUS
  <1>4. /\ o.status = "APPROVED" /\ carrying[w] = T!Idle /\ UNCHANGED carrying
        /\ transfers' = [transfers EXCEPT ![n].status = "IN_TRANSIT", ![n].starter = u]
        /\ T!Moves(o.from, d)
    BY <1>1, <1>3 DEF T!StartTransfer, T!MayStart
  <1>5. o \in Carriage
    BY <1>1, RowNumbers DEF Transferring
  <1>6. o.from \in Warehouses /\ o.qty \in Nat
    BY <1>5, CarriageFields
  <1>7. /\ t \in Carriage /\ t.status = "IN_TRANSIT"
        /\ t.from = o.from /\ t.to = o.to /\ t.qty = o.qty
    BY <1>2, <1>5 DEF Carriage, T!TransferRows, T!TransferStatus
  <1>8. transfers' = [transfers EXCEPT ![n] = t]
    BY <1>1, <1>2, <1>4
  <1>9. d \in Int /\ Moved(o.from, d)
    BY <1>3, <1>4, <1>6, TransferMoves
  <1>10. d + UnderWay(t) <= UnderWay(o)
    BY <1>3, <1>4, <1>6, <1>7 DEF UnderWay
  <1>11. Truthful(n, t, o.from, d)
    BY <1>1, <1>3, <1>4, <1>6, <1>7 DEF Truthful, Arrived, Departed, Move
  <1> QED
    BY <1>1, <1>4, <1>6, <1>7, <1>8, <1>9, <1>10, <1>11, MovesAndTells

\* complete_transfer brings them into the other.
LEMMA CompleteStep ==
  ASSUME Transferring, Stocked, NEW w \in Carriers, Served(w), UNCHANGED overlapping,
         NEW n \in DOMAIN transfers, NEW u \in Users, T!CompleteTransfer(w, n, u)
  PROVE  Transferring' /\ CarrierEffect
  <1>1. PICK o : o = transfers[n]
    OBVIOUS
  <1>2. PICK t : t = [o EXCEPT !.status = "COMPLETED", !.receiver = u]
    OBVIOUS
  <1>3. /\ o.status = "IN_TRANSIT" /\ carrying[w] = T!Idle /\ UNCHANGED carrying
        /\ transfers' = [transfers EXCEPT ![n].status = "COMPLETED", ![n].receiver = u]
        /\ T!Moves(o.to, o.qty)
    BY <1>1 DEF T!CompleteTransfer, T!MayStart
  <1>4. o \in Carriage
    BY <1>1, RowNumbers DEF Transferring
  <1>5. o.to \in Warehouses /\ o.qty \in Nat
    BY <1>4, CarriageFields
  <1>6. /\ t \in Carriage /\ t.status = "COMPLETED"
        /\ t.from = o.from /\ t.to = o.to /\ t.qty = o.qty
    BY <1>2, <1>4 DEF Carriage, T!TransferRows, T!TransferStatus
  <1>7. transfers' = [transfers EXCEPT ![n] = t]
    BY <1>1, <1>2, <1>3
  <1>8. o.qty \in Int /\ Moved(o.to, o.qty)
    BY <1>3, <1>5, TransferMoves
  <1>9. o.qty + UnderWay(t) <= UnderWay(o)
    BY <1>3, <1>5, <1>6 DEF UnderWay
  <1>10. Truthful(n, t, o.to, o.qty)
    BY <1>1, <1>3, <1>5, <1>6 DEF Truthful, Arrived, Departed, Move
  <1> QED
    BY <1>1, <1>3, <1>5, <1>6, <1>7, <1>8, <1>9, <1>10, MovesAndTells

\* cancel_order brings goods under way back.
LEMMA CancelStep ==
  ASSUME Transferring, Stocked, NEW w \in Carriers, Served(w), UNCHANGED overlapping,
         NEW n \in DOMAIN transfers, T!CancelTransfer(w, n)
  PROVE  Transferring' /\ CarrierEffect
  <1>1. PICK o : o = transfers[n]
    OBVIOUS
  <1>2. PICK t : t = [o EXCEPT !.status = "CANCELLED"]
    OBVIOUS
  <1>3. PICK d : d = IF o.status = "IN_TRANSIT" THEN o.qty ELSE 0
    OBVIOUS
  <1>4. /\ o.status \in T!Cancellable /\ carrying[w] = T!Idle /\ UNCHANGED carrying
        /\ transfers' = [transfers EXCEPT ![n].status = "CANCELLED"]
        /\ o.status = "IN_TRANSIT" => T!Moves(o.from, o.qty)
        /\ o.status # "IN_TRANSIT" => UNCHANGED stock
    BY <1>1 DEF T!CancelTransfer, T!MayStart
  <1>5. o \in Carriage
    BY <1>1, RowNumbers DEF Transferring
  <1>6. o.from \in Warehouses /\ o.qty \in Nat /\ o.status # "COMPLETED"
    BY <1>4, <1>5, CarriageFields DEF T!Cancellable
  <1>7. /\ t \in Carriage /\ t.status = "CANCELLED"
        /\ t.from = o.from /\ t.to = o.to /\ t.qty = o.qty
    BY <1>2, <1>5 DEF Carriage, T!TransferRows, T!TransferStatus
  <1>8. transfers' = [transfers EXCEPT ![n] = t]
    BY <1>1, <1>2, <1>4
  <1>9. d \in Int /\ Moved(o.from, d)
    BY <1>3, <1>4, <1>6, TransferMoves, StandsStill
  <1>10. d + UnderWay(t) <= UnderWay(o)
    BY <1>3, <1>6, <1>7 DEF UnderWay
  <1>11. Truthful(n, t, o.from, d)
    BY <1>1, <1>3, <1>6, <1>7 DEF Truthful, Arrived, Departed, Move
  <1> QED
    BY <1>1, <1>4, <1>6, <1>7, <1>8, <1>9, <1>10, <1>11, MovesAndTells

\* A transfer is deleted: the row is marked, and nothing moves.
LEMMA DestroyStep ==
  ASSUME Transferring, Stocked, NEW w \in Carriers, Served(w), UNCHANGED overlapping,
         NEW n \in DOMAIN transfers, T!DestroyTransfer(w, n)
  PROVE  Transferring' /\ CarrierEffect
  <1>1. PICK o : o = transfers[n]
    OBVIOUS
  <1>2. PICK t : t = [o EXCEPT !.deleted = TRUE]
    OBVIOUS
  <1>3. /\ carrying[w] = T!Idle /\ UNCHANGED <<carrying, stock>>
        /\ transfers' = [transfers EXCEPT ![n].deleted = TRUE]
    BY <1>1 DEF T!DestroyTransfer, T!MayStart
  <1>4. o \in Carriage
    BY <1>1, RowNumbers DEF Transferring
  <1>5. o.from \in Warehouses /\ o.qty \in Nat
    BY <1>4, CarriageFields
  <1>6. /\ t \in Carriage /\ t.status = o.status
        /\ t.from = o.from /\ t.to = o.to /\ t.qty = o.qty
    BY <1>2, <1>4 DEF Carriage, T!TransferRows
  <1>7. transfers' = [transfers EXCEPT ![n] = t]
    BY <1>1, <1>2, <1>3
  <1>8. 0 \in Int /\ Moved(o.from, 0)
    BY <1>3, <1>5, StandsStill
  <1>9. 0 + UnderWay(t) <= UnderWay(o)
    BY <1>5, <1>6 DEF UnderWay
  <1>10. Truthful(n, t, o.from, 0)
    BY <1>1, <1>5, <1>6 DEF Truthful, Arrived, Departed, Move
  <1> QED
    BY <1>1, <1>3, <1>5, <1>6, <1>7, <1>8, <1>9, <1>10, MovesAndTells

\* Every step about a transfer saves one row and moves at most one warehouse.
LEMMA CarrierStep ==
  ASSUME Transferring, Stocked, NEW w \in Carriers, Served(w), UNCHANGED overlapping,
         T!TransferStep(w)
  PROVE  Transferring' /\ CarrierEffect
  <1>1. CASE T!Abort(w)
    <2>1. T!Done(w) /\ transfers' = transfers /\ stock' = stock /\ carrying[w] # T!Idle
      BY <1>1 DEF T!Abort
    <2>2. transfers' \in Seq(Carriage) /\ DOMAIN transfers \subseteq DOMAIN transfers'
      BY <2>1 DEF Transferring
    <2>3. Transferring'
      BY <2>1, <2>2, CarriersRest
    <2> QED
      BY <2>1, <2>3 DEF CarrierEffect
  <1>2. CASE \E from, to \in Warehouses, qty \in Quantities :
               \/ \E u \in Users : T!CreateOrder(w, u, from, to, qty)
               \/ T!UpdateOrder(w, from, to, qty)
    BY <1>2, CreateStep, UpdateStep
  <1>3. CASE \E u \in Users : \/ \E approval \in Approvals : T!SubmitOrder(w, u, approval)
                              \/ T!ApproveOrder(w, u)
    BY <1>3, SubmitStep, ApproveStep
  <1>4. CASE \E n \in DOMAIN transfers :
               \/ \E kind \in DOMAIN T!Expected : T!LoadTransfer(w, kind, n)
               \/ \E u \in Users : T!StartTransfer(w, n, u) \/ T!CompleteTransfer(w, n, u)
               \/ T!CancelTransfer(w, n)
               \/ T!DestroyTransfer(w, n)
    BY <1>4, LoadStep, StartStep, CompleteStep, CancelStep, DestroyStep
  <1> QED
    BY <1>1, <1>2, <1>3, <1>4 DEF T!TransferStep

-----------------------------------------------------------------------------
(* What transfers come to. *)

Arriving(x)  == [t \in Carriage |-> Arrived(t, x)]
Departing(x) == [t \in Carriage |-> Departed(t, x)]
Travelling   == [t \in Carriage |-> UnderWay(t)]

\* What warehouse x gained by transfers, what is in transit, what is in stock.
Gained(x)  == Column(transfers, Arriving(x)) - Column(transfers, Departing(x))
InTransit  == Column(transfers, Travelling)
TotalStock == SumFunction([r \in Warehouses |-> stock[r].current])

\* What transfers bring, take and have under way are columns.
LEMMA CarriageColumns ==
  /\ \A x : IsColumn(Arriving(x), Carriage) /\ IsColumn(Departing(x), Carriage)
  /\ IsColumn(Travelling, Carriage)
  /\ \A t \in Carriage : UnderWay(t) \in Nat
  <1>1. \A t \in Carriage : t.qty \in Nat
    BY CarriageFields
  <1> QED
    BY <1>1 DEF IsColumn, Arriving, Departing, Travelling, Arrived, Departed, UnderWay

\* What transfers moved into a warehouse is the difference of two columns.
LEMMA GainedIs ==
  ASSUME Transferring, NEW x
  PROVE  T!NetTransferred(x) = Gained(x)
  <1>1. \A n \in DOMAIN transfers : transfers[n] \in Carriage
    BY RowNumbers DEF Transferring
  <1>2. [n \in DOMAIN transfers |-> IF transfers[n].to = x THEN T!Carried(n, {"COMPLETED"}) ELSE 0]
          = [n \in DOMAIN transfers |-> Arriving(x)[transfers[n]]]
    BY <1>1 DEF T!Carried, Arriving, Arrived
  <1>3. [n \in DOMAIN transfers |->
           IF transfers[n].from = x THEN T!Carried(n, {"IN_TRANSIT", "COMPLETED"}) ELSE 0]
          = [n \in DOMAIN transfers |-> Departing(x)[transfers[n]]]
    BY <1>1 DEF T!Carried, Departing, Departed
  <1> QED
    BY <1>2, <1>3, SameSums DEF T!NetTransferred, T!In, T!Out, Gained, Column

\* They come to integers.
LEMMA GainedType ==
  ASSUME Transferring, NEW x
  PROVE  /\ Column(transfers, Arriving(x)) \in Int /\ Column(transfers, Departing(x)) \in Int
         /\ Gained(x) \in Int /\ InTransit \in Int
  <1>1. AreRows(transfers, Carriage)
    BY RowsOf DEF Transferring
  <1>2. /\ Column(transfers, Arriving(x)) \in Int /\ Column(transfers, Departing(x)) \in Int
        /\ Column(transfers, Travelling) \in Int
    BY <1>1, CarriageColumns, ColumnSums
  <1> QED
    BY <1>2 DEF Gained, InTransit

\* What has left the warehouses and not arrived, added up over them.
LEMMA InTransitIs ==
  ASSUME Transferring
  PROVE  /\ \A r \in Warehouses : T!Out(r, {"IN_TRANSIT"}) \in Int
         /\ SumFunction([r \in Warehouses |-> T!Out(r, {"IN_TRANSIT"})]) = InTransit
  <1> DEFINE D == DOMAIN transfers
  <1>1. IsFiniteSet(D) /\ \A n \in D : transfers[n] \in Carriage
    BY RowNumbers DEF Transferring
  <1>2. \A n \in D : transfers[n].from \in Warehouses /\ UnderWay(transfers[n]) \in Int
    BY <1>1, CarriageFields, CarriageColumns
  <1>3. PICK kind \in [D -> Warehouses] : \A n \in D : kind[n] = transfers[n].from
    <2>1. [n \in D |-> transfers[n].from] \in [D -> Warehouses]
      BY <1>2
    <2> QED
      BY <2>1
  <1>4. PICK q \in [D -> Int] : \A n \in D : q[n] = UnderWay(transfers[n])
    <2>1. [n \in D |-> UnderWay(transfers[n])] \in [D -> Int]
      BY <1>2
    <2> QED
      BY <2>1
  <1>5. ASSUME NEW r \in Warehouses
        PROVE  /\ T!Out(r, {"IN_TRANSIT"}) \in Int
               /\ T!Out(r, {"IN_TRANSIT"}) = SumFunction([k \in {k \in D : kind[k] = r} |-> q[k]])
    <2>1. PICK f : f = [n \in D |-> IF transfers[n].from = r THEN T!Carried(n, {"IN_TRANSIT"}) ELSE 0]
      OBVIOUS
    <2>2. PICK g : g = [k \in {k \in D : kind[k] = r} |-> q[k]]
      OBVIOUS
    <2> DEFINE U == {k \in D : kind[k] = r}
    <2>3. \A n \in D : f[n] = IF kind[n] = r THEN q[n] ELSE 0
      BY <1>3, <1>4, <2>1 DEF T!Carried, UnderWay
    <2>4. f \in [D -> Int] /\ g \in [U -> Int] /\ U \in SUBSET D
      BY <1>4, <2>1, <2>2, <2>3
    <2>5. (\A n \in U : f[n] = g[n]) /\ (\A n \in D \ U : f[n] = 0)
      BY <2>2, <2>3
    <2>6. SumFunction(f) = SumFunction(g)
      BY <1>1, <2>4, <2>5, TermsWithin
    <2>7. SumFunction(f) \in Int
      BY <1>1, <2>4, SumType
    <2>8. T!Out(r, {"IN_TRANSIT"}) = SumFunction(f)
      BY <2>1, SameSums DEF T!Out
    <2> QED
      BY <2>2, <2>6, <2>7, <2>8
  <1>6. PICK h : h = [r \in Warehouses |-> T!Out(r, {"IN_TRANSIT"})]
    OBVIOUS
  <1>7. h \in [Warehouses -> Int]
    BY <1>5, <1>6
  <1>8. \A r \in Warehouses : h[r] = SumFunction([k \in {k \in D : kind[k] = r} |-> q[k]])
    BY <1>5, <1>6
  <1>9. SumFunction(q) = SumFunction(h)
    BY <1>1, <1>7, <1>8, InitialAssumption, SumGrouped
  <1>10. q = [n \in D |-> Travelling[transfers[n]]]
    BY <1>1, <1>4 DEF Travelling
  <1> QED
    BY <1>5, <1>6, <1>9, <1>10 DEF InTransit, Column

\* One warehouse moves, and the total with it.
LEMMA TotalMoves ==
  ASSUME Stocked, NEW r, NEW d, Moved(r, d)
  PROVE  TotalStock \in Int /\ TotalStock' = TotalStock + d
  <1>1. PICK f : f = [x \in Warehouses |-> stock[x].current]
    OBVIOUS
  <1>2. PICK g : g = [x \in Warehouses |-> stock'[x].current]
    OBVIOUS
  <1>3. f \in [Warehouses -> Int] /\ g \in [Warehouses -> Int]
    BY <1>1, <1>2 DEF Stocked, Moved, Positions
  <1>4. g[r] - f[r] = d /\ \A x \in Warehouses \ {r} : g[x] = f[x]
    BY <1>1, <1>2, <1>3 DEF Moved, Move
  <1>5. r \in Warehouses
    BY DEF Moved
  <1>6. SumFunction(g) = SumFunction(f) + (g[r] - f[r]) /\ SumFunction(f) \in Int
    BY <1>3, <1>4, <1>5, InitialAssumption, SumChange, SumType
  <1> QED
    BY <1>1, <1>2, <1>4, <1>6 DEF TotalStock

\* A step about transfers makes no goods.
LEMMA NothingGained ==
  ASSUME Transferring, Transferring', Stocked, CarrierEffect
  PROVE  /\ stock' \in [Warehouses -> Positions]
         /\ TotalStock \in Int /\ TotalStock' \in Int
         /\ TotalStock' + InTransit' <= TotalStock + InTransit
  <1>1. PICK ts : ts = transfers'
    OBVIOUS
  <1>2. AreRows(transfers, Carriage) /\ AreRows(ts, Carriage)
    BY <1>1, RowsOf DEF Transferring
  <1>3. PICK a : a = Column(transfers, Travelling)
    OBVIOUS
  <1>4. PICK b : b = Column(ts, Travelling)
    OBVIOUS
  <1>5. a \in Int /\ b \in Int
    BY <1>2, <1>3, <1>4, CarriageColumns, ColumnSums
  <1>6. InTransit = a /\ InTransit' = b
    BY <1>1, <1>3, <1>4 DEF InTransit
  <1>7. TotalStock \in Int
    <2>1. [x \in Warehouses |-> stock[x].current] \in [Warehouses -> Int]
      BY DEF Stocked, Positions
    <2> QED
      BY <2>1, InitialAssumption, SumType DEF TotalStock
  <1>8. CASE stock' = stock /\ transfers' = transfers
    <2>1. TotalStock' = TotalStock /\ b = a
      BY <1>1, <1>3, <1>4, <1>8 DEF TotalStock
    <2> QED
      BY <1>5, <1>6, <1>7, <1>8, <2>1 DEF Stocked
  <1>9. CASE stock' = stock /\ \E t \in Carriage : t.status = "DRAFT" /\ transfers' = Append(transfers, t)
    <2>1. PICK t \in Carriage : t.status = "DRAFT" /\ ts = Append(transfers, t)
      BY <1>1, <1>9
    <2>2. RowAdded(transfers, ts, Len(transfers) + 1) /\ ts[Len(transfers) + 1] = t
      BY <2>1, RowAppended DEF Transferring
    <2>3. b = a + Travelling[t]
      BY <1>2, <1>3, <1>4, <2>2, CarriageColumns, ColumnMade
    <2>4. Travelling[t] = 0
      BY <2>1 DEF Travelling, UnderWay
    <2>5. TotalStock' = TotalStock
      BY <1>9 DEF TotalStock
    <2> QED
      BY <1>5, <1>6, <1>7, <1>9, <2>3, <2>4, <2>5 DEF Stocked
  <1>10. ASSUME NEW n \in DOMAIN transfers, NEW t \in Carriage, NEW r \in Warehouses, NEW d \in Int,
                Stored(n, t), Moved(r, d), d + UnderWay(t) <= UnderWay(transfers[n])
         PROVE  /\ stock' \in [Warehouses -> Positions]
                /\ TotalStock' \in Int
                /\ TotalStock' + b <= TotalStock + a
    <2>1. transfers[n] \in Carriage
      BY <1>2 DEF AreRows
    <2>2. RowChanged(transfers, ts, n) /\ ts[n] = t
      BY <1>1, <1>10 DEF Stored, RowChanged
    <2>3. b = a + (Travelling[t] - Travelling[transfers[n]])
      BY <1>2, <1>3, <1>4, <2>2, CarriageColumns, ColumnChanged
    <2>4. /\ Travelling[t] = UnderWay(t) /\ UnderWay(t) \in Nat
          /\ Travelling[transfers[n]] = UnderWay(transfers[n]) /\ UnderWay(transfers[n]) \in Nat
      BY <2>1, CarriageColumns DEF Travelling
    <2>5. TotalStock' = TotalStock + d
      BY <1>10, TotalMoves
    <2> QED
      BY <1>5, <1>7, <1>10, <2>3, <2>4, <2>5 DEF Moved
  <1> QED
    BY <1>6, <1>7, <1>8, <1>9, <1>10 DEF CarrierEffect

\* Where transfers do not overlap they tell what each warehouse gained.
LEMMA GainTold ==
  ASSUME Transferring, Transferring', Stocked, CarrierEffect, ~ overlapping,
         NEW x \in Warehouses
  PROVE  stock'[x].current - stock[x].current = Gained(x)' - Gained(x)
  <1>1. PICK ts : ts = transfers'
    OBVIOUS
  <1>2. AreRows(transfers, Carriage) /\ AreRows(ts, Carriage)
    BY <1>1, RowsOf DEF Transferring
  <1>3. PICK a : a = Column(transfers, Arriving(x))
    OBVIOUS
  <1>4. PICK b : b = Column(transfers, Departing(x))
    OBVIOUS
  <1>5. PICK c : c = Column(ts, Arriving(x))
    OBVIOUS
  <1>6. PICK e : e = Column(ts, Departing(x))
    OBVIOUS
  <1>7. a \in Int /\ b \in Int /\ c \in Int /\ e \in Int
    BY <1>2, <1>3, <1>4, <1>5, <1>6, CarriageColumns, ColumnSums
  <1>8. Gained(x) = a - b /\ Gained(x)' = c - e
    BY <1>1, <1>3, <1>4, <1>5, <1>6 DEF Gained
  <1>9. stock[x].current \in Int
    BY DEF Stocked, Positions
  <1>10. CASE stock' = stock /\ transfers' = transfers
    BY <1>1, <1>3, <1>4, <1>5, <1>6, <1>7, <1>8, <1>9, <1>10
  <1>11. CASE stock' = stock /\ \E t \in Carriage : t.status = "DRAFT" /\ transfers' = Append(transfers, t)
    <2>1. PICK t \in Carriage : t.status = "DRAFT" /\ ts = Append(transfers, t)
      BY <1>1, <1>11
    <2>2. RowAdded(transfers, ts, Len(transfers) + 1) /\ ts[Len(transfers) + 1] = t
      BY <2>1, RowAppended DEF Transferring
    <2>3. c = a + Arriving(x)[t] /\ e = b + Departing(x)[t]
      BY <1>2, <1>3, <1>4, <1>5, <1>6, <2>2, CarriageColumns, ColumnMade
    <2>4. Arriving(x)[t] = 0 /\ Departing(x)[t] = 0
      BY <2>1 DEF Arriving, Departing, Arrived, Departed
    <2> QED
      BY <1>7, <1>8, <1>9, <1>11, <2>3, <2>4
  <1>12. ASSUME NEW n \in DOMAIN transfers, NEW t \in Carriage, NEW r \in Warehouses, NEW d \in Int,
                Stored(n, t), Moved(r, d), Truthful(n, t, r, d)
         PROVE  stock'[x].current - stock[x].current = (c - e) - (a - b)
    <2>1. PICK o : o = transfers[n]
      OBVIOUS
    <2>2. o \in Carriage
      BY <1>2, <2>1 DEF AreRows
    <2>3. RowChanged(transfers, ts, n) /\ ts[n] = t
      BY <1>1, <1>12 DEF Stored, RowChanged
    <2>4. /\ c = a + (Arriving(x)[t] - Arriving(x)[o])
          /\ e = b + (Departing(x)[t] - Departing(x)[o])
      BY <1>2, <1>3, <1>4, <1>5, <1>6, <2>1, <2>3, CarriageColumns, ColumnChanged
    <2>5. /\ Arriving(x)[t] = Arrived(t, x) /\ Arriving(x)[o] = Arrived(o, x)
          /\ Departing(x)[t] = Departed(t, x) /\ Departing(x)[o] = Departed(o, x)
      BY <2>2 DEF Arriving, Departing
    <2>6. /\ Arrived(t, x) \in Int /\ Arrived(o, x) \in Int
          /\ Departed(t, x) \in Int /\ Departed(o, x) \in Int
      BY <2>2, CarriageFields DEF Arrived, Departed
    <2>7. (Arrived(t, x) - Departed(t, x)) - (Arrived(o, x) - Departed(o, x)) = Move(x, r, d)
      BY <1>12, <2>1 DEF Truthful
    <2>8. stock'[x].current = stock[x].current + Move(x, r, d) /\ Move(x, r, d) \in Int
      BY <1>12 DEF Moved, Move
    <2> QED
      BY <1>7, <1>9, <2>4, <2>5, <2>6, <2>7, <2>8
  <1> QED
    BY <1>8, <1>10, <1>11, <1>12 DEF CarrierEffect

-----------------------------------------------------------------------------
(* What is always so of the stocktakes. *)

Take == S!StocktakeRows

Filling == {"create", "retrieve", "complete"}

Editing == {"update_items", "edit"}

CounterJob == [kind : (Filling \cup Editing \cup {"idle"}) \cap (CounterRequests \cup {"idle"}),
               phase : {"idle", "ensure", "empty", "filled", "loaded"},
               number : Nat, row : Take \cup {S!Blank}]

\* A job on one of the stocktakes ns.
JobOn(j, ns) ==
  /\ j \in CounterJob
  /\ j.kind = "idle" <=> j = S!Idle
  /\ j.kind # "idle" => j.number \in ns /\ j.row \in Take
  /\ j.kind \in Filling => j.phase \in {"ensure", "empty", "filled"}
  /\ j.kind \in Editing => j.phase = "loaded"

Counting ==
  /\ stocktakes \in Seq(Take)
  /\ counting \in [Counters -> CounterJob]
  /\ \A w \in Counters : JobOn(counting[w], DOMAIN stocktakes)

\* The fields of a stocktake.
LEMMA TakeFields ==
  ASSUME NEW t \in Take
  PROVE  /\ t.status \in S!StocktakeStatus /\ t.warehouse \in Warehouses
         /\ t.lines \in Seq(Line) /\ t.posted \in [Warehouses -> Int] /\ t.upto \in Nat
         /\ t.deleted \in BOOLEAN
  BY DEF Take, S!StocktakeRows, Line

\* An idle counter's job.
LEMMA IdleCounter ==
  /\ \A ns : JobOn(S!Idle, ns)
  /\ S!Idle.kind = "idle" /\ S!Idle.phase = "idle"
  BY DEF S!Idle, JobOn, CounterJob, Filling, Editing

\* One job at most is another, and there are as many rows or more.
LEMMA CountersGo ==
  ASSUME Counting, NEW w \in Counters, stocktakes' \in Seq(Take),
         DOMAIN stocktakes \subseteq DOMAIN stocktakes',
         NEW j, JobOn(j, DOMAIN stocktakes'),
         counting' = [counting EXCEPT ![w] = j]
  PROVE  Counting'
  <1>1. counting' \in [Counters -> CounterJob]
    BY DEF Counting, JobOn
  <1>2. \A v \in Counters : counting'[v] = IF v = w THEN j ELSE counting[v]
    BY DEF Counting
  <1>3. \A v \in Counters : JobOn(counting[v], DOMAIN stocktakes')
    BY DEF Counting, JobOn
  <1> QED
    BY <1>1, <1>2, <1>3 DEF Counting

\* Stocktakes are added to, and the requests about them stay.
LEMMA CountersStay ==
  ASSUME Counting, stocktakes' \in Seq(Take),
         DOMAIN stocktakes \subseteq DOMAIN stocktakes', UNCHANGED counting
  PROVE  Counting'
  BY DEF Counting, JobOn

\* Stocktake n is saved as t.
Kept(n, t) ==
  n \in DOMAIN stocktakes /\ t \in Take /\ stocktakes' = [stocktakes EXCEPT ![n] = t]

\* A stocktake is replaced by another.
LEMMA KeptRows ==
  ASSUME Counting, NEW n, NEW t, Kept(n, t)
  PROVE  stocktakes' \in Seq(Take) /\ DOMAIN stocktakes' = DOMAIN stocktakes
  <1>1. stocktakes' \in [DOMAIN stocktakes -> Take]
    BY RowNumbers DEF Kept, Counting
  <1> QED
    BY <1>1, RowsKept DEF Counting

\* A row as it is made.
Fresh(t) ==
  /\ t.status = "DRAFT" /\ t.lines = << >> /\ t.upto = 0
  /\ \A x \in Warehouses : t.posted[x] = 0

SamePosting(t, o) == t.posted = o.posted /\ t.upto = o.upto

\* What was posted of a stocktake is what its first lines found.
PostedRight(t) ==
  SumFunction(t.posted) = SumFunction(Found(SubSeq(t.lines, 1, t.upto)))

\* What a step about stocktakes does to the stock: nothing, or what is posted
\* on the one row that is saved.
CounterEffect ==
  \/ /\ \E t \in Take : Fresh(t) /\ stocktakes' = Append(stocktakes, t)
     /\ stock' = stock
  \/ stocktakes' = stocktakes /\ stock' = stock
  \/ \E n \in DOMAIN stocktakes, t \in Take, r \in Warehouses, d \in Int :
       /\ Kept(n, t) /\ Moved(r, d)
       /\ \A x \in Warehouses : t.posted[x] = stocktakes[n].posted[x] + Move(x, r, d)

\* A step that posts nothing.
LEMMA NothingPosted ==
  ASSUME Counting, Stocked, stock' = stock, NEW n, NEW t, Kept(n, t),
         t.posted = stocktakes[n].posted
  PROVE  CounterEffect
  <1>1. stocktakes[n] \in Take
    BY RowNumbers DEF Counting, Kept
  <1>2. stocktakes[n].warehouse \in Warehouses /\ stocktakes[n].posted \in [Warehouses -> Int]
    BY <1>1, TakeFields
  <1>3. Moved(stocktakes[n].warehouse, 0)
    BY <1>2, StandsStill
  <1>4. \A x \in Warehouses : t.posted[x] = stocktakes[n].posted[x] + Move(x, stocktakes[n].warehouse, 0)
    BY <1>2 DEF Move
  <1>5. 0 \in Int
    OBVIOUS
  <1> QED
    BY <1>2, <1>3, <1>4, <1>5 DEF CounterEffect, Kept

-----------------------------------------------------------------------------
(* The steps of stocktakes. *)

\* create_stocktake: a new draft, and its lines to be filled in.
LEMMA CreateTake ==
  ASSUME Counting, Stocked, NEW w \in Counters, NEW u \in Users, NEW r \in Warehouses,
         S!CreateStocktake(w, u, r)
  PROVE  /\ Counting' /\ CounterEffect
         /\ \E t \in Take : Fresh(t) /\ stocktakes' = Append(stocktakes, t)
         /\ S!MayStart(w, "create")
         /\ \E j : /\ counting' = [counting EXCEPT ![w] = j]
                   /\ j.kind = "create" /\ j.phase = "ensure"
  <1>1. PICK t : t = [S!Blank EXCEPT !.warehouse = r, !.creator = u]
    OBVIOUS
  <1>2. PICK j : j = [kind |-> "create", phase |-> "ensure", number |-> Len(stocktakes'),
                      row |-> S!Last(stocktakes')]
    OBVIOUS
  <1>3. /\ stocktakes' = Append(stocktakes, t) /\ stock' = stock
        /\ counting' = [counting EXCEPT ![w] = j]
        /\ S!MayStart(w, "create") /\ "create" \in CounterRequests
    BY <1>1, <1>2 DEF S!CreateStocktake, S!MayStart
  <1>4. t = [status |-> "DRAFT", warehouse |-> r, creator |-> u, submitter |-> NoUser,
             approver |-> NoUser, lines |-> << >>, posted |-> [x \in Warehouses |-> 0],
             upto |-> 0, deleted |-> FALSE]
    BY <1>1 DEF S!Blank
  <1>5. t \in Take
    <2>1. << >> \in Seq(S!CountLines) /\ [x \in Warehouses |-> 0] \in [Warehouses -> Int]
      OBVIOUS
    <2> QED
      BY <1>4, <2>1 DEF Take, S!StocktakeRows, S!StocktakeStatus
  <1>6. Fresh(t)
    BY <1>4 DEF Fresh
  <1>7. /\ stocktakes' \in Seq(Take) /\ DOMAIN stocktakes \subseteq DOMAIN stocktakes'
        /\ Len(stocktakes') \in DOMAIN stocktakes' /\ Len(stocktakes') \in Nat
        /\ S!Last(stocktakes') = t
    <2>1. /\ stocktakes' \in Seq(Take) /\ Len(stocktakes') = Len(stocktakes) + 1
          /\ DOMAIN stocktakes' = DOMAIN stocktakes \cup {Len(stocktakes) + 1}
          /\ stocktakes'[Len(stocktakes) + 1] = t
      BY <1>3, <1>5, RowMade DEF Counting
    <2> QED
      BY <2>1, RowNumbers DEF S!Last
  <1>8. JobOn(j, DOMAIN stocktakes')
    <2>1. j.kind = "create" /\ j.phase = "ensure" /\ j.number = Len(stocktakes') /\ j.row = t
      BY <1>2, <1>7
    <2>2. j \in CounterJob
      BY <1>2, <1>3, <1>5, <1>7 DEF CounterJob, Filling
    <2> QED
      BY <1>5, <1>7, <2>1, <2>2, IdleCounter DEF JobOn, Filling, Editing
  <1>9. Counting'
    BY <1>3, <1>7, <1>8, CountersGo
  <1>10. CounterEffect
    BY <1>3, <1>5, <1>6 DEF CounterEffect
  <1>11. j.kind = "create" /\ j.phase = "ensure"
    BY <1>2
  <1> QED
    BY <1>3, <1>5, <1>6, <1>9, <1>10, <1>11

\* The worker loads the row and goes on from there.
Enters(w, kind, phase, n) ==
  /\ S!MayStart(w, kind) /\ n \in DOMAIN stocktakes
  /\ stocktakes' = stocktakes /\ stock' = stock
  /\ counting' = [counting EXCEPT ![w] = [kind |-> kind, phase |-> phase, number |-> n,
                                          row |-> stocktakes[n]]]

\* A request loads its stocktake.
LEMMA EnterStep ==
  ASSUME Counting, NEW w \in Counters, NEW kind, NEW phase, NEW n, Enters(w, kind, phase, n),
         (kind \in Filling /\ phase = "ensure") \/ (kind \in Editing /\ phase = "loaded")
  PROVE  Counting' /\ CounterEffect
  <1>1. PICK j : j = [kind |-> kind, phase |-> phase, number |-> n, row |-> stocktakes[n]]
    OBVIOUS
  <1>2. /\ stocktakes' = stocktakes /\ stock' = stock /\ kind \in CounterRequests
        /\ counting' = [counting EXCEPT ![w] = j] /\ n \in DOMAIN stocktakes
    BY <1>1 DEF Enters, S!MayStart
  <1>3. stocktakes[n] \in Take /\ n \in Nat
    BY <1>2, RowNumbers DEF Counting
  <1>4. j \in CounterJob
    BY <1>1, <1>2, <1>3 DEF CounterJob
  <1>5. JobOn(j, DOMAIN stocktakes')
    BY <1>1, <1>2, <1>3, <1>4, IdleCounter DEF JobOn, Filling, Editing
  <1>6. stocktakes' \in Seq(Take) /\ DOMAIN stocktakes \subseteq DOMAIN stocktakes'
    BY <1>2 DEF Counting
  <1> QED
    BY <1>2, <1>5, <1>6, CountersGo DEF CounterEffect

\* The requests that do, and what update_items finds.
LEMMA EnterSteps ==
  ASSUME NEW w \in Counters, NEW n \in DOMAIN stocktakes
  PROVE  /\ \A kind \in {"retrieve", "complete"} :
              S!LoadStocktake(w, kind, n) => Enters(w, kind, "ensure", n)
         /\ S!LoadCounts(w, n) => Enters(w, "update_items", "loaded", n)
                                  /\ stocktakes[n].status = "DRAFT"
         /\ S!LoadEdit(w, n) => Enters(w, "edit", "loaded", n)
  BY DEF S!LoadStocktake, S!LoadCounts, S!LoadEdit, S!Enter, Enters

\* Only the phase of the request is another.
GoesOn(w, phase) ==
  /\ counting[w].phase \in {"ensure", "empty"} /\ phase \in {"empty", "filled"}
  /\ counting' = [counting EXCEPT ![w].phase = phase]

\* A request that fills lines in goes on.
LEMMA PhaseStep ==
  ASSUME Counting, NEW w \in Counters, NEW phase, GoesOn(w, phase),
         stocktakes' \in Seq(Take), DOMAIN stocktakes \subseteq DOMAIN stocktakes'
  PROVE  /\ Counting' /\ counting[w].kind \in Filling
         /\ counting'[w].phase = phase /\ counting'[w].kind = counting[w].kind
         /\ counting'[w].number = counting[w].number /\ counting'[w].row = counting[w].row
         /\ \A v \in Counters \ {w} : counting'[v] = counting[v]
  <1>1. PICK i : i = counting[w]
    OBVIOUS
  <1>2. PICK j : j = [i EXCEPT !.phase = phase]
    OBVIOUS
  <1>3. counting' = [counting EXCEPT ![w] = j]
    BY <1>1, <1>2 DEF GoesOn, Counting
  <1>4. i \in CounterJob /\ JobOn(i, DOMAIN stocktakes)
    BY <1>1 DEF Counting
  <1>5. i.kind \in Filling
    BY <1>1, <1>4, IdleCounter DEF JobOn, CounterJob, Filling, Editing, GoesOn
  <1>6. /\ j \in CounterJob /\ j.kind = i.kind /\ j.phase = phase
        /\ j.number = i.number /\ j.row = i.row
    BY <1>2, <1>4 DEF CounterJob, GoesOn
  <1>7. JobOn(j, DOMAIN stocktakes')
    BY <1>4, <1>5, <1>6, IdleCounter DEF JobOn, Filling, Editing, GoesOn
  <1>8. Counting'
    BY <1>3, <1>7, CountersGo
  <1>9. counting'[w] = j /\ \A v \in Counters \ {w} : counting'[v] = counting[v]
    BY <1>3 DEF Counting
  <1> QED
    BY <1>1, <1>5, <1>6, <1>8, <1>9

\* The request ends.
Ends(w) == counting' = [counting EXCEPT ![w] = S!Idle]

\* A row is saved, and nothing is posted.
LEMMA SavedTake ==
  ASSUME Counting, Stocked, NEW w \in Counters, stock' = stock, NEW n, NEW t, Kept(n, t),
         t.posted = stocktakes[n].posted, UNCHANGED counting \/ Ends(w)
  PROVE  Counting' /\ CounterEffect
  <1>1. stocktakes' \in Seq(Take) /\ DOMAIN stocktakes \subseteq DOMAIN stocktakes'
    BY KeptRows
  <1>2. Counting'
    BY <1>1, CountersStay, CountersGo, IdleCounter DEF Ends
  <1> QED
    BY <1>2, NothingPosted

\* Nothing is saved, and the request ends.
LEMMA RestTake ==
  ASSUME Counting, NEW w \in Counters, S!Respond(w) \/ S!Abort(w)
  PROVE  /\ Counting' /\ CounterEffect
         /\ stocktakes' = stocktakes /\ Ends(w)
  <1>1. stocktakes' = stocktakes /\ stock' = stock /\ Ends(w)
    BY DEF S!Respond, S!Abort, S!Done, Ends
  <1>2. stocktakes' \in Seq(Take) /\ DOMAIN stocktakes \subseteq DOMAIN stocktakes'
    BY <1>1 DEF Counting
  <1>3. Counting'
    BY <1>1, <1>2, CountersGo, IdleCounter DEF Ends
  <1> QED
    BY <1>1, <1>3 DEF CounterEffect

\* Of the row that is saved only what the step is about is another.
SameStatus(t, o) == t.status = o.status
SameLines(t, o) == t.lines = o.lines

\* The lines are looked for.
LEMMA FindTake ==
  ASSUME Counting, NEW w \in Counters, S!FindNoLines(w)
  PROVE  /\ Counting' /\ CounterEffect /\ stocktakes' = stocktakes
         /\ \E phase : /\ GoesOn(w, phase)
                       /\ phase = "empty" => stocktakes[counting[w].number].lines = << >>
  <1>1. PICK phase : phase = IF stocktakes[counting[w].number].lines = << >> THEN "empty" ELSE "filled"
    OBVIOUS
  <1>2. /\ stocktakes' = stocktakes /\ stock' = stock /\ GoesOn(w, phase)
        /\ phase = "empty" => stocktakes[counting[w].number].lines = << >>
    BY <1>1 DEF S!FindNoLines, GoesOn
  <1>3. stocktakes' \in Seq(Take) /\ DOMAIN stocktakes \subseteq DOMAIN stocktakes'
    BY <1>2 DEF Counting
  <1>4. Counting'
    BY <1>2, <1>3, PhaseStep
  <1> QED
    BY <1>2, <1>4 DEF CounterEffect

\* One line more.
LEMMA MoreLines ==
  ASSUME NEW o \in Take, NEW system \in Int, NEW actual \in Int, NEW booked \in BOOLEAN,
         NEW t, t = [o EXCEPT !.lines = Append(@, [system |-> system, actual |-> actual,
                                                   booked |-> booked])]
  PROVE  /\ t \in Take /\ SameStatus(t, o) /\ SamePosting(t, o)
         /\ \E line \in Line : line.booked = booked /\ t.lines = Append(o.lines, line)
  <1>1. PICK line : line = [system |-> system, actual |-> actual, booked |-> booked]
    OBVIOUS
  <1>2. line \in Line /\ line.booked = booked
    BY <1>1 DEF Line, S!CountLines
  <1>3. PICK ls : ls = Append(o.lines, line)
    OBVIOUS
  <1>4. ls \in Seq(Line)
    BY <1>2, <1>3, TakeFields
  <1>5. t = [o EXCEPT !.lines = ls]
    BY <1>1, <1>3
  <1>6. t \in Take /\ t.lines = ls /\ SameStatus(t, o) /\ SamePosting(t, o)
    BY <1>4, <1>5 DEF Take, S!StocktakeRows, Line, SameStatus, SamePosting
  <1> QED
    BY <1>2, <1>3, <1>6

\* They are made, if there were none: one line, or none to make.
LEMMA FillTake ==
  ASSUME Counting, Stocked, NEW w \in Counters, S!FillLines(w)
  PROVE  /\ Counting' /\ CounterEffect /\ GoesOn(w, "filled") /\ counting[w].phase = "empty"
         /\ \E t : /\ Kept(counting[w].number, t)
                   /\ SameStatus(t, stocktakes[counting[w].number])
                   /\ SamePosting(t, stocktakes[counting[w].number])
                   /\ \/ SameLines(t, stocktakes[counting[w].number])
                      \/ \E line \in Line :
                           t.lines = Append(stocktakes[counting[w].number].lines, line)
  <1>1. PICK n : n = counting[w].number
    OBVIOUS
  <1>2. PICK o : o = stocktakes[n]
    OBVIOUS
  <1>3. PICK p : p = stock[counting[w].row.warehouse]
    OBVIOUS
  <1>4. PICK q : q = p.current
    OBVIOUS
  <1>5. PICK t : t = [o EXCEPT !.lines = Append(@, [system |-> q, actual |-> q, booked |-> TRUE])]
    OBVIOUS
  <1>6. /\ counting[w].phase = "empty" /\ stock' = stock /\ GoesOn(w, "filled")
        /\ stocktakes' = [stocktakes EXCEPT ![n].lines =
              IF p.exists THEN Append(@, [system |-> q, actual |-> q, booked |-> TRUE]) ELSE @]
    BY <1>1, <1>3, <1>4 DEF S!FillLines, GoesOn
  <1>7. JobOn(counting[w], DOMAIN stocktakes) /\ counting[w].kind # "idle"
    BY <1>6, IdleCounter DEF Counting, JobOn
  <1>8. n \in DOMAIN stocktakes /\ counting[w].row \in Take
    BY <1>1, <1>7 DEF JobOn
  <1>9. o \in Take
    BY <1>2, <1>8, RowNumbers DEF Counting
  <1>10. q \in Int
    BY <1>3, <1>4, <1>8, TakeFields DEF Stocked, Positions
  <1>11. p.exists => /\ Kept(n, t) /\ SameStatus(t, o) /\ SamePosting(t, o)
                     /\ \E line \in Line : t.lines = Append(o.lines, line)
    <2> SUFFICES ASSUME p.exists
                 PROVE  /\ Kept(n, t) /\ SameStatus(t, o) /\ SamePosting(t, o)
                        /\ \E line \in Line : t.lines = Append(o.lines, line)
      OBVIOUS
    <2>1. stocktakes' = [stocktakes EXCEPT ![n] = t]
      BY <1>2, <1>5, <1>6, <1>8
    <2>2. /\ t \in Take /\ SameStatus(t, o) /\ SamePosting(t, o)
          /\ \E line \in Line : t.lines = Append(o.lines, line)
      BY <1>5, <1>9, <1>10, MoreLines
    <2> QED
      BY <1>8, <2>1, <2>2 DEF Kept
  <1>12. ~ p.exists => Kept(n, o)
    <2> SUFFICES ASSUME ~ p.exists PROVE stocktakes' = [stocktakes EXCEPT ![n] = o]
      BY <1>8, <1>9 DEF Kept
    <2>1. stocktakes' = [stocktakes EXCEPT ![n].lines = @]
      BY <1>6
    <2>2. [o EXCEPT !.lines = @] = o
      BY <1>9 DEF Take, S!StocktakeRows
    <2> QED
      BY <1>2, <1>8, <2>1, <2>2
  <1>13. PICK u : /\ Kept(n, u) /\ SameStatus(u, o) /\ SamePosting(u, o)
                  /\ \/ SameLines(u, o)
                     \/ \E line \in Line : u.lines = Append(o.lines, line)
    <2>1. SameStatus(o, o) /\ SamePosting(o, o) /\ SameLines(o, o)
      BY DEF SameStatus, SamePosting, SameLines
    <2> QED
      BY <1>11, <1>12, <2>1
  <1>14. stocktakes' \in Seq(Take) /\ DOMAIN stocktakes \subseteq DOMAIN stocktakes'
    BY <1>13, KeptRows
  <1>15. Counting'
    BY <1>6, <1>14, PhaseStep
  <1>16. u.posted = stocktakes[n].posted
    BY <1>2, <1>13 DEF SamePosting
  <1>17. CounterEffect
    BY <1>6, <1>13, <1>16, NothingPosted
  <1> QED
    BY <1>1, <1>2, <1>6, <1>13, <1>15, <1>17

\* submit_stocktake, under the lock.
LEMMA SubmitTake ==
  ASSUME Counting, Stocked, NEW w \in Counters, NEW n \in DOMAIN stocktakes, NEW u \in Users,
         NEW approval \in Approvals, S!SubmitStocktake(w, n, u, approval)
  PROVE  /\ Counting' /\ CounterEffect /\ UNCHANGED counting /\ S!MayStart(w, "submit")
         /\ stocktakes[n].status = "DRAFT"
         /\ \E t : /\ Kept(n, t) /\ SameLines(t, stocktakes[n]) /\ SamePosting(t, stocktakes[n])
                   /\ t.status \in {"PENDING_APPROVAL", "APPROVED"}
  <1>1. PICK o : o = stocktakes[n]
    OBVIOUS
  <1>2. PICK s : s = IF approval THEN "PENDING_APPROVAL" ELSE "APPROVED"
    OBVIOUS
  <1>3. PICK a : a = IF approval THEN NoUser ELSE u
    OBVIOUS
  <1>4. PICK t : t = [o EXCEPT !.status = s, !.submitter = u, !.approver = a]
    OBVIOUS
  <1>5. /\ S!MayStart(w, "submit") /\ o.status = "DRAFT" /\ stock' = stock /\ UNCHANGED counting
        /\ stocktakes' = [stocktakes EXCEPT ![n].status = s, ![n].submitter = u,
                                            ![n].approver = a]
    BY <1>1, <1>2, <1>3 DEF S!SubmitStocktake
  <1>6. o \in Take
    BY <1>1, RowNumbers DEF Counting
  <1>7. s \in {"PENDING_APPROVAL", "APPROVED"} /\ a \in Users \cup {NoUser}
    BY <1>2, <1>3
  <1>8. t \in Take /\ t.status = s /\ SameLines(t, o) /\ SamePosting(t, o)
    BY <1>4, <1>6, <1>7 DEF Take, S!StocktakeRows, S!StocktakeStatus, SameLines, SamePosting
  <1>9. stocktakes' = [stocktakes EXCEPT ![n] = t]
    BY <1>1, <1>4, <1>5
  <1>10. Kept(n, t) /\ t.posted = stocktakes[n].posted
    BY <1>1, <1>8, <1>9 DEF Kept, SamePosting
  <1>11. Counting' /\ CounterEffect
    BY <1>5, <1>10, SavedTake
  <1> QED
    BY <1>1, <1>5, <1>7, <1>8, <1>10, <1>11

\* approve_stocktake, under the lock.
LEMMA ApproveTake ==
  ASSUME Counting, Stocked, NEW w \in Counters, NEW n \in DOMAIN stocktakes, NEW u \in Users,
         S!ApproveStocktake(w, n, u)
  PROVE  /\ Counting' /\ CounterEffect /\ UNCHANGED counting /\ S!MayStart(w, "approve")
         /\ stocktakes[n].status = "PENDING_APPROVAL"
         /\ \E t : /\ Kept(n, t) /\ SameLines(t, stocktakes[n]) /\ SamePosting(t, stocktakes[n])
                   /\ t.status = "APPROVED"
  <1>1. PICK o : o = stocktakes[n]
    OBVIOUS
  <1>2. PICK t : t = [o EXCEPT !.status = "APPROVED", !.approver = u]
    OBVIOUS
  <1>3. /\ S!MayStart(w, "approve") /\ o.status = "PENDING_APPROVAL"
        /\ stock' = stock /\ UNCHANGED counting
        /\ stocktakes' = [stocktakes EXCEPT ![n].status = "APPROVED", ![n].approver = u]
    BY <1>1 DEF S!ApproveStocktake
  <1>4. o \in Take
    BY <1>1, RowNumbers DEF Counting
  <1>5. t \in Take /\ t.status = "APPROVED" /\ SameLines(t, o) /\ SamePosting(t, o)
    BY <1>2, <1>4 DEF Take, S!StocktakeRows, S!StocktakeStatus, SameLines, SamePosting
  <1>6. stocktakes' = [stocktakes EXCEPT ![n] = t]
    BY <1>1, <1>2, <1>3
  <1>7. Kept(n, t) /\ t.posted = stocktakes[n].posted
    BY <1>1, <1>5, <1>6 DEF Kept, SamePosting
  <1>8. Counting' /\ CounterEffect
    BY <1>3, <1>7, SavedTake
  <1> QED
    BY <1>1, <1>3, <1>5, <1>7, <1>8

\* add_items, under the lock.
LEMMA AddTake ==
  ASSUME Counting, Stocked, NEW w \in Counters, NEW n \in DOMAIN stocktakes,
         NEW system \in Counts, NEW actual \in Counts, S!AddItems(w, n, system, actual)
  PROVE  /\ Counting' /\ CounterEffect /\ UNCHANGED counting /\ S!MayStart(w, "add_items")
         /\ \E t : /\ Kept(n, t) /\ SameStatus(t, stocktakes[n]) /\ SamePosting(t, stocktakes[n])
                   /\ \E line \in Line : ~ line.booked
                                         /\ t.lines = Append(stocktakes[n].lines, line)
  <1>1. PICK o : o = stocktakes[n]
    OBVIOUS
  <1>2. PICK b \in BOOLEAN : b = FALSE
    OBVIOUS
  <1>3. PICK t : t = [o EXCEPT !.lines = Append(@, [system |-> system, actual |-> actual,
                                                    booked |-> b])]
    OBVIOUS
  <1>4. /\ S!MayStart(w, "add_items") /\ stock' = stock /\ UNCHANGED counting
        /\ stocktakes' = [stocktakes EXCEPT ![n].lines =
                            Append(@, [system |-> system, actual |-> actual, booked |-> FALSE])]
    BY DEF S!AddItems
  <1>5. o \in Take
    BY <1>1, RowNumbers DEF Counting
  <1>6. system \in Int /\ actual \in Int
    BY DocumentsAssumption DEF S!StocktakesAssumption
  <1>7. /\ t \in Take /\ SameStatus(t, o) /\ SamePosting(t, o)
        /\ \E line \in Line : line.booked = b /\ t.lines = Append(o.lines, line)
    BY <1>3, <1>5, <1>6, MoreLines
  <1>8. stocktakes' = [stocktakes EXCEPT ![n] = t]
    BY <1>1, <1>2, <1>3, <1>4
  <1>9. Kept(n, t) /\ t.posted = stocktakes[n].posted
    BY <1>1, <1>7, <1>8 DEF Kept, SamePosting
  <1>10. Counting' /\ CounterEffect
    BY <1>4, <1>9, SavedTake
  <1> QED
    BY <1>1, <1>2, <1>4, <1>7, <1>9, <1>10

\* The request of the worker is about one of the stocktakes.
LEMMA OnTake ==
  ASSUME Counting, NEW w \in Counters, counting[w].kind # "idle"
  PROVE  /\ counting[w].number \in DOMAIN stocktakes /\ counting[w].row \in Take
         /\ stocktakes[counting[w].number] \in Take
  <1>1. JobOn(counting[w], DOMAIN stocktakes)
    BY DEF Counting
  <1> QED
    BY <1>1, RowNumbers DEF JobOn, Counting

\* update_items writes a count, whatever the status by now.
LEMMA UpdateTake ==
  ASSUME Counting, Stocked, NEW w \in Counters, NEW i \in 1 .. MaxLines, NEW actual \in Counts,
         S!UpdateItems(w, i, actual)
  PROVE  /\ Counting' /\ CounterEffect /\ Ends(w) /\ counting[w].kind = "update_items"
         /\ \E t : /\ Kept(counting[w].number, t)
                   /\ SameStatus(t, stocktakes[counting[w].number])
                   /\ SamePosting(t, stocktakes[counting[w].number])
                   /\ DOMAIN t.lines = DOMAIN stocktakes[counting[w].number].lines
                   /\ \A k \in DOMAIN t.lines :
                        t.lines[k].booked = stocktakes[counting[w].number].lines[k].booked
  <1>1. PICK n : n = counting[w].number
    OBVIOUS
  <1>2. PICK o : o = stocktakes[n]
    OBVIOUS
  <1>3. PICK ls : ls = [o.lines EXCEPT ![i].actual = actual]
    OBVIOUS
  <1>4. PICK t : t = [o EXCEPT !.lines = ls]
    OBVIOUS
  <1>5. /\ counting[w].kind = "update_items" /\ stock' = stock /\ Ends(w)
        /\ stocktakes' = [stocktakes EXCEPT ![n].lines[i].actual = actual]
    BY <1>1 DEF S!UpdateItems, S!At, S!Done, Ends
  <1>6. n \in DOMAIN stocktakes /\ o \in Take
    BY <1>1, <1>2, <1>5, OnTake
  <1>7. o.lines \in Seq(Line) /\ actual \in Int
    BY <1>6, TakeFields, DocumentsAssumption DEF S!StocktakesAssumption
  <1>8. /\ DOMAIN ls = DOMAIN o.lines
        /\ \A k \in DOMAIN o.lines : ls[k] \in Line /\ ls[k].booked = o.lines[k].booked
    <2>1. \A k \in DOMAIN o.lines : o.lines[k] \in Line
      BY <1>7, RowNumbers
    <2>2. /\ DOMAIN ls = DOMAIN o.lines
          /\ \A k \in DOMAIN o.lines :
               ls[k] = IF k = i THEN [o.lines[k] EXCEPT !.actual = actual] ELSE o.lines[k]
      BY <1>3
    <2>3. \A l \in Line : /\ [l EXCEPT !.actual = actual] \in Line
                          /\ [l EXCEPT !.actual = actual].booked = l.booked
      BY <1>7 DEF Line, S!CountLines
    <2> QED
      BY <2>1, <2>2, <2>3
  <1>9. ls \in Seq(Line)
    <2>1. ls \in [DOMAIN o.lines -> Line]
      BY <1>3, <1>8
    <2> QED
      BY <1>7, <2>1, RowsKept
  <1>10. t \in Take /\ t.lines = ls /\ SameStatus(t, o) /\ SamePosting(t, o)
    BY <1>4, <1>6, <1>9 DEF Take, S!StocktakeRows, Line, SameStatus, SamePosting
  <1>11. stocktakes' = [stocktakes EXCEPT ![n] = t]
    BY <1>2, <1>3, <1>4, <1>5, <1>6
  <1>12. Kept(n, t) /\ t.posted = stocktakes[n].posted
    BY <1>2, <1>6, <1>10, <1>11 DEF Kept, SamePosting
  <1>13. Counting' /\ CounterEffect
    BY <1>5, <1>12, SavedTake
  <1> QED
    BY <1>1, <1>2, <1>5, <1>8, <1>10, <1>12, <1>13

\* The view's update writes the status back that it loaded.
LEMMA EditTake ==
  ASSUME Counting, Stocked, NEW w \in Counters, NEW r \in Warehouses, S!EditStocktake(w, r)
  PROVE  /\ Counting' /\ CounterEffect /\ Ends(w) /\ counting[w].kind = "edit"
         /\ \E t : /\ Kept(counting[w].number, t)
                   /\ SameLines(t, stocktakes[counting[w].number])
                   /\ SamePosting(t, stocktakes[counting[w].number])
                   /\ t.status = counting[w].row.status
  <1>1. PICK n : n = counting[w].number
    OBVIOUS
  <1>2. PICK o : o = stocktakes[n]
    OBVIOUS
  <1>3. PICK row : row = counting[w].row
    OBVIOUS
  <1>4. PICK t : t = [row EXCEPT !.warehouse = r, !.lines = o.lines, !.posted = o.posted,
                                 !.upto = o.upto]
    OBVIOUS
  <1>5. /\ counting[w].kind = "edit" /\ stock' = stock /\ Ends(w)
        /\ stocktakes' = [stocktakes EXCEPT ![n] = t]
    BY <1>1, <1>2, <1>3, <1>4 DEF S!EditStocktake, S!At, S!Done, Ends
  <1>6. n \in DOMAIN stocktakes /\ o \in Take /\ row \in Take
    BY <1>1, <1>2, <1>3, <1>5, OnTake
  <1>7. o.lines \in Seq(Line) /\ o.posted \in [Warehouses -> Int] /\ o.upto \in Nat
    BY <1>6, TakeFields
  <1>8. t \in Take /\ t.status = row.status /\ SameLines(t, o) /\ SamePosting(t, o)
    BY <1>4, <1>6, <1>7 DEF Take, S!StocktakeRows, Line, SameLines, SamePosting
  <1>9. Kept(n, t) /\ t.posted = stocktakes[n].posted
    BY <1>2, <1>5, <1>6, <1>8 DEF Kept, SamePosting
  <1>10. Counting' /\ CounterEffect
    BY <1>5, <1>9, SavedTake
  <1> QED
    BY <1>1, <1>2, <1>3, <1>5, <1>8, <1>9, <1>10

\* A stocktake is deleted.
LEMMA DestroyTake ==
  ASSUME Counting, Stocked, NEW w \in Counters, NEW n \in DOMAIN stocktakes,
         S!DestroyStocktake(w, n)
  PROVE  /\ Counting' /\ CounterEffect /\ UNCHANGED counting /\ S!MayStart(w, "destroy")
         /\ \E t : /\ Kept(n, t) /\ SameLines(t, stocktakes[n]) /\ SamePosting(t, stocktakes[n])
                   /\ SameStatus(t, stocktakes[n])
  <1>1. PICK o : o = stocktakes[n]
    OBVIOUS
  <1>2. PICK t : t = [o EXCEPT !.deleted = TRUE]
    OBVIOUS
  <1>3. /\ S!MayStart(w, "destroy") /\ stock' = stock /\ UNCHANGED counting
        /\ stocktakes' = [stocktakes EXCEPT ![n].deleted = TRUE]
    BY DEF S!DestroyStocktake
  <1>4. o \in Take
    BY <1>1, RowNumbers DEF Counting
  <1>5. t \in Take /\ SameStatus(t, o) /\ SameLines(t, o) /\ SamePosting(t, o)
    BY <1>2, <1>4 DEF Take, S!StocktakeRows, SameStatus, SameLines, SamePosting
  <1>6. stocktakes' = [stocktakes EXCEPT ![n] = t]
    BY <1>1, <1>2, <1>3
  <1>7. Kept(n, t) /\ t.posted = stocktakes[n].posted
    BY <1>1, <1>5, <1>6 DEF Kept, SamePosting
  <1>8. Counting' /\ CounterEffect
    BY <1>3, <1>7, SavedTake
  <1> QED
    BY <1>1, <1>3, <1>5, <1>7, <1>8

\* The differences of the lines are posted, once, to one warehouse.
LEMMA CompleteTake ==
  ASSUME Counting, Stocked, NEW w \in Counters, S!CompleteStocktake(w)
  PROVE  /\ Counting' /\ CounterEffect /\ Ends(w)
         /\ counting[w].kind = "complete"
         /\ stocktakes[counting[w].number].status = "APPROVED"
         /\ \E t \in Take, r \in Warehouses :
              /\ Kept(counting[w].number, t)
              /\ SameLines(t, stocktakes[counting[w].number]) /\ t.status = "COMPLETED"
              /\ t.upto = Len(t.lines)
              /\ \A x \in Warehouses :
                   t.posted[x] = stocktakes[counting[w].number].posted[x]
                                   + Move(x, r, SumFunction(Found(t.lines)))
  <1>1. PICK n : n = counting[w].number
    OBVIOUS
  <1>2. PICK o : o = stocktakes[n]
    OBVIOUS
  <1>3. PICK r : r = o.warehouse
    OBVIOUS
  <1>4. PICK p : p = S!Posted(o.lines, stock[r]).pos
    OBVIOUS
  <1>5. /\ counting[w].kind = "complete" /\ o.status = "APPROVED" /\ Ends(w)
        /\ stock' = [stock EXCEPT ![r] = p]
        /\ stocktakes' = [stocktakes EXCEPT ![n].status = "COMPLETED",
                            ![n].posted[r] = @ + p.current - stock[r].current,
                            ![n].upto = Len(o.lines)]
    BY <1>1, <1>2, <1>3, <1>4 DEF S!CompleteStocktake, S!At, S!Done, Ends
  <1>6. n \in DOMAIN stocktakes /\ o \in Take
    BY <1>1, <1>2, <1>5, OnTake
  <1>7. r \in Warehouses /\ o.lines \in Seq(Line) /\ o.posted \in [Warehouses -> Int]
    BY <1>3, <1>6, TakeFields
  <1>8. PICK d : d = SumFunction(Found(o.lines))
    OBVIOUS
  <1>9. stock[r] \in Positions /\ stock[r].current \in Int
    BY <1>7 DEF Stocked, Positions
  <1>10. p \in Positions /\ d \in Int /\ p.current = stock[r].current + d
    BY <1>4, <1>7, <1>8, <1>9, PostedLines
  <1>11. PICK c : c = o.posted[r] + p.current - stock[r].current
    OBVIOUS
  <1>12. c = o.posted[r] + d /\ c \in Int
    <2>1. o.posted[r] \in Int /\ p.current \in Int
      BY <1>7, <1>10 DEF Positions
    <2> QED
      BY <1>9, <1>10, <1>11, <2>1
  <1>13. PICK ps : ps = [o.posted EXCEPT ![r] = c]
    OBVIOUS
  <1>14. ps \in [Warehouses -> Int] /\ \A x \in Warehouses : ps[x] = o.posted[x] + Move(x, r, d)
    BY <1>7, <1>12, <1>13 DEF Move
  <1>15. PICK k : k = Len(o.lines)
    OBVIOUS
  <1>16. PICK t : t = [o EXCEPT !.status = "COMPLETED", !.posted = ps, !.upto = k]
    OBVIOUS
  <1>17. k \in Nat
    BY <1>7, <1>15
  <1>18. t \in Take /\ t.status = "COMPLETED" /\ t.lines = o.lines /\ t.posted = ps /\ t.upto = k
    BY <1>6, <1>14, <1>16, <1>17 DEF Take, S!StocktakeRows, S!StocktakeStatus
  <1>19. stocktakes' = [stocktakes EXCEPT ![n] = t]
    <2>1. stocktakes' = [stocktakes EXCEPT ![n].status = "COMPLETED", ![n].posted[r] = c,
                                           ![n].upto = k]
      BY <1>2, <1>5, <1>6, <1>7, <1>11, <1>15
    <2>2. [o EXCEPT !.status = "COMPLETED", !.posted[r] = c, !.upto = k] = t
      BY <1>6, <1>13, <1>16 DEF Take, S!StocktakeRows
    <2> QED
      BY <1>2, <1>6, <2>1, <2>2
  <1>20. Kept(n, t)
    BY <1>6, <1>18, <1>19 DEF Kept
  <1>21. Moved(r, d)
    <2>1. \A x \in Warehouses : stock[x] \in Positions /\ stock[x].current \in Int
      BY DEF Stocked, Positions
    <2>2. \A x \in Warehouses : stock'[x] = IF x = r THEN p ELSE stock[x]
      BY <1>5 DEF Stocked
    <2>3. stock' \in [Warehouses -> Positions]
      BY <1>5, <1>10 DEF Stocked
    <2> QED
      BY <1>7, <1>10, <2>1, <2>2, <2>3 DEF Moved, Move
  <1>22. CounterEffect
    BY <1>2, <1>6, <1>7, <1>10, <1>14, <1>18, <1>20, <1>21 DEF CounterEffect
  <1>23. stocktakes' \in Seq(Take) /\ DOMAIN stocktakes \subseteq DOMAIN stocktakes'
    BY <1>20, KeptRows
  <1>24. Counting'
    BY <1>5, <1>23, CountersGo, IdleCounter DEF Ends
  <1>25. /\ SameLines(t, o) /\ t.upto = Len(t.lines)
         /\ \A x \in Warehouses : t.posted[x] = o.posted[x] + Move(x, r, SumFunction(Found(t.lines)))
    BY <1>8, <1>14, <1>15, <1>18 DEF SameLines
  <1> QED
    BY <1>1, <1>2, <1>5, <1>7, <1>18, <1>20, <1>22, <1>24, <1>25

\* Every step about a stocktake saves one row and moves at most one warehouse.
LEMMA CounterStep ==
  ASSUME Counting, Stocked, NEW w \in Counters, S!StocktakeStep(w)
  PROVE  Counting' /\ CounterEffect
  <1>1. CASE \E u \in Users, r \in Warehouses : S!CreateStocktake(w, u, r)
    BY <1>1, CreateTake
  <1>2. ASSUME NEW n \in DOMAIN stocktakes,
               \/ \E kind \in {"retrieve", "complete"} : S!LoadStocktake(w, kind, n)
               \/ S!LoadCounts(w, n)
               \/ S!LoadEdit(w, n)
        PROVE  Counting' /\ CounterEffect
    <2>1. PICK kind, phase : /\ Enters(w, kind, phase, n)
                             /\ \/ kind \in Filling /\ phase = "ensure"
                                \/ kind \in Editing /\ phase = "loaded"
      BY <1>2, EnterSteps DEF Filling, Editing
    <2> QED
      BY <2>1, EnterStep
  <1>3. ASSUME NEW n \in DOMAIN stocktakes,
               \/ \E u \in Users : \/ \E approval \in Approvals : S!SubmitStocktake(w, n, u, approval)
                                   \/ S!ApproveStocktake(w, n, u)
               \/ \E system, actual \in Counts : S!AddItems(w, n, system, actual)
               \/ S!DestroyStocktake(w, n)
        PROVE  Counting' /\ CounterEffect
    BY <1>3, SubmitTake, ApproveTake, AddTake, DestroyTake
  <1>4. CASE S!FindNoLines(w) \/ S!FillLines(w) \/ S!Respond(w) \/ S!CompleteStocktake(w) \/ S!Abort(w)
    BY <1>4, FindTake, FillTake, RestTake, CompleteTake
  <1>5. CASE \E i \in 1 .. MaxLines, actual \in Counts : S!UpdateItems(w, i, actual)
    BY <1>5, UpdateTake
  <1>6. CASE \E r \in Warehouses : S!EditStocktake(w, r)
    BY <1>6, EditTake
  <1> QED
    BY <1>1, <1>2, <1>3, <1>4, <1>5, <1>6 DEF S!StocktakeStep

-----------------------------------------------------------------------------
(* What stocktakes come to. *)

PostedIn(x) == [t \in Take |-> t.posted[x]]

\* What the stocktakes wrote to warehouse x, and what the books started from and they wrote.
Written(x) == Column(stocktakes, PostedIn(x))
TotalBooks == SumFunction([r \in Warehouses |-> Initial[r] + Written(r)])

\* What stocktakes posted in a warehouse is a column.
LEMMA PostedColumn ==
  ASSUME NEW x \in Warehouses
  PROVE  IsColumn(PostedIn(x), Take)
  <1>1. \A t \in Take : t.posted[x] \in Int
    BY TakeFields
  <1> QED
    BY <1>1 DEF IsColumn, PostedIn

\* What they posted comes to an integer.
LEMMA WrittenIs ==
  ASSUME Counting, NEW x \in Warehouses
  PROVE  S!NetCounted(x) = Written(x) /\ Written(x) \in Int
  <1>1. AreRows(stocktakes, Take)
    BY RowsOf DEF Counting
  <1>2. [n \in DOMAIN stocktakes |-> stocktakes[n].posted[x]]
          = [n \in DOMAIN stocktakes |-> PostedIn(x)[stocktakes[n]]]
    BY <1>1 DEF AreRows, PostedIn
  <1> QED
    BY <1>1, <1>2, PostedColumn, ColumnSums, SameSums DEF S!NetCounted, Written, Column

\* A warehouse moves by what a stocktake posts.
LEMMA WritingTold ==
  ASSUME Counting, Counting', Stocked, CounterEffect, NEW x \in Warehouses
  PROVE  /\ Written(x) \in Int /\ Written(x)' \in Int
         /\ stock' \in [Warehouses -> Positions]
         /\ stock'[x].current - stock[x].current = Written(x)' - Written(x)
  <1>1. PICK ts : ts = stocktakes'
    OBVIOUS
  <1>2. AreRows(stocktakes, Take) /\ AreRows(ts, Take)
    BY <1>1, RowsOf DEF Counting
  <1>3. PICK a : a = Column(stocktakes, PostedIn(x))
    OBVIOUS
  <1>4. PICK b : b = Column(ts, PostedIn(x))
    OBVIOUS
  <1>5. a \in Int /\ b \in Int
    BY <1>2, <1>3, <1>4, PostedColumn, ColumnSums
  <1>6. Written(x) = a /\ Written(x)' = b
    BY <1>1, <1>3, <1>4 DEF Written
  <1>7. stock[x].current \in Int
    BY DEF Stocked, Positions
  <1>8. CASE stock' = stock /\ stocktakes' = stocktakes
    BY <1>1, <1>3, <1>4, <1>5, <1>6, <1>7, <1>8 DEF Stocked
  <1>9. CASE stock' = stock /\ \E t \in Take : Fresh(t) /\ stocktakes' = Append(stocktakes, t)
    <2>1. PICK t \in Take : Fresh(t) /\ ts = Append(stocktakes, t)
      BY <1>1, <1>9
    <2>2. RowAdded(stocktakes, ts, Len(stocktakes) + 1) /\ ts[Len(stocktakes) + 1] = t
      BY <2>1, RowAppended DEF Counting
    <2>3. b = a + PostedIn(x)[t]
      BY <1>2, <1>3, <1>4, <2>2, PostedColumn, ColumnMade
    <2>4. PostedIn(x)[t] = 0
      BY <2>1 DEF PostedIn, Fresh
    <2> QED
      BY <1>5, <1>6, <1>7, <1>9, <2>3, <2>4 DEF Stocked
  <1>10. ASSUME NEW n \in DOMAIN stocktakes, NEW t \in Take, NEW r \in Warehouses, NEW d \in Int,
                Kept(n, t), Moved(r, d), t.posted[x] = stocktakes[n].posted[x] + Move(x, r, d)
         PROVE  /\ stock' \in [Warehouses -> Positions]
                /\ stock'[x].current - stock[x].current = b - a
    <2>1. PICK o : o = stocktakes[n]
      OBVIOUS
    <2>2. o \in Take
      BY <1>2, <2>1 DEF AreRows
    <2>3. RowChanged(stocktakes, ts, n) /\ ts[n] = t
      BY <1>1, <1>10 DEF Kept, RowChanged
    <2>4. b = a + (PostedIn(x)[t] - PostedIn(x)[o])
      BY <1>2, <1>3, <1>4, <2>1, <2>3, PostedColumn, ColumnChanged
    <2>5. /\ PostedIn(x)[t] = t.posted[x] /\ PostedIn(x)[o] = o.posted[x]
          /\ t.posted[x] \in Int /\ o.posted[x] \in Int
      BY <2>2, TakeFields DEF PostedIn
    <2>6. stock'[x].current = stock[x].current + Move(x, r, d) /\ Move(x, r, d) \in Int
      BY <1>10 DEF Moved, Move
    <2> QED
      BY <1>5, <1>7, <1>10, <2>1, <2>4, <2>5, <2>6 DEF Moved
  <1> QED
    BY <1>5, <1>6, <1>8, <1>9, <1>10 DEF CounterEffect

\* The totals move together.
LEMMA TotalsMove ==
  ASSUME Counting, Counting', Stocked, CounterEffect
  PROVE  /\ TotalStock \in Int /\ TotalStock' \in Int
         /\ TotalBooks \in Int /\ TotalBooks' \in Int
         /\ TotalStock' - TotalStock = TotalBooks' - TotalBooks
  <1>1. PICK f : f = [x \in Warehouses |-> stock[x].current]
    OBVIOUS
  <1>2. PICK g : g = [x \in Warehouses |-> stock'[x].current]
    OBVIOUS
  <1>3. PICK a : a = [x \in Warehouses |-> Initial[x] + Written(x)]
    OBVIOUS
  <1>4. PICK b : b = [x \in Warehouses |-> Initial[x] + Written(x)']
    OBVIOUS
  <1>5. PICK h : h = [x \in Warehouses |-> f[x] + b[x]]
    OBVIOUS
  <1>6. \A x \in Warehouses : Initial[x] \in Int
    BY InitialAssumption
  <1>7. \A x \in Warehouses : stock[x].current \in Int /\ stock'[x].current \in Int
    <2> TAKE x \in Warehouses
    <2>1. stock' \in [Warehouses -> Positions]
      BY WritingTold
    <2> QED
      BY <2>1 DEF Stocked, Positions
  <1>8. /\ f \in [Warehouses -> Int] /\ g \in [Warehouses -> Int]
        /\ a \in [Warehouses -> Int] /\ b \in [Warehouses -> Int] /\ h \in [Warehouses -> Int]
    BY <1>1, <1>2, <1>3, <1>4, <1>5, <1>6, <1>7, WritingTold
  <1>9. \A x \in Warehouses : h[x] = f[x] + b[x] /\ h[x] = g[x] + a[x]
    <2> TAKE x \in Warehouses
    <2>1. stock'[x].current - stock[x].current = Written(x)' - Written(x)
      BY WritingTold
    <2>2. Written(x) \in Int /\ Written(x)' \in Int
      BY WritingTold
    <2>3. PICK i, c, k, v, z : /\ i = Initial[x] /\ c = stock[x].current /\ k = stock'[x].current
                               /\ v = Written(x) /\ z = Written(x)'
      OBVIOUS
    <2>4. f[x] = c /\ g[x] = k /\ a[x] = i + v /\ b[x] = i + z /\ h[x] = f[x] + b[x]
      BY <1>1, <1>2, <1>3, <1>4, <1>5, <2>3
    <2>5. i \in Int /\ c \in Int /\ k \in Int /\ v \in Int /\ z \in Int /\ k - c = z - v
      BY <1>6, <1>7, <2>1, <2>2, <2>3
    <2>6. c + (i + z) = k + (i + v)
      BY <2>5
    <2> QED
      BY <2>4, <2>6
  <1>10. /\ SumFunction(h) = SumFunction(f) + SumFunction(b)
         /\ SumFunction(h) = SumFunction(g) + SumFunction(a)
    BY <1>8, <1>9, InitialAssumption, SumPlus
  <1>11. /\ SumFunction(f) \in Int /\ SumFunction(g) \in Int
         /\ SumFunction(a) \in Int /\ SumFunction(b) \in Int
    BY <1>8, InitialAssumption, SumType
  <1>12. /\ TotalStock = SumFunction(f) /\ TotalStock' = SumFunction(g)
         /\ TotalBooks = SumFunction(a) /\ TotalBooks' = SumFunction(b)
    BY <1>1, <1>2, <1>3, <1>4 DEF TotalStock, TotalBooks
  <1> QED
    BY <1>10, <1>11, <1>12

-----------------------------------------------------------------------------
(* The documents explain the stock. *)

\* The warehouses hold what they held, what transfers brought and what stocktakes wrote.
Told ==
  ~ overlapping => \A r \in Warehouses : stock[r].current = Initial[r] + Gained(r) + Written(r)

Explains ==
  /\ Transferring /\ Counting /\ Stocked
  /\ TotalStock + InTransit <= TotalBooks
  /\ Told

\* At the start no document is there and the books hold the stock.
LEMMA ExplainsInit == Init => Explains
  <1> SUFFICES ASSUME Init PROVE Explains
    OBVIOUS
  <1>1. /\ transfers = << >> /\ carrying = [w \in Carriers |-> T!Idle]
        /\ stocktakes = << >> /\ counting = [w \in Counters |-> S!Idle]
        /\ overlapping \in BOOLEAN
    BY DEF Init, T!Init, S!Init
  <1>2. \A r \in Warehouses : stock[r] \in Positions /\ stock[r].current = Initial[r]
    <2> TAKE r \in Warehouses
    <2>1. PICK i \in Int : i = Initial[r]
      BY InitialAssumption
    <2>2. stock[r] = [NoPosition EXCEPT !.exists = i > 0, !.current = i]
      BY <2>1 DEF Init
    <2>3. PICK e \in BOOLEAN : stock[r] = [NoPosition EXCEPT !.exists = e, !.current = i]
      <3>1. (i > 0) \in BOOLEAN
        OBVIOUS
      <3> QED
        BY <2>2, <3>1
    <2>4. stock[r] = [exists |-> e, current |-> i, locked |-> 0, log |-> << >>]
      BY <2>3 DEF NoPosition
    <2>5. << >> \in Seq(Movements)
      OBVIOUS
    <2> QED
      BY <2>1, <2>4, <2>5 DEF Positions
  <1>3. Stocked
    <2>1. DOMAIN stock = Warehouses /\ stock = [r \in Warehouses |-> stock[r]]
      BY DEF Init
    <2> QED
      BY <1>1, <1>2, <2>1 DEF Stocked
  <1>4. Transferring
    <2>1. transfers \in Seq(Carriage) /\ DOMAIN transfers = {}
      BY <1>1
    <2>2. \A w \in Carriers : carrying[w] = T!Idle
      BY <1>1
    <2> QED
      BY <1>1, <2>1, <2>2, CarrierIsOne, IdleCarrier DEF Transferring, Carries, CarriesAlone
  <1>5. Counting
    <2>1. stocktakes \in Seq(Take)
      BY <1>1
    <2> QED
      BY <1>1, <2>1, IdleCounter DEF Counting, JobOn
  <1>6. DOMAIN transfers = {} /\ DOMAIN stocktakes = {}
    BY <1>1
  <1>7. InTransit = 0 /\ \A r : Gained(r) = 0 /\ Written(r) = 0
    BY <1>6, ColumnEmpty DEF InTransit, Gained, Written
  <1>8. TotalStock = SumFunction(Initial) /\ TotalBooks = SumFunction(Initial)
    <2>1. \A r \in Warehouses : Initial[r] \in Int
      BY InitialAssumption
    <2>2. [r \in Warehouses |-> stock[r].current] = Initial
      BY <1>2, InitialAssumption
    <2>3. [r \in Warehouses |-> Initial[r] + Written(r)] = Initial
      <3>1. \A r \in Warehouses : Initial[r] + Written(r) = Initial[r]
        BY <1>7, <2>1
      <3> QED
        BY <3>1, InitialAssumption
    <2> QED
      BY <2>2, <2>3 DEF TotalStock, TotalBooks
  <1>9. SumFunction(Initial) \in Int
    BY InitialAssumption, SumType
  <1>10. Told
    <2>1. \A r \in Warehouses : Initial[r] \in Int
      BY InitialAssumption
    <2> QED
      BY <1>2, <1>7, <2>1 DEF Told
  <1> QED
    BY <1>3, <1>4, <1>5, <1>7, <1>8, <1>9, <1>10 DEF Explains

\* A step about transfers keeps the equation.
LEMMA TransferExplains ==
  ASSUME Explains, Transfer
  PROVE  Explains'
  <1>1. PICK w \in Carriers : Served(w) /\ T!TransferStep(w)
    BY CarrierIsOne DEF Transfer, Served
  <1>2. UNCHANGED <<stocktakes, counting, overlapping>>
    BY DEF Transfer
  <1>3. Transferring' /\ CarrierEffect
    BY <1>1, <1>2, CarrierStep DEF Explains
  <1>4. Counting'
    BY <1>2 DEF Explains, Counting
  <1>5. /\ stock' \in [Warehouses -> Positions]
        /\ TotalStock \in Int /\ TotalStock' \in Int
        /\ TotalStock' + InTransit' <= TotalStock + InTransit
    BY <1>3, NothingGained DEF Explains
  <1>6. TotalBooks' = TotalBooks /\ \A x : Written(x)' = Written(x)
    BY <1>2 DEF TotalBooks, Written
  <1>7. TotalStock' + InTransit' <= TotalBooks'
    <2>1. InTransit \in Int /\ InTransit' \in Int
      <3>1. AreRows(transfers, Carriage) /\ AreRows(transfers', Carriage)
        BY <1>3, RowsOf DEF Explains, Transferring
      <3> QED
        BY <3>1, CarriageColumns, ColumnSums DEF InTransit
    <2>2. TotalBooks \in Int
      <3>1. \A r \in Warehouses : Written(r) \in Int /\ Initial[r] \in Int
        BY WrittenIs, InitialAssumption DEF Explains
      <3>2. [r \in Warehouses |-> Initial[r] + Written(r)] \in [Warehouses -> Int]
        BY <3>1
      <3> QED
        BY <3>2, InitialAssumption, SumType DEF TotalBooks
    <2>3. TotalStock + InTransit <= TotalBooks
      BY DEF Explains
    <2>4. PICK a, b, c, d, e : /\ a = TotalStock /\ b = InTransit /\ c = TotalBooks
                               /\ d = TotalStock' /\ e = InTransit'
      OBVIOUS
    <2>5. a \in Int /\ b \in Int /\ c \in Int /\ d \in Int /\ e \in Int
      BY <1>5, <2>1, <2>2, <2>4
    <2>6. d + e <= a + b /\ a + b <= c
      BY <1>5, <2>3, <2>4
    <2>7. d + e <= c
      BY <2>5, <2>6
    <2> QED
      BY <1>6, <2>4, <2>7
  <1>8. Told'
    <2> SUFFICES ASSUME ~ overlapping, NEW r \in Warehouses
                 PROVE  stock'[r].current = Initial[r] + Gained(r)' + Written(r)'
      BY <1>2 DEF Told
    <2>1. stock'[r].current - stock[r].current = Gained(r)' - Gained(r)
      BY <1>3, GainTold DEF Explains
    <2>2. stock[r].current = Initial[r] + Gained(r) + Written(r)
      BY DEF Explains, Told
    <2>3. Gained(r) \in Int /\ Written(r) \in Int /\ Initial[r] \in Int
      BY GainedType, WrittenIs, InitialAssumption DEF Explains
    <2>4. Gained(r)' \in Int
      <3>1. AreRows(transfers', Carriage)
        BY <1>3, RowsOf DEF Transferring
      <3>2. /\ Column(transfers', Arriving(r)) \in Int /\ Column(transfers', Departing(r)) \in Int
        BY <3>1, CarriageColumns, ColumnSums
      <3> QED
        BY <3>2 DEF Gained
    <2>5. stock'[r].current \in Int
      BY <1>5 DEF Positions
    <2>6. Written(r)' = Written(r)
      BY <1>6
    <2> QED
      BY <2>1, <2>2, <2>3, <2>4, <2>5, <2>6
  <1> QED
    BY <1>2, <1>3, <1>4, <1>5, <1>7, <1>8 DEF Explains, Stocked

\* So does one about stocktakes.
LEMMA CountExplains ==
  ASSUME Explains, Count
  PROVE  Explains'
  <1>1. PICK w \in Counters : S!StocktakeStep(w)
    BY DEF Count, S!Next
  <1>2. UNCHANGED <<transfers, carrying, overlapping>>
    BY DEF Count
  <1>3. Counting' /\ CounterEffect
    BY <1>1, CounterStep DEF Explains
  <1>4. Transferring'
    BY <1>2 DEF Explains, Transferring, Carries, CarriesAlone, Carrier
  <1>5. \A r \in Warehouses : /\ Written(r) \in Int /\ Written(r)' \in Int
                              /\ stock' \in [Warehouses -> Positions]
                              /\ stock'[r].current - stock[r].current = Written(r)' - Written(r)
    BY <1>3, WritingTold DEF Explains
  <1>6. Stocked'
    <2>1. CASE Warehouses = {}
      <3>1. stock' \in [Warehouses -> Positions]
        BY <1>3, <2>1, RowNumbers DEF CounterEffect, Moved, Explains, Stocked
      <3> QED
        BY <1>2, <3>1 DEF Explains, Stocked
    <2>2. CASE Warehouses # {}
      BY <1>2, <1>5, <2>2 DEF Explains, Stocked
    <2> QED
      BY <2>1, <2>2
  <1>7. /\ TotalStock \in Int /\ TotalStock' \in Int
        /\ TotalBooks \in Int /\ TotalBooks' \in Int
        /\ TotalStock' - TotalStock = TotalBooks' - TotalBooks
    BY <1>3, TotalsMove DEF Explains
  <1>8. InTransit' = InTransit /\ InTransit \in Int /\ \A x : Gained(x)' = Gained(x)
    <2>1. InTransit \in Int
      <3>1. AreRows(transfers, Carriage)
        BY RowsOf DEF Explains, Transferring
      <3> QED
        BY <3>1, CarriageColumns, ColumnSums DEF InTransit
    <2> QED
      BY <1>2, <2>1 DEF InTransit, Gained
  <1>9. TotalStock' + InTransit' <= TotalBooks'
    <2>1. TotalStock + InTransit <= TotalBooks
      BY DEF Explains
    <2>2. PICK a, b, c, d, e : /\ a = TotalStock /\ b = InTransit /\ c = TotalBooks
                               /\ d = TotalStock' /\ e = TotalBooks'
      OBVIOUS
    <2>3. a \in Int /\ b \in Int /\ c \in Int /\ d \in Int /\ e \in Int
      BY <1>7, <1>8, <2>2
    <2>4. d - a = e - c /\ a + b <= c
      BY <1>7, <2>1, <2>2
    <2>5. d + b <= e
      BY <2>3, <2>4
    <2> QED
      BY <1>8, <2>2, <2>5
  <1>10. Told'
    <2> SUFFICES ASSUME ~ overlapping, NEW r \in Warehouses
                 PROVE  stock'[r].current = Initial[r] + Gained(r)' + Written(r)'
      BY <1>2 DEF Told
    <2>1. stock'[r].current - stock[r].current = Written(r)' - Written(r)
      BY <1>5
    <2>2. stock[r].current = Initial[r] + Gained(r) + Written(r)
      BY DEF Explains, Told
    <2>3. /\ Gained(r) \in Int /\ Written(r) \in Int /\ Written(r)' \in Int /\ Initial[r] \in Int
      BY <1>5, GainedType, InitialAssumption DEF Explains
    <2>4. stock'[r].current \in Int /\ Gained(r)' = Gained(r)
      BY <1>6, <1>8 DEF Stocked, Positions
    <2>5. PICK a, b, c, d, e, g : /\ a = stock[r].current /\ b = stock'[r].current /\ c = Initial[r]
                                  /\ d = Written(r) /\ e = Written(r)' /\ g = Gained(r)
      OBVIOUS
    <2>6. b \in Int /\ c \in Int /\ d \in Int /\ e \in Int /\ g \in Int
      BY <2>3, <2>4, <2>5
    <2>7. b - a = e - d /\ a = c + g + d
      BY <2>1, <2>2, <2>5
    <2>8. b = c + g + e
      BY <2>6, <2>7
    <2> QED
      BY <2>4, <2>5, <2>8
  <1> QED
    BY <1>3, <1>4, <1>6, <1>9, <1>10 DEF Explains

\* So does every step.
LEMMA ExplainsStep == Explains /\ [Next]_vars => Explains'
  <1> SUFFICES ASSUME Explains, [Next]_vars PROVE Explains'
    OBVIOUS
  <1>1. CASE Transfer
    BY <1>1, TransferExplains
  <1>2. CASE Count
    BY <1>2, CountExplains
  <1>3. CASE UNCHANGED vars
    BY <1>3 DEF vars, Explains, Transferring, Carries, CarriesAlone, Carrier, Counting, Stocked,
                Told, Gained, Written, TotalStock, TotalBooks, InTransit
  <1> QED
    BY <1>1, <1>2, <1>3 DEF Next

\* The types the two modules ask for.
LEMMA ExplainsTypes ==
  ASSUME Explains
  PROVE  TypeOK
  <1>1. T!TypeOK
    <2>1. \A n \in DOMAIN transfers : transfers[n] \in Carriage
      BY RowNumbers DEF Explains, Transferring
    <2>2. ASSUME NEW w \in Carriers
          PROVE  /\ carrying[w].kind \in DOMAIN T!Expected \cup {"idle"}
                 /\ carrying[w].number \in {0} \cup DOMAIN transfers
      <3>1. carrying[w] \in CarrierJob /\ Carries(w)
        BY DEF Explains, Transferring
      <3>2. T!Idle.number = 0
        BY DEF T!Idle
      <3> QED
        BY <3>1, <3>2, IdleCarrier DEF CarrierJob, Carries
    <2> QED
      BY <2>1, <2>2 DEF T!TypeOK, Carriage
  <1>2. S!TypeOK
    <2>1. stocktakes \in Seq(S!StocktakeRows)
      BY DEF Explains, Counting, Take
    <2>2. ASSUME NEW w \in Counters
          PROVE  /\ counting[w].kind \in CounterRequests \cup {"idle"}
                 /\ counting[w].phase \in {"idle", "ensure", "empty", "filled", "loaded"}
                 /\ counting[w].number \in {0} \cup DOMAIN stocktakes
      <3>1. counting[w] \in CounterJob /\ JobOn(counting[w], DOMAIN stocktakes)
        BY DEF Explains, Counting
      <3>2. S!Idle.number = 0
        BY DEF S!Idle
      <3> QED
        BY <3>1, <3>2, IdleCounter DEF CounterJob, JobOn
    <2> QED
      BY <2>1, <2>2 DEF S!TypeOK
  <1> QED
    BY <1>1, <1>2 DEF TypeOK, Explains, Stocked

\* The invariant gives the property.
LEMMA ExplainsStock ==
  ASSUME Explains
  PROVE  StockExplained
  <1>1. TypeOK
    BY ExplainsTypes
  <1>2. NothingFromNothing
    <2>1. PICK f : f = [r \in Warehouses |-> stock[r].current]
      OBVIOUS
    <2>2. PICK g : g = [r \in Warehouses |-> T!Out(r, {"IN_TRANSIT"})]
      OBVIOUS
    <2>3. PICK h : h = [r \in Warehouses |-> stock[r].current + T!Out(r, {"IN_TRANSIT"})]
      OBVIOUS
    <2>4. \A r \in Warehouses : stock[r].current \in Int /\ T!Out(r, {"IN_TRANSIT"}) \in Int
      BY InTransitIs DEF Explains, Stocked, Positions
    <2>5. /\ f \in [Warehouses -> Int] /\ g \in [Warehouses -> Int] /\ h \in [Warehouses -> Int]
          /\ \A r \in Warehouses : h[r] = f[r] + g[r]
      BY <2>1, <2>2, <2>3, <2>4
    <2>6. SumFunction(h) = SumFunction(f) + SumFunction(g)
      BY <2>5, InitialAssumption, SumPlus
    <2>7. SumFunction(f) = TotalStock /\ SumFunction(g) = InTransit
      BY <2>1, <2>2, InTransitIs DEF TotalStock, Explains
    <2>8. TotalBooks = SumFunction([r \in Warehouses |-> Initial[r] + S!NetCounted(r)])
      <3>1. \A r \in Warehouses : S!NetCounted(r) = Written(r)
        BY WrittenIs DEF Explains
      <3>2. [r \in Warehouses |-> Initial[r] + S!NetCounted(r)]
              = [r \in Warehouses |-> Initial[r] + Written(r)]
        BY <3>1
      <3> QED
        BY <3>2 DEF TotalBooks
    <2> QED
      BY <2>3, <2>6, <2>7, <2>8 DEF NothingFromNothing, Explains
  <1>3. ~ overlapping => \A r \in Warehouses :
          stock[r].current = Initial[r] + T!NetTransferred(r) + S!NetCounted(r)
    BY GainedIs, WrittenIs DEF Explains, Told
  <1> QED
    BY <1>1, <1>2, <1>3 DEF StockExplained

(***************************************************************************)
(* The documents explain the stock, whatever stale statuses are written:   *)
(* TransferService and StocktakeViewSet, for any number of warehouses,     *)
(* transfers, stocktakes, users and requests under way.                    *)
(***************************************************************************)
THEOREM TheStockIsExplained == Spec => []StockExplained
  <1>1. Init => Explains
    BY ExplainsInit
  <1>2. Explains /\ [Next]_vars => Explains'
    BY ExplainsStep
  <1>3. Explains => StockExplained
    BY ExplainsStock
  <1> QED
    BY <1>1, <1>2, <1>3, PTL DEF Spec

-----------------------------------------------------------------------------
(* Each stocktake is filled once and posted once. *)

\* No request that fills a stocktake is served beside another request.
FillsAlone == Filling \cap CounterRacing = {}

Ended(t) == t.status = "COMPLETED"

OneBooked(lines) == \A i, j \in DOMAIN lines : lines[i].booked /\ lines[j].booked => i = j

Unposted(t) == t.upto = 0 /\ \A x \in Warehouses : t.posted[x] = 0

RowFine(t) ==
  /\ t.upto <= Len(t.lines)
  /\ ~ Ended(t) => Unposted(t)
  /\ OneBooked(t.lines)
  /\ PostedRight(t)

\* What a request under way knows of the stocktake it is about.
JobFine(w) ==
  /\ counting[w].kind \in Filling => \A v \in Counters \ {w} : counting[v] = S!Idle
  /\ counting[w].phase = "empty" => stocktakes[counting[w].number].lines = << >>
  /\ counting[w].kind = "update_items" => ~ Ended(stocktakes[counting[w].number])
  /\ counting[w].kind = "edit" => (Ended(counting[w].row) <=> Ended(stocktakes[counting[w].number]))

CountFine ==
  /\ \A n \in DOMAIN stocktakes : RowFine(stocktakes[n])
  /\ \A w \in Counters : JobFine(w)

\* A request that fills goes through three phases; the others do not.
LEMMA Phases ==
  ASSUME Counting, NEW w \in Counters
  PROVE  /\ counting[w].phase = "empty" => counting[w].kind \in Filling
         /\ counting[w].kind \in Filling => counting[w].kind \notin Editing
         /\ counting[w].kind \in Filling \cup Editing \cup {"idle"}
         /\ counting[w].kind \in CounterRequests \cup {"idle"}
         /\ counting[w].kind = "idle" <=> counting[w] = S!Idle
         /\ counting[w].kind # "idle" => counting[w].number \in DOMAIN stocktakes
  <1>1. JobOn(counting[w], DOMAIN stocktakes) /\ counting[w] \in CounterJob
    BY DEF Counting
  <1>2. counting[w].kind \in Filling \cup Editing \cup {"idle"} /\ counting[w].kind \in CounterRequests \cup {"idle"}
    BY <1>1 DEF CounterJob
  <1>3. counting[w].phase = "empty" => counting[w].kind \in Filling
    BY <1>1, <1>2, IdleCounter DEF JobOn
  <1> QED
    BY <1>1, <1>2, <1>3 DEF JobOn, Filling, Editing

\* The worker takes up a request, or is at one: no other one fills a stocktake.
Active(w) == (\E kind : S!MayStart(w, kind)) \/ counting[w] # S!Idle

\* Where filling is served alone, nobody else fills lines in while somebody
\* acts.
LEMMA OthersDoNotFill ==
  ASSUME Counting, CountFine, FillsAlone, NEW w \in Counters, Active(w), NEW v \in Counters \ {w}
  PROVE  counting[v].kind \notin Filling /\ counting[v].phase # "empty"
  <1>1. SUFFICES ASSUME counting[v].kind \in Filling PROVE FALSE
    BY Phases
  <1>2. counting[v] # S!Idle
    BY <1>1, IdleCounter DEF Filling
  <1>3. counting[w] = S!Idle
    BY <1>1 DEF CountFine, JobFine
  <1>4. PICK kind : S!MayStart(w, kind)
    BY <1>3 DEF Active
  <1> QED
    BY <1>1, <1>2, <1>4 DEF S!MayStart, FillsAlone

\* One row is saved as one that is fine, by a worker that rests then.
LEMMA SaveFine ==
  ASSUME Counting, CountFine, FillsAlone, NEW w \in Counters, Active(w),
         NEW n, NEW t, Kept(n, t), RowFine(t),
         Ends(w) \/ (UNCHANGED counting /\ counting[w] = S!Idle),
         (Ended(t) <=> Ended(stocktakes[n])) \/ \A v \in Counters \ {w} : counting[v] = S!Idle
  PROVE  CountFine'
  <1>1. n \in DOMAIN stocktakes /\ stocktakes' = [stocktakes EXCEPT ![n] = t]
    BY DEF Kept
  <1>2. DOMAIN stocktakes' = DOMAIN stocktakes /\ \A i \in DOMAIN stocktakes :
          stocktakes'[i] = IF i = n THEN t ELSE stocktakes[i]
    BY <1>1
  <1>3. \A i \in DOMAIN stocktakes' : RowFine(stocktakes'[i])
    BY <1>2 DEF CountFine
  <1>4. counting'[w] = S!Idle /\ \A v \in Counters \ {w} : counting'[v] = counting[v]
    BY DEF Ends, Counting
  <1>5. JobFine(w)'
    BY <1>4, IdleCounter DEF JobFine, Filling
  <1>6. ASSUME NEW v \in Counters \ {w}
        PROVE  JobFine(v)'
    <2>1. counting'[v] = counting[v] /\ counting[v].kind \notin Filling /\ counting[v].phase # "empty"
      BY <1>4, OthersDoNotFill
    <2>2. CASE counting[v] = S!Idle
      BY <2>1, <2>2, IdleCounter DEF JobFine, Filling
    <2>3. CASE counting[v] # S!Idle
      <3>1. counting[v].number \in DOMAIN stocktakes /\ JobFine(v)
        BY <2>3, Phases DEF CountFine
      <3>2. Ended(t) <=> Ended(stocktakes[n])
        BY <2>3
      <3>3. PICK j : j = counting[v]
        OBVIOUS
      <3>4. Ended(stocktakes'[j.number]) <=> Ended(stocktakes[j.number])
        BY <1>2, <3>1, <3>2, <3>3
      <3> QED
        BY <2>1, <3>1, <3>3, <3>4 DEF JobFine, Ended
    <2> QED
      BY <2>2, <2>3
  <1> QED
    BY <1>3, <1>5, <1>6 DEF CountFine

\* The row as it is made.
LEMMA FreshFine ==
  ASSUME NEW t \in Take, Fresh(t)
  PROVE  RowFine(t) /\ ~ Ended(t)
  <1>1. t.lines = << >> /\ t.upto = 0 /\ t.status = "DRAFT"
    BY DEF Fresh
  <1>2. SumFunction(t.posted) = 0
    BY TakeFields, InitialAssumption, SumZero DEF Fresh
  <1>3. SumFunction(Found(SubSeq(t.lines, 1, t.upto))) = 0
    <2>1. DOMAIN Found(SubSeq(t.lines, 1, t.upto)) = {}
      BY <1>1 DEF Found
    <2> QED
      BY <2>1, SumEmpty
  <1> QED
    BY <1>1, <1>2, <1>3 DEF RowFine, Ended, Unposted, OneBooked, PostedRight, Fresh

\* The lines and what was posted are as they were.
LEMMA SameFine ==
  ASSUME NEW o, NEW t, RowFine(o), SameLines(t, o), SamePosting(t, o), Ended(t) <=> Ended(o)
  PROVE  RowFine(t)
  BY DEF RowFine, SameLines, SamePosting, Unposted, PostedRight

\* A line is added by hand, or from the books to a stocktake that has none.
LEMMA MoreFine ==
  ASSUME NEW o \in Take, NEW t, NEW line \in Line, RowFine(o), SamePosting(t, o), SameStatus(t, o),
         t.lines = Append(o.lines, line), o.lines = << >> \/ ~ line.booked
  PROVE  RowFine(t)
  <1>1. PICK ls : ls = o.lines
    OBVIOUS
  <1>2. PICK k : k = o.upto
    OBVIOUS
  <1>3. ls \in Seq(Line) /\ k \in Nat /\ k <= Len(ls) /\ Len(ls) \in Nat
    BY <1>1, <1>2, TakeFields DEF RowFine
  <1>4. PICK ms : ms = Append(ls, line)
    OBVIOUS
  <1>5. /\ Len(ms) = Len(ls) + 1 /\ ms \in Seq(Line) /\ DOMAIN ls = 1 .. Len(ls)
        /\ DOMAIN ms = DOMAIN ls \cup {Len(ls) + 1}
        /\ \A i \in DOMAIN ls : ms[i] = ls[i]
        /\ ms[Len(ls) + 1] = line
    BY <1>3, <1>4, RowMade, RowNumbers
  <1>6. SubSeq(ms, 1, k) = SubSeq(ls, 1, k)
    BY <1>3, <1>5
  <1>7. OneBooked(ms)
    <2>1. \A i \in DOMAIN ms : ms[i].booked => (i \in DOMAIN ls \/ DOMAIN ls = {})
      BY <1>1, <1>5
    <2> QED
      BY <1>1, <1>5, <2>1 DEF OneBooked, RowFine
  <1>8. t.lines = ms /\ t.upto = k /\ t.posted = o.posted /\ t.status = o.status
    BY <1>1, <1>2, <1>4 DEF SamePosting, SameStatus
  <1>9. k <= Len(ms)
    BY <1>3, <1>5
  <1> QED
    BY <1>1, <1>2, <1>6, <1>7, <1>8, <1>9 DEF RowFine, Ended, Unposted, PostedRight

\* A count is entered while nothing is posted.
LEMMA EnteredFine ==
  ASSUME NEW o \in Take, NEW t \in Take, RowFine(o), ~ Ended(o), SamePosting(t, o), SameStatus(t, o),
         DOMAIN t.lines = DOMAIN o.lines,
         \A k \in DOMAIN t.lines : t.lines[k].booked = o.lines[k].booked
  PROVE  RowFine(t)
  <1>1. Unposted(o) /\ Unposted(t) /\ ~ Ended(t)
    BY DEF RowFine, Unposted, SamePosting, SameStatus, Ended
  <1>2. OneBooked(t.lines)
    BY DEF OneBooked, RowFine
  <1>3. SumFunction(t.posted) = 0
    BY <1>1, TakeFields, InitialAssumption, SumZero DEF Unposted
  <1>4. SumFunction(Found(SubSeq(t.lines, 1, t.upto))) = 0
    <2>1. t.lines \in Seq(Line) /\ t.upto = 0
      BY <1>1, TakeFields DEF Unposted
    <2>2. DOMAIN SubSeq(t.lines, 1, 0) = {}
      BY <2>1
    <2>3. DOMAIN Found(SubSeq(t.lines, 1, t.upto)) = {}
      BY <2>1, <2>2 DEF Found
    <2> QED
      BY <2>3, SumEmpty
  <1>5. t.upto <= Len(t.lines)
    BY <1>1, TakeFields DEF Unposted
  <1> QED
    BY <1>1, <1>2, <1>3, <1>4, <1>5 DEF RowFine, PostedRight

\* All the lines are posted.
LEMMA PostedFine ==
  ASSUME NEW o \in Take, NEW t \in Take, RowFine(o), ~ Ended(o), Ended(t), SameLines(t, o),
         t.upto = Len(t.lines), NEW r \in Warehouses,
         \A x \in Warehouses :
           t.posted[x] = o.posted[x] + Move(x, r, SumFunction(Found(t.lines)))
  PROVE  RowFine(t)
  <1>1. PICK d : d = SumFunction(Found(t.lines))
    OBVIOUS
  <1>2. PICK ls : ls = t.lines
    OBVIOUS
  <1>3. ls \in Seq(Line) /\ Len(ls) \in Nat
    BY <1>2, TakeFields
  <1>4. d \in Int
    BY <1>1, <1>2, <1>3, FoundType, SumType
  <1>5. o.posted \in [Warehouses -> Int] /\ t.posted \in [Warehouses -> Int]
    BY TakeFields
  <1>6. \A x \in Warehouses : o.posted[x] = 0
    BY DEF RowFine, Unposted
  <1>7. \A x \in Warehouses : t.posted[x] = IF x = r THEN d ELSE 0
    BY <1>1, <1>4, <1>6 DEF Move
  <1>8. SumFunction(t.posted) = d
    <2>1. SumFunction(o.posted) = 0
      BY <1>5, <1>6, InitialAssumption, SumZero
    <2>2. \A x \in Warehouses \ {r} : t.posted[x] = o.posted[x]
      BY <1>6, <1>7
    <2>3. SumFunction(t.posted) = SumFunction(o.posted) + (t.posted[r] - o.posted[r])
      BY <1>5, <2>2, InitialAssumption, SumChange
    <2> QED
      BY <1>4, <1>6, <1>7, <2>1, <2>3
  <1>9. SubSeq(ls, 1, Len(ls)) = ls
    BY <1>3
  <1>10. PostedRight(t)
    BY <1>1, <1>2, <1>8, <1>9 DEF PostedRight
  <1>11. OneBooked(t.lines) /\ t.upto <= Len(t.lines)
    BY <1>2, <1>3 DEF RowFine, SameLines
  <1> QED
    BY <1>10, <1>11 DEF RowFine

\* A request is taken up on a row that is there.
LEMMA EnterFine ==
  ASSUME Counting, CountFine, FillsAlone, NEW w \in Counters, NEW kind, NEW phase, NEW n,
         Enters(w, kind, phase, n),
         (kind \in Filling /\ phase = "ensure") \/ (kind \in Editing /\ phase = "loaded"),
         kind = "update_items" => stocktakes[n].status = "DRAFT"
  PROVE  CountFine'
  <1>1. PICK j : j = [kind |-> kind, phase |-> phase, number |-> n, row |-> stocktakes[n]]
    OBVIOUS
  <1>2. /\ S!MayStart(w, kind) /\ n \in DOMAIN stocktakes /\ stocktakes' = stocktakes
        /\ counting' = [counting EXCEPT ![w] = j]
    BY <1>1 DEF Enters
  <1>3. counting'[w] = j /\ \A v \in Counters \ {w} : counting'[v] = counting[v]
    BY <1>2 DEF Counting
  <1>4. j.kind = kind /\ j.phase = phase /\ j.number = n /\ j.row = stocktakes[n]
    BY <1>1
  <1>5. kind \in Filling => \A v \in Counters \ {w} : counting[v] = S!Idle
    BY <1>2 DEF S!MayStart, FillsAlone
  <1>6. JobFine(w)'
    BY <1>2, <1>3, <1>4, <1>5 DEF JobFine, Ended, Filling, Editing
  <1>7. ASSUME NEW v \in Counters \ {w}
        PROVE  JobFine(v)'
    <2>1. counting'[v] = counting[v] /\ counting[v].kind \notin Filling /\ JobFine(v)
      BY <1>2, <1>3, OthersDoNotFill DEF Active, CountFine
    <2> QED
      BY <1>2, <2>1 DEF JobFine, Ended
  <1> QED
    BY <1>2, <1>6, <1>7 DEF CountFine

\* Nothing is saved, and the request ends or goes on to its next phase.
LEMMA RestFine ==
  ASSUME Counting, CountFine, FillsAlone, NEW w \in Counters, S!Respond(w) \/ S!Abort(w)
  PROVE  CountFine'
  <1>1. stocktakes' = stocktakes /\ Ends(w) /\ Active(w)
    BY RestTake, IdleCounter DEF S!Respond, S!Abort, S!At, Active
  <1>2. counting'[w] = S!Idle /\ \A v \in Counters \ {w} : counting'[v] = counting[v]
    BY <1>1 DEF Ends, Counting
  <1>3. JobFine(w)'
    BY <1>2, IdleCounter DEF JobFine, Filling
  <1>4. ASSUME NEW v \in Counters \ {w}
        PROVE  JobFine(v)'
    <2>1. counting'[v] = counting[v] /\ counting[v].kind \notin Filling /\ JobFine(v)
      BY <1>1, <1>2, OthersDoNotFill DEF CountFine
    <2> QED
      BY <1>1, <2>1 DEF JobFine, Ended
  <1> QED
    BY <1>1, <1>3, <1>4 DEF CountFine

\* The request that fills goes on; no other one is under way.
LEMMA GoesOnFine ==
  ASSUME Counting, CountFine, NEW w \in Counters, NEW phase, GoesOn(w, phase),
         stocktakes' \in Seq(Take), DOMAIN stocktakes \subseteq DOMAIN stocktakes',
         \A n \in DOMAIN stocktakes' : RowFine(stocktakes'[n]),
         phase = "empty" => stocktakes'[counting[w].number].lines = << >>
  PROVE  CountFine'
  <1>1. /\ counting[w].kind \in Filling
        /\ counting'[w].phase = phase /\ counting'[w].kind = counting[w].kind
        /\ counting'[w].number = counting[w].number
        /\ \A v \in Counters \ {w} : counting'[v] = counting[v]
    BY PhaseStep
  <1>2. \A v \in Counters \ {w} : counting[v] = S!Idle
    BY <1>1 DEF CountFine, JobFine
  <1>3. JobFine(w)'
    BY <1>1, <1>2 DEF JobFine, Filling
  <1>4. \A v \in Counters \ {w} : JobFine(v)'
    BY <1>1, <1>2, IdleCounter DEF JobFine, Filling
  <1> QED
    BY <1>3, <1>4 DEF CountFine

\* A request that finds no lines is alone, and there are none.
LEMMA FindFine ==
  ASSUME Counting, CountFine, NEW w \in Counters, S!FindNoLines(w)
  PROVE  CountFine'
  <1>1. PICK phase : /\ stocktakes' = stocktakes /\ GoesOn(w, phase)
                     /\ phase = "empty" => stocktakes[counting[w].number].lines = << >>
    BY FindTake
  <1>2. stocktakes' \in Seq(Take) /\ DOMAIN stocktakes \subseteq DOMAIN stocktakes'
    BY <1>1 DEF Counting
  <1>3. \A n \in DOMAIN stocktakes' : RowFine(stocktakes'[n])
    BY <1>1 DEF CountFine
  <1>4. phase = "empty" => stocktakes'[counting[w].number].lines = << >>
    BY <1>1
  <1> QED
    BY <1>1, <1>2, <1>3, <1>4, GoesOnFine

\* The lines it makes are the only ones.
LEMMA FillFine ==
  ASSUME Counting, Stocked, CountFine, NEW w \in Counters, S!FillLines(w)
  PROVE  CountFine'
  <1>1. PICK n : n = counting[w].number
    OBVIOUS
  <1>2. PICK o : o = stocktakes[n]
    OBVIOUS
  <1>3. PICK t : /\ Kept(n, t) /\ SameStatus(t, o) /\ SamePosting(t, o)
                 /\ \/ SameLines(t, o)
                    \/ \E line \in Line : t.lines = Append(o.lines, line)
    BY <1>1, <1>2, FillTake
  <1>4. GoesOn(w, "filled") /\ counting[w].phase = "empty"
    BY FillTake
  <1>5. o.lines = << >> /\ n \in DOMAIN stocktakes
    BY <1>1, <1>2, <1>3, <1>4 DEF CountFine, JobFine, Kept
  <1>6. o \in Take /\ RowFine(o)
    BY <1>2, <1>5, RowNumbers DEF Counting, CountFine
  <1>7. RowFine(t)
    <2>1. CASE SameLines(t, o)
      BY <1>3, <1>6, <2>1, SameFine DEF SameStatus, Ended
    <2>2. CASE \E line \in Line : t.lines = Append(o.lines, line)
      BY <1>3, <1>5, <1>6, <2>2, MoreFine
    <2> QED
      BY <1>3, <2>1, <2>2
  <1>8. stocktakes' \in Seq(Take) /\ DOMAIN stocktakes' = DOMAIN stocktakes
    BY <1>3, KeptRows
  <1>9. \A i \in DOMAIN stocktakes' : RowFine(stocktakes'[i])
    <2>1. \A i \in DOMAIN stocktakes : stocktakes'[i] = IF i = n THEN t ELSE stocktakes[i]
      BY <1>3 DEF Kept
    <2> QED
      BY <1>7, <1>8, <2>1 DEF CountFine
  <1> QED
    BY <1>4, <1>8, <1>9, GoesOnFine

\* The requests of one step.
LEMMA LockedFine ==
  ASSUME Counting, Stocked, CountFine, FillsAlone, NEW w \in Counters, NEW n \in DOMAIN stocktakes,
         \/ \E u \in Users : \/ \E approval \in Approvals : S!SubmitStocktake(w, n, u, approval)
                             \/ S!ApproveStocktake(w, n, u)
         \/ \E system, actual \in Counts : S!AddItems(w, n, system, actual)
         \/ S!DestroyStocktake(w, n)
  PROVE  CountFine'
  <1>1. PICK o : o = stocktakes[n]
    OBVIOUS
  <1>2. o \in Take /\ RowFine(o)
    BY <1>1, RowNumbers DEF Counting, CountFine
  <1>3. PICK t, kind :
          /\ Kept(n, t) /\ SamePosting(t, o) /\ UNCHANGED counting /\ S!MayStart(w, kind)
          /\ Ended(t) <=> Ended(o)
          /\ SameLines(t, o) \/ (/\ SameStatus(t, o)
                                 /\ \E line \in Line : ~ line.booked /\ t.lines = Append(o.lines, line))
    <2>1. CASE \E u \in Users, approval \in Approvals : S!SubmitStocktake(w, n, u, approval)
      BY <1>1, <2>1, SubmitTake DEF Ended
    <2>2. CASE \E u \in Users : S!ApproveStocktake(w, n, u)
      BY <1>1, <2>2, ApproveTake DEF Ended
    <2>3. CASE \E system, actual \in Counts : S!AddItems(w, n, system, actual)
      BY <1>1, <2>3, AddTake DEF Ended, SameStatus
    <2>4. CASE S!DestroyStocktake(w, n)
      BY <1>1, <2>4, DestroyTake DEF Ended, SameStatus
    <2> QED
      BY <2>1, <2>2, <2>3, <2>4
  <1>4. RowFine(t)
    BY <1>2, <1>3, SameFine, MoreFine
  <1>5. counting[w] = S!Idle /\ Active(w)
    BY <1>3 DEF S!MayStart, Active
  <1> QED
    BY <1>1, <1>3, <1>4, <1>5, SaveFine

\* A count is written: the lines are booked as they were.
LEMMA UpdateFine ==
  ASSUME Counting, Stocked, CountFine, FillsAlone, NEW w \in Counters, NEW i \in 1 .. MaxLines,
         NEW actual \in Counts, S!UpdateItems(w, i, actual)
  PROVE  CountFine'
  <1>1. PICK n : n = counting[w].number
    OBVIOUS
  <1>2. PICK o : o = stocktakes[n]
    OBVIOUS
  <1>3. PICK t : /\ Kept(n, t) /\ SameStatus(t, o) /\ SamePosting(t, o)
                 /\ DOMAIN t.lines = DOMAIN o.lines
                 /\ \A k \in DOMAIN t.lines : t.lines[k].booked = o.lines[k].booked
    BY <1>1, <1>2, UpdateTake
  <1>4. Ends(w) /\ counting[w].kind = "update_items"
    BY UpdateTake
  <1>5. o \in Take /\ RowFine(o) /\ ~ Ended(o) /\ Active(w)
    BY <1>1, <1>2, <1>3, <1>4, IdleCounter, RowNumbers DEF Counting, CountFine, JobFine, Kept, Active
  <1>6. RowFine(t) /\ (Ended(t) <=> Ended(o))
    BY <1>3, <1>5, EnteredFine DEF Kept, SameStatus, Ended
  <1> QED
    BY <1>2, <1>3, <1>4, <1>5, <1>6, SaveFine

\* An edit writes COMPLETED only where it stands.
LEMMA EditFine ==
  ASSUME Counting, Stocked, CountFine, FillsAlone, NEW w \in Counters, NEW r \in Warehouses,
         S!EditStocktake(w, r)
  PROVE  CountFine'
  <1>1. PICK n : n = counting[w].number
    OBVIOUS
  <1>2. PICK o : o = stocktakes[n]
    OBVIOUS
  <1>3. PICK t : /\ Kept(n, t) /\ SameLines(t, o) /\ SamePosting(t, o)
                 /\ t.status = counting[w].row.status
    BY <1>1, <1>2, EditTake
  <1>4. Ends(w) /\ counting[w].kind = "edit"
    BY EditTake
  <1>5. RowFine(o) /\ Active(w) /\ JobFine(w)
    BY <1>2, <1>3, <1>4, IdleCounter DEF CountFine, Kept, Active
  <1>6. Ended(t) <=> Ended(o)
    BY <1>1, <1>2, <1>3, <1>4, <1>5 DEF JobFine, Ended
  <1>7. RowFine(t)
    BY <1>3, <1>5, <1>6, SameFine
  <1> QED
    BY <1>2, <1>3, <1>4, <1>5, <1>6, <1>7, SaveFine

\* A completion posts what was not posted.
LEMMA CompleteFine ==
  ASSUME Counting, Stocked, CountFine, FillsAlone, NEW w \in Counters, S!CompleteStocktake(w)
  PROVE  CountFine'
  <1>1. PICK n : n = counting[w].number
    OBVIOUS
  <1>2. PICK o : o = stocktakes[n]
    OBVIOUS
  <1>3. PICK t \in Take, r \in Warehouses :
          /\ Kept(n, t) /\ SameLines(t, o) /\ t.status = "COMPLETED" /\ t.upto = Len(t.lines)
          /\ \A x \in Warehouses :
               t.posted[x] = o.posted[x] + Move(x, r, SumFunction(Found(t.lines)))
    BY <1>1, <1>2, CompleteTake
  <1>4. Ends(w) /\ counting[w].kind = "complete" /\ o.status = "APPROVED"
    BY <1>1, <1>2, CompleteTake
  <1>5. /\ o \in Take /\ RowFine(o) /\ ~ Ended(o) /\ Ended(t) /\ Active(w)
        /\ \A v \in Counters \ {w} : counting[v] = S!Idle
    BY <1>2, <1>3, <1>4, IdleCounter, RowNumbers
       DEF Counting, CountFine, JobFine, Kept, Active, Ended, Filling
  <1>6. RowFine(t)
    BY <1>3, <1>5, PostedFine
  <1> QED
    BY <1>2, <1>3, <1>4, <1>5, <1>6, SaveFine

\* A new stocktake has posted nothing.
LEMMA CreateFine ==
  ASSUME Counting, Stocked, CountFine, FillsAlone, NEW w \in Counters, NEW u \in Users,
         NEW r \in Warehouses, S!CreateStocktake(w, u, r)
  PROVE  CountFine'
  <1>1. PICK t, j : /\ t \in Take /\ Fresh(t) /\ stocktakes' = Append(stocktakes, t)
                    /\ counting' = [counting EXCEPT ![w] = j]
                    /\ j.kind = "create" /\ j.phase = "ensure"
    BY CreateTake
  <1>2. \A v \in Counters \ {w} : counting[v] = S!Idle
    BY CreateTake DEF S!MayStart, FillsAlone, Filling
  <1>3. counting'[w] = j /\ \A v \in Counters \ {w} : counting'[v] = S!Idle
    BY <1>1, <1>2 DEF Counting
  <1>4. \A v \in Counters : JobFine(v)'
    BY <1>1, <1>3, IdleCounter DEF JobFine, Filling
  <1>5. /\ DOMAIN stocktakes' = DOMAIN stocktakes \cup {Len(stocktakes) + 1}
        /\ \A i \in DOMAIN stocktakes : stocktakes'[i] = stocktakes[i]
        /\ stocktakes'[Len(stocktakes) + 1] = t
    BY <1>1, RowMade DEF Counting
  <1>6. RowFine(t)
    BY <1>1, FreshFine
  <1> QED
    BY <1>4, <1>5, <1>6 DEF CountFine

\* Every step about stocktakes keeps it.
LEMMA CountFineStep ==
  ASSUME Counting, Stocked, CountFine, FillsAlone, NEW w \in Counters, S!StocktakeStep(w)
  PROVE  CountFine'
  <1>1. CASE \E u \in Users, r \in Warehouses : S!CreateStocktake(w, u, r)
    BY <1>1, CreateFine
  <1>2. ASSUME NEW n \in DOMAIN stocktakes,
               \/ \E kind \in {"retrieve", "complete"} : S!LoadStocktake(w, kind, n)
               \/ S!LoadCounts(w, n)
               \/ S!LoadEdit(w, n)
        PROVE  CountFine'
    <2>1. PICK kind, phase : /\ Enters(w, kind, phase, n)
                             /\ \/ kind \in Filling /\ phase = "ensure"
                                \/ kind \in Editing /\ phase = "loaded"
                             /\ kind = "update_items" => stocktakes[n].status = "DRAFT"
      BY <1>2, EnterSteps DEF Filling, Editing
    <2> QED
      BY <2>1, EnterFine
  <1>3. ASSUME NEW n \in DOMAIN stocktakes,
               \/ \E u \in Users : \/ \E approval \in Approvals : S!SubmitStocktake(w, n, u, approval)
                                   \/ S!ApproveStocktake(w, n, u)
               \/ \E system, actual \in Counts : S!AddItems(w, n, system, actual)
               \/ S!DestroyStocktake(w, n)
        PROVE  CountFine'
    BY <1>3, LockedFine
  <1>4. CASE S!FindNoLines(w) \/ S!FillLines(w) \/ S!Respond(w) \/ S!CompleteStocktake(w) \/ S!Abort(w)
    BY <1>4, FindFine, FillFine, RestFine, CompleteFine
  <1>5. CASE \E i \in 1 .. MaxLines, actual \in Counts : S!UpdateItems(w, i, actual)
    BY <1>5, UpdateFine
  <1>6. CASE \E r \in Warehouses : S!EditStocktake(w, r)
    BY <1>6, EditFine
  <1> QED
    BY <1>1, <1>2, <1>3, <1>4, <1>5, <1>6 DEF S!StocktakeStep

\* The invariant gives the property.
LEMMA FineCounts ==
  ASSUME Counting, CountFine
  PROVE  CountedOnce
  <1>1. S!BookedOnce
    BY DEF S!BookedOnce, CountFine, RowFine, OneBooked
  <1>2. ASSUME NEW n \in DOMAIN stocktakes
        PROVE  LET counted == S!SubSeq(stocktakes[n].lines, 1, stocktakes[n].upto) IN
               S!SumFunction(stocktakes[n].posted) =
                 S!SumFunction([i \in DOMAIN counted |-> S!Difference(counted[i])])
    <2>1. PICK c : c = SubSeq(stocktakes[n].lines, 1, stocktakes[n].upto)
      OBVIOUS
    <2>2. Found(c) = [i \in DOMAIN c |-> S!Difference(c[i])]
      BY DEF Found, S!Difference
    <2>3. SumFunction(stocktakes[n].posted) = SumFunction(Found(c))
      BY <2>1 DEF CountFine, RowFine, PostedRight
    <2> QED
      BY <2>1, <2>2, <2>3, SameSums
  <1> QED
    BY <1>1, <1>2 DEF CountedOnce, S!PostedOnce

(***************************************************************************)
(* Each stocktake takes its lines from the books once, and is posted to    *)
(* them once, for any number of stocktakes and lines and any requests, as  *)
(* long as none that fills a stocktake (perform_create, retrieve,          *)
(* complete_stocktake: ensure_stocktake_items runs outside the lock) is    *)
(* served beside another one.                                              *)
(***************************************************************************)
THEOREM EachIsCountedOnce ==
  ASSUME FillsAlone
  PROVE  Spec => []CountedOnce
  <1>1. Init => Explains /\ CountFine
    <2>1. Init => stocktakes = << >> /\ \A w \in Counters : counting[w] = S!Idle
      BY DEF Init, S!Init
    <2>2. Init => CountFine
      BY <2>1, IdleCounter DEF CountFine, JobFine, Filling
    <2> QED
      BY <2>2, ExplainsInit
  <1>2. Explains /\ CountFine /\ [Next]_vars => Explains' /\ CountFine'
    <2> SUFFICES ASSUME Explains, CountFine, [Next]_vars PROVE CountFine'
      BY ExplainsStep
    <2>1. CASE Transfer \/ UNCHANGED vars
      <3>1. UNCHANGED <<stocktakes, counting>>
        BY <2>1 DEF Transfer, vars
      <3> QED
        BY <3>1 DEF CountFine, JobFine
    <2>2. CASE Count
      <3>1. PICK w \in Counters : S!StocktakeStep(w)
        BY <2>2 DEF Count, S!Next
      <3> QED
        BY <3>1, CountFineStep DEF Explains
    <2> QED
      BY <2>1, <2>2 DEF Next
  <1>3. Explains /\ CountFine => CountedOnce
    BY FineCounts DEF Explains
  <1> QED
    BY <1>1, <1>2, <1>3, PTL DEF Spec

-----------------------------------------------------------------------------
(* What was counted stands. *)

Draft(t) == t.status = "DRAFT"

\* submit_stocktake and update_items are not both served beside other requests.
SubmitsOrUpdatesAlone == ~ ({"submit", "update_items"} \subseteq CounterRacing)

\* What a request under way knows of the status: counts are entered in a draft.
StandsFine(w) ==
  /\ counting[w].kind = "update_items" =>
       /\ Draft(stocktakes[counting[w].number])
       /\ "update_items" \notin CounterRacing => \A v \in Counters \ {w} : counting[v] = S!Idle
  /\ counting[w].kind = "edit" /\ "submit" \notin CounterRacing =>
       (Draft(counting[w].row) <=> Draft(stocktakes[counting[w].number]))

AllStand == \A w \in Counters : StandsFine(w)

\* The lines that were there are there; they are as they were unless a draft is counted.
LinesStand(n) ==
  ~ Draft(stocktakes[n]) => S!IsPrefix(stocktakes[n].lines, stocktakes'[n].lines)

\* Lines begin with themselves, and with what one is appended to.
LEMMA SamePrefix ==
  \A ls \in Seq(Line) : /\ S!IsPrefix(ls, ls)
                        /\ \A line \in Line : S!IsPrefix(ls, Append(ls, line))
  <1> SUFFICES ASSUME NEW ls \in Seq(Line)
               PROVE  /\ S!IsPrefix(ls, ls)
                      /\ \A line \in Line : S!IsPrefix(ls, Append(ls, line))
    OBVIOUS
  <1>1. Len(ls) \in Nat /\ Len(ls) <= Len(ls)
    OBVIOUS
  <1>2. S!IsPrefix(ls, ls)
    BY <1>1 DEF S!IsPrefix
  <1>3. ASSUME NEW line \in Line
        PROVE  S!IsPrefix(ls, Append(ls, line))
    <2>1. PICK ms : ms = Append(ls, line)
      OBVIOUS
    <2>2. /\ Len(ms) = Len(ls) + 1 /\ ms \in Seq(Line)
          /\ \A i \in 1 .. Len(ls) : ms[i] = ls[i]
      BY <2>1, RowMade, RowNumbers
    <2>3. SubSeq(ls, 1, Len(ls)) = SubSeq(ms, 1, Len(ls))
      BY <1>1, <2>2
    <2>4. Len(ls) <= Len(ms)
      BY <1>1, <2>2
    <2> QED
      BY <2>1, <2>3, <2>4 DEF S!IsPrefix
  <1> QED
    BY <1>2, <1>3

\* Where stocktakes are not written their lines stand.
LEMMA StandingRows ==
  ASSUME Counting, stocktakes' = stocktakes
  PROVE  \A n \in DOMAIN stocktakes : LinesStand(n)
  <1>1. \A n \in DOMAIN stocktakes : stocktakes[n].lines \in Seq(Line)
    BY RowNumbers, TakeFields DEF Counting
  <1> QED
    BY <1>1, SamePrefix DEF LinesStand

\* So they do where a draft is written, or lines kept or added to.
LEMMA StandingRow ==
  ASSUME Counting, NEW n, NEW t, Kept(n, t),
         \/ Draft(stocktakes[n])
         \/ SameLines(t, stocktakes[n])
         \/ \E line \in Line : t.lines = Append(stocktakes[n].lines, line)
  PROVE  \A m \in DOMAIN stocktakes : LinesStand(m)
  <1>1. \A m \in DOMAIN stocktakes : stocktakes[m].lines \in Seq(Line)
    BY RowNumbers, TakeFields DEF Counting
  <1>2. \A m \in DOMAIN stocktakes : stocktakes'[m] = IF m = n THEN t ELSE stocktakes[m]
    BY DEF Kept
  <1> TAKE m \in DOMAIN stocktakes
  <1>3. CASE m # n
    BY <1>1, <1>2, <1>3, SamePrefix DEF LinesStand
  <1>4. CASE m = n
    BY <1>1, <1>2, <1>4, SamePrefix DEF LinesStand, SameLines
  <1> QED
    BY <1>3, <1>4

\* A row is saved by a worker that rests then; the others know what they knew.
LEMMA SaveStands ==
  ASSUME Counting, AllStand, NEW w \in Counters, NEW n, NEW t, Kept(n, t),
         Ends(w) \/ (UNCHANGED counting /\ counting[w] = S!Idle),
         \A v \in Counters \ {w} :
           \/ counting[v].kind \notin Editing
           \/ counting[v].number # n
           \/ Draft(t) <=> Draft(stocktakes[n])
           \/ counting[v].kind = "edit" /\ "submit" \in CounterRacing
  PROVE  AllStand'
  <1>1. n \in DOMAIN stocktakes /\ \A i \in DOMAIN stocktakes :
          stocktakes'[i] = IF i = n THEN t ELSE stocktakes[i]
    BY DEF Kept
  <1>2. counting'[w] = S!Idle /\ \A v \in Counters \ {w} : counting'[v] = counting[v]
    BY DEF Ends, Counting
  <1>3. \A v \in Counters : counting'[v] = counting[v] \/ counting'[v] = S!Idle
    BY <1>2
  <1>4. StandsFine(w)'
    BY <1>2, IdleCounter DEF StandsFine
  <1>5. ASSUME NEW v \in Counters \ {w}
        PROVE  StandsFine(v)'
    <2>1. PICK j : j = counting[v]
      OBVIOUS
    <2>2. counting'[v] = j
      BY <1>2, <2>1
    <2>3. CASE j.kind \notin Editing
      BY <2>2, <2>3 DEF StandsFine, Editing
    <2>4. CASE j.kind \in Editing
      <3>1. StandsFine(v) /\ j.number \in DOMAIN stocktakes
        BY <2>1, <2>4, Phases, IdleCounter DEF AllStand, Editing
      <3>2. "update_items" \notin CounterRacing /\ j.kind = "update_items" =>
              \A u \in Counters \ {v} : counting'[u] = S!Idle
        BY <1>3, <2>1, <3>1 DEF StandsFine
      <3>3. \/ Draft(stocktakes'[j.number]) <=> Draft(stocktakes[j.number])
            \/ j.kind = "edit" /\ "submit" \in CounterRacing
        BY <1>1, <2>1, <2>4, <3>1
      <3> QED
        BY <2>1, <2>2, <3>1, <3>2, <3>3 DEF StandsFine, Draft
    <2> QED
      BY <2>3, <2>4
  <1> QED
    BY <1>4, <1>5 DEF AllStand

\* The worker takes up a request: one that updates alone is not under way.
LEMMA OthersUpdate ==
  ASSUME Counting, NEW w \in Counters, NEW kind, S!MayStart(w, kind), NEW v \in Counters \ {w},
         counting[v] # S!Idle
  PROVE  kind \in CounterRacing /\ counting[v].kind \in CounterRacing
  BY DEF S!MayStart

\* A request loads its stocktake, for counts a draft.
LEMMA EnterStands ==
  ASSUME Counting, AllStand, NEW w \in Counters, NEW kind, NEW phase, NEW n,
         Enters(w, kind, phase, n), kind = "update_items" => stocktakes[n].status = "DRAFT"
  PROVE  AllStand' /\ \A m \in DOMAIN stocktakes : LinesStand(m)
  <1>1. PICK j : j = [kind |-> kind, phase |-> phase, number |-> n, row |-> stocktakes[n]]
    OBVIOUS
  <1>2. /\ S!MayStart(w, kind) /\ n \in DOMAIN stocktakes /\ stocktakes' = stocktakes
        /\ counting' = [counting EXCEPT ![w] = j]
    BY <1>1 DEF Enters
  <1>3. counting'[w] = j /\ \A v \in Counters \ {w} : counting'[v] = counting[v]
    BY <1>2 DEF Counting
  <1>4. j.kind = kind /\ j.number = n /\ j.row = stocktakes[n]
    BY <1>1
  <1>5. StandsFine(w)'
    <2>1. kind = "update_items" /\ "update_items" \notin CounterRacing =>
            \A v \in Counters \ {w} : counting[v] = S!Idle
      BY <1>2, OthersUpdate
    <2> QED
      BY <1>2, <1>3, <1>4, <2>1 DEF StandsFine, Draft
  <1>6. ASSUME NEW v \in Counters \ {w}
        PROVE  StandsFine(v)'
    <2>1. counting'[v] = counting[v] /\ StandsFine(v)
      BY <1>3 DEF AllStand
    <2>2. counting[v].kind = "update_items" => "update_items" \in CounterRacing
      BY <1>2, OthersUpdate, IdleCounter
    <2> QED
      BY <1>2, <2>1, <2>2 DEF StandsFine, Draft
  <1> QED
    BY <1>2, <1>5, <1>6, StandingRows DEF AllStand

\* A new stocktake.
LEMMA CreateStands ==
  ASSUME Counting, Stocked, AllStand, NEW w \in Counters, NEW u \in Users, NEW r \in Warehouses,
         S!CreateStocktake(w, u, r)
  PROVE  AllStand' /\ \A m \in DOMAIN stocktakes : LinesStand(m)
  <1>1. PICK t, j : /\ t \in Take /\ Fresh(t) /\ stocktakes' = Append(stocktakes, t)
                    /\ counting' = [counting EXCEPT ![w] = j]
                    /\ j.kind = "create" /\ j.phase = "ensure" /\ S!MayStart(w, "create")
    BY CreateTake
  <1>2. counting'[w] = j /\ \A v \in Counters \ {w} : counting'[v] = counting[v]
    BY <1>1 DEF Counting
  <1>3. \A i \in DOMAIN stocktakes : stocktakes'[i] = stocktakes[i]
    BY <1>1, RowMade DEF Counting
  <1>4. StandsFine(w)'
    BY <1>1, <1>2 DEF StandsFine
  <1>5. ASSUME NEW v \in Counters \ {w}
        PROVE  StandsFine(v)'
    <2>1. counting'[v] = counting[v] /\ StandsFine(v)
      BY <1>2 DEF AllStand
    <2>2. counting[v].kind = "update_items" => "update_items" \in CounterRacing
      BY <1>1, OthersUpdate, IdleCounter
    <2>3. counting[v].kind # "idle" =>
            stocktakes'[counting[v].number] = stocktakes[counting[v].number]
      BY <1>3, Phases
    <2> QED
      BY <2>1, <2>2, <2>3 DEF StandsFine, Draft
  <1>6. \A m \in DOMAIN stocktakes : LinesStand(m)
    <2>1. \A m \in DOMAIN stocktakes : stocktakes[m].lines \in Seq(Line)
      BY RowNumbers, TakeFields DEF Counting
    <2> QED
      BY <1>3, <2>1, SamePrefix DEF LinesStand
  <1> QED
    BY <1>4, <1>5, <1>6 DEF AllStand

\* The request that fills goes on.
LEMMA GoesOnStands ==
  ASSUME Counting, AllStand, NEW w \in Counters, NEW phase, GoesOn(w, phase),
         stocktakes' \in Seq(Take), DOMAIN stocktakes' = DOMAIN stocktakes,
         \A n \in DOMAIN stocktakes : SameStatus(stocktakes'[n], stocktakes[n])
  PROVE  AllStand'
  <1>1. /\ counting[w].kind \in Filling
        /\ counting'[w].kind = counting[w].kind
        /\ \A v \in Counters \ {w} : counting'[v] = counting[v]
    BY PhaseStep
  <1>2. StandsFine(w)'
    BY <1>1 DEF StandsFine, Filling
  <1>3. ASSUME NEW v \in Counters \ {w}
        PROVE  StandsFine(v)'
    <2>1. counting'[v] = counting[v] /\ StandsFine(v)
      BY <1>1 DEF AllStand
    <2>2. counting[v].kind = "update_items" => "update_items" \in CounterRacing
      BY <1>1, <2>1, IdleCounter DEF StandsFine, Filling
    <2>3. counting[v].kind # "idle" =>
            SameStatus(stocktakes'[counting[v].number], stocktakes[counting[v].number])
      BY Phases
    <2> QED
      BY <2>1, <2>2, <2>3 DEF StandsFine, Draft, SameStatus
  <1> QED
    BY <1>2, <1>3 DEF AllStand

\* The lines are looked for.
LEMMA FindStands ==
  ASSUME Counting, AllStand, NEW w \in Counters, S!FindNoLines(w)
  PROVE  AllStand' /\ \A m \in DOMAIN stocktakes : LinesStand(m)
  <1>1. PICK phase : stocktakes' = stocktakes /\ GoesOn(w, phase)
    BY FindTake
  <1>2. stocktakes' \in Seq(Take) /\ DOMAIN stocktakes' = DOMAIN stocktakes
    BY <1>1 DEF Counting
  <1>3. \A n \in DOMAIN stocktakes : SameStatus(stocktakes'[n], stocktakes[n])
    BY <1>1 DEF SameStatus
  <1> QED
    BY <1>1, <1>2, <1>3, GoesOnStands, StandingRows

\* Lines are made where there were none.
LEMMA FillStands ==
  ASSUME Counting, Stocked, AllStand, NEW w \in Counters, S!FillLines(w)
  PROVE  AllStand' /\ \A m \in DOMAIN stocktakes : LinesStand(m)
  <1>1. PICK n : n = counting[w].number
    OBVIOUS
  <1>2. PICK t : /\ Kept(n, t) /\ SameStatus(t, stocktakes[n])
                 /\ \/ SameLines(t, stocktakes[n])
                    \/ \E line \in Line : t.lines = Append(stocktakes[n].lines, line)
    BY <1>1, FillTake
  <1>3. GoesOn(w, "filled")
    BY FillTake
  <1>4. stocktakes' \in Seq(Take) /\ DOMAIN stocktakes' = DOMAIN stocktakes
    BY <1>2, KeptRows
  <1>5. \A m \in DOMAIN stocktakes : SameStatus(stocktakes'[m], stocktakes[m])
    BY <1>2 DEF Kept, SameStatus
  <1> QED
    BY <1>2, <1>3, <1>4, <1>5, GoesOnStands, StandingRow

\* A request ends.
LEMMA RestStands ==
  ASSUME Counting, AllStand, NEW w \in Counters, S!Respond(w) \/ S!Abort(w)
  PROVE  AllStand' /\ \A m \in DOMAIN stocktakes : LinesStand(m)
  <1>1. stocktakes' = stocktakes /\ Ends(w)
    BY RestTake
  <1>2. \A v \in Counters : counting'[v] = IF v = w THEN S!Idle ELSE counting[v]
    BY <1>1 DEF Ends, Counting
  <1>3. \A v \in Counters : StandsFine(v)'
    <2> TAKE v \in Counters
    <2>1. CASE v = w
      BY <1>2, <2>1, IdleCounter DEF StandsFine
    <2>2. CASE v # w
      BY <1>1, <1>2, <2>2 DEF StandsFine, AllStand, Draft
    <2> QED
      BY <2>1, <2>2
  <1> QED
    BY <1>1, <1>3, StandingRows DEF AllStand

\* What is written under the lock leaves the lines, or adds to them.
LEMMA LockedStands ==
  ASSUME Counting, Stocked, AllStand, SubmitsOrUpdatesAlone,
         NEW w \in Counters, NEW n \in DOMAIN stocktakes,
         \/ \E u \in Users : \/ \E approval \in Approvals : S!SubmitStocktake(w, n, u, approval)
                             \/ S!ApproveStocktake(w, n, u)
         \/ \E system, actual \in Counts : S!AddItems(w, n, system, actual)
         \/ S!DestroyStocktake(w, n)
  PROVE  AllStand' /\ \A m \in DOMAIN stocktakes : LinesStand(m)
  <1>1. PICK o : o = stocktakes[n]
    OBVIOUS
  <1>2. PICK t, kind :
          /\ Kept(n, t) /\ UNCHANGED counting /\ S!MayStart(w, kind)
          /\ (Draft(t) <=> Draft(o)) \/ kind = "submit"
          /\ SameLines(t, o) \/ \E line \in Line : t.lines = Append(o.lines, line)
    <2>1. CASE \E u \in Users, approval \in Approvals : S!SubmitStocktake(w, n, u, approval)
      BY <1>1, <2>1, SubmitTake
    <2>2. CASE \E u \in Users : S!ApproveStocktake(w, n, u)
      BY <1>1, <2>2, ApproveTake DEF Draft
    <2>3. CASE \E system, actual \in Counts : S!AddItems(w, n, system, actual)
      BY <1>1, <2>3, AddTake DEF Draft, SameStatus
    <2>4. CASE S!DestroyStocktake(w, n)
      BY <1>1, <2>4, DestroyTake DEF Draft, SameStatus
    <2> QED
      BY <2>1, <2>2, <2>3, <2>4
  <1>3. counting[w] = S!Idle
    BY <1>2 DEF S!MayStart
  <1>4. ASSUME NEW v \in Counters \ {w}
        PROVE  \/ counting[v].kind \notin Editing
               \/ Draft(t) <=> Draft(stocktakes[n])
               \/ counting[v].kind = "edit" /\ "submit" \in CounterRacing
    <2> SUFFICES ASSUME kind = "submit", counting[v].kind \in Editing
                 PROVE  counting[v].kind = "edit" /\ "submit" \in CounterRacing
      BY <1>1, <1>2
    <2>1. "submit" \in CounterRacing /\ counting[v].kind \in CounterRacing
      BY <1>2, OthersUpdate, IdleCounter DEF Editing
    <2>2. counting[v].kind # "update_items"
      BY <2>1 DEF SubmitsOrUpdatesAlone
    <2> QED
      BY <2>1, <2>2 DEF Editing
  <1>5. AllStand'
    BY <1>2, <1>3, <1>4, SaveStands
  <1>6. \A m \in DOMAIN stocktakes : LinesStand(m)
    BY <1>1, <1>2, StandingRow
  <1> QED
    BY <1>5, <1>6

\* Counts are entered into a draft.
LEMMA UpdateStands ==
  ASSUME Counting, Stocked, AllStand, NEW w \in Counters, NEW i \in 1 .. MaxLines,
         NEW actual \in Counts, S!UpdateItems(w, i, actual)
  PROVE  AllStand' /\ \A m \in DOMAIN stocktakes : LinesStand(m)
  <1>1. PICK n : n = counting[w].number
    OBVIOUS
  <1>2. PICK t : Kept(n, t) /\ SameStatus(t, stocktakes[n])
    BY <1>1, UpdateTake
  <1>3. Ends(w) /\ counting[w].kind = "update_items"
    BY UpdateTake
  <1>4. Draft(stocktakes[n]) /\ (Draft(t) <=> Draft(stocktakes[n]))
    BY <1>1, <1>2, <1>3 DEF AllStand, StandsFine, Draft, SameStatus
  <1>5. AllStand'
    BY <1>2, <1>3, <1>4, SaveStands
  <1>6. \A m \in DOMAIN stocktakes : LinesStand(m)
    BY <1>2, <1>4, StandingRow
  <1> QED
    BY <1>5, <1>6

\* An edit leaves the lines.
LEMMA EditStands ==
  ASSUME Counting, Stocked, AllStand, SubmitsOrUpdatesAlone, NEW w \in Counters,
         NEW r \in Warehouses, S!EditStocktake(w, r)
  PROVE  AllStand' /\ \A m \in DOMAIN stocktakes : LinesStand(m)
  <1>1. PICK n : n = counting[w].number
    OBVIOUS
  <1>2. PICK t : Kept(n, t) /\ SameLines(t, stocktakes[n]) /\ t.status = counting[w].row.status
    BY <1>1, EditTake
  <1>3. Ends(w) /\ counting[w].kind = "edit"
    BY EditTake
  <1>4. "submit" \notin CounterRacing => (Draft(t) <=> Draft(stocktakes[n]))
    BY <1>1, <1>2, <1>3 DEF AllStand, StandsFine, Draft
  <1>5. ASSUME NEW v \in Counters \ {w}
        PROVE  \/ counting[v].kind \notin Editing
               \/ Draft(t) <=> Draft(stocktakes[n])
               \/ counting[v].kind = "edit" /\ "submit" \in CounterRacing
    <2> SUFFICES ASSUME "submit" \in CounterRacing, counting[v].kind = "update_items"
                 PROVE  FALSE
      BY <1>4 DEF Editing
    <2>1. "update_items" \notin CounterRacing
      BY DEF SubmitsOrUpdatesAlone
    <2>2. counting[w] = S!Idle
      BY <2>1 DEF AllStand, StandsFine
    <2> QED
      BY <1>3, <2>2, IdleCounter
  <1>6. AllStand'
    BY <1>2, <1>3, <1>5, SaveStands
  <1>7. \A m \in DOMAIN stocktakes : LinesStand(m)
    BY <1>2, StandingRow
  <1> QED
    BY <1>6, <1>7

\* A completion books the lines and leaves what was counted.
LEMMA CompleteStands ==
  ASSUME Counting, Stocked, AllStand, NEW w \in Counters, S!CompleteStocktake(w)
  PROVE  AllStand' /\ \A m \in DOMAIN stocktakes : LinesStand(m)
  <1>1. PICK n : n = counting[w].number
    OBVIOUS
  <1>2. PICK t : Kept(n, t) /\ SameLines(t, stocktakes[n]) /\ t.status = "COMPLETED"
    BY <1>1, CompleteTake
  <1>3. Ends(w) /\ stocktakes[n].status = "APPROVED"
    BY <1>1, CompleteTake
  <1>4. Draft(t) <=> Draft(stocktakes[n])
    BY <1>2, <1>3 DEF Draft
  <1>5. AllStand'
    BY <1>2, <1>3, <1>4, SaveStands
  <1>6. \A m \in DOMAIN stocktakes : LinesStand(m)
    BY <1>2, StandingRow
  <1> QED
    BY <1>5, <1>6

\* Every step about stocktakes lets what was counted stand.
LEMMA StandStep ==
  ASSUME Counting, Stocked, AllStand, SubmitsOrUpdatesAlone, NEW w \in Counters,
         S!StocktakeStep(w)
  PROVE  AllStand' /\ \A m \in DOMAIN stocktakes : LinesStand(m)
  <1> DEFINE Goal == AllStand' /\ \A m \in DOMAIN stocktakes : LinesStand(m)
  <1>1. CASE \E u \in Users, r \in Warehouses : S!CreateStocktake(w, u, r)
    BY <1>1, CreateStands
  <1>2. ASSUME NEW n \in DOMAIN stocktakes,
               \/ \E kind \in {"retrieve", "complete"} : S!LoadStocktake(w, kind, n)
               \/ S!LoadCounts(w, n)
               \/ S!LoadEdit(w, n)
        PROVE  Goal
    <2>1. PICK kind, phase : /\ Enters(w, kind, phase, n)
                             /\ kind = "update_items" => stocktakes[n].status = "DRAFT"
      BY <1>2, EnterSteps
    <2> QED
      BY <2>1, EnterStands
  <1>3. ASSUME NEW n \in DOMAIN stocktakes,
               \/ \E u \in Users : \/ \E approval \in Approvals : S!SubmitStocktake(w, n, u, approval)
                                   \/ S!ApproveStocktake(w, n, u)
               \/ \E system, actual \in Counts : S!AddItems(w, n, system, actual)
               \/ S!DestroyStocktake(w, n)
        PROVE  Goal
    BY <1>3, LockedStands
  <1>4. CASE S!FindNoLines(w) \/ S!FillLines(w) \/ S!Respond(w) \/ S!CompleteStocktake(w) \/ S!Abort(w)
    BY <1>4, FindStands, FillStands, RestStands, CompleteStands
  <1>5. CASE \E i \in 1 .. MaxLines, actual \in Counts : S!UpdateItems(w, i, actual)
    BY <1>5, UpdateStands
  <1>6. CASE \E r \in Warehouses : S!EditStocktake(w, r)
    BY <1>6, EditStands
  <1> QED
    BY <1>1, <1>2, <1>3, <1>4, <1>5, <1>6 DEF S!StocktakeStep

(***************************************************************************)
(* What was counted stands once it was submitted: update_items and the     *)
(* inherited update write what they loaded, and yet no line an approver    *)
(* saw changes, as long as update_items or submit_stocktake is not served  *)
(* beside other requests.                                                  *)
(***************************************************************************)
THEOREM WhatWasCountedStands ==
  ASSUME SubmitsOrUpdatesAlone
  PROVE  Spec => CountsStand
  <1>1. Init => Explains /\ AllStand
    <2>1. Init => \A w \in Counters : counting[w] = S!Idle
      BY DEF Init, S!Init
    <2>2. Init => AllStand
      BY <2>1, IdleCounter DEF AllStand, StandsFine
    <2> QED
      BY <2>2, ExplainsInit
  <1>2. Explains /\ AllStand /\ [Next]_vars =>
          /\ Explains' /\ AllStand'
          /\ \A n \in DOMAIN stocktakes : LinesStand(n)
    <2> SUFFICES ASSUME Explains, AllStand, [Next]_vars
                 PROVE  AllStand' /\ \A n \in DOMAIN stocktakes : LinesStand(n)
      BY ExplainsStep
    <2>1. CASE Transfer \/ UNCHANGED vars
      <3>1. stocktakes' = stocktakes /\ counting' = counting
        BY <2>1 DEF Transfer, vars
      <3>2. AllStand'
        BY <3>1 DEF AllStand, StandsFine, Draft
      <3> QED
        BY <3>1, <3>2, StandingRows DEF Explains
    <2>2. CASE Count
      <3>1. PICK w \in Counters : S!StocktakeStep(w)
        BY <2>2 DEF Count, S!Next
      <3> QED
        BY <3>1, StandStep DEF Explains
    <2> QED
      BY <2>1, <2>2 DEF Next
  <1>3. (\A n \in DOMAIN stocktakes : LinesStand(n)) =>
          [\A n \in DOMAIN stocktakes :
             stocktakes[n].status # "DRAFT" =>
               S!IsPrefix(stocktakes[n].lines, stocktakes'[n].lines)]_S!vars
    BY DEF LinesStand, Draft
  <1> QED
    BY <1>1, <1>2, <1>3, PTL DEF Spec, CountsStand, S!CountsStand
=============================================================================
