------------------------- MODULE Receivables_proofs -------------------------
(***************************************************************************)
(* Theorems about Receivables, for any outbound orders, amounts and        *)
(* workers, and any number of rows.                                        *)
(*                                                                         *)
(* What is always so, whatever overlaps, comes first: the types of the     *)
(* rows and what the lock on a return protects (Core), and that money      *)
(* settles one thing.  What rests on requests that are served alone        *)
(* follows: the balance, billing, and the return of goods.                 *)
(***************************************************************************)
EXTENDS Receivables, TableTheorems

-----------------------------------------------------------------------------
(* The invariant. *)

Account == [source : {"OUTBOUND_ORDER", "SALES_ORDER", "SALES_RETURN"},
            outbound : Outbounds \cup {NoOutbound}, amount : Int, written : Nat]
Receipt == [amount : Amounts, unwritten : Nat, approved : BOOLEAN, executed : BOOLEAN,
            account : BOOLEAN]
Refund  == [receivable : Nat, amount : Nat \ {0}, status : RefundStatus, account : BOOLEAN]
Return  == [qty : ReturnQuantities, status : ReturnStatus]

\* Requests that save the status of a return they did not lock.
Writers == {"submit_return", "approve_return", "cancel_return"}

Job == [kind : {"idle", "generate", "create_return", "complete_return"} \cup Writers,
        number : Nat, qty : Nat]

\* Receivables and refunds: a refund names a red receivable, and none is overpaid.
Papers ==
  /\ receivables \in Seq(Account)
  /\ refunds \in Seq(Refund)
  /\ \A k \in DOMAIN refunds : /\ refunds[k].receivable \in DOMAIN receivables
                               /\ receivables[refunds[k].receivable].amount < 0
  /\ NeverOverpaid

\* The other rows.
Rest ==
  /\ delivered \subseteq Outbounds
  /\ receipts \in Seq(Receipt)
  /\ balance \in Int /\ cash \in Nat
  /\ stock \in Positions

\* What is known of a request about a return.
Serves(w) ==
  /\ job[w].kind = "idle" <=> job[w] = Idle
  /\ job[w].kind = "create_return" => job[w].qty \in ReturnQuantities
  /\ job[w].kind \in Writers => job[w].number \in DOMAIN returns
  /\ job[w].kind = "complete_return" => /\ job[w].number \in DOMAIN returns
                                        /\ returns[job[w].number].status = "APPROVED"
                                        /\ returns[job[w].number].qty = job[w].qty

\* A return is locked by one request.
OneEach ==
  \A v, w \in Workers : v # w /\ job[v].kind = "complete_return" /\ job[w].kind = "complete_return"
                          => job[v].number # job[w].number

Serving ==
  /\ returns \in Seq(Return)
  /\ job \in [Workers -> Job]
  /\ \A w \in Workers : Serves(w)
  /\ OneEach

Core == Papers /\ Rest /\ Serving

-----------------------------------------------------------------------------
(* Rows and jobs. *)

\* The rows of the tables have their types.
LEMMA RowTypes ==
  ASSUME Core
  PROVE  /\ \A i \in DOMAIN receivables : receivables[i] \in Account
         /\ \A n \in DOMAIN receipts : receipts[n] \in Receipt
         /\ \A k \in DOMAIN refunds : refunds[k] \in Refund
         /\ \A n \in DOMAIN returns : returns[n] \in Return
         /\ \A w \in Workers : job[w] \in Job
         /\ Amounts \subseteq Nat \ {0} /\ ReturnQuantities \subseteq Nat \ {0}
  BY RowNumbers, ReceivablesAssumption DEF Core, Papers, Rest, Serving

\* At the start the tables are empty.
LEMMA InitCore == Init => Core
  <1> SUFFICES ASSUME Init PROVE Core
    OBVIOUS
  <1>1. /\ receivables = << >> /\ receipts = << >> /\ refunds = << >> /\ returns = << >>
        /\ DOMAIN receivables = {} /\ DOMAIN receipts = {} /\ DOMAIN refunds = {}
        /\ DOMAIN returns = {}
    BY DEF Init
  <1>2. Papers
    BY <1>1 DEF Papers, NeverOverpaid
  <1>3. stock \in Positions
    <2>1. NoPosition \in Positions
      BY DEF Positions, NoPosition
    <2>2. OnHand \in Int /\ (OnHand > 0) \in BOOLEAN
      BY ReceivablesAssumption
    <2>3. stock = [NoPosition EXCEPT !.exists = OnHand > 0, !.current = OnHand]
      BY DEF Init
    <2> QED
      BY <2>1, <2>2, <2>3 DEF Positions
  <1>4. Rest
    BY <1>1, <1>3, ReceivablesAssumption DEF Init, Rest
  <1>5. Idle \in Job /\ Idle.kind = "idle"
    BY DEF Idle, Job
  <1>6. \A w \in Workers : job[w] = Idle
    BY DEF Init
  <1>7. job \in [Workers -> Job]
    BY <1>5 DEF Init
  <1>8. (\A w \in Workers : Serves(w)) /\ OneEach
    BY <1>5, <1>6 DEF Serves, Writers, OneEach
  <1> QED
    BY <1>1, <1>2, <1>4, <1>7, <1>8 DEF Core, Serving

\* Requests that are no business of the returns.
LEMMA ServingRests ==
  ASSUME Serving, UNCHANGED <<returns, job>>
  PROVE  Serving'
  BY DEF Serving, Serves, OneEach

\* A request ends, and no return is another.
LEMMA DoneServes ==
  ASSUME Serving, NEW w \in Workers, Done(w), returns' = returns
  PROVE  Serving'
  <1>1. Idle \in Job /\ Idle.kind = "idle"
    BY DEF Idle, Job
  <1>2. /\ job' \in [Workers -> Job] /\ job'[w] = Idle
        /\ \A v \in Workers \ {w} : job'[v] = job[v]
    BY <1>1 DEF Done, Serving
  <1>3. Serves(w)'
    BY <1>1, <1>2 DEF Serves, Writers
  <1>4. \A v \in Workers \ {w} : Serves(v)'
    BY <1>2 DEF Serves, Serving
  <1>5. OneEach'
    BY <1>1, <1>2 DEF OneEach, Serving
  <1> QED
    BY <1>2, <1>3, <1>4, <1>5 DEF Serving

\* A request begins.
LEMMA BeginServes ==
  ASSUME Serving, NEW w \in Workers, NEW kind, NEW n \in Nat, NEW qty \in Nat,
         Begin(w, kind, n, qty), returns' = returns,
         kind \in {"generate", "create_return", "complete_return"} \cup Writers,
         kind = "create_return" => qty \in ReturnQuantities,
         kind \in Writers => n \in DOMAIN returns,
         kind = "complete_return" => /\ n \in DOMAIN returns /\ ReturnFree(n)
                                     /\ returns[n].status = "APPROVED" /\ returns[n].qty = qty
  PROVE  Serving'
  <1>1. [kind |-> kind, number |-> n, qty |-> qty] \in Job /\ kind # "idle"
    BY DEF Job, Writers
  <1>2. /\ job' \in [Workers -> Job]
        /\ job'[w] = [kind |-> kind, number |-> n, qty |-> qty]
        /\ \A v \in Workers \ {w} : job'[v] = job[v]
    BY <1>1 DEF Begin, Serving
  <1>3. Serves(w)'
    BY <1>1, <1>2 DEF Serves, Idle
  <1>4. \A v \in Workers \ {w} : Serves(v)'
    BY <1>2 DEF Serves, Serving
  <1>5. OneEach'
    BY <1>2 DEF OneEach, Serving, ReturnFree
  <1> QED
    BY <1>2, <1>3, <1>4, <1>5 DEF Serving

-----------------------------------------------------------------------------
(* Requests about returns that leave money and goods alone. *)

Quiet == UNCHANGED <<delivered, books, receipts, refunds, cash, stock>>

\* A step that only reads keeps Core if the requests do.
LEMMA QuietKeeps ==
  ASSUME Core, Quiet, Serving'
  PROVE  Core'
  BY DEF Core, Quiet, books, Papers, Rest, NeverOverpaid, Balance

\* A request to bill the whole order looks for receivables.
LEMMA LoadBillingKeeps ==
  ASSUME Core, NEW w \in Workers, LoadBilling(w)
  PROVE  Core' /\ Quiet /\ returns' = returns
  <1>1. Begin(w, "generate", 0, 0) /\ returns' = returns /\ Quiet
    BY DEF LoadBilling, Quiet
  <1>2. Serving /\ "generate" \notin Writers
    BY DEF Core, Writers
  <1>3. Serving'
    BY <1>1, <1>2, BeginServes
  <1> QED
    BY <1>1, <1>3, QuietKeeps

\* A request for a return tests the quantity.
LEMMA CheckReturnKeeps ==
  ASSUME Core, NEW w \in Workers, NEW qty \in ReturnQuantities, CheckReturn(w, qty)
  PROVE  Core' /\ Quiet /\ returns' = returns
  <1>1. Begin(w, "create_return", 0, qty) /\ returns' = returns /\ Quiet
    BY DEF CheckReturn, Quiet
  <1>2. Serving /\ "create_return" \notin Writers /\ qty \in Nat
    BY RowTypes DEF Core, Writers
  <1>3. Serving'
    BY <1>1, <1>2, BeginServes
  <1> QED
    BY <1>1, <1>3, QuietKeeps

\* get_object of a return.
LEMMA LoadReturnKeeps ==
  ASSUME Core, NEW w \in Workers, NEW kind \in Writers, NEW n \in DOMAIN returns,
         LoadReturn(w, kind, n)
  PROVE  Core' /\ Quiet /\ returns' = returns
  <1>1. Begin(w, kind, n, 0) /\ returns' = returns /\ Quiet
    BY DEF LoadReturn, Quiet
  <1>2. Serving /\ n \in Nat /\ kind # "create_return" /\ kind # "complete_return"
    BY RowNumbers DEF Core, Serving, Writers
  <1>3. Serving'
    BY <1>1, <1>2, BeginServes
  <1> QED
    BY <1>1, <1>3, QuietKeeps

\* A return is locked to be completed.
LEMMA LockReturnKeeps ==
  ASSUME Core, NEW w \in Workers, NEW n \in DOMAIN returns, LockReturn(w, n)
  PROVE  Core' /\ Quiet /\ returns' = returns
  <1>1. /\ Begin(w, "complete_return", n, returns[n].qty) /\ returns' = returns /\ Quiet
        /\ ReturnFree(n) /\ returns[n].status = "APPROVED"
    BY DEF LockReturn, Quiet
  <1>2. Serving /\ n \in Nat /\ returns[n].qty \in Nat /\ "complete_return" \notin Writers
    BY RowTypes, RowNumbers DEF Core, Serving, Writers, Return
  <1>3. Serving'
    BY <1>1, <1>2, BeginServes
  <1> QED
    BY <1>1, <1>3, QuietKeeps

\* A request that is given up changes nothing.
LEMMA AbortKeeps ==
  ASSUME Core, NEW w \in Workers, Abort(w)
  PROVE  Core' /\ Quiet /\ returns' = returns
  <1>1. Done(w) /\ returns' = returns /\ Quiet
    BY DEF Abort, Quiet
  <1> QED
    BY <1>1, DoneServes, QuietKeeps DEF Core

\* create_order of a return appends a draft.
LEMMA CreateReturnKeeps ==
  ASSUME Core, NEW w \in Workers, CreateReturn(w)
  PROVE  /\ Core' /\ Quiet
         /\ RowAdded(returns, returns', Len(returns) + 1)
         /\ returns'[Len(returns) + 1] = [qty |-> job[w].qty, status |-> "DRAFT"]
  <1> DEFINE new == [qty |-> job[w].qty, status |-> "DRAFT"]
  <1>1. Done(w) /\ Quiet /\ returns' = Append(returns, new)
    BY DEF CreateReturn, Quiet
  <1>2. job[w].qty \in ReturnQuantities
    BY DEF CreateReturn, Core, Serving, Serves
  <1>3. new \in Return
    BY <1>2 DEF Return, ReturnStatus
  <1> HIDE DEF new
  <1>4. returns \in Seq(Return)
    BY DEF Core, Serving
  <1>5. /\ returns' \in Seq(Return) /\ RowAdded(returns, returns', Len(returns) + 1)
        /\ returns'[Len(returns) + 1] = new
    <2>1. PICK t : t = returns'
      OBVIOUS
    <2>2. t = Append(returns, new)
      BY <1>1, <2>1
    <2>3. t \in Seq(Return)
      BY <1>3, <1>4, <2>2
    <2>4. RowAdded(returns, t, Len(returns) + 1) /\ t[Len(returns) + 1] = new
      BY <1>4, <2>2, RowAppended
    <2> QED
      BY <2>1, <2>3, <2>4
  <1>6. Idle \in Job /\ Idle.kind = "idle"
    BY DEF Idle, Job
  <1>7. /\ job' \in [Workers -> Job] /\ job'[w] = Idle
        /\ \A v \in Workers \ {w} : job'[v] = job[v]
    BY <1>1, <1>6 DEF Done, Serving, Core
  <1>8. DOMAIN returns \subseteq DOMAIN returns' /\ \A n \in DOMAIN returns : returns'[n] = returns[n]
    BY <1>5 DEF RowAdded
  <1>9. Serves(w)'
    BY <1>6, <1>7 DEF Serves, Writers
  <1>10. \A v \in Workers \ {w} : Serves(v)'
    <2> SUFFICES ASSUME NEW v \in Workers \ {w} PROVE Serves(v)'
      OBVIOUS
    <2>1. Serves(v) /\ job'[v] = job[v]
      BY <1>7 DEF Core, Serving
    <2> QED
      BY <1>8, <2>1 DEF Serves
  <1>11. OneEach'
    BY <1>6, <1>7 DEF OneEach, Serving, Core
  <1>12. Serving'
    BY <1>5, <1>7, <1>9, <1>10, <1>11 DEF Serving
  <1> QED
    BY <1>1, <1>5, <1>12, QuietKeeps DEF new

\* A return that another request has not locked gets another status, and the request ends.
LEMMA StatusSaved ==
  ASSUME Core, NEW w \in Workers, NEW n \in DOMAIN returns, NEW status \in ReturnStatus,
         \A v \in Workers \ {w} : job[v].kind = "complete_return" => job[v].number # n,
         returns' = [returns EXCEPT ![n].status = status], Done(w)
  PROVE  /\ Serving' /\ RowChanged(returns, returns', n)
         /\ returns'[n].qty = returns[n].qty /\ returns'[n].status = status
  <1>1. /\ DOMAIN returns' = DOMAIN returns
        /\ \A i \in DOMAIN returns \ {n} : returns'[i] = returns[i]
        /\ returns'[n] = [returns[n] EXCEPT !.status = status]
        /\ returns' = [i \in DOMAIN returns |-> returns'[i]]
    OBVIOUS
  <1>2. returns[n] \in Return
    BY RowTypes
  <1>3. /\ returns'[n].qty = returns[n].qty /\ returns'[n].status = status
        /\ returns'[n] \in Return
    BY <1>1, <1>2 DEF Return
  <1>4. \A i \in DOMAIN returns : returns'[i] \in Return
    BY <1>1, <1>3, RowTypes
  <1>5. returns' \in [DOMAIN returns -> Return]
    BY <1>1, <1>4
  <1>6. returns' \in Seq(Return)
    BY <1>5, RowsKept DEF Core, Serving
  <1>7. Idle \in Job /\ Idle.kind = "idle"
    BY DEF Idle, Job
  <1>8. /\ job' \in [Workers -> Job] /\ job'[w] = Idle
        /\ \A v \in Workers \ {w} : job'[v] = job[v]
    BY <1>7 DEF Done, Serving, Core
  <1>9. Serves(w)'
    BY <1>7, <1>8 DEF Serves, Writers
  <1>10. \A v \in Workers \ {w} : Serves(v)'
    <2> SUFFICES ASSUME NEW v \in Workers \ {w} PROVE Serves(v)'
      OBVIOUS
    <2>1. Serves(v) /\ job'[v] = job[v]
      BY <1>8 DEF Core, Serving
    <2>2. job[v].kind = "complete_return" => job[v].number # n
      OBVIOUS
    <2> QED
      BY <1>1, <2>1, <2>2 DEF Serves
  <1>11. OneEach'
    BY <1>7, <1>8 DEF OneEach, Serving, Core
  <1> QED
    BY <1>1, <1>3, <1>6, <1>8, <1>9, <1>10, <1>11 DEF Serving, RowChanged

\* submit_order, approve_order and cancel_order of a return.
LEMMA WriteReturnKeeps ==
  ASSUME Core, NEW w \in Workers,
         (\E approval \in Approval : SubmitReturn(w, approval)) \/ ApproveReturn(w) \/ CancelReturn(w)
  PROVE  /\ Core' /\ Quiet
         /\ job[w].kind \in Writers
         /\ RowChanged(returns, returns', job[w].number)
         /\ returns'[job[w].number].qty = returns[job[w].number].qty
         /\ returns'[job[w].number].status \in {"PENDING_APPROVAL", "APPROVED", "CANCELLED"}
  <1>1. PICK kind \in Writers, status \in {"PENDING_APPROVAL", "APPROVED", "CANCELLED"} :
          WriteReturn(w, kind, status)
    BY DEF SubmitReturn, ApproveReturn, CancelReturn, Writers
  <1>2. /\ job[w].kind \in Writers /\ ReturnFree(job[w].number) /\ Done(w) /\ Quiet
        /\ returns' = [returns EXCEPT ![job[w].number].status = status]
    BY <1>1 DEF WriteReturn, Quiet
  <1>3. job[w].number \in DOMAIN returns /\ status \in ReturnStatus
    BY <1>2 DEF Core, Serving, Serves, ReturnStatus
  <1>4. PICK n : n = job[w].number
    OBVIOUS
  <1>5. \A v \in Workers \ {w} : job[v].kind = "complete_return" => job[v].number # n
    BY <1>2, <1>4 DEF ReturnFree
  <1>6. /\ Serving' /\ RowChanged(returns, returns', n)
        /\ returns'[n].qty = returns[n].qty /\ returns'[n].status = status
    BY <1>2, <1>3, <1>4, <1>5, StatusSaved
  <1> QED
    BY <1>1, <1>2, <1>4, <1>6, QuietKeeps

-----------------------------------------------------------------------------
(* What a return takes of the receivables. *)

Offsets(qty) == [i \in DOMAIN receivables |-> Offset(i, qty)]

\* A return takes of each receivable what is left of it to pay, oldest first.
LEMMA OffsetTakes ==
  ASSUME Core, NEW qty \in Nat, NEW gives, gives = Offsets(qty)
  PROVE  /\ gives \in [DOMAIN receivables -> Nat]
         /\ \A i \in DOMAIN receivables :
              gives[i] = 0 \/ gives[i] <= receivables[i].amount - receivables[i].written
         /\ SumFunction(gives) \in Nat /\ SumFunction(gives) <= qty
  <1> USE DEF Offsets
  <1> DEFINE S == DOMAIN receivables
             has == [i \in S |-> Adjustable(i)]
             Before(i) == {m \in S : m < i}
  <1>1. IsFiniteSet(S) /\ AreNumbers(S) /\ S = 1 .. Len(receivables) /\ Len(receivables) \in Nat
    BY RowNumbers DEF Core, Papers, AreNumbers
  <1>2. \A i \in S : /\ receivables[i].amount - receivables[i].written \in Int
                     /\ Adjustable(i) \in Nat
                     /\ \/ Adjustable(i) = 0
                        \/ Adjustable(i) = receivables[i].amount - receivables[i].written
    <2> SUFFICES ASSUME NEW i \in S
                 PROVE  /\ receivables[i].amount - receivables[i].written \in Int
                        /\ Adjustable(i) \in Nat
                        /\ \/ Adjustable(i) = 0
                           \/ Adjustable(i) = receivables[i].amount - receivables[i].written
      OBVIOUS
    <2>1. receivables[i] \in Account
      BY RowTypes
    <2>2. receivables[i].amount - receivables[i].written \in Int
      BY <2>1 DEF Account
    <2> QED
      BY <2>2 DEF Adjustable, AtLeastZero
  <1>3. has \in [S -> Nat]
    BY <1>2
  <1>4. \A i \in S : [j \in 1 .. (i - 1) |-> Adjustable(j)] = [j \in Before(i) |-> has[j]]
    <2> SUFFICES ASSUME NEW i \in S
                 PROVE  [j \in 1 .. (i - 1) |-> Adjustable(j)] = [j \in Before(i) |-> has[j]]
      OBVIOUS
    <2>1. Before(i) = 1 .. (i - 1)
      BY <1>1
    <2> QED
      BY <2>1
  <1>5. \A i \in S : SumFunction([m \in Before(i) |-> has[m]]) \in Nat
    <2> SUFFICES ASSUME NEW i \in S
                 PROVE  SumFunction([m \in Before(i) |-> has[m]]) \in Nat
      OBVIOUS
    <2>1. IsFiniteSet(Before(i))
      BY <1>1, FS_Subset
    <2>2. [m \in Before(i) |-> has[m]] \in [Before(i) -> Nat]
      BY <1>3
    <2> HIDE DEF Before, has
    <2> QED
      BY <2>1, <2>2, SumType
  <1>6. \A i \in S : gives[i] = Given(qty, has, i) /\ gives[i] \in Int
    <2> SUFFICES ASSUME NEW i \in S PROVE gives[i] = Given(qty, has, i) /\ gives[i] \in Int
      OBVIOUS
    <2> DEFINE before == SumFunction([m \in Before(i) |-> has[m]])
               left   == AtLeastZero(qty - before)
    <2>1. gives[i] = IF has[i] < left THEN has[i] ELSE left
      BY <1>4 DEF Offset
    <2>2. before \in Nat /\ has[i] \in Nat
      BY <1>3, <1>5
    <2>3. Given(qty, has, i) = IF qty - before < 0 THEN 0
                               ELSE IF has[i] < qty - before THEN has[i] ELSE qty - before
      BY DEF Given
    <2> HIDE DEF before, has
    <2> QED
      BY <2>1, <2>2, <2>3 DEF AtLeastZero
  <1>7. gives \in [S -> Int]
    BY <1>6
  <1>8. /\ gives \in [S -> Nat]
        /\ \A i \in S : gives[i] <= has[i]
        /\ SumFunction(gives) = IF SumFunction(has) < qty THEN SumFunction(has) ELSE qty
    <2>1. IsFiniteSet(S) /\ AreNumbers(S)
      BY <1>1
    <2> HIDE DEF has, S
    <2> QED
      BY <2>1, <1>3, <1>6, <1>7, SumTaken
  <1>9. SumFunction(has) \in Nat
    <2> HIDE DEF has, S
    <2> QED
      BY <1>1, <1>3, SumType
  <1>10. SumFunction(gives) \in Nat /\ SumFunction(gives) <= qty
    <2> HIDE DEF has, S
    <2> QED
      BY <1>8, <1>9
  <1>11. \A i \in S : gives[i] = 0 \/ gives[i] <= receivables[i].amount - receivables[i].written
    <2> SUFFICES ASSUME NEW i \in S
                 PROVE  gives[i] = 0 \/ gives[i] <= receivables[i].amount - receivables[i].written
      OBVIOUS
    <2>1. gives[i] <= Adjustable(i) /\ gives[i] \in Nat
      BY <1>8
    <2> QED
      BY <1>2, <2>1
  <1> QED
    BY <1>8, <1>10, <1>11

\* The receivables as a return leaves them, and the red one and its refund for the rest.
LowersReceivables(lowered, gives, rest) ==
  /\ DOMAIN lowered = DOMAIN receivables
  /\ \A i \in DOMAIN receivables :
       /\ lowered[i].amount = receivables[i].amount - gives[i]
       /\ lowered[i].written = receivables[i].written
       /\ lowered[i].outbound = receivables[i].outbound
       /\ gives[i] = 0 \/ gives[i] <= receivables[i].amount - receivables[i].written
  /\ \/ rest = 0 /\ receivables' = lowered /\ refunds' = refunds
     \/ /\ rest > 0
        /\ receivables' = Append(lowered, Bill("SALES_RETURN", NoOutbound, - rest))
        /\ refunds' = Append(refunds, [receivable |-> Len(receivables) + 1, amount |-> rest,
                                       status |-> "DRAFT", account |-> FALSE])

\* What a return takes off is what receivables are lowered by and a red one for
\* the rest.
LEMMA Reversed ==
  ASSUME Core, NEW qty \in Nat, ReversesReceivables(qty)
  PROVE  /\ balance' = balance - qty
         /\ \E lowered \in Seq(Account), gives \in [DOMAIN receivables -> Nat], rest \in Nat :
              /\ SumFunction(gives) \in Nat /\ qty = SumFunction(gives) + rest
              /\ LowersReceivables(lowered, gives, rest)
  <1> DEFINE gives   == Offsets(qty)
             lowered == [i \in DOMAIN receivables |->
                           [receivables[i] EXCEPT !.amount = @ - Offset(i, qty)]]
             rest    == qty - SumFunction(gives)
  <1>1. /\ balance' = balance - qty
        /\ IF rest > 0
           THEN /\ receivables' = Append(lowered, Bill("SALES_RETURN", NoOutbound, - rest))
                /\ refunds' = Append(refunds, [receivable |-> Len(receivables) + 1,
                                               amount |-> rest, status |-> "DRAFT",
                                               account |-> FALSE])
           ELSE receivables' = lowered /\ refunds' = refunds
    BY DEF ReversesReceivables, Offsets
  <1>2. /\ gives \in [DOMAIN receivables -> Nat]
        /\ \A i \in DOMAIN receivables :
             gives[i] = 0 \/ gives[i] <= receivables[i].amount - receivables[i].written
        /\ SumFunction(gives) \in Nat /\ SumFunction(gives) <= qty
    <2> HIDE DEF gives
    <2>1. gives = Offsets(qty)
      BY DEF gives
    <2> QED
      BY <2>1, OffsetTakes
  <1>3. rest \in Nat /\ qty = SumFunction(gives) + rest
    <2> HIDE DEF gives
    <2> QED
      BY <1>2
  <1>4. \A i \in DOMAIN receivables :
          /\ lowered[i] \in Account
          /\ lowered[i].amount = receivables[i].amount - gives[i]
          /\ lowered[i].written = receivables[i].written
          /\ lowered[i].outbound = receivables[i].outbound
    <2> SUFFICES ASSUME NEW i \in DOMAIN receivables
                 PROVE  /\ lowered[i] \in Account
                        /\ lowered[i].amount = receivables[i].amount - gives[i]
                        /\ lowered[i].written = receivables[i].written
                        /\ lowered[i].outbound = receivables[i].outbound
      OBVIOUS
    <2>1. receivables[i] \in Account /\ gives[i] \in Nat
      BY <1>2, RowTypes
    <2>2. lowered[i] = [receivables[i] EXCEPT !.amount = @ - gives[i]]
      BY DEF Offsets
    <2> HIDE DEF lowered, gives
    <2> QED
      BY <2>1, <2>2 DEF Account
  <1>5. lowered \in [DOMAIN receivables -> Account]
    BY <1>4
  <1>6. lowered \in Seq(Account) /\ DOMAIN lowered = DOMAIN receivables
    BY <1>5, RowsKept DEF Core, Papers
  <1> HIDE DEF gives, lowered, rest
  <1>7. LowersReceivables(lowered, gives, rest)
    BY <1>1, <1>2, <1>3, <1>4, <1>6 DEF LowersReceivables
  <1> QED
    BY <1>1, <1>2, <1>3, <1>6, <1>7

-----------------------------------------------------------------------------
(* The papers. *)

\* One receivable more.
LEMMA Billed ==
  ASSUME Core, NEW bill \in Account, Balance(bill) >= 0,
         receivables' = Append(receivables, bill), refunds' = refunds
  PROVE  /\ Papers'
         /\ RowAdded(receivables, receivables', Len(receivables) + 1)
         /\ receivables'[Len(receivables) + 1] = bill
  <1>1. PICK t : t = receivables'
    OBVIOUS
  <1>2. t = Append(receivables, bill) /\ receivables \in Seq(Account)
    BY <1>1 DEF Core, Papers
  <1>3. /\ t \in Seq(Account) /\ RowAdded(receivables, t, Len(receivables) + 1)
        /\ t[Len(receivables) + 1] = bill
    <2>1. t \in Seq(Account)
      BY <1>2
    <2> QED
      BY <1>2, <2>1, RowAppended
  <1>4. \A i \in DOMAIN t : Balance(t[i]) >= 0
    BY <1>3 DEF RowAdded, Core, Papers, NeverOverpaid
  <1>5. \A k \in DOMAIN refunds : /\ refunds[k].receivable \in DOMAIN t
                                  /\ t[refunds[k].receivable].amount < 0
    BY <1>3 DEF RowAdded, Core, Papers
  <1>6. refunds' \in Seq(Refund)
    BY DEF Core, Papers
  <1> QED
    BY <1>1, <1>3, <1>4, <1>5, <1>6 DEF Papers, NeverOverpaid

\* Some of a receivable is paid.
LEMMA Paid ==
  ASSUME Core, NEW i \in DOMAIN receivables, NEW amount \in Nat,
         Balance(receivables[i]) >= amount,
         receivables' = [receivables EXCEPT ![i].written = @ + amount]
  PROVE  /\ receivables' \in Seq(Account) /\ RowChanged(receivables, receivables', i)
         /\ receivables'[i].amount = receivables[i].amount
         /\ receivables'[i].written = receivables[i].written + amount
         /\ Balance(receivables'[i]) = Balance(receivables[i]) - amount
         /\ NeverOverpaid'
  <1>1. PICK t : t = receivables'
    OBVIOUS
  <1>2. /\ DOMAIN t = DOMAIN receivables
        /\ \A j \in DOMAIN receivables \ {i} : t[j] = receivables[j]
        /\ t[i] = [receivables[i] EXCEPT !.written = @ + amount]
        /\ t = [j \in DOMAIN receivables |-> t[j]]
    BY <1>1
  <1>3. receivables[i] \in Account
    BY RowTypes
  <1>4. /\ t[i] \in Account
        /\ t[i].amount = receivables[i].amount
        /\ t[i].written = receivables[i].written + amount
    BY <1>2, <1>3 DEF Account
  <1>5. t \in [DOMAIN receivables -> Account]
    BY <1>2, <1>4, RowTypes
  <1>6. t \in Seq(Account)
    BY <1>5, RowsKept DEF Core, Papers
  <1>7. Balance(t[i]) = Balance(receivables[i]) - amount /\ Balance(receivables[i]) \in Int
    BY <1>3, <1>4 DEF Balance, Account
  <1>8. \A j \in DOMAIN t : Balance(t[j]) >= 0
    <2>1. Balance(t[i]) >= 0
      BY <1>7
    <2>2. \A j \in DOMAIN receivables \ {i} : Balance(receivables[j]) >= 0
      BY DEF Core, Papers, NeverOverpaid
    <2> QED
      BY <1>2, <2>1, <2>2
  <1> QED
    BY <1>1, <1>2, <1>4, <1>6, <1>7, <1>8 DEF RowChanged, NeverOverpaid

\* One refund more.
LEMMA Drafted ==
  ASSUME Core, NEW draft \in Refund, refunds' = Append(refunds, draft)
  PROVE  /\ refunds' \in Seq(Refund)
         /\ RowAdded(refunds, refunds', Len(refunds) + 1)
         /\ refunds'[Len(refunds) + 1] = draft
  <1>1. PICK t : t = refunds'
    OBVIOUS
  <1>2. t = Append(refunds, draft) /\ refunds \in Seq(Refund)
    BY <1>1 DEF Core, Papers
  <1>3. /\ t \in Seq(Refund) /\ RowAdded(refunds, t, Len(refunds) + 1)
        /\ t[Len(refunds) + 1] = draft
    <2>1. t \in Seq(Refund)
      BY <1>2
    <2> QED
      BY <1>2, <2>1, RowAppended
  <1> QED
    BY <1>1, <1>3

\* A refund moves on.
LEMMA RefundMoved ==
  ASSUME Core, NEW k \in DOMAIN refunds, NEW status \in RefundStatus, NEW account \in BOOLEAN,
         refunds' = [refunds EXCEPT ![k].status = status, ![k].account = account]
  PROVE  /\ refunds' \in Seq(Refund) /\ RowChanged(refunds, refunds', k)
         /\ refunds'[k].receivable = refunds[k].receivable
         /\ refunds'[k].amount = refunds[k].amount
         /\ refunds'[k].status = status /\ refunds'[k].account = account
  <1>1. PICK t : t = refunds'
    OBVIOUS
  <1>2. /\ DOMAIN t = DOMAIN refunds
        /\ \A j \in DOMAIN refunds \ {k} : t[j] = refunds[j]
        /\ t[k] = [refunds[k] EXCEPT !.status = status, !.account = account]
        /\ t = [j \in DOMAIN refunds |-> t[j]]
    BY <1>1
  <1>3. refunds[k] \in Refund
    BY RowTypes
  <1>4. /\ t[k] \in Refund
        /\ t[k].receivable = refunds[k].receivable /\ t[k].amount = refunds[k].amount
        /\ t[k].status = status /\ t[k].account = account
    BY <1>2, <1>3 DEF Refund
  <1>5. t \in [DOMAIN refunds -> Refund]
    BY <1>2, <1>4, RowTypes
  <1>6. t \in Seq(Refund)
    BY <1>5, RowsKept DEF Core, Papers
  <1> QED
    BY <1>1, <1>2, <1>4, <1>6 DEF RowChanged

\* What a return leaves is in order.
LEMMA Lowered ==
  ASSUME Core, NEW lowered \in Seq(Account), NEW gives \in [DOMAIN receivables -> Nat],
         NEW rest \in Nat, LowersReceivables(lowered, gives, rest)
  PROVE  Papers'
  <1>1. \A i \in DOMAIN receivables :
          /\ lowered[i] \in Account /\ receivables[i] \in Account
          /\ Balance(lowered[i]) >= 0
          /\ receivables[i].amount < 0 => lowered[i].amount < 0
    <2> SUFFICES ASSUME NEW i \in DOMAIN receivables
                 PROVE  /\ lowered[i] \in Account /\ receivables[i] \in Account
                        /\ Balance(lowered[i]) >= 0
                        /\ receivables[i].amount < 0 => lowered[i].amount < 0
      OBVIOUS
    <2>1. lowered[i] \in Account /\ receivables[i] \in Account
      BY RowTypes, RowNumbers DEF LowersReceivables
    <2>2. /\ receivables[i].amount \in Int /\ receivables[i].written \in Nat /\ gives[i] \in Nat
          /\ lowered[i].amount = receivables[i].amount - gives[i]
          /\ lowered[i].written = receivables[i].written
          /\ gives[i] = 0 \/ gives[i] <= receivables[i].amount - receivables[i].written
      BY <2>1 DEF LowersReceivables, Account
    <2>3. Balance(receivables[i]) >= 0
      BY DEF Core, Papers, NeverOverpaid
    <2> QED
      BY <2>1, <2>2, <2>3 DEF Balance
  <1>2. \A k \in DOMAIN refunds : /\ refunds[k].receivable \in DOMAIN lowered
                                  /\ lowered[refunds[k].receivable].amount < 0
    BY <1>1 DEF LowersReceivables, Core, Papers
  <1>3. CASE rest = 0 /\ receivables' = lowered /\ refunds' = refunds
    <2>1. DOMAIN lowered = DOMAIN receivables /\ refunds \in Seq(Refund)
      BY DEF LowersReceivables, Core, Papers
    <2> QED
      BY <1>1, <1>2, <1>3, <2>1 DEF Papers, NeverOverpaid
  <1>4. CASE /\ rest > 0
             /\ receivables' = Append(lowered, Bill("SALES_RETURN", NoOutbound, - rest))
             /\ refunds' = Append(refunds, [receivable |-> Len(receivables) + 1, amount |-> rest,
                                            status |-> "DRAFT", account |-> FALSE])
    <2> DEFINE red   == Bill("SALES_RETURN", NoOutbound, - rest)
               draft == [receivable |-> Len(receivables) + 1, amount |-> rest,
                         status |-> "DRAFT", account |-> FALSE]
    <2>1. /\ Len(lowered) = Len(receivables) /\ Len(receivables) \in Nat
          /\ DOMAIN lowered = DOMAIN receivables
      BY DEF LowersReceivables, Core, Papers
    <2>2. red \in Account /\ red.amount = - rest /\ red.written = 0
      BY DEF Account, Bill
    <2>3. Balance(red) >= 0 /\ red.amount < 0
      <3> HIDE DEF red
      <3> QED
        BY <1>4, <2>2 DEF Balance
    <2>4. draft \in Refund /\ draft.receivable = Len(receivables) + 1
      BY <1>4, <2>1 DEF Refund, RefundStatus
    <2> HIDE DEF red, draft
    <2>5. PICK t, u : t = receivables' /\ u = refunds'
      OBVIOUS
    <2>6. t = Append(lowered, red) /\ u = Append(refunds, draft) /\ refunds \in Seq(Refund)
      BY <1>4, <2>5 DEF red, draft, Core, Papers
    <2>7. t \in Seq(Account) /\ u \in Seq(Refund)
      BY <2>2, <2>4, <2>6
    <2>8. /\ RowAdded(lowered, t, Len(receivables) + 1) /\ t[Len(receivables) + 1] = red
          /\ RowAdded(refunds, u, Len(refunds) + 1) /\ u[Len(refunds) + 1] = draft
      BY <2>1, <2>6, RowAppended
    <2>9. \A i \in DOMAIN t : Balance(t[i]) >= 0
      BY <1>1, <2>1, <2>3, <2>8 DEF RowAdded
    <2>10. \A k \in DOMAIN u : u[k].receivable \in DOMAIN t /\ t[u[k].receivable].amount < 0
      BY <1>2, <2>3, <2>4, <2>8 DEF RowAdded
    <2> QED
      BY <2>5, <2>7, <2>9, <2>10 DEF Papers, NeverOverpaid
  <1> QED
    BY <1>3, <1>4 DEF LowersReceivables

-----------------------------------------------------------------------------
(* Requests that move goods and money. *)

\* A save of a position.
LEMMA StockMoves ==
  ASSUME Core, NEW qty \in Nat
  PROVE  /\ ChangeStock(stock, qty) \in Positions
         /\ ChangeStock(stock, qty).current = stock.current + qty
         /\ ShipStock(stock, qty) \in Positions
         /\ ShipStock(stock, qty).current = stock.current - qty
         /\ stock.current \in Int
  <1>1. stock \in Positions
    BY DEF Core, Rest
  <1>2. stock.current \in Int /\ stock.locked \in Int
    BY <1>1 DEF Positions
  <1>3. stock.current + qty \in Int /\ stock.current - qty \in Int
        /\ AtLeastZero(stock.locked - qty) \in Int
    BY <1>2 DEF AtLeastZero
  <1>4. /\ ChangeStock(stock, qty) \in Positions
        /\ ChangeStock(stock, qty).current = stock.current + qty
    BY <1>1, <1>3 DEF ChangeStock, Positions
  <1>5. /\ ShipStock(stock, qty) \in Positions
        /\ ShipStock(stock, qty).current = stock.current - qty
    BY <1>1, <1>3 DEF ShipStock, Positions
  <1> QED
    BY <1>2, <1>4, <1>5

\* What an outbound order delivers.
LEMMA DeliversType == \A o \in Outbounds : Delivers[o] \in Nat /\ Delivers[o] > 0
  BY ReceivablesAssumption

\* The bill of an outbound order, and of the order.
LEMMA BillTypes ==
  ASSUME NEW source \in {"OUTBOUND_ORDER", "SALES_ORDER"},
         NEW o \in Outbounds \cup {NoOutbound}, NEW amount \in Nat
  PROVE  /\ Bill(source, o, amount) \in Account
         /\ Bill(source, o, amount).amount = amount
         /\ Bill(source, o, amount).written = 0
         /\ Bill(source, o, amount).outbound = o
         /\ Balance(Bill(source, o, amount)) = amount
  <1>1. /\ Bill(source, o, amount) \in Account
        /\ Bill(source, o, amount).amount = amount
        /\ Bill(source, o, amount).written = 0
        /\ Bill(source, o, amount).outbound = o
    BY DEF Bill, Account
  <1> QED
    BY <1>1 DEF Balance

\* An outbound order is completed, and billed by itself where that is so
\* decided.
LEMMA CompleteOutboundKeeps ==
  ASSUME Core, NEW w \in Workers, NEW o \in Outbounds, NEW auto \in AutoBilling,
         CompleteOutbound(w, o, auto)
  PROVE  Core'
  <1>1. /\ delivered' = delivered \cup {o} /\ stock' = ShipStock(stock, Delivers[o])
        /\ UNCHANGED <<receipts, refunds, returns, cash, job>>
        /\ UNCHANGED books \/ BillsOutbound(o)
    BY DEF CompleteOutbound
  <1>2. stock' \in Positions
    BY <1>1, DeliversType, StockMoves
  <1>3. Papers' /\ balance' \in Int
    <2>1. CASE UNCHANGED books
      BY <1>1, <2>1 DEF books, Core, Papers, Rest, NeverOverpaid
    <2>2. CASE BillsOutbound(o)
      <3> DEFINE bill == Bill("OUTBOUND_ORDER", o, Delivers[o])
      <3>1. bill \in Account /\ Balance(bill) >= 0 /\ Delivers[o] \in Nat
        BY BillTypes, DeliversType
      <3>2. receivables' = Append(receivables, bill) /\ balance' = balance + Delivers[o]
        BY <2>2 DEF BillsOutbound
      <3> HIDE DEF bill
      <3>3. Papers'
        BY <1>1, <3>1, <3>2, Billed
      <3> QED
        BY <3>1, <3>2, <3>3 DEF Core, Rest
    <2> QED
      BY <1>1, <2>1, <2>2
  <1>4. Rest'
    BY <1>1, <1>2, <1>3 DEF Core, Rest
  <1> QED
    BY <1>1, <1>3, <1>4, ServingRests DEF Core

\* All that is ever delivered.
AllDelivered == SumFunction(Delivers)

\* What was delivered is a number.
LEMMA AllDeliveredType == AllDelivered \in Nat
  <1>1. IsFiniteSet(Outbounds) /\ Delivers \in [Outbounds -> Nat]
    BY ReceivablesAssumption
  <1> QED
    BY <1>1, SumType DEF AllDelivered

\* The whole order is billed.
LEMMA GenerateKeeps ==
  ASSUME Core, NEW w \in Workers, GenerateFromOrder(w)
  PROVE  Core'
  <1> DEFINE bill == Bill("SALES_ORDER", NoOutbound, AllDelivered)
  <1>1. /\ receivables' = Append(receivables, bill) /\ balance' = balance + AllDelivered
        /\ Done(w) /\ UNCHANGED <<delivered, receipts, refunds, returns, cash, stock>>
    BY DEF GenerateFromOrder, AllDelivered
  <1>2. bill \in Account /\ Balance(bill) >= 0
    BY BillTypes, AllDeliveredType
  <1> HIDE DEF bill
  <1>3. Papers'
    BY <1>1, <1>2, Billed
  <1>4. Rest'
    BY <1>1, AllDeliveredType DEF Core, Rest
  <1>5. Serving'
    BY <1>1, DoneServes DEF Core
  <1> QED
    BY <1>3, <1>4, <1>5 DEF Core

\* complete_order of a return: the return, the stock and the receivables.
LEMMA Completed ==
  ASSUME Core, NEW w \in Workers, CompleteReturn(w)
  PROVE  /\ job[w].kind = "complete_return"
         /\ job[w].number \in DOMAIN returns /\ job[w].qty \in Nat \ {0}
         /\ returns[job[w].number].status = "APPROVED"
         /\ returns[job[w].number].qty = job[w].qty
         /\ RowChanged(returns, returns', job[w].number)
         /\ returns'[job[w].number].qty = job[w].qty
         /\ returns'[job[w].number].status = "COMPLETED"
         /\ stock' \in Positions /\ stock'.current = stock.current + job[w].qty
         /\ ReversesReceivables(job[w].qty)
         /\ Serving' /\ Done(w)
         /\ UNCHANGED <<delivered, receipts, cash>>
  <1>1. PICK n, qty : n = job[w].number /\ qty = job[w].qty
    OBVIOUS
  <1>2. /\ job[w].kind = "complete_return"
        /\ stock' = ChangeStock(stock, qty) /\ ReversesReceivables(qty)
        /\ returns' = [returns EXCEPT ![n].status = "COMPLETED"]
        /\ Done(w) /\ UNCHANGED <<delivered, receipts, cash>>
    BY <1>1 DEF CompleteReturn
  <1>3. n \in DOMAIN returns /\ returns[n].status = "APPROVED" /\ returns[n].qty = qty
    BY <1>1, <1>2 DEF Core, Serving, Serves
  <1>4. qty \in Nat \ {0}
    BY <1>3, RowTypes DEF Return
  <1>5. \A v \in Workers \ {w} : job[v].kind = "complete_return" => job[v].number # n
    BY <1>1, <1>2 DEF Core, Serving, OneEach
  <1>6. "COMPLETED" \in ReturnStatus
    BY DEF ReturnStatus
  <1>7. /\ Serving' /\ RowChanged(returns, returns', n)
        /\ returns'[n].qty = returns[n].qty /\ returns'[n].status = "COMPLETED"
    BY <1>2, <1>3, <1>5, <1>6, StatusSaved
  <1>8. stock' \in Positions /\ stock'.current = stock.current + qty
    BY <1>2, <1>4, StockMoves
  <1> QED
    BY <1>1, <1>2, <1>3, <1>4, <1>7, <1>8

\* A return is completed, and reversed.
LEMMA CompleteReturnKeeps ==
  ASSUME Core, NEW w \in Workers, CompleteReturn(w)
  PROVE  Core'
  <1>1. PICK qty : qty = job[w].qty
    OBVIOUS
  <1>2. /\ qty \in Nat /\ stock' \in Positions /\ ReversesReceivables(qty) /\ Serving'
        /\ UNCHANGED <<delivered, receipts, cash>>
    BY <1>1, Completed
  <1>3. /\ balance' = balance - qty
        /\ \E lowered \in Seq(Account), gives \in [DOMAIN receivables -> Nat], rest \in Nat :
             LowersReceivables(lowered, gives, rest)
    BY <1>2, Reversed
  <1>4. Papers'
    BY <1>3, Lowered
  <1>5. Rest'
    BY <1>2, <1>3 DEF Core, Rest
  <1> QED
    BY <1>2, <1>4, <1>5 DEF Core

\* A receipt is made.
LEMMA ReceiptMade ==
  ASSUME Core, NEW w \in Workers, NEW amount \in Amounts, NEW approval \in Approval,
         NEW account \in BOOLEAN, CreateReceipt(w, amount, approval, account)
  PROVE  /\ Core'
         /\ RowAdded(receipts, receipts', Len(receipts) + 1)
         /\ receipts'[Len(receipts) + 1].amount = amount
         /\ receipts'[Len(receipts) + 1].unwritten = amount
         /\ receipts'[Len(receipts) + 1].executed = FALSE
  <1> DEFINE new == [amount |-> amount, unwritten |-> amount, approved |-> ~ approval,
                     executed |-> FALSE, account |-> account]
  <1>1. PICK t : t = receipts'
    OBVIOUS
  <1>2. /\ t = Append(receipts, new) /\ receipts \in Seq(Receipt)
        /\ UNCHANGED <<delivered, books, refunds, returns, cash, stock, job>>
    BY <1>1 DEF CreateReceipt, Core, Rest
  <1>3. new \in Receipt /\ new.amount = amount /\ new.unwritten = amount /\ new.executed = FALSE
    BY RowTypes DEF Receipt
  <1> HIDE DEF new
  <1>4. t \in Seq(Receipt)
    BY <1>2, <1>3
  <1>5. RowAdded(receipts, t, Len(receipts) + 1) /\ t[Len(receipts) + 1] = new
    BY <1>2, RowAppended
  <1>6. Papers'
    BY <1>2 DEF books, Core, Papers, NeverOverpaid
  <1>7. Rest'
    BY <1>1, <1>2, <1>4 DEF books, Core, Rest
  <1> QED
    BY <1>1, <1>2, <1>3, <1>5, <1>6, <1>7, ServingRests DEF Core

\* A receipt is written again.
LEMMA ReceiptChanged ==
  ASSUME Core, NEW n \in DOMAIN receipts, NEW row \in Receipt,
         receipts' = [receipts EXCEPT ![n] = row]
  PROVE  /\ receipts' \in Seq(Receipt) /\ RowChanged(receipts, receipts', n)
         /\ receipts'[n] = row
  <1>1. PICK t : t = receipts'
    OBVIOUS
  <1>2. /\ DOMAIN t = DOMAIN receipts
        /\ \A j \in DOMAIN receipts \ {n} : t[j] = receipts[j]
        /\ t[n] = row
        /\ t = [j \in DOMAIN receipts |-> t[j]]
    BY <1>1
  <1>3. t \in [DOMAIN receipts -> Receipt]
    BY <1>2, RowTypes
  <1>4. t \in Seq(Receipt)
    BY <1>3, RowsKept DEF Core, Rest
  <1> QED
    BY <1>1, <1>2, <1>4 DEF RowChanged

\* A receipt is approved, executed, or used to pay.
LEMMA ReceiptMoves ==
  ASSUME Core, NEW w \in Workers, NEW n \in DOMAIN receipts,
         ApproveReceipt(w, n) \/ ExecuteReceipt(w, n)
  PROVE  /\ Core' /\ UNCHANGED <<delivered, books, refunds, returns, stock, job>>
         /\ RowChanged(receipts, receipts', n) /\ receipts'[n] \in Receipt
         /\ receipts'[n].amount = receipts[n].amount
         /\ receipts'[n].unwritten = receipts[n].unwritten
         /\ receipts'[n].account = receipts[n].account
         /\ \/ receipts'[n].executed = receipts[n].executed /\ cash' = cash
            \/ /\ ~ receipts[n].executed /\ receipts'[n].executed
               /\ cash' = IF receipts[n].account THEN cash + receipts[n].amount ELSE cash
  <1> DEFINE approved == [receipts[n] EXCEPT !.approved = TRUE]
             executed == [receipts[n] EXCEPT !.executed = TRUE]
  <1>1. receipts[n] \in Receipt /\ receipts[n].amount \in Nat
    BY RowTypes DEF Receipt
  <1>2. /\ approved \in Receipt /\ approved.amount = receipts[n].amount
        /\ approved.unwritten = receipts[n].unwritten /\ approved.account = receipts[n].account
        /\ approved.executed = receipts[n].executed
    BY <1>1 DEF Receipt
  <1>3. /\ executed \in Receipt /\ executed.amount = receipts[n].amount
        /\ executed.unwritten = receipts[n].unwritten /\ executed.account = receipts[n].account
        /\ executed.executed
    BY <1>1 DEF Receipt
  <1>4. UNCHANGED <<delivered, books, refunds, returns, stock, job>>
    BY DEF ApproveReceipt, ExecuteReceipt, books
  <1>5. \/ receipts' = [receipts EXCEPT ![n] = approved] /\ cash' = cash
        \/ /\ receipts' = [receipts EXCEPT ![n] = executed]
           /\ ~ receipts[n].executed
           /\ cash' = IF receipts[n].account THEN cash + receipts[n].amount ELSE cash
    BY DEF ApproveReceipt, ExecuteReceipt
  <1> HIDE DEF approved, executed
  <1>6. /\ receipts' \in Seq(Receipt) /\ RowChanged(receipts, receipts', n)
        /\ \/ receipts'[n] = approved /\ cash' = cash
           \/ /\ receipts'[n] = executed /\ ~ receipts[n].executed
              /\ cash' = IF receipts[n].account THEN cash + receipts[n].amount ELSE cash
    BY <1>2, <1>3, <1>5, ReceiptChanged
  <1>7. Papers'
    BY <1>4 DEF books, Core, Papers, NeverOverpaid
  <1>8. Rest'
    BY <1>1, <1>4, <1>6 DEF books, Core, Rest
  <1>9. Core'
    BY <1>4, <1>7, <1>8, ServingRests DEF Core
  <1> QED
    BY <1>2, <1>3, <1>4, <1>6, <1>9

\* write_off: the receivable and the receipt.
LEMMA WrittenOff ==
  ASSUME Core, NEW w \in Workers, NEW i \in DOMAIN receivables, NEW n \in DOMAIN receipts,
         NEW amount \in Amounts, NEW partial \in Partial, WriteOff(w, i, n, amount, partial)
  PROVE  /\ Core' /\ amount \in Nat /\ UNCHANGED <<delivered, refunds, returns, cash, stock, job>>
         /\ RowChanged(receivables, receivables', i)
         /\ receivables'[i].amount = receivables[i].amount
         /\ receivables'[i].written = receivables[i].written + amount
         /\ Balance(receivables'[i]) = Balance(receivables[i]) - amount
         /\ balance' = balance - amount
         /\ RowChanged(receipts, receipts', n) /\ receipts'[n] \in Receipt
         /\ receipts'[n].amount = receipts[n].amount
         /\ receipts'[n].unwritten = receipts[n].unwritten - amount
         /\ receipts'[n].executed = receipts[n].executed
         /\ receipts'[n].account = receipts[n].account
  <1> DEFINE row == [receipts[n] EXCEPT !.unwritten = @ - amount]
  <1>1. /\ Balance(receivables[i]) >= amount /\ receipts[n].unwritten >= amount
        /\ receivables' = [receivables EXCEPT ![i].written = @ + amount]
        /\ balance' = balance - amount
        /\ receipts' = [receipts EXCEPT ![n] = row]
        /\ UNCHANGED <<delivered, refunds, returns, cash, stock, job>>
    BY DEF WriteOff
  <1>2. amount \in Nat /\ receipts[n] \in Receipt /\ receipts[n].unwritten \in Nat
    BY RowTypes DEF Receipt
  <1>3. receipts[n].unwritten - amount \in Nat
    BY <1>1, <1>2
  <1>4. /\ row \in Receipt /\ row.amount = receipts[n].amount
        /\ row.unwritten = receipts[n].unwritten - amount
        /\ row.executed = receipts[n].executed /\ row.account = receipts[n].account
    BY <1>2, <1>3 DEF Receipt
  <1> HIDE DEF row
  <1>5. /\ receipts' \in Seq(Receipt) /\ RowChanged(receipts, receipts', n)
        /\ receipts'[n] = row
    BY <1>1, <1>4, ReceiptChanged
  <1>6. /\ receivables' \in Seq(Account) /\ RowChanged(receivables, receivables', i)
        /\ receivables'[i].amount = receivables[i].amount
        /\ receivables'[i].written = receivables[i].written + amount
        /\ Balance(receivables'[i]) = Balance(receivables[i]) - amount
        /\ NeverOverpaid'
    BY <1>1, <1>2, Paid
  <1>7. \A k \in DOMAIN refunds' : /\ refunds'[k].receivable \in DOMAIN receivables'
                                   /\ receivables'[refunds'[k].receivable].amount < 0
    BY <1>1, <1>6 DEF RowChanged, Core, Papers
  <1>8. Papers'
    BY <1>1, <1>6, <1>7 DEF Core, Papers
  <1>9. Rest'
    BY <1>1, <1>2, <1>5 DEF Core, Rest
  <1>10. Core'
    BY <1>1, <1>8, <1>9, ServingRests DEF Core
  <1> QED
    BY <1>1, <1>2, <1>4, <1>5, <1>6, <1>10

\* create_customer_refund: a draft.
LEMMA RefundMade ==
  ASSUME Core, NEW w \in Workers, NEW i \in DOMAIN receivables, CreateRefund(w, i)
  PROVE  /\ Core' /\ UNCHANGED <<delivered, books, receipts, returns, cash, stock, job>>
         /\ RowAdded(refunds, refunds', Len(refunds) + 1)
         /\ refunds'[Len(refunds) + 1] \in Refund
         /\ refunds'[Len(refunds) + 1].status = "DRAFT"
  <1> DEFINE draft == [receivable |-> i, amount |-> Balance(receivables[i]), status |-> "DRAFT",
                       account |-> FALSE]
  <1>1. /\ receivables[i].amount < 0 /\ Balance(receivables[i]) > 0
        /\ refunds' = Append(refunds, draft)
        /\ UNCHANGED <<delivered, books, receipts, returns, cash, stock, job>>
    BY DEF CreateRefund
  <1>2. i \in Nat /\ receivables[i] \in Account
    BY RowNumbers, RowTypes DEF Core, Papers
  <1>3. Balance(receivables[i]) \in Nat \ {0}
    BY <1>1, <1>2 DEF Balance, Account
  <1>4. draft \in Refund /\ draft.receivable = i /\ draft.status = "DRAFT"
    BY <1>2, <1>3 DEF Refund, RefundStatus
  <1> HIDE DEF draft
  <1>5. /\ refunds' \in Seq(Refund) /\ RowAdded(refunds, refunds', Len(refunds) + 1)
        /\ refunds'[Len(refunds) + 1] = draft
    BY <1>1, <1>4, Drafted
  <1>6. receivables' = receivables
    BY <1>1 DEF books
  <1>7. \A k \in DOMAIN refunds' : /\ refunds'[k].receivable \in DOMAIN receivables'
                                   /\ receivables'[refunds'[k].receivable].amount < 0
    BY <1>1, <1>4, <1>5, <1>6 DEF RowAdded, Core, Papers
  <1>8. Papers'
    BY <1>5, <1>6, <1>7 DEF Core, Papers, NeverOverpaid
  <1>9. Rest'
    BY <1>1 DEF books, Core, Rest
  <1> QED
    BY <1>1, <1>4, <1>5, <1>8, <1>9, ServingRests DEF Core

\* submit_customer_refund and approve_customer_refund.
LEMMA RefundMoves ==
  ASSUME Core, NEW w \in Workers, NEW k \in DOMAIN refunds,
         SubmitRefund(w, k) \/ ApproveRefund(w, k)
  PROVE  /\ Core' /\ UNCHANGED <<delivered, books, receipts, returns, cash, stock, job>>
         /\ RowChanged(refunds, refunds', k) /\ refunds'[k] \in Refund
         /\ refunds[k].status # "COMPLETED" /\ refunds'[k].status # "COMPLETED"
  <1>1. PICK status \in {"PENDING_APPROVAL", "APPROVED"} :
          /\ refunds' = [refunds EXCEPT ![k].status = status]
          /\ refunds[k].status # "COMPLETED"
          /\ UNCHANGED <<delivered, books, receipts, returns, cash, stock, job>>
    BY DEF SubmitRefund, ApproveRefund, MoveRefund
  <1>2. PICK account : account = refunds[k].account
    OBVIOUS
  <1>3. account \in BOOLEAN /\ refunds[k] \in Refund /\ status \in RefundStatus
    BY <1>2, RowTypes DEF Refund, RefundStatus
  <1>4. refunds' = [refunds EXCEPT ![k].status = status, ![k].account = account]
    BY <1>1, <1>2, <1>3 DEF Refund
  <1>5. /\ refunds' \in Seq(Refund) /\ RowChanged(refunds, refunds', k)
        /\ refunds'[k].receivable = refunds[k].receivable
        /\ refunds'[k].status = status
    BY <1>3, <1>4, RefundMoved
  <1>6. refunds'[k] \in Refund
    BY <1>5, RowNumbers DEF RowChanged
  <1>7. receivables' = receivables
    BY <1>1 DEF books
  <1>8. \A j \in DOMAIN refunds' : /\ refunds'[j].receivable \in DOMAIN receivables'
                                   /\ receivables'[refunds'[j].receivable].amount < 0
    BY <1>5, <1>7 DEF RowChanged, Core, Papers
  <1>9. Papers'
    BY <1>5, <1>7, <1>8 DEF Core, Papers, NeverOverpaid
  <1>10. Rest'
    BY <1>1 DEF books, Core, Rest
  <1> QED
    BY <1>1, <1>5, <1>6, <1>9, <1>10, ServingRests DEF Core

\* execute_customer_refund: the receivable, the refund and the account.
LEMMA RefundExecuted ==
  ASSUME Core, NEW w \in Workers, NEW k \in DOMAIN refunds, NEW account \in BOOLEAN,
         NEW i, i = refunds[k].receivable, NEW amount, amount = refunds[k].amount,
         ExecuteRefund(w, k, account)
  PROVE  /\ Core' /\ amount \in Nat \ {0}
         /\ UNCHANGED <<delivered, receipts, returns, stock, job>>
         /\ RowChanged(receivables, receivables', i)
         /\ receivables[i].amount < 0
         /\ receivables'[i].amount = receivables[i].amount
         /\ receivables'[i].written = receivables[i].written + amount
         /\ Balance(receivables'[i]) = Balance(receivables[i]) - amount
         /\ balance' = balance + amount
         /\ cash' = IF account THEN cash - amount ELSE cash
         /\ RowChanged(refunds, refunds', k) /\ refunds'[k] \in Refund
         /\ refunds[k].status # "COMPLETED"
         /\ refunds'[k].amount = amount
         /\ refunds'[k].status = "COMPLETED" /\ refunds'[k].account = account
  <1>1. /\ refunds[k].status = "APPROVED" /\ Balance(receivables[i]) >= amount
        /\ account => cash >= amount
        /\ cash' = IF account THEN cash - amount ELSE cash
        /\ receivables' = [receivables EXCEPT ![i].written = @ + amount]
        /\ balance' = balance + amount
        /\ refunds' = [refunds EXCEPT ![k].status = "COMPLETED", ![k].account = account]
        /\ UNCHANGED <<delivered, receipts, returns, stock, job>>
    BY DEF ExecuteRefund, Refundable, Affords
  <1>2. amount \in Nat \ {0} /\ i \in DOMAIN receivables /\ receivables[i].amount < 0
    BY RowTypes DEF Refund, Core, Papers
  <1>3. /\ receivables' \in Seq(Account) /\ RowChanged(receivables, receivables', i)
        /\ receivables'[i].amount = receivables[i].amount
        /\ receivables'[i].written = receivables[i].written + amount
        /\ Balance(receivables'[i]) = Balance(receivables[i]) - amount
        /\ NeverOverpaid'
    BY <1>1, <1>2, Paid
  <1>4. "COMPLETED" \in RefundStatus
    BY DEF RefundStatus
  <1>5. /\ refunds' \in Seq(Refund) /\ RowChanged(refunds, refunds', k)
        /\ refunds'[k].receivable = refunds[k].receivable
        /\ refunds'[k].amount = refunds[k].amount
        /\ refunds'[k].status = "COMPLETED" /\ refunds'[k].account = account
    BY <1>1, <1>4, RefundMoved
  <1>6. refunds'[k] \in Refund
    BY <1>5, RowNumbers DEF RowChanged
  <1>7. \A j \in DOMAIN refunds' : /\ refunds'[j].receivable \in DOMAIN receivables'
                                   /\ receivables'[refunds'[j].receivable].amount < 0
    <2>1. \A j \in DOMAIN refunds' : /\ j \in DOMAIN refunds
                                     /\ refunds'[j].receivable = refunds[j].receivable
      BY <1>5 DEF RowChanged
    <2>2. \A m \in DOMAIN receivables : /\ m \in DOMAIN receivables'
                                        /\ receivables'[m].amount = receivables[m].amount
      BY <1>3 DEF RowChanged
    <2> QED
      BY <2>1, <2>2 DEF Core, Papers
  <1>8. Papers'
    BY <1>3, <1>5, <1>7 DEF Papers
  <1>9. Rest'
    BY <1>1, <1>2 DEF Core, Rest
  <1>10. Core'
    BY <1>1, <1>8, <1>9, ServingRests DEF Core
  <1> QED
    BY <1>1, <1>2, <1>3, <1>5, <1>6, <1>10

-----------------------------------------------------------------------------
(* Every step keeps the invariant. *)

\* Requests of which only the job is another.
Looks(w) ==
  \/ LoadBilling(w)
  \/ \E qty \in ReturnQuantities : CheckReturn(w, qty)
  \/ \E n \in DOMAIN returns : \/ \E kind \in Writers : LoadReturn(w, kind, n)
                               \/ LockReturn(w, n)
  \/ Abort(w)

\* Requests that save the status of a return.
Saves(w) ==
  (\E approval \in Approval : SubmitReturn(w, approval)) \/ ApproveReturn(w) \/ CancelReturn(w)

\* The steps of the requests about returns.
LEMMA ReturnSteps ==
  ASSUME NEW w \in Workers, ReturnStep(w)
  PROVE  Looks(w) \/ CreateReturn(w) \/ Saves(w) \/ CompleteReturn(w)
  BY DEF ReturnStep, Looks, Saves, Writers

\* The steps that only look.
LEMMA LooksKeep ==
  ASSUME Core, NEW w \in Workers, Looks(w)
  PROVE  Core' /\ Quiet /\ returns' = returns
  BY LoadBillingKeeps, CheckReturnKeeps, LoadReturnKeeps, LockReturnKeeps, AbortKeeps DEF Looks

\* Every step keeps Core.
LEMMA NextCore == Core /\ [Next]_vars => Core'
  <1> SUFFICES ASSUME Core, [Next]_vars PROVE Core'
    OBVIOUS
  <1>1. CASE UNCHANGED vars
    BY <1>1 DEF vars, books, Core, Papers, Rest, Serving, Serves, OneEach, NeverOverpaid
  <1>2. ASSUME NEW w \in Workers, BillingStep(w)
        PROVE  Core'
    BY <1>2, CompleteOutboundKeeps, LoadBillingKeeps, GenerateKeeps DEF BillingStep
  <1>3. ASSUME NEW w \in Workers, ReturnStep(w)
        PROVE  Core'
    BY <1>3, ReturnSteps, LooksKeep, CreateReturnKeeps, WriteReturnKeeps, CompleteReturnKeeps
       DEF Saves
  <1>4. ASSUME NEW w \in Workers, MoneyStep(w)
        PROVE  Core'
    <2>1. CASE \E amount \in Amounts, approval \in Approval, account \in BOOLEAN :
                 CreateReceipt(w, amount, approval, account)
      BY <2>1, ReceiptMade
    <2>2. ASSUME NEW n \in DOMAIN receipts, ApproveReceipt(w, n) \/ ExecuteReceipt(w, n)
          PROVE  Core'
      BY <2>2, ReceiptMoves
    <2>3. ASSUME NEW n \in DOMAIN receipts, NEW i \in DOMAIN receivables, NEW amount \in Amounts,
                 NEW partial \in Partial, WriteOff(w, i, n, amount, partial)
          PROVE  Core'
      BY <2>3, WrittenOff
    <2>4. ASSUME NEW i \in DOMAIN receivables, CreateRefund(w, i)
          PROVE  Core'
      BY <2>4, RefundMade
    <2>5. ASSUME NEW k \in DOMAIN refunds, SubmitRefund(w, k) \/ ApproveRefund(w, k)
          PROVE  Core'
      BY <2>5, RefundMoves
    <2>6. ASSUME NEW k \in DOMAIN refunds, NEW account \in BOOLEAN, ExecuteRefund(w, k, account)
          PROVE  Core'
      BY <2>6, RefundExecuted
    <2> QED
      BY <1>4, <2>1, <2>2, <2>3, <2>4, <2>5, <2>6 DEF MoneyStep
  <1> QED
    BY <1>1, <1>2, <1>3, <1>4 DEF Next

\* The invariant holds throughout.
LEMMA CoreHolds == Spec => []Core
  BY InitCore, NextCore, PTL DEF Spec

\* Core gives the type invariant.
LEMMA CoreTypes == Core => TypeOK
  <1> SUFFICES ASSUME Core PROVE TypeOK
    OBVIOUS
  <1>1. \A i \in DOMAIN receivables : /\ receivables[i].outbound \in Outbounds \cup {NoOutbound}
                                      /\ receivables[i].amount \in Int
                                      /\ receivables[i].written \in Nat
    BY RowTypes DEF Account
  <1>2. \A n \in DOMAIN receipts :
          receipts[n] \in [amount : Amounts, unwritten : Nat, approved : BOOLEAN,
                           executed : BOOLEAN, account : BOOLEAN]
    BY RowTypes DEF Receipt
  <1>3. \A n \in DOMAIN refunds :
          refunds[n] \in [receivable : DOMAIN receivables, amount : Nat \ {0},
                          status : RefundStatus, account : BOOLEAN]
    BY RowTypes DEF Refund, Core, Papers
  <1>4. \A n \in DOMAIN returns : returns[n] \in [qty : ReturnQuantities, status : ReturnStatus]
    BY RowTypes DEF Return
  <1> QED
    BY <1>1, <1>2, <1>3, <1>4 DEF TypeOK, Core, Rest

-----------------------------------------------------------------------------
(* What the tables come to. *)

\* The columns of the tables.
Written  == [a \in Account |-> a.written]
Owed     == [a \in Account |-> IF a.amount >= 0 THEN Balance(a) ELSE - Balance(a)]
Asked    == [a \in Account |-> a.amount]
Used     == [r \in Receipt |-> r.amount - r.unwritten]
Income   == [r \in Receipt |-> IF r.executed /\ r.account THEN r.amount ELSE 0]
Refunded == [r \in Refund |-> IF r.status = "COMPLETED" THEN r.amount ELSE 0]
Outlay   == [r \in Refund |-> IF r.status = "COMPLETED" /\ r.account THEN r.amount ELSE 0]

\* What receivables ask for, and three differences that should never change.
Invoiced   == Column(receivables, Asked)
UsedGap    == Column(receivables, Written) - Column(receipts, Used) - Column(refunds, Refunded)
CashGap    == cash - Column(receipts, Income) + Column(refunds, Outlay)
BalanceGap == balance - Column(receivables, Owed)

\* The books after the step: only what is asked for is another.
BooksMove(asked) ==
  /\ Invoiced' = Invoiced + asked
  /\ UsedGap' = UsedGap /\ CashGap' = CashGap /\ BalanceGap' = BalanceGap

\* The columns are numbers.
LEMMA Columns ==
  /\ IsColumn(Written, Account) /\ IsColumn(Owed, Account) /\ IsColumn(Asked, Account)
  /\ IsColumn(Used, Receipt) /\ IsColumn(Income, Receipt)
  /\ IsColumn(Refunded, Refund) /\ IsColumn(Outlay, Refund)
  <1>1. \A n \in Amounts : n \in Int
    BY ReceivablesAssumption
  <1>2. IsColumn(Written, Account) /\ IsColumn(Asked, Account)
    BY DEF IsColumn, Written, Asked, Account
  <1>3. IsColumn(Owed, Account)
    <2>1. \A a \in Account : Balance(a) \in Int
      BY DEF Account, Balance
    <2> QED
      BY <2>1 DEF IsColumn, Owed
  <1>4. IsColumn(Used, Receipt) /\ IsColumn(Income, Receipt)
    <2>1. \A r \in Receipt : r.amount \in Int /\ r.unwritten \in Int
      BY <1>1 DEF Receipt
    <2> QED
      BY <2>1 DEF IsColumn, Used, Income
  <1>5. IsColumn(Refunded, Refund) /\ IsColumn(Outlay, Refund)
    <2>1. \A r \in Refund : r.amount \in Int
      BY DEF Refund
    <2> QED
      BY <2>1 DEF IsColumn, Refunded, Outlay
  <1> QED
    BY <1>2, <1>3, <1>4, <1>5

\* The tables have their rows, before a step and after it.
LEMMA Tables ==
  /\ Core => /\ AreRows(receivables, Account) /\ AreRows(receipts, Receipt)
             /\ AreRows(refunds, Refund)
  /\ Core' => /\ AreRows(receivables', Account) /\ AreRows(receipts', Receipt)
              /\ AreRows(refunds', Refund)
  BY RowsOf DEF Core, Papers, Rest

\* So what they come to are numbers.
LEMMA Sums ==
  ASSUME Core
  PROVE  /\ Column(receivables, Written) \in Int /\ Column(receivables, Owed) \in Int
         /\ Invoiced \in Int /\ Column(receivables, Asked) \in Int
         /\ Column(receipts, Used) \in Int /\ Column(receipts, Income) \in Int
         /\ Column(refunds, Refunded) \in Int /\ Column(refunds, Outlay) \in Int
         /\ cash \in Int /\ balance \in Int
  BY Columns, Tables, ColumnSums DEF Core, Rest, Invoiced

\* Requests that are no business of the books.
LEMMA BooksStay ==
  ASSUME Core, UNCHANGED <<receivables, receipts, refunds, balance, cash>>
  PROVE  BooksMove(0)
  BY Sums DEF BooksMove, Invoiced, UsedGap, CashGap, BalanceGap

\* A bill.
LEMMA BilledBooks ==
  ASSUME Core, Core', NEW bill \in Account, NEW amount \in Nat,
         bill.amount = amount, bill.written = 0,
         receivables' = Append(receivables, bill), balance' = balance + amount,
         UNCHANGED <<receipts, refunds, cash>>
  PROVE  BooksMove(amount)
  <1> DEFINE m == Len(receivables) + 1
  <1>0. PICK t : t = receivables'
    OBVIOUS
  <1>1. RowAdded(receivables, t, m) /\ t[m] = bill
    <2>1. t = Append(receivables, bill) /\ receivables \in Seq(Account)
      BY <1>0 DEF Core, Papers
    <2> QED
      BY <2>1, RowAppended
  <1>2. Written[bill] = 0 /\ Owed[bill] = amount /\ Asked[bill] = amount
    BY DEF Written, Owed, Asked, Balance
  <1>3. AreRows(receivables, Account) /\ AreRows(t, Account)
    BY <1>0, Tables
  <1> HIDE DEF m
  <1>4. /\ Column(t, Written) = Column(receivables, Written) + Written[t[m]]
        /\ Column(t, Owed) = Column(receivables, Owed) + Owed[t[m]]
        /\ Column(t, Asked) = Column(receivables, Asked) + Asked[t[m]]
    BY <1>1, <1>3, Columns, ColumnMade
  <1>5. /\ Column(receivables', Written) = Column(receivables, Written)
        /\ Column(receivables', Owed) = Column(receivables, Owed) + amount
        /\ Column(receivables', Asked) = Column(receivables, Asked) + amount
    BY <1>0, <1>1, <1>2, <1>4, Sums
  <1>6. balance' = balance + amount /\ receipts' = receipts /\ refunds' = refunds /\ cash' = cash
    OBVIOUS
  <1> QED
    BY <1>5, <1>6, Sums DEF BooksMove, Invoiced, UsedGap, CashGap, BalanceGap

\* A row of the receivables of which some is paid.
LEMMA PaidBooks ==
  ASSUME Core, Core', NEW i, NEW amount \in Nat, RowChanged(receivables, receivables', i),
         receivables'[i].amount = receivables[i].amount,
         receivables'[i].written = receivables[i].written + amount,
         Balance(receivables'[i]) = Balance(receivables[i]) - amount
  PROVE  /\ Column(receivables', Written) = Column(receivables, Written) + amount
         /\ Column(receivables', Asked) = Column(receivables, Asked)
         /\ Column(receivables', Owed) = IF receivables[i].amount >= 0
                                         THEN Column(receivables, Owed) - amount
                                         ELSE Column(receivables, Owed) + amount
  <1>1. receivables[i] \in Account /\ receivables'[i] \in Account
    <2>1. i \in DOMAIN receivables /\ i \in DOMAIN receivables'
      BY DEF RowChanged
    <2> QED
      BY <2>1, RowNumbers DEF Core, Papers
  <1>2. AreRows(receivables, Account) /\ AreRows(receivables', Account)
    BY Tables
  <1>3. /\ Column(receivables', Written) =
             Column(receivables, Written) + (Written[receivables'[i]] - Written[receivables[i]])
        /\ Column(receivables', Owed) =
             Column(receivables, Owed) + (Owed[receivables'[i]] - Owed[receivables[i]])
        /\ Column(receivables', Asked) =
             Column(receivables, Asked) + (Asked[receivables'[i]] - Asked[receivables[i]])
    BY <1>2, Columns, ColumnChanged
  <1>4. /\ Written[receivables'[i]] = Written[receivables[i]] + amount
        /\ Written[receivables[i]] \in Int
        /\ Asked[receivables'[i]] = Asked[receivables[i]] /\ Asked[receivables[i]] \in Int
    BY <1>1 DEF Written, Asked, Account
  <1>5. /\ Balance(receivables[i]) \in Int /\ receivables[i].amount \in Int
        /\ Owed[receivables[i]] = IF receivables[i].amount >= 0 THEN Balance(receivables[i])
                                  ELSE - Balance(receivables[i])
        /\ Owed[receivables'[i]] = IF receivables[i].amount >= 0
                                   THEN Balance(receivables[i]) - amount
                                   ELSE - (Balance(receivables[i]) - amount)
    BY <1>1 DEF Owed, Balance, Account
  <1> QED
    BY <1>3, <1>4, <1>5, Sums

\* A table of which every row is lowered by what is taken of it.
LEMMA TableLowered ==
  ASSUME NEW T, NEW s, NEW t, AreRows(s, T), AreRows(t, T), NEW c, IsColumn(c, T),
         DOMAIN t = DOMAIN s, NEW taken \in [DOMAIN s -> Int],
         \A i \in DOMAIN s : c[s[i]] = c[t[i]] + taken[i]
  PROVE  Column(s, c) = Column(t, c) + SumFunction(taken)
  <1>1. PICK f : f = [i \in DOMAIN s |-> c[s[i]]]
    OBVIOUS
  <1>2. PICK g : g = [i \in DOMAIN s |-> c[t[i]]]
    OBVIOUS
  <1>3. PICK S : S = DOMAIN s
    OBVIOUS
  <1>4. IsFiniteSet(S) /\ f \in [S -> Int] /\ g \in [S -> Int] /\ taken \in [S -> Int]
    BY <1>1, <1>2, <1>3 DEF AreRows, IsColumn
  <1>5. \A i \in S : f[i] = g[i] + taken[i]
    BY <1>1, <1>2, <1>3
  <1>6. SumFunction(f) = SumFunction(g) + SumFunction(taken)
    BY <1>4, <1>5, SumPlus
  <1> QED
    BY <1>1, <1>2, <1>6 DEF Column

\* A return is taken off what is owed, and no money moves.
LEMMA ReversedBooks ==
  ASSUME Core, Core', NEW qty \in Nat, ReversesReceivables(qty), UNCHANGED <<receipts, cash>>
  PROVE  BooksMove(0 - qty)
  <1>1. balance' = balance - qty
    BY Reversed
  <1>2. PICK lowered \in Seq(Account), gives \in [DOMAIN receivables -> Nat], rest \in Nat :
          /\ SumFunction(gives) \in Nat /\ qty = SumFunction(gives) + rest
          /\ LowersReceivables(lowered, gives, rest)
    BY Reversed
  <1> DEFINE S     == DOMAIN receivables
             total == SumFunction(gives)
  <1>3. AreRows(receivables, Account) /\ AreRows(lowered, Account) /\ AreRows(receivables', Account)
    BY Tables, RowsOf
  <1>4. \A i \in S : /\ Written[lowered[i]] = Written[receivables[i]]
                     /\ Owed[receivables[i]] = Owed[lowered[i]] + gives[i]
                     /\ Asked[receivables[i]] = Asked[lowered[i]] + gives[i]
    <2> SUFFICES ASSUME NEW i \in S
                 PROVE  /\ Written[lowered[i]] = Written[receivables[i]]
                        /\ Owed[receivables[i]] = Owed[lowered[i]] + gives[i]
                        /\ Asked[receivables[i]] = Asked[lowered[i]] + gives[i]
      OBVIOUS
    <2>1. lowered[i] \in Account /\ receivables[i] \in Account
      BY <1>2, RowTypes, RowNumbers DEF LowersReceivables
    <2>2. /\ receivables[i].amount \in Int /\ receivables[i].written \in Nat /\ gives[i] \in Nat
          /\ lowered[i].amount = receivables[i].amount - gives[i]
          /\ lowered[i].written = receivables[i].written
          /\ gives[i] = 0 \/ gives[i] <= receivables[i].amount - receivables[i].written
      BY <1>2, <2>1 DEF LowersReceivables, Account
    <2>3. /\ Owed[receivables[i]] = IF receivables[i].amount >= 0
                                   THEN receivables[i].amount - receivables[i].written
                                   ELSE receivables[i].amount + receivables[i].written
          /\ Owed[lowered[i]] = IF lowered[i].amount >= 0
                                THEN lowered[i].amount - lowered[i].written
                                ELSE lowered[i].amount + lowered[i].written
      <3>1. \A a \in Account : Owed[a] = IF a.amount >= 0 THEN a.amount - a.written
                                         ELSE a.amount + a.written
        BY DEF Owed, Balance, Account
      <3> QED
        BY <2>1, <3>1
    <2>4. Owed[receivables[i]] = Owed[lowered[i]] + gives[i]
      BY <2>2, <2>3
    <2> QED
      BY <2>1, <2>2, <2>4 DEF Written, Asked
  <1>5. DOMAIN lowered = S /\ gives \in [S -> Int]
    BY <1>2 DEF LowersReceivables
  <1>6. Column(lowered, Written) = Column(receivables, Written)
    BY <1>4, <1>5, ColumnKept
  <1>7. /\ Column(receivables, Owed) = Column(lowered, Owed) + total
        /\ Column(receivables, Asked) = Column(lowered, Asked) + total
    <2>1. S \in SUBSET DOMAIN lowered /\ DOMAIN receivables = DOMAIN lowered
      BY <1>5
    <2>2. ASSUME NEW c, IsColumn(c, Account),
                 \A i \in S : c[receivables[i]] = c[lowered[i]] + gives[i]
          PROVE  Column(receivables, c) = Column(lowered, c) + total
      <3>1. AreRows(receivables, Account) /\ AreRows(lowered, Account)
        BY <1>3
      <3>2. DOMAIN lowered = DOMAIN receivables /\ gives \in [DOMAIN receivables -> Int]
        BY <1>5
      <3> QED
        BY <2>2, <3>1, <3>2, TableLowered
    <2>3. IsColumn(Owed, Account) /\ IsColumn(Asked, Account)
      BY Columns
    <2>4. \A i \in S : Owed[receivables[i]] = Owed[lowered[i]] + gives[i]
      BY <1>4
    <2>5. \A i \in S : Asked[receivables[i]] = Asked[lowered[i]] + gives[i]
      BY <1>4
    <2> HIDE DEF S, total
    <2> QED
      BY <2>2, <2>3, <2>4, <2>5
  <1>8. Column(lowered, Owed) \in Int /\ Column(lowered, Asked) \in Int
        /\ Column(lowered, Written) \in Int
    BY <1>3, Columns, ColumnSums
  <1>9. /\ Column(receivables', Written) = Column(lowered, Written)
        /\ Column(receivables', Owed) = Column(lowered, Owed) - rest
        /\ Column(receivables', Asked) = Column(lowered, Asked) - rest
        /\ Column(refunds', Refunded) = Column(refunds, Refunded)
        /\ Column(refunds', Outlay) = Column(refunds, Outlay)
    <2>1. CASE rest = 0 /\ receivables' = lowered /\ refunds' = refunds
      BY <1>8, <2>1
    <2>2. CASE /\ rest > 0
               /\ receivables' = Append(lowered, Bill("SALES_RETURN", NoOutbound, - rest))
               /\ refunds' = Append(refunds, [receivable |-> Len(receivables) + 1,
                                              amount |-> rest, status |-> "DRAFT",
                                              account |-> FALSE])
      <3> DEFINE red   == Bill("SALES_RETURN", NoOutbound, - rest)
                 draft == [receivable |-> Len(receivables) + 1, amount |-> rest,
                           status |-> "DRAFT", account |-> FALSE]
                 m     == Len(lowered) + 1
                 k     == Len(refunds) + 1
      <3>1. red \in Account /\ red.amount = - rest /\ red.written = 0
        BY DEF Account, Bill
      <3>2. Written[red] = 0 /\ Owed[red] = - rest /\ Asked[red] = - rest
        <4> HIDE DEF red
        <4> QED
          BY <2>2, <3>1 DEF Written, Owed, Asked, Balance
      <3>3. draft.status = "DRAFT"
        OBVIOUS
      <3> HIDE DEF red, draft
      <3>4. PICK t, u : t = receivables' /\ u = refunds'
        OBVIOUS
      <3>5. t = Append(lowered, red) /\ u = Append(refunds, draft) /\ refunds \in Seq(Refund)
        BY <2>2, <3>4 DEF red, draft, Core, Papers
      <3>6. /\ RowAdded(lowered, t, m) /\ t[m] = red
            /\ RowAdded(refunds, u, k) /\ u[k] = draft
        BY <3>5, RowAppended
      <3>7. /\ AreRows(t, Account) /\ AreRows(refunds, Refund) /\ AreRows(u, Refund)
        BY <3>4, Tables
      <3>8. u[k] \in Refund
        BY <3>6, <3>7 DEF AreRows, RowAdded
      <3>9. Refunded[draft] = 0 /\ Outlay[draft] = 0
        BY <3>3, <3>6, <3>8 DEF Refunded, Outlay
      <3> HIDE DEF m, k
      <3>10. /\ Column(t, Written) = Column(lowered, Written) + Written[t[m]]
             /\ Column(t, Owed) = Column(lowered, Owed) + Owed[t[m]]
             /\ Column(t, Asked) = Column(lowered, Asked) + Asked[t[m]]
             /\ Column(u, Refunded) = Column(refunds, Refunded) + Refunded[u[k]]
             /\ Column(u, Outlay) = Column(refunds, Outlay) + Outlay[u[k]]
        BY <1>3, <3>6, <3>7, Columns, ColumnMade
      <3>11. /\ Written[t[m]] = 0 /\ Owed[t[m]] = - rest /\ Asked[t[m]] = - rest
             /\ Refunded[u[k]] = 0 /\ Outlay[u[k]] = 0
        BY <3>2, <3>6, <3>9
      <3>12. Column(refunds, Refunded) \in Int /\ Column(refunds, Outlay) \in Int
        BY Sums
      <3>13. /\ Column(t, Written) = Column(lowered, Written)
             /\ Column(t, Owed) = Column(lowered, Owed) - rest
             /\ Column(t, Asked) = Column(lowered, Asked) - rest
             /\ Column(u, Refunded) = Column(refunds, Refunded)
             /\ Column(u, Outlay) = Column(refunds, Outlay)
        BY <1>8, <3>10, <3>11, <3>12
      <3> QED
        BY <3>4, <3>13
    <2> QED
      BY <1>2, <2>1, <2>2 DEF LowersReceivables
  <1>10. total \in Nat /\ qty = total + rest
    BY <1>2
  <1> HIDE DEF total
  <1>11. /\ Column(receivables', Written) = Column(receivables, Written)
         /\ Column(receivables', Owed) = Column(receivables, Owed) - qty
         /\ Column(receivables', Asked) = Column(receivables, Asked) - qty
    BY <1>6, <1>7, <1>8, <1>9, <1>10
  <1>12. receipts' = receipts /\ cash' = cash
    OBVIOUS
  <1> QED
    BY <1>1, <1>9, <1>11, <1>12, Sums DEF BooksMove, Invoiced, UsedGap, CashGap, BalanceGap

-----------------------------------------------------------------------------
(* What each request does to the books. *)

\* A receipt is made: no money yet.
LEMMA ReceiptMadeBooks ==
  ASSUME Core, NEW w \in Workers, NEW amount \in Amounts, NEW approval \in Approval,
         NEW account \in BOOLEAN, CreateReceipt(w, amount, approval, account)
  PROVE  BooksMove(0)
  <1>1. PICK t : t = receipts'
    OBVIOUS
  <1> DEFINE m == Len(receipts) + 1
  <1>2. /\ Core' /\ RowAdded(receipts, t, m)
        /\ t[m].amount = amount /\ t[m].unwritten = amount /\ t[m].executed = FALSE
    BY <1>1, ReceiptMade
  <1>3. UNCHANGED <<receivables, refunds, balance, cash>>
    BY DEF CreateReceipt, books
  <1>4. AreRows(receipts, Receipt) /\ AreRows(t, Receipt)
    BY <1>1, <1>2, Tables
  <1> HIDE DEF m
  <1>5. t[m] \in Receipt
    BY <1>2, <1>4 DEF AreRows, RowAdded
  <1>6. Used[t[m]] = 0 /\ Income[t[m]] = 0
    <2>1. amount \in Int
      BY RowTypes
    <2> QED
      BY <1>2, <1>5, <2>1 DEF Used, Income
  <1>7. /\ Column(t, Used) = Column(receipts, Used) + Used[t[m]]
        /\ Column(t, Income) = Column(receipts, Income) + Income[t[m]]
    BY <1>2, <1>4, Columns, ColumnMade
  <1>8. /\ Column(receipts', Used) = Column(receipts, Used)
        /\ Column(receipts', Income) = Column(receipts, Income)
    BY <1>1, <1>6, <1>7, Sums
  <1> QED
    BY <1>3, <1>8, Sums DEF BooksMove, Invoiced, UsedGap, CashGap, BalanceGap

\* A receipt that is approved or executed: its money comes with it.
LEMMA ReceiptMovesBooks ==
  ASSUME Core, NEW w \in Workers, NEW n \in DOMAIN receipts,
         ApproveReceipt(w, n) \/ ExecuteReceipt(w, n)
  PROVE  BooksMove(0)
  <1>1. PICK t : t = receipts'
    OBVIOUS
  <1>2. /\ Core' /\ RowChanged(receipts, t, n) /\ t[n] \in Receipt
        /\ t[n].amount = receipts[n].amount /\ t[n].unwritten = receipts[n].unwritten
        /\ t[n].account = receipts[n].account
        /\ \/ t[n].executed = receipts[n].executed /\ cash' = cash
           \/ /\ ~ receipts[n].executed /\ t[n].executed
              /\ cash' = IF receipts[n].account THEN cash + receipts[n].amount ELSE cash
        /\ UNCHANGED <<receivables, refunds, balance>>
    BY <1>1, ReceiptMoves DEF books
  <1>3. AreRows(receipts, Receipt) /\ AreRows(t, Receipt)
    BY <1>1, <1>2, Tables
  <1>4. receipts[n] \in Receipt /\ receipts[n].amount \in Int
    BY RowTypes DEF Receipt
  <1>5. /\ Column(t, Used) = Column(receipts, Used) + (Used[t[n]] - Used[receipts[n]])
        /\ Column(t, Income) = Column(receipts, Income) + (Income[t[n]] - Income[receipts[n]])
    BY <1>2, <1>3, Columns, ColumnChanged
  <1>6. Used[t[n]] = Used[receipts[n]] /\ Used[receipts[n]] \in Int
    BY <1>2, <1>4 DEF Used, Receipt
  <1>7. Income[receipts[n]] \in Int /\ cash' = cash + (Income[t[n]] - Income[receipts[n]])
    BY <1>2, <1>4, Sums DEF Income
  <1>8. Income[t[n]] \in Int
    BY <1>2, Columns DEF IsColumn
  <1>9. /\ Column(receipts', Used) = Column(receipts, Used)
        /\ Column(receipts', Income) = Column(receipts, Income) + (cash' - cash)
        /\ cash' \in Int
    BY <1>1, <1>5, <1>6, <1>7, <1>8, Sums
  <1> QED
    BY <1>2, <1>9, Sums DEF BooksMove, Invoiced, UsedGap, CashGap, BalanceGap

\* A receivable is settled: the receivable has what is used of the receipt.
LEMMA WrittenOffBooks ==
  ASSUME Core, NEW w \in Workers, NEW i \in DOMAIN receivables, NEW n \in DOMAIN receipts,
         NEW amount \in Amounts, NEW partial \in Partial, WriteOff(w, i, n, amount, partial)
  PROVE  /\ Invoiced' = Invoiced /\ UsedGap' = UsedGap /\ CashGap' = CashGap
         /\ receivables[i].amount >= 0 => BalanceGap' = BalanceGap
  <1>1. PICK t : t = receipts'
    OBVIOUS
  <1>2. /\ Core' /\ amount \in Nat /\ RowChanged(receivables, receivables', i)
        /\ receivables'[i].amount = receivables[i].amount
        /\ receivables'[i].written = receivables[i].written + amount
        /\ Balance(receivables'[i]) = Balance(receivables[i]) - amount
        /\ balance' = balance - amount
        /\ RowChanged(receipts, t, n) /\ t[n] \in Receipt
        /\ t[n].amount = receipts[n].amount
        /\ t[n].unwritten = receipts[n].unwritten - amount
        /\ t[n].executed = receipts[n].executed /\ t[n].account = receipts[n].account
        /\ UNCHANGED <<refunds, cash>>
    BY <1>1, WrittenOff
  <1>3. /\ Column(receivables', Written) = Column(receivables, Written) + amount
        /\ Column(receivables', Asked) = Column(receivables, Asked)
        /\ Column(receivables', Owed) = IF receivables[i].amount >= 0
                                        THEN Column(receivables, Owed) - amount
                                        ELSE Column(receivables, Owed) + amount
    BY <1>2, PaidBooks
  <1>4. AreRows(receipts, Receipt) /\ AreRows(t, Receipt)
    BY <1>1, <1>2, Tables
  <1>5. receipts[n] \in Receipt /\ receipts[n].amount \in Int /\ receipts[n].unwritten \in Int
    BY RowTypes DEF Receipt
  <1>6. /\ Column(t, Used) = Column(receipts, Used) + (Used[t[n]] - Used[receipts[n]])
        /\ Column(t, Income) = Column(receipts, Income) + (Income[t[n]] - Income[receipts[n]])
    BY <1>2, <1>4, Columns, ColumnChanged
  <1>7. Used[t[n]] = Used[receipts[n]] + amount /\ Used[receipts[n]] \in Int
    BY <1>2, <1>5 DEF Used
  <1>8. Income[t[n]] = Income[receipts[n]] /\ Income[receipts[n]] \in Int
    BY <1>2, <1>5 DEF Income
  <1>9. /\ Column(receipts', Used) = Column(receipts, Used) + amount
        /\ Column(receipts', Income) = Column(receipts, Income)
    BY <1>1, <1>2, <1>6, <1>7, <1>8, Sums
  <1> QED
    BY <1>2, <1>3, <1>9, Sums DEF Invoiced, UsedGap, CashGap, BalanceGap

\* A draft of a refund, and one on its way, is no money.
LEMMA RefundIdle ==
  ASSUME Core, Core', UNCHANGED <<receivables, balance, receipts, cash>>,
         NEW k, refunds'[k] \in Refund, refunds'[k].status # "COMPLETED",
         \/ RowAdded(refunds, refunds', k)
         \/ RowChanged(refunds, refunds', k) /\ refunds[k].status # "COMPLETED"
  PROVE  BooksMove(0)
  <1>1. PICK t : t = refunds'
    OBVIOUS
  <1>2. AreRows(refunds, Refund) /\ AreRows(t, Refund)
    BY <1>1, Tables
  <1>3. Refunded[t[k]] = 0 /\ Outlay[t[k]] = 0
    BY <1>1 DEF Refunded, Outlay
  <1>4. Column(t, Refunded) = Column(refunds, Refunded) /\ Column(t, Outlay) = Column(refunds, Outlay)
    <2>1. CASE RowAdded(refunds, t, k)
      <3>1. /\ Column(t, Refunded) = Column(refunds, Refunded) + Refunded[t[k]]
            /\ Column(t, Outlay) = Column(refunds, Outlay) + Outlay[t[k]]
        BY <1>2, <2>1, Columns, ColumnMade
      <3> QED
        BY <1>3, <3>1, Sums
    <2>2. CASE RowChanged(refunds, t, k) /\ refunds[k].status # "COMPLETED"
      <3>1. refunds[k] \in Refund
        BY <1>2, <2>2 DEF AreRows, RowChanged
      <3>2. Refunded[refunds[k]] = 0 /\ Outlay[refunds[k]] = 0
        BY <2>2, <3>1 DEF Refunded, Outlay
      <3>3. /\ Column(t, Refunded) =
                 Column(refunds, Refunded) + (Refunded[t[k]] - Refunded[refunds[k]])
            /\ Column(t, Outlay) = Column(refunds, Outlay) + (Outlay[t[k]] - Outlay[refunds[k]])
        BY <1>2, <2>2, Columns, ColumnChanged
      <3> QED
        BY <1>3, <3>2, <3>3, Sums
    <2> QED
      BY <1>1, <2>1, <2>2
  <1> QED
    BY <1>1, <1>4, Sums DEF BooksMove, Invoiced, UsedGap, CashGap, BalanceGap

\* Drafting a refund moves no money.
LEMMA RefundMadeBooks ==
  ASSUME Core, NEW w \in Workers, NEW i \in DOMAIN receivables, CreateRefund(w, i)
  PROVE  BooksMove(0)
  <1>1. PICK k : k = Len(refunds) + 1
    OBVIOUS
  <1>2. /\ Core' /\ UNCHANGED <<receivables, balance, receipts, cash>>
        /\ RowAdded(refunds, refunds', k)
        /\ refunds'[k] \in Refund /\ refunds'[k].status # "COMPLETED"
    BY <1>1, RefundMade DEF books
  <1> QED
    BY <1>2, RefundIdle

\* Nor does submitting or approving one.
LEMMA RefundMovesBooks ==
  ASSUME Core, NEW w \in Workers, NEW k \in DOMAIN refunds,
         SubmitRefund(w, k) \/ ApproveRefund(w, k)
  PROVE  BooksMove(0)
  <1>1. /\ Core' /\ UNCHANGED <<receivables, balance, receipts, cash>>
        /\ RowChanged(refunds, refunds', k) /\ refunds[k].status # "COMPLETED"
        /\ refunds'[k] \in Refund /\ refunds'[k].status # "COMPLETED"
    BY RefundMoves DEF books
  <1> QED
    BY <1>1, RefundIdle

\* A refund is paid: the red receivable has what the refund has, and the account gives it.
LEMMA RefundExecutedBooks ==
  ASSUME Core, NEW w \in Workers, NEW k \in DOMAIN refunds, NEW account \in BOOLEAN,
         ExecuteRefund(w, k, account)
  PROVE  BooksMove(0)
  <1>1. PICK t, i, amount : t = refunds' /\ i = refunds[k].receivable /\ amount = refunds[k].amount
    OBVIOUS
  <1>2. /\ Core' /\ amount \in Nat /\ RowChanged(receivables, receivables', i)
        /\ receivables[i].amount < 0
        /\ receivables'[i].amount = receivables[i].amount
        /\ receivables'[i].written = receivables[i].written + amount
        /\ Balance(receivables'[i]) = Balance(receivables[i]) - amount
        /\ balance' = balance + amount
        /\ cash' = IF account THEN cash - amount ELSE cash
        /\ RowChanged(refunds, t, k) /\ t[k] \in Refund
        /\ refunds[k].status # "COMPLETED"
        /\ t[k].amount = amount /\ t[k].status = "COMPLETED" /\ t[k].account = account
        /\ receipts' = receipts
    BY <1>1, RefundExecuted
  <1>3. /\ Column(receivables', Written) = Column(receivables, Written) + amount
        /\ Column(receivables', Asked) = Column(receivables, Asked)
        /\ Column(receivables', Owed) = IF receivables[i].amount >= 0
                                        THEN Column(receivables, Owed) - amount
                                        ELSE Column(receivables, Owed) + amount
    BY <1>2, PaidBooks
  <1>4. AreRows(refunds, Refund) /\ AreRows(t, Refund)
    BY <1>1, <1>2, Tables
  <1>5. refunds[k] \in Refund
    BY RowTypes
  <1>6. Refunded[refunds[k]] = 0 /\ Outlay[refunds[k]] = 0
    BY <1>2, <1>5 DEF Refunded, Outlay
  <1>7. Refunded[t[k]] = amount /\ Outlay[t[k]] = IF account THEN amount ELSE 0
    BY <1>2 DEF Refunded, Outlay
  <1>8. /\ Column(t, Refunded) =
             Column(refunds, Refunded) + (Refunded[t[k]] - Refunded[refunds[k]])
        /\ Column(t, Outlay) = Column(refunds, Outlay) + (Outlay[t[k]] - Outlay[refunds[k]])
    BY <1>2, <1>4, Columns, ColumnChanged
  <1>9. /\ Column(refunds', Refunded) = Column(refunds, Refunded) + amount
        /\ Column(refunds', Outlay) = Column(refunds, Outlay) + (cash - cash')
        /\ cash' \in Int
    BY <1>1, <1>2, <1>6, <1>7, <1>8, Sums
  <1>10. receivables[i].amount \in Int
    <2>1. receivables[i] \in Account
      BY <1>2, RowTypes DEF RowChanged
    <2> QED
      BY <2>1 DEF Account
  <1>11. Column(receivables', Owed) = Column(receivables, Owed) + amount
    BY <1>2, <1>3, <1>10
  <1> QED
    BY <1>2, <1>3, <1>9, <1>11, Sums DEF BooksMove, Invoiced, UsedGap, CashGap, BalanceGap

\* Deliveries and bills.
LEMMA DeliveryBooks ==
  ASSUME Core, Core', NEW w \in Workers, NEW o \in Outbounds, NEW auto \in AutoBilling,
         CompleteOutbound(w, o, auto)
  PROVE  \/ BooksMove(0) /\ receivables' = receivables
         \/ BooksMove(Delivers[o]) /\ receivables' # << >>
  <1>1. UNCHANGED <<receipts, refunds, cash>> /\ (UNCHANGED books \/ BillsOutbound(o))
    BY DEF CompleteOutbound
  <1>2. CASE UNCHANGED books
    BY <1>1, <1>2, BooksStay DEF books
  <1>3. CASE BillsOutbound(o)
    <2> DEFINE bill == Bill("OUTBOUND_ORDER", o, Delivers[o])
    <2>1. bill \in Account /\ bill.amount = Delivers[o] /\ bill.written = 0 /\ Delivers[o] \in Nat
      BY BillTypes, DeliversType
    <2>2. /\ receivables' = Append(receivables, bill) /\ balance' = balance + Delivers[o]
          /\ receipts' = receipts /\ refunds' = refunds /\ cash' = cash
      BY <1>1, <1>3 DEF BillsOutbound
    <2> HIDE DEF bill
    <2>3. receivables' # << >>
      BY <2>2 DEF Core, Papers
    <2> QED
      BY <2>1, <2>2, <2>3, BilledBooks
  <1> QED
    BY <1>1, <1>2, <1>3

\* Billing moves the balance by what was delivered.
LEMMA GenerateBooks ==
  ASSUME Core, Core', NEW w \in Workers, GenerateFromOrder(w)
  PROVE  BooksMove(AllDelivered) /\ receivables' # << >>
  <1> DEFINE bill == Bill("SALES_ORDER", NoOutbound, AllDelivered)
  <1>1. /\ receivables' = Append(receivables, bill) /\ balance' = balance + AllDelivered
        /\ receipts' = receipts /\ refunds' = refunds /\ cash' = cash
    BY DEF GenerateFromOrder, AllDelivered
  <1>2. bill \in Account /\ bill.amount = AllDelivered /\ bill.written = 0 /\ AllDelivered \in Nat
    BY BillTypes, AllDeliveredType
  <1> HIDE DEF bill
  <1>3. receivables' # << >>
    BY <1>1 DEF Core, Papers
  <1> QED
    BY <1>1, <1>2, <1>3, BilledBooks

\* A return moves it back.
LEMMA CompleteReturnBooks ==
  ASSUME Core, Core', NEW w \in Workers, CompleteReturn(w)
  PROVE  BooksMove(0 - job[w].qty)
  <1>1. PICK qty : qty = job[w].qty
    OBVIOUS
  <1>2. qty \in Nat /\ ReversesReceivables(qty) /\ UNCHANGED <<receipts, cash>>
    BY <1>1, Completed
  <1>3. BooksMove(0 - qty)
    BY <1>2, ReversedBooks
  <1> QED
    BY <1>1, <1>3

\* A step that only looks moves nothing.
LEMMA QuietBooks ==
  ASSUME Core, Quiet
  PROVE  BooksMove(0) /\ receivables' = receivables
  BY BooksStay DEF Quiet, books


-----------------------------------------------------------------------------
(* Money settles one thing. *)

\* A step after which the money still adds up, and the balance does where no
\* receipt is written off a red receivable.
MoneyStands ==
  /\ UsedGap' = UsedGap /\ CashGap' = CashGap
  /\ "write_off_red" \notin Requests => BalanceGap' = BalanceGap

\* Receipts, write-offs and refunds.
LEMMA MoneyBooks ==
  ASSUME Core, NEW w \in Workers, MoneyStep(w)
  PROVE  /\ MoneyStands /\ Invoiced' = Invoiced
         /\ DOMAIN receivables' = DOMAIN receivables
         /\ UNCHANGED <<delivered, returns, stock, job>>
  <1> DEFINE Goal == /\ MoneyStands /\ Invoiced' = Invoiced
                     /\ DOMAIN receivables' = DOMAIN receivables
                     /\ UNCHANGED <<delivered, returns, stock, job>>
  <1>0. ASSUME BooksMove(0), DOMAIN receivables' = DOMAIN receivables,
               UNCHANGED <<delivered, returns, stock, job>>
        PROVE  Goal
    BY <1>0, Sums DEF BooksMove, MoneyStands
  <1>1. ASSUME NEW amount \in Amounts, NEW approval \in Approval, NEW account \in BOOLEAN,
               CreateReceipt(w, amount, approval, account)
        PROVE  Goal
    <2>1. DOMAIN receivables' = DOMAIN receivables /\ UNCHANGED <<delivered, returns, stock, job>>
      BY <1>1 DEF CreateReceipt, books
    <2>2. BooksMove(0)
      BY <1>1, ReceiptMadeBooks
    <2> QED
      BY <1>0, <2>1, <2>2
  <1>2. ASSUME NEW n \in DOMAIN receipts, ApproveReceipt(w, n) \/ ExecuteReceipt(w, n)
        PROVE  Goal
    <2>1. DOMAIN receivables' = DOMAIN receivables /\ UNCHANGED <<delivered, returns, stock, job>>
      BY <1>2 DEF ApproveReceipt, ExecuteReceipt, books
    <2>2. BooksMove(0)
      BY <1>2, ReceiptMovesBooks
    <2> QED
      BY <1>0, <2>1, <2>2
  <1>3. ASSUME NEW n \in DOMAIN receipts, NEW i \in DOMAIN receivables, NEW amount \in Amounts,
               NEW partial \in Partial, WriteOff(w, i, n, amount, partial)
        PROVE  Goal
    <2>1. /\ RowChanged(receivables, receivables', i)
          /\ UNCHANGED <<delivered, returns, stock, job>>
      BY <1>3, WrittenOff
    <2>2. /\ Invoiced' = Invoiced /\ UsedGap' = UsedGap /\ CashGap' = CashGap
          /\ receivables[i].amount >= 0 => BalanceGap' = BalanceGap
      BY <1>3, WrittenOffBooks
    <2>3. "write_off_red" \notin Requests => receivables[i].amount >= 0
      BY <1>3 DEF WriteOff, MayStart, WriteOffKind
    <2> QED
      BY <2>1, <2>2, <2>3 DEF RowChanged, MoneyStands
  <1>4. ASSUME NEW i \in DOMAIN receivables, CreateRefund(w, i)
        PROVE  Goal
    <2>1. DOMAIN receivables' = DOMAIN receivables /\ UNCHANGED <<delivered, returns, stock, job>>
      BY <1>4 DEF CreateRefund, books
    <2>2. BooksMove(0)
      BY <1>4, RefundMadeBooks
    <2> QED
      BY <1>0, <2>1, <2>2
  <1>5. ASSUME NEW k \in DOMAIN refunds, SubmitRefund(w, k) \/ ApproveRefund(w, k)
        PROVE  Goal
    <2>1. DOMAIN receivables' = DOMAIN receivables /\ UNCHANGED <<delivered, returns, stock, job>>
      BY <1>5 DEF SubmitRefund, ApproveRefund, MoveRefund, books
    <2>2. BooksMove(0)
      BY <1>5, RefundMovesBooks
    <2> QED
      BY <1>0, <2>1, <2>2
  <1>6. ASSUME NEW k \in DOMAIN refunds, NEW account \in BOOLEAN, ExecuteRefund(w, k, account)
        PROVE  Goal
    <2>1. DOMAIN receivables' = DOMAIN receivables /\ UNCHANGED <<delivered, returns, stock, job>>
      BY <1>6 DEF ExecuteRefund
    <2>2. BooksMove(0)
      BY <1>6, RefundExecutedBooks
    <2> QED
      BY <1>0, <2>1, <2>2
  <1> HIDE DEF Goal
  <1>7. Goal
    BY <1>1, <1>2, <1>3, <1>4, <1>5, <1>6 DEF MoneyStep
  <1> QED
    BY <1>7 DEF Goal

\* Requests about returns.
LEMMA ReturnBooks ==
  ASSUME Core, Core', NEW w \in Workers, ReturnStep(w)
  PROVE  \E asked \in Int : BooksMove(asked)
  <1>1. Looks(w) \/ CreateReturn(w) \/ Saves(w) => Quiet
    BY LooksKeep, CreateReturnKeeps, WriteReturnKeeps DEF Saves
  <1>2. CASE Quiet
    BY <1>2, QuietBooks
  <1>3. CASE CompleteReturn(w)
    BY <1>3, Completed, CompleteReturnBooks
  <1> QED
    BY <1>1, <1>2, <1>3, ReturnSteps

\* Deliveries and bills.
LEMMA BillingBooks ==
  ASSUME Core, Core', NEW w \in Workers, BillingStep(w)
  PROVE  \E asked \in Int : BooksMove(asked)
  <1>1. ASSUME NEW o \in Outbounds, NEW auto \in AutoBilling, CompleteOutbound(w, o, auto)
        PROVE  \E asked \in Int : BooksMove(asked)
    BY <1>1, DeliveryBooks, DeliversType
  <1>2. CASE LoadBilling(w)
    BY <1>2, LoadBillingKeeps, QuietBooks
  <1>3. CASE GenerateFromOrder(w)
    BY <1>3, GenerateBooks, AllDeliveredType
  <1> QED
    BY <1>1, <1>2, <1>3 DEF BillingStep

\* No step opens a gap.
LEMMA NextMoney ==
  ASSUME Core, Core', [Next]_vars
  PROVE  MoneyStands
  <1>1. ASSUME NEW asked \in Int, BooksMove(asked)
        PROVE  MoneyStands
    BY <1>1 DEF BooksMove, MoneyStands
  <1>2. CASE UNCHANGED vars
    <2>1. BooksMove(0)
      BY <1>2, BooksStay DEF vars, books
    <2> QED
      BY <1>1, <2>1
  <1>3. ASSUME NEW w \in Workers, BillingStep(w) \/ ReturnStep(w) \/ MoneyStep(w)
        PROVE  MoneyStands
    BY <1>1, <1>3, BillingBooks, ReturnBooks, MoneyBooks
  <1> QED
    BY <1>2, <1>3 DEF Next

\* At first there is nothing to add up.
LEMMA InitBooks ==
  Init => UsedGap = 0 /\ CashGap = Opening /\ BalanceGap = 0 /\ Invoiced = 0
  <1> SUFFICES ASSUME Init PROVE UsedGap = 0 /\ CashGap = Opening /\ BalanceGap = 0 /\ Invoiced = 0
    OBVIOUS
  <1>1. /\ DOMAIN receivables = {} /\ DOMAIN receipts = {} /\ DOMAIN refunds = {}
        /\ balance = 0 /\ cash = Opening
    BY DEF Init
  <1>2. /\ Column(receivables, Written) = 0 /\ Column(receivables, Owed) = 0
        /\ Column(receivables, Asked) = 0
        /\ Column(receipts, Used) = 0 /\ Column(receipts, Income) = 0
        /\ Column(refunds, Refunded) = 0 /\ Column(refunds, Outlay) = 0
    BY <1>1, ColumnEmpty
  <1> QED
    BY <1>1, <1>2, ReceivablesAssumption DEF UsedGap, CashGap, BalanceGap, Invoiced

\* The properties, in terms of the columns.
LEMMA GapsExplain ==
  ASSUME Core
  PROVE  /\ UsedGap = 0 => MoneyUsedOnce
         /\ CashGap = Opening => CashExplained
         /\ BalanceGap = 0 => BalanceExplained
         /\ Total(receivables, LAMBDA r : r.amount) = Invoiced
  <1>1. Total(receivables, LAMBDA r : r.written) = Column(receivables, Written)
    <2>1. [i \in DOMAIN receivables |-> receivables[i].written]
            = [i \in DOMAIN receivables |-> Written[receivables[i]]]
      BY RowTypes DEF Written
    <2> QED
      BY <2>1 DEF Total, Column
  <1>2. Total(receipts, LAMBDA r : r.amount - r.unwritten) = Column(receipts, Used)
    <2>1. [i \in DOMAIN receipts |-> receipts[i].amount - receipts[i].unwritten]
            = [i \in DOMAIN receipts |-> Used[receipts[i]]]
      BY RowTypes DEF Used
    <2> QED
      BY <2>1 DEF Total, Column
  <1>3. Total(refunds, LAMBDA r : IF r.status = "COMPLETED" THEN r.amount ELSE 0)
          = Column(refunds, Refunded)
    <2>1. [i \in DOMAIN refunds |->
             IF refunds[i].status = "COMPLETED" THEN refunds[i].amount ELSE 0]
            = [i \in DOMAIN refunds |-> Refunded[refunds[i]]]
      BY RowTypes DEF Refunded
    <2> QED
      BY <2>1 DEF Total, Column
  <1>4. Total(receipts, LAMBDA r : IF r.executed /\ r.account THEN r.amount ELSE 0)
          = Column(receipts, Income)
    <2>1. [i \in DOMAIN receipts |->
             IF receipts[i].executed /\ receipts[i].account THEN receipts[i].amount ELSE 0]
            = [i \in DOMAIN receipts |-> Income[receipts[i]]]
      BY RowTypes DEF Income
    <2> QED
      BY <2>1 DEF Total, Column
  <1>5. Total(refunds, LAMBDA r : IF r.status = "COMPLETED" /\ r.account THEN r.amount ELSE 0)
          = Column(refunds, Outlay)
    <2>1. [i \in DOMAIN refunds |->
             IF refunds[i].status = "COMPLETED" /\ refunds[i].account THEN refunds[i].amount ELSE 0]
            = [i \in DOMAIN refunds |-> Outlay[refunds[i]]]
      BY RowTypes DEF Outlay
    <2> QED
      BY <2>1 DEF Total, Column
  <1>6. Total(receivables, LAMBDA r : IF r.amount >= 0 THEN Balance(r) ELSE - Balance(r))
          = Column(receivables, Owed)
    <2>1. [i \in DOMAIN receivables |->
             IF receivables[i].amount >= 0 THEN Balance(receivables[i])
             ELSE - Balance(receivables[i])]
            = [i \in DOMAIN receivables |-> Owed[receivables[i]]]
      BY RowTypes DEF Owed
    <2> QED
      BY <2>1 DEF Total, Column
  <1>7. Total(receivables, LAMBDA r : r.amount) = Invoiced
    <2>1. [i \in DOMAIN receivables |-> receivables[i].amount]
            = [i \in DOMAIN receivables |-> Asked[receivables[i]]]
      BY RowTypes DEF Asked
    <2> QED
      BY <2>1 DEF Total, Column, Invoiced
  <1>8. UsedGap = 0 => MoneyUsedOnce
    <2>1. UsedGap = 0 => Column(receivables, Written) =
                           Column(receipts, Used) + Column(refunds, Refunded)
      BY Sums DEF UsedGap
    <2> QED
      BY <1>1, <1>2, <1>3, <2>1 DEF MoneyUsedOnce
  <1>9. CashGap = Opening => CashExplained
    <2>1. CashGap = Opening => cash = Opening + Column(receipts, Income) - Column(refunds, Outlay)
      BY Sums, ReceivablesAssumption DEF CashGap
    <2> QED
      BY <1>4, <1>5, <2>1 DEF CashExplained
  <1>10. BalanceGap = 0 => BalanceExplained
    <2>1. BalanceGap = 0 => balance = Column(receivables, Owed)
      BY Sums DEF BalanceGap
    <2> QED
      BY <1>6, <2>1 DEF BalanceExplained
  <1> QED
    BY <1>7, <1>8, <1>9, <1>10

(***************************************************************************)
(* Money settles one thing, whatever overlaps: what is written off the     *)
(* receivables is what is used of receipts and what refunds have paid, no  *)
(* receivable is paid beyond its amount, and the cash account is what      *)
(* executed receipts brought and refunds took.                             *)
(***************************************************************************)
THEOREM MoneySettles == Spec => []MoneySettlesOnce
  <1> DEFINE Add == UsedGap = 0 /\ CashGap = Opening
  <1>1. Init => Add
    BY InitBooks
  <1>2. Core /\ Core' /\ Add /\ [Next]_vars => Add'
    <2> SUFFICES ASSUME Core, Core', Add, [Next]_vars PROVE Add'
      OBVIOUS
    <2>1. UsedGap' = UsedGap /\ CashGap' = CashGap
      BY NextMoney DEF MoneyStands
    <2> QED
      BY <2>1
  <1>3. Core /\ Add => MoneySettlesOnce
    BY CoreTypes, GapsExplain DEF MoneySettlesOnce, Core, Papers
  <1> QED
    BY CoreHolds, <1>1, <1>2, <1>3, PTL DEF Spec

(***************************************************************************)
(* The balance of the customer is what the receivables leave to be paid,   *)
(* as long as no receipt is written off a red receivable.                  *)
(***************************************************************************)
THEOREM BalanceIsExplained ==
  ASSUME "write_off_red" \notin Requests
  PROVE  Spec => []BalanceExplained
  <1> DEFINE Add == BalanceGap = 0
  <1>1. Init => Add
    BY InitBooks
  <1>2. Core /\ Core' /\ Add /\ [Next]_vars => Add'
    <2> SUFFICES ASSUME Core, Core', Add, [Next]_vars PROVE Add'
      OBVIOUS
    <2>1. BalanceGap' = BalanceGap
      BY NextMoney DEF MoneyStands
    <2> QED
      BY <2>1
  <1>3. Core /\ Add => BalanceExplained
    BY GapsExplain
  <1> QED
    BY CoreHolds, <1>1, <1>2, <1>3, PTL DEF Spec

-----------------------------------------------------------------------------
(* Requests that are served alone. *)

\* Beside a request of these kinds nobody serves another.
Alone(kinds) ==
  \A v, w \in Workers : v # w /\ job[w].kind \in kinds => job[v] = Idle

Step(w) == BillingStep(w) \/ ReturnStep(w) \/ MoneyStep(w)

\* Requests that go on with what was begun.
Continues(w) == GenerateFromOrder(w) \/ CreateReturn(w) \/ Saves(w) \/ CompleteReturn(w) \/ Abort(w)

\* A request that may not overlap keeps others from starting.
LEMMA Excluded ==
  ASSUME NEW v \in Workers, NEW w \in Workers, NEW kind, MayStart(v, kind),
         job[w].kind \notin Racing, job[w] # Idle
  PROVE  FALSE
  BY DEF MayStart

\* A request begins that is not over with the step.
Starts(w, kind, n, qty) ==
  /\ MayStart(w, kind) /\ Begin(w, kind, n, qty)
  /\ kind = "generate" => LoadBilling(w)
  /\ kind = "create_return" => CheckReturn(w, qty)
  /\ kind \in Writers => n \in DOMAIN returns /\ LoadReturn(w, kind, n)

\* A request is over with its step, or goes on and ends, or begins.
LEMMA StepKinds ==
  ASSUME NEW w \in Workers, Step(w)
  PROVE  \/ Continues(w) /\ job[w] # Idle /\ Done(w)
         \/ (\E kind \in Requests : MayStart(w, kind)) /\ job' = job
         \/ \E kind, n, qty : Starts(w, kind, n, qty)
  <1> DEFINE Rests  == (\E kind \in Requests : MayStart(w, kind)) /\ job' = job
             Begins == \E kind, n, qty : Starts(w, kind, n, qty)
  <1>1. CASE Continues(w)
    <2>1. Idle.kind = "idle"
      BY DEF Idle
    <2> QED
      BY <1>1, <2>1 DEF Continues, GenerateFromOrder, CreateReturn, Saves, SubmitReturn,
                        ApproveReturn, CancelReturn, WriteReturn, CompleteReturn, Abort
  <1>2. CASE LoadBilling(w)
    <2>1. Starts(w, "generate", 0, 0)
      BY <1>2 DEF LoadBilling, Starts, Writers
    <2> QED
      BY <2>1
  <1>3. ASSUME NEW qty \in ReturnQuantities, CheckReturn(w, qty)
        PROVE  Begins
    <2>1. Starts(w, "create_return", 0, qty)
      BY <1>3 DEF CheckReturn, Starts, Writers
    <2> QED
      BY <2>1
  <1>4. ASSUME NEW n \in DOMAIN returns, NEW kind \in Writers, LoadReturn(w, kind, n)
        PROVE  Begins
    <2>1. Starts(w, kind, n, 0)
      BY <1>4 DEF LoadReturn, Starts, Writers
    <2> QED
      BY <2>1
  <1>5. ASSUME NEW n \in DOMAIN returns, LockReturn(w, n)
        PROVE  Begins
    <2>1. Starts(w, "complete_return", n, returns[n].qty)
      BY <1>5 DEF LockReturn, Starts, Writers
    <2> QED
      BY <2>1
  <1>6. CASE Looks(w) /\ ~ Abort(w)
    BY <1>2, <1>3, <1>4, <1>5, <1>6 DEF Looks
  <1>7. CASE BillingStep(w)
    <2>1. ASSUME NEW o \in Outbounds, NEW auto \in AutoBilling, CompleteOutbound(w, o, auto)
          PROVE  Rests
      BY <2>1 DEF CompleteOutbound, MayStart
    <2> QED
      BY <1>1, <1>2, <1>7, <2>1 DEF BillingStep, Continues
  <1>8. CASE ReturnStep(w)
    BY <1>1, <1>6, <1>8, ReturnSteps DEF Continues
  <1>9. CASE MoneyStep(w)
    <2>1. Rests
      BY <1>9 DEF MoneyStep, CreateReceipt, ApproveReceipt, ExecuteReceipt, WriteOff,
                  CreateRefund, SubmitRefund, ApproveRefund, MoveRefund, ExecuteRefund, MayStart
    <2> QED
      BY <2>1
  <1> QED
    BY <1>7, <1>8, <1>9 DEF Step

\* While a request is served alone, it is the one that goes on.
LEMMA OnlyOne ==
  ASSUME Core, NEW kinds, kinds \cap Racing = {}, "idle" \notin kinds, Alone(kinds),
         NEW w \in Workers, job[w].kind \in kinds, NEW v \in Workers, Step(v)
  PROVE  v = w /\ Continues(w) /\ Done(w) /\ job'[w] = Idle
  <1>1. job[w] # Idle /\ job[w].kind \notin Racing
    BY DEF Idle
  <1>2. \A kind : ~ MayStart(v, kind)
    BY <1>1, Excluded
  <1>3. Continues(v) /\ job[v] # Idle /\ Done(v)
    BY <1>2, StepKinds DEF Starts
  <1>4. v = w
    BY <1>3 DEF Alone
  <1> QED
    BY <1>3, <1>4 DEF Done, Core, Serving

\* Requests of kinds that do not overlap stay alone.
LEMMA AloneKept ==
  ASSUME Core, NEW kinds, kinds \cap Racing = {}, "idle" \notin kinds, Alone(kinds),
         NEW w \in Workers, Step(w)
  PROVE  Alone(kinds)'
  <1> SUFFICES ASSUME NEW u \in Workers, NEW v \in Workers, u # v, job'[v].kind \in kinds
               PROVE  job'[u] = Idle
    BY DEF Alone
  <1>1. job \in [Workers -> Job] /\ Idle.kind = "idle"
    BY DEF Core, Serving, Idle
  <1>2. CASE Done(w)
    <2>1. v # w /\ job'[v] = job[v]
      BY <1>1, <1>2 DEF Done
    <2>2. job[u] = Idle
      BY <2>1 DEF Alone
    <2> QED
      BY <1>1, <1>2, <2>2 DEF Done
  <1>3. CASE job' = job
    BY <1>3 DEF Alone
  <1>4. ASSUME NEW kind, NEW n, NEW qty, MayStart(w, kind), Begin(w, kind, n, qty)
        PROVE  job'[u] = Idle
    <2>1. CASE v = w
      <3>1. job'[v].kind = kind
        BY <1>1, <1>4, <2>1 DEF Begin
      <3>2. job[u] = Idle
        BY <1>4, <2>1, <3>1 DEF MayStart
      <3> QED
        BY <1>1, <1>4, <2>1, <3>2 DEF Begin
    <2>2. CASE v # w
      <3>1. job'[v] = job[v]
        BY <1>1, <1>4, <2>2 DEF Begin
      <3> QED
        BY <1>1, <1>4, <3>1, Excluded
    <2> QED
      BY <2>1, <2>2
  <1> QED
    BY <1>2, <1>3, <1>4, StepKinds DEF Starts

\* At the start nobody is served.
LEMMA AloneAtFirst ==
  ASSUME NEW kinds, "idle" \notin kinds
  PROVE  Init => Alone(kinds)
  BY DEF Init, Alone, Idle

\* A request of the kinds is under way after a step: it starts with it.
LEMMA JustBegun ==
  ASSUME Core, NEW kinds, kinds \cap Racing = {}, "idle" \notin kinds, Alone(kinds),
         NEW v \in Workers, Step(v), NEW w \in Workers, job'[w].kind \in kinds
  PROVE  \E kind, n, qty : /\ Starts(w, kind, n, qty) /\ job'[w].kind = kind
                           /\ job'[w].number = n /\ job'[w].qty = qty
  <1>1. job \in [Workers -> Job] /\ Idle.kind = "idle"
    BY DEF Core, Serving, Idle
  <1>2. job[w].kind \notin kinds
    BY <1>1, OnlyOne
  <1>3. ~ Done(v) /\ job' # job
    BY <1>1, <1>2 DEF Done
  <1>4. PICK kind, n, qty : Starts(v, kind, n, qty)
    BY <1>3, StepKinds
  <1>5. v = w
    BY <1>1, <1>2, <1>4 DEF Starts, Begin
  <1>6. job'[w].kind = kind /\ job'[w].number = n /\ job'[w].qty = qty
    BY <1>1, <1>4, <1>5 DEF Starts, Begin
  <1> QED
    BY <1>4, <1>5, <1>6

-----------------------------------------------------------------------------
(* What comes back, and what has left. *)

\* The columns of the returns.
Came     == [r \in Return |-> IF r.status = "COMPLETED" THEN r.qty ELSE 0]
Promised == [r \in Return |-> IF r.status = "CANCELLED" THEN 0 ELSE r.qty]

CameBack == Column(returns, Came)
Promise  == Column(returns, Promised)

\* What came back and what is promised to are columns of the returns.
LEMMA ReturnColumns ==
  /\ Came \in [Return -> Nat] /\ Promised \in [Return -> Nat]
  /\ IsColumn(Came, Return) /\ IsColumn(Promised, Return)
  <1>1. \A n \in ReturnQuantities : n \in Nat
    BY ReceivablesAssumption
  <1>2. Came \in [Return -> Nat] /\ Promised \in [Return -> Nat]
    BY <1>1 DEF Came, Promised, Return
  <1> QED
    BY <1>2 DEF IsColumn

\* The returns are a table of rows.
LEMMA ReturnRows ==
  /\ Core => AreRows(returns, Return)
  /\ Core' => AreRows(returns', Return)
  BY RowsOf DEF Core, Serving

\* The totals are numbers.
LEMMA ReturnSums ==
  /\ Core => CameBack \in Nat /\ Promise \in Nat
  /\ Core' => CameBack' \in Nat /\ Promise' \in Nat
  BY ReturnColumns, ReturnRows, ColumnType DEF CameBack, Promise

\* The operators of the specification are these columns.
LEMMA ReturnsAre ==
  ASSUME Core
  PROVE  CompletedOnly(0) = CameBack /\ Occupied(0) = Promise
  <1>1. \A i \in DOMAIN returns : i # 0 /\ returns[i] \in Return
    BY RowTypes, RowNumbers DEF Core, Serving
  <1>2. [i \in DOMAIN returns |->
           IF i # 0 /\ returns[i].status = "COMPLETED" THEN returns[i].qty ELSE 0]
          = [i \in DOMAIN returns |-> Came[returns[i]]]
    BY <1>1 DEF Came
  <1>3. [i \in DOMAIN returns |->
           IF i # 0 /\ returns[i].status # "CANCELLED" THEN returns[i].qty ELSE 0]
          = [i \in DOMAIN returns |-> Promised[returns[i]]]
    BY <1>1 DEF Promised
  <1> QED
    BY <1>2, <1>3 DEF CompletedOnly, Occupied, CameBack, Promise, Column

\* What has come back was promised.
LEMMA CameWasPromised ==
  ASSUME Core
  PROVE  CameBack <= Promise
  <1>1. PICK S : S = DOMAIN returns
    OBVIOUS
  <1>2. PICK f : f = [i \in S |-> Came[returns[i]]]
    OBVIOUS
  <1>3. PICK g : g = [i \in S |-> Promised[returns[i]]]
    OBVIOUS
  <1>4. IsFiniteSet(S) /\ \A i \in S : returns[i] \in Return
    BY <1>1, ReturnRows DEF AreRows
  <1>5. f \in [S -> Int] /\ g \in [S -> Int]
    BY <1>2, <1>3, <1>4, ReturnColumns DEF IsColumn
  <1>6. \A r \in Return : Came[r] <= Promised[r]
    BY ReceivablesAssumption DEF Came, Promised, Return
  <1>7. \A i \in S : f[i] <= g[i]
    BY <1>2, <1>3, <1>4, <1>6
  <1>8. SumFunction(f) <= SumFunction(g)
    BY <1>4, <1>5, <1>7, SumMonotone
  <1> QED
    BY <1>1, <1>2, <1>3, <1>8 DEF CameBack, Promise, Column

\* What a request does to the returns.
ReturnsMove(came, promised) == CameBack' = CameBack + came /\ Promise' = Promise + promised

\* Where returns are not written nothing comes back.
LEMMA ReturnsStay ==
  ASSUME Core, returns' = returns
  PROVE  ReturnsMove(0, 0)
  BY ReturnSums DEF ReturnsMove, CameBack, Promise

\* A new return promises its quantity.
LEMMA DraftReturn ==
  ASSUME Core, NEW w \in Workers, CreateReturn(w)
  PROVE  ReturnsMove(0, job[w].qty)
  <1>1. PICK t, n, qty : t = returns' /\ n = Len(returns) + 1 /\ qty = job[w].qty
    OBVIOUS
  <1>2. Core' /\ RowAdded(returns, t, n) /\ t[n] = [qty |-> qty, status |-> "DRAFT"]
    BY <1>1, CreateReturnKeeps
  <1>3. AreRows(returns, Return) /\ AreRows(t, Return)
    BY <1>1, <1>2, ReturnRows
  <1>4. t[n] \in Return /\ t[n].qty = qty /\ t[n].status = "DRAFT"
    <2>1. t[n] \in Return
      BY <1>2, <1>3 DEF RowAdded, AreRows
    <2> QED
      BY <1>2, <2>1
  <1>5. Came[t[n]] = 0 /\ Promised[t[n]] = qty
    BY <1>4 DEF Came, Promised
  <1>6. /\ Column(t, Came) = Column(returns, Came) + Came[t[n]]
        /\ Column(t, Promised) = Column(returns, Promised) + Promised[t[n]]
    BY <1>2, <1>3, ReturnColumns, ColumnMade
  <1> QED
    BY <1>1, <1>5, <1>6 DEF ReturnsMove, CameBack, Promise

\* The status of a return that is saved: nothing has come back with it, even if it had.
LEMMA SavedReturn ==
  ASSUME Core, NEW w \in Workers, Saves(w)
  PROVE  /\ CameBack' <= CameBack
         /\ returns[job[w].number].status \in Open => CameBack' = CameBack /\ Promise' <= Promise
  <1>1. PICK t, n : t = returns' /\ n = job[w].number
    OBVIOUS
  <1>2. /\ Core' /\ RowChanged(returns, t, n) /\ t[n].qty = returns[n].qty
        /\ t[n].status \in {"PENDING_APPROVAL", "APPROVED", "CANCELLED"}
    BY <1>1, WriteReturnKeeps DEF Saves
  <1>3. AreRows(returns, Return) /\ AreRows(t, Return)
    BY <1>1, <1>2, ReturnRows
  <1>4. returns[n] \in Return /\ t[n] \in Return /\ returns[n].qty \in Nat
    <2>1. returns[n] \in Return /\ t[n] \in Return
      BY <1>2, <1>3 DEF RowChanged, AreRows
    <2> QED
      BY <2>1, ReceivablesAssumption DEF Return
  <1>5. /\ Came[t[n]] = 0 /\ Came[returns[n]] \in Nat
        /\ returns[n].status \in Open => Came[returns[n]] = 0 /\ Promised[t[n]] <= Promised[returns[n]]
        /\ Promised[t[n]] \in Nat /\ Promised[returns[n]] \in Nat
    BY <1>2, <1>4 DEF Came, Promised, Open
  <1>6. /\ Column(t, Came) = Column(returns, Came) + (Came[t[n]] - Came[returns[n]])
        /\ Column(t, Promised) =
             Column(returns, Promised) + (Promised[t[n]] - Promised[returns[n]])
    BY <1>2, <1>3, ReturnColumns, ColumnChanged
  <1>7. CameBack' = Column(t, Came) /\ Promise' = Column(t, Promised)
    BY <1>1 DEF CameBack, Promise
  <1> QED
    BY <1>1, <1>5, <1>6, <1>7, ReturnSums DEF CameBack, Promise

\* A completed one brings it back.
LEMMA CompletedReturn ==
  ASSUME Core, NEW w \in Workers, CompleteReturn(w)
  PROVE  ReturnsMove(job[w].qty, 0)
  <1>1. PICK t, n, qty : t = returns' /\ n = job[w].number /\ qty = job[w].qty
    OBVIOUS
  <1>2. /\ RowChanged(returns, t, n) /\ t[n].qty = qty /\ t[n].status = "COMPLETED"
        /\ returns[n].qty = qty /\ returns[n].status = "APPROVED" /\ qty \in Nat
    BY <1>1, Completed
  <1>3. AreRows(returns, Return) /\ AreRows(t, Return)
    BY <1>1, CompleteReturnKeeps, ReturnRows
  <1>4. returns[n] \in Return /\ t[n] \in Return
    BY <1>2, <1>3 DEF RowChanged, AreRows
  <1>5. /\ Came[t[n]] = qty /\ Came[returns[n]] = 0
        /\ Promised[t[n]] = qty /\ Promised[returns[n]] = qty
    BY <1>2, <1>4 DEF Came, Promised
  <1>6. /\ Column(t, Came) = Column(returns, Came) + (Came[t[n]] - Came[returns[n]])
        /\ Column(t, Promised) =
             Column(returns, Promised) + (Promised[t[n]] - Promised[returns[n]])
    BY <1>2, <1>3, ReturnColumns, ColumnChanged
  <1>7. /\ CameBack' = Column(t, Came) /\ Promise' = Column(t, Promised)
        /\ CameBack = Column(returns, Came) /\ Promise = Column(returns, Promised)
    BY <1>1 DEF CameBack, Promise
  <1>8. ReturnsMove(qty, 0)
    BY <1>2, <1>5, <1>6, <1>7, ReturnSums DEF ReturnsMove
  <1> QED
    BY <1>1, <1>8

\* What has left, with an outbound order more.
LEMMA Shipped ==
  ASSUME Core
  PROVE  /\ ShippedQuantity \in Nat
         /\ delivered = Outbounds => ShippedQuantity = AllDelivered
         /\ delivered' = delivered => ShippedQuantity' = ShippedQuantity
         /\ \A o \in Outbounds \ delivered : delivered' = delivered \cup {o} =>
              ShippedQuantity' = ShippedQuantity + Delivers[o]
  <1>1. IsFiniteSet(delivered) /\ delivered \subseteq Outbounds
    BY ReceivablesAssumption, FS_Subset DEF Core, Rest
  <1>2. PICK f : f = [o \in delivered |-> Delivers[o]]
    OBVIOUS
  <1>3. f \in [delivered -> Nat]
    BY <1>1, <1>2, DeliversType
  <1>4. ShippedQuantity \in Nat
    BY <1>1, <1>2, <1>3, SumType DEF ShippedQuantity
  <1>5. delivered = Outbounds => ShippedQuantity = AllDelivered
    <2>1. Delivers = [o \in Outbounds |-> Delivers[o]]
      BY ReceivablesAssumption
    <2> QED
      BY <2>1 DEF ShippedQuantity, AllDelivered
  <1>6. ASSUME NEW o \in Outbounds \ delivered, delivered' = delivered \cup {o}
        PROVE  ShippedQuantity' = ShippedQuantity + Delivers[o]
    <2>1. PICK g : g = [p \in delivered \cup {o} |-> Delivers[p]]
      OBVIOUS
    <2>2. g \in [delivered \cup {o} -> Int] /\ f \in [delivered -> Int]
      BY <1>1, <1>3, <2>1, DeliversType
    <2>3. \A p \in delivered : g[p] = f[p]
      BY <1>2, <2>1
    <2>4. SumFunction(g) = SumFunction(f) + g[o]
      BY <1>1, <2>2, <2>3, SumMore
    <2>5. ShippedQuantity' = SumFunction(g) /\ ShippedQuantity = SumFunction(f) /\ g[o] = Delivers[o]
      BY <1>2, <1>6, <2>1 DEF ShippedQuantity
    <2> QED
      BY <2>4, <2>5
  <1> QED
    BY <1>4, <1>5, <1>6 DEF ShippedQuantity

-----------------------------------------------------------------------------
(* Goods are billed once. *)

\* Who bills the order tested that nothing is billed and all has left.
BillingIsFresh ==
  \A w \in Workers : job[w].kind = "generate" => receivables = << >> /\ delivered = Outbounds

\* Nothing has come back of what was never billed: what a return lowers stays a receivable.
BillBeforeReturn == DOMAIN receivables = {} => CameBack = 0

BilledWithin ==
  /\ Alone({"generate"}) /\ BillingIsFresh /\ BillBeforeReturn
  /\ Invoiced + CameBack <= ShippedQuantity

\* At the start nothing is billed.
LEMMA InitBilledWithin == Init => BilledWithin
  <1> SUFFICES ASSUME Init PROVE BilledWithin
    OBVIOUS
  <1>1. Alone({"generate"})
    BY AloneAtFirst
  <1>2. BillingIsFresh
    BY DEF Init, BillingIsFresh, Idle
  <1>3. CameBack = 0
    BY ColumnEmpty DEF Init, CameBack
  <1>4. ShippedQuantity \in Nat /\ Invoiced = 0
    BY InitCore, Shipped, InitBooks
  <1> QED
    BY <1>1, <1>2, <1>3, <1>4 DEF BilledWithin, BillBeforeReturn

\* A return that is completed leaves a receivable, if only the red one.
LEMMA ReturnIsBooked ==
  ASSUME Core, NEW w \in Workers, CompleteReturn(w)
  PROVE  DOMAIN receivables' # {}
  <1>1. PICK qty : qty = job[w].qty
    OBVIOUS
  <1>2. qty \in Nat \ {0} /\ ReversesReceivables(qty)
    BY <1>1, Completed
  <1>3. PICK lowered \in Seq(Account), gives \in [DOMAIN receivables -> Nat], rest \in Nat :
          qty = SumFunction(gives) + rest /\ LowersReceivables(lowered, gives, rest)
    BY <1>2, Reversed
  <1>4. CASE rest = 0
    <2>1. SumFunction(gives) # 0
      BY <1>2, <1>3, <1>4
    <2>2. DOMAIN receivables # {}
      BY <2>1, SumEmpty
    <2> QED
      BY <1>3, <1>4, <2>2 DEF LowersReceivables
  <1>5. CASE rest > 0
    <2>1. receivables' = Append(lowered, Bill("SALES_RETURN", NoOutbound, - rest))
      BY <1>3, <1>5 DEF LowersReceivables
    <2>2. DOMAIN receivables' = 1 .. (Len(lowered) + 1) /\ Len(lowered) \in Nat
      BY <1>3, <2>1
    <2>3. 1 \in 1 .. (Len(lowered) + 1)
      BY <2>2
    <2> QED
      BY <2>2, <2>3
  <1> QED
    BY <1>4, <1>5

\* What each step does to the three quantities.
LEMMA BilledWithinKept ==
  ASSUME Core, Core', BilledWithin, NEW w \in Workers, Step(w)
  PROVE  Invoiced' + CameBack' <= ShippedQuantity' /\ BillBeforeReturn'
  <1> DEFINE Goal == Invoiced' + CameBack' <= ShippedQuantity' /\ BillBeforeReturn'
  <1>1. /\ Invoiced \in Int /\ CameBack \in Nat /\ CameBack' \in Nat /\ ShippedQuantity \in Nat
        /\ Invoiced + CameBack <= ShippedQuantity
        /\ DOMAIN receivables = {} => CameBack = 0
    BY Sums, ReturnSums, Shipped DEF BilledWithin, BillBeforeReturn
  <1>2. ASSUME Invoiced' = Invoiced, DOMAIN receivables' = DOMAIN receivables,
               CameBack' <= CameBack, delivered' = delivered
        PROVE  Goal
    <2>1. ShippedQuantity' = ShippedQuantity
      BY <1>2, Shipped
    <2>2. Invoiced' + CameBack' <= ShippedQuantity'
      <3>1. PICK i, j, c, d, s, t :
              /\ i = Invoiced /\ j = Invoiced' /\ c = CameBack /\ d = CameBack'
              /\ s = ShippedQuantity /\ t = ShippedQuantity'
        OBVIOUS
      <3>2. /\ i \in Int /\ c \in Nat /\ d \in Nat /\ s \in Nat /\ i + c <= s
            /\ j = i /\ d <= c /\ t = s
        BY <1>1, <1>2, <2>1, <3>1
      <3>3. j + d <= t
        BY <3>2
      <3> QED
        BY <3>1, <3>3
    <2>3. DOMAIN receivables' = {} => CameBack' = 0
      BY <1>1, <1>2
    <2> QED
      BY <2>2, <2>3 DEF BillBeforeReturn
  <1>3. ASSUME Quiet, CameBack' <= CameBack
        PROVE  Goal
    <2>1. Invoiced' = Invoiced /\ receivables' = receivables
      BY <1>1, <1>3, QuietBooks DEF BooksMove
    <2>2. delivered' = delivered
      BY <1>3 DEF Quiet
    <2> QED
      BY <1>2, <1>3, <2>1, <2>2
  <1>4. CASE Looks(w) \/ LoadBilling(w)
    <2>1. Quiet /\ returns' = returns
      BY <1>4, LooksKeep, LoadBillingKeeps
    <2>2. CameBack' <= CameBack
      BY <1>1, <2>1, ReturnsStay DEF ReturnsMove
    <2> QED
      BY <1>3, <2>1, <2>2
  <1>5. CASE CreateReturn(w)
    <2>1. Quiet /\ CameBack' = CameBack + 0
      BY <1>5, CreateReturnKeeps, DraftReturn DEF ReturnsMove
    <2> QED
      BY <1>1, <1>3, <2>1
  <1>6. CASE Saves(w)
    <2>1. Quiet /\ CameBack' <= CameBack
      BY <1>6, WriteReturnKeeps, SavedReturn DEF Saves
    <2> QED
      BY <1>3, <2>1
  <1>7. CASE CompleteReturn(w)
    <2>1. PICK qty : qty = job[w].qty
      OBVIOUS
    <2>2. qty \in Nat /\ delivered' = delivered
      BY <1>7, <2>1, Completed
    <2>3. Invoiced' = Invoiced + (0 - qty) /\ CameBack' = CameBack + qty
      BY <1>7, <2>1, CompleteReturnBooks, CompletedReturn DEF BooksMove, ReturnsMove
    <2>4. ShippedQuantity' = ShippedQuantity
      BY <2>2, Shipped
    <2>5. BillBeforeReturn'
      BY <1>7, ReturnIsBooked DEF BillBeforeReturn
    <2> QED
      BY <1>1, <2>2, <2>3, <2>4, <2>5
  <1>8. CASE MoneyStep(w)
    <2>1. /\ Invoiced' = Invoiced /\ DOMAIN receivables' = DOMAIN receivables
          /\ delivered' = delivered /\ returns' = returns
      BY <1>8, MoneyBooks
    <2>2. CameBack' <= CameBack
      BY <1>1, <2>1, ReturnsStay DEF ReturnsMove
    <2> QED
      BY <1>2, <2>1, <2>2
  <1>9. ASSUME NEW o \in Outbounds, NEW auto \in AutoBilling, CompleteOutbound(w, o, auto)
        PROVE  Goal
    <2>1. o \notin delivered /\ delivered' = delivered \cup {o} /\ returns' = returns
      BY <1>9 DEF CompleteOutbound
    <2>2. ShippedQuantity' = ShippedQuantity + Delivers[o] /\ Delivers[o] \in Nat
      BY <2>1, Shipped, DeliversType
    <2>3. CameBack' = CameBack
      BY <1>1, <2>1, ReturnsStay DEF ReturnsMove
    <2>4. \/ Invoiced' = Invoiced + 0 /\ receivables' = receivables
          \/ Invoiced' = Invoiced + Delivers[o] /\ receivables' # << >>
      BY <1>9, DeliveryBooks DEF BooksMove
    <2>5. receivables' # << >> => DOMAIN receivables' # {}
      BY RowNumbers DEF Core, Papers
    <2> QED
      BY <1>1, <2>2, <2>3, <2>4, <2>5 DEF BillBeforeReturn
  <1>10. CASE GenerateFromOrder(w)
    <2>1. job[w].kind = "generate" /\ delivered' = delivered /\ returns' = returns
      BY <1>10 DEF GenerateFromOrder
    <2>2. receivables = << >> /\ delivered = Outbounds
      BY <2>1 DEF BilledWithin, BillingIsFresh
    <2>3. DOMAIN receivables = {}
      BY <2>2
    <2>4. Invoiced = 0 /\ CameBack = 0
      BY <1>1, <2>3, ColumnEmpty DEF Invoiced
    <2>5. CameBack' = 0
      BY <2>1, <2>4, ReturnsStay DEF ReturnsMove
    <2>6. Invoiced' = AllDelivered /\ receivables' # << >>
      BY <1>10, <2>4, GenerateBooks, AllDeliveredType DEF BooksMove
    <2>7. ShippedQuantity' = AllDelivered
      BY <2>1, <2>2, Shipped
    <2> QED
      BY <2>5, <2>6, <2>7, AllDeliveredType DEF BillBeforeReturn
  <1> HIDE DEF Goal
  <1>11. CASE BillingStep(w)
    <2>1. (\E o \in Outbounds, auto \in AutoBilling : CompleteOutbound(w, o, auto)) => Goal
      BY <1>9
    <2> QED
      BY <1>4, <1>10, <1>11, <2>1 DEF BillingStep, Goal
  <1>12. CASE ReturnStep(w)
    BY <1>4, <1>5, <1>6, <1>7, <1>12, ReturnSteps
  <1> QED
    BY <1>8, <1>11, <1>12 DEF Goal, Step

\* What a request to bill the order found is still so, where it is served
\* alone.
LEMMA BillingStaysFresh ==
  ASSUME "generate" \notin Racing, Core, BilledWithin, NEW v \in Workers, Step(v)
  PROVE  BillingIsFresh'
  <1> SUFFICES ASSUME NEW w \in Workers, job'[w].kind = "generate"
               PROVE  receivables' = << >> /\ delivered' = Outbounds
    BY DEF BillingIsFresh
  <1>1. {"generate"} \cap Racing = {} /\ "idle" \notin {"generate"} /\ Alone({"generate"})
    BY DEF BilledWithin
  <1>2. PICK kind, n, qty : Starts(w, kind, n, qty) /\ job'[w].kind = kind
    BY <1>1, JustBegun
  <1>3. LoadBilling(w)
    BY <1>2 DEF Starts
  <1> QED
    BY <1>3 DEF LoadBilling, Unbilled, books

(***************************************************************************)
(* The receivables, and what returns took off them, never ask for more     *)
(* than was delivered, as long as nothing overlaps a request to bill the   *)
(* whole order: deliveries, returns, receipts and refunds may overlap one  *)
(* another.                                                                *)
(***************************************************************************)
THEOREM GoodsAreBilledOnce ==
  ASSUME "generate" \notin Racing
  PROVE  Spec => []BilledOnce
  <1>1. Core /\ Core' /\ BilledWithin /\ [Next]_vars => BilledWithin'
    <2> SUFFICES ASSUME Core, Core', BilledWithin, [Next]_vars PROVE BilledWithin'
      OBVIOUS
    <2>1. ASSUME NEW w \in Workers, Step(w)
          PROVE  BilledWithin'
      <3>1. Alone({"generate"})'
        <4>1. {"generate"} \cap Racing = {} /\ "idle" \notin {"generate"} /\ Alone({"generate"})
          BY DEF BilledWithin
        <4> QED
          BY <2>1, <4>1, AloneKept
      <3> QED
        BY <2>1, <3>1, BillingStaysFresh, BilledWithinKept DEF BilledWithin
    <2>2. CASE UNCHANGED vars
      BY <2>2 DEF vars, books, BilledWithin, Alone, BillingIsFresh, BillBeforeReturn,
                  Invoiced, CameBack, ShippedQuantity
    <2> QED
      BY <2>1, <2>2 DEF Next, Step
  <1>2. Core /\ BilledWithin => BilledOnce
    <2> SUFFICES ASSUME Core, BilledWithin PROVE BilledOnce
      OBVIOUS
    <2>1. Total(receivables, LAMBDA r : r.amount) = Invoiced /\ ReturnedQuantity = CameBack
      BY GapsExplain, ReturnsAre DEF ReturnedQuantity
    <2> QED
      BY <2>1 DEF BilledOnce, BilledWithin
  <1> QED
    BY CoreHolds, InitBilledWithin, <1>1, <1>2, PTL DEF Spec

-----------------------------------------------------------------------------
(* Goods come back once. *)

\* Requests about a return that is not locked.
Loose == {"create_return"} \cup Writers

\* What they tested is still so.
LooseAreFresh ==
  \A w \in Workers :
    /\ job[w].kind = "create_return" => job[w].qty + Promise <= ShippedQuantity
    /\ job[w].kind \in Writers => returns[job[w].number].status \in Open

ComesBack ==
  /\ Alone(Loose) /\ LooseAreFresh
  /\ Promise <= ShippedQuantity
  /\ stock.current = OnHand - ShippedQuantity + CameBack

\* At the start nothing comes back.
LEMMA InitComesBack == Init => ComesBack
  <1> SUFFICES ASSUME Init PROVE ComesBack
    OBVIOUS
  <1>1. Alone(Loose)
    BY AloneAtFirst DEF Loose, Writers
  <1>2. LooseAreFresh
    BY DEF Init, LooseAreFresh, Idle, Writers
  <1>3. CameBack = 0 /\ Promise = 0
    BY ColumnEmpty DEF Init, CameBack, Promise
  <1>4. ShippedQuantity = 0
    <2>1. PICK f : f = [o \in delivered |-> Delivers[o]]
      OBVIOUS
    <2>2. DOMAIN f = {}
      BY <2>1 DEF Init
    <2>3. SumFunction(f) = 0
      BY <2>2, SumEmpty
    <2> QED
      BY <2>1, <2>3 DEF ShippedQuantity
  <1>5. stock.current = OnHand
    BY DEF Init, NoPosition
  <1> QED
    BY <1>1, <1>2, <1>3, <1>4, <1>5, ReceivablesAssumption DEF ComesBack

\* What each step does to the stock, the promise and what has come back.
LEMMA GoodsMove ==
  ASSUME Core, Core', ComesBack, NEW w \in Workers, Step(w)
  PROVE  Promise' <= ShippedQuantity' /\ stock'.current = OnHand - ShippedQuantity' + CameBack'
  <1> DEFINE Goal == /\ Promise' <= ShippedQuantity'
                     /\ stock'.current = OnHand - ShippedQuantity' + CameBack'
  <1>1. PICK p, q, c, d, s, t, x, y :
          /\ p = Promise /\ q = Promise' /\ c = CameBack /\ d = CameBack'
          /\ s = ShippedQuantity /\ t = ShippedQuantity'
          /\ x = stock.current /\ y = stock'.current
    OBVIOUS
  <1>2. /\ p \in Nat /\ q \in Nat /\ c \in Nat /\ d \in Nat /\ s \in Nat /\ OnHand \in Nat
        /\ p <= s /\ x = OnHand - s + c
    BY <1>1, ReturnSums, Shipped, ReceivablesAssumption DEF ComesBack
  <1>3. ASSUME q <= p, d = c, delivered' = delivered, stock' = stock
        PROVE  Goal
    <2>1. t = s /\ y = x
      BY <1>1, <1>3, Shipped
    <2>2. q <= t /\ y = OnHand - t + d
      BY <1>2, <1>3, <2>1
    <2> QED
      BY <1>1, <2>2
  <1>4. ASSUME returns' = returns, delivered' = delivered, stock' = stock
        PROVE  Goal
    <2>1. q = p + 0 /\ d = c + 0
      BY <1>1, <1>4, ReturnsStay DEF ReturnsMove
    <2>2. q <= p /\ d = c
      BY <1>2, <2>1
    <2> QED
      BY <1>3, <1>4, <2>2
  <1>5. (Looks(w) \/ LoadBilling(w)) => Goal
    BY <1>4, LooksKeep, LoadBillingKeeps DEF Quiet
  <1>6. CreateReturn(w) => Goal
    <2> SUFFICES ASSUME CreateReturn(w) PROVE Goal
      OBVIOUS
    <2>1. PICK qty : qty = job[w].qty
      OBVIOUS
    <2>2. job[w].kind = "create_return" /\ delivered' = delivered /\ stock' = stock
      BY DEF CreateReturn
    <2>3. qty + p <= s /\ qty \in Nat
      BY <1>1, <2>1, <2>2 DEF ComesBack, LooseAreFresh, Core, Serving, Job
    <2>4. q = p + qty /\ d = c + 0
      BY <1>1, <2>1, DraftReturn DEF ReturnsMove
    <2>5. t = s /\ y = x
      BY <1>1, <2>2, Shipped
    <2>6. q <= t /\ y = OnHand - t + d
      BY <1>2, <2>3, <2>4, <2>5
    <2> QED
      BY <1>1, <2>6
  <1>7. Saves(w) => Goal
    <2> SUFFICES ASSUME Saves(w) PROVE Goal
      OBVIOUS
    <2>1. Quiet /\ job[w].kind \in Writers
      BY WriteReturnKeeps DEF Saves
    <2>2. returns[job[w].number].status \in Open
      BY <2>1 DEF ComesBack, LooseAreFresh
    <2>3. q <= p /\ d = c
      BY <1>1, <2>2, SavedReturn
    <2> QED
      BY <1>3, <2>1, <2>3 DEF Quiet
  <1>8. CompleteReturn(w) => Goal
    <2> SUFFICES ASSUME CompleteReturn(w) PROVE Goal
      OBVIOUS
    <2>1. PICK qty : qty = job[w].qty
      OBVIOUS
    <2>2. qty \in Nat /\ delivered' = delivered /\ y = x + qty
      BY <1>1, <2>1, Completed
    <2>3. q = p + 0 /\ d = c + qty
      BY <1>1, <2>1, CompletedReturn DEF ReturnsMove
    <2>4. t = s
      BY <1>1, <2>2, Shipped
    <2>5. q <= t /\ y = OnHand - t + d
      BY <1>2, <2>2, <2>3, <2>4
    <2> QED
      BY <1>1, <2>5
  <1>9. MoneyStep(w) => Goal
    BY <1>4, MoneyBooks
  <1>10. ASSUME NEW o \in Outbounds, NEW auto \in AutoBilling, CompleteOutbound(w, o, auto)
         PROVE  Goal
    <2>1. PICK n : n = Delivers[o]
      OBVIOUS
    <2>2. /\ o \notin delivered /\ delivered' = delivered \cup {o} /\ returns' = returns
          /\ stock' = ShipStock(stock, n)
      BY <1>10, <2>1 DEF CompleteOutbound
    <2>3. n \in Nat /\ t = s + n
      BY <1>1, <2>1, <2>2, Shipped, DeliversType
    <2>4. y = x - n
      BY <1>1, <2>2, <2>3, StockMoves
    <2>5. q = p + 0 /\ d = c + 0
      BY <1>1, <2>2, ReturnsStay DEF ReturnsMove
    <2>6. q <= t /\ y = OnHand - t + d
      BY <1>2, <2>3, <2>4, <2>5
    <2> QED
      BY <1>1, <2>6
  <1>11. GenerateFromOrder(w) => Goal
    BY <1>4 DEF GenerateFromOrder
  <1> HIDE DEF Goal
  <1>12. BillingStep(w) => Goal
    BY <1>5, <1>10, <1>11 DEF BillingStep
  <1>13. ReturnStep(w) => Goal
    BY <1>5, <1>6, <1>7, <1>8, ReturnSteps
  <1>14. Goal
    BY <1>9, <1>12, <1>13 DEF Step
  <1> QED
    BY <1>14 DEF Goal

\* What the unlocked requests about returns read is still so, where they are
\* served alone.
LEMMA LooseStayFresh ==
  ASSUME Loose \cap Racing = {}, Core, ComesBack, NEW v \in Workers, Step(v)
  PROVE  LooseAreFresh'
  <1>1. "idle" \notin Loose /\ Alone(Loose)
    BY DEF Loose, Writers, ComesBack
  <1> SUFFICES ASSUME NEW w \in Workers, job'[w].kind \in Loose
               PROVE  /\ job'[w].kind = "create_return" =>
                           job'[w].qty + Promise' <= ShippedQuantity'
                      /\ job'[w].kind \in Writers =>
                           returns'[job'[w].number].status \in Open
    BY DEF LooseAreFresh, Loose
  <1>2. PICK kind, n, qty : /\ Starts(w, kind, n, qty) /\ job'[w].kind = kind
                            /\ job'[w].number = n /\ job'[w].qty = qty
    BY <1>1, JustBegun
  <1>3. CASE kind = "create_return"
    <2>1. CheckReturn(w, qty) /\ "create_return" \notin Writers
      BY <1>2, <1>3 DEF Starts, Writers
    <2>2. qty <= ShippedQuantity - Promise /\ returns' = returns /\ delivered' = delivered
      BY <2>1, ReturnsAre DEF CheckReturn, Returnable
    <2>3. Promise' = Promise /\ ShippedQuantity' = ShippedQuantity
      BY <2>2 DEF Promise, ShippedQuantity
    <2>4. Promise \in Nat /\ ShippedQuantity \in Nat /\ qty \in Int
      <3>1. qty \in ReturnQuantities \/ qty \in Nat
        BY <1>2, <1>3, <2>1, NextCore DEF Next, Step, Core, Serving, Job
      <3> QED
        BY <3>1, ReturnSums, Shipped, RowTypes
    <2>5. qty + Promise <= ShippedQuantity
      BY <2>2, <2>4
    <2> QED
      BY <1>2, <1>3, <2>1, <2>3, <2>5
  <1>4. CASE kind \in Writers
    <2>1. n \in DOMAIN returns /\ LoadReturn(w, kind, n) /\ kind # "create_return"
      BY <1>2, <1>4 DEF Starts, Writers
    <2>2. returns' = returns /\ ReturnReady(kind, n)
      BY <2>1 DEF LoadReturn
    <2>3. returns[n].status \in Open
      BY <2>2 DEF ReturnReady, Open
    <2> QED
      BY <1>2, <1>4, <2>1, <2>2, <2>3
  <1> QED
    BY <1>2, <1>3, <1>4 DEF Loose

(***************************************************************************)
(* Returned goods enter the warehouse once and are no more than was        *)
(* delivered, and every return that is open can still be completed, as     *)
(* long as the requests that make, submit, approve and cancel returns do   *)
(* not overlap others.  Completing returns, delivering, billing, paying    *)
(* and refunding may overlap.                                              *)
(***************************************************************************)
THEOREM GoodsComeBackOnce ==
  ASSUME {"create_return", "submit_return", "approve_return", "cancel_return"} \cap Racing = {}
  PROVE  Spec => []GoodsReturnOnce
  <1>1. Loose \cap Racing = {} /\ "idle" \notin Loose
    BY DEF Loose, Writers
  <1>2. Core /\ Core' /\ ComesBack /\ [Next]_vars => ComesBack'
    <2> SUFFICES ASSUME Core, Core', ComesBack, [Next]_vars PROVE ComesBack'
      OBVIOUS
    <2>1. ASSUME NEW w \in Workers, Step(w)
          PROVE  ComesBack'
      <3>1. Alone(Loose)
        BY DEF ComesBack
      <3>2. Alone(Loose)'
        <4>1. PICK kinds : kinds = Loose
          OBVIOUS
        <4>2. Alone(kinds)'
          BY <1>1, <2>1, <3>1, <4>1, AloneKept
        <4> QED
          BY <4>1, <4>2
      <3> QED
        BY <1>1, <2>1, <3>2, GoodsMove, LooseStayFresh DEF ComesBack
    <2>2. CASE UNCHANGED vars
      BY <2>2 DEF vars, ComesBack, Alone, LooseAreFresh, Promise, CameBack, ShippedQuantity
    <2> QED
      BY <2>1, <2>2 DEF Next, Step
  <1>3. Core /\ ComesBack => GoodsReturnOnce
    <2> SUFFICES ASSUME Core, ComesBack PROVE GoodsReturnOnce
      OBVIOUS
    <2>1. ReturnedQuantity = CameBack
      BY ReturnsAre DEF ReturnedQuantity
    <2>2. Total(returns, LAMBDA r : IF r.status = "CANCELLED" THEN 0 ELSE r.qty) = Promise
      <3>1. [i \in DOMAIN returns |->
               IF returns[i].status = "CANCELLED" THEN 0 ELSE returns[i].qty]
              = [i \in DOMAIN returns |-> Promised[returns[i]]]
        BY RowTypes DEF Promised
      <3> QED
        BY <3>1 DEF Total, Column, Promise
    <2>3. CameBack <= ShippedQuantity
      BY CameWasPromised, ReturnSums, Shipped DEF ComesBack
    <2> QED
      BY <2>1, <2>2, <2>3 DEF GoodsReturnOnce, ReturnedOnce, ReturnsFit, ComesBack
  <1> QED
    BY CoreHolds, InitComesBack, <1>2, <1>3, PTL DEF Spec
=============================================================================
