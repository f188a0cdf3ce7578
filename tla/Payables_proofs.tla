-------------------------- MODULE Payables_proofs --------------------------
(***************************************************************************)
(* Theorems about Payables, for any orders, amounts and workers, and any   *)
(* number of rows.                                                         *)
(*                                                                         *)
(* The inductive invariant has four parts: the types of the rows, what is  *)
(* used of them, what the locks on credit notes protect while a request is *)
(* under way, and, for the requests that are served alone, what they know. *)
(***************************************************************************)
EXTENDS Payables, TableTheorems

-----------------------------------------------------------------------------
(* The invariant. *)

Account == [order : Orders, total : Nat, paid : Nat]
Payment == [amount : Amounts, allocated : Nat, status : PaymentStatus, account : BOOLEAN,
            executed : BOOLEAN]
Note    == [amount : Amounts, used : Nat]
Refund  == [note : Nat, amount : Amounts, status : RefundStatus, account : BOOLEAN]
Job     == [kind : {"idle", "receive", "execute_refund", "submit_payment"}, number : Nat,
            order : Orders \cup {NoOrder}, qty : Nat, notes : SUBSET Nat, drafts : SUBSET Nat]

\* The rows have their types, and refunds name notes that are there.
Rows ==
  /\ received \in [Orders -> Nat] /\ returned \in [Orders -> Nat]
  /\ accounts \in Seq(Account)
  /\ payments \in Seq(Payment)
  /\ notes \in Seq(Note)
  /\ refunds \in Seq(Refund)
  /\ cash \in Nat
  /\ job \in [Workers -> Job]
  /\ \A k \in DOMAIN refunds : refunds[k].note \in DOMAIN notes

\* A payment is allocated after it is executed.
AllocatedLater == \A p \in DOMAIN payments : ~ payments[p].executed => payments[p].allocated = 0

\* What is known of a request while it holds the lock on credit notes.
Holds(w) ==
  /\ job[w].notes \subseteq DOMAIN notes
  /\ \A k \in job[w].drafts : /\ k \in DOMAIN refunds
                              /\ refunds[k].note \in job[w].notes
                              /\ refunds[k].status # "COMPLETED"
  /\ job[w].kind = "receive" => job[w].order \in Orders /\ job[w].qty \in Amounts
  /\ job[w].kind = "execute_refund" =>
       LET k == job[w].number IN
       /\ k \in DOMAIN refunds \ job[w].drafts
       /\ refunds[k].status = "APPROVED"
       /\ job[w].notes = {refunds[k].note}
       /\ job[w].qty = refunds[k].amount
       /\ Refundable(k)

Locked ==
  /\ \A v, w \in Workers : v # w => job[v].notes \cap job[w].notes = {}
  /\ \A w \in Workers : Holds(w)

IInv == Rows /\ NothingOverdrawn /\ AllocatedLater /\ Locked

-----------------------------------------------------------------------------
(* The operators of the model. *)

\* What is taken of each credit note, and of each payable.
Offsets(ns, qty) == [n \in ns |-> Offset(ns, n, qty)]
Adjustments(o, qty) == [i \in DOMAIN accounts |-> Adjustment(o, i, qty)]

\* An idle worker's job is a job, and holds no lock.
LEMMA IdleIsAJob ==
  /\ Idle \in Job
  /\ Idle.kind = "idle" /\ Idle.notes = {} /\ Idle.drafts = {}
  BY DEF Idle, Job

\* Whatever is left of an amount is one.
LEMMA AmountsClosed ==
  ASSUME NEW a \in Amounts, NEW b \in Int, 0 < b, b <= a
  PROVE  b \in Amounts
  <1>1. a \in Nat /\ 1 .. a \subseteq Amounts
    BY PayablesAssumption
  <1> QED
    BY <1>1

\* Credit is taken of each note as far as it has some, and together for no more than asked.
LEMMA OffsetTakes ==
  ASSUME Rows, NothingOverdrawn, NEW ns \in SUBSET DOMAIN notes, NEW qty \in Nat,
         NEW gives, gives = Offsets(ns, qty)
  PROVE  /\ gives \in [ns -> Nat] /\ IsFiniteSet(ns)
         /\ \A n \in ns : gives[n] <= Remaining(notes[n])
         /\ SumFunction(gives) \in Nat /\ SumFunction(gives) <= qty
  <1> USE DEF Offsets
  <1> DEFINE has == [n \in ns |-> Remaining(notes[n])]
             Before(n) == {m \in ns : m < n}
  <1>1. IsFiniteSet(ns) /\ AreNumbers(ns)
    BY RowNumbers, FS_Subset DEF Rows, AreNumbers
  <1>2. \A n \in DOMAIN notes : Remaining(notes[n]) \in Nat
    <2>1. \A n \in DOMAIN notes : notes[n] \in Note
      BY RowNumbers DEF Rows
    <2>2. \A a \in Amounts : a \in Nat
      BY PayablesAssumption
    <2> QED
      BY <2>1, <2>2 DEF NothingOverdrawn, Remaining, Note
  <1>3. has \in [ns -> Nat]
    BY <1>2
  <1>4. \A n \in ns : [m \in Before(n) |-> Remaining(notes[m])] = [m \in Before(n) |-> has[m]]
    OBVIOUS
  <1>5. \A n \in ns : SumFunction([m \in Before(n) |-> has[m]]) \in Nat
    <2> SUFFICES ASSUME NEW n \in ns
                 PROVE  SumFunction([m \in Before(n) |-> has[m]]) \in Nat
      OBVIOUS
    <2>1. IsFiniteSet(Before(n))
      BY <1>1, FS_Subset
    <2>2. [m \in Before(n) |-> has[m]] \in [Before(n) -> Nat]
      BY <1>3
    <2> HIDE DEF Before, has
    <2> QED
      BY <2>1, <2>2, SumType
  <1>6. \A n \in ns : gives[n] = Given(qty, has, n)
    <2> SUFFICES ASSUME NEW n \in ns PROVE gives[n] = Given(qty, has, n)
      OBVIOUS
    <2> DEFINE left == qty - SumFunction([m \in Before(n) |-> has[m]])
    <2>1. gives[n] = Lesser(has[n], AtLeastZero(left))
      BY <1>4 DEF Offset
    <2>2. left \in Int /\ has[n] \in Nat
      BY <1>3, <1>5
    <2>3. Given(qty, has, n) = IF left < 0 THEN 0 ELSE IF has[n] < left THEN has[n] ELSE left
      BY DEF Given
    <2> HIDE DEF left, has
    <2> QED
      BY <2>1, <2>2, <2>3 DEF Lesser, AtLeastZero
  <1>7. gives \in [ns -> Int]
    <2> SUFFICES ASSUME NEW n \in ns PROVE gives[n] \in Int
      OBVIOUS
    <2> DEFINE left == qty - SumFunction([m \in Before(n) |-> has[m]])
    <2>1. gives[n] = IF left < 0 THEN 0 ELSE IF has[n] < left THEN has[n] ELSE left
      BY <1>6 DEF Given
    <2>2. left \in Int /\ has[n] \in Nat
      BY <1>3, <1>5
    <2> HIDE DEF left, has
    <2> QED
      BY <2>1, <2>2
  <1>8. /\ gives \in [ns -> Nat]
        /\ \A n \in ns : gives[n] <= has[n]
        /\ SumFunction(gives) = IF SumFunction(has) < qty THEN SumFunction(has) ELSE qty
    <2> HIDE DEF has
    <2> QED
      BY <1>1, <1>3, <1>6, <1>7, SumTaken
  <1>9. SumFunction(has) \in Nat
    <2> HIDE DEF has
    <2> QED
      BY <1>1, <1>3, SumType
  <1>10. SumFunction(gives) \in Nat /\ SumFunction(gives) <= qty
    <2> HIDE DEF has
    <2> QED
      BY <1>8, <1>9
  <1> QED
    BY <1>1, <1>8, <1>10

\* A return takes of each payable of its order as far as it is unpaid.
LEMMA AdjustmentTakes ==
  ASSUME Rows, NEW o, NEW qty \in Nat,
         NEW gives, gives = Adjustments(o, qty)
  PROVE  /\ gives \in [DOMAIN accounts -> Nat]
         /\ \A i \in DOMAIN accounts : gives[i] = 0 \/ gives[i] <= Unpaid(accounts[i])
         /\ SumFunction(gives) \in Nat /\ SumFunction(gives) <= qty
  <1> USE DEF Adjustments
  <1> DEFINE S == DOMAIN accounts
             has == [i \in S |-> Adjustable(o, i)]
             Before(i) == {m \in S : m < i}
  <1>1. IsFiniteSet(S) /\ AreNumbers(S) /\ S = 1 .. Len(accounts) /\ Len(accounts) \in Nat
    BY RowNumbers DEF Rows, AreNumbers
  <1>2. \A i \in S : /\ Unpaid(accounts[i]) \in Int /\ Adjustable(o, i) \in Nat
                     /\ Adjustable(o, i) = 0 \/ Adjustable(o, i) = Unpaid(accounts[i])
    <2> SUFFICES ASSUME NEW i \in S
                 PROVE  /\ Unpaid(accounts[i]) \in Int /\ Adjustable(o, i) \in Nat
                        /\ Adjustable(o, i) = 0 \/ Adjustable(o, i) = Unpaid(accounts[i])
      OBVIOUS
    <2>1. accounts[i] \in Account
      BY RowNumbers DEF Rows
    <2>2. Unpaid(accounts[i]) \in Int
      BY <2>1 DEF Account, Unpaid
    <2> QED
      BY <2>2 DEF Adjustable, AtLeastZero
  <1>3. has \in [S -> Nat]
    BY <1>2
  <1>4. \A i \in S : [j \in 1 .. (i - 1) |-> Adjustable(o, j)] = [j \in Before(i) |-> has[j]]
    <2> SUFFICES ASSUME NEW i \in S
                 PROVE  [j \in 1 .. (i - 1) |-> Adjustable(o, j)] = [j \in Before(i) |-> has[j]]
      OBVIOUS
    <2>1. Before(i) = 1 .. (i - 1)
      BY <1>1
    <2> QED
      BY <2>1
  <1>5. \A i \in S : SumFunction([m \in Before(i) |-> has[m]]) \in Nat
    <2> SUFFICES ASSUME NEW i \in S
                 PROVE  SumFunction([m \in Before(i) |-> has[m]]) \in Nat
      OBVIOUS
    <2>1. IsFiniteSet(Before(i))
      BY <1>1, FS_Subset
    <2>2. [m \in Before(i) |-> has[m]] \in [Before(i) -> Nat]
      BY <1>3
    <2> HIDE DEF Before, has
    <2> QED
      BY <2>1, <2>2, SumType
  <1>6. \A i \in S : gives[i] = Given(qty, has, i)
    <2> SUFFICES ASSUME NEW i \in S PROVE gives[i] = Given(qty, has, i)
      OBVIOUS
    <2> DEFINE left == qty - SumFunction([m \in Before(i) |-> has[m]])
    <2>1. gives[i] = Lesser(has[i], AtLeastZero(left))
      BY <1>4 DEF Adjustment
    <2>2. left \in Int /\ has[i] \in Nat
      BY <1>3, <1>5
    <2>3. Given(qty, has, i) = IF left < 0 THEN 0 ELSE IF has[i] < left THEN has[i] ELSE left
      BY DEF Given
    <2> HIDE DEF left, has
    <2> QED
      BY <2>1, <2>2, <2>3 DEF Lesser, AtLeastZero
  <1>7. gives \in [S -> Int]
    <2> SUFFICES ASSUME NEW i \in S PROVE gives[i] \in Int
      OBVIOUS
    <2> DEFINE left == qty - SumFunction([m \in Before(i) |-> has[m]])
    <2>1. gives[i] = IF left < 0 THEN 0 ELSE IF has[i] < left THEN has[i] ELSE left
      BY <1>6 DEF Given
    <2>2. left \in Int /\ has[i] \in Nat
      BY <1>3, <1>5
    <2> HIDE DEF left, has
    <2> QED
      BY <2>1, <2>2
  <1>8. /\ gives \in [S -> Nat]
        /\ \A i \in S : gives[i] <= has[i]
        /\ SumFunction(gives) = IF SumFunction(has) < qty THEN SumFunction(has) ELSE qty
    <2>1. IsFiniteSet(S) /\ AreNumbers(S)
      BY <1>1
    <2> HIDE DEF has, S
    <2> QED
      BY <2>1, <1>3, <1>6, <1>7, SumTaken
  <1>9. SumFunction(has) \in Nat
    <2> HIDE DEF has, S
    <2> QED
      BY <1>1, <1>3, SumType
  <1>10. SumFunction(gives) \in Nat /\ SumFunction(gives) <= qty
    <2> HIDE DEF has, S
    <2> QED
      BY <1>8, <1>9
  <1>11. \A i \in S : gives[i] = 0 \/ gives[i] <= Unpaid(accounts[i])
    <2> SUFFICES ASSUME NEW i \in S PROVE gives[i] = 0 \/ gives[i] <= Unpaid(accounts[i])
      OBVIOUS
    <2>1. gives[i] <= Adjustable(o, i) /\ gives[i] \in Nat
      BY <1>8
    <2> QED
      BY <1>2, <2>1
  <1> QED
    BY <1>8, <1>10, <1>11

\* What becomes of the refunds when the drafts among them are resized.
LEMMA SyncedRefunds ==
  ASSUME Rows, NEW changed, NEW drafts,
         DOMAIN changed = DOMAIN notes, \A n \in DOMAIN notes : changed[n] \in Note
  PROVE  LET new == Synced(changed, drafts) IN
         /\ new \in Seq(Refund) /\ DOMAIN new = DOMAIN refunds /\ Len(new) = Len(refunds)
         /\ \A k \in DOMAIN refunds :
              /\ new[k].note = refunds[k].note /\ new[k].account = refunds[k].account
              /\ k \notin drafts => new[k] = refunds[k]
              /\ k \in drafts => /\ new[k].status \in {refunds[k].status, "CANCELLED"}
                                 /\ \/ new[k].status = "CANCELLED"
                                    \/ new[k].amount = Remaining(changed[new[k].note])
  <1> DEFINE new == Synced(changed, drafts)
             left(k) == Remaining(changed[refunds[k].note])
  <1>1. \A k \in DOMAIN refunds :
          new[k] = IF k \notin drafts THEN refunds[k]
                   ELSE IF left(k) > 0 THEN [refunds[k] EXCEPT !.amount = left(k)]
                   ELSE [refunds[k] EXCEPT !.status = "CANCELLED"]
    BY DEF Synced
  <1>2. DOMAIN new = DOMAIN refunds /\ new = [k \in DOMAIN refunds |-> new[k]]
    BY DEF Synced
  <1>3. \A k \in DOMAIN refunds : refunds[k] \in Refund /\ refunds[k].note \in DOMAIN notes
    BY RowNumbers DEF Rows
  <1> HIDE DEF new
  <1>4. ASSUME NEW k \in DOMAIN refunds
        PROVE  /\ new[k] \in Refund
               /\ new[k].note = refunds[k].note /\ new[k].account = refunds[k].account
               /\ k \notin drafts => new[k] = refunds[k]
               /\ k \in drafts => /\ new[k].status \in {refunds[k].status, "CANCELLED"}
                                  /\ \/ new[k].status = "CANCELLED"
                                     \/ new[k].amount = left(k)
    <2>1. CASE k \notin drafts
      BY <1>1, <1>3, <2>1
    <2>2. CASE k \in drafts /\ left(k) > 0
      <3>1. changed[refunds[k].note] \in Note
        BY <1>3
      <3>2. left(k) \in Amounts
        <4>1. /\ changed[refunds[k].note].amount \in Amounts
              /\ changed[refunds[k].note].used \in Nat
              /\ left(k) = changed[refunds[k].note].amount - changed[refunds[k].note].used
          BY <3>1 DEF Note, Remaining
        <4>2. changed[refunds[k].note].amount \in Nat
          BY <4>1, PayablesAssumption
        <4>3. left(k) \in Int /\ left(k) <= changed[refunds[k].note].amount
          <5> HIDE DEF left
          <5> QED
            BY <4>1, <4>2
        <4> HIDE DEF left
        <4> QED
          BY <2>2, <4>1, <4>3, AmountsClosed
      <3>3. new[k] = [refunds[k] EXCEPT !.amount = left(k)]
        BY <1>1, <2>2
      <3> HIDE DEF left
      <3> QED
        BY <1>3, <2>2, <3>2, <3>3 DEF Refund
    <2>3. CASE k \in drafts /\ ~ (left(k) > 0)
      <3>1. new[k] = [refunds[k] EXCEPT !.status = "CANCELLED"]
        BY <1>1, <2>3
      <3> HIDE DEF left
      <3> QED
        BY <1>3, <2>3, <3>1 DEF Refund, RefundStatus
    <2> QED
      BY <2>1, <2>2, <2>3
  <1>5. new \in [DOMAIN refunds -> Refund]
    BY <1>2, <1>4
  <1>6. new \in Seq(Refund) /\ Len(new) = Len(refunds)
    BY <1>5, RowsKept DEF Rows
  <1> QED
    BY <1>2, <1>4, <1>6 DEF new

-----------------------------------------------------------------------------
(* Every step keeps the invariant. *)

\* The rows of the tables have their types, and refunds are of notes that
\* exist.
LEMMA RowTypes ==
  ASSUME Rows
  PROVE  /\ \A i \in DOMAIN accounts : accounts[i] \in Account
         /\ \A p \in DOMAIN payments : payments[p] \in Payment
         /\ \A n \in DOMAIN notes : notes[n] \in Note
         /\ \A k \in DOMAIN refunds : refunds[k] \in Refund /\ refunds[k].note \in DOMAIN notes
         /\ DOMAIN notes \in SUBSET Nat /\ DOMAIN refunds \in SUBSET Nat
         /\ Amounts \subseteq Nat \ {0}
  BY RowNumbers, PayablesAssumption DEF Rows

\* At the start the tables are empty.
LEMMA InitHolds == Init => IInv
  <1> SUFFICES ASSUME Init PROVE IInv
    OBVIOUS
  <1>1. Rows
    <2>1. job \in [Workers -> Job]
      BY IdleIsAJob DEF Init
    <2>2. cash \in Nat
      BY PayablesAssumption DEF Init
    <2> QED
      BY <2>1, <2>2 DEF Init, Rows
  <1>2. NothingOverdrawn /\ AllocatedLater
    BY DEF Init, NothingOverdrawn, AllocatedLater
  <1>3. Locked
    <2>1. \A w \in Workers : job[w] = Idle
      BY DEF Init
    <2>2. \A w \in Workers : Holds(w)
      BY <2>1, IdleIsAJob DEF Holds
    <2> QED
      BY <2>1, <2>2, IdleIsAJob DEF Locked
  <1> QED
    BY <1>1, <1>2, <1>3 DEF IInv

\* A worker that is done holds nothing.
LEMMA DoneIdles ==
  ASSUME Rows, NEW w \in Workers, Done(w)
  PROVE  /\ job' \in [Workers -> Job]
         /\ job'[w] = Idle /\ \A v \in Workers \ {w} : job'[v] = job[v]
  BY IdleIsAJob DEF Done, Rows

\* Requests that leave the credit and who holds it alone.
LEMMA LockedStays ==
  ASSUME Locked, UNCHANGED <<job, notes, refunds>>
  PROVE  Locked'
  BY DEF Locked, Holds, Refundable

\* The debit notes of the order are locked.
LEMMA LockNotesKeeps ==
  ASSUME IInv, NEW w \in Workers, NEW o \in Orders, NEW qty \in Amounts, LockNotes(w, o, qty)
  PROVE  IInv'
  <1> DEFINE j == [Idle EXCEPT !.kind = "receive", !.order = o, !.qty = qty,
                               !.notes = DOMAIN notes, !.drafts = DraftsOf(DOMAIN notes)]
  <1>1. /\ job' = [job EXCEPT ![w] = j] /\ NotesFree(DOMAIN notes)
        /\ UNCHANGED <<goods, accounts, payments, notes, refunds, cash>>
    BY DEF LockNotes
  <1>2. /\ j.kind = "receive" /\ j.order = o /\ j.qty = qty
        /\ j.notes = DOMAIN notes /\ j.drafts = DraftsOf(DOMAIN notes)
    BY DEF Idle
  <1>3. DraftsOf(DOMAIN notes) \subseteq DOMAIN refunds
    BY DEF DraftsOf
  <1>4. j \in Job
    BY <1>3, RowTypes DEF Idle, Job, IInv
  <1> HIDE DEF j
  <1>5. job' \in [Workers -> Job] /\ job'[w] = j /\ \A v \in Workers \ {w} : job'[v] = job[v]
    BY <1>1, <1>4 DEF IInv, Rows
  <1>6. Rows'
    BY <1>1, <1>5 DEF IInv, Rows, goods
  <1>7. NothingOverdrawn' /\ AllocatedLater'
    BY <1>1 DEF IInv, NothingOverdrawn, AllocatedLater
  <1>8. Locked'
    <2>1. \A v \in Workers \ {w} : Holds(v)'
      BY <1>1, <1>5 DEF IInv, Locked, Holds, Refundable
    <2>2. Holds(w)'
      BY <1>1, <1>2, <1>5 DEF Holds, DraftsOf
    <2>3. \A v \in Workers \ {w} : job[v].notes \cap DOMAIN notes = {}
      BY <1>1 DEF NotesFree
    <2>4. ASSUME NEW u \in Workers, NEW v \in Workers, u # v
          PROVE  job'[u].notes \cap job'[v].notes = {}
      BY <1>2, <1>5, <2>3, <2>4 DEF IInv, Locked
    <2> QED
      BY <2>1, <2>2, <2>4 DEF Locked
  <1> QED
    BY <1>6, <1>7, <1>8 DEF IInv

\* The notes with what a payable of qty uses of them.
LEMMA UsingNotes ==
  ASSUME Rows, NothingOverdrawn, NEW ns \in SUBSET DOMAIN notes, NEW qty \in Nat,
         NEW used, used = Using(ns, qty)
  PROVE  /\ used \in Seq(Note) /\ DOMAIN used = DOMAIN notes /\ Len(used) = Len(notes)
         /\ \A n \in DOMAIN notes :
              /\ used[n] \in Note /\ Remaining(used[n]) \in Nat
              /\ used[n].amount = notes[n].amount
              /\ n \notin ns => used[n] = notes[n]
              /\ n \in ns => Remaining(used[n]) = Remaining(notes[n]) - Offset(ns, n, qty)
  <1> DEFINE gives == Offsets(ns, qty)
  <1>1. gives \in [ns -> Nat] /\ \A n \in ns : gives[n] <= Remaining(notes[n])
    BY OffsetTakes
  <1>2. \A n \in ns : Offset(ns, n, qty) \in Nat /\ Offset(ns, n, qty) <= Remaining(notes[n])
    BY <1>1 DEF Offsets
  <1>3. ASSUME NEW n \in DOMAIN notes
        PROVE  /\ used[n] \in Note /\ Remaining(used[n]) \in Nat
               /\ used[n].amount = notes[n].amount
               /\ n \notin ns => used[n] = notes[n]
               /\ n \in ns => Remaining(used[n]) = Remaining(notes[n]) - Offset(ns, n, qty)
    <2>1. notes[n] \in Note /\ notes[n].amount \in Nat /\ Remaining(notes[n]) \in Nat
      BY RowTypes DEF Note, NothingOverdrawn, Remaining
    <2>2. CASE n \notin ns
      BY <2>1, <2>2 DEF Using
    <2>3. CASE n \in ns
      <3> DEFINE x == Offset(ns, n, qty)
      <3>1. used[n] = [notes[n] EXCEPT !.used = notes[n].used + x]
        BY <2>3 DEF Using
      <3>2. x \in Nat /\ x <= Remaining(notes[n])
        BY <1>2, <2>3
      <3> HIDE DEF x
      <3>3. used[n].used = notes[n].used + x /\ used[n].amount = notes[n].amount
        BY <2>1, <3>1 DEF Note
      <3>4. used[n] \in Note
        BY <2>1, <3>1, <3>2 DEF Note
      <3>5. Remaining(used[n]) = Remaining(notes[n]) - x /\ Remaining(used[n]) \in Nat
        BY <2>1, <3>2, <3>3 DEF Note, Remaining
      <3> QED
        BY <2>3, <3>3, <3>4, <3>5 DEF x
    <2> QED
      BY <2>2, <2>3
  <1>4. used \in [DOMAIN notes -> Note] /\ DOMAIN used = DOMAIN notes
    BY <1>3 DEF Using
  <1>5. used \in Seq(Note) /\ Len(used) = Len(notes)
    BY <1>4, RowsKept DEF Rows
  <1> QED
    BY <1>3, <1>4, <1>5

\* Credit that a request uses of the notes it holds, and what becomes of their drafts.
LEMMA CreditKeeps ==
  ASSUME IInv, NEW w \in Workers, Done(w),
         NEW drafts \in SUBSET job[w].drafts,
         notes' \in Seq(Note), DOMAIN notes' = DOMAIN notes,
         \A n \in DOMAIN notes : notes'[n] \in Note /\ Remaining(notes'[n]) \in Nat,
         \A n \in DOMAIN notes \ job[w].notes : notes'[n] = notes[n],
         refunds' \in Seq(Refund), DOMAIN refunds' = DOMAIN refunds,
         \A k \in DOMAIN refunds : refunds'[k].note = refunds[k].note,
         \A k \in DOMAIN refunds : refunds[k].note \notin job[w].notes => refunds'[k] = refunds[k]
  PROVE  /\ Locked'
         /\ job' \in [Workers -> Job]
         /\ \A k \in DOMAIN refunds' : refunds'[k].note \in DOMAIN notes'
         /\ \A n \in DOMAIN notes' : Remaining(notes'[n]) >= 0
  <1>1. /\ job' \in [Workers -> Job]
        /\ job'[w] = Idle /\ \A v \in Workers \ {w} : job'[v] = job[v]
    BY DoneIdles DEF IInv
  <1>2. ASSUME NEW v \in Workers \ {w}
        PROVE  Holds(v)'
    <2>1. Holds(v) /\ job[v].notes \cap job[w].notes = {} /\ job'[v] = job[v]
      BY <1>1 DEF IInv, Locked
    <2>2. \A n \in job[v].notes : notes'[n] = notes[n]
      BY <2>1 DEF Holds
    <2>3. \A k \in DOMAIN refunds : refunds[k].note \in job[v].notes => refunds'[k] = refunds[k]
      BY <2>1
    <2> QED
      BY <2>1, <2>2, <2>3 DEF Holds, Refundable
  <1>3. Holds(w)'
    BY <1>1, IdleIsAJob DEF Holds
  <1>4. ASSUME NEW u \in Workers, NEW v \in Workers, u # v
        PROVE  job'[u].notes \cap job'[v].notes = {}
    BY <1>1, <1>4, IdleIsAJob DEF IInv, Locked
  <1>5. Locked'
    BY <1>2, <1>3, <1>4 DEF Locked
  <1> QED
    BY <1>1, <1>5, RowTypes DEF IInv

\* What a receipt makes of the goods, the credit, its drafts and the payables.
LEMMA Generated ==
  ASSUME IInv, NEW w \in Workers, GenerateFromReceipt(w)
  PROVE  LET j     == job[w]
             last  == Len(accounts) + 1
             gives == Offsets(j.notes, j.qty) IN
         /\ j.order \in Orders /\ j.qty \in Amounts /\ j.notes \in SUBSET DOMAIN notes
         /\ gives \in [j.notes -> Nat] /\ IsFiniteSet(j.notes)
         /\ SumFunction(gives) \in Nat /\ SumFunction(gives) <= j.qty
         /\ received' = [received EXCEPT ![j.order] = @ + j.qty]
         /\ notes' \in Seq(Note) /\ DOMAIN notes' = DOMAIN notes
         /\ \A n \in DOMAIN notes : notes'[n] \in Note /\ Remaining(notes'[n]) \in Nat
         /\ \A n \in DOMAIN notes \ j.notes : notes'[n] = notes[n]
         /\ \A n \in j.notes : Remaining(notes'[n]) = Remaining(notes[n]) - gives[n]
         /\ refunds' \in Seq(Refund) /\ DOMAIN refunds' = DOMAIN refunds
         /\ \A k \in DOMAIN refunds :
              /\ refunds'[k].note = refunds[k].note /\ refunds'[k].account = refunds[k].account
              /\ k \notin j.drafts \/ notes'[refunds[k].note] = notes[refunds[k].note] =>
                   refunds'[k] = refunds[k]
              /\ refunds'[k] = refunds[k] \/
                   /\ k \in j.drafts
                   /\ refunds'[k].status \in {refunds[k].status, "CANCELLED"}
                   /\ \/ refunds'[k].status = "CANCELLED"
                      \/ refunds'[k].amount = Remaining(notes'[refunds'[k].note])
         /\ accounts' \in Seq(Account) /\ DOMAIN accounts' = DOMAIN accounts \cup {last}
         /\ \A i \in DOMAIN accounts : accounts'[i] = accounts[i]
         /\ accounts'[last].paid = 0 /\ Unpaid(accounts'[last]) = j.qty - SumFunction(gives)
         /\ Done(w) /\ UNCHANGED <<returned, payments, cash>>
  <1> DEFINE gives   == Offsets(job[w].notes, job[w].qty)
             o       == job[w].order
             qty     == job[w].qty
             ns      == job[w].notes
             used    == Using(ns, qty)
             touched == {n \in ns : used[n] # notes[n]}
             drafts  == {k \in job[w].drafts : refunds[k].note \in touched}
             credit  == SumFunction(gives)
             new     == [order |-> o, total |-> qty - credit, paid |-> 0]
  <1>1. /\ job[w].kind = "receive"
        /\ received' = [received EXCEPT ![o] = @ + qty]
        /\ notes' = used /\ refunds' = Synced(used, drafts)
        /\ accounts' = Append(accounts, new)
        /\ Done(w) /\ UNCHANGED <<returned, payments, cash>>
    BY DEF GenerateFromReceipt, Offsets
  <1>2. /\ Rows /\ NothingOverdrawn /\ Holds(w)
        /\ o \in Orders /\ qty \in Amounts /\ qty \in Nat /\ ns \in SUBSET DOMAIN notes
    BY <1>1, RowTypes DEF IInv, Locked, Holds
  <1>3. /\ gives \in [ns -> Nat] /\ IsFiniteSet(ns) /\ credit \in Nat /\ credit <= qty
    BY <1>2, OffsetTakes
  <1>4. /\ used \in Seq(Note) /\ DOMAIN used = DOMAIN notes
        /\ \A n \in DOMAIN notes : used[n] \in Note /\ Remaining(used[n]) \in Nat
        /\ \A n \in DOMAIN notes \ ns : used[n] = notes[n]
        /\ \A n \in ns : Remaining(used[n]) = Remaining(notes[n]) - Offset(ns, n, qty)
    <2> HIDE DEF ns, qty
    <2> QED
      BY <1>2, UsingNotes
  <1>5. \A n \in ns : Remaining(used[n]) = Remaining(notes[n]) - gives[n]
    BY <1>4 DEF Offsets
  <1>6. /\ refunds' \in Seq(Refund) /\ DOMAIN refunds' = DOMAIN refunds
        /\ \A k \in DOMAIN refunds :
             /\ refunds'[k].note = refunds[k].note /\ refunds'[k].account = refunds[k].account
             /\ k \notin drafts => refunds'[k] = refunds[k]
             /\ k \in drafts => /\ refunds'[k].status \in {refunds[k].status, "CANCELLED"}
                                /\ \/ refunds'[k].status = "CANCELLED"
                                   \/ refunds'[k].amount = Remaining(used[refunds'[k].note])
    <2> HIDE DEF used, drafts
    <2> QED
      BY <1>1, <1>2, <1>4, SyncedRefunds
  <1>7. \A k \in drafts : k \in job[w].drafts /\ used[refunds[k].note] # notes[refunds[k].note]
    OBVIOUS
  <1>8. new \in Account /\ new.total = qty - credit /\ new.paid = 0
    <2> HIDE DEF credit, qty
    <2> QED
      BY <1>2, <1>3 DEF Account
  <1>9. /\ accounts' \in Seq(Account) /\ DOMAIN accounts' = DOMAIN accounts \cup {Len(accounts) + 1}
        /\ \A i \in DOMAIN accounts : accounts'[i] = accounts[i]
        /\ accounts'[Len(accounts) + 1] = new
    <2> HIDE DEF new
    <2> QED
      BY <1>1, <1>2, <1>8, RowMade DEF Rows
  <1>10. Unpaid(new) = qty - credit
    <2> HIDE DEF new, credit, qty
    <2> QED
      BY <1>2, <1>3, <1>8 DEF Unpaid
  <1>11. \A k \in DOMAIN refunds :
              /\ refunds'[k].note = refunds[k].note /\ refunds'[k].account = refunds[k].account
              /\ k \notin job[w].drafts \/ notes'[refunds[k].note] = notes[refunds[k].note] =>
                   refunds'[k] = refunds[k]
              /\ refunds'[k] = refunds[k] \/
                   /\ k \in job[w].drafts
                   /\ refunds'[k].status \in {refunds[k].status, "CANCELLED"}
                   /\ \/ refunds'[k].status = "CANCELLED"
                      \/ refunds'[k].amount = Remaining(notes'[refunds'[k].note])
    <2> HIDE DEF used, drafts
    <2> QED
      BY <1>1, <1>6, <1>7
  <1> HIDE DEF used, drafts, new
  <1> QED
    BY <1>1, <1>2, <1>3, <1>4, <1>5, <1>6, <1>8, <1>9, <1>10, <1>11

\* A receipt makes an account, or adds to the one of its order.
LEMMA GenerateKeeps ==
  ASSUME IInv, NEW w \in Workers, GenerateFromReceipt(w)
  PROVE  IInv'
  <1> DEFINE j     == job[w]
             last  == Len(accounts) + 1
             credit == SumFunction(Offsets(j.notes, j.qty))
  <1>1. /\ j.order \in Orders /\ j.qty \in Amounts
        /\ credit \in Nat /\ credit <= j.qty
        /\ received' = [received EXCEPT ![j.order] = @ + j.qty]
        /\ notes' \in Seq(Note) /\ DOMAIN notes' = DOMAIN notes
        /\ \A n \in DOMAIN notes : notes'[n] \in Note /\ Remaining(notes'[n]) \in Nat
        /\ \A n \in DOMAIN notes \ j.notes : notes'[n] = notes[n]
        /\ refunds' \in Seq(Refund) /\ DOMAIN refunds' = DOMAIN refunds
        /\ \A k \in DOMAIN refunds :
             /\ refunds'[k].note = refunds[k].note
             /\ k \notin j.drafts => refunds'[k] = refunds[k]
        /\ accounts' \in Seq(Account) /\ DOMAIN accounts' = DOMAIN accounts \cup {last}
        /\ \A i \in DOMAIN accounts : accounts'[i] = accounts[i]
        /\ Unpaid(accounts'[last]) = j.qty - credit
        /\ Done(w) /\ UNCHANGED <<returned, payments, cash>>
    BY Generated
  <1> HIDE DEF credit
  <1>2. Rows /\ NothingOverdrawn /\ Holds(w) /\ j.qty \in Nat
    BY <1>1, RowTypes DEF IInv, Locked
  <1>3. \A k \in DOMAIN refunds : refunds[k].note \notin j.notes => refunds'[k] = refunds[k]
    BY <1>1, <1>2 DEF Holds
  <1>4. /\ Locked' /\ job' \in [Workers -> Job]
        /\ \A k \in DOMAIN refunds' : refunds'[k].note \in DOMAIN notes'
        /\ \A n \in DOMAIN notes' : Remaining(notes'[n]) >= 0
    BY <1>1, <1>3, CreditKeeps
  <1>5. received' \in [Orders -> Nat]
    <2> HIDE DEF j
    <2> QED
      BY <1>1, <1>2 DEF Rows
  <1>6. Rows'
    BY <1>1, <1>2, <1>4, <1>5 DEF Rows
  <1>7. \A i \in DOMAIN accounts' : Unpaid(accounts'[i]) >= 0
    <2> HIDE DEF j
    <2> QED
      BY <1>1, <1>2 DEF NothingOverdrawn
  <1>8. NothingOverdrawn' /\ AllocatedLater'
    BY <1>1, <1>2, <1>4, <1>7 DEF IInv, NothingOverdrawn, AllocatedLater
  <1> QED
    BY <1>4, <1>6, <1>8 DEF IInv

\* A credit note of rest and a draft refund of it are there.
CreditMade(rest) ==
  /\ rest \in Amounts
  /\ notes' \in Seq(Note) /\ DOMAIN notes' = DOMAIN notes \cup {Len(notes) + 1}
  /\ \A n \in DOMAIN notes : notes'[n] = notes[n]
  /\ Remaining(notes'[Len(notes) + 1]) = rest
  /\ Len(notes) + 1 \notin DOMAIN notes
  /\ refunds' \in Seq(Refund)
  /\ DOMAIN refunds' = DOMAIN refunds \cup {Len(refunds) + 1}
  /\ Len(refunds) + 1 \notin DOMAIN refunds
  /\ \A k \in DOMAIN refunds : refunds'[k] = refunds[k]
  /\ LET new == refunds'[Len(refunds) + 1] IN
     /\ new.note = Len(notes) + 1 /\ new.status = "DRAFT" /\ new.amount = rest
     /\ ~ new.account

\* What a return makes of the goods, the payables and the credit.
LEMMA Reversed ==
  ASSUME IInv, NEW w \in Workers, NEW o \in Orders, NEW qty \in Amounts,
         ReverseForReturn(w, o, qty)
  PROVE  LET gives == Adjustments(o, qty)
             rest  == qty - SumFunction(gives) IN
         /\ returned' = [returned EXCEPT ![o] = @ + qty]
         /\ gives \in [DOMAIN accounts -> Nat]
         /\ rest \in Nat
         /\ accounts' \in Seq(Account) /\ DOMAIN accounts' = DOMAIN accounts
         /\ \A i \in DOMAIN accounts :
              /\ accounts'[i].paid = accounts[i].paid
              /\ Unpaid(accounts'[i]) = Unpaid(accounts[i]) - gives[i]
              /\ Unpaid(accounts'[i]) >= 0
         /\ \/ rest = 0 /\ UNCHANGED <<notes, refunds>>
            \/ CreditMade(rest)
         /\ UNCHANGED <<received, payments, cash, job>>
  <1> DEFINE gives == Adjustments(o, qty)
             rest  == qty - SumFunction(gives)
             note  == [amount |-> rest, used |-> 0]
             refund == [note |-> Len(notes) + 1, amount |-> rest, status |-> "DRAFT",
                        account |-> FALSE]
  <1>1. /\ returned' = [returned EXCEPT ![o] = @ + qty]
        /\ accounts' = [i \in DOMAIN accounts |->
                          [accounts[i] EXCEPT !.total = @ - Adjustment(o, i, qty)]]
        /\ \/ /\ rest > 0
              /\ notes' = Append(notes, note) /\ refunds' = Append(refunds, refund)
           \/ ~ (rest > 0) /\ UNCHANGED <<notes, refunds>>
        /\ UNCHANGED <<received, payments, cash, job>>
    BY DEF ReverseForReturn, Adjustments
  <1>2. Rows /\ NothingOverdrawn /\ Locked /\ qty \in Nat
    BY RowTypes DEF IInv
  <1>3. /\ gives \in [DOMAIN accounts -> Nat]
        /\ \A i \in DOMAIN accounts : gives[i] = 0 \/ gives[i] <= Unpaid(accounts[i])
        /\ SumFunction(gives) \in Nat /\ SumFunction(gives) <= qty
    BY <1>2, AdjustmentTakes
  <1>4. ASSUME NEW i \in DOMAIN accounts
        PROVE  /\ accounts'[i] \in Account
               /\ accounts'[i].paid = accounts[i].paid
               /\ Unpaid(accounts'[i]) = Unpaid(accounts[i]) - gives[i]
               /\ Unpaid(accounts'[i]) >= 0
    <2> DEFINE x == gives[i]
    <2>1. accounts[i] \in Account /\ Unpaid(accounts[i]) >= 0
      BY <1>2, RowTypes DEF NothingOverdrawn
    <2>2. accounts'[i] = [accounts[i] EXCEPT !.total = accounts[i].total - x]
      BY <1>1 DEF Adjustments
    <2>3. x \in Nat /\ x <= Unpaid(accounts[i])
      BY <1>3, <2>1 DEF Unpaid, Account
    <2> HIDE DEF x
    <2>4. accounts'[i].total = accounts[i].total - x /\ accounts'[i].paid = accounts[i].paid
      BY <2>1, <2>2 DEF Account
    <2>5. accounts[i].total - x \in Nat
      BY <2>1, <2>3 DEF Unpaid, Account
    <2>6. accounts'[i] \in Account
      BY <2>1, <2>2, <2>5 DEF Account
    <2>7. Unpaid(accounts'[i]) = Unpaid(accounts[i]) - x /\ Unpaid(accounts'[i]) >= 0
      BY <2>1, <2>3, <2>4 DEF Unpaid, Account
    <2> QED
      BY <2>4, <2>6, <2>7 DEF x
  <1>5. accounts' \in Seq(Account) /\ DOMAIN accounts' = DOMAIN accounts
    <2>1. accounts' \in [DOMAIN accounts -> Account]
      BY <1>1, <1>4
    <2> QED
      BY <1>2, <2>1, RowsKept DEF Rows
  <1>6. rest \in Nat
    <2> QED
      BY <1>2, <1>3
  <1>7. CASE ~ (rest > 0) /\ UNCHANGED <<notes, refunds>>
    <2>1. rest = 0
      <3> HIDE DEF rest
      <3> QED
        BY <1>6, <1>7
    <2> QED
      BY <1>1, <1>3, <1>4, <1>5, <1>6, <1>7, <2>1
  <1>8. CASE /\ rest > 0
             /\ notes' = Append(notes, note) /\ refunds' = Append(refunds, refund)
    <2>1. rest \in Amounts /\ rest \in Nat
      <3>1. rest \in Int /\ rest <= qty /\ 0 < rest
        <4> QED
          BY <1>2, <1>3, <1>8
      <3> HIDE DEF rest
      <3> QED
        BY <1>2, <3>1, AmountsClosed
    <2>2. note \in Note /\ Remaining(note) = rest
      <3> HIDE DEF rest
      <3> QED
        BY <2>1 DEF Note, Remaining
    <2>3. /\ notes' \in Seq(Note) /\ DOMAIN notes' = DOMAIN notes \cup {Len(notes) + 1}
          /\ \A n \in DOMAIN notes : notes'[n] = notes[n]
          /\ notes'[Len(notes) + 1] = note /\ Len(notes) + 1 \notin DOMAIN notes
          /\ Len(notes) \in Nat
      <3> HIDE DEF note
      <3> QED
        BY <1>2, <1>8, <2>2, RowMade, RowNumbers DEF Rows
    <2>4. refund \in Refund /\ refund.note = Len(notes) + 1
          /\ refund.status = "DRAFT" /\ refund.amount = rest /\ ~ refund.account
      <3> HIDE DEF rest
      <3> QED
        BY <2>1, <2>3 DEF Refund, RefundStatus
    <2>5. /\ refunds' \in Seq(Refund) /\ DOMAIN refunds' = DOMAIN refunds \cup {Len(refunds) + 1}
          /\ \A k \in DOMAIN refunds : refunds'[k] = refunds[k]
          /\ refunds'[Len(refunds) + 1] = refund /\ Len(refunds) + 1 \notin DOMAIN refunds
      <3> HIDE DEF refund
      <3> QED
        BY <1>2, <1>8, <2>4, RowMade, RowNumbers DEF Rows
    <2>6. CreditMade(rest)
      <3> HIDE DEF rest, note, refund
      <3> QED
        BY <2>1, <2>2, <2>3, <2>4, <2>5 DEF CreditMade
    <2> QED
      BY <1>1, <1>3, <1>4, <1>5, <1>6, <2>6
  <1> QED
    BY <1>1, <1>7, <1>8

\* A return lowers accounts and makes a note of the rest.
LEMMA ReverseKeeps ==
  ASSUME IInv, NEW w \in Workers, NEW o \in Orders, NEW qty \in Amounts,
         ReverseForReturn(w, o, qty)
  PROVE  IInv'
  <1> DEFINE rest == qty - SumFunction(Adjustments(o, qty))
  <1>1. /\ returned' = [returned EXCEPT ![o] = @ + qty]
        /\ accounts' \in Seq(Account) /\ DOMAIN accounts' = DOMAIN accounts
        /\ \A i \in DOMAIN accounts : Unpaid(accounts'[i]) >= 0
        /\ UNCHANGED <<notes, refunds>> \/ CreditMade(rest)
        /\ UNCHANGED <<received, payments, cash, job>>
    BY Reversed
  <1> HIDE DEF rest
  <1>2. Rows /\ NothingOverdrawn /\ Locked /\ qty \in Nat /\ (rest \in Amounts => rest >= 0)
    BY RowTypes DEF IInv
  <1>3. returned' \in [Orders -> Nat]
    BY <1>1, <1>2 DEF Rows
  <1>4. CASE UNCHANGED <<notes, refunds>>
    <2>1. Rows'
      BY <1>1, <1>2, <1>3, <1>4 DEF Rows
    <2>2. NothingOverdrawn' /\ AllocatedLater'
      BY <1>1, <1>2, <1>4 DEF IInv, NothingOverdrawn, AllocatedLater
    <2>3. Locked'
      BY <1>1, <1>2, <1>4, LockedStays
    <2> QED
      BY <2>1, <2>2, <2>3 DEF IInv
  <1>5. CASE CreditMade(rest)
    <2> USE DEF CreditMade
    <2>1. \A k \in DOMAIN refunds' : refunds'[k].note \in DOMAIN notes'
      BY <1>2, <1>5 DEF Rows
    <2>2. Rows'
      BY <1>1, <1>2, <1>3, <1>5, <2>1 DEF Rows
    <2>3. \A n \in DOMAIN notes' : Remaining(notes'[n]) >= 0
      BY <1>2, <1>5 DEF NothingOverdrawn
    <2>4. NothingOverdrawn' /\ AllocatedLater'
      BY <1>1, <1>2, <2>3 DEF IInv, NothingOverdrawn, AllocatedLater
    <2>5. ASSUME NEW v \in Workers
          PROVE  Holds(v)'
      <3>1. Holds(v) /\ job'[v] = job[v]
        BY <1>1, <1>2 DEF Locked
      <3>2. \A n \in job[v].notes : notes'[n] = notes[n]
        BY <1>5, <3>1 DEF Holds
      <3> QED
        BY <1>5, <3>1, <3>2 DEF Holds, Refundable
    <2>6. Locked'
      BY <1>1, <1>2, <2>5 DEF Locked
    <2> QED
      BY <2>2, <2>4, <2>6 DEF IInv
  <1> QED
    BY <1>1, <1>4, <1>5

\* Refunds whose rows change while the notes and the requests do not.
LEMMA RefundsKeep ==
  ASSUME IInv, UNCHANGED <<goods, accounts, payments, notes, cash, job>>,
         refunds' \in Seq(Refund), DOMAIN refunds \subseteq DOMAIN refunds',
         \A k \in DOMAIN refunds' : refunds'[k].note \in DOMAIN notes,
         \A k \in DOMAIN refunds :
           /\ refunds'[k].note = refunds[k].note /\ refunds'[k].amount = refunds[k].amount
           /\ refunds[k].status # "COMPLETED" => refunds'[k].status # "COMPLETED"
           /\ refunds[k].status = "APPROVED" => refunds'[k].status = "APPROVED"
  PROVE  IInv'
  <1>1. Rows'
    BY DEF IInv, Rows, goods
  <1>2. NothingOverdrawn' /\ AllocatedLater'
    BY DEF IInv, NothingOverdrawn, AllocatedLater
  <1>3. \A v \in Workers : Holds(v)'
    BY DEF IInv, Locked, Holds, Refundable
  <1>4. Locked'
    BY <1>3 DEF IInv, Locked
  <1> QED
    BY <1>1, <1>2, <1>4 DEF IInv

\* A refund is drafted for what is left of a note.
LEMMA CreateRefundKeeps ==
  ASSUME IInv, NEW w \in Workers, NEW n \in DOMAIN notes, CreateRefund(w, n)
  PROVE  IInv'
  <1> DEFINE refund == [note |-> n, amount |-> Remaining(notes[n]), status |-> "DRAFT",
                        account |-> FALSE]
  <1>1. /\ Remaining(notes[n]) > 0
        /\ refunds' = Append(refunds, refund)
        /\ UNCHANGED <<goods, accounts, payments, notes, cash, job>>
    BY DEF CreateRefund
  <1>2. notes[n] \in Note /\ notes[n].amount \in Nat /\ n \in Nat
    BY RowTypes DEF IInv, Note
  <1>3. Remaining(notes[n]) \in Int /\ Remaining(notes[n]) <= notes[n].amount
    BY <1>2 DEF Note, Remaining
  <1>4. Remaining(notes[n]) \in Amounts
    <2>1. notes[n].amount \in Amounts
      BY <1>2 DEF Note
    <2> QED
      BY <1>1, <1>3, <2>1, AmountsClosed
  <1>5. refund \in Refund /\ refund.note = n
    BY <1>2, <1>4 DEF Refund, RefundStatus
  <1>6. /\ refunds' \in Seq(Refund) /\ DOMAIN refunds' = DOMAIN refunds \cup {Len(refunds) + 1}
        /\ \A k \in DOMAIN refunds : refunds'[k] = refunds[k]
        /\ refunds'[Len(refunds) + 1] = refund
    <2> HIDE DEF refund
    <2> QED
      BY <1>1, <1>5, RowMade DEF IInv, Rows
  <1>7. \A k \in DOMAIN refunds' : refunds'[k].note \in DOMAIN notes
    <2> HIDE DEF refund
    <2> QED
      BY <1>5, <1>6 DEF IInv, Rows
  <1> HIDE DEF refund
  <1> QED
    BY <1>1, <1>6, <1>7, RefundsKeep

\* A refund that takes another status.
LEMMA RefundMoved ==
  ASSUME IInv, NEW w, NEW kind, NEW k \in DOMAIN refunds, NEW from, NEW to \in RefundStatus,
         MoveRefund(w, kind, k, from, to)
  PROVE  /\ refunds[k].status = from
         /\ refunds' \in Seq(Refund) /\ DOMAIN refunds' = DOMAIN refunds
         /\ \A i \in DOMAIN refunds : refunds'[i] = IF i = k THEN [refunds[k] EXCEPT !.status = to]
                                                    ELSE refunds[i]
         /\ refunds'[k].note = refunds[k].note /\ refunds'[k].amount = refunds[k].amount
         /\ refunds'[k].account = refunds[k].account /\ refunds'[k].status = to
         /\ UNCHANGED <<goods, accounts, payments, notes, cash, job>>
  <1>1. /\ refunds[k].status = from
        /\ refunds' = [refunds EXCEPT ![k].status = to]
        /\ UNCHANGED <<goods, accounts, payments, notes, cash, job>>
    BY DEF MoveRefund
  <1>2. DOMAIN refunds' = DOMAIN refunds
    BY <1>1
  <1>3. \A i \in DOMAIN refunds : refunds'[i] = IF i = k THEN [refunds[k] EXCEPT !.status = to]
                                                ELSE refunds[i]
    BY <1>1
  <1>4. \A i \in DOMAIN refunds : refunds[i] \in Refund
    BY RowTypes DEF IInv
  <1>5. \A i \in DOMAIN refunds : refunds'[i] \in Refund
    BY <1>3, <1>4 DEF Refund
  <1>6. refunds' \in [DOMAIN refunds -> Refund]
    BY <1>1, <1>5
  <1>7. refunds' \in Seq(Refund)
    BY <1>6, RowsKept DEF IInv, Rows
  <1>8. /\ refunds'[k].note = refunds[k].note /\ refunds'[k].amount = refunds[k].amount
        /\ refunds'[k].account = refunds[k].account /\ refunds'[k].status = to
    BY <1>3, <1>4 DEF Refund
  <1> QED
    BY <1>1, <1>2, <1>3, <1>7, <1>8

\* A refund is submitted or approved.
LEMMA MoveRefundKeeps ==
  ASSUME IInv, NEW w \in Workers, NEW k \in DOMAIN refunds,
         SubmitRefund(w, k) \/ ApproveRefund(w, k)
  PROVE  IInv'
  <1>1. PICK kind, from, to :
          /\ MoveRefund(w, kind, k, from, to)
          /\ to \in RefundStatus \ {"COMPLETED"} /\ from # "APPROVED"
    BY DEF SubmitRefund, ApproveRefund, RefundStatus
  <1>2. /\ refunds[k].status = from
        /\ refunds' \in Seq(Refund) /\ DOMAIN refunds' = DOMAIN refunds
        /\ \A i \in DOMAIN refunds : refunds'[i] = IF i = k THEN [refunds[k] EXCEPT !.status = to]
                                                   ELSE refunds[i]
        /\ refunds'[k].note = refunds[k].note /\ refunds'[k].amount = refunds[k].amount
        /\ refunds'[k].status = to
        /\ UNCHANGED <<goods, accounts, payments, notes, cash, job>>
    BY <1>1, RefundMoved
  <1>3. \A i \in DOMAIN refunds :
          /\ refunds'[i].note = refunds[i].note /\ refunds'[i].amount = refunds[i].amount
          /\ refunds[i].status # "COMPLETED" => refunds'[i].status # "COMPLETED"
          /\ refunds[i].status = "APPROVED" => refunds'[i].status = "APPROVED"
    BY <1>1, <1>2
  <1>4. \A i \in DOMAIN refunds' : refunds'[i].note \in DOMAIN notes
    BY <1>2, <1>3, RowTypes DEF IInv
  <1> QED
    BY <1>2, <1>3, <1>4, RefundsKeep

\* A refund and its note are locked.
LEMMA LockRefundKeeps ==
  ASSUME IInv, NEW w \in Workers, NEW k \in DOMAIN refunds, LockRefund(w, k)
  PROVE  IInv'
  <1> DEFINE ns == {refunds[k].note}
             j == [Idle EXCEPT !.kind = "execute_refund", !.number = k,
                               !.qty = refunds[k].amount, !.notes = ns, !.drafts = DraftsOf(ns)]
  <1>1. /\ job' = [job EXCEPT ![w] = j] /\ NotesFree(ns)
        /\ refunds[k].status = "APPROVED" /\ Refundable(k)
        /\ UNCHANGED <<goods, accounts, payments, notes, refunds, cash>>
    BY DEF LockRefund
  <1>2. /\ j.kind = "execute_refund" /\ j.number = k /\ j.qty = refunds[k].amount
        /\ j.notes = ns /\ j.drafts = DraftsOf(ns)
    BY DEF Idle
  <1>3. DraftsOf(ns) \subseteq DOMAIN refunds /\ k \notin DraftsOf(ns)
    BY <1>1 DEF DraftsOf
  <1>4. refunds[k].amount \in Nat /\ refunds[k].note \in DOMAIN notes /\ k \in Nat
        /\ DOMAIN notes \in SUBSET Nat /\ DOMAIN refunds \in SUBSET Nat
    BY RowTypes DEF IInv, Refund
  <1>5. j \in Job
    BY <1>3, <1>4 DEF Idle, Job
  <1> HIDE DEF j
  <1>6. job' \in [Workers -> Job] /\ job'[w] = j /\ \A v \in Workers \ {w} : job'[v] = job[v]
    BY <1>1, <1>5 DEF IInv, Rows
  <1>7. Rows'
    BY <1>1, <1>6 DEF IInv, Rows, goods
  <1>8. NothingOverdrawn' /\ AllocatedLater'
    BY <1>1 DEF IInv, NothingOverdrawn, AllocatedLater
  <1>9. Locked'
    <2>1. \A v \in Workers \ {w} : Holds(v)'
      BY <1>1, <1>6 DEF IInv, Locked, Holds, Refundable
    <2>2. Holds(w)'
      BY <1>1, <1>2, <1>3, <1>4, <1>6 DEF Holds, DraftsOf, Refundable
    <2>3. \A v \in Workers \ {w} : job[v].notes \cap ns = {}
      BY <1>1 DEF NotesFree
    <2>4. ASSUME NEW u \in Workers, NEW v \in Workers, u # v
          PROVE  job'[u].notes \cap job'[v].notes = {}
      BY <1>2, <1>6, <2>3, <2>4 DEF IInv, Locked
    <2> QED
      BY <2>1, <2>2, <2>4 DEF Locked
  <1> QED
    BY <1>7, <1>8, <1>9 DEF IInv

\* What the execution of a refund makes of the notes and the refunds.
LEMMA RefundExecuted ==
  ASSUME IInv, NEW w \in Workers, NEW account \in BOOLEAN, ExecuteRefund(w, account)
  PROVE  LET j == job[w] IN
         /\ j.number \in DOMAIN refunds /\ j.qty \in Amounts
         /\ refunds[j.number].status = "APPROVED" /\ refunds[j.number].amount = j.qty
         /\ j.notes = {refunds[j.number].note} /\ j.notes \subseteq DOMAIN notes
         /\ cash' = IF account THEN cash + j.qty ELSE cash
         /\ Done(w) /\ UNCHANGED <<goods, accounts, payments>>
         /\ notes' \in Seq(Note) /\ DOMAIN notes' = DOMAIN notes
         /\ \A n \in DOMAIN notes : notes'[n] \in Note /\ Remaining(notes'[n]) \in Nat
         /\ \A n \in DOMAIN notes \ j.notes : notes'[n] = notes[n]
         /\ \A n \in j.notes : Remaining(notes'[n]) = Remaining(notes[n]) - j.qty
         /\ refunds' \in Seq(Refund) /\ DOMAIN refunds' = DOMAIN refunds
         /\ \A k \in DOMAIN refunds :
              /\ refunds'[k].note = refunds[k].note
              /\ k # j.number => refunds'[k].account = refunds[k].account
              /\ k \notin j.drafts \cup {j.number} => refunds'[k] = refunds[k]
              /\ k \in j.drafts => /\ refunds'[k].status \in {refunds[k].status, "CANCELLED"}
                                   /\ \/ refunds'[k].status = "CANCELLED"
                                      \/ refunds'[k].amount = Remaining(notes'[refunds'[k].note])
         /\ refunds'[j.number].status = "COMPLETED" /\ refunds'[j.number].amount = j.qty
         /\ refunds'[j.number].account = account
         /\ j.number \notin j.drafts
  <1> DEFINE j    == job[w]
             ns   == j.notes
             qty  == j.qty
             used == [n \in DOMAIN notes |->
                        IF n \in ns THEN [notes[n] EXCEPT !.used = @ + qty] ELSE notes[n]]
             new  == Synced(used, j.drafts)
  <1>1. /\ j.kind = "execute_refund"
        /\ cash' = IF account THEN cash + qty ELSE cash
        /\ notes' = used
        /\ refunds' = [new EXCEPT ![j.number].status = "COMPLETED", ![j.number].account = account]
        /\ Done(w) /\ UNCHANGED <<goods, accounts, payments>>
    BY DEF ExecuteRefund
  <1>2. /\ j.number \in DOMAIN refunds \ j.drafts
        /\ refunds[j.number].status = "APPROVED" /\ refunds[j.number].amount = qty
        /\ ns = {refunds[j.number].note} /\ ns \subseteq DOMAIN notes
        /\ Refundable(j.number)
    BY <1>1 DEF IInv, Locked, Holds
  <1>3. qty \in Amounts /\ qty \in Nat
    BY <1>2, RowTypes DEF IInv, Refund
  <1>4. ASSUME NEW n \in DOMAIN notes
        PROVE  /\ used[n] \in Note /\ Remaining(used[n]) \in Nat
               /\ n \notin ns => used[n] = notes[n]
               /\ n \in ns => Remaining(used[n]) = Remaining(notes[n]) - qty
    <2>1. notes[n] \in Note /\ notes[n].amount \in Nat /\ Remaining(notes[n]) \in Nat
      BY RowTypes DEF IInv, Note, NothingOverdrawn, Remaining
    <2>2. CASE n \notin ns
      BY <2>1, <2>2
    <2>3. CASE n \in ns
      <3>1. used[n] = [notes[n] EXCEPT !.used = notes[n].used + qty]
        BY <2>3
      <3>2. qty <= Remaining(notes[n])
        BY <1>2, <1>3, <2>1, <2>3 DEF Refundable
      <3> HIDE DEF used, qty
      <3>3. used[n].used = notes[n].used + qty /\ used[n].amount = notes[n].amount
        BY <2>1, <3>1 DEF Note
      <3>4. used[n] \in Note
        BY <1>3, <2>1, <3>1 DEF Note
      <3>5. Remaining(used[n]) = Remaining(notes[n]) - qty /\ Remaining(used[n]) \in Nat
        BY <1>3, <2>1, <3>2, <3>3 DEF Note, Remaining
      <3> QED
        BY <2>3, <3>4, <3>5
    <2> QED
      BY <2>2, <2>3
  <1>5. used \in Seq(Note) /\ DOMAIN used = DOMAIN notes
    <2>1. used \in [DOMAIN notes -> Note]
      BY <1>4
    <2> HIDE DEF used
    <2> QED
      BY <2>1, RowsKept DEF IInv, Rows
  <1>6. /\ new \in Seq(Refund) /\ DOMAIN new = DOMAIN refunds
        /\ \A k \in DOMAIN refunds :
             /\ new[k].note = refunds[k].note /\ new[k].account = refunds[k].account
             /\ k \notin j.drafts => new[k] = refunds[k]
             /\ k \in j.drafts => /\ new[k].status \in {refunds[k].status, "CANCELLED"}
                                  /\ \/ new[k].status = "CANCELLED"
                                     \/ new[k].amount = Remaining(used[new[k].note])
    <2> HIDE DEF used, j
    <2> QED
      BY <1>4, <1>5, SyncedRefunds DEF IInv
  <1> DEFINE d == j.number
  <1>7. new[d] = refunds[d] /\ new[d] \in Refund /\ d \in DOMAIN new
    <2> HIDE DEF new, j
    <2> QED
      BY <1>2, <1>6, RowTypes DEF IInv
  <1> HIDE DEF new
  <1>8. /\ DOMAIN refunds' = DOMAIN refunds
        /\ \A k \in DOMAIN refunds \ {d} : refunds'[k] = new[k]
        /\ refunds'[d] = [refunds[d] EXCEPT !.status = "COMPLETED", !.account = account]
    BY <1>1, <1>2, <1>6, <1>7
  <1>9. /\ refunds'[d] \in Refund /\ refunds'[d].note = refunds[d].note
        /\ refunds'[d].amount = refunds[d].amount /\ refunds'[d].status = "COMPLETED"
        /\ refunds'[d].account = account
    BY <1>7, <1>8 DEF Refund, RefundStatus
  <1>10. refunds' \in Seq(Refund)
    <2>1. \A k \in DOMAIN new : new[k] \in Refund
      BY <1>6, RowNumbers
    <2>2. refunds' \in [DOMAIN refunds -> Refund]
      BY <1>1, <1>6, <1>8, <1>9, <2>1
    <2> QED
      BY <2>2, RowsKept DEF IInv, Rows
  <1>11. \A k \in DOMAIN refunds :
              /\ refunds'[k].note = refunds[k].note
              /\ k # d => refunds'[k].account = refunds[k].account
              /\ k \notin j.drafts \cup {d} => refunds'[k] = refunds[k]
              /\ k \in j.drafts => /\ refunds'[k].status \in {refunds[k].status, "CANCELLED"}
                                   /\ \/ refunds'[k].status = "CANCELLED"
                                      \/ refunds'[k].amount = Remaining(notes'[refunds'[k].note])
    <2> HIDE DEF used
    <2> QED
      BY <1>1, <1>2, <1>6, <1>8, <1>9
  <1> HIDE DEF used
  <1> QED
    BY <1>1, <1>2, <1>3, <1>4, <1>5, <1>8, <1>9, <1>10, <1>11

\* A refund uses up part of its note.
LEMMA ExecuteRefundKeeps ==
  ASSUME IInv, NEW w \in Workers, NEW account \in BOOLEAN, ExecuteRefund(w, account)
  PROVE  IInv'
  <1> DEFINE ns == job[w].notes
             drafts == job[w].drafts
  <1>1. /\ cash' = (IF account THEN cash + job[w].qty ELSE cash) /\ job[w].qty \in Amounts
        /\ Done(w) /\ UNCHANGED <<goods, accounts, payments>>
        /\ notes' \in Seq(Note) /\ DOMAIN notes' = DOMAIN notes
        /\ \A n \in DOMAIN notes : notes'[n] \in Note /\ Remaining(notes'[n]) \in Nat
        /\ \A n \in DOMAIN notes \ ns : notes'[n] = notes[n]
        /\ refunds' \in Seq(Refund) /\ DOMAIN refunds' = DOMAIN refunds
        /\ \A k \in DOMAIN refunds :
             /\ refunds'[k].note = refunds[k].note
             /\ k \notin drafts \cup {job[w].number} => refunds'[k] = refunds[k]
        /\ ns = {refunds[job[w].number].note}
    BY RefundExecuted
  <1>2. \A k \in drafts : refunds[k].note \in ns
    BY DEF IInv, Locked, Holds
  <1>3. \A k \in DOMAIN refunds : refunds[k].note \notin ns => refunds'[k] = refunds[k]
    BY <1>1, <1>2
  <1>4. /\ Locked' /\ job' \in [Workers -> Job]
        /\ \A k \in DOMAIN refunds' : refunds'[k].note \in DOMAIN notes'
        /\ \A n \in DOMAIN notes' : Remaining(notes'[n]) >= 0
    BY <1>1, <1>3, CreditKeeps
  <1>5. Rows'
    <2>1. cash' \in Nat
      BY <1>1, RowTypes DEF IInv, Rows
    <2> QED
      BY <1>1, <1>4, <2>1 DEF IInv, Rows, goods
  <1>6. NothingOverdrawn' /\ AllocatedLater'
    BY <1>1, <1>4 DEF IInv, NothingOverdrawn, AllocatedLater
  <1> QED
    BY <1>4, <1>5, <1>6 DEF IInv

\* Payments whose rows change while the credit and who holds it do not.
LEMMA PaymentsKeep ==
  ASSUME IInv, UNCHANGED <<goods, notes, refunds>>,
         cash' \in Nat,
         accounts' \in Seq(Account), payments' \in Seq(Payment),
         \A i \in DOMAIN accounts' : Unpaid(accounts'[i]) >= 0,
         \A p \in DOMAIN payments' : Unallocated(payments'[p]) >= 0,
         AllocatedLater', job' = job
  PROVE  IInv'
  <1>1. Rows'
    BY DEF IInv, Rows, goods
  <1>2. NothingOverdrawn'
    BY DEF IInv, NothingOverdrawn
  <1>3. Locked'
    BY LockedStays DEF IInv
  <1> QED
    BY <1>1, <1>2, <1>3 DEF IInv

\* A payment is drafted.
LEMMA CreatePaymentKeeps ==
  ASSUME IInv, NEW w \in Workers, NEW amount \in Amounts, NEW account \in BOOLEAN,
         CreatePayment(w, amount, account)
  PROVE  IInv'
  <1> DEFINE payment == [amount |-> amount, allocated |-> 0, status |-> "DRAFT",
                         account |-> account, executed |-> FALSE]
  <1>1. payments' = Append(payments, payment)
        /\ UNCHANGED <<goods, accounts, notes, refunds, cash, job>>
    BY DEF CreatePayment
  <1>2. /\ payment \in Payment /\ payment.allocated = 0 /\ payment.amount = amount
        /\ amount \in Nat
    BY RowTypes DEF IInv, Payment, PaymentStatus
  <1>3. /\ payments' \in Seq(Payment)
        /\ DOMAIN payments' = DOMAIN payments \cup {Len(payments) + 1}
        /\ \A p \in DOMAIN payments : payments'[p] = payments[p]
        /\ payments'[Len(payments) + 1] = payment
    <2> HIDE DEF payment
    <2> QED
      BY <1>1, <1>2, RowMade DEF IInv, Rows
  <1>4. Unallocated(payment) >= 0
    <2> HIDE DEF payment
    <2> QED
      BY <1>2 DEF Unallocated
  <1> HIDE DEF payment
  <1>5. \A p \in DOMAIN payments' : Unallocated(payments'[p]) >= 0
    BY <1>3, <1>4 DEF IInv, NothingOverdrawn
  <1>6. AllocatedLater'
    BY <1>2, <1>3 DEF IInv, AllocatedLater
  <1>7. accounts' \in Seq(Account) /\ cash' \in Nat
        /\ \A i \in DOMAIN accounts' : Unpaid(accounts'[i]) >= 0
    BY <1>1 DEF IInv, Rows, NothingOverdrawn
  <1> QED
    BY <1>1, <1>3, <1>5, <1>6, <1>7, PaymentsKeep

\* A payment of which only the status or the flag of its execution changes.
LEMMA PaymentChanged ==
  ASSUME IInv, NEW p, NEW status \in PaymentStatus, NEW executed \in BOOLEAN,
         p \in DOMAIN payments /\ payments[p].executed => executed,
         \/ payments' = [payments EXCEPT ![p].status = status]
         \/ payments' = [payments EXCEPT ![p].executed = executed]
  PROVE  /\ payments' \in Seq(Payment) /\ DOMAIN payments' = DOMAIN payments
         /\ \A i \in DOMAIN payments :
              /\ payments'[i].amount = payments[i].amount
              /\ payments'[i].allocated = payments[i].allocated
              /\ payments'[i].account = payments[i].account
              /\ payments[i].executed => payments'[i].executed
              /\ i # p => payments'[i] = payments[i]
         /\ \A i \in DOMAIN payments' : Unallocated(payments'[i]) >= 0
         /\ AllocatedLater'
  <1>1. \A i \in DOMAIN payments : payments[i] \in Payment
    BY RowTypes DEF IInv
  <1>2. DOMAIN payments' = DOMAIN payments
    OBVIOUS
  <1>3. ASSUME NEW i \in DOMAIN payments
        PROVE  /\ payments'[i] \in Payment
               /\ payments'[i].amount = payments[i].amount
               /\ payments'[i].allocated = payments[i].allocated
               /\ payments'[i].account = payments[i].account
               /\ payments[i].executed => payments'[i].executed
               /\ i # p => payments'[i] = payments[i]
    <2>1. CASE i # p
      BY <1>1, <2>1
    <2>2. CASE i = p /\ payments' = [payments EXCEPT ![p].status = status]
      <3>1. payments'[i] = [payments[i] EXCEPT !.status = status]
        BY <2>2
      <3> QED
        BY <1>1, <2>2, <3>1 DEF Payment
    <2>3. CASE i = p /\ payments' = [payments EXCEPT ![p].executed = executed]
      <3>1. payments'[i] = [payments[i] EXCEPT !.executed = executed]
        BY <2>3
      <3>2. payments'[i].executed = executed
        BY <1>1, <3>1 DEF Payment
      <3>3. payments[i].executed => payments'[i].executed
        BY <2>3, <3>2
      <3> QED
        BY <1>1, <2>3, <3>1, <3>3 DEF Payment
    <2> QED
      BY <2>1, <2>2, <2>3
  <1>4. payments' \in [DOMAIN payments -> Payment]
    BY <1>3
  <1>5. payments' \in Seq(Payment)
    BY <1>4, RowsKept DEF IInv, Rows
  <1>6. \A i \in DOMAIN payments' : Unallocated(payments'[i]) >= 0
    BY <1>2, <1>3 DEF IInv, NothingOverdrawn, Unallocated
  <1>7. AllocatedLater'
    BY <1>2, <1>3 DEF IInv, AllocatedLater
  <1> QED
    BY <1>2, <1>3, <1>5, <1>6, <1>7

\* get_object of a payment.
LEMMA LoadPaymentKeeps ==
  ASSUME IInv, NEW w \in Workers, NEW p \in DOMAIN payments, LoadPayment(w, p)
  PROVE  IInv'
  <1> DEFINE j == [Idle EXCEPT !.kind = "submit_payment", !.number = p]
  <1>1. /\ job' = [job EXCEPT ![w] = j] /\ job[w] = Idle
        /\ UNCHANGED <<goods, accounts, payments, notes, refunds, cash>>
    BY DEF LoadPayment, MayStart
  <1>2. j.kind = "submit_payment" /\ j.notes = {} /\ j.drafts = {}
    BY DEF Idle
  <1>3. p \in Nat
    BY RowNumbers DEF IInv, Rows
  <1>4. j \in Job
    BY <1>3 DEF Idle, Job
  <1> HIDE DEF j
  <1>5. job' \in [Workers -> Job] /\ job'[w] = j /\ \A v \in Workers \ {w} : job'[v] = job[v]
    BY <1>1, <1>4 DEF IInv, Rows
  <1>6. Rows'
    BY <1>1, <1>5 DEF IInv, Rows, goods
  <1>7. NothingOverdrawn' /\ AllocatedLater'
    BY <1>1 DEF IInv, NothingOverdrawn, AllocatedLater
  <1>8. Locked'
    <2>1. \A v \in Workers \ {w} : Holds(v)'
      BY <1>1, <1>5 DEF IInv, Locked, Holds, Refundable
    <2>2. Holds(w)'
      BY <1>2, <1>5 DEF Holds
    <2>3. ASSUME NEW u \in Workers, NEW v \in Workers, u # v
          PROVE  job'[u].notes \cap job'[v].notes = {}
      BY <1>2, <1>5, <2>3 DEF IInv, Locked
    <2> QED
      BY <2>1, <2>2, <2>3 DEF Locked
  <1> QED
    BY <1>6, <1>7, <1>8 DEF IInv

\* A request that is done leaves the credit as it was.
LEMMA ReleaseKeeps ==
  ASSUME IInv, NEW w \in Workers, Done(w), UNCHANGED <<goods, accounts, notes, refunds, cash>>,
         payments' \in Seq(Payment),
         \A p \in DOMAIN payments' : Unallocated(payments'[p]) >= 0,
         AllocatedLater'
  PROVE  IInv'
  <1>1. /\ job' \in [Workers -> Job]
        /\ job'[w] = Idle /\ \A v \in Workers \ {w} : job'[v] = job[v]
    BY DoneIdles DEF IInv
  <1>2. Rows'
    BY <1>1 DEF IInv, Rows, goods
  <1>3. NothingOverdrawn'
    BY DEF IInv, NothingOverdrawn
  <1>4. Locked'
    <2>1. \A v \in Workers \ {w} : Holds(v)'
      BY <1>1 DEF IInv, Locked, Holds, Refundable
    <2>2. Holds(w)'
      BY <1>1, IdleIsAJob DEF Holds
    <2>3. ASSUME NEW u \in Workers, NEW v \in Workers, u # v
          PROVE  job'[u].notes \cap job'[v].notes = {}
      BY <1>1, <2>3, IdleIsAJob DEF IInv, Locked
    <2> QED
      BY <2>1, <2>2, <2>3 DEF Locked
  <1> QED
    BY <1>2, <1>3, <1>4 DEF IInv

\* It is submitted on the strength of what was loaded.
LEMMA SubmitPaymentKeeps ==
  ASSUME IInv, NEW w \in Workers, NEW approval \in Approval, SubmitPayment(w, approval)
  PROVE  IInv'
  <1> DEFINE p == job[w].number
             status == IF approval THEN "PENDING_APPROVAL" ELSE "APPROVED"
  <1>1. payments' = [payments EXCEPT ![p].status = status] /\ Done(w)
        /\ UNCHANGED <<goods, accounts, notes, refunds, cash>>
    BY DEF SubmitPayment
  <1>2. status \in PaymentStatus
    BY DEF PaymentStatus
  <1> HIDE DEF p, status
  <1>3. /\ payments' \in Seq(Payment)
        /\ \A i \in DOMAIN payments' : Unallocated(payments'[i]) >= 0
        /\ AllocatedLater'
    BY <1>1, <1>2, PaymentChanged
  <1> QED
    BY <1>1, <1>3, ReleaseKeeps

\* It is approved, under the lock.
LEMMA ApprovePaymentKeeps ==
  ASSUME IInv, NEW w \in Workers, NEW p \in DOMAIN payments, ApprovePayment(w, p)
  PROVE  IInv'
  <1>1. payments' = [payments EXCEPT ![p].status = "APPROVED"]
        /\ UNCHANGED <<goods, accounts, notes, refunds, cash, job>>
    BY DEF ApprovePayment
  <1>2. "APPROVED" \in PaymentStatus
    BY DEF PaymentStatus
  <1>3. /\ payments' \in Seq(Payment)
        /\ \A i \in DOMAIN payments' : Unallocated(payments'[i]) >= 0
        /\ AllocatedLater'
    BY <1>1, <1>2, PaymentChanged
  <1>4. accounts' \in Seq(Account) /\ cash' \in Nat
        /\ \A i \in DOMAIN accounts' : Unpaid(accounts'[i]) >= 0
    BY <1>1 DEF IInv, Rows, NothingOverdrawn
  <1> QED
    BY <1>1, <1>3, <1>4, PaymentsKeep

\* It is executed, under the lock.
LEMMA ExecutePaymentKeeps ==
  ASSUME IInv, NEW w \in Workers, NEW p \in DOMAIN payments, ExecutePayment(w, p)
  PROVE  IInv'
  <1>1. payments' = [payments EXCEPT ![p].executed = TRUE] /\ Affords(p)
        /\ cash' = (IF payments[p].account THEN cash - payments[p].amount ELSE cash)
        /\ UNCHANGED <<goods, accounts, notes, refunds, job>>
    BY DEF ExecutePayment
  <1>2. "APPROVED" \in PaymentStatus
    BY DEF PaymentStatus
  <1>3. /\ payments' \in Seq(Payment)
        /\ \A i \in DOMAIN payments' : Unallocated(payments'[i]) >= 0
        /\ AllocatedLater'
    BY <1>1, <1>2, PaymentChanged
  <1>4. payments[p].amount \in Nat /\ cash \in Nat
    BY RowTypes DEF IInv, Payment, Rows
  <1>5. cash' \in Nat
    BY <1>1, <1>4 DEF Affords
  <1>6. accounts' \in Seq(Account) /\ \A i \in DOMAIN accounts' : Unpaid(accounts'[i]) >= 0
    BY <1>1 DEF IInv, Rows, NothingOverdrawn
  <1> QED
    BY <1>1, <1>3, <1>5, <1>6, PaymentsKeep

\* What a request to allocate makes of the payables and of the payment.
LEMMA Allocated ==
  ASSUME IInv, NEW w \in Workers, NEW p \in DOMAIN payments,
         NEW is \in SUBSET DOMAIN accounts, NEW partial, NEW share \in [is -> Amounts],
         AllocatePayment(w, p, share, partial)
  PROVE  /\ IsFiniteSet(is) /\ share \in [is -> Nat] /\ Together(share) \in Nat
         /\ UNCHANGED <<goods, notes, refunds, cash, job>>
         /\ accounts' \in Seq(Account) /\ DOMAIN accounts' = DOMAIN accounts
         /\ \A i \in DOMAIN accounts :
              /\ i \notin is => accounts'[i] = accounts[i]
              /\ i \in is => /\ accounts'[i].paid = accounts[i].paid + share[i]
                             /\ Unpaid(accounts'[i]) = Unpaid(accounts[i]) - share[i]
              /\ Unpaid(accounts'[i]) >= 0
         /\ payments[p].executed
         /\ payments' \in Seq(Payment) /\ DOMAIN payments' = DOMAIN payments
         /\ \A i \in DOMAIN payments \ {p} : payments'[i] = payments[i]
         /\ payments'[p].amount = payments[p].amount
         /\ payments'[p].allocated = payments[p].allocated + Together(share)
         /\ payments'[p].account = payments[p].account /\ payments'[p].executed
         /\ payments'[p].status \in {payments[p].status, "COMPLETED"}
         /\ Unallocated(payments'[p]) >= 0
  <1> DEFINE t == Together(share)
  <1>1. /\ payments[p].executed
        /\ t <= Unallocated(payments[p])
        /\ \A i \in is : share[i] <= Unpaid(accounts[i])
        /\ accounts' = [i \in DOMAIN accounts |->
                          IF i \in is THEN [accounts[i] EXCEPT !.paid = @ + share[i]]
                          ELSE accounts[i]]
        /\ payments' = [payments EXCEPT ![p].allocated = payments[p].allocated + t,
                          ![p].status = IF payments[p].allocated + t >= payments[p].amount
                                        THEN "COMPLETED" ELSE @]
        /\ UNCHANGED <<goods, notes, refunds, cash, job>>
    BY DEF AllocatePayment
  <1>2. IsFiniteSet(is) /\ share \in [is -> Nat]
    BY RowNumbers, FS_Subset, RowTypes DEF IInv, Rows
  <1>3. t \in Nat
    BY <1>2, SumType DEF Together
  <1>4. ASSUME NEW i \in DOMAIN accounts
        PROVE  /\ accounts'[i] \in Account
               /\ i \notin is => accounts'[i] = accounts[i]
               /\ i \in is => /\ accounts'[i].paid = accounts[i].paid + share[i]
                              /\ Unpaid(accounts'[i]) = Unpaid(accounts[i]) - share[i]
               /\ Unpaid(accounts'[i]) >= 0
    <2>1. accounts[i] \in Account /\ Unpaid(accounts[i]) >= 0
      BY RowTypes DEF IInv, NothingOverdrawn
    <2>2. CASE i \notin is
      BY <1>1, <2>1, <2>2
    <2>3. CASE i \in is
      <3> DEFINE x == share[i]
      <3>1. accounts'[i] = [accounts[i] EXCEPT !.paid = accounts[i].paid + x]
        BY <1>1, <2>3
      <3>2. x \in Nat /\ x <= Unpaid(accounts[i])
        BY <1>1, <1>2, <2>3
      <3> HIDE DEF x
      <3>3. accounts'[i].paid = accounts[i].paid + x /\ accounts'[i].total = accounts[i].total
        BY <2>1, <3>1 DEF Account
      <3>4. accounts'[i] \in Account
        BY <2>1, <3>1, <3>2 DEF Account
      <3>5. Unpaid(accounts'[i]) = Unpaid(accounts[i]) - x /\ Unpaid(accounts'[i]) >= 0
        BY <2>1, <3>2, <3>3 DEF Account, Unpaid
      <3> QED
        BY <2>3, <3>3, <3>4, <3>5 DEF x
    <2> QED
      BY <2>2, <2>3
  <1>5. accounts' \in Seq(Account) /\ DOMAIN accounts' = DOMAIN accounts
    <2>1. accounts' \in [DOMAIN accounts -> Account]
      BY <1>1, <1>4
    <2> QED
      BY <2>1, RowsKept DEF IInv, Rows
  <1>6. payments[p] \in Payment
    BY RowTypes DEF IInv
  <1> DEFINE s == IF payments[p].allocated + t >= payments[p].amount THEN "COMPLETED"
                  ELSE payments[p].status
  <1>7. /\ payments'[p] = [payments[p] EXCEPT !.allocated = payments[p].allocated + t,
                                              !.status = s]
        /\ \A i \in DOMAIN payments \ {p} : payments'[i] = payments[i]
        /\ DOMAIN payments' = DOMAIN payments
    <2> HIDE DEF t
    <2> QED
      BY <1>1
  <1>8. s \in PaymentStatus /\ s \in {payments[p].status, "COMPLETED"}
    BY <1>6 DEF Payment, PaymentStatus
  <1> HIDE DEF s, t
  <1>9. /\ payments'[p] \in Payment
        /\ payments'[p].amount = payments[p].amount
        /\ payments'[p].allocated = payments[p].allocated + t
        /\ payments'[p].account = payments[p].account
        /\ payments'[p].executed = payments[p].executed
        /\ payments'[p].status = s
    <2> DEFINE a == payments[p].allocated + t
    <2>1. payments'[p] = [payments[p] EXCEPT !.allocated = a, !.status = s]
      BY <1>7
    <2>2. a \in Nat
      BY <1>3, <1>6 DEF Payment
    <2> HIDE DEF a
    <2>3. payments'[p] \in Payment
      BY <1>6, <1>8, <2>1, <2>2 DEF Payment
    <2>4. /\ payments'[p].amount = payments[p].amount
          /\ payments'[p].allocated = a
          /\ payments'[p].account = payments[p].account
          /\ payments'[p].executed = payments[p].executed
          /\ payments'[p].status = s
      BY <1>6, <2>1 DEF Payment
    <2> QED
      BY <2>3, <2>4 DEF a
  <1>10. Unallocated(payments'[p]) >= 0
    <2>1. payments[p].amount \in Nat
      BY <1>6, RowTypes DEF IInv, Payment
    <2> QED
      BY <1>1, <1>3, <1>6, <1>9, <2>1 DEF Unallocated, Payment
  <1>11. payments' \in Seq(Payment)
    <2>1. \A i \in DOMAIN payments : payments'[i] \in Payment
      BY <1>7, <1>9, RowTypes DEF IInv
    <2>2. payments' \in [DOMAIN payments -> Payment]
      BY <1>1, <1>7, <2>1
    <2> QED
      BY <2>2, RowsKept DEF IInv, Rows
  <1> QED
    BY <1>1, <1>2, <1>3, <1>4, <1>5, <1>7, <1>8, <1>9, <1>10, <1>11 DEF t

\* It is written off accounts.
LEMMA AllocatePaymentKeeps ==
  ASSUME IInv, NEW w \in Workers, NEW p \in DOMAIN payments,
         NEW is \in SUBSET DOMAIN accounts, NEW partial, NEW share \in [is -> Amounts],
         AllocatePayment(w, p, share, partial)
  PROVE  IInv'
  <1>1. /\ UNCHANGED <<goods, notes, refunds, cash, job>>
        /\ accounts' \in Seq(Account) /\ DOMAIN accounts' = DOMAIN accounts
        /\ \A i \in DOMAIN accounts : Unpaid(accounts'[i]) >= 0
        /\ payments' \in Seq(Payment) /\ DOMAIN payments' = DOMAIN payments
        /\ \A i \in DOMAIN payments \ {p} : payments'[i] = payments[i]
        /\ payments'[p].executed
        /\ Unallocated(payments'[p]) >= 0
    BY Allocated
  <1>2. /\ \A i \in DOMAIN payments' : Unallocated(payments'[i]) >= 0
        /\ AllocatedLater'
    BY <1>1 DEF IInv, NothingOverdrawn, AllocatedLater
  <1>3. cash' \in Nat
    BY <1>1 DEF IInv, Rows
  <1> QED
    BY <1>1, <1>2, <1>3, PaymentsKeep

\* A request that is given up changes nothing.
LEMMA AbortKeeps ==
  ASSUME IInv, NEW w \in Workers, Abort(w)
  PROVE  IInv'
  <1>1. Done(w) /\ UNCHANGED <<goods, accounts, payments, notes, refunds, cash>>
    BY DEF Abort
  <1>2. /\ payments' \in Seq(Payment)
        /\ \A p \in DOMAIN payments' : Unallocated(payments'[p]) >= 0
        /\ AllocatedLater'
    BY <1>1 DEF IInv, Rows, NothingOverdrawn, AllocatedLater
  <1> QED
    BY <1>1, <1>2, ReleaseKeeps

\* Every step keeps the invariant.
LEMMA NextHolds == IInv /\ [Next]_vars => IInv'
  <1> SUFFICES ASSUME IInv, [Next]_vars PROVE IInv'
    OBVIOUS
  <1>1. CASE UNCHANGED vars
    BY <1>1 DEF vars, goods, IInv, Rows, NothingOverdrawn, AllocatedLater, Locked, Holds,
                Refundable
  <1>2. ASSUME NEW w \in Workers, GoodsStep(w)
        PROVE  IInv'
    BY <1>2, LockNotesKeeps, ReverseKeeps, GenerateKeeps DEF GoodsStep
  <1>3. ASSUME NEW w \in Workers, RefundStep(w)
        PROVE  IInv'
    BY <1>3, CreateRefundKeeps, MoveRefundKeeps, LockRefundKeeps, ExecuteRefundKeeps
       DEF RefundStep
  <1>4. ASSUME NEW w \in Workers, PaymentStep(w)
        PROVE  IInv'
    <2>1. CASE \E amount \in Amounts, account \in BOOLEAN : CreatePayment(w, amount, account)
      BY <2>1, CreatePaymentKeeps
    <2>2. CASE \E approval \in Approval : SubmitPayment(w, approval)
      BY <2>2, SubmitPaymentKeeps
    <2>3. ASSUME NEW p \in DOMAIN payments,
                 LoadPayment(w, p) \/ ApprovePayment(w, p) \/ ExecutePayment(w, p)
          PROVE  IInv'
      BY <2>3, LoadPaymentKeeps, ApprovePaymentKeeps, ExecutePaymentKeeps
    <2>4. ASSUME NEW p \in DOMAIN payments, NEW is \in (SUBSET DOMAIN accounts) \ {{}},
                 NEW partial \in Partial, NEW share \in [is -> Amounts],
                 AllocatePayment(w, p, share, partial)
          PROVE  IInv'
      BY <2>4, AllocatePaymentKeeps
    <2> QED
      BY <1>4, <2>1, <2>2, <2>3, <2>4 DEF PaymentStep
  <1>5. ASSUME NEW w \in Workers, Abort(w)
        PROVE  IInv'
    BY <1>5, AbortKeeps
  <1> QED
    BY <1>1, <1>2, <1>3, <1>4, <1>5 DEF Next

\* The invariant holds throughout.
LEMMA IInvHolds == Spec => []IInv
  BY InitHolds, NextHolds, PTL DEF Spec

(***************************************************************************)
(* Whatever requests overlap, the rows keep their types and nothing is     *)
(* used beyond what it is: not a payable beyond its total, though returns  *)
(* lower it, nor a payment or a credit note beyond its amount.             *)
(***************************************************************************)
THEOREM NeverOverdrawn == Spec => [](TypeOK /\ NothingOverdrawn)
  <1>1. IInv => TypeOK /\ NothingOverdrawn
    <2> SUFFICES ASSUME IInv PROVE TypeOK
      BY DEF IInv
    <2>1. \A n \in DOMAIN notes : notes[n] \in [amount : Nat \ {0}, used : Nat]
      BY RowTypes DEF IInv, Note
    <2>2. \A k \in DOMAIN refunds :
            refunds[k] \in [note : DOMAIN notes, amount : Nat \ {0}, status : RefundStatus,
                            account : BOOLEAN]
      BY RowTypes DEF IInv, Refund
    <2> QED
      BY <2>1, <2>2, RowTypes DEF IInv, Rows, TypeOK, Account, Payment
  <1> QED
    BY <1>1, IInvHolds, PTL

-----------------------------------------------------------------------------
(* What the tables come to. *)

\* The columns of the tables.
Due      == [a \in Account |-> Unpaid(a)]
Settled  == [a \in Account |-> a.paid]
Left     == [n \in Note |-> Remaining(n)]
Refunded == [r \in Refund |-> RefundedBy(r)]
Income   == [r \in Refund |-> IF r.account THEN RefundedBy(r) ELSE 0]
Settling == [p \in Payment |-> p.allocated]
Open     == [p \in Payment |-> IF p.executed THEN Unallocated(p) ELSE 0]
Spent    == [p \in Payment |-> IF p.executed THEN p.amount ELSE 0]
Outlay   == [p \in Payment |-> IF p.executed /\ p.account THEN p.amount ELSE 0]

\* Goods, payable and cash as the ledger has them, and two differences that never change.
Goods     == SumFunction([o \in Orders |-> received[o] - returned[o]])
Payable   == Column(notes, Left) - Column(accounts, Due) + Column(payments, Open)
CashMoved == Column(refunds, Refunded) - Column(payments, Spent)
CashGap   == cash + Column(payments, Outlay) - Column(refunds, Income)
SettleGap == Column(accounts, Settled) - Column(payments, Settling)

\* The books after the step: by how much goods, payable and cash are others.
BooksMove(g, p, c) ==
  /\ Goods' = Goods + g /\ Payable' = Payable + p /\ CashMoved' = CashMoved + c
  /\ CashGap' = CashGap /\ SettleGap' = SettleGap

\* The columns are numbers.
LEMMA Columns ==
  /\ IsColumn(Due, Account) /\ IsColumn(Settled, Account) /\ IsColumn(Left, Note)
  /\ IsColumn(Refunded, Refund) /\ IsColumn(Income, Refund)
  /\ IsColumn(Settling, Payment) /\ IsColumn(Open, Payment)
  /\ IsColumn(Spent, Payment) /\ IsColumn(Outlay, Payment)
  <1>1. \A n \in Amounts : n \in Int
    BY PayablesAssumption
  <1>2. IsColumn(Due, Account) /\ IsColumn(Settled, Account)
    BY DEF IsColumn, Due, Settled, Account, Unpaid
  <1>3. IsColumn(Left, Note)
    <2>1. \A n \in Note : Remaining(n) \in Int
      BY <1>1 DEF Note, Remaining
    <2> QED
      BY <2>1 DEF IsColumn, Left
  <1>4. IsColumn(Refunded, Refund) /\ IsColumn(Income, Refund)
    <2>1. \A r \in Refund : RefundedBy(r) \in Int
      BY <1>1 DEF Refund, RefundedBy
    <2> QED
      BY <2>1 DEF IsColumn, Refunded, Income
  <1>5. \A p \in Payment : p.allocated \in Int /\ p.amount \in Int /\ Unallocated(p) \in Int
    BY <1>1 DEF Payment, Unallocated
  <1>6. IsColumn(Settling, Payment) /\ IsColumn(Open, Payment)
    BY <1>5 DEF IsColumn, Settling, Open
  <1>7. IsColumn(Spent, Payment) /\ IsColumn(Outlay, Payment)
    BY <1>5 DEF IsColumn, Spent, Outlay
  <1> QED
    BY <1>2, <1>3, <1>4, <1>6, <1>7

\* The tables have their rows, before a step and after it.
LEMMA Tables ==
  /\ Rows => /\ AreRows(accounts, Account) /\ AreRows(payments, Payment)
             /\ AreRows(notes, Note) /\ AreRows(refunds, Refund)
  /\ Rows' => /\ AreRows(accounts', Account) /\ AreRows(payments', Payment)
              /\ AreRows(notes', Note) /\ AreRows(refunds', Refund)
  BY RowsOf DEF Rows

\* So what they come to are numbers.
LEMMA Sums ==
  ASSUME Rows
  PROVE  /\ Column(accounts, Due) \in Int /\ Column(accounts, Settled) \in Int
         /\ Column(notes, Left) \in Int
         /\ Column(refunds, Refunded) \in Int /\ Column(refunds, Income) \in Int
         /\ Column(payments, Settling) \in Int /\ Column(payments, Open) \in Int
         /\ Column(payments, Spent) \in Int /\ Column(payments, Outlay) \in Int
         /\ Goods \in Int /\ cash \in Int
  <1>1. /\ Column(accounts, Due) \in Int /\ Column(accounts, Settled) \in Int
        /\ Column(notes, Left) \in Int
        /\ Column(refunds, Refunded) \in Int /\ Column(refunds, Income) \in Int
        /\ Column(payments, Settling) \in Int /\ Column(payments, Open) \in Int
        /\ Column(payments, Spent) \in Int /\ Column(payments, Outlay) \in Int
    BY Columns, Tables, ColumnSums
  <1>2. Goods \in Int
    <2> DEFINE f == [o \in Orders |-> received[o] - returned[o]]
    <2>1. f \in [Orders -> Int] /\ IsFiniteSet(Orders)
      BY PayablesAssumption DEF Rows
    <2> HIDE DEF f
    <2>2. SumFunction(f) \in Int
      BY <2>1, SumType
    <2> QED
      BY <2>2 DEF Goods, f
  <1> QED
    BY <1>1, <1>2 DEF Rows

\* Goods that come in or go back.
LEMMA GoodsMoved ==
  ASSUME Rows, NEW o \in Orders, NEW qty \in Nat,
         \/ received' = [received EXCEPT ![o] = @ + qty] /\ returned' = returned
         \/ received' = received /\ returned' = [returned EXCEPT ![o] = @ + qty]
  PROVE  Goods' = Goods + (IF returned' = returned THEN qty ELSE 0 - qty)
  <1> DEFINE f == [i \in Orders |-> received[i] - returned[i]]
             g == [i \in Orders |-> received'[i] - returned'[i]]
  <1>1. f \in [Orders -> Int] /\ g \in [Orders -> Int]
    <2>1. \A i \in Orders : received[i] \in Int /\ returned[i] \in Int
      BY DEF Rows
    <2>2. \A i \in Orders : received'[i] \in Int /\ returned'[i] \in Int
      BY DEF Rows
    <2> QED
      BY <2>1, <2>2
  <1>2. \A i \in Orders \ {o} : g[i] = f[i]
    BY DEF Rows
  <1>3. g[o] - f[o] = IF returned' = returned THEN qty ELSE 0 - qty
    BY DEF Rows
  <1>4. IsFiniteSet(Orders)
    BY PayablesAssumption
  <1>5. SumFunction(f) \in Int
    <2> HIDE DEF f, g
    <2> QED
      BY <1>1, <1>4, SumType
  <1>6. Goods' = SumFunction(g) /\ Goods = SumFunction(f)
    BY DEF Goods
  <1> HIDE DEF f, g
  <1>7. SumFunction(g) = SumFunction(f) + (g[o] - f[o])
    BY <1>1, <1>2, <1>4, SumChange
  <1> QED
    BY <1>3, <1>6, <1>7

\* A request that changes no row of the books.
LEMMA BooksStay ==
  ASSUME IInv, UNCHANGED <<goods, accounts, payments, notes, refunds, cash>>
  PROVE  BooksMove(0, 0, 0)
  BY Sums DEF IInv, BooksMove, Goods, Payable, CashMoved, CashGap, SettleGap, goods

\* Refunds that are not executed, before or after, add nothing.
LEMMA RefundsIdle ==
  ASSUME Rows, Rows', DOMAIN refunds' = DOMAIN refunds,
         \A k \in DOMAIN refunds :
           \/ refunds'[k] = refunds[k]
           \/ refunds[k].status # "COMPLETED" /\ refunds'[k].status # "COMPLETED"
  PROVE  /\ Column(refunds', Refunded) = Column(refunds, Refunded)
         /\ Column(refunds', Income) = Column(refunds, Income)
  <1>1. \A k \in DOMAIN refunds : refunds[k] \in Refund /\ refunds'[k] \in Refund
    BY RowNumbers DEF Rows
  <1>2. \A k \in DOMAIN refunds : /\ Refunded[refunds'[k]] = Refunded[refunds[k]]
                                  /\ Income[refunds'[k]] = Income[refunds[k]]
    BY <1>1 DEF Refunded, Income, RefundedBy
  <1> QED
    BY <1>2, ColumnKept

\* The payable of a receipt is what came in, whether cash or credit is to settle it.
LEMMA GenerateBooks ==
  ASSUME IInv, IInv', NEW w \in Workers, GenerateFromReceipt(w)
  PROVE  job[w].qty \in Amounts /\ BooksMove(job[w].qty, 0 - job[w].qty, 0)
  <1> DEFINE j     == job[w]
             last  == Len(accounts) + 1
             gives == Offsets(j.notes, j.qty)
  <1>1. /\ j.order \in Orders /\ j.qty \in Amounts /\ j.notes \in SUBSET DOMAIN notes
        /\ gives \in [j.notes -> Nat] /\ SumFunction(gives) \in Nat
        /\ received' = [received EXCEPT ![j.order] = @ + j.qty]
        /\ UNCHANGED <<returned, payments, cash>>
    BY Generated
  <1>2. /\ DOMAIN notes' = DOMAIN notes
        /\ \A n \in DOMAIN notes \ j.notes : notes'[n] = notes[n]
        /\ \A n \in j.notes : Remaining(notes'[n]) = Remaining(notes[n]) - gives[n]
    BY Generated
  <1>3. /\ DOMAIN refunds' = DOMAIN refunds
        /\ \A k \in DOMAIN refunds :
             refunds'[k] = refunds[k] \/
               /\ k \in j.drafts
               /\ refunds'[k].status \in {refunds[k].status, "CANCELLED"}
    BY Generated
  <1>4. /\ DOMAIN accounts' = DOMAIN accounts \cup {last}
        /\ \A i \in DOMAIN accounts : accounts'[i] = accounts[i]
        /\ accounts'[last].paid = 0 /\ Unpaid(accounts'[last]) = j.qty - SumFunction(gives)
    BY Generated
  <1> HIDE DEF gives
  <1>5. j.qty \in Nat
    BY <1>1, RowTypes DEF IInv
  <1>6. Goods' = Goods + j.qty
    BY <1>1, <1>5, GoodsMoved DEF IInv
  <1>7. Column(notes, Left) = Column(notes', Left) + SumFunction(gives)
    <2>1. \A n \in j.notes : Left[notes[n]] = Left[notes'[n]] + gives[n]
      <3> SUFFICES ASSUME NEW n \in j.notes PROVE Left[notes[n]] = Left[notes'[n]] + gives[n]
        OBVIOUS
      <3>1. notes[n] \in Note /\ notes'[n] \in Note
        BY <1>1, <1>2, RowNumbers DEF IInv, Rows
      <3>2. Left[notes[n]] = Remaining(notes[n]) /\ Left[notes'[n]] = Remaining(notes'[n])
        BY <3>1 DEF Left
      <3>3. Left[notes[n]] \in Int
        BY <3>1, Columns DEF IsColumn
      <3> QED
        BY <1>1, <1>2, <3>2, <3>3
    <2>2. \A n \in DOMAIN notes \ j.notes : Left[notes[n]] = Left[notes'[n]]
      BY <1>2
    <2>3. AreRows(notes, Note) /\ AreRows(notes', Note) /\ IsColumn(Left, Note)
      BY Tables, Columns DEF IInv
    <2>4. j.notes \in SUBSET DOMAIN notes' /\ DOMAIN notes = DOMAIN notes'
      BY <1>1, <1>2
    <2>5. gives \in [j.notes -> Int]
      BY <1>1
    <2> QED
      BY <1>2, <2>1, <2>2, <2>3, <2>4, <2>5, ColumnMoved
  <1>8. /\ Column(accounts', Due) = Column(accounts, Due) + (j.qty - SumFunction(gives))
        /\ Column(accounts', Settled) = Column(accounts, Settled)
    <2>1. accounts'[last] \in Account /\ Due[accounts'[last]] = j.qty - SumFunction(gives)
          /\ Settled[accounts'[last]] = 0
      <3>1. accounts'[last] \in Account
        BY <1>4, RowNumbers DEF IInv, Rows
      <3> QED
        BY <1>4, <3>1 DEF Due, Settled
    <2>2. RowAdded(accounts, accounts', last)
      BY <1>4, RowNumbers DEF IInv, Rows, RowAdded
    <2>3. AreRows(accounts, Account) /\ AreRows(accounts', Account)
      BY Tables DEF IInv
    <2>4. Column(accounts, Settled) \in Int
      BY Sums DEF IInv
    <2> QED
      BY <2>1, <2>2, <2>3, <2>4, Columns, ColumnMade
  <1>9. /\ Column(refunds', Refunded) = Column(refunds, Refunded)
        /\ Column(refunds', Income) = Column(refunds, Income)
    <2>1. \A k \in j.drafts : refunds[k].status # "COMPLETED"
      BY DEF IInv, Locked, Holds
    <2>2. \A k \in DOMAIN refunds :
            \/ refunds'[k] = refunds[k]
            \/ refunds[k].status # "COMPLETED" /\ refunds'[k].status # "COMPLETED"
      BY <1>3, <2>1
    <2> QED
      BY <1>3, <2>2, RefundsIdle DEF IInv
  <1>10. Column(notes', Left) \in Int
    BY Tables, Columns, ColumnSums DEF IInv
  <1> DEFINE credit == SumFunction(gives)
             qty == j.qty
  <1>11. Goods' = Goods + qty /\ CashMoved' = CashMoved /\ CashGap' = CashGap
    BY <1>1, <1>6, <1>9 DEF CashMoved, CashGap
  <1>12. Payable' = Payable - qty /\ SettleGap' = SettleGap
    <2> HIDE DEF credit, qty
    <2>1. /\ Column(notes, Left) = Column(notes', Left) + credit
          /\ Column(accounts', Due) = Column(accounts, Due) + (qty - credit)
          /\ Column(payments', Open) = Column(payments, Open)
          /\ Column(notes', Left) \in Int /\ credit \in Int /\ qty \in Int
          /\ Column(accounts, Due) \in Int /\ Column(payments, Open) \in Int
      BY <1>1, <1>5, <1>7, <1>8, <1>10, Sums DEF IInv, credit, qty
    <2> QED
      BY <1>1, <1>8, <2>1 DEF Payable, SettleGap
  <1> QED
    BY <1>1, <1>5, <1>11, <1>12, Sums DEF IInv, BooksMove, Payable, CashMoved

\* A return is taken off what is unpaid, and the rest is credit.
LEMMA ReverseBooks ==
  ASSUME IInv, IInv', NEW w \in Workers, NEW o \in Orders, NEW qty \in Amounts,
         ReverseForReturn(w, o, qty)
  PROVE  BooksMove(0 - qty, qty, 0)
  <1> DEFINE gives == Adjustments(o, qty)
             total == SumFunction(gives)
             rest  == qty - total
  <1>1. /\ returned' = [returned EXCEPT ![o] = @ + qty]
        /\ gives \in [DOMAIN accounts -> Nat] /\ rest \in Nat
        /\ DOMAIN accounts' = DOMAIN accounts
        /\ \A i \in DOMAIN accounts :
             /\ accounts'[i].paid = accounts[i].paid
             /\ Unpaid(accounts'[i]) = Unpaid(accounts[i]) - gives[i]
        /\ (rest = 0 /\ UNCHANGED <<notes, refunds>>) \/ CreditMade(rest)
        /\ UNCHANGED <<received, payments, cash, job>>
    BY Reversed
  <1>2. qty \in Nat /\ qty # 0
    BY RowTypes DEF IInv
  <1> HIDE DEF gives
  <1>3. total \in Nat
    <2>1. IsFiniteSet(DOMAIN accounts)
      BY RowNumbers DEF IInv, Rows
    <2> QED
      BY <1>1, <2>1, SumType
  <1>4. Goods' = Goods - qty
    <2>1. returned' # returned
      BY <1>1, <1>2 DEF IInv, Rows
    <2>2. /\ received' = received /\ returned' = [returned EXCEPT ![o] = @ + qty]
          /\ Rows /\ Goods \in Int
      BY <1>1, Sums DEF IInv
    <2>3. Goods' = Goods + (0 - qty)
      BY <1>2, <2>1, <2>2, GoodsMoved
    <2> QED
      BY <1>2, <2>2, <2>3
  <1>5. Column(accounts, Due) = Column(accounts', Due) + total
    <2>1. \A i \in DOMAIN accounts : Due[accounts[i]] = Due[accounts'[i]] + gives[i]
      <3> SUFFICES ASSUME NEW i \in DOMAIN accounts
                   PROVE  Due[accounts[i]] = Due[accounts'[i]] + gives[i]
        OBVIOUS
      <3>1. accounts[i] \in Account /\ accounts'[i] \in Account
        BY <1>1, RowNumbers DEF IInv, Rows
      <3>2. Due[accounts[i]] = Unpaid(accounts[i]) /\ Due[accounts'[i]] = Unpaid(accounts'[i])
        BY <3>1 DEF Due
      <3>3. Due[accounts[i]] \in Int
        BY <3>1, Columns DEF IsColumn
      <3> QED
        BY <1>1, <3>2, <3>3
    <2>2. AreRows(accounts, Account) /\ AreRows(accounts', Account) /\ IsColumn(Due, Account)
      BY Tables, Columns DEF IInv
    <2>3. gives \in [DOMAIN accounts -> Int] /\ DOMAIN accounts = DOMAIN accounts'
          /\ DOMAIN accounts \in SUBSET DOMAIN accounts'
      BY <1>1
    <2>4. \A i \in DOMAIN accounts' \ DOMAIN accounts : Due[accounts[i]] = Due[accounts'[i]]
      BY <2>3
    <2> QED
      BY <2>1, <2>2, <2>3, <2>4, ColumnMoved
  <1>6. Column(accounts', Settled) = Column(accounts, Settled)
    <2>1. \A i \in DOMAIN accounts : accounts[i] \in Account /\ accounts'[i] \in Account
      BY <1>1, RowNumbers DEF IInv, Rows
    <2>2. \A i \in DOMAIN accounts : Settled[accounts'[i]] = Settled[accounts[i]]
      BY <1>1, <2>1 DEF Settled
    <2> QED
      BY <1>1, <2>2, ColumnKept
  <1>7. /\ Column(notes', Left) = Column(notes, Left) + rest
        /\ Column(refunds', Refunded) = Column(refunds, Refunded)
        /\ Column(refunds', Income) = Column(refunds, Income)
    <2>1. CASE rest = 0 /\ UNCHANGED <<notes, refunds>>
      BY <2>1, Sums DEF IInv
    <2>2. CASE CreditMade(rest)
      <3> DEFINE n == Len(notes) + 1
                 k == Len(refunds) + 1
      <3>1. RowAdded(notes, notes', n) /\ RowAdded(refunds, refunds', k)
        BY <2>2 DEF CreditMade, RowAdded
      <3>2. notes'[n] \in Note /\ refunds'[k] \in Refund
        BY <3>1, RowNumbers DEF IInv, Rows, RowAdded
      <3>3. Left[notes'[n]] = rest /\ Refunded[refunds'[k]] = 0 /\ Income[refunds'[k]] = 0
        BY <2>2, <3>2 DEF CreditMade, Left, Refunded, Income, RefundedBy
      <3>4. /\ AreRows(notes, Note) /\ AreRows(notes', Note)
            /\ AreRows(refunds, Refund) /\ AreRows(refunds', Refund)
        BY Tables DEF IInv
      <3>5. Column(refunds, Refunded) \in Int /\ Column(refunds, Income) \in Int
        BY Sums DEF IInv
      <3> HIDE DEF rest, n, k
      <3> QED
        BY <3>1, <3>3, <3>4, <3>5, Columns, ColumnMade
    <2> QED
      BY <1>1, <2>1, <2>2
  <1>8. Column(accounts', Due) \in Int
    BY Tables, Columns, ColumnSums DEF IInv
  <1>9. Payable' = Payable + qty
    <2>1. /\ Column(notes', Left) = Column(notes, Left) + (qty - total)
          /\ Column(accounts, Due) = Column(accounts', Due) + total
          /\ Column(payments', Open) = Column(payments, Open)
          /\ Column(accounts', Due) \in Int /\ Column(notes, Left) \in Int
          /\ Column(payments, Open) \in Int
      BY <1>1, <1>5, <1>7, <1>8, Sums DEF IInv
    <2> HIDE DEF total
    <2> QED
      BY <1>2, <1>3, <2>1 DEF Payable
  <1>10. CashMoved' = CashMoved /\ CashGap' = CashGap /\ SettleGap' = SettleGap
    BY <1>1, <1>6, <1>7 DEF CashMoved, CashGap, SettleGap
  <1> QED
    BY <1>2, <1>4, <1>9, <1>10, Sums DEF IInv, BooksMove, CashMoved

\* A draft that is made is no money yet.
LEMMA CreateRefundBooks ==
  ASSUME IInv, IInv', NEW w \in Workers, NEW n \in DOMAIN notes, CreateRefund(w, n)
  PROVE  BooksMove(0, 0, 0)
  <1> DEFINE k == Len(refunds) + 1
             new == [note |-> n, amount |-> Remaining(notes[n]), status |-> "DRAFT",
                     account |-> FALSE]
  <1>1. refunds' = Append(refunds, new) /\ new.status = "DRAFT"
        /\ UNCHANGED <<goods, accounts, payments, notes, cash>>
    BY DEF CreateRefund
  <1> HIDE DEF new
  <1>2. RowAdded(refunds, refunds', k) /\ refunds'[k] = new
    BY <1>1, RowAppended DEF IInv, Rows
  <1>3. refunds'[k] \in Refund
    BY <1>2, RowNumbers DEF IInv, Rows, RowAdded
  <1>4. Refunded[refunds'[k]] = 0 /\ Income[refunds'[k]] = 0
    BY <1>1, <1>2, <1>3 DEF Refunded, Income, RefundedBy
  <1>5. AreRows(refunds, Refund) /\ AreRows(refunds', Refund)
    BY Tables DEF IInv
  <1> HIDE DEF k
  <1>6. /\ Column(refunds', Refunded) = Column(refunds, Refunded) + Refunded[refunds'[k]]
        /\ Column(refunds', Income) = Column(refunds, Income) + Income[refunds'[k]]
    BY <1>2, <1>5, Columns, ColumnMade
  <1>7. /\ Column(refunds', Refunded) = Column(refunds, Refunded)
        /\ Column(refunds', Income) = Column(refunds, Income)
    BY <1>4, <1>6, Sums DEF IInv
  <1> QED
    BY <1>1, <1>7, Sums DEF IInv, BooksMove, Goods, Payable, CashMoved, CashGap, SettleGap, goods

\* Nor is one that is submitted or approved.
LEMMA MoveRefundBooks ==
  ASSUME IInv, IInv', NEW w \in Workers, NEW k \in DOMAIN refunds,
         SubmitRefund(w, k) \/ ApproveRefund(w, k)
  PROVE  BooksMove(0, 0, 0)
  <1>1. PICK kind, from, to :
          /\ MoveRefund(w, kind, k, from, to)
          /\ to \in RefundStatus /\ to # "COMPLETED" /\ from # "COMPLETED"
    BY DEF SubmitRefund, ApproveRefund, RefundStatus
  <1>2. /\ refunds[k].status = from /\ refunds'[k].status = to
        /\ DOMAIN refunds' = DOMAIN refunds
        /\ \A i \in DOMAIN refunds : refunds'[i] = IF i = k THEN [refunds[k] EXCEPT !.status = to]
                                                    ELSE refunds[i]
        /\ UNCHANGED <<goods, accounts, payments, notes, cash>>
    BY <1>1, RefundMoved
  <1>3. /\ Column(refunds', Refunded) = Column(refunds, Refunded)
        /\ Column(refunds', Income) = Column(refunds, Income)
    BY <1>1, <1>2, RefundsIdle DEF IInv
  <1> QED
    BY <1>2, <1>3, Sums DEF IInv, BooksMove, Goods, Payable, CashMoved, CashGap, SettleGap, goods

\* A refund turns credit into cash, in the account if one is named.
LEMMA ExecuteRefundBooks ==
  ASSUME IInv, IInv', NEW w \in Workers, NEW account \in BOOLEAN, ExecuteRefund(w, account)
  PROVE  job[w].qty \in Amounts /\ BooksMove(0, 0 - job[w].qty, job[w].qty)
  <1> DEFINE qty == job[w].qty
             ns  == job[w].notes
             d   == job[w].number
  <1>1. /\ d \in DOMAIN refunds /\ qty \in Amounts
        /\ refunds[d].status = "APPROVED" /\ refunds[d].amount = qty
        /\ ns = {refunds[d].note} /\ ns \subseteq DOMAIN notes
        /\ cash' = IF account THEN cash + qty ELSE cash
        /\ UNCHANGED <<goods, accounts, payments>>
    BY RefundExecuted
  <1>2. /\ DOMAIN notes' = DOMAIN notes
        /\ \A n \in DOMAIN notes \ ns : notes'[n] = notes[n]
        /\ \A n \in ns : Remaining(notes'[n]) = Remaining(notes[n]) - qty
    BY RefundExecuted
  <1>3. /\ DOMAIN refunds' = DOMAIN refunds
        /\ \A k \in DOMAIN refunds \ {d} :
             /\ k \notin job[w].drafts => refunds'[k] = refunds[k]
             /\ k \in job[w].drafts => refunds'[k].status \in {refunds[k].status, "CANCELLED"}
        /\ refunds'[d].status = "COMPLETED" /\ refunds'[d].amount = qty
        /\ refunds'[d].account = account
    BY RefundExecuted
  <1>4. qty \in Nat
    BY <1>1, RowTypes DEF IInv
  <1>5. Column(notes', Left) = Column(notes, Left) - qty
    <2> DEFINE n == refunds[d].note
    <2>1. notes[n] \in Note /\ notes'[n] \in Note /\ n \in ns
      BY <1>1, <1>2, RowNumbers DEF IInv, Rows
    <2>2. Left[notes[n]] = Remaining(notes[n]) /\ Left[notes'[n]] = Remaining(notes'[n])
          /\ Left[notes[n]] \in Int
      BY <2>1, Columns DEF Left, IsColumn
    <2>3. RowChanged(notes, notes', n)
      BY <1>1, <1>2 DEF RowChanged
    <2>4. AreRows(notes, Note) /\ AreRows(notes', Note) /\ IsColumn(Left, Note)
      BY Tables, Columns DEF IInv
    <2>5. Left[notes'[n]] - Left[notes[n]] = 0 - qty
      BY <1>2, <1>4, <2>1, <2>2
    <2> HIDE DEF n
    <2>6. Column(notes', Left) = Column(notes, Left) + (Left[notes'[n]] - Left[notes[n]])
      BY <2>3, <2>4, ColumnChanged
    <2>7. Column(notes, Left) \in Int
      BY Sums DEF IInv
    <2> HIDE DEF qty
    <2> QED
      BY <1>4, <2>5, <2>6, <2>7
  <1>6. /\ Column(refunds', Refunded) = Column(refunds, Refunded) + qty
        /\ Column(refunds', Income) = Column(refunds, Income) + (IF account THEN qty ELSE 0)
    <2> DEFINE some == [k \in {d} |-> qty]
               more == [k \in {d} |-> IF account THEN qty ELSE 0]
    <2>1. \A k \in DOMAIN refunds : refunds[k] \in Refund /\ refunds'[k] \in Refund
      BY <1>3, RowNumbers DEF IInv, Rows
    <2>2. Refunded[refunds[d]] = 0 /\ Income[refunds[d]] = 0
      BY <1>1, <2>1 DEF Refunded, Income, RefundedBy
    <2>3. Refunded[refunds'[d]] = qty /\ Income[refunds'[d]] = IF account THEN qty ELSE 0
      BY <1>1, <1>3, <2>1 DEF Refunded, Income, RefundedBy
    <2>4. \A k \in job[w].drafts : refunds[k].status # "COMPLETED"
      BY DEF IInv, Locked, Holds
    <2>5. \A k \in DOMAIN refunds \ {d} : /\ Refunded[refunds'[k]] = Refunded[refunds[k]]
                                          /\ Income[refunds'[k]] = Income[refunds[k]]
      BY <1>3, <2>1, <2>4 DEF Refunded, Income, RefundedBy
    <2>6. some \in [{d} -> Int] /\ more \in [{d} -> Int]
          /\ some[d] = qty /\ more[d] = IF account THEN qty ELSE 0
      BY <1>4
    <2>7. SumFunction(some) = qty /\ SumFunction(more) = IF account THEN qty ELSE 0
      <3> HIDE DEF some, more, qty, d
      <3> QED
        BY <2>6, SumOne
    <2>8. /\ AreRows(refunds, Refund) /\ AreRows(refunds', Refund)
          /\ IsColumn(Refunded, Refund) /\ IsColumn(Income, Refund)
          /\ {d} \in SUBSET DOMAIN refunds
      BY <1>1, Tables, Columns DEF IInv
    <2> HIDE DEF some, more, qty, d
    <2>9. /\ \A k \in {d} : Refunded[refunds'[k]] = Refunded[refunds[k]] + some[k]
          /\ \A k \in {d} : Income[refunds'[k]] = Income[refunds[k]] + more[k]
      BY <1>4, <2>2, <2>3, <2>6
    <2>10. Column(refunds', Refunded) = Column(refunds, Refunded) + SumFunction(some)
      BY <1>3, <2>5, <2>6, <2>8, <2>9, ColumnMoved
    <2>11. Column(refunds', Income) = Column(refunds, Income) + SumFunction(more)
      BY <1>3, <2>5, <2>6, <2>8, <2>9, ColumnMoved
    <2> QED
      BY <2>7, <2>10, <2>11
  <1>7. Goods' = Goods /\ SettleGap' = SettleGap
    BY <1>1 DEF Goods, SettleGap, goods
  <1>8. Payable' = Payable - qty
    <2> HIDE DEF qty
    <2> QED
      BY <1>1, <1>4, <1>5, Sums DEF IInv, Payable
  <1>9. CashMoved' = CashMoved + qty /\ CashGap' = CashGap
    <2> HIDE DEF qty
    <2> QED
      BY <1>1, <1>4, <1>6, Sums DEF IInv, CashMoved, CashGap
  <1> HIDE DEF d, ns
  <1> QED
    BY <1>1, <1>4, <1>7, <1>8, <1>9, Sums DEF IInv, BooksMove, Payable

\* A payment that is made is no money yet.
LEMMA CreatePaymentBooks ==
  ASSUME IInv, IInv', NEW w \in Workers, NEW amount \in Amounts, NEW account \in BOOLEAN,
         CreatePayment(w, amount, account)
  PROVE  BooksMove(0, 0, 0)
  <1> DEFINE p == Len(payments) + 1
             new == [amount |-> amount, allocated |-> 0, status |-> "DRAFT",
                     account |-> account, executed |-> FALSE]
  <1>1. /\ payments' = Append(payments, new) /\ ~ new.executed /\ new.allocated = 0
        /\ UNCHANGED <<goods, accounts, notes, refunds, cash>>
    BY DEF CreatePayment
  <1> HIDE DEF new
  <1>2. RowAdded(payments, payments', p) /\ payments'[p] = new
    BY <1>1, RowAppended DEF IInv, Rows
  <1>3. payments'[p] \in Payment
    BY <1>2, RowNumbers DEF IInv, Rows, RowAdded
  <1>4. /\ Settling[payments'[p]] = 0 /\ Open[payments'[p]] = 0
        /\ Spent[payments'[p]] = 0 /\ Outlay[payments'[p]] = 0
    BY <1>1, <1>2, <1>3 DEF Settling, Open, Spent, Outlay
  <1>5. AreRows(payments, Payment) /\ AreRows(payments', Payment)
    BY Tables DEF IInv
  <1> HIDE DEF p
  <1>6. /\ Column(payments', Settling) = Column(payments, Settling) + Settling[payments'[p]]
        /\ Column(payments', Open) = Column(payments, Open) + Open[payments'[p]]
        /\ Column(payments', Spent) = Column(payments, Spent) + Spent[payments'[p]]
        /\ Column(payments', Outlay) = Column(payments, Outlay) + Outlay[payments'[p]]
    BY <1>2, <1>5, Columns, ColumnMade
  <1>7. /\ Column(payments', Settling) = Column(payments, Settling)
        /\ Column(payments', Open) = Column(payments, Open)
        /\ Column(payments', Spent) = Column(payments, Spent)
        /\ Column(payments', Outlay) = Column(payments, Outlay)
    BY <1>4, <1>6, Sums DEF IInv
  <1> QED
    BY <1>1, <1>7, Sums DEF IInv, BooksMove, Goods, Payable, CashMoved, CashGap, SettleGap, goods

\* A payment adds the same whatever its status.
LEMMA SamePayment ==
  ASSUME NEW p \in Payment, NEW q \in Payment, p.executed = q.executed,
         p.account = q.account, p.amount = q.amount, p.allocated = q.allocated
  PROVE  Settling[p] = Settling[q] /\ Open[p] = Open[q] /\ Spent[p] = Spent[q]
         /\ Outlay[p] = Outlay[q]
  BY DEF Settling, Open, Spent, Outlay, Unallocated

\* A payment that is submitted or approved is no money either.
LEMMA MovePaymentBooks ==
  ASSUME IInv, IInv', NEW p, NEW status \in PaymentStatus,
         payments' = [payments EXCEPT ![p].status = status],
         UNCHANGED <<goods, accounts, notes, refunds, cash>>
  PROVE  BooksMove(0, 0, 0)
  <1>1. DOMAIN payments' = DOMAIN payments
    OBVIOUS
  <1>2. ASSUME NEW i \in DOMAIN payments
        PROVE  /\ Settling[payments'[i]] = Settling[payments[i]]
               /\ Open[payments'[i]] = Open[payments[i]]
               /\ Spent[payments'[i]] = Spent[payments[i]]
               /\ Outlay[payments'[i]] = Outlay[payments[i]]
    <2>1. payments[i] \in Payment /\ payments'[i] \in Payment
      BY <1>1, RowNumbers DEF IInv, Rows
    <2>2. CASE i # p
      BY <2>2
    <2>3. CASE i = p
      <3>1. payments'[i] = [payments[i] EXCEPT !.status = status]
        BY <2>3
      <3>2. /\ payments'[i].executed = payments[i].executed
            /\ payments'[i].account = payments[i].account
            /\ payments'[i].amount = payments[i].amount
            /\ payments'[i].allocated = payments[i].allocated
        BY <2>1, <3>1 DEF Payment
      <3> QED
        BY <2>1, <3>2, SamePayment
    <2> QED
      BY <2>2, <2>3
  <1>3. /\ Column(payments', Settling) = Column(payments, Settling)
        /\ Column(payments', Open) = Column(payments, Open)
        /\ Column(payments', Spent) = Column(payments, Spent)
        /\ Column(payments', Outlay) = Column(payments, Outlay)
    BY <1>1, <1>2, ColumnKept
  <1> QED
    BY <1>3, Sums DEF IInv, BooksMove, Goods, Payable, CashMoved, CashGap, SettleGap, goods

\* Submitting a payment moves no money.
LEMMA SubmitPaymentBooks ==
  ASSUME IInv, IInv', NEW w \in Workers, NEW approval \in Approval, SubmitPayment(w, approval)
  PROVE  BooksMove(0, 0, 0)
  <1> DEFINE status == IF approval THEN "PENDING_APPROVAL" ELSE "APPROVED"
  <1>1. payments' = [payments EXCEPT ![job[w].number].status = status]
        /\ UNCHANGED <<goods, accounts, notes, refunds, cash>>
    BY DEF SubmitPayment
  <1>2. status \in PaymentStatus
    BY DEF PaymentStatus
  <1> HIDE DEF status
  <1> QED
    BY <1>1, <1>2, MovePaymentBooks

\* Nor does approving it.
LEMMA ApprovePaymentBooks ==
  ASSUME IInv, IInv', NEW w \in Workers, NEW p \in DOMAIN payments, ApprovePayment(w, p)
  PROVE  BooksMove(0, 0, 0)
  <1>1. payments' = [payments EXCEPT ![p].status = "APPROVED"]
        /\ UNCHANGED <<goods, accounts, notes, refunds, cash>>
    BY DEF ApprovePayment
  <1>2. "APPROVED" \in PaymentStatus
    BY DEF PaymentStatus
  <1> QED
    BY <1>1, <1>2, MovePaymentBooks

\* A payment that is executed is cash that is gone and open to settle payables.
LEMMA ExecutePaymentBooks ==
  ASSUME IInv, IInv', NEW w \in Workers, NEW p \in DOMAIN payments, ExecutePayment(w, p)
  PROVE  /\ payments[p].amount \in Amounts
         /\ BooksMove(0, payments[p].amount, 0 - payments[p].amount)
  <1> DEFINE amount == payments[p].amount
  <1>1. /\ ~ payments[p].executed
        /\ payments' = [payments EXCEPT ![p].executed = TRUE]
        /\ cash' = IF payments[p].account THEN cash - amount ELSE cash
        /\ UNCHANGED <<goods, accounts, notes, refunds>>
    BY DEF ExecutePayment, Executable
  <1>2. /\ payments[p] \in Payment /\ payments'[p] \in Payment
        /\ RowChanged(payments, payments', p)
    BY <1>1, RowNumbers DEF IInv, Rows, RowChanged
  <1>3. amount \in Amounts /\ amount \in Nat /\ payments[p].allocated = 0
    BY <1>1, <1>2, RowTypes DEF IInv, AllocatedLater, Payment
  <1>4. /\ payments'[p].amount = amount /\ payments'[p].allocated = 0
        /\ payments'[p].account = payments[p].account /\ payments'[p].executed
    <2>1. payments'[p] = [payments[p] EXCEPT !.executed = TRUE]
      BY <1>1
    <2> QED
      BY <1>2, <1>3, <2>1 DEF Payment
  <1> HIDE DEF amount
  <1>5. /\ Settling[payments[p]] = 0 /\ Open[payments[p]] = 0
        /\ Spent[payments[p]] = 0 /\ Outlay[payments[p]] = 0
    BY <1>1, <1>2, <1>3 DEF Settling, Open, Spent, Outlay
  <1>6. /\ Settling[payments'[p]] = 0 /\ Open[payments'[p]] = amount
        /\ Spent[payments'[p]] = amount
        /\ Outlay[payments'[p]] = IF payments[p].account THEN amount ELSE 0
    BY <1>2, <1>3, <1>4 DEF Settling, Open, Spent, Outlay, Unallocated
  <1>7. AreRows(payments, Payment) /\ AreRows(payments', Payment)
    BY Tables DEF IInv
  <1>8. /\ Column(payments, Settling) \in Int /\ Column(payments, Open) \in Int
        /\ Column(payments, Spent) \in Int /\ Column(payments, Outlay) \in Int
    BY Sums DEF IInv
  <1>9. /\ Column(payments', Settling) = Column(payments, Settling)
        /\ Column(payments', Open) = Column(payments, Open) + amount
        /\ Column(payments', Spent) = Column(payments, Spent) + amount
        /\ Column(payments', Outlay) =
             Column(payments, Outlay) + (IF payments[p].account THEN amount ELSE 0)
    <2>1. /\ Column(payments', Settling) = Column(payments, Settling) +
               (Settling[payments'[p]] - Settling[payments[p]])
          /\ Column(payments', Open) = Column(payments, Open) +
               (Open[payments'[p]] - Open[payments[p]])
          /\ Column(payments', Spent) = Column(payments, Spent) +
               (Spent[payments'[p]] - Spent[payments[p]])
          /\ Column(payments', Outlay) = Column(payments, Outlay) +
               (Outlay[payments'[p]] - Outlay[payments[p]])
      BY <1>2, <1>7, Columns, ColumnChanged
    <2> QED
      BY <1>3, <1>5, <1>6, <1>8, <2>1
  <1>10. Goods' = Goods /\ SettleGap' = SettleGap
    BY <1>1, <1>9 DEF Goods, SettleGap, goods
  <1>11. Payable' = Payable + amount /\ CashMoved' = CashMoved - amount /\ CashGap' = CashGap
    BY <1>1, <1>3, <1>9, Sums DEF IInv, Payable, CashMoved, CashGap
  <1> QED
    BY <1>3, <1>10, <1>11, Sums DEF IInv, BooksMove, Payable, CashMoved, amount

\* What is allocated of a payment is what its payables are paid.
LEMMA AllocateBooks ==
  ASSUME IInv, IInv', NEW w \in Workers, NEW p \in DOMAIN payments,
         NEW is \in SUBSET DOMAIN accounts, NEW partial, NEW share \in [is -> Amounts],
         AllocatePayment(w, p, share, partial)
  PROVE  BooksMove(0, 0, 0)
  <1> DEFINE t == Together(share)
  <1>1. /\ share \in [is -> Nat] /\ t \in Nat
        /\ UNCHANGED <<goods, notes, refunds, cash, job>>
        /\ DOMAIN accounts' = DOMAIN accounts
        /\ \A i \in DOMAIN accounts :
             /\ i \notin is => accounts'[i] = accounts[i]
             /\ i \in is => /\ accounts'[i].paid = accounts[i].paid + share[i]
                            /\ Unpaid(accounts'[i]) = Unpaid(accounts[i]) - share[i]
    BY Allocated
  <1>2. /\ payments[p].executed
        /\ DOMAIN payments' = DOMAIN payments
        /\ \A i \in DOMAIN payments \ {p} : payments'[i] = payments[i]
        /\ payments'[p].amount = payments[p].amount
        /\ payments'[p].allocated = payments[p].allocated + t
        /\ payments'[p].account = payments[p].account /\ payments'[p].executed
    BY Allocated
  <1>3. t = SumFunction(share)
    BY DEF Together
  <1> HIDE DEF t
  <1>4. /\ Column(accounts', Settled) = Column(accounts, Settled) + t
        /\ Column(accounts, Due) = Column(accounts', Due) + t
    <2>1. \A i \in is : /\ Settled[accounts'[i]] = Settled[accounts[i]] + share[i]
                        /\ Due[accounts[i]] = Due[accounts'[i]] + share[i]
      <3> SUFFICES ASSUME NEW i \in is
                   PROVE  /\ Settled[accounts'[i]] = Settled[accounts[i]] + share[i]
                          /\ Due[accounts[i]] = Due[accounts'[i]] + share[i]
        OBVIOUS
      <3>1. accounts[i] \in Account /\ accounts'[i] \in Account
        BY <1>1, RowNumbers DEF IInv, Rows
      <3>2. /\ Due[accounts[i]] = Unpaid(accounts[i]) /\ Due[accounts'[i]] = Unpaid(accounts'[i])
            /\ Settled[accounts[i]] = accounts[i].paid /\ Settled[accounts'[i]] = accounts'[i].paid
        BY <3>1 DEF Due, Settled
      <3>3. Due[accounts[i]] \in Int
        BY <3>1, Columns DEF IsColumn
      <3> QED
        BY <1>1, <3>2, <3>3
    <2>2. \A i \in DOMAIN accounts \ is : /\ Settled[accounts'[i]] = Settled[accounts[i]]
                                          /\ Due[accounts[i]] = Due[accounts'[i]]
      BY <1>1
    <2>3. /\ AreRows(accounts, Account) /\ AreRows(accounts', Account)
          /\ IsColumn(Due, Account) /\ IsColumn(Settled, Account)
      BY Tables, Columns DEF IInv
    <2>4. DOMAIN accounts = DOMAIN accounts' /\ is \in SUBSET DOMAIN accounts'
          /\ share \in [is -> Int]
      BY <1>1
    <2>5. Column(accounts', Settled) = Column(accounts, Settled) + SumFunction(share)
      BY <2>1, <2>2, <2>3, <2>4, ColumnMoved
    <2>6. Column(accounts, Due) = Column(accounts', Due) + SumFunction(share)
      BY <2>1, <2>2, <2>3, <2>4, ColumnMoved
    <2> QED
      BY <1>3, <2>5, <2>6
  <1>5. /\ Column(payments', Settling) = Column(payments, Settling) + t
        /\ Column(payments', Open) = Column(payments, Open) - t
        /\ Column(payments', Spent) = Column(payments, Spent)
        /\ Column(payments', Outlay) = Column(payments, Outlay)
    <2>1. payments[p] \in Payment /\ payments'[p] \in Payment /\ RowChanged(payments, payments', p)
      BY <1>2, RowNumbers DEF IInv, Rows, RowChanged
    <2>2. /\ payments[p].amount \in Int /\ payments[p].allocated \in Int
      BY <2>1, RowTypes DEF IInv, Payment
    <2>3. /\ Settling[payments'[p]] - Settling[payments[p]] = t
          /\ Open[payments'[p]] - Open[payments[p]] = 0 - t
      BY <1>1, <1>2, <2>1, <2>2 DEF Settling, Open, Unallocated
    <2>4. /\ Spent[payments'[p]] = Spent[payments[p]] /\ Outlay[payments'[p]] = Outlay[payments[p]]
          /\ Spent[payments[p]] \in Int /\ Outlay[payments[p]] \in Int
      BY <1>2, <2>1, <2>2 DEF Spent, Outlay
    <2>5. AreRows(payments, Payment) /\ AreRows(payments', Payment)
      BY Tables DEF IInv
    <2>6. /\ Column(payments, Settling) \in Int /\ Column(payments, Open) \in Int
          /\ Column(payments, Spent) \in Int /\ Column(payments, Outlay) \in Int
      BY Sums DEF IInv
    <2>7. /\ Column(payments', Settling) = Column(payments, Settling) +
               (Settling[payments'[p]] - Settling[payments[p]])
          /\ Column(payments', Open) = Column(payments, Open) +
               (Open[payments'[p]] - Open[payments[p]])
          /\ Column(payments', Spent) = Column(payments, Spent) +
               (Spent[payments'[p]] - Spent[payments[p]])
          /\ Column(payments', Outlay) = Column(payments, Outlay) +
               (Outlay[payments'[p]] - Outlay[payments[p]])
      BY <2>1, <2>5, Columns, ColumnChanged
    <2> QED
      BY <1>1, <2>3, <2>4, <2>6, <2>7
  <1>6. Column(accounts', Due) \in Int
    BY Tables, Columns, ColumnSums DEF IInv
  <1>7. Goods' = Goods /\ CashMoved' = CashMoved /\ CashGap' = CashGap
    BY <1>1, <1>5 DEF Goods, CashMoved, CashGap, goods
  <1>8. Payable' = Payable /\ SettleGap' = SettleGap
    BY <1>1, <1>4, <1>5, <1>6, Sums DEF IInv, Payable, SettleGap
  <1> QED
    BY <1>7, <1>8, Sums DEF IInv, BooksMove, Payable, CashMoved

\* What a step does to the books: nothing, or what the voucher of one event says.
BooksKept ==
  \/ BooksMove(0, 0, 0)
  \/ \E n \in Amounts :
       \/ BooksMove(n, 0 - n, 0)      \* PURCHASE_RECEIPT
       \/ BooksMove(0 - n, n, 0)      \* PURCHASE_RETURN
       \/ BooksMove(0, n, 0 - n)      \* AP_PAYMENT
       \/ BooksMove(0, 0 - n, n)      \* SUPPLIER_REFUND

\* A step moves what was used of payments with what was written off accounts,
\* and the balance with both.
LEMMA NextBooks == IInv /\ IInv' /\ [Next]_vars => BooksKept
  <1> SUFFICES ASSUME IInv, IInv', [Next]_vars PROVE BooksKept
    OBVIOUS
  <1>1. CASE UNCHANGED vars
    BY <1>1, BooksStay DEF vars, goods, BooksKept
  <1>2. ASSUME NEW w \in Workers, GoodsStep(w)
        PROVE  BooksKept
    <2>1. ASSUME NEW o \in Orders, NEW qty \in Amounts, LockNotes(w, o, qty)
          PROVE  BooksKept
      BY <2>1, BooksStay DEF LockNotes, BooksKept
    <2>2. ASSUME NEW o \in Orders, NEW qty \in Amounts, ReverseForReturn(w, o, qty)
          PROVE  BooksKept
      BY <2>2, ReverseBooks DEF BooksKept
    <2>3. CASE GenerateFromReceipt(w)
      BY <2>3, GenerateBooks DEF BooksKept
    <2> QED
      BY <1>2, <2>1, <2>2, <2>3 DEF GoodsStep
  <1>3. ASSUME NEW w \in Workers, RefundStep(w)
        PROVE  BooksKept
    <2>1. ASSUME NEW n \in DOMAIN notes, CreateRefund(w, n)
          PROVE  BooksKept
      BY <2>1, CreateRefundBooks DEF BooksKept
    <2>2. ASSUME NEW k \in DOMAIN refunds, SubmitRefund(w, k) \/ ApproveRefund(w, k)
          PROVE  BooksKept
      BY <2>2, MoveRefundBooks DEF BooksKept
    <2>3. ASSUME NEW k \in DOMAIN refunds, LockRefund(w, k)
          PROVE  BooksKept
      BY <2>3, BooksStay DEF LockRefund, BooksKept
    <2>4. ASSUME NEW account \in BOOLEAN, ExecuteRefund(w, account)
          PROVE  BooksKept
      BY <2>4, ExecuteRefundBooks DEF BooksKept
    <2> QED
      BY <1>3, <2>1, <2>2, <2>3, <2>4 DEF RefundStep
  <1>4. ASSUME NEW w \in Workers, PaymentStep(w)
        PROVE  BooksKept
    <2>1. ASSUME NEW amount \in Amounts, NEW account \in BOOLEAN,
                 CreatePayment(w, amount, account)
          PROVE  BooksKept
      BY <2>1, CreatePaymentBooks DEF BooksKept
    <2>2. ASSUME NEW approval \in Approval, SubmitPayment(w, approval)
          PROVE  BooksKept
      BY <2>2, SubmitPaymentBooks DEF BooksKept
    <2>3. ASSUME NEW p \in DOMAIN payments, LoadPayment(w, p)
          PROVE  BooksKept
      BY <2>3, BooksStay DEF LoadPayment, BooksKept
    <2>4. ASSUME NEW p \in DOMAIN payments, ApprovePayment(w, p)
          PROVE  BooksKept
      BY <2>4, ApprovePaymentBooks DEF BooksKept
    <2>5. ASSUME NEW p \in DOMAIN payments, ExecutePayment(w, p)
          PROVE  BooksKept
      BY <2>5, ExecutePaymentBooks DEF BooksKept
    <2>6. ASSUME NEW p \in DOMAIN payments, NEW is \in (SUBSET DOMAIN accounts) \ {{}},
                 NEW partial \in Partial, NEW share \in [is -> Amounts],
                 AllocatePayment(w, p, share, partial)
          PROVE  BooksKept
      BY <2>6, AllocateBooks DEF BooksKept
    <2> QED
      BY <1>4, <2>1, <2>2, <2>3, <2>4, <2>5, <2>6 DEF PaymentStep
  <1>5. ASSUME NEW w \in Workers, Abort(w)
        PROVE  BooksKept
    BY <1>5, BooksStay DEF Abort, BooksKept
  <1> QED
    BY <1>1, <1>2, <1>3, <1>4, <1>5 DEF Next

\* In the beginning the tables have no rows.
LEMMA InitBooks ==
  ASSUME Init
  PROVE  /\ Goods = 0 /\ Payable = 0 /\ CashMoved = 0
         /\ CashGap = Opening /\ SettleGap = 0
  <1>1. \A c : /\ Column(accounts, c) = 0 /\ Column(payments, c) = 0
               /\ Column(notes, c) = 0 /\ Column(refunds, c) = 0
    <2>1. /\ DOMAIN accounts = {} /\ DOMAIN payments = {}
          /\ DOMAIN notes = {} /\ DOMAIN refunds = {}
      BY DEF Init
    <2> QED
      BY <2>1, ColumnEmpty
  <1>2. Goods = 0
    <2> DEFINE f == [o \in Orders |-> received[o] - returned[o]]
    <2>1. f \in [Orders -> Int] /\ (\A o \in Orders : f[o] = 0) /\ IsFiniteSet(Orders)
      BY PayablesAssumption DEF Init
    <2> HIDE DEF f
    <2>2. SumFunction(f) = 0
      BY <2>1, SumZero
    <2> QED
      BY <2>2 DEF Goods, f
  <1>3. cash = Opening /\ Opening \in Nat
    BY PayablesAssumption DEF Init
  <1> QED
    BY <1>1, <1>2, <1>3 DEF Payable, CashMoved, CashGap, SettleGap

\* The properties, in terms of the columns.
LEMMA GapsExplain ==
  ASSUME Rows, CashGap = Opening, SettleGap = 0
  PROVE  CashExplained /\ PaymentsSettleOnce
  <1> USE DEF Column
  <1>1. Total(accounts, LAMBDA a : a.paid) = Column(accounts, Settled)
    <2>1. [i \in DOMAIN accounts |-> accounts[i].paid]
            = [i \in DOMAIN accounts |-> Settled[accounts[i]]]
      BY RowTypes DEF Settled
    <2> QED
      BY <2>1 DEF Total
  <1>2. Total(payments, LAMBDA p : p.allocated) = Column(payments, Settling)
    <2>1. [i \in DOMAIN payments |-> payments[i].allocated]
            = [i \in DOMAIN payments |-> Settling[payments[i]]]
      BY RowTypes DEF Settling
    <2> QED
      BY <2>1 DEF Total
  <1>3. Total(payments, LAMBDA p : IF p.executed /\ p.account THEN p.amount ELSE 0)
          = Column(payments, Outlay)
    <2>1. [i \in DOMAIN payments |->
             IF payments[i].executed /\ payments[i].account THEN payments[i].amount ELSE 0]
            = [i \in DOMAIN payments |-> Outlay[payments[i]]]
      BY RowTypes DEF Outlay
    <2> QED
      BY <2>1 DEF Total
  <1>4. Total(refunds, LAMBDA r : IF r.account THEN RefundedBy(r) ELSE 0)
          = Column(refunds, Income)
    <2>1. [i \in DOMAIN refunds |->
             IF refunds[i].account THEN RefundedBy(refunds[i]) ELSE 0]
            = [i \in DOMAIN refunds |-> Income[refunds[i]]]
      BY RowTypes DEF Income
    <2> QED
      BY <2>1 DEF Total
  <1>5. PaymentsSettleOnce
    BY <1>1, <1>2, Sums DEF PaymentsSettleOnce, SettleGap
  <1>6. CashExplained
    <2>1. cash = Opening - Column(payments, Outlay) + Column(refunds, Income)
      <3> HIDE DEF Column
      <3> QED
        BY Sums, PayablesAssumption DEF CashGap
    <2> QED
      BY <1>3, <1>4, <2>1 DEF CashExplained
  <1> QED
    BY <1>5, <1>6

\* The differences between what moved and what the rows say.
Gaps == CashGap = Opening /\ SettleGap = 0

\* The differences that have to be zero are.
LEMMA GapsHold == Spec => [](IInv /\ Gaps)
  <1>1. Init => Gaps
    BY InitBooks DEF Gaps
  <1>2. Gaps /\ BooksKept => Gaps'
    BY DEF BooksKept, BooksMove, Gaps
  <1>3. IInv /\ IInv' /\ Gaps /\ [Next]_vars => Gaps'
    BY <1>2, NextBooks
  <1> QED
    BY <1>1, <1>3, IInvHolds, PTL DEF Spec

(***************************************************************************)
(* What payables were paid is what payments were allocated, though a       *)
(* request settles several payables at once and requests overlap.          *)
(***************************************************************************)
THEOREM SettledOnce == Spec => []PaymentsSettleOnce
  <1>1. IInv /\ Gaps => PaymentsSettleOnce
    BY GapsExplain DEF IInv, Gaps
  <1> QED
    BY <1>1, GapsHold, PTL

(***************************************************************************)
(* The cash account holds what it held, less the payments executed and     *)
(* with the refunds received, each once.                                   *)
(***************************************************************************)
THEOREM CashIsExplained == Spec => []CashExplained
  <1>1. IInv /\ Gaps => CashExplained
    BY GapsExplain DEF IInv, Gaps
  <1> QED
    BY <1>1, GapsHold, PTL

-----------------------------------------------------------------------------
(* The ledger. *)

\* The balances of the rows, by subject.
LEMMA BalancesAre ==
  Rows => Balances = [s \in Ledger!Subjects |->
                        IF s = "1405" THEN Goods ELSE IF s = "2202" THEN Payable
                        ELSE IF s = "cash" THEN CashMoved ELSE 0]
  <1> SUFFICES ASSUME Rows
               PROVE  Balances = [s \in Ledger!Subjects |->
                        IF s = "1405" THEN Goods ELSE IF s = "2202" THEN Payable
                        ELSE IF s = "cash" THEN CashMoved ELSE 0]
    OBVIOUS
  <1> USE DEF Column
  <1>1. Total(notes, Remaining) = Column(notes, Left)
    <2>1. [i \in DOMAIN notes |-> Remaining(notes[i])] = [i \in DOMAIN notes |-> Left[notes[i]]]
      BY RowTypes DEF Left
    <2> QED
      BY <2>1 DEF Total
  <1>2. Total(accounts, Unpaid) = Column(accounts, Due)
    <2>1. [i \in DOMAIN accounts |-> Unpaid(accounts[i])]
            = [i \in DOMAIN accounts |-> Due[accounts[i]]]
      BY RowTypes DEF Due
    <2> QED
      BY <2>1 DEF Total
  <1>3. Total(payments, LAMBDA p : IF p.executed THEN Unallocated(p) ELSE 0)
          = Column(payments, Open)
    <2>1. [i \in DOMAIN payments |->
             IF payments[i].executed THEN Unallocated(payments[i]) ELSE 0]
            = [i \in DOMAIN payments |-> Open[payments[i]]]
      BY RowTypes DEF Open
    <2> QED
      BY <2>1 DEF Total
  <1>4. Total(refunds, RefundedBy) = Column(refunds, Refunded)
    <2>1. [i \in DOMAIN refunds |-> RefundedBy(refunds[i])]
            = [i \in DOMAIN refunds |-> Refunded[refunds[i]]]
      BY RowTypes DEF Refunded
    <2> QED
      BY <2>1 DEF Total
  <1>5. Total(payments, LAMBDA p : IF p.executed THEN p.amount ELSE 0) = Column(payments, Spent)
    <2>1. [i \in DOMAIN payments |-> IF payments[i].executed THEN payments[i].amount ELSE 0]
            = [i \in DOMAIN payments |-> Spent[payments[i]]]
      BY RowTypes DEF Spent
    <2> QED
      BY <2>1 DEF Total
  <1> QED
    BY <1>1, <1>2, <1>3, <1>4, <1>5
       DEF Balances, Ledger!Subjects, Goods, Payable, CashMoved

\* A step changes the balances by the voucher of one event, or not at all.
LEMMA StepsOfTheLedger == IInv /\ IInv' /\ [Next]_vars => [Ledger!Next]_Balances
  <1> SUFFICES ASSUME IInv, IInv', [Next]_vars, Balances' # Balances
               PROVE  Ledger!Next
    OBVIOUS
  <1> DEFINE Shown(g, p, c) == [s \in Ledger!Subjects |->
                        IF s = "1405" THEN g ELSE IF s = "2202" THEN p
                        ELSE IF s = "cash" THEN c ELSE 0]
  <1>1. Balances = Shown(Goods, Payable, CashMoved)
    BY BalancesAre DEF IInv
  <1>2. Balances' = Shown(Goods', Payable', CashMoved')
    <2>1. (Rows => Balances = Shown(Goods, Payable, CashMoved))'
      BY BalancesAre, PTL
    <2> QED
      BY <2>1 DEF IInv
  <1>3. Goods \in Int /\ Payable \in Int /\ CashMoved \in Int
    BY Sums DEF IInv, Payable, CashMoved
  <1>4. ~ BooksMove(0, 0, 0)
    <2>1. SUFFICES ASSUME BooksMove(0, 0, 0) PROVE FALSE
      OBVIOUS
    <2>2. Goods' = Goods /\ Payable' = Payable /\ CashMoved' = CashMoved
      BY <1>3, <2>1 DEF BooksMove
    <2> QED
      BY <1>1, <1>2, <2>2
  <1>5. PICK n \in Amounts :
          BooksMove(n, 0 - n, 0) \/ BooksMove(0 - n, n, 0) \/ BooksMove(0, n, 0 - n)
            \/ BooksMove(0, 0 - n, n)
    BY <1>4, NextBooks DEF BooksKept
  <1>6. n \in Int
    BY PayablesAssumption
  <1>7. CASE BooksMove(n, 0 - n, 0)
    <2>1. Goods' = Goods + n /\ Payable' = Payable - n /\ CashMoved' = CashMoved
      BY <1>3, <1>6, <1>7 DEF BooksMove
    <2>2. Balances' = Ledger!Entered(Balances, "PURCHASE_RECEIPT", n)
      BY <1>1, <1>2, <1>3, <1>6, <2>1
         DEF Ledger!Entered, Ledger!Lines, Ledger!Entry, Ledger!Subjects
    <2> QED
      BY <2>2 DEF Ledger!Next
  <1>8. CASE BooksMove(0 - n, n, 0)
    <2>1. Goods' = Goods - n /\ Payable' = Payable + n /\ CashMoved' = CashMoved
      BY <1>3, <1>6, <1>8 DEF BooksMove
    <2>2. Balances' = Ledger!Entered(Balances, "PURCHASE_RETURN", n)
      BY <1>1, <1>2, <1>3, <1>6, <2>1
         DEF Ledger!Entered, Ledger!Lines, Ledger!Entry, Ledger!Subjects
    <2> QED
      BY <2>2 DEF Ledger!Next
  <1>9. CASE BooksMove(0, n, 0 - n)
    <2>1. Goods' = Goods /\ Payable' = Payable + n /\ CashMoved' = CashMoved - n
      BY <1>3, <1>6, <1>9 DEF BooksMove
    <2>2. Balances' = Ledger!Entered(Balances, "AP_PAYMENT", n)
      BY <1>1, <1>2, <1>3, <1>6, <2>1
         DEF Ledger!Entered, Ledger!Lines, Ledger!Entry, Ledger!Subjects
    <2> QED
      BY <2>2 DEF Ledger!Next
  <1>10. CASE BooksMove(0, 0 - n, n)
    <2>1. Goods' = Goods /\ Payable' = Payable - n /\ CashMoved' = CashMoved + n
      BY <1>3, <1>6, <1>10 DEF BooksMove
    <2>2. Balances' = Ledger!Entered(Balances, "SUPPLIER_REFUND", n)
      BY <1>1, <1>2, <1>3, <1>6, <2>1
         DEF Ledger!Entered, Ledger!Lines, Ledger!Entry, Ledger!Subjects
    <2> QED
      BY <2>2 DEF Ledger!Next
  <1> QED
    BY <1>5, <1>7, <1>8, <1>9, <1>10

(***************************************************************************)
(* The rows of the supplier move as the general ledger does: goods,        *)
(* payables and cash change by the voucher of one event at a time, however *)
(* the requests overlap, and no credit is lost or used twice.              *)
(***************************************************************************)
THEOREM RowsAreALedger == Spec => MovesAsTheLedger
  <1>1. Init => Ledger!Init
    <2>1. SUFFICES ASSUME Init PROVE Ledger!Init
      OBVIOUS
    <2>2. Rows
      BY <2>1, InitHolds DEF IInv
    <2>3. Goods = 0 /\ Payable = 0 /\ CashMoved = 0
      BY <2>1, InitBooks
    <2> QED
      BY <2>2, <2>3, BalancesAre DEF Ledger!Init
  <1> QED
    BY <1>1, StepsOfTheLedger, IInvHolds, PTL DEF Spec, MovesAsTheLedger, Ledger!Spec

-----------------------------------------------------------------------------
(* Drafts that fit the credit. *)

\* A request knows the drafts of the notes it holds.
Known == \A w \in Workers : DraftsOf(job[w].notes) \subseteq job[w].drafts

\* Draft refunds fit, and will fit when the requests under way are done.
Fits == DraftRefundsFit /\ Known

\* Only the endpoint makes drafts of notes that may be held.
LEMMA KnownStays ==
  ASSUME Known, \A v \in Workers : job'[v] = Idle \/ job'[v] = job[v],
         \A v \in Workers, k \in DOMAIN refunds' :
           refunds'[k].note \in job[v].notes /\ refunds'[k].status = "DRAFT" =>
             /\ k \in DOMAIN refunds /\ refunds[k].note = refunds'[k].note
             /\ refunds[k].status = "DRAFT"
  PROVE  Known'
  BY IdleIsAJob DEF Known, DraftsOf

\* Nothing happens to the credit.
LEMMA CreditStays ==
  ASSUME Fits, UNCHANGED <<notes, refunds>>,
         \A v \in Workers : \/ job'[v] = Idle \/ job'[v] = job[v]
                            \/ DraftsOf(job'[v].notes) \subseteq job'[v].drafts
  PROVE  Fits'
  <1>1. DraftRefundsFit'
    BY DEF Fits, DraftRefundsFit, Refundable
  <1>2. Known'
    BY IdleIsAJob DEF Fits, Known, DraftsOf
  <1> QED
    BY <1>1, <1>2 DEF Fits

\* A request that uses the credit it holds resizes the drafts that it knows.
LEMMA UsedFits ==
  ASSUME IInv, Fits, NEW w \in Workers, Done(w), NEW drafts,
         \A n \in DOMAIN notes \ job[w].notes : notes'[n] = notes[n],
         \A k \in job[w].drafts : notes'[refunds[k].note] # notes[refunds[k].note] => k \in drafts,
         \A n \in DOMAIN notes : Remaining(notes'[n]) \in Nat,
         drafts \subseteq job[w].drafts,
         DOMAIN refunds' = DOMAIN refunds,
         \A k \in DOMAIN refunds : refunds'[k].status = "DRAFT" =>
              /\ refunds'[k].note = refunds[k].note
              /\ k \notin drafts => refunds'[k] = refunds[k]
              /\ k \in drafts => /\ refunds[k].status = "DRAFT"
                                 /\ refunds'[k].amount = Remaining(notes'[refunds[k].note])
  PROVE  Fits'
  <1>1. job'[w] = Idle /\ \A v \in Workers \ {w} : job'[v] = job[v]
    BY DoneIdles DEF IInv
  <1>2. \A k \in DOMAIN refunds : refunds[k].note \in DOMAIN notes
    BY RowTypes DEF IInv
  <1>3. ASSUME NEW k \in DOMAIN refunds, refunds'[k].status = "DRAFT"
        PROVE  Remaining(notes'[refunds'[k].note]) >= refunds'[k].amount
    <2>1. CASE k \in drafts
      BY <1>2, <1>3, <2>1
    <2>2. CASE k \notin drafts
      <3>1. refunds'[k] = refunds[k] /\ Remaining(notes[refunds[k].note]) >= refunds[k].amount
        BY <1>3, <2>2 DEF Fits, DraftRefundsFit, Refundable
      <3>2. k \in job[w].drafts \/ refunds[k].note \notin job[w].notes
        BY <1>3, <3>1 DEF Fits, Known, DraftsOf
      <3>3. notes'[refunds[k].note] = notes[refunds[k].note]
        BY <1>2, <2>2, <3>2
      <3> QED
        BY <3>1, <3>3
    <2> QED
      BY <2>1, <2>2
  <1>4. DraftRefundsFit'
    BY <1>3 DEF DraftRefundsFit, Refundable
  <1>5. Known'
    <2>1. \A v \in Workers, k \in DOMAIN refunds' :
           refunds'[k].note \in job[v].notes /\ refunds'[k].status = "DRAFT" =>
             /\ k \in DOMAIN refunds /\ refunds[k].note = refunds'[k].note
             /\ refunds[k].status = "DRAFT"
      OBVIOUS
    <2> QED
      BY <1>1, <2>1, KnownStays DEF Fits
  <1> QED
    BY <1>4, <1>5 DEF Fits

\* Making an account leaves the refunds.
LEMMA GenerateFits ==
  ASSUME IInv, Fits, NEW w \in Workers, GenerateFromReceipt(w)
  PROVE  Fits'
  <1> DEFINE ns      == job[w].notes
             used    == Using(ns, job[w].qty)
             touched == {n \in ns : used[n] # notes[n]}
             drafts  == {k \in job[w].drafts : refunds[k].note \in touched}
  <1>1. notes' = used /\ refunds' = Synced(used, drafts) /\ Done(w)
    BY DEF GenerateFromReceipt
  <1>2. /\ DOMAIN notes' = DOMAIN notes
        /\ \A n \in DOMAIN notes : notes'[n] \in Note /\ Remaining(notes'[n]) \in Nat
        /\ \A n \in DOMAIN notes \ ns : notes'[n] = notes[n]
    BY Generated
  <1>3. drafts \subseteq job[w].drafts
    OBVIOUS
  <1>4. \A k \in job[w].drafts : refunds[k].note \in ns /\ refunds[k].note \in DOMAIN notes
    BY DEF IInv, Locked, Holds
  <1>5. \A k \in job[w].drafts : notes'[refunds[k].note] # notes[refunds[k].note] => k \in drafts
    BY <1>1, <1>4
  <1> HIDE DEF used, drafts
  <1>6. /\ DOMAIN refunds' = DOMAIN refunds
        /\ \A k \in DOMAIN refunds :
             /\ refunds'[k].note = refunds[k].note
             /\ k \notin drafts => refunds'[k] = refunds[k]
             /\ k \in drafts => /\ refunds'[k].status \in {refunds[k].status, "CANCELLED"}
                                /\ \/ refunds'[k].status = "CANCELLED"
                                   \/ refunds'[k].amount = Remaining(notes'[refunds'[k].note])
    BY <1>1, <1>2, SyncedRefunds DEF IInv
  <1>7. \A k \in DOMAIN refunds : refunds'[k].status = "DRAFT" =>
              /\ refunds'[k].note = refunds[k].note
              /\ k \notin drafts => refunds'[k] = refunds[k]
              /\ k \in drafts => /\ refunds[k].status = "DRAFT"
                                 /\ refunds'[k].amount = Remaining(notes'[refunds[k].note])
    BY <1>6
  <1> QED
    BY <1>1, <1>2, <1>3, <1>5, <1>6, <1>7, UsedFits

\* What a refund uses was asked for before.
LEMMA ExecuteRefundFits ==
  ASSUME IInv, Fits, NEW w \in Workers, NEW account \in BOOLEAN, ExecuteRefund(w, account)
  PROVE  Fits'
  <1> DEFINE j == job[w]
  <1>1. /\ Done(w) /\ j.notes \subseteq DOMAIN notes
        /\ \A n \in DOMAIN notes : notes'[n] \in Note /\ Remaining(notes'[n]) \in Nat
        /\ \A n \in DOMAIN notes \ j.notes : notes'[n] = notes[n]
        /\ DOMAIN refunds' = DOMAIN refunds
        /\ \A k \in DOMAIN refunds :
              /\ refunds'[k].note = refunds[k].note
              /\ k \notin j.drafts \cup {j.number} => refunds'[k] = refunds[k]
              /\ k \in j.drafts => /\ refunds'[k].status \in {refunds[k].status, "CANCELLED"}
                                   /\ \/ refunds'[k].status = "CANCELLED"
                                      \/ refunds'[k].amount = Remaining(notes'[refunds'[k].note])
        /\ refunds'[j.number].status = "COMPLETED"
    BY RefundExecuted
  <1>2. \A k \in DOMAIN refunds : refunds'[k].status = "DRAFT" =>
              /\ refunds'[k].note = refunds[k].note
              /\ k \notin j.drafts => refunds'[k] = refunds[k]
              /\ k \in j.drafts => /\ refunds[k].status = "DRAFT"
                                   /\ refunds'[k].amount = Remaining(notes'[refunds[k].note])
    BY <1>1
  <1> QED
    BY <1>1, <1>2, UsedFits

\* A note is made for which nothing is asked.
LEMMA ReverseFits ==
  ASSUME IInv, Fits, NEW w \in Workers, NEW o \in Orders, NEW qty \in Amounts,
         ReverseForReturn(w, o, qty)
  PROVE  Fits'
  <1> DEFINE rest == qty - SumFunction(Adjustments(o, qty))
  <1>1. /\ rest \in Nat /\ job' = job
        /\ UNCHANGED <<notes, refunds>> \/ CreditMade(rest)
    BY Reversed
  <1> HIDE DEF rest
  <1>2. CASE UNCHANGED <<notes, refunds>>
    BY <1>1, <1>2, CreditStays
  <1>3. CASE CreditMade(rest)
    <2> DEFINE new == Len(refunds) + 1
    <2>1. /\ DOMAIN notes' = DOMAIN notes \cup {Len(notes) + 1}
          /\ \A n \in DOMAIN notes : notes'[n] = notes[n]
          /\ Remaining(notes'[Len(notes) + 1]) = rest
          /\ Len(notes) + 1 \notin DOMAIN notes
          /\ DOMAIN refunds' = DOMAIN refunds \cup {new}
          /\ \A k \in DOMAIN refunds : refunds'[k] = refunds[k]
          /\ refunds'[new].note = Len(notes) + 1 /\ refunds'[new].amount = rest
      BY <1>3 DEF CreditMade
    <2> HIDE DEF new
    <2>2. \A k \in DOMAIN refunds : refunds[k].note \in DOMAIN notes
      BY RowTypes DEF IInv
    <2>3. DraftRefundsFit'
      <3> SUFFICES ASSUME NEW k \in DOMAIN refunds', refunds'[k].status = "DRAFT"
                   PROVE  Remaining(notes'[refunds'[k].note]) >= refunds'[k].amount
        BY DEF DraftRefundsFit, Refundable
      <3>1. CASE k = new
        BY <1>1, <2>1, <3>1
      <3>2. CASE k \in DOMAIN refunds
        BY <2>1, <2>2, <3>2 DEF Fits, DraftRefundsFit, Refundable
      <3> QED
        BY <2>1, <3>1, <3>2
    <2>4. \A v \in Workers : job[v].notes \subseteq DOMAIN notes
      BY DEF IInv, Locked, Holds
    <2>5. \A v \in Workers, k \in DOMAIN refunds' :
           refunds'[k].note \in job[v].notes /\ refunds'[k].status = "DRAFT" =>
             /\ k \in DOMAIN refunds /\ refunds[k].note = refunds'[k].note
             /\ refunds[k].status = "DRAFT"
      BY <2>1, <2>4
    <2>6. Known'
      BY <1>1, <2>5, KnownStays DEF Fits
    <2> QED
      BY <2>3, <2>6 DEF Fits
  <1> QED
    BY <1>1, <1>2, <1>3

\* Alone, a refund asks for no more than is left.
LEMMA CreateRefundFits ==
  ASSUME "create_refund" \notin Racing, IInv, Fits, NEW w \in Workers, NEW n \in DOMAIN notes,
         CreateRefund(w, n)
  PROVE  Fits'
  <1> DEFINE refund == [note |-> n, amount |-> Remaining(notes[n]), status |-> "DRAFT",
                        account |-> FALSE]
             last == Len(refunds) + 1
  <1>1. /\ refunds' = Append(refunds, refund) /\ UNCHANGED <<notes, job>>
        /\ \A v \in Workers : job[v] = Idle
    BY DEF CreateRefund, MayStart
  <1>2. refund.note = n /\ refund.amount = Remaining(notes[n])
    OBVIOUS
  <1> HIDE DEF refund
  <1>3. /\ DOMAIN refunds' = DOMAIN refunds \cup {last}
        /\ \A k \in DOMAIN refunds : refunds'[k] = refunds[k]
        /\ refunds'[last] = refund
    BY <1>1, RowMade DEF IInv, Rows
  <1> HIDE DEF last
  <1>4. Remaining(notes[n]) \in Int
    BY RowTypes DEF IInv, Note, Remaining
  <1>5. DraftRefundsFit'
    <2> SUFFICES ASSUME NEW k \in DOMAIN refunds', refunds'[k].status = "DRAFT"
                 PROVE  Remaining(notes'[refunds'[k].note]) >= refunds'[k].amount
      BY DEF DraftRefundsFit, Refundable
    <2>1. CASE k = last
      BY <1>1, <1>2, <1>3, <1>4, <2>1
    <2>2. CASE k \in DOMAIN refunds
      BY <1>1, <1>3, <2>2 DEF Fits, DraftRefundsFit, Refundable
    <2> QED
      BY <1>3, <2>1, <2>2
  <1>6. Known'
    BY <1>1, IdleIsAJob DEF Known, DraftsOf
  <1> QED
    BY <1>5, <1>6 DEF Fits

\* Submitting and approving ask for nothing new.
LEMMA MoveRefundFits ==
  ASSUME IInv, Fits, NEW w \in Workers, NEW k \in DOMAIN refunds,
         SubmitRefund(w, k) \/ ApproveRefund(w, k)
  PROVE  Fits'
  <1>1. PICK kind, from, to : /\ MoveRefund(w, kind, k, from, to)
                              /\ to \in RefundStatus \ {"DRAFT"}
    BY DEF SubmitRefund, ApproveRefund, RefundStatus
  <1>2. /\ DOMAIN refunds' = DOMAIN refunds
        /\ \A i \in DOMAIN refunds : refunds'[i] = IF i = k THEN [refunds[k] EXCEPT !.status = to]
                                                   ELSE refunds[i]
        /\ refunds'[k].status = to
        /\ notes' = notes /\ job' = job
    <2>1. to \in RefundStatus
      BY <1>1
    <2> QED
      BY <1>1, <2>1, RefundMoved
  <1>3. /\ \A i \in DOMAIN refunds \ {k} : refunds'[i] = refunds[i]
        /\ refunds'[k].status # "DRAFT"
    BY <1>1, <1>2
  <1>4. DraftRefundsFit'
    BY <1>2, <1>3 DEF Fits, DraftRefundsFit, Refundable
  <1>5. Known'
    BY <1>2, <1>3 DEF Fits, Known, DraftsOf
  <1> QED
    BY <1>4, <1>5 DEF Fits

\* Taking a lock on notes reads the drafts of them.
LEMMA LockFits ==
  ASSUME IInv, Fits, NEW w \in Workers, NEW ns, NEW j, job' = [job EXCEPT ![w] = j],
         j.notes = ns, j.drafts = DraftsOf(ns), UNCHANGED <<notes, refunds>>
  PROVE  Fits'
  <1>1. job'[w] = j /\ \A v \in Workers \ {w} : job'[v] = job[v]
    BY DEF IInv, Rows
  <1> QED
    BY <1>1, CreditStays

\* Every step keeps refunds within their notes.
LEMMA NextFits ==
  ASSUME "create_refund" \notin Racing, IInv, Fits, [Next]_vars
  PROVE  Fits'
  <1>1. CASE UNCHANGED vars
    BY <1>1, CreditStays DEF vars
  <1>2. ASSUME NEW w \in Workers, NEW o \in Orders, NEW qty \in Amounts, LockNotes(w, o, qty)
        PROVE  Fits'
    <2> DEFINE j == [Idle EXCEPT !.kind = "receive", !.order = o, !.qty = qty,
                                 !.notes = DOMAIN notes, !.drafts = DraftsOf(DOMAIN notes)]
    <2>1. /\ job' = [job EXCEPT ![w] = j] /\ UNCHANGED <<notes, refunds>>
          /\ j.notes = DOMAIN notes /\ j.drafts = DraftsOf(DOMAIN notes)
      BY <1>2 DEF LockNotes, Idle
    <2> HIDE DEF j
    <2> QED
      BY <2>1, LockFits
  <1>3. ASSUME NEW w \in Workers, NEW k \in DOMAIN refunds, LockRefund(w, k)
        PROVE  Fits'
    <2> DEFINE ns == {refunds[k].note}
               j == [Idle EXCEPT !.kind = "execute_refund", !.number = k,
                                 !.qty = refunds[k].amount, !.notes = ns,
                                 !.drafts = DraftsOf(ns)]
    <2>1. /\ job' = [job EXCEPT ![w] = j] /\ UNCHANGED <<notes, refunds>>
          /\ j.notes = ns /\ j.drafts = DraftsOf(ns)
      BY <1>3 DEF LockRefund, Idle
    <2> HIDE DEF j
    <2> QED
      BY <2>1, LockFits
  <1>4. ASSUME NEW w \in Workers, GoodsStep(w)
        PROVE  Fits'
    BY <1>2, <1>4, ReverseFits, GenerateFits DEF GoodsStep
  <1>5. ASSUME NEW w \in Workers, RefundStep(w)
        PROVE  Fits'
    BY <1>3, <1>5, CreateRefundFits, MoveRefundFits, ExecuteRefundFits DEF RefundStep
  <1>6. ASSUME NEW w \in Workers, PaymentStep(w) \/ Abort(w)
        PROVE  Fits'
    <2>1. UNCHANGED <<notes, refunds>>
      BY <1>6 DEF PaymentStep, CreatePayment, SubmitPayment, LoadPayment, ApprovePayment,
                  ExecutePayment, AllocatePayment, Abort
    <2>2. \/ job' = job \/ Done(w)
          \/ \E p \in DOMAIN payments : LoadPayment(w, p)
      BY <1>6 DEF PaymentStep, CreatePayment, SubmitPayment, ApprovePayment,
                  ExecutePayment, AllocatePayment, Abort
    <2>3. \A v \in Workers : \/ job'[v] = Idle \/ job'[v] = job[v]
                             \/ DraftsOf(job'[v].notes) \subseteq job'[v].drafts
      <3>1. CASE job' = job
        BY <3>1
      <3>2. CASE Done(w)
        BY <3>2, DoneIdles DEF IInv
      <3>3. ASSUME NEW p \in DOMAIN payments, LoadPayment(w, p)
            PROVE  \A v \in Workers : \/ job'[v] = Idle \/ job'[v] = job[v]
                                      \/ DraftsOf(job'[v].notes) \subseteq job'[v].drafts
        <4> DEFINE j == [Idle EXCEPT !.kind = "submit_payment", !.number = p]
        <4>1. job' = [job EXCEPT ![w] = j] /\ j.notes = {}
          BY <3>3 DEF LoadPayment, Idle
        <4> HIDE DEF j
        <4>2. job'[w] = j /\ \A v \in Workers \ {w} : job'[v] = job[v]
          BY <4>1 DEF IInv, Rows
        <4> QED
          BY <4>1, <4>2 DEF DraftsOf
      <3> QED
        BY <2>2, <3>1, <3>2, <3>3
    <2> QED
      BY <2>1, <2>3, CreditStays
  <1> QED
    BY <1>1, <1>4, <1>5, <1>6 DEF Next

(***************************************************************************)
(* The sub-ledger is sound whatever overlaps, save the endpoint that makes *)
(* a refund of a credit note: served alone, it leaves no draft for more    *)
(* than the credit that is left, though the requests that resize drafts    *)
(* read them before they write.                                            *)
(***************************************************************************)
THEOREM SubLedgerIsSound ==
  ASSUME "create_refund" \notin Racing
  PROVE  Spec => []SubLedgerSound
  <1>1. Init => Fits
    BY IdleIsAJob DEF Init, Fits, DraftRefundsFit, Known, DraftsOf
  <1>2. IInv /\ Fits /\ [Next]_vars => Fits'
    BY NextFits
  <1>3. Fits => DraftRefundsFit
    BY DEF Fits
  <1>4. TypeOK /\ NothingOverdrawn /\ CashExplained /\ DraftRefundsFit => SubLedgerSound
    BY DEF SubLedgerSound
  <1> QED
    BY <1>1, <1>2, <1>3, <1>4, IInvHolds, NeverOverdrawn, CashIsExplained, PTL DEF Spec

-----------------------------------------------------------------------------
(* Payments that stay executed. *)

\* A payment that was loaded to be submitted is a draft still: nobody else is served.
Alone ==
  /\ \A p \in DOMAIN payments : payments[p].executed => payments[p].status \in {"APPROVED", "COMPLETED"}
  /\ \A w \in Workers : job[w].kind = "submit_payment" =>
       /\ job[w].number \in DOMAIN payments /\ Submittable(job[w].number)
       /\ \A v \in Workers \ {w} : job[v] = Idle

Stays == \A p \in DOMAIN payments :
           payments[p].executed => payments'[p].status \in {payments[p].status, "COMPLETED"}

\* A request that may start beside a submission starts alone.
LEMMA StartsAlone ==
  ASSUME "submit_payment" \notin Racing, Alone, NEW w \in Workers, NEW kind, MayStart(w, kind)
  PROVE  \A v \in Workers : job[v].kind # "submit_payment"
  BY IdleIsAJob DEF Alone, MayStart

\* The payments are as they were, or more of them.
LEMMA AloneStays ==
  ASSUME IInv, Alone, NEW w \in Workers,
         DOMAIN payments \subseteq DOMAIN payments',
         \A p \in DOMAIN payments : payments'[p] = payments[p],
         \A p \in DOMAIN payments' \ DOMAIN payments : ~ payments'[p].executed,
         \A v \in Workers \ {w} : job'[v] = job[v],
         job'[w] = Idle \/ job'[w] = job[w] \/
           /\ \A v \in Workers : job[v].kind # "submit_payment"
           /\ job'[w].kind = "submit_payment" =>
                /\ job'[w].number \in DOMAIN payments /\ Submittable(job'[w].number)
                /\ \A v \in Workers \ {w} : job[v] = Idle
  PROVE  Alone' /\ Stays
  <1>1. Stays
    BY DEF Stays
  <1>2. \A p \in DOMAIN payments' : payments'[p].executed =>
          payments'[p].status \in {"APPROVED", "COMPLETED"}
    BY DEF Alone
  <1>3. \A v \in Workers : job'[v].kind = "submit_payment" =>
          /\ job'[v].number \in DOMAIN payments' /\ payments'[job'[v].number].status = "DRAFT"
          /\ \A u \in Workers \ {v} : job'[u] = Idle
    BY IdleIsAJob DEF Alone, Submittable
  <1> QED
    BY <1>1, <1>2, <1>3 DEF Alone, Submittable

\* A step that changes the status or the execution of one payment, served beside no submission.
LEMMA AloneChanges ==
  ASSUME IInv, Alone, NEW p \in DOMAIN payments, UNCHANGED job,
         \A v \in Workers : job[v].kind # "submit_payment",
         DOMAIN payments' = DOMAIN payments,
         \A i \in DOMAIN payments \ {p} : payments'[i] = payments[i],
         payments'[p].executed => payments'[p].status \in {"APPROVED", "COMPLETED"},
         payments[p].executed => payments'[p].status \in {payments[p].status, "COMPLETED"}
  PROVE  Alone' /\ Stays
  <1>1. Stays
    BY DEF Stays
  <1>2. Alone'
    BY DEF Alone
  <1> QED
    BY <1>1, <1>2

\* Receipts and returns leave payments as they are.
LEMMA GoodsAlone ==
  ASSUME "submit_payment" \notin Racing, IInv, Alone, NEW w \in Workers, GoodsStep(w)
  PROVE  Alone' /\ Stays
  <1>1. payments' = payments
    BY DEF GoodsStep, LockNotes, ReverseForReturn, GenerateFromReceipt
  <1>2. CASE GenerateFromReceipt(w)
    <2>1. Done(w)
      BY <1>2 DEF GenerateFromReceipt
    <2> QED
      BY <1>1, <2>1, DoneIdles, AloneStays DEF IInv
  <1>3. CASE \E o \in Orders, qty \in Amounts : ReverseForReturn(w, o, qty)
    <2>1. job' = job
      BY <1>3 DEF ReverseForReturn
    <2> QED
      BY <1>1, <2>1, AloneStays
  <1>4. ASSUME NEW o \in Orders, NEW qty \in Amounts, LockNotes(w, o, qty)
        PROVE  Alone' /\ Stays
    <2> DEFINE j == [Idle EXCEPT !.kind = "receive", !.order = o, !.qty = qty,
                                 !.notes = DOMAIN notes, !.drafts = DraftsOf(DOMAIN notes)]
    <2>1. job' = [job EXCEPT ![w] = j] /\ MayStart(w, "receive") /\ j.kind = "receive"
      BY <1>4 DEF LockNotes, Idle
    <2> HIDE DEF j
    <2>2. \A v \in Workers : job[v].kind # "submit_payment"
      BY <2>1, StartsAlone
    <2>3. job'[w].kind = "receive" /\ \A v \in Workers \ {w} : job'[v] = job[v]
      BY <2>1 DEF IInv, Rows
    <2> QED
      BY <1>1, <2>2, <2>3, AloneStays
  <1> QED
    BY <1>2, <1>3, <1>4 DEF GoodsStep

\* So do refunds.
LEMMA RefundsAlone ==
  ASSUME "submit_payment" \notin Racing, IInv, Alone, NEW w \in Workers, RefundStep(w)
  PROVE  Alone' /\ Stays
  <1>1. payments' = payments
    BY DEF RefundStep, CreateRefund, SubmitRefund, ApproveRefund, MoveRefund, LockRefund,
           ExecuteRefund
  <1>2. CASE \E account \in BOOLEAN : ExecuteRefund(w, account)
    <2>1. Done(w)
      BY <1>2 DEF ExecuteRefund
    <2> QED
      BY <1>1, <2>1, DoneIdles, AloneStays DEF IInv
  <1>3. CASE job' = job
    BY <1>1, <1>3, AloneStays
  <1>4. ASSUME NEW k \in DOMAIN refunds, LockRefund(w, k)
        PROVE  Alone' /\ Stays
    <2> DEFINE ns == {refunds[k].note}
               j == [Idle EXCEPT !.kind = "execute_refund", !.number = k,
                                 !.qty = refunds[k].amount, !.notes = ns,
                                 !.drafts = DraftsOf(ns)]
    <2>1. /\ job' = [job EXCEPT ![w] = j] /\ MayStart(w, "execute_refund")
          /\ j.kind = "execute_refund"
      BY <1>4 DEF LockRefund, Idle
    <2> HIDE DEF j
    <2>2. \A v \in Workers : job[v].kind # "submit_payment"
      BY <2>1, StartsAlone
    <2>3. job'[w].kind = "execute_refund" /\ \A v \in Workers \ {w} : job'[v] = job[v]
      BY <2>1 DEF IInv, Rows
    <2> QED
      BY <1>1, <2>2, <2>3, AloneStays
  <1> QED
    BY <1>2, <1>3, <1>4
       DEF RefundStep, CreateRefund, SubmitRefund, ApproveRefund, MoveRefund

\* A payment that was executed is not submitted again.
LEMMA PaymentsAlone ==
  ASSUME "submit_payment" \notin Racing, IInv, Alone, NEW w \in Workers, PaymentStep(w)
  PROVE  Alone' /\ Stays
  <1>1. ASSUME NEW amount \in Amounts, NEW account \in BOOLEAN,
               CreatePayment(w, amount, account)
        PROVE  Alone' /\ Stays
    <2> DEFINE new == [amount |-> amount, allocated |-> 0, status |-> "DRAFT",
                       account |-> account, executed |-> FALSE]
    <2>1. payments' = Append(payments, new) /\ job' = job /\ ~ new.executed
      BY <1>1 DEF CreatePayment
    <2> HIDE DEF new
    <2>2. /\ DOMAIN payments' = DOMAIN payments \cup {Len(payments) + 1}
          /\ \A p \in DOMAIN payments : payments'[p] = payments[p]
          /\ payments'[Len(payments) + 1] = new
      BY <2>1, RowMade DEF IInv, Rows
    <2> QED
      BY <2>1, <2>2, AloneStays
  <1>2. ASSUME NEW p \in DOMAIN payments, LoadPayment(w, p)
        PROVE  Alone' /\ Stays
    <2> DEFINE j == [Idle EXCEPT !.kind = "submit_payment", !.number = p]
    <2>1. /\ job' = [job EXCEPT ![w] = j] /\ MayStart(w, "submit_payment") /\ Submittable(p)
          /\ j.kind = "submit_payment" /\ j.number = p /\ payments' = payments
      BY <1>2 DEF LoadPayment, Idle
    <2> HIDE DEF j
    <2>2. \A v \in Workers : job[v] = Idle
      BY <2>1 DEF MayStart
    <2>3. job'[w] = j /\ \A v \in Workers \ {w} : job'[v] = job[v]
      BY <2>1 DEF IInv, Rows
    <2>4. \A v \in Workers : job[v].kind # "submit_payment"
      BY <2>2, IdleIsAJob
    <2> QED
      BY <2>1, <2>2, <2>3, <2>4, AloneStays
  <1>3. ASSUME NEW approval \in Approval, SubmitPayment(w, approval)
        PROVE  Alone' /\ Stays
    <2> DEFINE p == job[w].number
               to == IF approval THEN "PENDING_APPROVAL" ELSE "APPROVED"
    <2>1. payments' = [payments EXCEPT ![p].status = to] /\ Done(w)
          /\ p \in DOMAIN payments /\ payments[p].status = "DRAFT" /\ ~ payments[p].executed
          /\ \A v \in Workers \ {w} : job[v] = Idle
      BY <1>3 DEF SubmitPayment, Alone, Submittable
    <2>2. to # "DRAFT"
      OBVIOUS
    <2> HIDE DEF p, to
    <2>3. payments[p] \in Payment
      BY <2>1, RowTypes DEF IInv
    <2>4. /\ DOMAIN payments' = DOMAIN payments
          /\ \A i \in DOMAIN payments \ {p} : payments'[i] = payments[i]
          /\ payments'[p].status = to
      BY <2>1, <2>3 DEF Payment
    <2>5. \A v \in Workers : job'[v] = Idle
      BY <2>1, DoneIdles DEF IInv
    <2>6. Stays
      BY <2>1, <2>4 DEF Stays
    <2>7. Alone'
      BY <2>1, <2>2, <2>4, <2>5, IdleIsAJob DEF Alone
    <2> QED
      BY <2>6, <2>7
  <1>4. ASSUME NEW p \in DOMAIN payments, ApprovePayment(w, p) \/ ExecutePayment(w, p)
        PROVE  Alone' /\ Stays
    <2>1. \/ /\ payments[p].status = "PENDING_APPROVAL"
             /\ payments' = [payments EXCEPT ![p].status = "APPROVED"]
          \/ /\ payments[p].status = "APPROVED" /\ ~ payments[p].executed
             /\ payments' = [payments EXCEPT ![p].executed = TRUE]
      BY <1>4 DEF ApprovePayment, ExecutePayment, Executable
    <2>2. job' = job /\ \E kind : MayStart(w, kind)
      BY <1>4 DEF ApprovePayment, ExecutePayment
    <2>3. \A v \in Workers : job[v].kind # "submit_payment"
      BY <2>2, StartsAlone
    <2>4. payments[p] \in Payment
      BY RowTypes DEF IInv
    <2>5. /\ DOMAIN payments' = DOMAIN payments
          /\ \A i \in DOMAIN payments \ {p} : payments'[i] = payments[i]
          /\ payments'[p].status = "APPROVED"
      BY <2>1, <2>4 DEF Payment
    <2>6. ~ payments[p].executed
      BY <2>1 DEF Alone
    <2> QED
      BY <2>2, <2>3, <2>5, <2>6, AloneChanges
  <1>5. ASSUME NEW p \in DOMAIN payments, NEW is \in (SUBSET DOMAIN accounts) \ {{}},
               NEW partial \in Partial, NEW share \in [is -> Amounts],
               AllocatePayment(w, p, share, partial)
        PROVE  Alone' /\ Stays
    <2>1. /\ payments[p].executed /\ job' = job
          /\ DOMAIN payments' = DOMAIN payments
          /\ \A i \in DOMAIN payments \ {p} : payments'[i] = payments[i]
          /\ payments'[p].status \in {payments[p].status, "COMPLETED"}
      BY <1>5, Allocated
    <2>2. payments[p].status \in {"APPROVED", "COMPLETED"}
      BY <2>1 DEF Alone
    <2>3. \A v \in Workers : job[v].kind # "submit_payment"
      <3>1. MayStart(w, "allocate")
        BY <1>5 DEF AllocatePayment
      <3> QED
        BY <3>1, StartsAlone
    <2> QED
      BY <2>1, <2>2, <2>3, AloneChanges
  <1>6. CASE \E p \in DOMAIN payments :
               LoadPayment(w, p) \/ ApprovePayment(w, p) \/ ExecutePayment(w, p)
    BY <1>2, <1>4, <1>6
  <1>7. CASE \E p \in DOMAIN payments, is \in (SUBSET DOMAIN accounts) \ {{}},
                partial \in Partial :
               \E share \in [is -> Amounts] : AllocatePayment(w, p, share, partial)
    BY <1>5, <1>7
  <1> QED
    BY <1>1, <1>3, <1>6, <1>7 DEF PaymentStep

\* No step takes a payment back.
LEMMA NextAlone ==
  ASSUME "submit_payment" \notin Racing, IInv, Alone, [Next]_vars
  PROVE  Alone' /\ Stays
  <1>1. CASE UNCHANGED vars
    BY <1>1 DEF vars, Alone, Submittable, Stays
  <1>2. ASSUME NEW w \in Workers, Abort(w)
        PROVE  Alone' /\ Stays
    <2>1. Done(w) /\ payments' = payments
      BY <1>2 DEF Abort
    <2> QED
      BY <2>1, DoneIdles, AloneStays DEF IInv
  <1> QED
    BY <1>1, <1>2, GoodsAlone, RefundsAlone, PaymentsAlone DEF Next

(***************************************************************************)
(* A payment that has left the account is never open again, unless two     *)
(* submissions of it overlap: beside submissions that are served alone,    *)
(* anything else may.                                                      *)
(***************************************************************************)
THEOREM ExecutedStaysExecuted ==
  ASSUME "submit_payment" \notin Racing
  PROVE  Spec => ExecutedStays
  <1>1. Init => Alone
    BY IdleIsAJob DEF Init, Alone
  <1>2. IInv /\ Alone /\ [Next]_vars => Alone' /\ Stays
    BY NextAlone
  <1>3. IInv /\ Alone /\ [Next]_vars =>
          [\A p \in DOMAIN payments :
             payments[p].executed => payments'[p].status \in {payments[p].status, "COMPLETED"}]_vars
    BY <1>2 DEF Stays
  <1> QED
    BY <1>1, <1>2, <1>3, IInvHolds, PTL DEF Spec, ExecutedStays
=============================================================================
