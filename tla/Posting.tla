------------------------------ MODULE Posting ------------------------------
(***************************************************************************)
(* The accounting module: PostingService and PeriodService.                *)
(*                                                                         *)
(* Executing a business document (a receipt of goods or money, a payment,  *)
(* a refund, a return...) posts one voucher, in the same transaction and   *)
(* with the row of the document locked.  The posting looks up the log of   *)
(* the event, locks the period of the voucher's date, creating it if it is *)
(* the first of its month, and writes voucher and log.  What execution     *)
(* does to stock and money is modelled elsewhere.                          *)
(***************************************************************************)
EXTENDS Integers, Sequences

CONSTANTS Documents,
          EventOf,           \* the event each one posts
          Amount,            \* and for how much
          DatedByUser,       \* those that carry a date of their own
          Months,            \* 1 .. the last month
          AutoPosting,       \* values the settings of the policy may have
          Edited,            \* bound: the subjects that are ever edited
          Requests, Racing,  \* the kinds of request, and those that may overlap
          Threads,
          NoDocument

VARIABLES
  today,      \* the month it is
  document,   \* the status and the month of each document
  period,     \* AccountingPeriod.status by month, "none" where there is no row
  subject,    \* AccountSubject by code: enabled, disabled or missing
  vouchers,   \* the Voucher rows in the order they were made, by the month of their period
  logged,     \* the documents with a BusinessPostingLog row
  balance,    \* debits less credits of each subject
  shut,       \* history: months closed on request, since neither reopened nor deleted
  job         \* the request each thread is serving

books == <<vouchers, logged, balance>>
postingVars == <<today, document, period, subject, books, shut, job>>

Accounts == INSTANCE GeneralLedger
            WITH Events <- {EventOf[d] : d \in Documents},
                 Amounts <- {Amount[d] : d \in Documents} \ {0},
                 balance <- balance

Entry(d) == Accounts!Lines[EventOf[d]]

ASSUME PostingAssumption ==
  /\ EventOf \in [Documents -> DOMAIN Accounts!Lines]
  /\ Amount \in [Documents -> Nat]
  /\ DatedByUser \subseteq Documents
  /\ Edited \subseteq Accounts!Subjects
  /\ Months \subseteq Nat \ {0}
  /\ 1 \in Months
  /\ AutoPosting \subseteq BOOLEAN
  /\ Racing \subseteq Requests
  /\ NoDocument \notin Documents

\* The month of a period that is not there.
NoMonth == 0

Idle == [kind |-> "idle", document |-> NoDocument, month |-> NoMonth, status |-> "none"]

\* An execution that is posting is an execution still.
Request(v) == IF job[v].kind = "post" THEN "execute" ELSE job[v].kind

\* The request may be served beside those under way.
MayStart(w, kind) ==
  /\ kind \in Requests
  /\ job[w] = Idle
  /\ \A v \in Threads \ {w} :
       job[v] = Idle \/ (kind \in Racing /\ Request(v) \in Racing)

Done(w) == job' = [job EXCEPT ![w] = Idle]

\* SubjectInitService.init_subjects has made the subjects.
PostingInit ==
  /\ today = 1
  /\ document = [d \in Documents |-> [status |-> "APPROVED", month |-> 1]]
  /\ period = [m \in Months |-> "none"]
  /\ subject = [s \in Accounts!Subjects |-> "enabled"]
  /\ vouchers = << >>
  /\ logged = {}
  /\ balance = [s \in Accounts!Subjects |-> 0]
  /\ shut = {}
  /\ job = [w \in Threads |-> Idle]

-----------------------------------------------------------------------------
(* Documents. *)

\* The month goes by.
PassMonth ==
  /\ today + 1 \in Months
  /\ today' = today + 1
  /\ UNCHANGED <<document, period, subject, books, shut, job>>

Executing(w) == Request(w) = "execute"

\* Mutation of DocumentFree: the row is read without a lock.
DocumentUnlocked(d) == TRUE

\* The row of d is not locked by an execution.
DocumentFree(d) == \A v \in Threads : Executing(v) => job[v].document # d

\* The status of d can be sent: the serializer of a receipt of goods has nothing read-only.
StatusSent(d) == EventOf[d] = "PURCHASE_RECEIPT"

\* The inherited update of a document, which checks no status, up to its save.
LoadDocument(w, d, m, status) ==
  /\ MayStart(w, "edit")
  /\ d \in DatedByUser \/ m = document[d].month
  /\ StatusSent(d) \/ status = document[d].status
  /\ job' = [job EXCEPT ![w] = [kind |-> "edit", document |-> d, month |-> m,
                                status |-> status]]
  /\ UNCHANGED <<today, document, period, subject, books, shut>>

\* It saves every column: the status, too, if none was sent as it was loaded.
SaveDocument(w) ==
  /\ job[w].kind = "edit"
  /\ DocumentFree(job[w].document)
  /\ document' = [document EXCEPT ![job[w].document] =
                    [status |-> job[w].status, month |-> job[w].month]]
  /\ Done(w)
  /\ UNCHANGED <<today, period, subject, books, shut>>

Executed(d) == document' = [document EXCEPT ![d].status = "EXECUTED"]

\* Mutation of Logged: an event is looked up by its date as well.
LoggedByDate(d) ==
  \E i \in DOMAIN vouchers : vouchers[i] = [document |-> d, month |-> document[d].month]

\* The event of d was posted.
Logged(d) == d \in logged

\* execute, where the document needs no voucher: posting is off, or found in the log.
ExecuteOnly(w, d, auto) ==
  /\ MayStart(w, "execute")
  /\ DocumentFree(d)
  /\ document[d].status = "APPROVED"
  /\ auto => Logged(d)
  /\ Executed(d)
  /\ UNCHANGED <<today, period, subject, books, shut, job>>

\* The date of the voucher.
MonthOf(d) == IF d \in DatedByUser THEN document[d].month ELSE today

\* execute, up to the voucher: the row is locked and read again.
Execute(w, d) ==
  /\ MayStart(w, "execute")
  /\ TRUE \in AutoPosting
  /\ DocumentFree(d)
  /\ document[d].status = "APPROVED"
  /\ Amount[d] > 0
  /\ ~ Logged(d)
  /\ job' = [job EXCEPT ![w] = [kind |-> "execute", document |-> d, month |-> MonthOf(d),
                                status |-> "none"]]
  /\ UNCHANGED <<today, document, period, subject, books, shut>>

-----------------------------------------------------------------------------
(* Vouchers. *)

\* Mutation of PeriodFree: the period is read without a lock.
PeriodUnlocked(m) == TRUE

\* The row of period m is not locked by a posting.
PeriodFree(m) == \A v \in Threads : job[v].kind = "post" => job[v].month # m

\* PeriodService.ensure_open: the period stays locked until the transaction ends.
EnsureOpen(w) ==
  /\ job[w].kind = "execute"
  /\ PeriodFree(job[w].month)
  /\ period[job[w].month] # "CLOSED"
  /\ job' = [job EXCEPT ![w].kind = "post"]
  /\ UNCHANGED <<today, document, period, subject, books, shut>>

\* VoucherService._load_subject finds both subjects.
SubjectsLoad(d) == subject[Entry(d).debit] = "enabled" /\ subject[Entry(d).credit] = "enabled"

\* create_voucher and the log, and the commit of the execution.
PostVoucher(w) ==
  LET d == job[w].document
      m == job[w].month
  IN  /\ job[w].kind = "post"
      /\ SubjectsLoad(d)
      /\ ~ Logged(d)
      /\ period' = [period EXCEPT ![m] = "OPEN"]
      /\ vouchers' = Append(vouchers, [document |-> d, month |-> m])
      /\ logged' = logged \cup {d}
      /\ balance' = Accounts!Entered(balance, EventOf[d], Amount[d])
      /\ Executed(d)
      /\ Done(w)
      /\ UNCHANGED <<today, subject, shut>>

\* Mutation of Refused: an execution waits for its period to be opened.
RefusedForSubjects(w) == job[w].kind = "post" /\ ~ SubjectsLoad(job[w].document)

\* An edit moves a period to a month that has one: tenant, year and month are unique.
MonthTaken(w) == job[w].to # job[w].month /\ period[job[w].to] # "none"

\* What the methods and the database answer with an error.
Refused(w) ==
  \/ job[w].kind = "execute" /\ period[job[w].month] = "CLOSED"
  \/ job[w].kind = "post" /\ ~ SubjectsLoad(job[w].document)
  \/ job[w].kind = "edit_period" /\ MonthTaken(w)

\* Mutation of Refuse: the lines are saved one by one, and not rolled back.
RefuseHalf(w) ==
  LET debit == Entry(job[w].document).debit IN
  /\ Refused(w)
  /\ balance' = IF job[w].kind = "post" /\ subject[debit] = "enabled"
                THEN [balance EXCEPT ![debit] = @ + Amount[job[w].document]] ELSE balance
  /\ Done(w)
  /\ UNCHANGED <<today, document, period, subject, vouchers, logged, shut>>

\* The request is rolled back whole.
Refuse(w) ==
  /\ Refused(w)
  /\ Done(w)
  /\ UNCHANGED <<today, document, period, subject, books, shut>>

\* So it is where the process or the database fails.
Fail(w) ==
  /\ Executing(w)
  /\ Done(w)
  /\ UNCHANGED <<today, document, period, subject, books, shut>>

-----------------------------------------------------------------------------
(* Periods and subjects. *)

\* close_period, where the policy lets periods be closed.
ClosePeriod(w, m) ==
  /\ MayStart(w, "close_period")
  /\ PeriodFree(m)
  /\ period[m] = "OPEN"
  /\ period' = [period EXCEPT ![m] = "CLOSED"]
  /\ shut' = shut \cup {m}
  /\ UNCHANGED <<today, document, subject, books, job>>

\* open_period.
OpenPeriod(w, m) ==
  /\ MayStart(w, "open_period")
  /\ PeriodFree(m)
  /\ period[m] = "CLOSED"
  /\ period' = [period EXCEPT ![m] = "OPEN"]
  /\ shut' = shut \ {m}
  /\ UNCHANGED <<today, document, subject, books, job>>

\* The inherited update of a period, up to its save: the status and the month that were
\* sent, or else loaded, and the status it had.
LoadPeriod(w, m, status, to) ==
  /\ MayStart(w, "edit_period")
  /\ period[m] # "none"
  /\ job' = [job EXCEPT ![w] = [kind |-> "edit_period", document |-> NoDocument, month |-> m,
                                status |-> status, was |-> period[m], to |-> to]]
  /\ UNCHANGED <<today, document, period, subject, books, shut>>

\* Edits under way keep the row they loaded, when its month is another or it is gone.
Followed(m, to) ==
  [v \in Threads |-> IF job[v].kind = "edit_period" /\ job[v].month = m
                     THEN [job[v] EXCEPT !.month = to] ELSE job[v]]

\* What the edit of w saves is closed on request: it turns the status it had to CLOSED, or
\* leaves it, and the period was so.
Shuts(w) == IF job[w].status = job[w].was THEN job[w].month \in shut ELSE job[w].status = "CLOSED"

\* It saves every column, and inserts a row that is gone.  A period that is moved to
\* another month takes its vouchers along.
SavePeriod(w) ==
  LET m  == job[w].month
      to == job[w].to IN
  /\ job[w].kind = "edit_period"
  /\ PeriodFree(m) /\ PeriodFree(to)
  /\ ~ MonthTaken(w)
  /\ period' = [k \in Months |-> IF k = to THEN job[w].status
                                 ELSE IF k = m THEN "none" ELSE period[k]]
  /\ vouchers' = [i \in 1 .. Len(vouchers) |->
                    IF vouchers[i].month = m THEN [vouchers[i] EXCEPT !.month = to] ELSE vouchers[i]]
  /\ shut' = (shut \ {m}) \cup (IF Shuts(w) THEN {to} ELSE {})
  /\ job' = [Followed(m, to) EXCEPT ![w] = Idle]
  /\ UNCHANGED <<today, document, subject, logged, balance>>

\* The inherited create of a period, which takes any status; the month is unique.
CreatePeriod(w, m, status) ==
  /\ MayStart(w, "create_period")
  /\ PeriodFree(m)
  /\ period[m] = "none"
  /\ period' = [period EXCEPT ![m] = status]
  /\ shut' = IF status = "CLOSED" THEN shut \cup {m} ELSE shut
  /\ UNCHANGED <<today, document, subject, books, job>>

\* The inherited destroy of a period: vouchers protect theirs.
DestroyPeriod(w, m) ==
  /\ MayStart(w, "destroy_period")
  /\ PeriodFree(m)
  /\ period[m] # "none"
  /\ \A i \in DOMAIN vouchers : vouchers[i].month # m
  /\ period' = [period EXCEPT ![m] = "none"]
  /\ shut' = shut \ {m}
  /\ job' = Followed(m, NoMonth)
  /\ UNCHANGED <<today, document, subject, books>>

Used(s) == \E d \in logged : s \in {Entry(d).debit, Entry(d).credit}

\* The update of a subject: it is enabled or not.
EnableSubject(w, s, status) ==
  /\ MayStart(w, "edit_subject")
  /\ subject[s] # "missing"
  /\ subject' = [subject EXCEPT ![s] = status]
  /\ UNCHANGED <<today, document, period, books, shut, job>>

\* Its destroy: lines of vouchers protect theirs.
DestroySubject(w, s) ==
  /\ MayStart(w, "edit_subject")
  /\ ~ Used(s)
  /\ subject' = [subject EXCEPT ![s] = "missing"]
  /\ UNCHANGED <<today, document, period, books, shut, job>>

\* init_subjects makes those that are missing.
InitSubjects(w) ==
  /\ MayStart(w, "edit_subject")
  /\ subject' = [s \in Accounts!Subjects |->
                   IF subject[s] = "missing" THEN "enabled" ELSE subject[s]]
  /\ UNCHANGED <<today, document, period, books, shut, job>>

-----------------------------------------------------------------------------

\* The request under way goes on.
Serve(w) == EnsureOpen(w) \/ PostVoucher(w) \/ Refuse(w) \/ SaveDocument(w) \/ SavePeriod(w)

DocumentStep(w, d) ==
  \/ \E m \in Months, status \in {"APPROVED", "EXECUTED"} : LoadDocument(w, d, m, status)
  \/ \E auto \in AutoPosting : ExecuteOnly(w, d, auto)
  \/ Execute(w, d)

PeriodStep(w, m) ==
  \/ \E status \in {"OPEN", "CLOSED"} :
       CreatePeriod(w, m, status) \/ \E to \in Months : LoadPeriod(w, m, status, to)
  \/ ClosePeriod(w, m)
  \/ OpenPeriod(w, m)
  \/ DestroyPeriod(w, m)

SubjectStep(w) ==
  \/ \E s \in Edited :
       DestroySubject(w, s) \/ \E status \in {"enabled", "disabled"} : EnableSubject(w, s, status)
  \/ InitSubjects(w)

PostingNext ==
  \/ PassMonth
  \/ \E w \in Threads :
       \/ Serve(w)
       \/ Fail(w)
       \/ \E d \in Documents : DocumentStep(w, d)
       \/ \E m \in Months : PeriodStep(w, m)
       \/ SubjectStep(w)

PostingSpec == PostingInit /\ [][PostingNext]_postingVars

\* A request goes on, and the database gives a lock to who waits for it longest.
FairPosting == PostingSpec /\ \A w \in Threads : SF_postingVars(Serve(w))

-----------------------------------------------------------------------------

Jobs == {Idle}
  \cup [kind : {"edit"}, document : Documents, month : Months, status : {"APPROVED", "EXECUTED"}]
  \cup [kind : {"execute", "post"}, document : Documents, month : Months, status : {"none"}]
  \cup [kind : {"edit_period"}, document : {NoDocument}, month : Months \cup {NoMonth},
        status : {"OPEN", "CLOSED"}, was : {"OPEN", "CLOSED"}, to : Months]

\* Type invariant.
PostingTypeOK ==
  /\ today \in Months
  /\ document \in [Documents -> [status : {"APPROVED", "EXECUTED"}, month : Months]]
  /\ period \in [Months -> {"none", "OPEN", "CLOSED"}]
  /\ subject \in [Accounts!Subjects -> {"enabled", "disabled", "missing"}]
  /\ vouchers \in Seq([document : Documents, month : Months])
  /\ logged \subseteq Documents
  /\ balance \in [Accounts!Subjects -> Int]
  /\ shut \subseteq Months
  /\ job \in [Threads -> Jobs]

(***************************************************************************)
(* _post_once: a document has one voucher at most, even where a save of    *)
(* what was loaded earlier makes it APPROVED again and it is executed      *)
(* twice, or two requests execute it at a time.                            *)
(***************************************************************************)
PostedOnce ==
  \A i, j \in DOMAIN vouchers : vouchers[i].document = vouchers[j].document => i = j

(***************************************************************************)
(* Of two requests that execute one document only one gets to the log: who *)
(* is posting has not been overtaken, and the unique constraint of the log *)
(* is never what stops a second voucher.                                   *)
(***************************************************************************)
NotOvertaken == \A w \in Threads : Executing(w) => ~ Logged(job[w].document)

(***************************************************************************)
(* No voucher enters a period that was closed, by close_period or by an    *)
(* edit that says so, and not reopened since in either way, though the     *)
(* period is looked at before the voucher is made: ensure_open keeps it    *)
(* locked.  A closed period that an edit moves is closed where it is then. *)
(***************************************************************************)
ClosedTakesNothing ==
  [][Len(vouchers') > Len(vouchers) => vouchers'[Len(vouchers')].month \notin shut]_postingVars

(***************************************************************************)
(* The balances change by the vouchers of documents: what a rolled back    *)
(* execution did is not seen in them.                                      *)
(***************************************************************************)
BooksKept == Accounts!Spec

(***************************************************************************)
(* No execution waits for ever: neither for a period that a posting or a   *)
(* closing holds, nor for one that is closed.                              *)
(***************************************************************************)
ExecutionsEnd == \A w \in Threads : Executing(w) ~> ~ Executing(w)
=============================================================================
